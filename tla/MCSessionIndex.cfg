CONSTANTS
    MaxLines = 6
    MaxBytes = 7
    Faults <- NoFaults
SPECIFICATION IndexSpec
INVARIANTS
    IndexTypeOK
    IndexIsHonest
PROPERTIES
    RecoveryCompletes
