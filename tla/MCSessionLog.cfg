CONSTANTS
    MaxLines = 7
    MaxBytes = 7
    Faults <- TornWrites
SPECIFICATION Spec
PROPERTIES
    LinesSurvive
