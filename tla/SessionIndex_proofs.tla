------------------------ MODULE SessionIndex_proofs ------------------------
(***************************************************************************)
(* Proofs for SessionLog and SessionIndex, for any number of lines and any *)
(* size of a segment.  The log's types and the chain in each file hold     *)
(* whatever dies when; that lines survive, that history only grows and     *)
(* that a session in sync has its last line indexed, as long as no process *)
(* dies between the rename and the manifest; the rest of what the index    *)
(* says can be believed as long as none dies inside a write of the log     *)
(* either.                                                                 *)
(***************************************************************************)
EXTENDS SessionIndex, FiniteSetTheorems, WellFoundedInduction, TLAPS

-----------------------------------------------------------------------------
(* The inductive invariant of the log                                      *)

Writing == pc \in {"sealing", "renamed", "returning"}

\* Chunks end one behind the other, the tail behind them all, and no chunk is
\* longer than a line.
SizesFit ==
    /\ \A j, k \in DOMAIN active : j < k => active[j].to < active[k].to
    /\ tail # Nothing => NewlineEnd(active) < tail.to
    /\ FileSize <= LineBytes * written

\* The cursor in memory is the end of the file and ahead of all its lines; what
\* loadCursor would find is only needed when there is none.
CursorFits ==
    /\ Writing => cached
    /\ cached =>
          /\ tail = Nothing
          /\ cursor.seq <= written
          /\ pc # "renamed" => cursor.offset = NewlineEnd(active)
          /\ \A j \in DOMAIN active : Parses(active[j]) =>
                /\ active[j].seq < cursor.seq
                /\ j = Len(active) => cursor.seq = active[j].seq + 1 /\ cursor.last = active[j].id

\* Numbers are given out one per line, so none reaches the number of lines.
NumbersFit ==
    /\ \A j \in DOMAIN active : active[j].seq < written
    /\ tail.seq < written

ChainsFit ==
    /\ Chained(active)
    /\ \A i \in DOMAIN sealed : Chained(sealed[i])

\* Only a file with a line in it is renamed, and one at a time.
RotationFits ==
    /\ pc = "sealing" => active # <<>>
    /\ \A i \in DOMAIN sealed : sealed[i] # <<>>
    /\ pc = "renamed" => active = <<>> /\ Len(sealed) = manifest + 1

\* The lines that are, or are about to be, acknowledged.
Due == IF Writing THEN acked \union {written} ELSE acked
Bad(files) == Places(files) \ Good(files)

\* Without deaths between rename and manifest, every sealed file is listed, and
\* for each line missing from the files one of their chunks is unreadable.
NothingLost ==
    "rotate" \notin Faults =>
        /\ pc # "renamed" => Len(sealed) = manifest
        /\ IsFiniteSet(Bad(Files))
        /\ Cardinality(Due \ Ids(Files)) <= Cardinality(Bad(Files))

LogInv ==
    /\ TypeOK
    /\ SizesFit
    /\ CursorFits
    /\ NumbersFit
    /\ ChainsFit
    /\ RotationFits
    /\ NothingLost

-----------------------------------------------------------------------------
(* The inductive invariants of the index                                   *)

\* The last line of the active file that can be read is indexed.
LastIndexed ==
    \A j \in DOMAIN active :
        Parses(active[j]) /\ (\A k \in DOMAIN active : j < k => ~Parses(active[k]))
            => active[j].id \in indexed

\* In the first file the offset in the index is never behind the end of the file,
\* and is at it only if the last line is indexed.  The same will be true of the
\* offset that the mutator is about to write.
InSyncFits ==
    /\ step # "none" => cached
    /\ step = "cursor" => written \in indexed
    /\ manifest = 0 /\ pc # "renamed" =>
          /\ active # <<>>
          /\ offset <= FileSize
          /\ offset = FileSize => LastIndexed
          /\ Writing \/ step # "none" =>
                /\ end <= NewlineEnd(active)
                /\ end = NewlineEnd(active) => active[Len(active)].id = written

SyncInv ==
    /\ LogInv
    /\ IndexTypeOK
    /\ InSyncFits


\* Where no write is torn, every byte of the log belongs to a line, and the active
\* file exists unless a rotation has just moved it.
LogClean ==
    /\ tail = Nothing
    /\ \A j \in DOMAIN active : Parses(active[j])
    /\ \A i \in DOMAIN sealed : \A j \in DOMAIN sealed[i] : Parses(sealed[i][j])
    /\ present <=> active # <<>>
    /\ manifest = 0 /\ pc # "renamed" => active # <<>>
    /\ 1 \in acked

\* There the rows are of lines in the log.
IndexInv ==
    /\ SyncInv
    /\ LogClean
    /\ indexed \subseteq Ids(Files)

-----------------------------------------------------------------------------
(* Sequences and files                                                     *)

\* A non-empty set of indices has a greatest one.
LEMMA GreatestIndex ==
  ASSUME NEW n \in Nat, NEW S \in SUBSET (1..n), S # {}
  PROVE  Max(S) \in S /\ \A i \in S : i <= Max(S)
<1> DEFINE Above == {i .. n : i \in S}
<1>1. Above \subseteq FiniteSubsetsOf(Nat) /\ Above # {}
  <2>1. \A i \in S : i \in Int /\ i .. n \in SUBSET Nat
    OBVIOUS
  <2>2. \A i \in S : IsFiniteSet(i .. n)
    BY <2>1, FS_Interval
  <2> QED BY <2>1, <2>2 DEF FiniteSubsetsOf
<1> HIDE DEF Above
<1>2. PICK x \in Above : \A y \in Above : <<y, x>> \notin StrictSubsetOrdering(Nat)
  BY <1>1, FS_StrictSubsetOrderingWellFounded, WFMin
<1> USE DEF Above
<1>3. PICK m \in S : x = m .. n
  OBVIOUS
<1>4. ASSUME NEW i \in S, m < i PROVE FALSE
  <2>1. i .. n \subseteq m .. n /\ i .. n # m .. n /\ i .. n \in SUBSET Nat /\ m .. n \in SUBSET Nat
    BY <1>4
  <2>2. <<i .. n, m .. n>> \in StrictSubsetOrdering(Nat)
    BY <2>1 DEF StrictSubsetOrdering
  <2> QED BY <1>2, <1>3, <2>2
<1>5. \A i \in S : m >= i
  BY <1>4
<1>6. Max(S) \in S /\ \A i \in S : Max(S) >= i
  BY <1>5 DEF Max
<1> QED BY <1>6

\* The places and chunks of a list of files that ends in f.
LEMMA LastFile ==
  ASSUME NEW F \in Seq(Seq(ChunkType)), NEW f \in Seq(ChunkType)
  PROVE  /\ F \o <<f>> \in Seq(Seq(ChunkType))
         /\ Len(F \o <<f>>) = Len(F) + 1
         /\ \A i \in DOMAIN F : (F \o <<f>>)[i] = F[i]
         /\ (F \o <<f>>)[Len(F) + 1] = f
         /\ Places(F \o <<f>>) = Places(F) \union {<<Len(F) + 1, j>> : j \in DOMAIN f}
<1>1. /\ F \o <<f>> \in Seq(Seq(ChunkType))
      /\ Len(F \o <<f>>) = Len(F) + 1
      /\ DOMAIN (F \o <<f>>) = DOMAIN F \union {Len(F) + 1}
      /\ \A i \in DOMAIN F : (F \o <<f>>)[i] = F[i]
      /\ (F \o <<f>>)[Len(F) + 1] = f
  OBVIOUS
<1>2. Places(F \o <<f>>) = Places(F) \union {<<Len(F) + 1, j>> : j \in DOMAIN f}
  BY <1>1 DEF Places
<1> QED BY <1>1, <1>2

\* A chunk added to the last file is its new line, or its new unreadable place.
LEMMA ChunkAdded ==
  ASSUME NEW F \in Seq(Seq(ChunkType)), NEW f \in Seq(ChunkType), NEW c \in ChunkType
  PROVE  LET old == F \o <<f>>
             new == F \o <<Append(f, c)>>
             p   == <<Len(F) + 1, Len(f) + 1>>
         IN  /\ Grows(old, new)
             /\ p \notin Places(old)
             /\ Parses(c) => Ids(new) = Ids(old) \union {c.id} /\ Bad(new) = Bad(old)
             /\ ~Parses(c) => Ids(new) = Ids(old) /\ Bad(new) = Bad(old) \union {p}
<1> DEFINE g   == Append(f, c)
           old == F \o <<f>>
           new == F \o <<g>>
           p   == <<Len(F) + 1, Len(f) + 1>>
<1>1. /\ g \in Seq(ChunkType) /\ Len(g) = Len(f) + 1 /\ DOMAIN g = DOMAIN f \union {Len(f) + 1}
      /\ \A j \in DOMAIN f : g[j] = f[j]
      /\ g[Len(f) + 1] = c
      /\ DOMAIN f = 1 .. Len(f) /\ Len(f) \in Nat
  OBVIOUS
<1>2. /\ Len(old) = Len(F) + 1 /\ Len(new) = Len(F) + 1
      /\ DOMAIN old = 1 .. Len(F) + 1 /\ DOMAIN new = 1 .. Len(F) + 1
      /\ \A i \in DOMAIN F : old[i] = F[i] /\ new[i] = F[i]
      /\ old[Len(F) + 1] = f /\ new[Len(F) + 1] = g
      /\ DOMAIN F = 1 .. Len(F) /\ Len(F) \in Nat
  BY <1>1, LastFile
<1>3. Places(old) = Places(F) \union {<<Len(F) + 1, j>> : j \in DOMAIN f}
  BY LastFile
<1>4. Places(new) = Places(F) \union {<<Len(F) + 1, j>> : j \in DOMAIN g}
  BY <1>1, LastFile
<1>5. \A q \in Places(F) : q[1] \in DOMAIN F
  BY DEF Places
<1> HIDE DEF old, new, g
<1>6. Places(new) = Places(old) \union {p}
  BY <1>1, <1>3, <1>4
<1>7. p \notin Places(old)
  <2>1. p \notin Places(F)
    BY <1>2, <1>5
  <2> QED BY <1>1, <1>3, <2>1
<1>8. \A q \in Places(old) : new[q[1]][q[2]] = old[q[1]][q[2]]
  BY <1>1, <1>2, <1>3, <1>5
<1>9. new[p[1]][p[2]] = c
  BY <1>1, <1>2
<1>10. Grows(old, new)
  BY <1>1, <1>2 DEF Grows
<1>11. Parses(c) => Good(new) = Good(old) \union {p}
  BY <1>6, <1>8, <1>9 DEF Good
<1>12. ~Parses(c) => Good(new) = Good(old)
  BY <1>6, <1>8, <1>9 DEF Good
<1>13. ASSUME Parses(c) PROVE Ids(new) = Ids(old) \union {c.id} /\ Bad(new) = Bad(old)
  BY <1>6, <1>7, <1>8, <1>9, <1>11, <1>13 DEF Ids, Bad, Good
<1>14. ASSUME ~Parses(c) PROVE Ids(new) = Ids(old) /\ Bad(new) = Bad(old) \union {p}
  BY <1>6, <1>7, <1>8, <1>9, <1>12, <1>14 DEF Ids, Bad, Good
<1> QED BY <1>7, <1>10, <1>13, <1>14 DEF old, new, g

\* An empty file has no places.
LEMMA FileAdded ==
  ASSUME NEW F \in Seq(Seq(ChunkType))
  PROVE  LET new == F \o <<(<<>>)>>
         IN  Grows(F, new) /\ Ids(new) = Ids(F) /\ Bad(new) = Bad(F)
<1> DEFINE e   == <<>>
           new == F \o <<e>>
<1>1. e \in Seq(ChunkType) /\ DOMAIN e = {}
  OBVIOUS
<1> HIDE DEF e
<1>2. /\ new \in Seq(Seq(ChunkType)) /\ Len(new) = Len(F) + 1
      /\ \A i \in DOMAIN F : new[i] = F[i]
      /\ Places(new) = Places(F) \union {<<Len(F) + 1, j>> : j \in DOMAIN e}
  BY <1>1, LastFile
<1>3. DOMAIN F \subseteq DOMAIN new
  BY <1>2
<1> HIDE DEF new
<1>4. Grows(F, new)
  BY <1>2, <1>3 DEF Grows
<1>5. Places(new) = Places(F)
  BY <1>1, <1>2
<1>6. \A q \in Places(F) : new[q[1]][q[2]] = F[q[1]][q[2]]
  BY <1>2 DEF Places
<1>7. Good(new) = Good(F)
  BY <1>5, <1>6 DEF Good
<1>8. Ids(new) = Ids(F)
  BY <1>6, <1>7 DEF Ids, Good
<1> QED BY <1>4, <1>5, <1>7, <1>8 DEF Bad, e, new

-----------------------------------------------------------------------------
(* The log                                                                 *)

\* What loadCursor finds is the end of the file, or of its readable part, and
\* ahead of all its lines.
LEMMA LoadedFits ==
  ASSUME TypeOK, SizesFit, NumbersFit, Chained(active)
  PROVE  /\ Loaded \in [seq : 0..MaxLines, last : 0..MaxLines, offset : 0..(LineBytes * MaxLines)]
         /\ Loaded.seq <= written
         /\ \A j \in DOMAIN active : Parses(active[j]) =>
               /\ active[j].seq < Loaded.seq
               /\ j = Len(active) => Loaded.seq = active[j].seq + 1 /\ Loaded.last = active[j].id
         /\ tail = Nothing /\ (\A j \in DOMAIN active : Parses(active[j])) =>
               Loaded.offset = NewlineEnd(active)
<1> DEFINE lines == IF active = <<>> THEN <<tail>> ELSE active
           good  == {j \in DOMAIN lines : Parses(lines[j])}
           found == lines[Max(good)]
           at    == IF active = <<>> THEN tail.to ELSE NewlineEnd(active)
<1>1. Loaded = IF good = {} THEN Fresh ELSE [seq |-> found.seq + 1, last |-> found.id, offset |-> at]
  BY DEF Loaded
<1>2. /\ lines \in Seq(ChunkType) /\ Len(lines) \in Nat /\ DOMAIN lines = 1 .. Len(lines)
      /\ \A j \in DOMAIN lines : lines[j] \in ChunkType /\ lines[j].seq < written
  <2>1. CASE active = <<>>
    BY <2>1 DEF TypeOK, NumbersFit
  <2>2. CASE active # <<>>
    BY <2>2 DEF TypeOK, NumbersFit
  <2> QED BY <2>1, <2>2
<1>3. MaxLines \in Nat /\ written \in 1 .. MaxLines
  BY LogAssumption DEF TypeOK
<1>4. at \in 0 .. LineBytes * MaxLines
  <2>1. FileSize \in Nat /\ at \in Nat /\ at <= FileSize
    <3>1. CASE active = <<>>
      BY <3>1 DEF TypeOK, ChunkType, FileSize, NewlineEnd, Nothing, Unreadable, Line
    <3>2. CASE active # <<>>
      <4>1. Last(active) \in ChunkType
        BY <3>2 DEF TypeOK, Last
      <4>2. NewlineEnd(active) \in Nat
        BY <3>2, <4>1 DEF NewlineEnd, ChunkType
      <4>3. FileSize \in Nat /\ NewlineEnd(active) <= FileSize
        BY <4>2 DEF TypeOK, ChunkType, FileSize, SizesFit
      <4> QED BY <3>2, <4>2, <4>3
    <3> QED BY <3>1, <3>2
  <2> QED BY <1>3, <2>1 DEF SizesFit, LineBytes, BodyBytes
<1>5. CASE good = {}
  <2>1. Loaded = Fresh
    BY <1>1, <1>5
  <2>2. \A j \in DOMAIN active : ~Parses(active[j])
    BY <1>5
  <2>3. (\A j \in DOMAIN active : Parses(active[j])) => NewlineEnd(active) = 0
    BY <2>2 DEF TypeOK, NewlineEnd
  <2> QED BY <1>3, <2>1, <2>2, <2>3 DEF Fresh, LineBytes, BodyBytes
<1>6. CASE good # {}
  <2>1. Max(good) \in good /\ \A j \in good : j <= Max(good)
    <3>1. good \in SUBSET (1 .. Len(lines))
      BY <1>2
    <3> HIDE DEF good
    <3> QED BY <1>2, <1>6, <3>1, GreatestIndex
  <2>2. found \in ChunkType /\ found.seq < written /\ found.seq \in 0 .. MaxLines /\ found.id \in 0 .. MaxLines
    BY <1>2, <2>1 DEF ChunkType
  <2>3. /\ Loaded.seq = found.seq + 1 /\ Loaded.last = found.id /\ Loaded.offset = at
        /\ Loaded = [seq |-> found.seq + 1, last |-> found.id, offset |-> at]
    BY <1>1, <1>6
  <2> HIDE DEF found, at
  <2>4. Loaded \in [seq : 0..MaxLines, last : 0..MaxLines, offset : 0..(LineBytes * MaxLines)]
    BY <1>3, <1>4, <2>2, <2>3
  <2>5. Loaded.seq <= written
    BY <1>3, <2>2, <2>3
  <2>6. ASSUME NEW j \in DOMAIN active, Parses(active[j])
        PROVE  /\ active[j].seq < Loaded.seq
               /\ j = Len(active) => Loaded.seq = active[j].seq + 1 /\ Loaded.last = active[j].id
    <3>1. active # <<>> /\ lines = active
      BY DEF TypeOK
    <3>2. j \in good /\ j <= Max(good) /\ Max(good) \in DOMAIN active /\ Parses(active[Max(good)])
      BY <2>1, <2>6, <3>1
    <3>3. found = active[Max(good)]
      BY <3>1 DEF found
    <3>4. j = Max(good) \/ active[j].seq < found.seq
      <4> DEFINE m == Max(good)
      <4>1. j <= m /\ j \in 1 .. Len(active) /\ m \in 1 .. Len(active)
        BY <1>2, <3>1, <3>2
      <4> HIDE DEF m
      <4>2. j < m \/ j = m
        BY <4>1
      <4>3. j < m => active[j].seq < active[m].seq
        BY <2>6, <3>2 DEF Chained, m
      <4> QED BY <3>3, <4>2, <4>3 DEF m
    <3>5. active[j].seq \in Nat
      BY <1>2, <3>1 DEF ChunkType
    <3>6. j = Len(active) => j = Max(good)
      BY <1>2, <3>1, <3>2
    <3> QED BY <2>2, <2>3, <3>3, <3>4, <3>5, <3>6
  <2>7. ASSUME tail = Nothing PROVE Loaded.offset = NewlineEnd(active)
    <3>1. active # <<>>
      BY <1>6, <2>7 DEF Parses, Nothing, Unreadable, Line
    <3> QED BY <2>3, <3>1 DEF at
  <2> QED BY <2>4, <2>5, <2>6, <2>7
<1> QED BY <1>5, <1>6

\* The same of the cursor that a write uses.
LEMMA CursorIsAhead ==
  ASSUME LogInv, pc # "renamed"
  PROVE  /\ Cursor \in [seq : 0..MaxLines, last : 0..MaxLines, offset : 0..(LineBytes * MaxLines)]
         /\ Cursor.seq <= written
         /\ \A j \in DOMAIN active : Parses(active[j]) =>
               /\ active[j].seq < Cursor.seq
               /\ j = Len(active) => Cursor.seq = active[j].seq + 1 /\ Cursor.last = active[j].id
         /\ tail = Nothing /\ (\A j \in DOMAIN active : Parses(active[j])) =>
               Cursor.offset = NewlineEnd(active)
<1>1. CASE cached
  <2>1. Cursor = cursor
    BY <1>1 DEF Cursor
  <2>2. cursor \in [seq : 0..MaxLines, last : 0..MaxLines, offset : 0..(LineBytes * MaxLines)]
    BY DEF LogInv, TypeOK
  <2> QED BY <1>1, <2>1, <2>2 DEF LogInv, CursorFits
<1>2. CASE ~cached
  <2>1. Cursor = Loaded
    BY <1>2 DEF Cursor
  <2>2. TypeOK /\ SizesFit /\ NumbersFit /\ Chained(active)
    BY DEF LogInv, ChainsFit
  <2> QED BY <2>1, <2>2, LoadedFits
<1> QED BY <1>1, <1>2

LEMMA InitLogInv == Init => LogInv
<1> SUFFICES ASSUME Init PROVE LogInv
  OBVIOUS
<1>1. /\ MaxLines \in Nat \ {0}
      /\ active = <<Line(1, 0, 0, BodyBytes)>> /\ Len(active) = 1 /\ DOMAIN active = {1}
      /\ active[1] = [id |-> 1, seq |-> 0, parent |-> 0, to |-> 2]
      /\ tail = [id |-> 0, seq |-> 0, parent |-> 0, to |-> 0]
  BY LogAssumption DEF Init, Nothing, Unreadable, Line, BodyBytes
<1>2. active[1] \in ChunkType /\ tail \in ChunkType
  BY <1>1 DEF ChunkType, LineBytes, BodyBytes
<1>3. NewlineEnd(active) = 3 /\ FileSize = 3
  BY <1>1 DEF NewlineEnd, FileSize, Last, Nothing, Unreadable, Line
<1>4. TypeOK
  <2>1. active \in Seq(ChunkType)
    BY <1>1, <1>2
  <2> QED BY <1>1, <1>2, <2>1 DEF Init, TypeOK, LineBytes, BodyBytes
<1>5. SizesFit
  BY <1>1, <1>3 DEF SizesFit, Init, Nothing, Unreadable, Line, LineBytes, BodyBytes
<1>6. CursorFits
  BY <1>1, <1>3 DEF CursorFits, Init, Writing, Parses, LineBytes, BodyBytes
<1>7. NumbersFit /\ ChainsFit /\ RotationFits
  BY <1>1 DEF NumbersFit, ChainsFit, RotationFits, Chained, Init
<1>8. NothingLost
  <2> DEFINE none == <<>>
  <2>1. none \in Seq(Seq(ChunkType)) /\ SubSeq(sealed, 1, manifest) = none
    BY DEF Init
  <2>2. Files = none \o <<active>> /\ Due = {1} /\ Len(sealed) = manifest
    BY <2>1 DEF Init, Files, ReadFiles, Due, Writing
  <2>3. Places(Files) = {<<1, 1>>} /\ Files[1][1] = active[1]
    BY <1>1, <2>2 DEF Places
  <2>4. Good(Files) = {<<1, 1>>}
    BY <1>1, <2>3 DEF Good, Parses
  <2>5. Ids(Files) = {1}
    BY <1>1, <2>3, <2>4 DEF Ids
  <2>6. Due \ Ids(Files) = {} /\ Bad(Files) = {}
    BY <2>2, <2>3, <2>4, <2>5 DEF Bad
  <2>7. Cardinality(Due \ Ids(Files)) = 0 /\ Cardinality(Bad(Files)) = 0 /\ IsFiniteSet(Bad(Files))
    BY <2>6, FS_EmptySet
  <2> QED BY <2>2, <2>7 DEF NothingLost
<1> QED BY <1>4, <1>5, <1>6, <1>7, <1>8 DEF LogInv

\* What is missing and what is unreadable are finite.
LEMMA AckedFinite ==
  ASSUME TypeOK, NEW S
  PROVE  IsFiniteSet(Due \ S) /\ Cardinality(Due \ S) \in Nat
<1>1. MaxLines \in Nat /\ written \in 1 .. MaxLines /\ acked \subseteq 1 .. written
  BY LogAssumption DEF TypeOK
<1>2. Due \ S \in SUBSET (1 .. MaxLines)
  <2>1. acked \subseteq 1 .. MaxLines
    BY <1>1
  <2> QED BY <1>1, <2>1 DEF Due
<1>3. IsFiniteSet(1 .. MaxLines)
  <2>1. MaxLines \in Int /\ 1 \in Int
    BY <1>1
  <2> QED BY <2>1, FS_Interval
<1> QED BY <1>2, <1>3, FS_Subset, FS_CardinalityType

\* The bytes of the files are counted in natural numbers.
LEMMA SizesAreNaturals ==
  ASSUME TypeOK, SizesFit
  PROVE  /\ NewlineEnd(active) \in Nat /\ FileSize \in Nat
         /\ NewlineEnd(active) <= FileSize
         /\ tail # Nothing => NewlineEnd(active) < FileSize
         /\ \A j \in DOMAIN active : active[j].to < NewlineEnd(active)
<1>1. NewlineEnd(active) \in Nat /\ \A j \in DOMAIN active : active[j].to < NewlineEnd(active)
  <2>1. CASE active = <<>>
    BY <2>1 DEF NewlineEnd
  <2>2. CASE active # <<>>
    <3>1. /\ Len(active) \in DOMAIN active /\ DOMAIN active = 1 .. Len(active)
          /\ \A j \in DOMAIN active : active[j] \in ChunkType
      BY <2>2 DEF TypeOK
    <3>2. \A j \in DOMAIN active : active[j].to \in Nat
      BY <3>1 DEF ChunkType
    <3>3. NewlineEnd(active) = active[Len(active)].to + 1
      BY <2>2 DEF NewlineEnd, Last
    <3>4. ASSUME NEW j \in DOMAIN active PROVE active[j].to <= active[Len(active)].to
      <4>1. j < Len(active) \/ j = Len(active)
        BY <3>1
      <4>2. j < Len(active) => active[j].to < active[Len(active)].to
        BY <3>1 DEF SizesFit
      <4> QED BY <3>1, <3>2, <4>1, <4>2
    <3> QED BY <3>1, <3>2, <3>3, <3>4
  <2> QED BY <2>1, <2>2
<1>2. tail.to \in Nat
  BY DEF TypeOK, ChunkType
<1> QED BY <1>1, <1>2 DEF FileSize, SizesFit

\* The chunk that a write adds: the line, or unreadable bytes behind a torn tail.
LEMMA ChunkWritten ==
  ASSUME LogInv, WriteLine
  PROVE  \E c \in ChunkType :
            /\ active' = Append(active, c)
            /\ c.to = FileSize + BodyBytes
            /\ tail = Nothing => c = NextLine /\ Parses(c) /\ c.id = written + 1
                                 /\ c.seq = Cursor.seq /\ c.parent = Cursor.last
            /\ tail # Nothing => ~Parses(c) /\ c.seq = 0
<1> DEFINE c == Behind(NextLine, BodyBytes)
<1>1. /\ active' = Append(active, c) /\ pc = "idle" /\ written < MaxLines
      /\ MaxLines \in Nat /\ written \in 1 .. MaxLines
  BY LogAssumption DEF WriteLine, WithLine, LogInv, TypeOK
<1>2. /\ c = IF tail = Nothing THEN NextLine ELSE Unreadable(FileSize + 2)
      /\ NextLine = [id |-> written + 1, seq |-> Cursor.seq, parent |-> Cursor.last, to |-> FileSize + 2]
  BY DEF Behind, BodyBytes, NextLine, Line
<1>3. FileSize \in 0 .. LineBytes * written
  BY SizesAreNaturals DEF LogInv, SizesFit, LineBytes, BodyBytes
<1>4. FileSize + 2 \in 0 .. LineBytes * MaxLines
  BY <1>1, <1>3 DEF LineBytes, BodyBytes
<1>5. Cursor.seq \in 0 .. MaxLines /\ Cursor.last \in 0 .. MaxLines
  BY <1>1, CursorIsAhead
<1> HIDE DEF c
<1>6. CASE tail = Nothing
  <2>1. c = [id |-> written + 1, seq |-> Cursor.seq, parent |-> Cursor.last, to |-> FileSize + 2]
    BY <1>2, <1>6
  <2>2. c \in ChunkType
    BY <1>1, <1>4, <1>5, <2>1 DEF ChunkType
  <2>3. Parses(c)
    BY <1>1, <2>1 DEF Parses
  <2>4. c = NextLine
    BY <1>2, <1>6
  <2> QED BY <1>1, <1>6, <2>1, <2>2, <2>3, <2>4 DEF BodyBytes
<1>7. CASE tail # Nothing
  <2>1. c = [id |-> 0, seq |-> 0, parent |-> 0, to |-> FileSize + 2]
    BY <1>2, <1>7 DEF Unreadable, Line
  <2>2. c \in ChunkType
    BY <1>1, <1>4, <2>1 DEF ChunkType
  <2>3. ~Parses(c)
    BY <2>1 DEF Parses
  <2> QED BY <1>1, <1>7, <2>1, <2>2, <2>3 DEF BodyBytes
<1> QED BY <1>6, <1>7

LEMMA WriteLineStep ==
  ASSUME LogInv, WriteLine
  PROVE  LogInv' /\ ("rotate" \notin Faults => Grows(Files, Files'))
<1>1. PICK c \in ChunkType :
            /\ active' = Append(active, c)
            /\ c.to = FileSize + BodyBytes
            /\ tail = Nothing => c = NextLine /\ Parses(c) /\ c.id = written + 1
                                 /\ c.seq = Cursor.seq /\ c.parent = Cursor.last
            /\ tail # Nothing => ~Parses(c) /\ c.seq = 0
  BY ChunkWritten
<1>2. /\ pc = "idle" /\ written < MaxLines /\ MaxLines \in Nat /\ written \in 1 .. MaxLines
      /\ active \in Seq(ChunkType) /\ tail \in ChunkType
      /\ tail' = Nothing /\ present' = TRUE /\ cached' = TRUE /\ written' = written + 1
      /\ cursor' = [seq |-> Cursor.seq + 1, last |-> written + 1, offset |-> NewlineEnd(active')]
      /\ end' = Cursor.offset + LineBytes
      /\ pc' \in {"sealing", "returning"}
      /\ sealed' = sealed /\ manifest' = manifest /\ acked' = acked
  BY LogAssumption DEF WriteLine, LogInv, TypeOK
<1>3. /\ active' \in Seq(ChunkType) /\ Len(active') = Len(active) + 1 /\ Len(active) \in Nat
      /\ DOMAIN active' = DOMAIN active \union {Len(active) + 1} /\ DOMAIN active = 1 .. Len(active)
      /\ \A j \in DOMAIN active : active'[j] = active[j]
      /\ active'[Len(active) + 1] = c
      /\ \A j \in DOMAIN active : active[j].seq \in Nat /\ active[j].to \in Nat
  <2>1. /\ active' \in Seq(ChunkType) /\ Len(active') = Len(active) + 1 /\ Len(active) \in Nat
        /\ DOMAIN active' = DOMAIN active \union {Len(active) + 1} /\ DOMAIN active = 1 .. Len(active)
        /\ \A j \in DOMAIN active : active'[j] = active[j]
        /\ active'[Len(active) + 1] = c
        /\ \A j \in DOMAIN active : active[j] \in ChunkType
    BY <1>1, <1>2
  <2>2. \A x \in ChunkType : x.seq \in Nat /\ x.to \in Nat
    BY DEF ChunkType
  <2> QED BY <2>1, <2>2
<1>4. /\ Cursor \in [seq : 0..MaxLines, last : 0..MaxLines, offset : 0..(LineBytes * MaxLines)]
      /\ Cursor.seq <= written
      /\ \A j \in DOMAIN active : Parses(active[j]) =>
            /\ active[j].seq < Cursor.seq
            /\ j = Len(active) => Cursor.seq = active[j].seq + 1 /\ Cursor.last = active[j].id
  BY <1>2, CursorIsAhead
<1>5. /\ FileSize \in Nat /\ FileSize <= LineBytes * written
      /\ NewlineEnd(active) \in Nat /\ NewlineEnd(active) <= FileSize
      /\ \A j \in DOMAIN active : active[j].to < NewlineEnd(active)
  BY SizesAreNaturals DEF LogInv, SizesFit
<1>6. NewlineEnd(active') = FileSize + LineBytes /\ FileSize' = FileSize + LineBytes
  <2>1. NewlineEnd(active') = c.to + 1
    BY <1>3 DEF NewlineEnd, Last
  <2>2. FileSize' = NewlineEnd(active')
    BY <1>2 DEF FileSize, Nothing, Unreadable, Line, NewlineEnd
  <2> QED BY <1>1, <1>5, <2>1, <2>2 DEF LineBytes, BodyBytes
<1>7. FileSize + LineBytes <= LineBytes * (written + 1) /\ FileSize + LineBytes <= LineBytes * MaxLines
  BY <1>2, <1>5 DEF LineBytes, BodyBytes
<1>8. TypeOK'
  <2>1. cursor' \in [seq : 0..MaxLines, last : 0..MaxLines, offset : 0..(LineBytes * MaxLines)]
    <3>1. Cursor.seq + 1 \in 0 .. MaxLines /\ written + 1 \in 0 .. MaxLines
      BY <1>2, <1>4
    <3>2. NewlineEnd(active') \in 0 .. LineBytes * MaxLines
      BY <1>2, <1>5, <1>6, <1>7 DEF LineBytes, BodyBytes
    <3> QED BY <1>2, <3>1, <3>2
  <2>2. end' \in 0..(LineBytes * (MaxLines + 1))
    <3>1. Cursor.offset \in 0..(LineBytes * MaxLines)
      BY <1>4
    <3> QED BY <1>2, <3>1 DEF LineBytes, BodyBytes
  <2>3. tail' \in ChunkType
    BY <1>2 DEF ChunkType, Nothing, Unreadable, Line, LineBytes, BodyBytes
  <2>4. sealed \in Seq(Seq(ChunkType)) /\ manifest \in Nat /\ manifest <= Len(sealed)
        /\ Len(sealed) <= manifest + 1 /\ acked \subseteq 1 .. written
    BY DEF LogInv, TypeOK
  <2>5. written' \in 1 .. MaxLines /\ acked' \subseteq 1 .. written'
    BY <1>2, <2>4
  <2> QED BY <1>2, <1>3, <2>1, <2>2, <2>3, <2>4, <2>5 DEF TypeOK
<1>9. SizesFit'
  <2>1. ASSUME NEW j \in DOMAIN active', NEW k \in DOMAIN active', j < k
        PROVE  active'[j].to < active'[k].to
    <3>1. j \in DOMAIN active
      BY <1>3, <2>1
    <3>2. CASE k \in DOMAIN active
      BY <1>3, <2>1, <3>1, <3>2 DEF LogInv, SizesFit
    <3>3. CASE k = Len(active) + 1
      BY <1>1, <1>3, <1>5, <3>1, <3>3 DEF BodyBytes
    <3> QED BY <1>3, <3>2, <3>3
  <2>2. FileSize' <= LineBytes * written'
    BY <1>2, <1>6, <1>7
  <2> QED BY <1>2, <2>1, <2>2 DEF SizesFit, Nothing, Unreadable, Line
<1>10. CursorFits'
  <2>1. ASSUME NEW j \in DOMAIN active', Parses(active'[j])
        PROVE  /\ active'[j].seq < cursor'.seq
               /\ j = Len(active') => /\ cursor'.seq = active'[j].seq + 1
                                      /\ cursor'.last = active'[j].id
    <3>1. cursor'.seq = Cursor.seq + 1 /\ cursor'.last = written + 1 /\ Cursor.seq \in Nat
      BY <1>2, <1>4
    <3>2. CASE j \in DOMAIN active
      <4>1. active[j].seq < Cursor.seq /\ active[j].seq \in Nat /\ j # Len(active')
        BY <1>3, <1>4, <2>1, <3>2
      <4> QED BY <1>3, <3>1, <3>2, <4>1
    <3>3. CASE j = Len(active) + 1
      BY <1>1, <1>3, <2>1, <3>1, <3>3
    <3> QED BY <1>3, <3>2, <3>3
  <2>2. cursor'.seq <= written' /\ cursor'.offset = NewlineEnd(active')
    BY <1>2, <1>4
  <2> QED BY <1>2, <2>1, <2>2 DEF CursorFits

<1>11. NumbersFit'
  <2>1. tail'.seq = 0
    BY <1>2 DEF Nothing, Unreadable, Line
  <2>2. c.seq < written + 1
    BY <1>1, <1>2, <1>4
  <2>3. ASSUME NEW j \in DOMAIN active' PROVE active'[j].seq < written'
    <3>1. CASE j \in DOMAIN active
      <4>1. active[j].seq < written /\ active[j].seq \in Nat
        BY <1>3, <3>1 DEF LogInv, NumbersFit
      <4> QED BY <1>2, <1>3, <3>1, <4>1
    <3>2. CASE j = Len(active) + 1
      BY <1>2, <1>3, <2>2, <3>2
    <3> QED BY <1>3, <3>1, <3>2
  <2> QED BY <1>2, <2>1, <2>3 DEF NumbersFit
<1>12. Chained(active')
  <2> SUFFICES ASSUME NEW j \in DOMAIN active', NEW k \in DOMAIN active',
                      j < k, Parses(active'[j]), Parses(active'[k])
               PROVE  /\ active'[j].seq < active'[k].seq
                      /\ k = j + 1 => /\ active'[k].seq = active'[j].seq + 1
                                      /\ active'[k].parent = active'[j].id
    BY DEF Chained
  <2>1. j \in DOMAIN active
    BY <1>3
  <2>2. CASE k \in DOMAIN active
    BY <1>3, <2>1, <2>2 DEF LogInv, ChainsFit, Chained
  <2>3. CASE k = Len(active) + 1
    <3>1. c.seq = Cursor.seq /\ c.parent = Cursor.last
      BY <1>1, <1>3, <2>3
    <3>2. k = j + 1 => j = Len(active)
      BY <1>3, <2>1, <2>3
    <3> QED BY <1>3, <1>4, <2>1, <2>3, <3>1, <3>2
  <2> QED BY <1>3, <2>2, <2>3
<1>13. ChainsFit' /\ RotationFits'
  <2>1. active' # <<>>
    BY <1>3
  <2> QED BY <1>2, <1>12, <2>1 DEF LogInv, ChainsFit, RotationFits
<1>14. ASSUME "rotate" \notin Faults
       PROVE  NothingLost' /\ Grows(Files, Files')
  <2> DEFINE F == SubSeq(sealed, 1, manifest)
             p == <<Len(F) + 1, Len(active) + 1>>
  <2>1. F \in Seq(Seq(ChunkType)) /\ Len(sealed) = manifest
    BY <1>2, <1>14 DEF LogInv, TypeOK, NothingLost
  <2>2. Files = F \o <<active>> /\ Files' = F \o <<Append(active, c)>>
    BY <1>1, <1>2 DEF Files, ReadFiles
  <2> HIDE DEF F
  <2>3. /\ Grows(Files, Files')
        /\ p \notin Places(Files)
        /\ Parses(c) => Ids(Files') = Ids(Files) \union {c.id} /\ Bad(Files') = Bad(Files)
        /\ ~Parses(c) => Ids(Files') = Ids(Files) /\ Bad(Files') = Bad(Files) \union {p}
    BY <1>2, <2>1, <2>2, ChunkAdded
  <2>4. IsFiniteSet(Bad(Files)) /\ Cardinality(Due \ Ids(Files)) <= Cardinality(Bad(Files))
    BY <1>14 DEF LogInv, NothingLost
  <2>5. Due = acked /\ Due' = acked \union {written + 1}
    BY <1>2 DEF Due, Writing
  <2>6. /\ IsFiniteSet(Due \ Ids(Files)) /\ Cardinality(Due \ Ids(Files)) \in Nat
        /\ Cardinality(Bad(Files)) \in Nat
    BY <2>4, AckedFinite, FS_CardinalityType DEF LogInv
  <2>7. IsFiniteSet(Bad(Files')) /\ Cardinality(Due' \ Ids(Files')) <= Cardinality(Bad(Files'))
    <3>1. CASE Parses(c)
      <4>1. c.id = written + 1 /\ Bad(Files') = Bad(Files)
        BY <1>1, <2>3, <3>1
      <4>2. Due' \ Ids(Files') \in SUBSET (Due \ Ids(Files))
        BY <2>3, <2>5, <3>1, <4>1
      <4>3. Cardinality(Due' \ Ids(Files')) <= Cardinality(Due \ Ids(Files))
        BY <2>6, <4>2, FS_Subset
      <4>4. Cardinality(Due' \ Ids(Files')) \in Nat
        BY <2>6, <4>2, FS_Subset, FS_CardinalityType
      <4> QED BY <2>4, <2>6, <4>1, <4>3, <4>4
    <3>2. CASE ~Parses(c)
      <4> DEFINE lost == (Due \ Ids(Files)) \union {written + 1}
      <4>1. Due' \ Ids(Files') \in SUBSET lost
        BY <2>3, <2>5, <3>2
      <4>2. IsFiniteSet(lost) /\ Cardinality(lost) <= Cardinality(Due \ Ids(Files)) + 1
            /\ Cardinality(lost) \in Nat
        BY <2>6, FS_AddElement
      <4> HIDE DEF lost
      <4>3. /\ Cardinality(Due' \ Ids(Files')) <= Cardinality(lost)
            /\ Cardinality(Due' \ Ids(Files')) \in Nat
        BY <4>1, <4>2, FS_Subset, FS_CardinalityType
      <4>4. p \notin Bad(Files)
        BY <2>3 DEF Bad
      <4>5. IsFiniteSet(Bad(Files')) /\ Cardinality(Bad(Files')) = Cardinality(Bad(Files)) + 1
        BY <2>3, <2>4, <3>2, <4>4, FS_AddElement
      <4> QED BY <2>4, <2>6, <4>2, <4>3, <4>5
    <3> QED BY <3>1, <3>2
  <2>8. Len(sealed') = manifest'
    BY <1>2, <2>1
  <2> QED BY <2>3, <2>7, <2>8 DEF NothingLost
<1>15. NothingLost'
  BY <1>14 DEF NothingLost
<1> QED BY <1>8, <1>9, <1>10, <1>11, <1>13, <1>14, <1>15 DEF LogInv

LEMMA GrowsStays == \A files : Grows(files, files)
  BY DEF Grows

LEMMA TearStep ==
  ASSUME LogInv, Tear
  PROVE  LogInv' /\ Files' = Files
<1>1. PICK n \in 0 .. BodyBytes : tail' = Behind(NextLine, n)
  BY DEF Tear
<1>2. /\ pc = "idle" /\ written < MaxLines /\ MaxLines \in Nat /\ written \in 1 .. MaxLines
      /\ active \in Seq(ChunkType) /\ tail \in ChunkType
      /\ present' = TRUE /\ cached' = FALSE /\ written' = written + 1
      /\ cursor' = Fresh /\ pc' = "down" /\ UNCHANGED <<active, sealed, manifest, end, acked>>
  BY LogAssumption DEF Tear, LogInv, TypeOK
<1>3. /\ FileSize \in Nat /\ FileSize <= LineBytes * written
      /\ NewlineEnd(active) \in Nat /\ NewlineEnd(active) <= FileSize
      /\ tail # Nothing => NewlineEnd(active) < FileSize
  BY SizesAreNaturals DEF LogInv, SizesFit
<1>4. Cursor.seq \in 0 .. MaxLines /\ Cursor.last \in 0 .. MaxLines /\ Cursor.seq <= written
  BY <1>2, CursorIsAhead
<1>5. /\ tail' \in ChunkType /\ tail'.seq < written'
      /\ tail' # Nothing => NewlineEnd(active) < tail'.to /\ tail'.to <= LineBytes * written'
  <2>1. CASE n = 0
    <3>1. tail' = tail
      BY <1>1, <2>1 DEF Behind
    <3>2. tail.seq < written /\ tail.seq \in Nat
      BY <1>2 DEF LogInv, NumbersFit, ChunkType
    <3>3. tail # Nothing => FileSize = tail.to
      BY DEF FileSize
    <3> QED BY <1>2, <1>3, <3>1, <3>2, <3>3 DEF LineBytes, BodyBytes
  <2>2. CASE n # 0
    <3>1. n \in 1 .. 2
      BY <1>1, <2>2 DEF BodyBytes
    <3>2. \/ tail' = [id |-> written + 1, seq |-> Cursor.seq, parent |-> Cursor.last, to |-> FileSize + n]
          \/ tail' = [id |-> 0, seq |-> 0, parent |-> 0, to |-> FileSize + n]
      BY <1>1, <2>2 DEF Behind, BodyBytes, NextLine, Line, Unreadable
    <3>3. FileSize + n \in 0 .. LineBytes * MaxLines /\ FileSize + n <= LineBytes * (written + 1)
      BY <1>2, <1>3, <3>1 DEF LineBytes, BodyBytes
    <3>4. written + 1 \in 0 .. MaxLines /\ 0 \in 0 .. MaxLines
      BY <1>2
    <3>5. tail' \in ChunkType
      BY <1>4, <3>2, <3>3, <3>4 DEF ChunkType
    <3>6. tail'.to = FileSize + n /\ (tail'.seq = Cursor.seq \/ tail'.seq = 0)
      BY <3>2
    <3> QED BY <1>2, <1>3, <1>4, <3>1, <3>3, <3>5, <3>6
  <2> QED BY <2>1, <2>2
<1>6. TypeOK'
  <2>1. cursor' \in [seq : 0..MaxLines, last : 0..MaxLines, offset : 0..(LineBytes * MaxLines)]
    BY <1>2 DEF Fresh, LineBytes, BodyBytes
  <2>2. written' \in 1 .. MaxLines /\ acked' \subseteq 1 .. written'
    BY <1>2 DEF LogInv, TypeOK
  <2> QED BY <1>2, <1>5, <2>1, <2>2 DEF LogInv, TypeOK
<1>7. SizesFit'
  <2>1. FileSize' <= LineBytes * written'
    <3>1. FileSize' = IF tail' = Nothing THEN NewlineEnd(active) ELSE tail'.to
      BY <1>2 DEF FileSize
    <3>2. NewlineEnd(active) <= LineBytes * written'
      BY <1>2, <1>3 DEF LineBytes, BodyBytes
    <3> QED BY <1>5, <3>1, <3>2
  <2> QED BY <1>2, <1>5, <2>1 DEF LogInv, SizesFit
<1>8. NumbersFit'
  <2>1. ASSUME NEW j \in DOMAIN active PROVE active[j].seq < written + 1
    <3>1. active[j] \in ChunkType /\ active[j].seq < written
      BY <1>2 DEF LogInv, NumbersFit
    <3> QED BY <1>2, <3>1 DEF ChunkType
  <2> QED BY <1>2, <1>5, <2>1 DEF NumbersFit
<1>9. Files' = Files /\ Due' = Due
  BY <1>2 DEF Files, ReadFiles, Due, Writing
<1>10. CursorFits' /\ ChainsFit' /\ RotationFits' /\ NothingLost'
  BY <1>2, <1>9 DEF LogInv, CursorFits, Writing, ChainsFit, RotationFits, NothingLost
<1> QED BY <1>6, <1>7, <1>8, <1>9, <1>10 DEF LogInv

\* The rename puts the active file behind the sealed ones, where the reader had it.
LEMMA RenameStep ==
  ASSUME LogInv, Rename
  PROVE  LogInv' /\ ("rotate" \notin Faults => Files' = Files)
<1> DEFINE F == SubSeq(sealed, 1, manifest)
<1>1. /\ pc = "sealing" /\ sealed' = Append(F, active) /\ active' = <<>> /\ present' = FALSE
      /\ pc' = "renamed"
      /\ UNCHANGED <<tail, manifest, cursor, cached, written, end, acked>>
      /\ cached /\ tail = Nothing
  BY DEF Rename, memVars, LogInv, CursorFits, Writing
<1>2. /\ active \in Seq(ChunkType) /\ sealed \in Seq(Seq(ChunkType))
      /\ manifest \in Nat /\ manifest <= Len(sealed)
  BY DEF LogInv, TypeOK
<1>3. /\ F \in Seq(Seq(ChunkType)) /\ Len(F) = manifest
      /\ DOMAIN F = 1 .. manifest
      /\ \A i \in DOMAIN F : F[i] = sealed[i] /\ i \in DOMAIN sealed
  BY <1>2
<1> HIDE DEF F
<1>4. /\ sealed' \in Seq(Seq(ChunkType)) /\ Len(sealed') = manifest + 1
      /\ DOMAIN sealed' = DOMAIN F \union {manifest + 1}
      /\ \A i \in DOMAIN F : sealed'[i] = F[i]
      /\ sealed'[manifest + 1] = active
      /\ sealed' = F \o <<active>>
  <2> DEFINE G == Append(F, active)
  <2>1. /\ G \in Seq(Seq(ChunkType)) /\ Len(G) = manifest + 1
        /\ DOMAIN G = DOMAIN F \union {manifest + 1}
        /\ \A i \in DOMAIN F : G[i] = F[i]
        /\ G[manifest + 1] = active
    BY <1>2, <1>3
  <2>2. G = F \o <<active>>
    BY <1>2, <1>3
  <2>3. sealed' = G
    BY <1>1
  <2> HIDE DEF G
  <2> QED BY <2>1, <2>2, <2>3
<1>5. TypeOK'
  <2>1. active' \in Seq(ChunkType)
    BY <1>1
  <2>2. manifest' <= Len(sealed') /\ Len(sealed') <= manifest' + 1
    BY <1>1, <1>2, <1>4
  <2> QED BY <1>1, <1>2, <1>4, <2>1, <2>2 DEF LogInv, TypeOK
<1>6. SizesFit'
  <2>1. FileSize' = 0
    BY <1>1 DEF FileSize, NewlineEnd
  <2>2. written \in Nat
    BY DEF LogInv, TypeOK
  <2> QED BY <1>1, <2>1, <2>2 DEF SizesFit, LineBytes, BodyBytes
<1>7. CursorFits' /\ NumbersFit'
  BY <1>1 DEF LogInv, CursorFits, NumbersFit, Writing
<1>8. ChainsFit'
  <2>1. Chained(active')
    BY <1>1 DEF Chained
  <2>2. ASSUME NEW i \in DOMAIN sealed' PROVE Chained(sealed'[i])
    BY <1>3, <1>4 DEF LogInv, ChainsFit
  <2> QED BY <2>1, <2>2 DEF ChainsFit
<1>9. RotationFits'
  BY <1>1, <1>3, <1>4 DEF LogInv, RotationFits
<1>10. Files' = Files
  BY <1>1, <1>4 DEF Files, ReadFiles, F
<1>11. Due' = Due
  BY <1>1 DEF Due, Writing
<1>12. NothingLost'
  BY <1>1, <1>10, <1>11 DEF LogInv, NothingLost
<1> QED BY <1>5, <1>6, <1>7, <1>8, <1>9, <1>10, <1>12 DEF LogInv

\* The manifest lists the renamed file; the new active file is empty.
LEMMA WriteManifestStep ==
  ASSUME LogInv, WriteManifest
  PROVE  LogInv' /\ Grows(Files, Files')
<1>1. /\ pc = "renamed" /\ manifest' = manifest + 1 /\ cursor' = [cursor EXCEPT !.offset = 0]
      /\ pc' = "returning"
      /\ UNCHANGED <<active, tail, present, sealed, cached, written, end, acked>>
      /\ active = <<>> /\ Len(sealed) = manifest + 1
  BY DEF WriteManifest, LogInv, RotationFits
<1>2. /\ sealed \in Seq(Seq(ChunkType)) /\ manifest \in Nat
      /\ cursor \in [seq : 0..MaxLines, last : 0..MaxLines, offset : 0..(LineBytes * MaxLines)]
      /\ MaxLines \in Nat
  BY LogAssumption DEF LogInv, TypeOK
<1>3. /\ cursor' \in [seq : 0..MaxLines, last : 0..MaxLines, offset : 0..(LineBytes * MaxLines)]
      /\ cursor'.seq = cursor.seq /\ cursor'.last = cursor.last /\ cursor'.offset = 0
  BY <1>1, <1>2 DEF LineBytes, BodyBytes
<1>4. TypeOK'
  BY <1>1, <1>2, <1>3 DEF LogInv, TypeOK
<1>5. SizesFit' /\ NumbersFit' /\ ChainsFit' /\ RotationFits'
  BY <1>1 DEF LogInv, SizesFit, NumbersFit, ChainsFit, RotationFits, FileSize
<1>6. CursorFits'
  <2>1. NewlineEnd(active') = 0
    BY <1>1 DEF NewlineEnd
  <2> QED BY <1>1, <1>3, <2>1 DEF LogInv, CursorFits, Writing
<1>7. Files = sealed /\ Files' = sealed \o <<(<<>>)>> /\ Due' = Due
  <2>1. SubSeq(sealed, 1, manifest + 1) = sealed
    BY <1>1, <1>2
  <2> QED BY <1>1, <2>1 DEF Files, ReadFiles, Due, Writing
<1>8. Grows(Files, Files') /\ Ids(Files') = Ids(Files) /\ Bad(Files') = Bad(Files)
  BY <1>2, <1>7, FileAdded
<1>9. NothingLost'
  BY <1>1, <1>7, <1>8 DEF LogInv, NothingLost
<1> QED BY <1>4, <1>5, <1>6, <1>8, <1>9 DEF LogInv

LEMMA ReturnStep ==
  ASSUME LogInv, Return
  PROVE  LogInv' /\ Files' = Files /\ acked' = acked \union {written}
<1>1. /\ pc = "returning" /\ pc' = "idle" /\ acked' = acked \union {written}
      /\ UNCHANGED <<active, tail, present, sealed, manifest, cursor, cached, written, end>>
  BY DEF Return, fileVars
<1>2. TypeOK'
  <2>1. acked \subseteq 1 .. written /\ written \in 1 .. MaxLines
    BY DEF LogInv, TypeOK
  <2>2. acked' \subseteq 1 .. written'
    BY <1>1, <2>1, LogAssumption
  <2> QED BY <1>1, <2>2 DEF LogInv, TypeOK
<1>3. SizesFit' /\ CursorFits' /\ NumbersFit' /\ ChainsFit' /\ RotationFits'
  BY <1>1 DEF LogInv, SizesFit, CursorFits, Writing, NumbersFit, ChainsFit, RotationFits, FileSize
<1>4. Files' = Files /\ Due' = Due
  BY <1>1 DEF Files, ReadFiles, Due, Writing
<1>5. NothingLost'
  BY <1>1, <1>4 DEF LogInv, NothingLost
<1> QED BY <1>1, <1>2, <1>3, <1>4, <1>5 DEF LogInv

LEMMA CrashStep ==
  ASSUME LogInv, Crash
  PROVE  LogInv' /\ ("rotate" \notin Faults => Files' = Files)
<1>1. /\ pc' = "down" /\ cached' = FALSE /\ cursor' = Fresh
      /\ UNCHANGED <<active, tail, present, sealed, manifest, written, end, acked>>
      /\ pc = "renamed" => "rotate" \in Faults
  BY DEF Crash, fileVars
<1>2. TypeOK'
  <2>1. cursor' \in [seq : 0..MaxLines, last : 0..MaxLines, offset : 0..(LineBytes * MaxLines)]
    BY <1>1, LogAssumption DEF Fresh, LineBytes, BodyBytes
  <2> QED BY <1>1, <2>1 DEF LogInv, TypeOK
<1>3. SizesFit' /\ CursorFits' /\ NumbersFit' /\ ChainsFit' /\ RotationFits'
  BY <1>1 DEF LogInv, SizesFit, CursorFits, Writing, NumbersFit, ChainsFit, RotationFits, FileSize
<1>4. ASSUME "rotate" \notin Faults
      PROVE  NothingLost' /\ Files' = Files
  <2>1. Files' = Files
    BY <1>1, <1>4 DEF Files, ReadFiles
  <2>2. Due' \ Ids(Files') \in SUBSET (Due \ Ids(Files))
    BY <1>1, <2>1 DEF Due, Writing
  <2>3. /\ IsFiniteSet(Due \ Ids(Files)) /\ Cardinality(Due \ Ids(Files)) \in Nat
        /\ IsFiniteSet(Bad(Files)) /\ Cardinality(Bad(Files)) \in Nat
        /\ Cardinality(Due \ Ids(Files)) <= Cardinality(Bad(Files))
    BY <1>4, AckedFinite, FS_CardinalityType DEF LogInv, NothingLost
  <2>4. /\ Cardinality(Due' \ Ids(Files')) <= Cardinality(Due \ Ids(Files))
        /\ Cardinality(Due' \ Ids(Files')) \in Nat
    BY <2>2, <2>3, FS_Subset, FS_CardinalityType
  <2>5. pc # "renamed" /\ Len(sealed') = manifest'
    BY <1>1, <1>4 DEF LogInv, NothingLost
  <2> QED BY <2>1, <2>3, <2>4, <2>5 DEF NothingLost
<1>5. NothingLost'
  BY <1>4 DEF NothingLost
<1> QED BY <1>2, <1>3, <1>4, <1>5 DEF LogInv

LEMMA RestartStep ==
  ASSUME LogInv, Restart \/ UNCHANGED logVars
  PROVE  LogInv' /\ Files' = Files
<1>1. /\ UNCHANGED <<active, tail, present, sealed, manifest, cursor, cached, written, end, acked>>
      /\ pc' = pc \/ (pc = "down" /\ pc' = "idle")
  BY DEF Restart, logVars, fileVars, memVars
<1>2. TypeOK'
  BY <1>1 DEF LogInv, TypeOK
<1>3. SizesFit' /\ CursorFits' /\ NumbersFit' /\ ChainsFit' /\ RotationFits'
  BY <1>1 DEF LogInv, SizesFit, CursorFits, Writing, NumbersFit, ChainsFit, RotationFits, FileSize
<1>4. Files' = Files /\ Due' = Due
  BY <1>1 DEF Files, ReadFiles, Due, Writing
<1>5. NothingLost'
  BY <1>1, <1>4 DEF LogInv, NothingLost
<1> QED BY <1>2, <1>3, <1>4, <1>5 DEF LogInv

LEMMA LogStep ==
  ASSUME LogInv, [Next]_logVars
  PROVE  LogInv' /\ ("rotate" \notin Faults => Grows(Files, Files'))
<1>1. CASE WriteLine
  BY <1>1, WriteLineStep
<1>2. CASE Tear
  BY <1>2, TearStep, GrowsStays
<1>3. CASE Rename
  BY <1>3, RenameStep, GrowsStays
<1>4. CASE WriteManifest
  BY <1>4, WriteManifestStep
<1>5. CASE Return
  BY <1>5, ReturnStep, GrowsStays
<1>6. CASE Crash
  BY <1>6, CrashStep, GrowsStays
<1>7. CASE Restart \/ UNCHANGED logVars
  BY <1>7, RestartStep, GrowsStays
<1> QED BY <1>1, <1>2, <1>3, <1>4, <1>5, <1>6, <1>7 DEF Next

\* Every reachable state of the log satisfies its inductive invariant, whatever
\* deaths are considered.
THEOREM LogInvariant == Spec => []LogInv
<1>1. LogInv /\ [Next]_logVars => LogInv'
  BY LogStep
<1> QED BY <1>1, InitLogInv, PTL DEF Spec

\* The chain in each file is not broken by any death, the one between the rename
\* and the manifest included.
LEMMA ChainFollows == LogInv => ChainedInSegment
<1> SUFFICES ASSUME LogInv, NEW i \in DOMAIN ReadFiles PROVE Chained(ReadFiles[i])
  BY DEF ChainedInSegment
<1> DEFINE F == SubSeq(sealed, 1, manifest)
<1>1. /\ sealed \in Seq(Seq(ChunkType)) /\ manifest \in Nat /\ manifest <= Len(sealed)
      /\ active \in Seq(ChunkType)
  BY DEF LogInv, TypeOK
<1>2. /\ F \in Seq(Seq(ChunkType)) /\ Len(F) = manifest /\ DOMAIN F = 1 .. manifest
      /\ \A k \in DOMAIN F : F[k] = sealed[k] /\ k \in DOMAIN sealed
  BY <1>1
<1> HIDE DEF F
<1>3. ReadFiles = F \o <<active>>
  BY DEF ReadFiles, F
<1>4. CASE i \in DOMAIN F
  <2>1. ReadFiles[i] = sealed[i] /\ i \in DOMAIN sealed
    BY <1>1, <1>2, <1>3, <1>4, LastFile
  <2> QED BY <2>1 DEF LogInv, ChainsFit
<1>5. CASE i = Len(F) + 1
  <2>1. ReadFiles[i] = active
    BY <1>1, <1>2, <1>3, <1>5, LastFile
  <2> QED BY <2>1 DEF LogInv, ChainsFit
<1>6. i \in DOMAIN F \/ i = Len(F) + 1
  <2>1. ReadFiles \in Seq(Seq(ChunkType)) /\ Len(ReadFiles) = Len(F) + 1
    BY <1>1, <1>2, <1>3, LastFile
  <2>2. i \in 1 .. manifest + 1
    BY <1>2, <2>1
  <2> QED BY <1>1, <1>2, <2>2
<1> QED BY <1>4, <1>5, <1>6

\* For any number of lines, segment size and deaths, a line in a file follows the
\* one before it in number and by its parent.
THEOREM FilesAreChains == Spec => []ChainedInSegment
<1> QED BY LogInvariant, ChainFollows, PTL

\* What is missing was spoiled by a torn write.
LEMMA LossIsBounded ==
  ASSUME "rotate" \notin Faults, LogInv
  PROVE  TearsAreContained
<1> SUFFICES ASSUME pc \in {"idle", "down"}
             PROVE  Cardinality(acked \ Readable) <= Cardinality(Spoiled)
  BY DEF TearsAreContained
<1>1. Files = ReadFiles /\ Due = acked
  BY DEF Files, Due, Writing
<1>2. Readable = Ids(Files) /\ Spoiled = Bad(Files)
  BY <1>1 DEF Readable, Spoiled, Bad
<1> QED BY <1>1, <1>2 DEF LogInv, NothingLost

\* The history of a session survives, with any number of lines, any size of a
\* segment and any torn writes, unless a process dies between a rename and its
\* manifest.
THEOREM HistorySurvives ==
  ASSUME "rotate" \notin Faults
  PROVE  Spec => LinesSurvive
<1>1. LogInv => TearsAreContained /\ ChainedInSegment
  BY LossIsBounded, ChainFollows
<1>2. LogInv /\ [Next]_logVars => [Grows(Files, Files')]_logVars
  BY LogStep
<1> QED BY <1>1, <1>2, LogInvariant, PTL DEF Spec, LinesSurvive, AppendOnly

-----------------------------------------------------------------------------
(* The index                                                               *)

\* Whatever the index does, the log does what SessionLog says.
LEMMA IndexStepIsLogStep ==
  ASSUME [IndexNext]_vars
  PROVE  [Next]_logVars
<1>1. LogAppend => Next
  BY DEF LogAppend, Next
<1>2. IndexCrash => Next
  BY DEF IndexCrash, Next
<1>3. IndexRestart => Next
  BY DEF IndexRestart, Next
<1>4. WriteRows \/ WriteCursor \/ RunQueued \/ Recover \/ UNCHANGED vars => UNCHANGED logVars
  BY DEF WriteRows, WriteCursor, RunQueued, Recover, vars
<1> QED BY <1>1, <1>2, <1>3, <1>4 DEF IndexNext

\* The log behind the index is a SessionLog, so what holds of the one holds of the
\* other.
THEOREM IndexKeepsLog == IndexSpec => Spec
<1>1. IndexInit => Init
  BY DEF IndexInit
<1> QED BY <1>1, IndexStepIsLogStep, PTL DEF IndexSpec, Spec

\* What a rebuild writes has the right types: the end of the last item is in the
\* active file or in the last sealed one, which is not empty.
LEMMA RebuildTypes ==
  ASSUME LogInv
  PROVE  /\ Readable \subseteq 1 .. MaxLines
         /\ EndOffset \in 0 .. LineBytes * (MaxLines + 1)
<1>1. /\ sealed \in Seq(Seq(ChunkType)) /\ manifest \in Nat /\ manifest <= Len(sealed)
      /\ active \in Seq(ChunkType) /\ MaxLines \in Nat /\ written \in 1 .. MaxLines
  BY LogAssumption DEF LogInv, TypeOK
<1>2. Readable \subseteq 1 .. MaxLines
  <2>1. ReadFiles \in Seq(Seq(ChunkType))
    BY <1>1 DEF ReadFiles
  <2>2. \A p \in Places(ReadFiles) : ReadFiles[p[1]][p[2]] \in ChunkType
    BY <2>1 DEF Places
  <2>3. \A c \in ChunkType : Parses(c) => c.id \in 1 .. MaxLines
    BY <1>1 DEF ChunkType, Parses
  <2> QED BY <2>2, <2>3 DEF Readable, Ids, Good
<1>3. EndOffset \in 0 .. LineBytes * (MaxLines + 1)
  <2> DEFINE At(file) == NewlineEnd(file) - (IF Parses(Last(file)) THEN 0 ELSE 1)
  <2>1. ASSUME NEW file \in Seq(ChunkType), file # <<>>
        PROVE  At(file) \in 0 .. LineBytes * (MaxLines + 1)
    <3>1. Last(file) \in ChunkType
      BY <2>1 DEF Last
    <3>2. Last(file).to \in 0 .. LineBytes * MaxLines
      BY <3>1 DEF ChunkType
    <3> QED BY <1>1, <2>1, <3>2 DEF NewlineEnd, LineBytes, BodyBytes
  <2>2. FileSize \in 0 .. LineBytes * (MaxLines + 1)
    BY <1>1, SizesAreNaturals DEF LogInv, SizesFit, LineBytes, BodyBytes
  <2>3. ASSUME active = <<>>, manifest # 0
        PROVE  At(sealed[manifest]) \in 0 .. LineBytes * (MaxLines + 1)
    <3>1. manifest \in DOMAIN sealed
      BY <1>1, <2>3
    <3>2. sealed[manifest] \in Seq(ChunkType) /\ sealed[manifest] # <<>>
      BY <1>1, <3>1 DEF LogInv, RotationFits
    <3> QED BY <2>1, <3>2
  <2>4. 0 \in 0 .. LineBytes * (MaxLines + 1)
    BY <1>1 DEF LineBytes, BodyBytes
  <2>5. active # <<>> => At(active) \in 0 .. LineBytes * (MaxLines + 1)
    BY <1>1, <2>1
  <2>6. EndOffset = IF tail # Nothing THEN FileSize
                    ELSE IF active # <<>> THEN At(active)
                    ELSE IF manifest = 0 THEN 0 ELSE At(sealed[manifest])
    BY DEF EndOffset
  <2> HIDE DEF At
  <2> QED BY <2>2, <2>3, <2>4, <2>5, <2>6
<1> QED BY <1>2, <1>3

LEMMA IndexTypesStep ==
  ASSUME LogInv, IndexTypeOK, [IndexNext]_vars
  PROVE  LogInv' /\ IndexTypeOK'
<1>1. LogInv'
  BY IndexStepIsLogStep, LogStep
<1>2. TypeOK'
  BY <1>1 DEF LogInv
<1> DEFINE Shapes == /\ indexed \subseteq 1..MaxLines
                     /\ offset \in 0..(LineBytes * (MaxLines + 1))
                     /\ step \in {"rows", "cursor", "none"}
                     /\ queued \in BOOLEAN
                     /\ step # "none" => pc = "idle" /\ written \in acked
<1> SUFFICES Shapes'
  BY <1>1, <1>2 DEF IndexTypeOK
<1>3. /\ Shapes /\ written \in 1 .. MaxLines
      /\ end \in 0..(LineBytes * (MaxLines + 1))
  BY LogAssumption DEF IndexTypeOK, TypeOK
<1>4. CASE LogAppend
  <2>1. CASE step = "none" /\ WriteLine /\ UNCHANGED indexVars
    BY <1>3, <2>1 DEF indexVars
  <2>2. CASE (Rename \/ WriteManifest) /\ UNCHANGED indexVars
    <3>1. pc \in {"sealing", "renamed"}
      BY <2>2 DEF Rename, WriteManifest
    <3> QED BY <1>3, <2>2, <3>1 DEF indexVars
  <2>3. CASE Return /\ step' = "rows" /\ UNCHANGED <<indexed, offset, queued>>
    BY <1>3, <2>3 DEF Return
  <2> QED BY <1>4, <2>1, <2>2, <2>3 DEF LogAppend
<1>5. CASE WriteRows
  BY <1>3, <1>5 DEF WriteRows, logVars, fileVars, memVars
<1>6. CASE WriteCursor
  BY <1>3, <1>6 DEF WriteCursor, logVars, fileVars, memVars
<1>7. CASE RunQueued
  BY <1>3, <1>7, RebuildTypes DEF RunQueued, Rebuild, logVars, fileVars, memVars
<1>8. CASE IndexCrash
  BY <1>3, <1>8 DEF IndexCrash
<1>9. CASE IndexRestart
  <2>1. pc = "down"
    BY <1>9 DEF IndexRestart, Restart
  <2> QED BY <1>3, <1>9, <2>1 DEF IndexRestart, indexVars
<1>10. CASE Recover
  BY <1>3, <1>10, RebuildTypes DEF Recover, Rebuild, logVars, fileVars, memVars
<1>11. CASE UNCHANGED vars
  BY <1>3, <1>11 DEF vars, indexVars, logVars, fileVars, memVars
<1> QED BY <1>4, <1>5, <1>6, <1>7, <1>8, <1>9, <1>10, <1>11 DEF IndexNext

LEMMA InitIndexTypes == IndexInit => LogInv /\ IndexTypeOK
<1> SUFFICES ASSUME IndexInit PROVE LogInv /\ IndexTypeOK
  OBVIOUS
<1>1. LogInv
  BY InitLogInv DEF IndexInit
<1>2. MaxLines \in Nat \ {0}
  BY LogAssumption
<1>3. TypeOK
  BY <1>1 DEF LogInv
<1>4. indexed \subseteq 1..MaxLines /\ offset \in 0..(LineBytes * (MaxLines + 1))
  BY <1>2 DEF IndexInit, LineBytes, BodyBytes
<1> QED BY <1>1, <1>3, <1>4 DEF IndexInit, IndexTypeOK

\* The log and the index keep their types, whatever deaths are considered: a
\* rebuild never writes an offset below 0 or behind the largest file.
THEOREM TypesKept == IndexSpec => []IndexTypeOK
<1>1. LogInv /\ IndexTypeOK /\ [IndexNext]_vars => (LogInv /\ IndexTypeOK)'
  BY IndexTypesStep
<1> QED BY <1>1, InitIndexTypes, PTL DEF IndexSpec

-----------------------------------------------------------------------------
(* A session in sync has its last line indexed                             *)

\* A cursor, in memory or loaded, is never behind the file's last newline.
LEMMA CursorIsInFile ==
  ASSUME LogInv, pc # "renamed", active # <<>>
  PROVE  Cursor.offset <= NewlineEnd(active)
<1>1. NewlineEnd(active) \in Nat
  BY SizesAreNaturals DEF LogInv
<1>2. CASE cached
  BY <1>1, <1>2 DEF Cursor, LogInv, CursorFits
<1>3. CASE ~cached
  <2>1. Loaded.offset = 0 \/ Loaded.offset = NewlineEnd(active)
    BY DEF Loaded, Fresh
  <2> QED BY <1>1, <1>3, <2>1 DEF Cursor
<1> QED BY <1>2, <1>3

\* Readers find the lines of the active file.
LEMMA ActiveIsRead ==
  ASSUME LogInv, NEW j \in DOMAIN active, Parses(active[j])
  PROVE  active[j].id \in Readable
<1> DEFINE F == SubSeq(sealed, 1, manifest)
<1>1. F \in Seq(Seq(ChunkType)) /\ active \in Seq(ChunkType)
  BY DEF LogInv, TypeOK
<1> HIDE DEF F
<1>2. /\ (F \o <<active>>)[Len(F) + 1] = active
      /\ <<Len(F) + 1, j>> \in Places(F \o <<active>>)
  BY <1>1, LastFile
<1>3. <<Len(F) + 1, j>> \in Good(F \o <<active>>)
  BY <1>2 DEF Good
<1>4. active[j].id \in Ids(F \o <<active>>)
  BY <1>2, <1>3 DEF Ids
<1> QED BY <1>4 DEF Readable, ReadFiles, F

\* After a rebuild the last line is indexed, and the offset is not behind the end.
LEMMA RebuildSyncs ==
  ASSUME LogInv, active # <<>>, offset <= FileSize, Rebuild, UNCHANGED active
  PROVE  LastIndexed' /\ offset' <= FileSize
<1>1. LastIndexed'
  BY ActiveIsRead DEF Rebuild, LastIndexed
<1>2. NewlineEnd(active) \in Nat /\ FileSize \in Nat /\ NewlineEnd(active) <= FileSize
  BY SizesAreNaturals DEF LogInv
<1>3. EndOffset <= FileSize
  BY <1>2 DEF EndOffset
<1> QED BY <1>1, <1>3 DEF Rebuild

\* The written chunk ends behind the old end of the file, and where its writer
\* expects its end, it is the new line.
LEMMA WrittenIsBehind ==
  ASSUME LogInv, WriteLine
  PROVE  /\ active' # <<>> /\ tail' = Nothing
         /\ FileSize' = NewlineEnd(active') /\ FileSize' \in Nat /\ FileSize < FileSize'
         /\ active # <<>> =>
               /\ end' <= NewlineEnd(active')
               /\ end' = NewlineEnd(active') => active'[Len(active')].id = written'
<1>1. PICK c \in ChunkType :
        /\ active' = Append(active, c)
        /\ c.to = FileSize + BodyBytes
        /\ tail = Nothing => c.id = written + 1
  BY ChunkWritten
<1>2. /\ pc = "idle" /\ tail' = Nothing /\ written' = written + 1
      /\ end' = Cursor.offset + LineBytes
  BY DEF WriteLine
<1>3. /\ active \in Seq(ChunkType)
      /\ active' # <<>> /\ active'[Len(active')] = c
  BY <1>1 DEF LogInv, TypeOK
<1>4. NewlineEnd(active') = c.to + 1 /\ FileSize' = NewlineEnd(active')
  BY <1>2, <1>3 DEF NewlineEnd, Last, FileSize
<1>5. /\ NewlineEnd(active) \in Nat /\ FileSize \in Nat /\ NewlineEnd(active) <= FileSize
      /\ tail # Nothing => NewlineEnd(active) < FileSize
  BY SizesAreNaturals DEF LogInv
<1>6. FileSize' \in Nat /\ FileSize < FileSize'
  BY <1>1, <1>4, <1>5 DEF BodyBytes
<1>7. ASSUME active # <<>>
      PROVE  /\ end' <= NewlineEnd(active')
             /\ end' = NewlineEnd(active') => active'[Len(active')].id = written'
  <2>1. Cursor.offset <= NewlineEnd(active) /\ Cursor.offset \in Nat
    <3>1. Cursor \in [seq : 0..MaxLines, last : 0..MaxLines, offset : 0..(LineBytes * MaxLines)]
      BY <1>2, CursorIsAhead
    <3> QED BY <1>2, <1>7, <3>1, CursorIsInFile
  <2> QED BY <1>1, <1>2, <1>3, <1>4, <1>5, <2>1 DEF LineBytes, BodyBytes
<1> QED BY <1>2, <1>3, <1>4, <1>6, <1>7

\* A torn write leaves the file as it was, or longer.
LEMMA TornIsBehind ==
  ASSUME LogInv, Tear
  PROVE  tail' = tail \/ (FileSize' \in Nat /\ FileSize < FileSize')
<1>1. PICK n \in 0 .. BodyBytes : tail' = Behind(NextLine, n)
  BY DEF Tear
<1>2. active' = active /\ FileSize \in Nat
  BY SizesAreNaturals DEF Tear, LogInv
<1>3. CASE n = 0
  BY <1>1, <1>3 DEF Behind
<1>4. CASE n # 0
  <2>1. n \in Nat /\ n > 0
    BY <1>4 DEF BodyBytes
  <2>2. tail'.to = FileSize + n
    BY <1>1, <1>4, <2>1 DEF Behind, NextLine, Unreadable, Line
  <2>3. tail' # Nothing
    BY <1>2, <2>1, <2>2 DEF Nothing, Unreadable, Line
  <2>4. FileSize' = FileSize + n
    BY <2>2, <2>3 DEF FileSize
  <2> QED BY <1>2, <2>1, <2>4
<1> QED BY <1>3, <1>4

LEMMA SyncStep ==
  ASSUME "rotate" \notin Faults, SyncInv, [IndexNext]_vars
  PROVE  SyncInv'
<1>1. LogInv' /\ IndexTypeOK'
  BY IndexTypesStep DEF SyncInv
<1>2. /\ LogInv /\ InSyncFits
      /\ step \in {"rows", "cursor", "none"}
      /\ step # "none" => pc = "idle"
      /\ manifest \in Nat /\ offset \in Nat
      /\ active \in Seq(ChunkType)
  BY LogAssumption DEF SyncInv, IndexTypeOK, TypeOK, LineBytes, BodyBytes
<1>3. FileSize \in Nat /\ NewlineEnd(active) \in Nat
  BY <1>2, SizesAreNaturals DEF LogInv
<1> SUFFICES InSyncFits'
  BY <1>1 DEF SyncInv
<1>4. CASE step = "none" /\ WriteLine /\ UNCHANGED indexVars
  <2>1. manifest' = manifest /\ pc = "idle" /\ UNCHANGED <<indexed, offset, step>> /\ step = "none"
    BY <1>4 DEF WriteLine, indexVars
  <2>2. /\ active' # <<>>
        /\ FileSize' = NewlineEnd(active') /\ FileSize' \in Nat /\ FileSize < FileSize'
        /\ active # <<>> =>
              /\ end' <= NewlineEnd(active')
              /\ end' = NewlineEnd(active') => active'[Len(active')].id = written'
    BY <1>2, <1>4, WrittenIsBehind
  <2>3. manifest = 0 => offset < FileSize' /\ active # <<>>
    BY <1>2, <1>3, <2>1, <2>2 DEF InSyncFits
  <2> QED BY <1>2, <2>1, <2>2, <2>3 DEF InSyncFits
<1>5. CASE (Rename \/ WriteManifest) /\ UNCHANGED indexVars
  <2>1. step = "none" /\ step' = "none" /\ (pc' = "renamed" \/ manifest' # 0)
    BY <1>2, <1>5 DEF Rename, WriteManifest, indexVars
  <2> QED BY <2>1 DEF InSyncFits
<1>6. CASE Return /\ step' = "rows" /\ UNCHANGED <<indexed, offset, queued>>
  <2>1. pc = "returning" /\ UNCHANGED <<active, tail, manifest, written, end, cached>>
    BY <1>6 DEF Return, fileVars
  <2>2. cached
    BY <1>2, <2>1 DEF LogInv, CursorFits, Writing
  <2>3. FileSize' = FileSize /\ NewlineEnd(active') = NewlineEnd(active) /\ (LastIndexed => LastIndexed')
    BY <1>6, <2>1 DEF FileSize, LastIndexed
  <2> QED BY <1>2, <1>6, <2>1, <2>2, <2>3 DEF InSyncFits, Writing
<1>7. CASE WriteRows
  <2>1. /\ step = "rows" /\ offset' = offset /\ UNCHANGED logVars
        /\ \/ indexed' = indexed \union {written} /\ step' = "cursor"
           \/ indexed' = indexed /\ step' = "none"
    BY <1>7 DEF WriteRows
  <2>2. UNCHANGED <<active, tail, manifest, written, end, cached, pc>>
    BY <2>1 DEF logVars, fileVars, memVars
  <2>3. FileSize' = FileSize /\ NewlineEnd(active') = NewlineEnd(active) /\ (LastIndexed => LastIndexed')
    BY <2>1, <2>2 DEF FileSize, LastIndexed
  <2> QED BY <1>2, <2>1, <2>2, <2>3 DEF InSyncFits, Writing
<1>8. CASE WriteCursor
  <2>1. /\ step = "cursor" /\ step' = "none" /\ indexed' = indexed
        /\ offset' = end \/ offset' = offset
        /\ UNCHANGED <<active, tail, manifest, written, end, cached, pc>>
    BY <1>8 DEF WriteCursor, logVars, fileVars, memVars
  <2>2. /\ FileSize' = FileSize /\ NewlineEnd(active') = NewlineEnd(active)
        /\ LastIndexed' <=> LastIndexed
    BY <2>1 DEF FileSize, LastIndexed
  <2>3. pc = "idle" /\ pc' = "idle" /\ tail = Nothing /\ FileSize = NewlineEnd(active)
    BY <1>2, <2>1 DEF InSyncFits, LogInv, CursorFits, FileSize
  <2>4. ASSUME manifest = 0, end = FileSize PROVE LastIndexed
    <3>1. active # <<>> /\ active[Len(active)].id = written /\ written \in indexed
      BY <1>2, <2>1, <2>3, <2>4 DEF InSyncFits
    <3>2. written \in 1 .. MaxLines
      BY <1>2 DEF LogInv, TypeOK
    <3>3. Parses(active[Len(active)])
      BY <3>1, <3>2 DEF Parses
    <3>4. DOMAIN active = 1 .. Len(active) /\ Len(active) \in Nat /\ Len(active) > 0
      BY <1>2, <3>1
    <3>5. ASSUME NEW j \in DOMAIN active, \A k \in DOMAIN active : j < k => ~Parses(active[k])
          PROVE  j = Len(active)
      BY <3>3, <3>4, <3>5
    <3> QED BY <3>1, <3>5 DEF LastIndexed
  <2> QED BY <1>2, <2>1, <2>2, <2>3, <2>4 DEF InSyncFits, Writing
<1>9. CASE (RunQueued \/ Recover) /\ Rebuild
  <2>1. /\ pc \in {"idle", "down"} /\ step = "none" /\ step' = "none"
        /\ UNCHANGED <<active, tail, manifest, written, end, cached, pc>>
    BY <1>2, <1>9 DEF RunQueued, Recover, logVars, fileVars, memVars
  <2>2. FileSize' = FileSize
    BY <2>1 DEF FileSize
  <2>3. manifest = 0 => LastIndexed' /\ offset' <= FileSize /\ active # <<>>
    BY <1>2, <1>9, <2>1, RebuildSyncs DEF InSyncFits
  <2> QED BY <2>1, <2>2, <2>3 DEF InSyncFits, Writing
<1>10. CASE IndexCrash
  <2>1. /\ step' = "none" /\ pc' = "down" /\ UNCHANGED <<active, manifest, indexed, offset>>
        /\ pc # "renamed"
    BY <1>10 DEF IndexCrash, Crash, Tear, fileVars
  <2>2. FileSize' = FileSize \/ (FileSize' \in Nat /\ FileSize < FileSize')
    <3>1. CASE Crash
      BY <3>1 DEF Crash, fileVars, FileSize
    <3>2. CASE Tear
      <4>1. tail' = tail => FileSize' = FileSize
        BY <2>1 DEF FileSize
      <4> QED BY <1>2, <3>2, <4>1, TornIsBehind
    <3> QED BY <1>10, <3>1, <3>2 DEF IndexCrash
  <2>3. LastIndexed' <=> LastIndexed
    BY <2>1 DEF LastIndexed
  <2> QED BY <1>2, <1>3, <2>1, <2>2, <2>3 DEF InSyncFits, Writing
<1>11. CASE IndexRestart \/ (RunQueued /\ UNCHANGED <<indexed, offset>>) \/ UNCHANGED vars
  <2>1. /\ UNCHANGED <<active, tail, manifest, written, end, cached, indexed, offset, step>>
        /\ pc' = pc \/ (pc = "down" /\ pc' = "idle")
    BY <1>11 DEF IndexRestart, Restart, RunQueued, vars, indexVars, logVars, fileVars, memVars
  <2>2. /\ FileSize' = FileSize /\ NewlineEnd(active') = NewlineEnd(active)
        /\ LastIndexed' <=> LastIndexed
    BY <2>1 DEF FileSize, LastIndexed
  <2> QED BY <1>2, <2>1, <2>2 DEF InSyncFits, Writing
<1> QED BY <1>4, <1>5, <1>6, <1>7, <1>8, <1>9, <1>10, <1>11 DEF IndexNext, LogAppend, RunQueued, Recover

LEMMA InitSyncInv == IndexInit => SyncInv
<1> SUFFICES ASSUME IndexInit PROVE SyncInv
  OBVIOUS
<1>1. LogInv /\ IndexTypeOK
  BY InitIndexTypes
<1>2. /\ active = <<Line(1, 0, 0, BodyBytes)>> /\ Len(active) = 1 /\ DOMAIN active = {1}
      /\ active[1] = [id |-> 1, seq |-> 0, parent |-> 0, to |-> 2]
      /\ tail = Nothing /\ pc = "idle"
      /\ indexed = {1} /\ offset = 3 /\ step = "none"
  BY DEF IndexInit, Init, Line, LineBytes, BodyBytes
<1>3. FileSize = 3
  BY <1>2 DEF FileSize, NewlineEnd, Last
<1> QED BY <1>1, <1>2, <1>3 DEF SyncInv, InSyncFits, LastIndexed, Writing

LEMMA SyncFollows ==
  ASSUME SyncInv
  PROVE  InSyncCoversLastLine
  BY DEF SyncInv, InSyncFits, LastIndexed, InSyncCoversLastLine, Drifted

\* Until the first rotation, a session whose offset is the size of its file has its
\* last readable line indexed, whichever statements fail, writes are torn and
\* processes die, unless one dies between a rename and its manifest.
THEOREM InSyncIsIndexed ==
  ASSUME "rotate" \notin Faults
  PROVE  IndexSpec => []InSyncCoversLastLine
<1>1. SyncInv /\ [IndexNext]_vars => SyncInv'
  BY SyncStep
<1>2. SyncInv => InSyncCoversLastLine
  BY SyncFollows
<1> QED BY <1>1, <1>2, InitSyncInv, PTL DEF IndexSpec

-----------------------------------------------------------------------------
(* Without torn writes the index can be believed                           *)

\* The files of the reader are the sealed ones and the active one.
LEMMA FilesAre ==
  ASSUME LogInv, "rotate" \notin Faults
  PROVE  /\ Files \in Seq(Seq(ChunkType))
         /\ pc = "renamed" => Files = sealed
         /\ pc # "renamed" => Files = sealed \o <<active>> /\ ReadFiles = Files
<1>1. sealed \in Seq(Seq(ChunkType)) /\ active \in Seq(ChunkType) /\ manifest \in Nat
  BY DEF LogInv, TypeOK
<1>2. CASE pc = "renamed"
  BY <1>1, <1>2 DEF Files
<1>3. CASE pc # "renamed"
  <2>1. SubSeq(sealed, 1, manifest) = sealed
    BY <1>1, <1>3 DEF LogInv, NothingLost
  <2> QED BY <1>1, <1>3, <2>1 DEF Files, ReadFiles
<1> QED BY <1>2, <1>3

\* A longer history has all the lines of the shorter one.
LEMMA IdsGrow ==
  ASSUME NEW old \in Seq(Seq(ChunkType)), NEW new \in Seq(Seq(ChunkType)), Grows(old, new)
  PROVE  Ids(old) \subseteq Ids(new)
<1> SUFFICES ASSUME NEW p \in Good(old) PROVE old[p[1]][p[2]].id \in Ids(new)
  BY DEF Ids
<1> DEFINE i == p[1]
           j == p[2]
<1>1. i \in DOMAIN old /\ j \in DOMAIN old[i] /\ p = <<i, j>> /\ Parses(old[i][j])
  BY DEF Good, Places
<1>2. i \in DOMAIN new /\ j \in DOMAIN new[i] /\ new[i][j] = old[i][j]
  BY <1>1 DEF Grows
<1>3. p \in Good(new)
  BY <1>1, <1>2 DEF Good, Places
<1>4. new[i][j].id \in Ids(new)
  BY <1>3 DEF Ids
<1> QED BY <1>2, <1>4

\* With every chunk readable nothing is missing.
LEMMA CleanKeepsAll ==
  ASSUME Faults = {}, LogInv, LogClean
  PROVE  /\ Due \subseteq Ids(Files)
         /\ pc # "renamed" => Readable = Ids(Files)
         /\ pc # "renamed" => \A j \in DOMAIN active : active[j].id \in Ids(Files)
<1>1. /\ sealed \in Seq(Seq(ChunkType)) /\ active \in Seq(ChunkType)
  BY DEF LogInv, TypeOK
<1>2. Places(sealed) = Good(sealed)
  BY DEF LogClean, Good, Places
<1>3. Bad(Files) = {}
  <2>1. CASE pc = "renamed"
    BY <1>2, <2>1, FilesAre DEF Bad
  <2>2. CASE pc # "renamed"
    <3>1. Files = sealed \o <<active>>
      BY <2>2, FilesAre
    <3>2. /\ Len(Files) = Len(sealed) + 1
          /\ \A i \in DOMAIN sealed : Files[i] = sealed[i]
          /\ Files[Len(sealed) + 1] = active
          /\ Places(Files) = Places(sealed) \union {<<Len(sealed) + 1, j>> : j \in DOMAIN active}
      BY <1>1, <3>1, LastFile
    <3>3. \A p \in Places(sealed) : Parses(Files[p[1]][p[2]])
      BY <3>2 DEF LogClean, Places
    <3> QED BY <3>2, <3>3 DEF Bad, Good, LogClean
  <2> QED BY <2>1, <2>2
<1>4. Due \ Ids(Files) = {}
  <2>1. Cardinality(Due \ Ids(Files)) <= 0
    BY <1>3, FS_EmptySet DEF LogInv, NothingLost
  <2>2. IsFiniteSet(Due \ Ids(Files)) /\ Cardinality(Due \ Ids(Files)) \in Nat
    BY AckedFinite DEF LogInv
  <2> QED BY <2>1, <2>2, FS_EmptySet
<1>5. ASSUME pc # "renamed" PROVE Readable = Ids(Files)
  BY <1>5, FilesAre DEF Readable
<1>6. ASSUME pc # "renamed", NEW j \in DOMAIN active PROVE active[j].id \in Ids(Files)
  <2>1. Files = sealed \o <<active>>
    BY <1>6, FilesAre
  <2>2. /\ Files[Len(sealed) + 1] = active
        /\ <<Len(sealed) + 1, j>> \in Places(Files)
    BY <1>1, <2>1, LastFile
  <2>3. <<Len(sealed) + 1, j>> \in Good(Files)
    BY <2>2 DEF Good, LogClean
  <2>4. Files[Len(sealed) + 1][j].id \in Ids(Files)
    BY <2>3 DEF Ids
  <2> QED BY <2>2, <2>4
<1> QED BY <1>4, <1>5, <1>6

LEMMA InitIndexInv == IndexInit => IndexInv
<1> SUFFICES ASSUME IndexInit PROVE IndexInv
  OBVIOUS
<1>1. /\ active = <<Line(1, 0, 0, BodyBytes)>> /\ Len(active) = 1 /\ DOMAIN active = {1}
      /\ active[1] = [id |-> 1, seq |-> 0, parent |-> 0, to |-> 2]
      /\ tail = Nothing /\ present = TRUE /\ sealed = <<>> /\ manifest = 0 /\ pc = "idle"
      /\ acked = {1} /\ indexed = {1}
  BY DEF IndexInit, Init, Line, LineBytes, BodyBytes
<1>2. LogClean
  BY <1>1 DEF LogClean, Parses
<1>3. indexed \subseteq Ids(Files)
  <2>1. Places(Files) = {<<1, 1>>} /\ Files[1][1] = active[1]
    <3> DEFINE none == <<>>
    <3>1. none \in Seq(Seq(ChunkType)) /\ SubSeq(sealed, 1, manifest) = none
      BY <1>1
    <3>2. Files = none \o <<active>>
      BY <1>1, <3>1 DEF Files, ReadFiles
    <3> QED BY <1>1, <3>2 DEF Places
  <2>2. Good(Files) = {<<1, 1>>}
    BY <1>1, <2>1 DEF Good, Parses
  <2> QED BY <1>1, <2>1, <2>2 DEF Ids
<1> QED BY <1>2, <1>3, InitSyncInv DEF IndexInv

\* Nothing of the log becomes unreadable, and what was read stays readable.
LEMMA CleanStep ==
  ASSUME Faults = {}, LogInv, LogClean, [Next]_logVars
  PROVE  LogInv' /\ LogClean' /\ Ids(Files) \subseteq Ids(Files')
<1>1. LogInv' /\ Grows(Files, Files')
  BY LogStep
<1>2. Ids(Files) \subseteq Ids(Files')
  <2>1. Files \in Seq(Seq(ChunkType))
    BY FilesAre
  <2>2. Files' \in Seq(Seq(ChunkType))
    <3>1. sealed' \in Seq(Seq(ChunkType)) /\ active' \in Seq(ChunkType) /\ manifest' \in Nat
      BY <1>1 DEF LogInv, TypeOK
    <3>2. SubSeq(sealed', 1, manifest') \in Seq(Seq(ChunkType))
      <4>1. manifest' <= Len(sealed')
        BY <1>1 DEF LogInv, TypeOK
      <4> QED BY <3>1, <4>1
    <3>3. SubSeq(sealed', 1, manifest') \o <<active'>> \in Seq(Seq(ChunkType))
      BY <3>1, <3>2
    <3> QED BY <3>1, <3>3 DEF Files, ReadFiles
  <2> QED BY <1>1, <2>1, <2>2, IdsGrow
<1>3. /\ active \in Seq(ChunkType) /\ sealed \in Seq(Seq(ChunkType))
      /\ manifest \in Nat /\ manifest <= Len(sealed)
  BY DEF LogInv, TypeOK
<1>4. CASE WriteLine
  <2>1. PICK c \in ChunkType : active' = Append(active, c) /\ Parses(c)
    BY <1>4, ChunkWritten DEF LogClean
  <2>2. /\ active' # <<>> /\ DOMAIN active' = DOMAIN active \union {Len(active) + 1}
        /\ \A j \in DOMAIN active : active'[j] = active[j]
        /\ active'[Len(active) + 1] = c
    BY <1>3, <2>1
  <2>3. \A j \in DOMAIN active' : Parses(active'[j])
    BY <2>1, <2>2 DEF LogClean
  <2>4. tail' = Nothing /\ present' = TRUE /\ sealed' = sealed /\ acked' = acked
    BY <1>4 DEF WriteLine
  <2> QED BY <1>1, <1>2, <2>2, <2>3, <2>4 DEF LogClean
<1>5. CASE Rename
  <2>1. /\ sealed' = Append(SubSeq(sealed, 1, manifest), active) /\ active' = <<>>
        /\ present' = FALSE /\ pc' = "renamed" /\ tail' = tail /\ acked' = acked
    BY <1>5 DEF Rename, memVars
  <2> DEFINE F == SubSeq(sealed, 1, manifest)
  <2>2. /\ F \in Seq(Seq(ChunkType)) /\ Len(F) = manifest /\ DOMAIN F = 1 .. manifest
        /\ \A i \in DOMAIN F : F[i] = sealed[i] /\ i \in DOMAIN sealed
    <3>1. F \in Seq(Seq(ChunkType)) /\ Len(F) = manifest
      BY <1>3
    <3>2. \A i \in 1 .. manifest : F[i] = sealed[i] /\ i \in DOMAIN sealed
      BY <1>3
    <3> HIDE DEF F
    <3> QED BY <3>1, <3>2
  <2> HIDE DEF F
  <2>3. /\ DOMAIN sealed' = DOMAIN F \union {manifest + 1}
        /\ \A i \in DOMAIN F : sealed'[i] = F[i]
        /\ sealed'[manifest + 1] = active
    <3>1. sealed' = Append(F, active)
      BY <2>1 DEF F
    <3> QED BY <1>3, <2>2, <3>1
  <2>4. ASSUME NEW i \in DOMAIN sealed' PROVE \A j \in DOMAIN sealed'[i] : Parses(sealed'[i][j])
    BY <2>2, <2>3 DEF LogClean
  <2>5. DOMAIN active' = {}
    BY <2>1
  <2> QED BY <1>1, <1>2, <2>1, <2>4, <2>5 DEF LogClean
<1>6. CASE WriteManifest
  <2>1. manifest' # 0 /\ UNCHANGED <<active, tail, present, sealed, acked>>
    BY <1>3, <1>6 DEF WriteManifest
  <2> QED BY <1>1, <1>2, <2>1 DEF LogClean
<1>7. CASE Return \/ Crash \/ Restart \/ UNCHANGED logVars
  <2>1. /\ UNCHANGED <<active, tail, present, sealed, manifest>> /\ acked \subseteq acked'
        /\ pc # "renamed" \/ UNCHANGED pc
    BY <1>7 DEF Return, Crash, Restart, logVars, fileVars, memVars
  <2> QED BY <1>1, <1>2, <2>1 DEF LogClean
<1>8. ~Tear
  BY DEF Tear
<1> QED BY <1>4, <1>5, <1>6, <1>7, <1>8 DEF Next

\* A rebuild indexes every line and takes the end of the file for its offset.
LEMMA RebuildFits ==
  ASSUME Faults = {}, IndexInv, pc # "renamed", Rebuild
  PROVE  /\ indexed' = Ids(Files)
         /\ active # <<>> => offset' = NewlineEnd(active)
<1>1. Readable = Ids(Files) /\ acked \subseteq Ids(Files)
  BY CleanKeepsAll DEF IndexInv, SyncInv, Due
<1>2. 1 \in Readable
  BY <1>1 DEF IndexInv, LogClean
<1>3. active # <<>> => EndOffset = NewlineEnd(active)
  <2> SUFFICES ASSUME active # <<>> PROVE EndOffset = NewlineEnd(active)
    OBVIOUS
  <2>1. Parses(Last(active))
    BY DEF IndexInv, SyncInv, LogInv, TypeOK, LogClean, Last
  <2>2. NewlineEnd(active) \in Nat
    BY SizesAreNaturals DEF IndexInv, SyncInv, LogInv
  <2> QED BY <2>1, <2>2 DEF IndexInv, LogClean, EndOffset
<1> QED BY <1>1, <1>2, <1>3 DEF Rebuild

LEMMA IndexStep ==
  ASSUME Faults = {}, IndexInv, [IndexNext]_vars
  PROVE  IndexInv'
<1>1. SyncInv' /\ LogClean' /\ Ids(Files) \subseteq Ids(Files')
  BY IndexStepIsLogStep, CleanStep, SyncStep DEF IndexInv, SyncInv
<1>2. /\ indexed \subseteq Ids(Files) /\ Due \subseteq Ids(Files)
      /\ step # "none" => pc = "idle" /\ written \in acked
  BY CleanKeepsAll DEF IndexInv, SyncInv, IndexTypeOK
<1>3. CASE LogAppend \/ WriteCursor \/ IndexCrash \/ IndexRestart \/ UNCHANGED vars
           \/ (RunQueued /\ UNCHANGED <<indexed, offset>>)
  <2>1. indexed' = indexed
    BY <1>3 DEF LogAppend, WriteCursor, IndexCrash, IndexRestart, RunQueued, vars, indexVars
  <2> QED BY <1>1, <1>2, <2>1 DEF IndexInv
<1>4. CASE WriteRows
  <2>1. step = "rows" /\ indexed' \subseteq indexed \union {written}
    BY <1>4 DEF WriteRows
  <2>2. written \in Ids(Files)
    BY <1>2, <2>1 DEF Due
  <2> QED BY <1>1, <1>2, <2>1, <2>2 DEF IndexInv
<1>5. CASE (RunQueued \/ Recover) /\ Rebuild
  <2>1. pc # "renamed"
    BY <1>5 DEF RunQueued, Recover
  <2> QED BY <1>1, <1>5, <2>1, RebuildFits DEF IndexInv
<1> QED BY <1>3, <1>4, <1>5 DEF IndexNext, RunQueued, Recover

\* Every reachable state of the log with its index satisfies the inductive
\* invariant, as long as no process dies inside a file operation of the log.
THEOREM IndexInvariant ==
  ASSUME Faults = {}
  PROVE  IndexSpec => []IndexInv
<1>1. IndexInv /\ [IndexNext]_vars => IndexInv'
  BY IndexStep
<1> QED BY <1>1, InitIndexInv, PTL DEF IndexSpec

LEMMA HonestFollows ==
  ASSUME Faults = {}, IndexInv
  PROVE  IndexIsHonest
<1>1. IndexNotAhead
  BY CleanKeepsAll DEF IndexInv, SyncInv, IndexNotAhead
<1> QED BY <1>1, SyncFollows DEF IndexInv, IndexIsHonest

\* The index can be believed, whichever of its own statements fail and wherever
\* between two file operations a process dies.
THEOREM IndexBelieved ==
  ASSUME Faults = {}
  PROVE  IndexSpec => []IndexIsHonest
<1>1. IndexInv => IndexIsHonest
  BY HonestFollows
<1> QED BY <1>1, IndexInvariant, PTL

\* Only recovery writes to the index while no process runs.
LEMMA RecoveryStep ==
  ASSUME Faults = {}, IndexInv, [IndexNext]_vars,
         pc = "down", <<indexed, offset>>' # <<indexed, offset>>
  PROVE  indexed' = Readable' /\ ~Drifted'
<1>1. Recover
  <2>1. step = "none"
    BY DEF IndexInv, SyncInv, IndexTypeOK
  <2> QED BY <2>1 DEF IndexNext, LogAppend, WriteLine, Rename, WriteManifest, Return, WriteRows,
                      WriteCursor, RunQueued, IndexCrash, IndexRestart, Crash, Tear, indexVars, vars
<1>2. /\ UNCHANGED <<active, tail, present, sealed, manifest, pc>> /\ present /\ Rebuild
  BY <1>1 DEF Recover, Drifted, logVars, fileVars
<1>3. active # <<>> /\ tail = Nothing
  BY <1>2 DEF IndexInv, LogClean
<1>4. indexed' = Ids(Files) /\ offset' = NewlineEnd(active) /\ Readable = Ids(Files)
  BY <1>2, <1>3, RebuildFits, CleanKeepsAll DEF IndexInv, SyncInv
<1>5. Readable' = Readable /\ FileSize' = NewlineEnd(active)
  BY <1>2, <1>3 DEF Readable, ReadFiles, FileSize
<1> QED BY <1>4, <1>5 DEF Drifted

\* A recovery leaves the index complete, with the offset that a second one expects.
THEOREM RecoveryIsComplete ==
  ASSUME Faults = {}
  PROVE  IndexSpec => RecoveryCompletes
<1>1. IndexInv /\ [IndexNext]_vars
        => [pc = "down" /\ <<indexed, offset>>' # <<indexed, offset>>
              => indexed' = Readable' /\ ~Drifted']_vars
  BY RecoveryStep
<1> QED BY <1>1, IndexInvariant, PTL DEF IndexSpec, RecoveryCompletes

=============================================================================
