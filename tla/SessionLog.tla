----------------------------- MODULE SessionLog -----------------------------
(***************************************************************************)
(* The append-only JSONL log of one session: JsonlAppender, the segments   *)
(* that sealActiveSegment rotates, and what JsonlReader makes of the files *)
(* (src/src/db/session-jsonl).  One process writes; it may die between any *)
(* two file operations, and starts again with an empty cursor cache.       *)
(*                                                                         *)
(* A file is a sequence of chunks that end in a newline, and the active    *)
(* file may have an unterminated tail.  A chunk is a line, or bytes that   *)
(* do not parse (id 0), and reaches up to the byte `to` of its file.       *)
(* Lines have BodyBytes bytes and a newline.                               *)
(*                                                                         *)
(* Faults says which deaths are considered besides those between two       *)
(* appends: "torn", in the middle of a write, and "rotate", between the    *)
(* rename of the active file and the manifest.  What the operating system  *)
(* loses when the machine itself fails (the fsync policy) is left out.     *)
(***************************************************************************)
EXTENDS Integers, Sequences, SequencesExt, FiniteSets

CONSTANTS
    MaxLines,   \* bound: how many lines are written
    MaxBytes,   \* maxBytesPerSegment
    Faults

ASSUME LogAssumption ==
    /\ MaxLines \in Nat \ {0}
    /\ MaxBytes \in Nat \ {0}
    /\ Faults \subseteq {"torn", "rotate"}

VARIABLES
    active,     \* the terminated chunks of events.jsonl
    tail,       \* its unterminated tail
    present,    \* whether events.jsonl exists
    sealed,     \* events.0000.jsonl, events.0001.jsonl, ...
    manifest,   \* how many of them segments.json lists
    cursor,     \* the cached cursor of the session
    cached,     \* whether there is one: not after a start
    written,    \* the last line that a write was tried for
    end,        \* byteOffset + byteLength of its AppendResult
    acked,      \* the lines whose append returned
    pc

fileVars == <<active, tail, present, sealed, manifest>>
memVars == <<cursor, cached, written, end, acked>>
logVars == <<fileVars, memVars, pc>>

BodyBytes == 2      \* of a line, without its newline
LineBytes == BodyBytes + 1

Line(id, seq, parent, to) == [id |-> id, seq |-> seq, parent |-> parent, to |-> to]
Unreadable(to) == Line(0, 0, 0, to)
Nothing == Unreadable(0)

Fresh == [seq |-> 0, last |-> 0, offset |-> 0]

Parses(chunk) == chunk.id # 0

\* The bytes up to the last newline, and those of the whole active file.
NewlineEnd(file) == IF file = <<>> THEN 0 ELSE Last(file).to + 1
FileSize == IF tail = Nothing THEN NewlineEnd(active) ELSE tail.to

ChunkType == [id : 0..MaxLines, seq : 0..MaxLines, parent : 0..MaxLines,
              to : 0..(LineBytes * MaxLines)]

TypeOK ==
    /\ active \in Seq(ChunkType)
    /\ tail \in ChunkType
    /\ present \in BOOLEAN
    /\ sealed \in Seq(Seq(ChunkType))
    /\ manifest \in Nat /\ manifest <= Len(sealed) /\ Len(sealed) <= manifest + 1
    /\ cursor \in [seq : 0..MaxLines, last : 0..MaxLines, offset : 0..(LineBytes * MaxLines)]
    /\ cached \in BOOLEAN
    /\ written \in 1..MaxLines
    /\ end \in 0..(LineBytes * (MaxLines + 1))
    /\ acked \subseteq 1..written
    /\ pc \in {"idle", "sealing", "renamed", "returning", "down"}
    /\ ~present => active = <<>> /\ tail = Nothing

\* The session has just been created: session.created is its first line.
Init ==
    /\ active = <<Line(1, 0, 0, BodyBytes)>>
    /\ tail = Nothing
    /\ present = TRUE
    /\ sealed = <<>>
    /\ manifest = 0
    /\ cursor = [seq |-> 1, last |-> 1, offset |-> LineBytes]
    /\ cached = TRUE
    /\ written = 1
    /\ end = LineBytes
    /\ acked = {1}
    /\ pc = "idle"

-----------------------------------------------------------------------------
(* Reading.                                                                *)

\* orderedSegmentPaths: the files of the manifest, oldest first, then events.jsonl.
ReadFiles == SubSeq(sealed, 1, manifest) \o <<active>>

\* The places of the chunks in some files.
Places(files) == UNION {{i} \X DOMAIN files[i] : i \in DOMAIN files}
Good(files) == {p \in Places(files) : Parses(files[p[1]][p[2]])}

\* JsonlReader.scan: the lines it yields, and the places of those it reports.
Ids(files) == {files[p[1]][p[2]].id : p \in Good(files)}
Readable == Ids(ReadFiles)
Spoiled == Places(ReadFiles) \ Good(ReadFiles)

\* loadCursor: from the last line of events.jsonl that parses.  Without any
\* newline the whole file is taken for one line.
Loaded ==
    LET lines == IF active = <<>> THEN <<tail>> ELSE active
        good  == {j \in DOMAIN lines : Parses(lines[j])}
        found == lines[Max(good)]
    IN  IF good = {} THEN Fresh
        ELSE [seq |-> found.seq + 1, last |-> found.id,
              offset |-> IF active = <<>> THEN tail.to ELSE NewlineEnd(active)]

Cursor == IF cached THEN cursor ELSE Loaded

-----------------------------------------------------------------------------
(* Writing.                                                                *)

\* The tail once n bytes of the line are behind it: only a whole line that
\* starts on a fresh line parses.
Behind(line, n) ==
    IF n = 0 THEN tail
    ELSE IF tail = Nothing /\ n = BodyBytes THEN line
    ELSE Unreadable(FileSize + n)

NextLine == Line(written + 1, Cursor.seq, Cursor.last, FileSize + BodyBytes)

\* Slip: the file is opened for writing from its start.
WithLine_Truncated == <<NextLine>>

\* The file is opened for appending, whatever the cursor says of its end.
WithLine == Append(active, Behind(NextLine, BodyBytes))

\* appendSync, up to the check of the size.
WriteLine ==
    /\ pc = "idle" /\ written < MaxLines
    /\ active' = WithLine
    /\ tail' = Nothing
    /\ present' = TRUE
    /\ cursor' = [seq |-> Cursor.seq + 1, last |-> written + 1, offset |-> NewlineEnd(active')]
    /\ cached' = TRUE
    /\ written' = written + 1
    /\ end' = Cursor.offset + LineBytes
    /\ pc' = IF NewlineEnd(active') >= MaxBytes THEN "sealing" ELSE "returning"
    /\ UNCHANGED <<sealed, manifest, acked>>

\* The process dies in writeSync, n bytes of the line are in the file.
Tear ==
    /\ "torn" \in Faults
    /\ pc = "idle" /\ written < MaxLines
    /\ \E n \in 0..BodyBytes : tail' = Behind(NextLine, n)
    /\ present' = TRUE
    /\ written' = written + 1
    /\ cached' = FALSE
    /\ cursor' = Fresh
    /\ pc' = "down"
    /\ UNCHANGED <<active, sealed, manifest, end, acked>>

\* Slip: the sealed file always gets the first name.
Rename_SameName ==
    /\ pc = "sealing"
    /\ sealed' = IF sealed = <<>> THEN <<active>> ELSE [sealed EXCEPT ![1] = active]
    /\ active' = <<>>
    /\ present' = FALSE
    /\ pc' = "renamed"
    /\ UNCHANGED <<tail, manifest, memVars>>

\* renameSync to the name after those of the manifest: a file of that name is
\* replaced.
Rename ==
    /\ pc = "sealing"
    /\ sealed' = Append(SubSeq(sealed, 1, manifest), active)
    /\ active' = <<>>
    /\ present' = FALSE
    /\ pc' = "renamed"
    /\ UNCHANGED <<tail, manifest, memVars>>

\* writeManifest, atomic itself, and the reset of the cursor's offset.
WriteManifest ==
    /\ pc = "renamed"
    /\ manifest' = manifest + 1
    /\ cursor' = [cursor EXCEPT !.offset = 0]
    /\ pc' = "returning"
    /\ UNCHANGED <<active, tail, present, sealed, cached, written, end, acked>>

Return ==
    /\ pc = "returning"
    /\ acked' = acked \union {written}
    /\ pc' = "idle"
    /\ UNCHANGED <<fileVars, cursor, cached, written, end>>

Crash ==
    /\ pc # "down"
    /\ pc = "renamed" => "rotate" \in Faults
    /\ pc' = "down"
    /\ cached' = FALSE
    /\ cursor' = Fresh
    /\ UNCHANGED <<fileVars, written, end, acked>>

Restart ==
    /\ pc = "down"
    /\ pc' = "idle"
    /\ UNCHANGED <<fileVars, memVars>>

Next == WriteLine \/ Tear \/ Rename \/ WriteManifest \/ Return \/ Crash \/ Restart

Spec == Init /\ [][Next]_logVars

-----------------------------------------------------------------------------

\* The files a reader goes through.  Between the rename and the manifest no
\* reader runs.
Files == IF pc = "renamed" THEN sealed ELSE ReadFiles

\* Only the last file gets new chunks, at its end, or new files follow it.
Grows(old, new) ==
    \A i \in DOMAIN old :
        /\ i \in DOMAIN new
        /\ DOMAIN old[i] \subseteq DOMAIN new[i]
        /\ \A j \in DOMAIN old[i] : new[i][j] = old[i][j]
        /\ i < Len(old) => new[i] = old[i]

\* What a reader has seen of the history stays, in its place: later appends, torn
\* writes, rotations and restarts only add to its end.
AppendOnly == [][Grows(Files, Files')]_logVars

\* Within one file the lines are a chain, also across restarts: each has the next
\* sequence number and the line before it as its parent, unless a chunk between
\* them was spoiled by a torn write; and then the numbers still rise.
Chained(file) ==
    \A j, k \in DOMAIN file : j < k /\ Parses(file[j]) /\ Parses(file[k]) =>
        /\ file[j].seq < file[k].seq
        /\ k = j + 1 => file[k].seq = file[j].seq + 1 /\ file[k].parent = file[j].id

ChainedInSegment == \A i \in DOMAIN ReadFiles : Chained(ReadFiles[i])

\* Whatever process died, and wherever files were rotated, every line whose append
\* returned is read back, except for one line behind each torn tail: no more are
\* missing than there are unreadable chunks (none, if no write was torn).
TearsAreContained ==
    pc \in {"idle", "down"} => Cardinality(acked \ Readable) <= Cardinality(Spoiled)

\* The history of a session survives: what is missing stays within TearsAreContained,
\* each file is a chain and what a reader sees is AppendOnly.
LinesSurvive == [](TearsAreContained /\ ChainedInSegment) /\ AppendOnly

(* Statements of the source that the code does not keep.                   *)

\* appender.ts: after a torn write "the next append starts on a fresh line", so no
\* line whose append returned is lost to it.
TornCostsNothing == pc \in {"idle", "down"} => acked \subseteq Readable

\* segments.ts: a rename without its manifest is something "recovery heals", so the
\* lines are still in some file, listed in the manifest or not.
RotationKeepsLines == acked \subseteq Ids(Append(sealed, active))

\* segments.test.ts: "seq is gapless, parentLineId chains across segment
\* boundaries", and appender.ts: a lost cursor "is reconstructible".
ChainedAcrossSegments ==
    pc = "idle" =>
        \A i \in DOMAIN ReadFiles : i > 1 /\ ReadFiles[i] # <<>> =>
            LET first == Head(ReadFiles[i])
                last  == Last(ReadFiles[i - 1])
            IN  Parses(first) /\ Parses(last) =>
                    first.seq = last.seq + 1 /\ first.parent = last.id

=============================================================================
