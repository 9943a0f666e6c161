------------------------------- MODULE Logger -------------------------------
(***************************************************************************)
(* A log driver of a container: CriLogger (cri_logger.rs) or JsonLogger    *)
(* (json_logger.rs) behind the write lock of ContainerLog                  *)
(* (container_log.rs).  Chunks of output are split into lines, every line  *)
(* is counted, and a line that would exceed the maximum size first reopens *)
(* the file, which truncates it.  Beside it an engine may rename the file  *)
(* and ask for ReopenLog (rpc.rs), which reopens between two chunks.       *)
(*                                                                         *)
(* A line is its number in the order of the output and its length.         *)
(***************************************************************************)
EXTENDS Integers, Sequences

CONSTANTS
    Driver,       \* the drivers a container may log with: "cri", "json"
    MaxSize,      \* max_log_size
    Header,       \* bytes a driver adds to a line: timestamp, pipe, tag
    Length,       \* lengths of output lines
    MaxLines,     \* bound: lines the container writes
    MaxChunk,     \* bound: lines in one chunk
    MayRename,    \* whether the engine rotates the file by itself
    OpenMayFail   \* whether opening the file again may fail

ASSUME LoggerAssumption ==
    /\ Driver \subseteq {"cri", "json"}
    /\ {MaxSize, Header, MaxLines, MaxChunk} \subseteq Nat
    /\ Length \subseteq Nat \ {0}
    /\ {MayRename, OpenMayFail} \subseteq BOOLEAN

VARIABLES
    kind,           \* the driver of this container
    state,          \* "uninit", "ok" or "failed" (a write has failed)
    bytes_written,
    current,        \* lines in the file the open handle refers to
    buffer,         \* lines in the BufWriter
    renamed,        \* the engine has moved that file away
    saved,          \* lines in the files moved away and since closed
    pending,        \* lines of the chunk that is being written
    lines           \* lines the container has written so far

vars == <<kind, state, bytes_written, current, buffer, renamed, saved, pending, lines>>

Line == [number : 1..MaxLines, len : Length, partial : BOOLEAN]

TypeOK ==
    /\ kind \in Driver
    /\ state \in {"uninit", "ok", "failed"}
    /\ bytes_written \in Nat
    /\ current \in Seq(Line) /\ buffer \in Seq(Line) /\ saved \in Seq(Line)
    /\ pending \in Seq(Line)
    /\ renamed \in BOOLEAN
    /\ lines \in 0..MaxLines

Init ==
    /\ kind \in Driver
    /\ state = "uninit"
    /\ bytes_written = 0
    /\ current = <<>> /\ buffer = <<>> /\ saved = <<>> /\ pending = <<>>
    /\ renamed = FALSE
    /\ lines = 0

\* What a driver counts for a line.  The CRI driver counts what it writes,
\* the newline it adds to a partial line included; the JSON driver does not
\* count the newline it adds to every line.
Counted(l) == Header + l.len + (IF kind = "cri" /\ l.partial THEN 1 ELSE 0)

\* open(): truncate the path.  The buffer of the old handle is dropped unflushed.
Open ==
    /\ saved' = IF renamed THEN saved \o current ELSE saved
    /\ current' = <<>> /\ buffer' = <<>>
    /\ renamed' = FALSE

InitLog ==
    /\ state = "uninit"
    /\ state' = "ok"
    /\ Open
    /\ UNCHANGED <<kind, bytes_written, pending, lines>>

Ready == state # "uninit"

\* ContainerLog::write takes a chunk: any number of lines, of which only the
\* last can be partial.
StartWrite ==
    /\ Ready /\ pending = <<>>
    /\ \E n \in 1..MaxChunk :
        /\ lines + n <= MaxLines
        /\ \E len \in [1..n -> Length], partial \in BOOLEAN :
              pending' = [i \in 1..n |-> [number |-> lines + i, len |-> len[i],
                                          partial |-> partial /\ i = n]]
        /\ lines' = lines + n
    /\ UNCHANGED <<kind, state, bytes_written, current, buffer, renamed, saved>>

\* Faulty: the next line is not counted.
NewBytesUncounted == bytes_written

\* bytes_written with the next line; the CRI driver and the JSON driver agree.
NewBytes == bytes_written + Counted(Head(pending))

\* Faulty: the line buffer is not cleared, so a line is written with the next one.
PutTwice(cur, buf) ==
    LET all == buf \o <<Head(pending), Head(pending)>>
    IN  IF kind = "json" \/ Tail(pending) = <<>>
        THEN current' = cur \o all /\ buffer' = <<>>
        ELSE current' = cur /\ buffer' = all

\* Faulty: nothing is flushed.
PutUnflushed(cur, buf) == current' = cur /\ buffer' = Append(buf, Head(pending))

\* The handle gets the line: the CRI driver flushes after the chunk, the JSON
\* driver after every line.
Put(cur, buf) ==
    LET all == Append(buf, Head(pending))
    IN  IF kind = "json" \/ Tail(pending) = <<>>
        THEN current' = cur \o all /\ buffer' = <<>>
        ELSE current' = cur /\ buffer' = all

\* The counter after a rotation.
RotatedBytes == 0

\* One turn of the write loop, while the file is not too large ...
WriteLine ==
    /\ Ready /\ pending # <<>> /\ NewBytes <= MaxSize
    /\ Put(current, buffer)
    /\ bytes_written' = NewBytes
    /\ pending' = Tail(pending)
    /\ UNCHANGED <<kind, state, renamed, saved, lines>>

\* ... and when the line would exceed the maximum: the file is reopened, the
\* counter starts at 0, and the line is written without being counted.
RotateLine ==
    /\ Ready /\ pending # <<>> /\ NewBytes > MaxSize
    /\ saved' = IF renamed THEN saved \o current ELSE saved
    /\ renamed' = FALSE
    /\ Put(<<>>, <<>>)
    /\ bytes_written' = RotatedBytes
    /\ pending' = Tail(pending)
    /\ UNCHANGED <<kind, state, lines>>

\* The file cannot be opened again: write() fails, the rest of the chunk is lost
\* and the caller's read loop ends.  The loop of the other pipe goes on writing
\* to the old handle.  The JSON driver has counted the line already.
RotateFails ==
    /\ OpenMayFail
    /\ Ready /\ pending # <<>> /\ NewBytes > MaxSize
    /\ state' = "failed"
    /\ pending' = <<>>
    /\ bytes_written' = IF kind = "json" THEN NewBytes ELSE bytes_written
    /\ UNCHANGED <<kind, current, buffer, renamed, saved, lines>>

\* The engine moves the file away, at any time; the handle follows the file.
Rename ==
    /\ MayRename /\ Ready /\ ~renamed
    /\ renamed' = TRUE
    /\ UNCHANGED <<kind, state, bytes_written, current, buffer, saved, pending, lines>>

\* reopen_log_container: between two chunks, for the write lock is held during
\* one.  The counter is left alone, and a file that was not moved is truncated.
ReopenLog ==
    /\ Ready /\ pending = <<>>
    /\ Open
    /\ UNCHANGED <<kind, state, bytes_written, pending, lines>>

Next == \/ InitLog \/ StartWrite \/ WriteLine \/ RotateLine \/ RotateFails
        \/ Rename \/ ReopenLog

Spec == Init /\ [][Next]_vars

-----------------------------------------------------------------------------

\* What the driver counts for the lines of s.
Size(s) ==
    LET total[i \in 0..Len(s)] == IF i = 0 THEN 0 ELSE total[i - 1] + Counted(s[i])
    IN  total[Len(s)]

\* The lines the driver has not discarded since it last opened the file.
Held == current \o buffer

\* The file of the driver holds the most recent output, without a gap, up to the
\* last line whose write is finished: truncating, buffering and reopening never
\* lose a line that is younger than one they keep, as long as no write fails
\* (write, reopen and flush).
RecentLinesKept ==
    state = "ok" => \A i \in 1..Len(Held) :
        Held[i].number = lines - Len(pending) - Len(Held) + i

\* An engine that moves the file away and asks for ReopenLog loses nothing: every
\* line the driver held is in the file that was moved (write flushes its buffer
\* before it gives up the lock, reopen itself does not).
ReopenLosesNothing ==
    [][ReopenLog /\ renamed /\ state = "ok" => saved' \o Held' = saved \o Held]_vars

\* A rotation happens soon enough: what the driver counts of its file exceeds
\* the maximum by no more than the file's first line, the one that caused the
\* last rotation and was not counted (write).
OvershootBounded == Held # <<>> => Size(Held) <= MaxSize + Counted(Held[1])

=============================================================================
