---------------------------- MODULE ContainerIO ----------------------------
(***************************************************************************)
(* The output of one container or exec without a terminal, from its pipes  *)
(* to the log, the attach clients and the exec answer: read_loop and       *)
(* read_stream_with_timeout of container_io.rs, handle_stdio_receive of    *)
(* streams.rs, SharedContainerAttach and Attach::write_loop of attach.rs.  *)
(*                                                                         *)
(* One read loop per pipe and one write loop per attach client run in      *)
(* parallel.  They share the logger, behind a lock that a read loop keeps  *)
(* from the log write to the end of the turn, and a tokio broadcast        *)
(* channel, which holds Cap messages and makes a receiver that falls       *)
(* further behind fail.                                                    *)
(***************************************************************************)
EXTENDS Integers, Sequences

CONSTANTS
    Pipe,         \* stdout and stderr
    Client,       \* attach clients
    Draining,     \* the clients that keep reading what they are sent
    MaxChunks,    \* bound: chunks the container writes, per pipe
    Cap,          \* capacity of the write_half broadcast channel (4)
    MaxStream,    \* MAX_STDIO_STREAM_SIZE, in chunks
    Request,      \* "create" or "exec": only exec_sync_container reads the messages
    HasTimeout,   \* ... with a deadline
    LogMayFail,   \* whether writing a log driver's file may fail
    None

ASSUME ContainerIOAssumption ==
    /\ MaxChunks \in [Pipe -> Nat] /\ Cap \in Nat \ {0} /\ MaxStream \in Nat
    /\ Request \subseteq {"create", "exec"} /\ Draining \subseteq Client
    /\ {HasTimeout, LogMayFail} \subseteq BOOLEAN
    /\ None \notin Pipe

\* A message is the n-th chunk of a pipe, or its end.
Data(p, n) == [pipe |-> p, chunk |-> n]
Done(p) == [pipe |-> p, chunk |-> 0]
IsDone(m) == m.chunk = 0
Message == UNION {[pipe : {p}, chunk : 0..MaxChunks[p]] : p \in Pipe}

VARIABLES
    produced,   \* chunks the container has written to a pipe
    eof,        \* the container has closed the pipe
    taken,      \* chunks the read loop has read
    loop,       \* the read loop of a pipe
    lock,       \* the read loop that holds the logger
    log,        \* the log, all drivers of it
    chan,       \* everything sent on the broadcast channel
    client,     \* an attach client's write loop
    cursor,     \* the next message of chan its receiver gets
    gone,       \* the client has closed its end
    out,        \* packets written to the client, the last one perhaps not yet
    msgs,       \* the unbounded message channel of a pipe
    reader,     \* read_stream_with_timeout of a pipe
    collected,  \* what it has gathered
    elapsed     \* the deadline has passed

container == <<produced, eof>>
reading == <<taken, loop, lock, log>>
attaching == <<client, cursor, gone, out>>
answering == <<reader, collected, elapsed>>
vars == <<container, reading, chan, attaching, msgs, answering>>

TypeOK ==
    /\ produced \in [Pipe -> Nat] /\ taken \in [Pipe -> Nat]
    /\ \A p \in Pipe : produced[p] <= MaxChunks[p] /\ taken[p] <= produced[p]
    /\ eof \in [Pipe -> BOOLEAN]
    /\ loop \in [Pipe -> {"read", "log", "check", "send", "message", "done",
                          "failed"}]
    /\ lock \in Pipe \cup {None}
    /\ log \in Seq(Message)
    /\ chan \in Seq(Message)
    /\ client \in [Client -> {"absent", "subscribed", "ended"}]
    /\ cursor \in [Client -> Nat \ {0}]
    /\ gone \in [Client -> BOOLEAN]
    /\ out \in [Client -> Seq(Message)]
    /\ msgs \in [Pipe -> Seq(Message)]
    /\ reader \in [Pipe -> {"none", "reading", "eof", "full", "timedOut"}]
    /\ collected \in [Pipe -> Seq(Message)]
    /\ elapsed \in BOOLEAN

Init ==
    /\ produced = [p \in Pipe |-> 0]
    /\ eof = [p \in Pipe |-> FALSE]
    /\ taken = [p \in Pipe |-> 0]
    /\ loop = [p \in Pipe |-> "read"]
    /\ lock = None
    /\ log = <<>>
    /\ chan = <<>>
    /\ client = [k \in Client |-> "absent"]
    /\ cursor = [k \in Client |-> 1]
    /\ gone = [k \in Client |-> FALSE]
    /\ out = [k \in Client |-> <<>>]
    /\ msgs = [p \in Pipe |-> <<>>]
    /\ \E r \in Request :
          reader = [p \in Pipe |-> IF r = "exec" THEN "reading" ELSE "none"]
    /\ collected = [p \in Pipe |-> <<>>]
    /\ elapsed = FALSE

-----------------------------------------------------------------------------
(* The container. *)

\* A pipe nobody reads any more refuses data.
Produce(p) ==
    /\ ~eof[p] /\ produced[p] < MaxChunks[p] /\ loop[p] # "failed"
    /\ produced' = [produced EXCEPT ![p] = @ + 1]
    /\ UNCHANGED <<eof, reading, chan, attaching, msgs, answering>>

CloseStream(p) ==
    /\ ~eof[p]
    /\ eof' = [eof EXCEPT ![p] = TRUE]
    /\ UNCHANGED <<produced, reading, chan, attaching, msgs, answering>>

-----------------------------------------------------------------------------
(* ContainerIO::read_loop. *)

\* The message the loop is handing out in this turn: after the end of the
\* stream was read, its end, otherwise the last chunk read.  Only a data turn
\* holds the logger.
Current(p) == IF lock = p THEN Data(p, taken[p]) ELSE Done(p)

Unlock(p) == lock' = IF lock = p THEN None ELSE lock

Read(p) ==
    /\ loop[p] = "read" /\ taken[p] < produced[p]
    /\ taken' = [taken EXCEPT ![p] = @ + 1]
    /\ loop' = [loop EXCEPT ![p] = "log"]
    /\ UNCHANGED <<container, lock, log, chan, attaching, msgs, answering>>

\* Faulty: the attach clients are not told.
ReadEofSilent(p) ==
    /\ loop[p] = "read" /\ eof[p] /\ taken[p] = produced[p]
    /\ loop' = [loop EXCEPT ![p] = "message"]
    /\ UNCHANGED <<container, taken, lock, log, chan, attaching, msgs, answering>>

\* Ok(0) of a pipe.  A terminal reports its end as EIO, with the same outcome;
\* EAGAIN and other errors are tried again, and EBADF cannot happen to a
\* descriptor the loop owns.
ReadEof(p) ==
    /\ loop[p] = "read" /\ eof[p] /\ taken[p] = produced[p]
    /\ loop' = [loop EXCEPT ![p] = "check"]
    /\ UNCHANGED <<container, taken, lock, log, chan, attaching, msgs, answering>>

WriteLog(p) ==
    /\ loop[p] = "log" /\ lock = None
    /\ lock' = p
    /\ log' = Append(log, Data(p, taken[p]))
    /\ loop' = [loop EXCEPT ![p] = "check"]
    /\ UNCHANGED <<container, taken, chan, attaching, msgs, answering>>

\* Faulty: the error is ignored and the chunk handed on.
WriteLogFailsIgnored(p) ==
    /\ LogMayFail /\ loop[p] = "log" /\ lock = None
    /\ lock' = p
    /\ loop' = [loop EXCEPT ![p] = "check"]
    /\ UNCHANGED <<container, taken, log, chan, attaching, msgs, answering>>

\* An error of a log driver ends the loop for good.
WriteLogFails(p) ==
    /\ LogMayFail /\ loop[p] = "log" /\ lock = None
    /\ loop' = [loop EXCEPT ![p] = "failed"]
    /\ UNCHANGED <<container, taken, lock, log, chan, attaching, msgs, answering>>

Receivers == {k \in Client : client[k] = "subscribed"}

\* SharedContainerAttach::write, first half: receiver_count() > 0 ...
AttachCheck(p) ==
    /\ loop[p] = "check"
    /\ loop' = [loop EXCEPT ![p] = IF Receivers # {} THEN "send" ELSE "message"]
    /\ UNCHANGED <<container, taken, lock, log, chan, attaching, msgs, answering>>

\* ... second half: send().
AttachSend(p) ==
    /\ loop[p] = "send" /\ Receivers # {}
    /\ chan' = Append(chan, Current(p))
    /\ loop' = [loop EXCEPT ![p] = "message"]
    /\ UNCHANGED <<container, taken, lock, log, attaching, msgs, answering>>

\* The last receiver went away in between: send() fails, and so does the loop.
AttachSendFails(p) ==
    /\ loop[p] = "send" /\ Receivers = {}
    /\ loop' = [loop EXCEPT ![p] = "failed"]
    /\ Unlock(p)
    /\ UNCHANGED <<container, taken, log, chan, attaching, msgs, answering>>

\* The receiving end lives as long as the child, so it is never closed.
SendMessage(p) ==
    /\ loop[p] = "message"
    /\ msgs' = [msgs EXCEPT ![p] = Append(@, Current(p))]
    /\ loop' = [loop EXCEPT ![p] = IF IsDone(Current(p)) THEN "done" ELSE "read"]
    /\ Unlock(p)
    /\ UNCHANGED <<container, taken, log, chan, attaching, answering>>

-----------------------------------------------------------------------------
(* Attach::start and Attach::write_loop. *)

\* A connection is accepted: the receiver sees what is sent from now on.
Accept(k) ==
    /\ client[k] = "absent"
    /\ client' = [client EXCEPT ![k] = "subscribed"]
    /\ cursor' = [cursor EXCEPT ![k] = Len(chan) + 1]
    /\ UNCHANGED <<container, reading, chan, gone, out, msgs, answering>>

Pending(k) == client[k] = "subscribed" /\ cursor[k] <= Len(chan)
Lagged(k) == Len(chan) - cursor[k] + 1 > Cap

\* Writing to a client that is gone fails with EPIPE, which is ignored.
WritePacket(k) ==
    /\ Pending(k) /\ ~Lagged(k)
    /\ LET m == chan[cursor[k]]
       IN  /\ out' = IF gone[k] THEN out ELSE [out EXCEPT ![k] = Append(@, m)]
           /\ client' = IF IsDone(m) THEN [client EXCEPT ![k] = "ended"] ELSE client
    /\ cursor' = [cursor EXCEPT ![k] = @ + 1]
    /\ UNCHANGED <<container, reading, chan, gone, msgs, answering>>

\* Faulty: the receiver goes on with the oldest message it can still get.
WriteLaggedSkips(k) ==
    /\ Pending(k) /\ Lagged(k)
    /\ cursor' = [cursor EXCEPT ![k] = Len(chan) - Cap + 1]
    /\ UNCHANGED <<container, reading, chan, client, gone, out, msgs, answering>>

\* recv() reports the lag as an error: the loop ends and closes the socket.
WriteLagged(k) ==
    /\ Pending(k) /\ Lagged(k)
    /\ client' = [client EXCEPT ![k] = "ended"]
    /\ UNCHANGED <<container, reading, chan, cursor, gone, out, msgs, answering>>

ClientGone(k) ==
    /\ client[k] = "subscribed" /\ ~gone[k]
    /\ gone' = [gone EXCEPT ![k] = TRUE]
    /\ UNCHANGED <<container, reading, chan, client, cursor, out, msgs, answering>>

\* Any other error of writing to a client that is gone ends its loop.
WriteFails(k) ==
    /\ Pending(k) /\ ~Lagged(k) /\ gone[k]
    /\ client' = [client EXCEPT ![k] = "ended"]
    /\ UNCHANGED <<container, reading, chan, cursor, gone, out, msgs, answering>>

-----------------------------------------------------------------------------
(* ContainerIO::read_stream_with_timeout, for exec_sync_container. *)

\* Faulty: an off-by-one at the limit.
FitsExactly(p) == Len(collected[p]) + 1 <= MaxStream

Fits(p) == Len(collected[p]) + 1 < MaxStream

\* Data is gathered as long as the limit is not reached.
Gather(p) ==
    /\ reader[p] = "reading" /\ msgs[p] # <<>>
    /\ LET m == Head(msgs[p])
       IN  IF IsDone(m)
           THEN /\ reader' = [reader EXCEPT ![p] = "eof"]
                /\ UNCHANGED collected
           ELSE IF Fits(p)
           THEN /\ collected' = [collected EXCEPT ![p] = Append(@, m)]
                /\ UNCHANGED reader
           ELSE /\ reader' = [reader EXCEPT ![p] = "full"]
                /\ UNCHANGED collected
    /\ msgs' = [msgs EXCEPT ![p] = Tail(@)]
    /\ UNCHANGED <<container, reading, chan, attaching, elapsed>>

Elapse ==
    /\ HasTimeout /\ ~elapsed /\ \E p \in Pipe : reader[p] = "reading"
    /\ elapsed' = TRUE
    /\ UNCHANGED <<container, reading, chan, attaching, msgs, reader, collected>>

\* Faulty: the deadline is only looked at after the end of the stream.
GatherTimeoutAtEof(p) ==
    /\ reader[p] = "reading" /\ elapsed /\ msgs[p] = <<>> /\ eof[p]
    /\ reader' = [reader EXCEPT ![p] = "timedOut"]
    /\ UNCHANGED <<container, reading, chan, attaching, msgs, collected, elapsed>>

\* timeout_at polls the channel first: only an empty one times out.
GatherTimeout(p) ==
    /\ reader[p] = "reading" /\ elapsed /\ msgs[p] = <<>>
    /\ reader' = [reader EXCEPT ![p] = "timedOut"]
    /\ UNCHANGED <<container, reading, chan, attaching, msgs, collected, elapsed>>

-----------------------------------------------------------------------------

ReadStep(p) == \/ Read(p) \/ ReadEof(p) \/ WriteLog(p) \/ WriteLogFails(p)
               \/ AttachCheck(p) \/ AttachSend(p) \/ AttachSendFails(p)
               \/ SendMessage(p)
WriteStep(k) == WritePacket(k) \/ WriteLagged(k) \/ WriteFails(k)

Next ==
    \/ \E p \in Pipe : \/ Produce(p) \/ CloseStream(p) \/ ReadStep(p)
                       \/ Gather(p) \/ GatherTimeout(p)
    \/ \E k \in Client : Accept(k) \/ WriteStep(k) \/ ClientGone(k)
    \/ Elapse

Spec == Init /\ [][Next]_vars

\* Loops that can run do run, and time passes.  Nothing is assumed of the
\* container, and of a client only that it drains its socket: one that stays
\* connected and does not blocks the write under way, and with it its loop.
Fairness ==
    /\ \A p \in Pipe : /\ WF_vars(ReadStep(p)) /\ SF_vars(WriteLog(p))
                       /\ WF_vars(Gather(p)) /\ WF_vars(GatherTimeout(p))
    /\ \A k \in Draining : WF_vars(WriteStep(k))
    /\ \A k \in Client : WF_vars(gone[k] /\ WriteStep(k))
    /\ WF_vars(Elapse)

FairSpec == Spec /\ Fairness

-----------------------------------------------------------------------------

Chunks(p, n) == [i \in 1..n |-> Data(p, i)]
LoggedOf(p) == {log[i] : i \in {j \in DOMAIN log : log[j].pipe = p}}

\* The log holds every chunk a read loop has read, once and in order, except the
\* one it is about to write, whatever the attach clients and the other pipe do
\* (read_loop writes the log before anything else).
LogComplete ==
    /\ \A i, j \in DOMAIN log :
          i < j /\ log[i].pipe = log[j].pipe => log[i].chunk < log[j].chunk
    /\ \A p \in Pipe : \E n \in {taken[p], taken[p] - 1} :
          /\ LoggedOf(p) = {Data(p, c) : c \in 1..n}
          /\ loop[p] \notin {"log", "failed"} => n = taken[p]

\* Packet j of an attach client is message b + j of the log, or the end.
Mirrors(k, b) ==
    \A j \in DOMAIN out[k] :
        IF IsDone(out[k][j])
        THEN j = Len(out[k])
        ELSE b + j \in DOMAIN log /\ out[k][j] = log[b + j]

\* What an attach client sees is a contiguous part of the log, with stdout and
\* stderr interleaved as they are there: nothing is skipped, repeated or
\* reordered between its first and its last packet, and nothing follows an end
\* (the logger's lock is held until the message is sent; a receiver that lags
\* ends instead of skipping).
AttachMirrorsLog == \A k \in Client : \E b \in 0..Len(log) : Mirrors(k, b)

\* The answer of an exec holds the output from its beginning without a gap, less
\* than the limit of it, and all of it when the end of the stream was reached
\* (read_stream_with_timeout).
ExecOutputTruthful ==
    \A p \in Pipe :
        /\ collected[p] = Chunks(p, Len(collected[p]))
        /\ reader[p] = "eof" => eof[p] /\ Len(collected[p]) = produced[p]
        /\ MaxStream > 0 => Len(collected[p]) < MaxStream

\* An exec with a deadline gets its output, however the process behaves.
ExecReadEnds ==
    HasTimeout =>
        \A p \in Pipe : (reader[p] = "reading") ~> (reader[p] # "reading")

\* When a pipe has been read to its end the loop of every attached client that
\* drains its socket, or is gone, ends, whatever the other pipe and the log do and
\* whoever else is attached without reading (the Done message of read_loop and
\* the channel, which never blocks its senders).
AttachEnds ==
    \A k \in Client, p \in Pipe :
        (/\ client[k] = "subscribed" /\ (k \in Draining \/ gone[k])
         /\ loop[p] = "read" /\ eof[p] /\ taken[p] = produced[p])
            ~> (client[k] = "ended")

=============================================================================
