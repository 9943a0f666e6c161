------------------------- MODULE ContainerIOProofs -------------------------
(***************************************************************************)
(* Theorems about ContainerIO, for any set of pipes and of attach clients, *)
(* any amount of output, any capacity of the broadcast channel and any     *)
(* limit of an answer: the log is complete, an attach client sees a part   *)
(* of it, and the output an exec is answered with is a true beginning.     *)
(***************************************************************************)
EXTENDS ContainerIO, SequenceTheorems, TLAPS

\* Where a turn of a read loop stands.  The logger is held in a data turn only;
\* a turn without it is the one after the end of the stream, which has been
\* read completely by then.
Turn == {"check", "send", "message"}
LoopInv ==
    \A p \in Pipe :
        /\ lock = p => loop[p] \in Turn
        /\ loop[p] = "log" \/ lock = p => taken[p] > 0
        /\ (loop[p] \in Turn /\ lock # p) \/ loop[p] = "done"
              => eof[p] /\ taken[p] = produced[p]

\* The log has the first n chunks of a pipe.
LoggedTo(p, n) ==
    /\ \A i \in DOMAIN log : log[i].pipe = p => log[i].chunk \in 1..n
    /\ \A c \in 1..n : \E i \in DOMAIN log : log[i] = Data(p, c)

\* Chunks of a pipe are logged in order; while one waits for the logger it is the
\* only one missing; while the logger is held, its last message is the chunk of
\* the turn.
LogOrder ==
    \A i, j \in DOMAIN log :
        i < j /\ log[i].pipe = log[j].pipe => log[i].chunk < log[j].chunk
LogUpTo(p) ==
    \E n \in {taken[p], taken[p] - 1} :
        /\ LoggedTo(p, n)
        /\ loop[p] \notin {"log", "failed"} => n = taken[p]
        /\ loop[p] = "log" => n = taken[p] - 1
LogLast == lock \in Pipe => log # <<>> /\ log[Len(log)] = Data(lock, taken[lock])
LogInv == LogOrder /\ (\A p \in Pipe : LogUpTo(p)) /\ LogLast

\* A message that is logged and not yet offered to the attach clients.
Unsent == lock \in Pipe /\ loop[lock] \in {"check", "send"}
Ahead == IF Unsent THEN 1 ELSE 0

\* The channel from position c on has, up to the next Done, the messages of the
\* log after position s; with no Done in it, all of them but the unsent one.
NoDone(i, j) == \A h \in i..j : ~IsDone(chan[h])
Follows(c, s) ==
    /\ \A j \in c..Len(chan) :
          NoDone(c, j) => /\ s + (j - c) + 1 \in DOMAIN log
                          /\ chan[j] = log[s + (j - c) + 1]
    /\ NoDone(c, Len(chan)) => s + (Len(chan) - c) + 1 = Len(log) - Ahead

\* A client that reads follows the log from where its packets end.
Attached(k) == client[k] = "subscribed" /\ ~gone[k]
NotEnded(k) == \A j \in DOMAIN out[k] : ~IsDone(out[k][j])
CursorInv ==
    \A k \in Client : /\ cursor[k] \in 1..(Len(chan) + 1)
                      /\ client[k] = "absent" => out[k] = <<>>
MirrorAt(k, b) ==
    /\ Mirrors(k, b)
    /\ Attached(k) => Follows(cursor[k], b + Len(out[k])) /\ NotEnded(k)
MirrorInv == \A k \in Client : \E b \in 0..Len(log) : MirrorAt(k, b)

\* What the message channel of a pipe holds continues what was gathered: all
\* chunks read but that of the turn under way, and the end after the last one.
GatherInv(p) ==
    /\ collected[p] = Chunks(p, Len(collected[p]))
    /\ MaxStream > 0 => Len(collected[p]) < MaxStream
    /\ reader[p] = "eof" => eof[p] /\ Len(collected[p]) = produced[p]
QueueInv(p) ==
    reader[p] = "reading" =>
        /\ \A j \in DOMAIN msgs[p] :
              IF j = Len(msgs[p]) /\ loop[p] = "done"
              THEN msgs[p][j] = Done(p)
              ELSE msgs[p][j] = Data(p, Len(collected[p]) + j)
        /\ loop[p] = "done" =>
              msgs[p] # <<>> /\ Len(collected[p]) + Len(msgs[p]) = taken[p] + 1
        /\ loop[p] = "log" \/ lock = p =>
              Len(collected[p]) + Len(msgs[p]) = taken[p] - 1
        /\ loop[p] = "read" \/ (loop[p] \in Turn /\ lock # p) =>
              Len(collected[p]) + Len(msgs[p]) = taken[p]
StreamInv == \A p \in Pipe : GatherInv(p) /\ QueueInv(p)

Inv == TypeOK /\ LoopInv /\ LogInv /\ CursorInv /\ MirrorInv /\ StreamInv

-----------------------------------------------------------------------------
(* Messages. *)

\* The part of the assumption that the types below rest on.
LEMMA ChunkBounds == MaxChunks \in [Pipe -> Nat]
  BY ContainerIOAssumption

\* A message is determined by its pipe and its number.
LEMMA MessageShape ==
    ASSUME NEW m \in Message
    PROVE  m.pipe \in Pipe /\ m.chunk \in Nat /\ m = Data(m.pipe, m.chunk)
  BY ContainerIOAssumption DEF Message, Data

\* The chunks of a pipe and its end are messages.
LEMMA DataMessage ==
    ASSUME NEW p \in Pipe, NEW n \in Nat, n <= MaxChunks[p]
    PROVE  Data(p, n) \in Message /\ Done(p) \in Message
<1>1. MaxChunks[p] \in Nat /\ n \in 0..MaxChunks[p] /\ 0 \in 0..MaxChunks[p]
  BY ContainerIOAssumption
<1>. QED
  BY <1>1 DEF Message, Data, Done

\* A read loop has read no more than was written, within the bound.
LEMMA TakenBounds ==
    ASSUME TypeOK, NEW p \in Pipe
    PROVE  /\ taken[p] \in Nat /\ produced[p] \in Nat
           /\ taken[p] <= produced[p] /\ taken[p] <= MaxChunks[p]
<1>1. taken[p] \in Nat /\ produced[p] \in Nat /\ MaxChunks[p] \in Nat
  BY ChunkBounds DEF TypeOK
<1>2. taken[p] <= produced[p] /\ produced[p] <= MaxChunks[p]
  BY DEF TypeOK
<1>. QED
  BY <1>1, <1>2

\* The message of a turn.
LEMMA CurrentMessage ==
    ASSUME TypeOK, NEW p \in Pipe
    PROVE  Current(p) \in Message
<1>1. taken[p] \in Nat /\ taken[p] <= MaxChunks[p]
  BY TakenBounds
<1>2. Data(p, taken[p]) \in Message /\ Done(p) \in Message
  BY <1>1, DataMessage
<1>. QED
  BY <1>2 DEF Current

-----------------------------------------------------------------------------
(* Types. *)

\* The initial state has its types.
LEMMA TypeInit == Init => TypeOK
<1>2. ASSUME Init PROVE  reader \in [Pipe -> {"none", "reading", "eof", "full", "timedOut"}]
  BY <1>2 DEF Init
<1>3. ASSUME Init PROVE  /\ \A p \in Pipe : produced[p] <= MaxChunks[p] /\ taken[p] <= produced[p]
                         /\ produced \in [Pipe -> Nat] /\ taken \in [Pipe -> Nat]
  BY ChunkBounds, <1>3 DEF Init
<1>4. ASSUME Init PROVE  /\ cursor \in [Client -> Nat \ {0}] /\ lock \in Pipe \cup {None}
                         /\ log \in Seq(Message) /\ chan \in Seq(Message)
                         /\ out \in [Client -> Seq(Message)]
                         /\ msgs \in [Pipe -> Seq(Message)]
                         /\ collected \in [Pipe -> Seq(Message)]
  BY <1>4 DEF Init
<1>5. ASSUME Init PROVE  TypeOK
  BY <1>2, <1>3, <1>4, <1>5 DEF Init, TypeOK
<1>. QED
  BY <1>5

\* Every step preserves them.
LEMMA TypeStep == TypeOK /\ [Next]_vars => TypeOK'
<1>. SUFFICES ASSUME TypeOK, [Next]_vars
              PROVE  TypeOK'
  OBVIOUS
<1>1. TypeOK
  OBVIOUS
<1>2. ASSUME NEW p \in Pipe, Produce(p) PROVE  TypeOK'
  <2>1. produced' \in [Pipe -> Nat]
    BY <1>1, <1>2 DEF Produce, TypeOK
  <2>2. ASSUME NEW q \in Pipe PROVE  produced'[q] <= MaxChunks[q] /\ taken[q] <= produced'[q]
    <3>1. produced[q] \in Nat /\ taken[q] \in Nat /\ MaxChunks[q] \in Nat
      BY <1>1, ChunkBounds DEF TypeOK
    <3>2. produced[q] <= MaxChunks[q] /\ taken[q] <= produced[q]
      BY <1>1 DEF TypeOK
    <3>3. produced'[q] = IF q = p THEN produced[q] + 1 ELSE produced[q]
      BY <1>1, <1>2 DEF Produce, TypeOK
    <3>4. produced[p] < MaxChunks[p]
      BY <1>2 DEF Produce
    <3>. QED
      BY <3>1, <3>2, <3>3, <3>4
  <2>. QED
    BY <1>1, <1>2, <2>1, <2>2 DEF Produce, reading, attaching, answering, TypeOK
<1>3. ASSUME NEW p \in Pipe, CloseStream(p) PROVE  TypeOK'
  BY <1>1, <1>3 DEF CloseStream, container, reading, attaching, answering, TypeOK
<1>4. ASSUME NEW p \in Pipe, Read(p) PROVE  TypeOK'
  BY <1>1, <1>4 DEF Read, container, reading, attaching, answering, TypeOK
<1>5. ASSUME NEW p \in Pipe, ReadEof(p) PROVE  TypeOK'
  BY <1>1, <1>5 DEF ReadEof, container, reading, attaching, answering, TypeOK
<1>6. ASSUME NEW p \in Pipe, WriteLog(p) PROVE  TypeOK'
  <2>1. Data(p, taken[p]) \in Message
    BY ContainerIOAssumption, DataMessage, <1>1 DEF TypeOK
  <2>. QED
    BY <1>1, <1>6, <2>1 DEF WriteLog, container, reading, attaching, answering, TypeOK
<1>7. ASSUME NEW p \in Pipe, WriteLogFails(p) PROVE  TypeOK'
  BY <1>1, <1>7 DEF WriteLogFails, container, reading, attaching, answering, TypeOK
<1>8. ASSUME NEW p \in Pipe, AttachCheck(p) PROVE  TypeOK'
  BY <1>1, <1>8 DEF AttachCheck, container, reading, attaching, answering, TypeOK
<1>9. ASSUME NEW p \in Pipe, AttachSend(p) PROVE  TypeOK'
  BY <1>1, <1>9, CurrentMessage DEF AttachSend, container, reading, attaching, answering, TypeOK
<1>10. ASSUME NEW p \in Pipe, AttachSendFails(p) PROVE  TypeOK'
  BY <1>1, <1>10 DEF AttachSendFails, Unlock, container, reading, attaching, answering, TypeOK
<1>11. ASSUME NEW p \in Pipe, SendMessage(p) PROVE  TypeOK'
  <2>1. Current(p) \in Message
    BY <1>1, CurrentMessage
  <2>2. msgs' \in [Pipe -> Seq(Message)]
    BY <1>1, <1>11, <2>1 DEF TypeOK, SendMessage
  <2>3. lock' \in Pipe \cup {None}
    BY <1>1, <1>11 DEF TypeOK, SendMessage, Unlock
  <2>4. loop' \in [Pipe -> {"read", "log", "check", "send", "message", "done", "failed"}]
    BY <1>1, <1>11 DEF TypeOK, SendMessage
  <2>. QED
    BY <1>1, <1>11, <2>2, <2>3, <2>4 DEF SendMessage, container, attaching, answering, TypeOK
<1>12. ASSUME NEW p \in Pipe, Gather(p) PROVE  TypeOK'
  <2>1. msgs[p] \in Seq(Message) /\ msgs[p] # <<>>
    BY <1>1, <1>12 DEF TypeOK, Gather
  <2>2. Head(msgs[p]) \in Message /\ Tail(msgs[p]) \in Seq(Message)
    BY <2>1
  <2>3. msgs' \in [Pipe -> Seq(Message)]
    BY <1>1, <1>12, <2>2 DEF TypeOK, Gather
  <2>4. collected' \in [Pipe -> Seq(Message)]
    <3>1. collected[p] \in Seq(Message) /\ Append(collected[p], Head(msgs[p])) \in Seq(Message)
      BY <1>1, <2>2 DEF TypeOK
    <3>2. \/ collected' = collected
          \/ collected' = [collected EXCEPT ![p] = Append(@, Head(msgs[p]))]
      BY <1>12 DEF Gather
    <3>. QED
      BY <1>1, <3>1, <3>2 DEF TypeOK
  <2>5. reader' \in [Pipe -> {"none", "reading", "eof", "full", "timedOut"}]
    BY <1>1, <1>12 DEF TypeOK, Gather
  <2>. QED
    BY <1>1, <1>12, <2>3, <2>4, <2>5 DEF Gather, container, reading, attaching, TypeOK
<1>13. ASSUME NEW p \in Pipe, GatherTimeout(p) PROVE  TypeOK'
  BY <1>1, <1>13 DEF GatherTimeout, container, reading, attaching, answering, TypeOK
<1>14. ASSUME NEW k \in Client, Accept(k) PROVE  TypeOK'
  BY <1>1, <1>14 DEF Accept, container, reading, attaching, answering, TypeOK
<1>15. ASSUME NEW k \in Client, WritePacket(k) PROVE  TypeOK'
  <2>1. cursor[k] \in 1..Len(chan)
    BY <1>1, <1>15 DEF TypeOK, WritePacket, Pending
  <2>2. chan[cursor[k]] \in Message
    BY <1>1, <2>1 DEF TypeOK
  <2>3. out' \in [Client -> Seq(Message)]
    BY <1>1, <1>15, <2>2 DEF WritePacket, TypeOK
  <2>4. /\ client' = [client EXCEPT ![k] = "ended"] \/ UNCHANGED client
        /\ cursor' = [cursor EXCEPT ![k] = cursor[k] + 1]
        /\ UNCHANGED <<container, reading, chan, gone, msgs, answering>>
    BY <1>15 DEF WritePacket
  <2>5. client' \in [Client -> {"absent", "subscribed", "ended"}]
    BY <1>1, <2>4 DEF TypeOK
  <2>6. cursor' \in [Client -> Nat \ {0}]
    BY <1>1, <2>1, <2>4 DEF TypeOK
  <2>. QED
    BY <1>1, <2>3, <2>4, <2>5, <2>6 DEF container, reading, answering, TypeOK
<1>16. ASSUME NEW k \in Client, WriteLagged(k) PROVE  TypeOK'
  BY <1>1, <1>16 DEF WriteLagged, container, reading, attaching, answering, TypeOK
<1>17. ASSUME NEW k \in Client, WriteFails(k) PROVE  TypeOK'
  BY <1>1, <1>17 DEF WriteFails, container, reading, attaching, answering, TypeOK
<1>18. ASSUME NEW k \in Client, ClientGone(k) PROVE  TypeOK'
  BY <1>1, <1>18 DEF ClientGone, container, reading, attaching, answering, TypeOK
<1>19. CASE Elapse
  BY <1>1, <1>19 DEF Elapse, container, reading, attaching, answering, TypeOK
<1>20. CASE UNCHANGED vars
  BY <1>1, <1>20 DEF vars, container, reading, attaching, answering, TypeOK
<1>. QED
  BY <1>2, <1>3, <1>4, <1>5, <1>6, <1>7, <1>8, <1>9, <1>10, <1>11,
     <1>12, <1>13, <1>14, <1>15, <1>16, <1>17, <1>18, <1>19, <1>20
  DEF Next, ReadStep, WriteStep

-----------------------------------------------------------------------------
(* The steps that can matter to the read loops, to the clients, to an answer. *)

\* Only the read loops change their own state and the log.
LEMMA ReadingFrame ==
    [Next]_vars => (\E p \in Pipe : ReadStep(p)) \/ UNCHANGED reading
  BY DEF Next, WriteStep, Produce, CloseStream, Gather, GatherTimeout, Accept,
         WritePacket, WriteLagged, WriteFails, ClientGone, Elapse, vars

\* ... which, with the pipes, only they and the container change.
LEMMA ContainerFrame ==
    [Next]_vars => \/ \E p \in Pipe : Produce(p) \/ CloseStream(p) \/ ReadStep(p)
                   \/ UNCHANGED <<container, reading>>
  BY DEF Next, WriteStep, Gather, GatherTimeout, Accept,
         WritePacket, WriteLagged, WriteFails, ClientGone, Elapse, vars

\* The log, the channel and the clients: the read loops and the clients.
LEMMA AttachFrame ==
    [Next]_vars => \/ \E p \in Pipe : ReadStep(p)
                   \/ \E k \in Client : Accept(k) \/ WriteStep(k) \/ ClientGone(k)
                   \/ UNCHANGED <<reading, chan, attaching>>
  BY DEF Next, Produce, CloseStream, Gather, GatherTimeout, Elapse, vars

\* The pipes, the message channels and an answer: all but the clients.
LEMMA AnswerFrame ==
    [Next]_vars => \/ \E p \in Pipe : \/ Produce(p) \/ CloseStream(p) \/ ReadStep(p)
                                      \/ Gather(p) \/ GatherTimeout(p)
                   \/ UNCHANGED <<container, reading, msgs, reader, collected>>
  BY DEF Next, WriteStep, Accept, WritePacket, WriteLagged, WriteFails, ClientGone,
         Elapse, vars, answering

-----------------------------------------------------------------------------
(* The turns of the read loops. *)

\* The loops start between two turns.
LEMMA LoopInit == Init => LoopInv
<1>1. None \notin Pipe
  BY ContainerIOAssumption
<1>2. ASSUME Init, NEW p \in Pipe PROVE  lock # p /\ loop[p] = "read"
  BY <1>1, <1>2 DEF Init
<1>. QED
  BY <1>2 DEF LoopInv, Turn

\* A turn holds the logger from its log write to its message, or came from the end.
LEMMA LoopStep == TypeOK /\ LoopInv /\ [Next]_vars => LoopInv'
<1>. SUFFICES ASSUME TypeOK, LoopInv, [Next]_vars
              PROVE  LoopInv'
  OBVIOUS
<1>1. TypeOK /\ LoopInv
  OBVIOUS
<1>2. ASSUME NEW p \in Pipe, Produce(p) PROVE  LoopInv'
  BY <1>1, <1>2 DEF Produce, container, reading, attaching, answering, LoopInv, TypeOK, Turn
<1>3. ASSUME NEW p \in Pipe, CloseStream(p) PROVE  LoopInv'
  BY <1>1, <1>3 DEF CloseStream, container, reading, attaching, answering, LoopInv, TypeOK, Turn
<1>4. ASSUME NEW p \in Pipe, Read(p) PROVE  LoopInv'
  <2>1. UNCHANGED <<lock, eof, produced>> /\ loop'[p] = "log" /\ taken'[p] > 0
    BY <1>1, <1>4 DEF Read, container, TypeOK
  <2>2. lock # p
    BY <1>1, <1>4 DEF Read, LoopInv, Turn
  <2>3. \A q \in Pipe \ {p} : loop'[q] = loop[q] /\ taken'[q] = taken[q]
    BY <1>1, <1>4 DEF Read, TypeOK
  <2>. QED
    BY <1>1, <2>1, <2>2, <2>3 DEF LoopInv, Turn
<1>5. ASSUME NEW p \in Pipe, ReadEof(p) PROVE  LoopInv'
  BY <1>1, <1>5 DEF ReadEof, container, reading, attaching, answering, LoopInv, TypeOK, Turn
<1>6. ASSUME NEW p \in Pipe, WriteLog(p) PROVE  LoopInv'
  BY <1>1, <1>6, ContainerIOAssumption DEF WriteLog, container, LoopInv, TypeOK, Turn
<1>7. ASSUME NEW p \in Pipe, WriteLogFails(p) PROVE  LoopInv'
  BY <1>1, <1>7 DEF WriteLogFails, container, reading, attaching, answering, LoopInv, TypeOK, Turn
<1>8. ASSUME NEW p \in Pipe, AttachCheck(p) PROVE  LoopInv'
  BY <1>1, <1>8 DEF AttachCheck, container, reading, attaching, answering, LoopInv, TypeOK, Turn
<1>9. ASSUME NEW p \in Pipe, AttachSend(p) PROVE  LoopInv'
  BY <1>1, <1>9 DEF AttachSend, container, reading, attaching, answering, LoopInv, TypeOK, Turn
<1>10. ASSUME NEW p \in Pipe, AttachSendFails(p) PROVE  LoopInv'
  BY <1>1, <1>10, ContainerIOAssumption DEF AttachSendFails, Unlock, container, LoopInv, TypeOK, Turn
<1>11. ASSUME NEW p \in Pipe, SendMessage(p) PROVE  LoopInv'
  BY <1>1, <1>11, ContainerIOAssumption DEF SendMessage, Unlock, Current, IsDone, Data, Done, container, LoopInv, TypeOK, Turn
<1>12. CASE UNCHANGED <<container, reading>>
  BY <1>1, <1>12 DEF container, reading, LoopInv, TypeOK, Turn
<1>. QED
  BY <1>2, <1>3, <1>4, <1>5, <1>6, <1>7, <1>8, <1>9, <1>10, <1>11,
     <1>12, ContainerFrame
  DEF ReadStep, WriteStep

-----------------------------------------------------------------------------
(* The log. *)

\* The log starts empty, with nothing read.
LEMMA LogInit == Init => LogInv
  BY ContainerIOAssumption DEF Init, LogInv, LogOrder, LogUpTo, LoggedTo, LogLast

\* WriteLog adds the one chunk that is missing; no other step touches the log.
LEMMA LogStep == TypeOK /\ LoopInv /\ LogInv /\ [Next]_vars => LogInv'
<1>. SUFFICES ASSUME TypeOK, LoopInv, LogInv, [Next]_vars
              PROVE  LogInv'
  OBVIOUS
<1>1. TypeOK /\ LoopInv /\ LogInv
  OBVIOUS
<1>2. ASSUME NEW p \in Pipe, Read(p) PROVE  LogInv'
  <2>1. UNCHANGED log
    BY <1>2 DEF Read
  <2>2. LogOrder'
    BY <1>1, <2>1 DEF LogInv, LogOrder
  <2>3. LogLast'
    BY <1>1, <1>2, ContainerIOAssumption DEF Read, Unlock, LogInv, LogLast, LoopInv, TypeOK, Turn
  <2>4. ASSUME NEW q \in Pipe PROVE  LogUpTo(q)'
    <3>1. \A n : LoggedTo(q, n)' <=> LoggedTo(q, n)
      BY <2>1 DEF LoggedTo
    <3>2. taken[q] \in Nat /\ LogUpTo(q)
      BY <1>1 DEF LogInv, TypeOK
    <3>. QED
      <4>1. CASE q = p
        <5>1. loop[q] = "read" /\ loop'[q] = "log" /\ taken'[q] = taken[q] + 1
          BY <1>1, <1>2, <4>1 DEF Read, TypeOK
        <5>. QED
          BY <3>1, <3>2, <5>1 DEF LogUpTo
      <4>2. CASE q # p
        <5>1. loop'[q] = loop[q] /\ taken'[q] = taken[q]
          BY <1>1, <1>2, <4>2 DEF Read, TypeOK
        <5>. QED
          BY <3>1, <3>2, <5>1 DEF LogUpTo
      <4>. QED
        BY <4>1, <4>2
  <2>. QED
    BY <2>2, <2>3, <2>4 DEF LogInv
<1>3. ASSUME NEW p \in Pipe, ReadEof(p) PROVE  LogInv'
  <2>1. UNCHANGED log
    BY <1>3 DEF ReadEof
  <2>2. LogOrder'
    BY <1>1, <2>1 DEF LogInv, LogOrder
  <2>3. LogLast'
    BY <1>1, <1>3, ContainerIOAssumption DEF ReadEof, Unlock, LogInv, LogLast, LoopInv, TypeOK, Turn
  <2>4. ASSUME NEW q \in Pipe PROVE  LogUpTo(q)'
    <3>1. \A n : LoggedTo(q, n)' <=> LoggedTo(q, n)
      BY <2>1 DEF LoggedTo
    <3>2. taken[q] \in Nat /\ LogUpTo(q)
      BY <1>1 DEF LogInv, TypeOK
    <3>. QED
      BY <1>1, <1>3, <3>1, <3>2 DEF ReadEof, LogUpTo, LoopInv, TypeOK, Turn
  <2>. QED
    BY <2>2, <2>3, <2>4 DEF LogInv
<1>4. ASSUME NEW p \in Pipe, WriteLog(p) PROVE  LogInv'
  <2>. DEFINE t == taken[p]
              m == Data(p, t)
              new == Append(log, m)
  <2>1. t \in Nat /\ t > 0 /\ m \in Message /\ m.pipe = p /\ m.chunk = t
    <3>1. t \in Nat /\ t > 0 /\ t <= MaxChunks[p]
      BY <1>1, <1>4, TakenBounds DEF LoopInv, WriteLog
    <3>. QED
      BY <3>1, DataMessage DEF Data
  <2>2. /\ log \in Seq(Message) /\ log' = new /\ taken' = taken /\ lock' = p
        /\ loop' = [loop EXCEPT ![p] = "check"] /\ loop[p] = "log"
    BY <1>1, <1>4 DEF TypeOK, WriteLog
  <2>3. /\ Len(new) = Len(log) + 1 /\ DOMAIN new = 1..Len(new) /\ DOMAIN log = 1..Len(log)
        /\ new[Len(new)] = m /\ new # <<>> /\ Len(log) \in Nat
        /\ \A i \in DOMAIN log : new[i] = log[i] /\ log[i] \in Message
    BY <2>1, <2>2
  <2>4. LoggedTo(p, t - 1)
    BY <1>1, <2>2 DEF LogInv, LogUpTo
  <2>. HIDE DEF new, m, t
  <2>5. LogOrder'
    <3>. SUFFICES ASSUME NEW i \in DOMAIN new, NEW j \in DOMAIN new, i < j,
                         new[i].pipe = new[j].pipe
                  PROVE  new[i].chunk < new[j].chunk
      BY <2>2 DEF LogOrder
    <3>1. i \in DOMAIN log /\ i \in Int /\ j \in Int
      BY <2>3
    <3>2. CASE j \in DOMAIN log
      BY <1>1, <2>3, <3>1, <3>2 DEF LogInv, LogOrder
    <3>3. CASE j = Len(new)
      <4>1. log[i].pipe = p
        BY <2>1, <2>3, <3>1, <3>3
      <4>2. log[i].chunk \in 1..(t - 1)
        BY <2>4, <3>1, <4>1 DEF LoggedTo
      <4>. QED
        BY <2>1, <2>3, <3>1, <3>3, <4>2
    <3>. QED
      BY <2>3, <3>2, <3>3
  <2>6. ASSUME NEW q \in Pipe PROVE  LogUpTo(q)'
    <3>1. PICK n \in {taken[q], taken[q] - 1} :
              /\ LoggedTo(q, n)
              /\ loop[q] \notin {"log", "failed"} => n = taken[q]
              /\ loop[q] = "log" => n = taken[q] - 1
      BY <1>1 DEF LogInv, LogUpTo
    <3>2. CASE q # p
      <4>1. \A i \in DOMAIN new : new[i].pipe = q => i \in DOMAIN log
        BY <2>1, <2>3, <3>2
      <4>2. LoggedTo(q, n)'
        BY <2>2, <2>3, <3>1, <4>1 DEF LoggedTo
      <4>3. loop'[q] = loop[q]
        BY <1>1, <2>2, <3>2 DEF TypeOK
      <4>. QED
        BY <2>2, <3>1, <4>2, <4>3 DEF LogUpTo
    <3>3. CASE q = p
      <4>1. ASSUME NEW i \in DOMAIN new, new[i].pipe = p PROVE  new[i].chunk \in 1..t
        <5>1. CASE i \in DOMAIN log
          <6>1. log[i].chunk \in 1..(t - 1)
            BY <2>3, <2>4, <4>1, <5>1 DEF LoggedTo
          <6>. QED
            BY <2>1, <2>3, <5>1, <6>1
        <5>2. CASE i = Len(new)
          BY <2>1, <2>3, <5>2
        <5>. QED
          BY <2>3, <5>1, <5>2
      <4>2. ASSUME NEW c \in 1..t PROVE  \E i \in DOMAIN new : new[i] = Data(p, c)
        <5>1. CASE c = t
          BY <2>3, <5>1 DEF m
        <5>2. CASE c # t
          <6>1. c \in 1..(t - 1)
            BY <2>1, <5>2
          <6>2. PICK i \in DOMAIN log : log[i] = Data(p, c)
            BY <2>4, <6>1 DEF LoggedTo
          <6>. QED
            BY <2>3, <6>2
        <5>. QED
          BY <5>1, <5>2
      <4>3. LoggedTo(p, t)'
        BY <2>2, <4>1, <4>2 DEF LoggedTo, t
      <4>4. loop'[p] = "check"
        BY <1>1, <2>2 DEF TypeOK
      <4>. QED
        BY <2>2, <3>3, <4>3, <4>4 DEF LogUpTo, t
    <3>. QED
      BY <3>2, <3>3
  <2>7. LogLast'
    BY <2>2, <2>3 DEF LogLast, m, t
  <2>. QED
    BY <2>5, <2>6, <2>7 DEF LogInv
<1>5. ASSUME NEW p \in Pipe, WriteLogFails(p) PROVE  LogInv'
  <2>1. UNCHANGED log
    BY <1>5 DEF WriteLogFails
  <2>2. LogOrder'
    BY <1>1, <2>1 DEF LogInv, LogOrder
  <2>3. LogLast'
    BY <1>1, <1>5, ContainerIOAssumption DEF WriteLogFails, Unlock, LogInv, LogLast, LoopInv, TypeOK, Turn
  <2>4. ASSUME NEW q \in Pipe PROVE  LogUpTo(q)'
    <3>1. \A n : LoggedTo(q, n)' <=> LoggedTo(q, n)
      BY <2>1 DEF LoggedTo
    <3>2. taken[q] \in Nat /\ LogUpTo(q)
      BY <1>1 DEF LogInv, TypeOK
    <3>. QED
      BY <1>1, <1>5, <3>1, <3>2 DEF WriteLogFails, LogUpTo, LoopInv, TypeOK, Turn
  <2>. QED
    BY <2>2, <2>3, <2>4 DEF LogInv
<1>6. ASSUME NEW p \in Pipe, AttachCheck(p) PROVE  LogInv'
  <2>1. UNCHANGED log
    BY <1>6 DEF AttachCheck
  <2>2. LogOrder'
    BY <1>1, <2>1 DEF LogInv, LogOrder
  <2>3. LogLast'
    BY <1>1, <1>6, ContainerIOAssumption DEF AttachCheck, Unlock, LogInv, LogLast, LoopInv, TypeOK, Turn
  <2>4. ASSUME NEW q \in Pipe PROVE  LogUpTo(q)'
    <3>1. \A n : LoggedTo(q, n)' <=> LoggedTo(q, n)
      BY <2>1 DEF LoggedTo
    <3>2. taken[q] \in Nat /\ LogUpTo(q)
      BY <1>1 DEF LogInv, TypeOK
    <3>. QED
      BY <1>1, <1>6, <3>1, <3>2 DEF AttachCheck, LogUpTo, LoopInv, TypeOK, Turn
  <2>. QED
    BY <2>2, <2>3, <2>4 DEF LogInv
<1>7. ASSUME NEW p \in Pipe, AttachSend(p) PROVE  LogInv'
  <2>1. UNCHANGED log
    BY <1>7 DEF AttachSend
  <2>2. LogOrder'
    BY <1>1, <2>1 DEF LogInv, LogOrder
  <2>3. LogLast'
    BY <1>1, <1>7, ContainerIOAssumption DEF AttachSend, Unlock, LogInv, LogLast, LoopInv, TypeOK, Turn
  <2>4. ASSUME NEW q \in Pipe PROVE  LogUpTo(q)'
    <3>1. \A n : LoggedTo(q, n)' <=> LoggedTo(q, n)
      BY <2>1 DEF LoggedTo
    <3>2. taken[q] \in Nat /\ LogUpTo(q)
      BY <1>1 DEF LogInv, TypeOK
    <3>. QED
      BY <1>1, <1>7, <3>1, <3>2 DEF AttachSend, LogUpTo, LoopInv, TypeOK, Turn
  <2>. QED
    BY <2>2, <2>3, <2>4 DEF LogInv
<1>8. ASSUME NEW p \in Pipe, AttachSendFails(p) PROVE  LogInv'
  <2>1. UNCHANGED log
    BY <1>8 DEF AttachSendFails
  <2>2. LogOrder'
    BY <1>1, <2>1 DEF LogInv, LogOrder
  <2>3. LogLast'
    BY <1>1, <1>8, ContainerIOAssumption DEF AttachSendFails, Unlock, LogInv, LogLast, LoopInv, TypeOK, Turn
  <2>4. ASSUME NEW q \in Pipe PROVE  LogUpTo(q)'
    <3>1. \A n : LoggedTo(q, n)' <=> LoggedTo(q, n)
      BY <2>1 DEF LoggedTo
    <3>2. taken[q] \in Nat /\ LogUpTo(q)
      BY <1>1 DEF LogInv, TypeOK
    <3>. QED
      BY <1>1, <1>8, <3>1, <3>2 DEF AttachSendFails, LogUpTo, LoopInv, TypeOK, Turn
  <2>. QED
    BY <2>2, <2>3, <2>4 DEF LogInv
<1>9. ASSUME NEW p \in Pipe, SendMessage(p) PROVE  LogInv'
  <2>1. UNCHANGED log
    BY <1>9 DEF SendMessage
  <2>2. LogOrder'
    BY <1>1, <2>1 DEF LogInv, LogOrder
  <2>3. LogLast'
    BY <1>1, <1>9, ContainerIOAssumption DEF SendMessage, Unlock, LogInv, LogLast, LoopInv, TypeOK, Turn
  <2>4. ASSUME NEW q \in Pipe PROVE  LogUpTo(q)'
    <3>1. \A n : LoggedTo(q, n)' <=> LoggedTo(q, n)
      BY <2>1 DEF LoggedTo
    <3>2. taken[q] \in Nat /\ LogUpTo(q)
      BY <1>1 DEF LogInv, TypeOK
    <3>. QED
      BY <1>1, <1>9, <3>1, <3>2 DEF SendMessage, LogUpTo, LoopInv, TypeOK, Turn
  <2>. QED
    BY <2>2, <2>3, <2>4 DEF LogInv
<1>10. CASE UNCHANGED reading
  BY <1>1, <1>10 DEF reading, LogInv, LogOrder, LogUpTo, LoggedTo, LogLast
<1>. QED
  BY <1>2, <1>3, <1>4, <1>5, <1>6, <1>7, <1>8, <1>9, <1>10, ReadingFrame
  DEF ReadStep, WriteStep

-----------------------------------------------------------------------------
(* The answer of an exec. *)

\* Nothing is gathered, and nothing waits.
LEMMA StreamInit == Init => StreamInv
<1>. SUFFICES ASSUME Init, NEW p \in Pipe
              PROVE  GatherInv(p) /\ QueueInv(p)
  BY DEF StreamInv
<1>1. /\ lock # p /\ loop[p] = "read" /\ collected[p] = <<>> /\ msgs[p] = <<>>
      /\ taken[p] = 0 /\ reader[p] # "eof"
  BY ContainerIOAssumption DEF Init
<1>2. Len(<<>>) = 0 /\ DOMAIN <<>> = {} /\ <<>> = Chunks(p, 0)
  BY DEF Chunks
<1>. QED
  BY <1>1, <1>2 DEF GatherInv, QueueInv

\* SendMessage adds the next chunk or the end, Gather moves it or stops for good.
LEMMA StreamStep == TypeOK /\ LoopInv /\ StreamInv /\ [Next]_vars => StreamInv'
<1>. SUFFICES ASSUME TypeOK, LoopInv, StreamInv, [Next]_vars
              PROVE  StreamInv'
  OBVIOUS
<1>1. TypeOK /\ LoopInv /\ StreamInv
  OBVIOUS
<1>2. ASSUME NEW p \in Pipe, Produce(p) PROVE  StreamInv'
  <2>. SUFFICES ASSUME NEW q \in Pipe PROVE  GatherInv(q)' /\ QueueInv(q)'
    BY DEF StreamInv
  <2>1. GatherInv(q) /\ QueueInv(q)
    BY <1>1 DEF StreamInv
  <2>2. GatherInv(q)'
    BY <1>1, <1>2, <2>1 DEF Produce, container, answering, GatherInv, TypeOK
  <2>3. QueueInv(q)'
    BY <1>1, <1>2, <2>1 DEF Produce, container, reading, answering, QueueInv, TypeOK, LoopInv, Turn
  <2>. QED
    BY <2>2, <2>3
<1>3. ASSUME NEW p \in Pipe, CloseStream(p) PROVE  StreamInv'
  <2>. SUFFICES ASSUME NEW q \in Pipe PROVE  GatherInv(q)' /\ QueueInv(q)'
    BY DEF StreamInv
  <2>1. GatherInv(q) /\ QueueInv(q)
    BY <1>1 DEF StreamInv
  <2>2. GatherInv(q)'
    BY <1>1, <1>3, <2>1 DEF CloseStream, container, answering, GatherInv, TypeOK
  <2>3. QueueInv(q)'
    BY <1>1, <1>3, <2>1 DEF CloseStream, container, reading, answering, QueueInv, TypeOK, LoopInv, Turn
  <2>. QED
    BY <2>2, <2>3
<1>4. ASSUME NEW p \in Pipe, Read(p) PROVE  StreamInv'
  <2>. SUFFICES ASSUME NEW q \in Pipe PROVE  GatherInv(q)' /\ QueueInv(q)'
    BY DEF StreamInv
  <2>1. GatherInv(q) /\ QueueInv(q)
    BY <1>1 DEF StreamInv
  <2>2. GatherInv(q)'
    BY <1>1, <1>4, <2>1 DEF Read, container, answering, GatherInv, TypeOK
  <2>3. QueueInv(q)'
    <3>1. UNCHANGED <<lock, msgs, collected, reader>>
      BY <1>4 DEF Read, answering
    <3>2. CASE q = p
      <4>1. loop[q] = "read" /\ loop'[q] = "log" /\ taken'[q] = taken[q] + 1 /\ taken[q] \in Nat
        BY <1>1, <1>4, <3>2 DEF Read, TypeOK
      <4>2. lock # q
        BY <1>1, <4>1 DEF LoopInv, Turn
      <4>. QED
        <5>1. reader[q] = "reading" =>
                \A j \in DOMAIN msgs[q] : msgs[q][j] = Data(q, Len(collected[q]) + j)
          BY <2>1, <4>1 DEF QueueInv
        <5>2. reader[q] = "reading" => Len(collected[q]) + Len(msgs[q]) = taken[q]
          BY <2>1, <4>1 DEF QueueInv
        <5>3. taken'[q] - 1 = taken[q]
          BY <4>1
        <5>4. loop'[q] # "done" /\ loop'[q] # "read" /\ loop'[q] \notin Turn
          BY <4>1 DEF Turn
        <5>. QED
          BY <3>1, <5>1, <5>2, <5>3, <5>4 DEF QueueInv
    <3>3. CASE q # p
      <4>1. loop'[q] = loop[q] /\ taken'[q] = taken[q]
        BY <1>1, <1>4, <3>3 DEF Read, TypeOK
      <4>. QED
        BY <2>1, <3>1, <4>1 DEF QueueInv
    <3>. QED
      BY <3>2, <3>3
  <2>. QED
    BY <2>2, <2>3
<1>5. ASSUME NEW p \in Pipe, ReadEof(p) PROVE  StreamInv'
  <2>. SUFFICES ASSUME NEW q \in Pipe PROVE  GatherInv(q)' /\ QueueInv(q)'
    BY DEF StreamInv
  <2>1. GatherInv(q) /\ QueueInv(q)
    BY <1>1 DEF StreamInv
  <2>2. GatherInv(q)'
    BY <1>1, <1>5, <2>1 DEF ReadEof, container, answering, GatherInv, TypeOK
  <2>3. QueueInv(q)'
    BY <1>1, <1>5, <2>1 DEF ReadEof, container, reading, answering, QueueInv, TypeOK, LoopInv, Turn
  <2>. QED
    BY <2>2, <2>3
<1>6. ASSUME NEW p \in Pipe, WriteLog(p) PROVE  StreamInv'
  <2>. SUFFICES ASSUME NEW q \in Pipe PROVE  GatherInv(q)' /\ QueueInv(q)'
    BY DEF StreamInv
  <2>1. GatherInv(q) /\ QueueInv(q)
    BY <1>1 DEF StreamInv
  <2>2. GatherInv(q)'
    BY <1>1, <1>6, <2>1 DEF WriteLog, container, answering, GatherInv, TypeOK
  <2>3. QueueInv(q)'
    BY <1>1, <1>6, <2>1, ContainerIOAssumption DEF WriteLog, container, reading, answering, QueueInv, TypeOK, LoopInv, Turn
  <2>. QED
    BY <2>2, <2>3
<1>7. ASSUME NEW p \in Pipe, WriteLogFails(p) PROVE  StreamInv'
  <2>. SUFFICES ASSUME NEW q \in Pipe PROVE  GatherInv(q)' /\ QueueInv(q)'
    BY DEF StreamInv
  <2>1. GatherInv(q) /\ QueueInv(q)
    BY <1>1 DEF StreamInv
  <2>2. GatherInv(q)'
    BY <1>1, <1>7, <2>1 DEF WriteLogFails, container, answering, GatherInv, TypeOK
  <2>3. QueueInv(q)'
    BY <1>1, <1>7, <2>1 DEF WriteLogFails, container, reading, answering, QueueInv, TypeOK, LoopInv, Turn
  <2>. QED
    BY <2>2, <2>3
<1>8. ASSUME NEW p \in Pipe, AttachCheck(p) PROVE  StreamInv'
  <2>. SUFFICES ASSUME NEW q \in Pipe PROVE  GatherInv(q)' /\ QueueInv(q)'
    BY DEF StreamInv
  <2>1. GatherInv(q) /\ QueueInv(q)
    BY <1>1 DEF StreamInv
  <2>2. GatherInv(q)'
    BY <1>1, <1>8, <2>1 DEF AttachCheck, container, answering, GatherInv, TypeOK
  <2>3. QueueInv(q)'
    BY <1>1, <1>8, <2>1 DEF AttachCheck, container, reading, answering, QueueInv, TypeOK, LoopInv, Turn
  <2>. QED
    BY <2>2, <2>3
<1>9. ASSUME NEW p \in Pipe, AttachSend(p) PROVE  StreamInv'
  <2>. SUFFICES ASSUME NEW q \in Pipe PROVE  GatherInv(q)' /\ QueueInv(q)'
    BY DEF StreamInv
  <2>1. GatherInv(q) /\ QueueInv(q)
    BY <1>1 DEF StreamInv
  <2>2. GatherInv(q)'
    BY <1>1, <1>9, <2>1 DEF AttachSend, container, answering, GatherInv, TypeOK
  <2>3. QueueInv(q)'
    BY <1>1, <1>9, <2>1 DEF AttachSend, container, reading, answering, QueueInv, TypeOK, LoopInv, Turn
  <2>. QED
    BY <2>2, <2>3
<1>10. ASSUME NEW p \in Pipe, AttachSendFails(p) PROVE  StreamInv'
  <2>. SUFFICES ASSUME NEW q \in Pipe PROVE  GatherInv(q)' /\ QueueInv(q)'
    BY DEF StreamInv
  <2>1. GatherInv(q) /\ QueueInv(q)
    BY <1>1 DEF StreamInv
  <2>2. GatherInv(q)'
    BY <1>1, <1>10, <2>1 DEF AttachSendFails, container, answering, GatherInv, TypeOK
  <2>3. QueueInv(q)'
    <3>1. UNCHANGED <<taken, msgs, collected, reader>>
      BY <1>10 DEF AttachSendFails, answering
    <3>2. CASE q = p
      <4>1. loop'[q] = "failed" /\ lock' # q
        BY <1>1, <1>10, <3>2, ContainerIOAssumption DEF AttachSendFails, Unlock, TypeOK
      <4>2. loop[q] = "send"
        BY <1>10, <3>2 DEF AttachSendFails
      <4>. QED
        BY <2>1, <3>1, <4>1, <4>2 DEF QueueInv, Turn
    <3>3. CASE q # p
      <4>1. loop'[q] = loop[q] /\ (lock' = q <=> lock = q)
        BY <1>1, <1>10, <3>3, ContainerIOAssumption DEF AttachSendFails, Unlock, TypeOK
      <4>. QED
        BY <2>1, <3>1, <4>1 DEF QueueInv
    <3>. QED
      BY <3>2, <3>3
  <2>. QED
    BY <2>2, <2>3
<1>11. ASSUME NEW p \in Pipe, SendMessage(p) PROVE  StreamInv'
  <2>. SUFFICES ASSUME NEW q \in Pipe PROVE  GatherInv(q)' /\ QueueInv(q)'
    BY DEF StreamInv
  <2>1. GatherInv(q) /\ QueueInv(q)
    BY <1>1 DEF StreamInv
  <2>2. GatherInv(q)'
    BY <1>11, <2>1 DEF SendMessage, container, answering, GatherInv
  <2>3. None \notin Pipe /\ UNCHANGED <<taken, reader, collected>>
    BY <1>11, ContainerIOAssumption DEF SendMessage, answering
  <2>4. CASE q # p
    <3>1. msgs'[q] = msgs[q] /\ loop'[q] = loop[q] /\ (lock' = q <=> lock = q)
      BY <1>1, <1>11, <2>3, <2>4 DEF TypeOK, SendMessage, Unlock
    <3>2. QueueInv(q)'
      BY <2>1, <2>3, <3>1 DEF QueueInv
    <3>. QED
      BY <2>2, <3>2
  <2>5. CASE q = p /\ reader[p] = "reading"
    <3>. DEFINE m == msgs[p]
                g == collected[p]
                c == Current(p)
                new == Append(m, c)
    <3>1. m \in Seq(Message) /\ c \in Message /\ g \in Seq(Message)
      BY <1>1, CurrentMessage DEF TypeOK
    <3>2. msgs'[p] = new /\ loop[p] = "message"
      BY <1>1, <1>11 DEF TypeOK, SendMessage
    <3>3. /\ DOMAIN new = 1..(Len(m) + 1) /\ Len(new) = Len(m) + 1 /\ new # <<>>
          /\ Len(m) \in Nat /\ DOMAIN m = 1..Len(m)
          /\ new[Len(m) + 1] = c /\ \A j \in 1..Len(m) : new[j] = m[j]
      BY <3>1
    <3>4. taken[p] \in Nat /\ Len(g) \in Nat /\ Len(m) \in Nat /\ Len(new) = Len(m) + 1
      BY <3>1, <1>1, <3>3, TakenBounds
    <3>5. \A j \in 1..Len(m) : m[j] = Data(p, Len(g) + j)
      BY <2>1, <2>5, <3>2, <3>3 DEF QueueInv
    <3>6. CASE lock = p
      <4>1. c = Data(p, taken[p]) /\ taken[p] > 0 /\ ~IsDone(c)
        BY <1>1, <3>4, <3>6 DEF Current, LoopInv, IsDone, Data
      <4>2. loop'[p] = "read" /\ lock' = None
        BY <1>1, <1>11, <3>6, <4>1 DEF TypeOK, SendMessage, Unlock
      <4>3. Len(g) + Len(m) = taken[p] - 1
        BY <2>1, <2>5, <3>6 DEF QueueInv
      <4>. HIDE DEF m, g, c, new
      <4>4. \A j \in DOMAIN new : new[j] = Data(p, Len(g) + j)
        <5>1. ASSUME NEW j \in 1..(Len(m) + 1) PROVE  new[j] = Data(p, Len(g) + j)
          <6>1. CASE j \in 1..Len(m)
            BY <3>3, <3>5, <6>1
          <6>2. CASE j = Len(m) + 1
            <7>1. Len(g) + j = taken[p]
              BY <3>4, <4>3, <6>2
            <7>. QED
              BY <3>3, <4>1, <6>2, <7>1
          <6>. QED
            BY <3>3, <6>1, <6>2
        <5>. QED
          BY <3>3, <5>1
      <4>5. Len(g) + Len(new) = taken[p]
        BY <3>4, <4>3
      <4>6. QueueInv(p)'
        BY <2>3, <3>2, <4>2, <4>4, <4>5 DEF QueueInv, Turn, g
      <4>. QED
        BY <2>2, <2>5, <4>6
    <3>7. CASE lock # p
      <4>1. c = Done(p) /\ IsDone(c)
        BY <3>7 DEF Current, IsDone, Done
      <4>2. loop'[p] = "done" /\ lock' = lock
        BY <1>1, <1>11, <3>7, <4>1 DEF TypeOK, SendMessage, Unlock
      <4>3. Len(g) + Len(m) = taken[p]
        BY <2>1, <2>5, <3>2, <3>7 DEF QueueInv, Turn
      <4>. HIDE DEF m, g, c, new
      <4>4. \A j \in DOMAIN new : IF j = Len(new)
                                  THEN new[j] = Done(p)
                                  ELSE new[j] = Data(p, Len(g) + j)
        BY <3>3, <3>5, <4>1
      <4>5. Len(g) + Len(new) = taken[p] + 1
        BY <3>4, <4>3
      <4>6. QueueInv(p)'
        BY <2>3, <3>2, <3>3, <3>7, <4>2, <4>4, <4>5 DEF QueueInv, Turn, g
      <4>. QED
        BY <2>2, <2>5, <4>6
    <3>. QED
      BY <3>6, <3>7
  <2>6. CASE reader[q] # "reading"
    BY <2>2, <2>3, <2>6 DEF QueueInv
  <2>. QED
    BY <2>4, <2>5, <2>6
<1>12. ASSUME NEW p \in Pipe, Gather(p) PROVE  StreamInv'
  <2>. SUFFICES ASSUME NEW q \in Pipe PROVE  GatherInv(q)' /\ QueueInv(q)'
    BY DEF StreamInv
  <2>1. GatherInv(q) /\ QueueInv(q)
    BY <1>1 DEF StreamInv
  <2>2. UNCHANGED <<produced, eof, taken, loop, lock>>
    BY <1>12 DEF Gather, container, reading
  <2>3. CASE q # p
    <3>1. msgs'[q] = msgs[q] /\ collected'[q] = collected[q] /\ reader'[q] = reader[q]
      BY <1>1, <1>12, <2>3 DEF TypeOK, Gather
    <3>. QED
      BY <2>1, <2>2, <3>1 DEF GatherInv, QueueInv
  <2>4. CASE q = p
    <3>. DEFINE m == msgs[p]
                c == collected[p]
                h == Head(m)
    <3>1. m \in Seq(Message) /\ m # <<>> /\ c \in Seq(Message) /\ reader[p] = "reading"
      BY <1>1, <1>12 DEF TypeOK, Gather
    <3>2. /\ Len(m) \in Nat /\ Len(m) > 0 /\ Len(c) \in Nat
          /\ h = m[1] /\ h \in Message /\ 1 \in DOMAIN m /\ DOMAIN m = 1..Len(m)
      BY <3>1
    <3>3. msgs'[p] = Tail(m)
      BY <1>1, <1>12 DEF TypeOK, Gather
    <3>4. taken[p] \in Nat
      BY <1>1, TakenBounds
    <3>5. IF Len(m) = 1 /\ loop[p] = "done" THEN h = Done(p) ELSE h = Data(p, Len(c) + 1)
      BY <2>1, <2>4, <3>1, <3>2 DEF QueueInv
    <3>6. CASE IsDone(h)
      <4>1. Len(m) = 1 /\ loop[p] = "done"
        BY <3>2, <3>5, <3>6 DEF IsDone, Data
      <4>2. Len(c) + Len(m) = taken[p] + 1
        BY <2>1, <2>4, <3>1, <4>1 DEF QueueInv
      <4>3. eof[p] /\ Len(c) = produced[p]
        BY <1>1, <3>2, <3>4, <4>1, <4>2 DEF LoopInv
      <4>4. reader'[p] = "eof" /\ collected' = collected
        BY <1>1, <1>12, <3>6 DEF TypeOK, Gather
      <4>. QED
        BY <2>1, <2>2, <2>4, <4>3, <4>4 DEF GatherInv, QueueInv
    <3>7. CASE ~IsDone(h) /\ Fits(p)
      <4>1. ~(Len(m) = 1 /\ loop[p] = "done") /\ h = Data(p, Len(c) + 1)
        BY <3>5, <3>7 DEF IsDone, Done
      <4>2. collected'[p] = Append(c, h) /\ reader' = reader
        BY <1>1, <1>12, <3>7 DEF TypeOK, Gather
      <4>3. Append(c, h) = Chunks(p, Len(c) + 1) /\ Len(Append(c, h)) = Len(c) + 1
        <5>1. c = Chunks(p, Len(c))
          BY <2>1, <2>4 DEF GatherInv
        <5>2. Len(Append(c, h)) = Len(c) + 1 /\ DOMAIN Append(c, h) = 1..(Len(c) + 1)
          BY <3>1, <3>2
        <5>3. ASSUME NEW i \in 1..(Len(c) + 1) PROVE  Append(c, h)[i] = Data(p, i)
          <6>1. CASE i \in 1..Len(c)
            <7>1. c[i] = Data(p, i)
              BY <5>1, <6>1 DEF Chunks
            <7>. QED
              BY <3>1, <3>2, <6>1, <7>1
          <6>2. CASE i = Len(c) + 1
            BY <3>1, <3>2, <4>1, <6>2
          <6>. QED
            BY <3>2, <6>1, <6>2
        <5>4. Append(c, h) \in Seq(Message)
          BY <3>1, <3>2
        <5>. QED
          BY <5>2, <5>3, <5>4 DEF Chunks
      <4>4. /\ Tail(m) \in Seq(Message) /\ Len(Tail(m)) = Len(m) - 1
            /\ DOMAIN Tail(m) = 1..(Len(m) - 1)
            /\ \A j \in 1..(Len(m) - 1) : Tail(m)[j] = m[j + 1]
        BY <3>1, <3>2
      <4>8. Len(m) \in Nat /\ Len(m) > 0 /\ Len(c) \in Nat
        BY <3>2
      <4>9. Len(Tail(m)) = Len(m) - 1
        BY <4>4
      <4>5. MaxStream > 0 => Len(c) + 1 < MaxStream
        BY <3>7 DEF Fits
      <4>6. GatherInv(p)'
        BY <2>1, <2>4, <3>1, <4>2, <4>3, <4>5 DEF GatherInv
      <4>7. QueueInv(p)'
        <5>. DEFINE t == Tail(m)
        <5>1. ASSUME NEW j \in 1..(Len(m) - 1)
              PROVE  IF j = Len(m) - 1 /\ loop[p] = "done"
                     THEN t[j] = Done(p)
                     ELSE t[j] = Data(p, Len(c) + 1 + j)
          <6>1. j + 1 \in 1..Len(m) /\ Len(c) + (j + 1) = Len(c) + 1 + j
            <7>. HIDE DEF m, c
            <7>. QED
              BY <4>8
          <6>2. IF j + 1 = Len(m) /\ loop[p] = "done"
                THEN m[j + 1] = Done(p)
                ELSE m[j + 1] = Data(p, Len(c) + (j + 1))
            BY <2>1, <2>4, <3>1, <3>2, <6>1 DEF QueueInv
          <6>3. (j + 1 = Len(m)) <=> (j = Len(m) - 1)
            BY <3>2
          <6>. QED
            BY <4>4, <6>1, <6>2, <6>3
        <5>2. loop[p] = "done" => t # <<>>
          <6>1. loop[p] = "done" => Len(m) - 1 > 0
            <7>1. loop[p] = "done" => Len(m) # 1
              BY <4>1
            <7>2. \A n \in Nat : n > 0 /\ n # 1 => n - 1 > 0
              OBVIOUS
            <7>3. PICK n \in Nat : n = Len(m) /\ n > 0
              BY <4>8
            <7>. HIDE DEF m, c
            <7>. QED
              BY <7>1, <7>2, <7>3
          <6>. QED
            <7>1. \A n \in Nat : n - 1 > 0 => 1 \in 1..(n - 1)
              OBVIOUS
            <7>2. loop[p] = "done" => 1 \in DOMAIN Tail(m)
              <8>. HIDE DEF m
              <8>. QED
                BY <4>4, <4>8, <6>1, <7>1
            <7>3. \A s : 1 \in DOMAIN s => s # <<>>
              OBVIOUS
            <7>. QED
              BY <7>2, <7>3
        <5>3. (Len(c) + 1) + Len(t) = Len(c) + Len(m)
          <6>1. Len(t) = Len(m) - 1
            BY <4>9
          <6>. HIDE DEF m, c, t
          <6>. QED
            BY <4>8, <6>1
        <5>4. Len(collected'[p]) = Len(c) + 1 /\ msgs'[p] = t /\ reader'[p] = reader[p]
          BY <3>3, <4>2, <4>3
        <5>5. /\ loop[p] = "done" => Len(c) + Len(m) = taken[p] + 1
              /\ loop[p] = "log" \/ lock = p => Len(c) + Len(m) = taken[p] - 1
              /\ loop[p] = "read" \/ (loop[p] \in Turn /\ lock # p)
                    => Len(c) + Len(m) = taken[p]
          BY <2>1, <2>4, <3>1 DEF QueueInv
        <5>6. Len(t) = Len(m) - 1 /\ DOMAIN t = 1..(Len(m) - 1)
          BY <4>4
        <5>. HIDE DEF t, c, m
        <5>. QED
          BY <2>2, <5>1, <5>2, <5>3, <5>4, <5>5, <5>6 DEF QueueInv
      <4>. QED
        BY <2>4, <4>6, <4>7
    <3>8. CASE ~IsDone(h) /\ ~Fits(p)
      <4>1. reader'[p] = "full" /\ collected' = collected
        BY <1>1, <1>12, <3>8 DEF TypeOK, Gather
      <4>. QED
        BY <2>1, <2>2, <2>4, <4>1 DEF GatherInv, QueueInv
    <3>. QED
      BY <3>6, <3>7, <3>8
  <2>. QED
    BY <2>3, <2>4
<1>13. ASSUME NEW p \in Pipe, GatherTimeout(p) PROVE  StreamInv'
  <2>. SUFFICES ASSUME NEW q \in Pipe PROVE  GatherInv(q)' /\ QueueInv(q)'
    BY DEF StreamInv
  <2>1. GatherInv(q) /\ QueueInv(q)
    BY <1>1 DEF StreamInv
  <2>2. GatherInv(q)'
    BY <1>1, <1>13, <2>1 DEF GatherTimeout, container, answering, GatherInv, TypeOK
  <2>3. QueueInv(q)'
    BY <1>1, <1>13, <2>1 DEF GatherTimeout, container, reading, answering, QueueInv, TypeOK, LoopInv, Turn
  <2>. QED
    BY <2>2, <2>3
<1>14. CASE UNCHANGED <<container, reading, msgs, reader, collected>>
  BY <1>1, <1>14 DEF container, reading, StreamInv, GatherInv, QueueInv
<1>. QED
  BY <1>2, <1>3, <1>4, <1>5, <1>6, <1>7, <1>8, <1>9, <1>10, <1>11,
     <1>12, <1>13, <1>14, AnswerFrame
  DEF ReadStep, WriteStep

-----------------------------------------------------------------------------
(* What the attach clients see. *)

\* A receiver starts at the first message.
LEMMA CursorInit == Init => CursorInv
<1>. SUFFICES ASSUME Init, NEW k \in Client
              PROVE  cursor[k] \in 1..(Len(chan) + 1) /\ out[k] = <<>>
  BY DEF CursorInv
<1>1. cursor[k] = 1 /\ chan = <<>> /\ out[k] = <<>>
  BY DEF Init
<1>. QED
  BY <1>1

\* A receiver's place stays within the channel or just after it.
LEMMA CursorStep == TypeOK /\ CursorInv /\ [Next]_vars => CursorInv'
<1>. SUFFICES ASSUME TypeOK, CursorInv, [Next]_vars
              PROVE  CursorInv'
  OBVIOUS
<1>1. TypeOK /\ CursorInv /\ Len(chan) \in Nat /\ chan \in Seq(Message)
  BY DEF TypeOK
<1>2. ASSUME NEW p \in Pipe, Read(p) PROVE  CursorInv'
  BY <1>1, <1>2 DEF Read, attaching, CursorInv
<1>3. ASSUME NEW p \in Pipe, ReadEof(p) PROVE  CursorInv'
  BY <1>1, <1>3 DEF ReadEof, attaching, CursorInv
<1>4. ASSUME NEW p \in Pipe, WriteLog(p) PROVE  CursorInv'
  BY <1>1, <1>4 DEF WriteLog, attaching, CursorInv
<1>5. ASSUME NEW p \in Pipe, WriteLogFails(p) PROVE  CursorInv'
  BY <1>1, <1>5 DEF WriteLogFails, attaching, CursorInv
<1>6. ASSUME NEW p \in Pipe, AttachCheck(p) PROVE  CursorInv'
  BY <1>1, <1>6 DEF AttachCheck, attaching, CursorInv
<1>7. ASSUME NEW p \in Pipe, AttachSend(p) PROVE  CursorInv'
  <2>1. Len(chan') = Len(chan) + 1 /\ UNCHANGED <<client, cursor, out>>
    BY <1>1, <1>7, CurrentMessage DEF AttachSend, attaching
  <2>2. \A n \in 1..(Len(chan) + 1) : n \in 1..((Len(chan) + 1) + 1)
    BY <1>1
  <2>. QED
    BY <1>1, <2>1, <2>2 DEF CursorInv
<1>8. ASSUME NEW p \in Pipe, AttachSendFails(p) PROVE  CursorInv'
  BY <1>1, <1>8 DEF AttachSendFails, attaching, CursorInv
<1>9. ASSUME NEW p \in Pipe, SendMessage(p) PROVE  CursorInv'
  BY <1>1, <1>9 DEF SendMessage, attaching, CursorInv
<1>10. ASSUME NEW k \in Client, Accept(k) PROVE  CursorInv'
  <2>. SUFFICES ASSUME NEW x \in Client
                PROVE  /\ cursor'[x] \in 1..(Len(chan) + 1)
                       /\ client'[x] = "absent" => out[x] = <<>>
    BY <1>10 DEF CursorInv, Accept
  <2>1. cursor[x] \in 1..(Len(chan) + 1) /\ (client[x] = "absent" => out[x] = <<>>)
    BY <1>1 DEF CursorInv
  <2>2. CASE x = k
    <3>1. cursor'[x] = Len(chan) + 1 /\ client'[x] = "subscribed"
      BY <1>1, <1>10, <2>2 DEF TypeOK, Accept
    <3>. QED
      BY <1>1, <3>1
  <2>3. CASE x # k
    BY <1>1, <1>10, <2>1, <2>3 DEF TypeOK, Accept
  <2>. QED
    BY <2>2, <2>3
<1>11. ASSUME NEW k \in Client, WritePacket(k) PROVE  CursorInv'
  <2>. SUFFICES ASSUME NEW x \in Client
                PROVE  /\ cursor'[x] \in 1..(Len(chan) + 1)
                       /\ client'[x] = "absent" => out'[x] = <<>>
    BY <1>11 DEF CursorInv, WritePacket
  <2>1. cursor[x] \in 1..(Len(chan) + 1) /\ (client[x] = "absent" => out[x] = <<>>)
    BY <1>1 DEF CursorInv
  <2>2. CASE x = k
    <3>1. cursor'[x] = cursor[x] + 1 /\ client'[x] # "absent" /\ cursor[x] <= Len(chan)
      BY <1>1, <1>11, <2>2 DEF TypeOK, WritePacket, Pending
    <3>. QED
      BY <1>1, <2>1, <3>1
  <2>3. CASE x # k
    BY <1>1, <1>11, <2>1, <2>3 DEF TypeOK, WritePacket
  <2>. QED
    BY <2>2, <2>3
<1>12. ASSUME NEW k \in Client, WriteLagged(k) PROVE  CursorInv'
  BY <1>1, <1>12 DEF WriteLagged, Pending, CursorInv, TypeOK
<1>13. ASSUME NEW k \in Client, WriteFails(k) PROVE  CursorInv'
  BY <1>1, <1>13 DEF WriteFails, Pending, CursorInv, TypeOK
<1>14. ASSUME NEW k \in Client, ClientGone(k) PROVE  CursorInv'
  BY <1>1, <1>14 DEF ClientGone, Pending, CursorInv, TypeOK
<1>15. CASE UNCHANGED <<reading, chan, attaching>>
  BY <1>1, <1>15 DEF attaching, CursorInv
<1>. QED
  BY <1>2, <1>3, <1>4, <1>5, <1>6, <1>7, <1>8, <1>9, <1>10, <1>11,
     <1>12, <1>13, <1>14, <1>15, AttachFrame
  DEF ReadStep, WriteStep

\* A step that leaves a client's own state, the channel and the log alone.
LEMMA MirrorKept ==
    ASSUME NEW k \in Client, NEW b, MirrorAt(k, b),
           UNCHANGED <<log, chan, out[k], cursor[k]>>,
           Attached(k)' => Attached(k) /\ Ahead' = Ahead
    PROVE  MirrorAt(k, b)'
<1>1. Mirrors(k, b)'
  BY DEF MirrorAt, Mirrors
<1>2. ASSUME Attached(k)' PROVE  Follows(cursor[k], b + Len(out[k]))' /\ NotEnded(k)'
  <2>1. Follows(cursor[k], b + Len(out[k])) /\ NotEnded(k) /\ Ahead' = Ahead
    BY <1>2 DEF MirrorAt
  <2>2. NotEnded(k)'
    BY <2>1 DEF NotEnded
  <2>3. \A i, j : NoDone(i, j)' <=> NoDone(i, j)
    BY DEF NoDone
  <2>4. ASSUME NEW c, NEW s, Follows(c, s) PROVE  Follows(c, s)'
    BY <2>1, <2>3, <2>4 DEF Follows
  <2>5. PICK c, s : c = cursor[k] /\ s = b + Len(out[k]) /\ c = cursor[k]' /\ s = (b + Len(out[k]))'
    OBVIOUS
  <2>. QED
    BY <2>1, <2>2, <2>4, <2>5
<1>. QED
  BY <1>1, <1>2 DEF MirrorAt

\* A client goes on to the next message.
LEMMA FollowsNext ==
    ASSUME TypeOK, NEW c \in Nat, NEW s \in Nat, c <= Len(chan),
           Follows(c, s), ~IsDone(chan[c])
    PROVE  /\ s + 1 \in DOMAIN log /\ chan[c] = log[s + 1]
           /\ Follows(c + 1, s + 1)
<1>1. Len(chan) \in Nat
  BY DEF TypeOK
<1>2. c \in c..Len(chan) /\ s + (c - c) + 1 = s + 1 /\ NoDone(c, c)
  BY <1>1 DEF NoDone
<1>3. s + 1 \in DOMAIN log /\ chan[c] = log[s + 1]
  BY <1>2 DEF Follows
<1>4. ASSUME NEW j \in (c + 1)..Len(chan), NoDone(c + 1, j)
      PROVE  /\ (s + 1) + (j - (c + 1)) + 1 \in DOMAIN log
             /\ chan[j] = log[(s + 1) + (j - (c + 1)) + 1]
  <2>1. j \in c..Len(chan) /\ s + (j - c) + 1 = (s + 1) + (j - (c + 1)) + 1
    BY <1>1
  <2>2. NoDone(c, j)
    BY <1>4 DEF NoDone
  <2>. QED
    BY <2>1, <2>2 DEF Follows
<1>5. ASSUME NoDone(c + 1, Len(chan))
      PROVE  (s + 1) + (Len(chan) - (c + 1)) + 1 = Len(log) - Ahead
  <2>1. s + (Len(chan) - c) + 1 = (s + 1) + (Len(chan) - (c + 1)) + 1
    BY <1>1
  <2>2. NoDone(c, Len(chan))
    BY <1>1, <1>5 DEF NoDone
  <2>. QED
    BY <2>1, <2>2 DEF Follows
<1>. QED
  BY <1>3, <1>4, <1>5 DEF Follows

\* A message is logged, with the lock taken for the turn.
LEMMA FollowsLogged ==
    ASSUME TypeOK, NEW c \in Nat, NEW s \in Nat, Follows(c, s), NEW p \in Pipe, WriteLog(p)
    PROVE  Follows(c, s)'
<1>. PICK l : l = log'
  OBVIOUS
<1>1. /\ log \in Seq(Message) /\ l = Append(log, Data(p, taken[p])) /\ chan' = chan
      /\ Data(p, taken[p]) \in Message
  <2>1. Data(p, taken[p]) \in Message
    BY TakenBounds, DataMessage
  <2>. QED
    BY <2>1 DEF TypeOK, WriteLog
<1>2. /\ Len(l) = Len(log) + 1 /\ DOMAIN log \subseteq DOMAIN l /\ Len(log) \in Nat
      /\ \A i \in DOMAIN log : l[i] = log[i]
  BY <1>1
<1>3. ~Unsent /\ Unsent'
  BY ContainerIOAssumption DEF WriteLog, TypeOK, Unsent
<1>4. Ahead = 0 /\ Ahead' = 1
  BY <1>3 DEF Ahead
<1>5. \A i, j : NoDone(i, j)' <=> NoDone(i, j)
  BY <1>1 DEF NoDone
<1>6. NoDone(c, Len(chan)) => s + (Len(chan) - c) + 1 = Len(l) - 1
  <2>1. NoDone(c, Len(chan)) => s + (Len(chan) - c) + 1 = Len(log)
    BY <1>2, <1>4 DEF Follows
  <2>2. Len(l) - 1 = Len(log)
    BY <1>2
  <2>. QED
    BY <2>1, <2>2
<1>. QED
  BY <1>1, <1>2, <1>4, <1>5, <1>6 DEF Follows

\* A message is sent to those attached.
LEMMA FollowsSent ==
    ASSUME TypeOK, LogLast, NEW c \in Nat \ {0}, NEW s \in Nat, c <= Len(chan) + 1,
           Follows(c, s), NEW p \in Pipe, AttachSend(p)
    PROVE  Follows(c, s)'
<1>. PICK d : d = chan'
  OBVIOUS
<1>. DEFINE m == Current(p)
<1>1. chan \in Seq(Message) /\ d = Append(chan, m) /\ m \in Message /\ log' = log
  BY CurrentMessage DEF TypeOK, AttachSend, reading
<1>2. /\ Len(chan) \in Nat /\ Len(d) = Len(chan) + 1 /\ d[Len(chan) + 1] = m
      /\ \A i \in 1..Len(chan) : d[i] = chan[i]
  BY <1>1
<1>. HIDE DEF m
<1>3. ASSUME NEW j \in Nat, j <= Len(chan) PROVE  NoDone(c, j)' <=> NoDone(c, j)
  BY <1>2, <1>3 DEF NoDone
<1>4. NoDone(c, Len(d))' => NoDone(c, Len(chan)) /\ ~IsDone(m)
  BY <1>2 DEF NoDone
<1>5. ASSUME ~IsDone(m), NoDone(c, Len(chan))
      PROVE  /\ s + (Len(d) - c) + 1 = Len(log) /\ Ahead' = 0
             /\ Len(log) \in DOMAIN log /\ m = log[Len(log)]
  <2>1. lock = p /\ m = Data(p, taken[p])
    BY <1>5 DEF Current, m, IsDone, Done
  <2>2. Ahead = 1
    BY <2>1 DEF Ahead, Unsent, AttachSend
  <2>3. s + (Len(chan) - c) + 1 = Len(log) - 1 /\ Len(log) \in Nat
    BY <1>5, <2>2 DEF Follows, TypeOK
  <2>4. s + (Len(d) - c) + 1 = Len(log)
    BY <1>2, <2>3
  <2>5. lock' = p /\ loop'[p] = "message"
    BY <2>1 DEF AttachSend, TypeOK
  <2>6. Ahead' = 0
    BY <2>5 DEF Ahead, Unsent
  <2>7. log # <<>> /\ m = log[Len(log)] /\ log \in Seq(Message)
    BY <2>1 DEF LogLast, TypeOK
  <2>. QED
    BY <2>4, <2>6, <2>7
<1>6. ASSUME NEW j \in c..Len(d), NoDone(c, j)'
      PROVE  s + (j - c) + 1 \in DOMAIN log /\ d[j] = log[s + (j - c) + 1]
  <2>1. CASE j \in c..Len(chan)
    BY <1>2, <1>3, <1>6, <2>1 DEF Follows
  <2>2. CASE j = Len(d)
    BY <1>2, <1>4, <1>5, <1>6, <2>2
  <2>. QED
    BY <1>2, <2>1, <2>2
<1>7. NoDone(c, Len(d))' => s + (Len(d) - c) + 1 = Len(log) - Ahead'
  <2>1. Len(log) \in Nat
    BY DEF TypeOK
  <2>. QED
    BY <1>4, <1>5, <2>1
<1>. QED
  BY <1>1, <1>6, <1>7 DEF Follows

\* A client that is absent has seen nothing.
LEMMA MirrorInit == Init => MirrorInv
<1>. SUFFICES ASSUME Init, NEW k \in Client
              PROVE  MirrorAt(k, 0) /\ 0 \in 0..Len(log)
  BY DEF MirrorInv
<1>1. out[k] = <<>> /\ client[k] # "subscribed" /\ log = <<>>
  BY DEF Init
<1>. QED
  BY <1>1 DEF MirrorAt, Mirrors, Attached

\* Every step keeps a client's packets and what it will get next in line with the log.
LEMMA MirrorStep ==
    TypeOK /\ LoopInv /\ LogInv /\ CursorInv /\ MirrorInv /\ [Next]_vars => MirrorInv'
<1>. SUFFICES ASSUME TypeOK, LoopInv, LogInv, CursorInv, MirrorInv, [Next]_vars
              PROVE  MirrorInv'
  OBVIOUS
<1>1. TypeOK /\ LoopInv /\ LogInv /\ CursorInv /\ MirrorInv /\ None \notin Pipe
  BY ContainerIOAssumption
<1>2. ASSUME NEW p \in Pipe, Read(p) PROVE  MirrorInv'
  <2>. SUFFICES ASSUME NEW x \in Client PROVE  \E b \in 0..Len(log') : MirrorAt(x, b)'
    BY DEF MirrorInv
  <2>1. PICK b \in 0..Len(log) : MirrorAt(x, b)
    BY <1>1 DEF MirrorInv
  <2>2. Attached(x)' => Attached(x) /\ Ahead' = Ahead
    BY <1>1, <1>2 DEF Read, LoopInv, TypeOK, Turn, Attached, Ahead, Unsent, attaching
  <2>3. UNCHANGED <<log, chan, out[x], cursor[x]>>
    BY <1>2 DEF Read, attaching
  <2>. QED
    BY <2>1, <2>2, <2>3, MirrorKept
<1>3. ASSUME NEW p \in Pipe, ReadEof(p) PROVE  MirrorInv'
  <2>. SUFFICES ASSUME NEW x \in Client PROVE  \E b \in 0..Len(log') : MirrorAt(x, b)'
    BY DEF MirrorInv
  <2>1. PICK b \in 0..Len(log) : MirrorAt(x, b)
    BY <1>1 DEF MirrorInv
  <2>2. Attached(x)' => Attached(x) /\ Ahead' = Ahead
    BY <1>1, <1>3 DEF ReadEof, LoopInv, TypeOK, Turn, Attached, Ahead, Unsent, attaching
  <2>3. UNCHANGED <<log, chan, out[x], cursor[x]>>
    BY <1>3 DEF ReadEof, attaching
  <2>. QED
    BY <2>1, <2>2, <2>3, MirrorKept
<1>4. ASSUME NEW p \in Pipe, WriteLog(p) PROVE  MirrorInv'
  <2>. SUFFICES ASSUME NEW x \in Client PROVE  \E b \in 0..Len(log') : MirrorAt(x, b)'
    BY DEF MirrorInv
  <2>1. PICK b \in 0..Len(log) : MirrorAt(x, b)
    BY <1>1 DEF MirrorInv
  <2>. PICK l : l = log'
    OBVIOUS
  <2>2. /\ UNCHANGED <<chan, client, gone, out, cursor>>
        /\ l = Append(log, Data(p, taken[p])) /\ log \in Seq(Message)
        /\ Data(p, taken[p]) \in Message
    <3>1. Data(p, taken[p]) \in Message
      BY <1>1, TakenBounds, DataMessage
    <3>. QED
      BY <1>1, <1>4, <3>1 DEF WriteLog, attaching, TypeOK
  <2>3. /\ Len(l) = Len(log) + 1 /\ DOMAIN log \subseteq DOMAIN l /\ Len(log) \in Nat
        /\ \A i \in DOMAIN log : l[i] = log[i]
    BY <2>2
  <2>4. Mirrors(x, b)'
    BY <2>1, <2>2, <2>3 DEF MirrorAt, Mirrors
  <2>5. ASSUME Attached(x)' PROVE  Follows(cursor[x], b + Len(out[x]))' /\ NotEnded(x)'
    <3>1. Attached(x)
      BY <2>2, <2>5 DEF Attached
    <3>2. Follows(cursor[x], b + Len(out[x])) /\ NotEnded(x)
      BY <2>1, <3>1 DEF MirrorAt
    <3>3. cursor[x] \in Nat /\ out[x] \in Seq(Message)
      BY <1>1 DEF TypeOK
    <3>4. b + Len(out[x]) \in Nat
      <4>1. PICK n \in Nat : n = Len(out[x])
        BY <3>3
      <4>. QED
        BY <4>1
    <3>5. PICK c \in Nat, s \in Nat : /\ c = cursor[x] /\ s = b + Len(out[x])
                                      /\ c = cursor'[x] /\ s = b + Len(out'[x])
      BY <2>2, <3>3, <3>4
    <3>6. Follows(c, s)'
      BY <1>1, <1>4, <3>2, <3>5, FollowsLogged
    <3>. QED
      BY <2>2, <3>2, <3>5, <3>6 DEF NotEnded
  <2>6. b \in 0..Len(l)
    BY <2>3
  <2>. QED
    BY <2>4, <2>5, <2>6 DEF MirrorAt
<1>5. ASSUME NEW p \in Pipe, WriteLogFails(p) PROVE  MirrorInv'
  <2>. SUFFICES ASSUME NEW x \in Client PROVE  \E b \in 0..Len(log') : MirrorAt(x, b)'
    BY DEF MirrorInv
  <2>1. PICK b \in 0..Len(log) : MirrorAt(x, b)
    BY <1>1 DEF MirrorInv
  <2>2. Attached(x)' => Attached(x) /\ Ahead' = Ahead
    BY <1>1, <1>5 DEF WriteLogFails, LoopInv, TypeOK, Turn, Attached, Ahead, Unsent, attaching
  <2>3. UNCHANGED <<log, chan, out[x], cursor[x]>>
    BY <1>5 DEF WriteLogFails, attaching
  <2>. QED
    BY <2>1, <2>2, <2>3, MirrorKept
<1>6. ASSUME NEW p \in Pipe, AttachCheck(p) PROVE  MirrorInv'
  <2>. SUFFICES ASSUME NEW x \in Client PROVE  \E b \in 0..Len(log') : MirrorAt(x, b)'
    BY DEF MirrorInv
  <2>1. PICK b \in 0..Len(log) : MirrorAt(x, b)
    BY <1>1 DEF MirrorInv
  <2>2. Attached(x)' => Attached(x) /\ Ahead' = Ahead
    BY <1>1, <1>6 DEF AttachCheck, Receivers, LoopInv, TypeOK, Turn, Attached, Ahead, Unsent, attaching
  <2>3. UNCHANGED <<log, chan, out[x], cursor[x]>>
    BY <1>6 DEF AttachCheck, attaching
  <2>. QED
    BY <2>1, <2>2, <2>3, MirrorKept
<1>7. ASSUME NEW p \in Pipe, AttachSend(p) PROVE  MirrorInv'
  <2>. SUFFICES ASSUME NEW x \in Client PROVE  \E b \in 0..Len(log') : MirrorAt(x, b)'
    BY DEF MirrorInv
  <2>1. PICK b \in 0..Len(log) : MirrorAt(x, b)
    BY <1>1 DEF MirrorInv
  <2>2. UNCHANGED <<log, client, gone, out, cursor>>
    BY <1>7 DEF AttachSend, attaching
  <2>3. Mirrors(x, b)'
    BY <2>1, <2>2 DEF MirrorAt, Mirrors
  <2>4. ASSUME Attached(x)' PROVE  Follows(cursor[x], b + Len(out[x]))' /\ NotEnded(x)'
    <3>1. Attached(x)
      BY <2>2, <2>4 DEF Attached
    <3>2. Follows(cursor[x], b + Len(out[x])) /\ NotEnded(x)
      BY <2>1, <3>1 DEF MirrorAt
    <3>3. cursor[x] \in Nat \ {0} /\ cursor[x] \in 1..(Len(chan) + 1) /\ out[x] \in Seq(Message)
      BY <1>1 DEF TypeOK, CursorInv
    <3>4. b + Len(out[x]) \in Nat
      <4>1. PICK n \in Nat : n = Len(out[x])
        BY <3>3
      <4>. QED
        BY <4>1
    <3>5. PICK c \in Nat \ {0}, s \in Nat :
              /\ c = cursor[x] /\ s = b + Len(out[x])
              /\ c = cursor'[x] /\ s = b + Len(out'[x]) /\ c <= Len(chan) + 1
      BY <2>2, <3>3, <3>4
    <3>6. LogLast
      BY <1>1 DEF LogInv
    <3>7. Follows(c, s)'
      BY <1>1, <1>7, <3>2, <3>5, <3>6, FollowsSent
    <3>. QED
      BY <2>2, <3>2, <3>5, <3>7 DEF NotEnded
  <2>. QED
    BY <2>2, <2>3, <2>4 DEF MirrorAt
<1>8. ASSUME NEW p \in Pipe, AttachSendFails(p) PROVE  MirrorInv'
  <2>. SUFFICES ASSUME NEW x \in Client PROVE  \E b \in 0..Len(log') : MirrorAt(x, b)'
    BY DEF MirrorInv
  <2>1. PICK b \in 0..Len(log) : MirrorAt(x, b)
    BY <1>1 DEF MirrorInv
  <2>2. Attached(x)' => Attached(x) /\ Ahead' = Ahead
    BY <1>1, <1>8 DEF AttachSendFails, Receivers, Attached, attaching
  <2>3. UNCHANGED <<log, chan, out[x], cursor[x]>>
    BY <1>8 DEF AttachSendFails, attaching
  <2>. QED
    BY <2>1, <2>2, <2>3, MirrorKept
<1>9. ASSUME NEW p \in Pipe, SendMessage(p) PROVE  MirrorInv'
  <2>. SUFFICES ASSUME NEW x \in Client PROVE  \E b \in 0..Len(log') : MirrorAt(x, b)'
    BY DEF MirrorInv
  <2>1. PICK b \in 0..Len(log) : MirrorAt(x, b)
    BY <1>1 DEF MirrorInv
  <2>2. Attached(x)' => Attached(x) /\ Ahead' = Ahead
    BY <1>1, <1>9 DEF SendMessage, Unlock, LoopInv, TypeOK, Turn, Attached, Ahead, Unsent, attaching
  <2>3. UNCHANGED <<log, chan, out[x], cursor[x]>>
    BY <1>9 DEF SendMessage, attaching
  <2>. QED
    BY <2>1, <2>2, <2>3, MirrorKept
<1>10. ASSUME NEW k \in Client, Accept(k) PROVE  MirrorInv'
  <2>. SUFFICES ASSUME NEW x \in Client PROVE  \E b \in 0..Len(log') : MirrorAt(x, b)'
    BY DEF MirrorInv
  <2>1. PICK b \in 0..Len(log) : MirrorAt(x, b)
    BY <1>1 DEF MirrorInv
  <2>2. CASE x # k
    <3>1. Attached(x)' => Attached(x) /\ Ahead' = Ahead
      BY <1>1, <1>10, <2>2 DEF Accept, reading, TypeOK, Attached, Ahead, Unsent
    <3>2. UNCHANGED <<log, chan, out[x], cursor[x]>>
      BY <1>1, <1>10, <2>2 DEF Accept, reading, TypeOK
    <3>. QED
      BY <2>1, <3>1, <3>2, MirrorKept
  <2>3. CASE x = k
    <3>. PICK n \in Nat : n = Len(chan)
      BY <1>1 DEF TypeOK
    <3>1. out[x] = <<>> /\ UNCHANGED <<log, chan, out, lock, loop>>
      BY <1>1, <1>10, <2>3 DEF CursorInv, Accept, reading
    <3>2. cursor'[x] = n + 1
      BY <1>1, <1>10, <2>3 DEF TypeOK, Accept
    <3>3. PICK a \in 0..Len(log) : a = Len(log) - Ahead
      <4>1. log \in Seq(Message) /\ (Ahead = 1 => log # <<>>) /\ Ahead \in {0, 1}
        BY <1>1 DEF TypeOK, LogInv, LogLast, Ahead, Unsent
      <4>2. PICK l \in Nat, h \in {0, 1} : l = Len(log) /\ h = Ahead /\ (h = 1 => l > 0)
        BY <4>1
      <4>3. l - h \in 0..l
        BY <4>2
      <4>. QED
        BY <4>2, <4>3
    <3>4. Ahead' = Ahead
      BY <3>1 DEF Ahead, Unsent
    <3>5. Mirrors(x, a)' /\ NotEnded(x)'
      BY <3>1 DEF Mirrors, NotEnded
    <3>6. Follows(n + 1, a)'
      <4>1. (n + 1)..n = {} /\ a + (n - (n + 1)) + 1 = a
        BY <3>3
      <4>. QED
        BY <3>1, <3>3, <3>4, <4>1 DEF Follows
    <3>7. b \in Nat /\ Len(out'[x]) = 0 /\ a + Len(out'[x]) = a
      BY <3>1
    <3>. QED
      BY <3>1, <3>2, <3>5, <3>6, <3>7 DEF MirrorAt
  <2>. QED
    BY <2>2, <2>3
<1>11. ASSUME NEW k \in Client, WritePacket(k) PROVE  MirrorInv'
  <2>. SUFFICES ASSUME NEW x \in Client PROVE  \E b \in 0..Len(log') : MirrorAt(x, b)'
    BY DEF MirrorInv
  <2>1. PICK b \in 0..Len(log) : MirrorAt(x, b)
    BY <1>1 DEF MirrorInv
  <2>2. CASE x # k
    <3>1. Attached(x)' => Attached(x) /\ Ahead' = Ahead
      BY <1>1, <1>11, <2>2 DEF WritePacket, reading, TypeOK, Attached, Ahead, Unsent
    <3>2. UNCHANGED <<log, chan, out[x], cursor[x]>>
      BY <1>1, <1>11, <2>2 DEF WritePacket, reading, TypeOK
    <3>. QED
      BY <2>1, <3>1, <3>2, MirrorKept
  <2>3. CASE x = k /\ gone[k]
    <3>1. Mirrors(x, b)'
      BY <1>11, <2>1, <2>3 DEF WritePacket, reading, MirrorAt, Mirrors
    <3>2. ~Attached(x)' /\ log' = log
      BY <1>11, <2>3 DEF WritePacket, reading, Attached
    <3>. QED
      BY <3>1, <3>2 DEF MirrorAt
  <2>4. CASE x = k /\ ~gone[k]
    <3>. PICK o : o = out[k]
      OBVIOUS
    <3>. PICK c \in Nat \ {0} : c = cursor[k]
      BY <1>1 DEF TypeOK
    <3>. DEFINE m == chan[c]
                new == Append(o, m)
    <3>1. /\ c <= Len(chan) /\ out'[k] = new /\ cursor'[k] = c + 1
          /\ UNCHANGED <<log, chan, gone, lock, loop>> /\ o \in Seq(Message) /\ Attached(k)
      BY <1>1, <1>11, <2>4 DEF TypeOK, WritePacket, Pending, reading, Attached
    <3>2. m \in Message /\ Len(chan) \in Nat
      BY <1>1, <3>1 DEF TypeOK
    <3>3. /\ Len(o) \in Nat /\ Len(new) = Len(o) + 1 /\ DOMAIN new = 1..(Len(o) + 1)
          /\ new[Len(o) + 1] = m /\ DOMAIN o = 1..Len(o)
          /\ \A j \in 1..Len(o) : new[j] = o[j]
      BY <3>1, <3>2
    <3>. PICK n \in Nat : n = Len(o)
      BY <3>3
    <3>4. /\ Follows(c, b + n) /\ \A j \in 1..n : ~IsDone(o[j])
          /\ \A j \in 1..n : b + j \in DOMAIN log /\ o[j] = log[b + j]
      <4>1. MirrorAt(k, b)
        BY <2>1, <2>4
      <4>2. Follows(c, b + n) /\ \A j \in 1..n : ~IsDone(o[j])
        BY <3>1, <3>3, <4>1 DEF MirrorAt, NotEnded
      <4>. QED
        BY <3>3, <4>1, <4>2 DEF MirrorAt, Mirrors
    <3>5. CASE IsDone(m)
      <4>1. ~Attached(x)'
        BY <1>1, <1>11, <2>4, <3>5 DEF TypeOK, WritePacket, Attached
      <4>. HIDE DEF m, new
      <4>2. ASSUME NEW j \in 1..(n + 1)
            PROVE  IF IsDone(new[j]) THEN j = Len(new)
                   ELSE b + j \in DOMAIN log /\ new[j] = log[b + j]
        <5>1. CASE j \in 1..n
          BY <3>3, <3>4, <5>1
        <5>2. CASE j = n + 1
          BY <3>3, <3>5, <5>2
        <5>. QED
          BY <5>1, <5>2
      <4>3. Mirrors(x, b)'
        BY <2>4, <3>1, <3>3, <4>2 DEF Mirrors
      <4>. QED
        BY <3>1, <4>1, <4>3 DEF MirrorAt
    <3>6. CASE ~IsDone(m)
      <4>1. /\ (b + n) + 1 \in DOMAIN log /\ m = log[(b + n) + 1]
            /\ Follows(c + 1, (b + n) + 1)
        <5>1. b + n \in Nat /\ c \in Nat
          OBVIOUS
        <5>. QED
          BY <1>1, <3>1, <3>4, <3>6, <5>1, FollowsNext
      <4>. HIDE DEF m, new
      <4>2. ASSUME NEW j \in 1..(n + 1)
            PROVE  ~IsDone(new[j]) /\ b + j \in DOMAIN log /\ new[j] = log[b + j]
        <5>1. CASE j \in 1..n
          BY <3>3, <3>4, <5>1
        <5>2. CASE j = n + 1
          <6>1. b + j = (b + n) + 1
            BY <5>2
          <6>. QED
            BY <3>3, <3>6, <4>1, <5>2, <6>1
        <5>. QED
          BY <5>1, <5>2
      <4>3. Mirrors(x, b)' /\ NotEnded(x)'
        BY <2>4, <3>1, <3>3, <4>2 DEF Mirrors, NotEnded
      <4>4. Ahead' = Ahead
        BY <3>1 DEF Ahead, Unsent
      <4>5. ASSUME NEW d, NEW s, Follows(d, s) PROVE  Follows(d, s)'
        <5>1. \A i, j : NoDone(i, j)' <=> NoDone(i, j)
          BY <3>1 DEF NoDone
        <5>. QED
          BY <3>1, <4>4, <4>5, <5>1 DEF Follows
      <4>6. PICK s : s = (b + n) + 1 /\ s = b + Len(out'[x])
        BY <2>4, <3>1, <3>3
      <4>7. Follows(c + 1, s)'
        BY <4>1, <4>5, <4>6
      <4>. QED
        BY <2>4, <3>1, <4>3, <4>6, <4>7 DEF MirrorAt
    <3>. QED
      BY <3>5, <3>6
  <2>. QED
    BY <2>2, <2>3, <2>4
<1>12. ASSUME NEW k \in Client, WriteLagged(k) PROVE  MirrorInv'
  <2>. SUFFICES ASSUME NEW x \in Client PROVE  \E b \in 0..Len(log') : MirrorAt(x, b)'
    BY DEF MirrorInv
  <2>1. PICK b \in 0..Len(log) : MirrorAt(x, b)
    BY <1>1 DEF MirrorInv
  <2>2. Attached(x)' => Attached(x) /\ Ahead' = Ahead
    BY <1>1, <1>12 DEF WriteLagged, reading, TypeOK, Attached, Ahead, Unsent
  <2>3. UNCHANGED <<log, chan, out[x], cursor[x]>>
    BY <1>12 DEF WriteLagged, reading
  <2>. QED
    BY <2>1, <2>2, <2>3, MirrorKept
<1>13. ASSUME NEW k \in Client, WriteFails(k) PROVE  MirrorInv'
  <2>. SUFFICES ASSUME NEW x \in Client PROVE  \E b \in 0..Len(log') : MirrorAt(x, b)'
    BY DEF MirrorInv
  <2>1. PICK b \in 0..Len(log) : MirrorAt(x, b)
    BY <1>1 DEF MirrorInv
  <2>2. Attached(x)' => Attached(x) /\ Ahead' = Ahead
    BY <1>1, <1>13 DEF WriteFails, reading, TypeOK, Attached, Ahead, Unsent
  <2>3. UNCHANGED <<log, chan, out[x], cursor[x]>>
    BY <1>13 DEF WriteFails, reading
  <2>. QED
    BY <2>1, <2>2, <2>3, MirrorKept
<1>14. ASSUME NEW k \in Client, ClientGone(k) PROVE  MirrorInv'
  <2>. SUFFICES ASSUME NEW x \in Client PROVE  \E b \in 0..Len(log') : MirrorAt(x, b)'
    BY DEF MirrorInv
  <2>1. PICK b \in 0..Len(log) : MirrorAt(x, b)
    BY <1>1 DEF MirrorInv
  <2>2. Attached(x)' => Attached(x) /\ Ahead' = Ahead
    BY <1>1, <1>14 DEF ClientGone, reading, TypeOK, Attached, Ahead, Unsent
  <2>3. UNCHANGED <<log, chan, out[x], cursor[x]>>
    BY <1>14 DEF ClientGone, reading
  <2>. QED
    BY <2>1, <2>2, <2>3, MirrorKept
<1>15. CASE UNCHANGED <<reading, chan, attaching>>
  <2>. SUFFICES ASSUME NEW x \in Client PROVE  \E b \in 0..Len(log') : MirrorAt(x, b)'
    BY DEF MirrorInv
  <2>1. PICK b \in 0..Len(log) : MirrorAt(x, b)
    BY <1>1 DEF MirrorInv
  <2>2. Attached(x)' => Attached(x) /\ Ahead' = Ahead
    BY <1>15 DEF reading, attaching, Attached, Ahead, Unsent
  <2>3. UNCHANGED <<log, chan, out[x], cursor[x]>>
    BY <1>15 DEF reading, attaching
  <2>. QED
    BY <2>1, <2>2, <2>3, MirrorKept
<1>. QED
  BY <1>2, <1>3, <1>4, <1>5, <1>6, <1>7, <1>8, <1>9, <1>10, <1>11,
     <1>12, <1>13, <1>14, <1>15, AttachFrame
  DEF ReadStep, WriteStep

-----------------------------------------------------------------------------
(* The theorems. *)

\* The invariant holds in every reachable state.
LEMMA InvHolds == Spec => []Inv
<1>1. Init => Inv
  BY TypeInit, LoopInit, LogInit, CursorInit, MirrorInit, StreamInit DEF Inv
<1>2. Inv /\ [Next]_vars => Inv'
  BY TypeStep, LoopStep, LogStep, CursorStep, MirrorStep, StreamStep DEF Inv
<1>. QED
  BY <1>1, <1>2, PTL DEF Spec

\* Every variable of the container IO keeps its type.
THEOREM TypeCorrect == Spec => []TypeOK
  BY InvHolds, PTL DEF Inv

\* The log of read_loop: every chunk that was read is logged, once and in order,
\* but for the one on its way, for any number of pipes and attach clients.
THEOREM LogCompleteCorrect == Spec => []LogComplete
<1>1. Inv => LogComplete
  <2>. SUFFICES ASSUME Inv PROVE  LogComplete
    OBVIOUS
  <2>1. TypeOK /\ LogOrder /\ \A p \in Pipe : LogUpTo(p)
    BY DEF Inv, LogInv
  <2>2. ASSUME NEW p \in Pipe, NEW n, LoggedTo(p, n)
        PROVE  LoggedOf(p) = {Data(p, c) : c \in 1..n}
    <3>1. ASSUME NEW i \in DOMAIN log, log[i].pipe = p
          PROVE  \E c \in 1..n : log[i] = Data(p, c)
      <4>1. log[i] \in Message
        BY <2>1 DEF TypeOK
      <4>2. log[i] = Data(p, log[i].chunk)
        BY <3>1, <4>1, MessageShape
      <4>. QED
        BY <2>2, <3>1, <4>2 DEF LoggedTo
    <3>2. ASSUME NEW c \in 1..n PROVE  \E i \in DOMAIN log : log[i].pipe = p /\ log[i] = Data(p, c)
      <4>1. PICK i \in DOMAIN log : log[i] = Data(p, c)
        BY <2>2 DEF LoggedTo
      <4>2. Data(p, c).pipe = p
        BY DEF Data
      <4>. QED
        BY <4>1, <4>2
    <3>. QED
      BY <3>1, <3>2 DEF LoggedOf
  <2>3. ASSUME NEW p \in Pipe
        PROVE  \E n \in {taken[p], taken[p] - 1} :
                   /\ LoggedOf(p) = {Data(p, c) : c \in 1..n}
                   /\ loop[p] \notin {"log", "failed"} => n = taken[p]
    BY <2>1, <2>2 DEF LogUpTo
  <2>. QED
    BY <2>1, <2>3 DEF LogComplete, LogOrder
<1>. QED
  BY <1>1, InvHolds, PTL

\* Attach::write_loop behind SharedContainerAttach::write: however many clients come,
\* lag and go, each one's packets are a contiguous part of the log.
THEOREM AttachMirrorsCorrect == Spec => []AttachMirrorsLog
<1>1. Inv => AttachMirrorsLog
  BY DEF Inv, MirrorInv, MirrorAt, AttachMirrorsLog
<1>. QED
  BY <1>1, InvHolds, PTL

\* read_stream_with_timeout: an exec is answered with a beginning of its output,
\* below the limit, and with all of it after the end of the stream.
THEOREM ExecOutputCorrect == Spec => []ExecOutputTruthful
<1>1. Inv => ExecOutputTruthful
  BY DEF Inv, StreamInv, GatherInv, ExecOutputTruthful
<1>. QED
  BY <1>1, InvHolds, PTL

=============================================================================
