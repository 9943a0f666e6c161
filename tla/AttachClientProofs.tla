------------------------- MODULE AttachClientProofs -------------------------
(***************************************************************************)
(* Proofs about AttachClient for every number of sessions, every set of    *)
(* configurations and any amount of output.  The inductive invariant       *)
(* follows the caller's goroutine (who is in the map of readers, and who   *)
(* is responsible for the socket), what the server sent to a session, and  *)
(* what the goroutine of the output made of it.                            *)
(***************************************************************************)
EXTENDS AttachClient, SequenceTheorems, TLAPS

\* Where the caller's goroutine is says what it has received and whether its
\* reader is in the map.
ControlInv ==
    \A s \in Session :
        /\ pc[s] \in {"idle", "dial", "pre", "post", "select"} => event[s] = None
        /\ pc[s] \in {"take", "range", "remove", "finish", "drain"} => event[s] # None
        /\ result[s] # None => pc[s] = "returned"
        /\ cfg[s].stdin /\ pc[s] \in {"post", "select", "take"} => s \in readers
        /\ pc[s] \in {"idle", "dial", "pre"} => s \notin readers
        /\ stdinGo[s] = "sending" => stdinErr[s] # None

\* The session has taken its reader out of the map.
Took(s) ==
    \/ pc[s] \in {"range", "remove", "finish", "drain"}
    \/ pc[s] = "returned" /\ event[s] # None /\ ~cfg[s].stopAfterStdinEOF

ReaderInv ==
    \A s \in Session : cfg[s].stdin /\ Took(s) => s \notin readers /\ stdinShut[s]

\* The session has no more to do with the socket: it has removed it, or left
\* it to another one.
Gone(s) ==
    \/ pc[s] = "idle"
    \/ /\ pc[s] \in {"finish", "drain", "returned"}
       /\ cfg[s].stdin /\ event[s] # None /\ s \notin readers

\* A socket is there for somebody.
SocketInv == socket => \E s \in Session : ~Gone(s)

\* Packets are sent in order, and Done is the last one.
SentInv ==
    \A s \in Session : \A i \in 1..Len(sent[s]) :
        /\ sent[s][i].n <= emitted
        /\ sent[s][i] = Done => i = Len(sent[s]) /\ ended[s]
        /\ \A j \in 1..Len(sent[s]) : i < j /\ sent[s][j] # Done => sent[s][i].n < sent[s][j].n

\* What was read and wanted was written, in order.
WroteAll(s) ==
    /\ \A i \in 1..Len(written[s]) : \E k \in 1..got[s] : written[s][i] = sent[s][k]
    /\ \A i \in 1..Len(written[s]) : written[s][i].pipe \in cfg[s].streams
    /\ \A k \in 1..got[s] : sent[s][k].pipe \in cfg[s].streams =>
          \E i \in 1..Len(written[s]) : written[s][i] = sent[s][k]
    /\ \A i, j \in 1..Len(written[s]) : i < j => written[s][i].n < written[s][j].n

WrittenInv == \A s \in Session : outErr[s] # "error" => WroteAll(s)

\* The goroutine of the output ends well at the end of what will ever be sent,
\* and success is reported from it.
OutputInv ==
    \A s \in Session :
        /\ outErr[s] = None <=> outGo[s] \in {"none", "reading"}
        /\ pc[s] \in {"idle", "dial", "pre"} => outGo[s] = "none"
        /\ event[s] = "output" => outGo[s] = "over"
        /\ outErr[s] = "ok" /\ ~OnePacketOnly(s) =>
              got[s] = Len(sent[s]) /\ (ended[s] \/ ~server)
        /\ /\ result[s] = "ok" /\ ~cfg[s].passthrough /\ cfg[s].streams # {}
           /\ ~cfg[s].stopAfterStdinEOF
           => outErr[s] = "ok"

Inv == /\ TypeOK /\ ControlInv /\ ReaderInv /\ SocketInv /\ SentInv /\ WrittenInv
       /\ OutputInv

-----------------------------------------------------------------------------

\* The initial states satisfy the invariant.
LEMMA InitInv == Init => Inv
  <1> SUFFICES ASSUME Init PROVE Inv
    OBVIOUS
  <1> USE AttachClientAssumption DEF Init
  <1>1. TypeOK
    <2>1. PICK e \in Seq(Packet) : e = <<>> /\ Len(e) = 0
      BY EmptySeq
    <2>2. written \in [Session -> Seq(Packet)] /\ sent \in [Session -> Seq(Packet)]
      BY <2>1
    <2>3. \A t \in Session : Len(sent[t]) = 0 /\ got[t] = 0
      BY <2>1
    <2>4. got \in [Session -> Nat] /\ \A t \in Session : got[t] <= Len(sent[t])
      BY <2>3
    <2>5. emitted \in 0..MaxPackets
      OBVIOUS
    <2>6. {socket, server} \subseteq BOOLEAN
      OBVIOUS
    <2> QED
      BY <2>2, <2>4, <2>5, <2>6 DEF TypeOK
  <1>2. ControlInv
    BY DEF ControlInv
  <1>3. ReaderInv
    BY DEF ReaderInv, Took
  <1>4. SocketInv
    BY DEF SocketInv
  <1>5. SentInv
    BY DEF SentInv
  <1>6. WrittenInv
    BY DEF WrittenInv, WroteAll
  <1>7. OutputInv
    BY DEF OutputInv
  <1> QED
    BY <1>1, <1>2, <1>3, <1>4, <1>5, <1>6, <1>7 DEF Inv

\* What Goto and Return assign is of the type of the variable.
LEMMA ReturnType ==
  ASSUME TypeOK, NEW s \in Session, NEW r \in {"ok", "detach", "error", None}, Return(s, r)
  PROVE  /\ pc' \in [Session -> {"idle", "dial", "pre", "post", "select", "take", "range",
                                 "remove", "finish", "drain", "returned"}]
         /\ result' \in [Session -> {"ok", "detach", "error", None}]
         /\ conn' \in [Session -> {"none", "backlog", "accepted", "closed"}]
  <1>1. /\ pc \in [Session -> {"idle", "dial", "pre", "post", "select", "take", "range",
                               "remove", "finish", "drain", "returned"}]
        /\ result \in [Session -> {"ok", "detach", "error", None}]
        /\ conn \in [Session -> {"none", "backlog", "accepted", "closed"}]
    BY DEF TypeOK
  <1> QED BY <1>1 DEF Return, Goto

LEMMA GotoType ==
  ASSUME TypeOK, NEW s \in Session,
         NEW l \in {"idle", "dial", "pre", "post", "select", "take", "range", "remove",
                    "finish", "drain", "returned"},
         Goto(s, l)
  PROVE  pc' \in [Session -> {"idle", "dial", "pre", "post", "select", "take", "range",
                              "remove", "finish", "drain", "returned"}]
  <1>1. pc \in [Session -> {"idle", "dial", "pre", "post", "select", "take", "range",
                            "remove", "finish", "drain", "returned"}]
    BY DEF TypeOK
  <1> QED BY <1>1 DEF Goto

\* Of the variables only pc, result and conn, which keep their types, and the
\* socket's Boolean are changed.
LEMMA CallerType ==
  ASSUME TypeOK,
         pc' \in [Session -> {"idle", "dial", "pre", "post", "select", "take", "range",
                              "remove", "finish", "drain", "returned"}],
         result' \in [Session -> {"ok", "detach", "error", None}],
         conn' \in [Session -> {"none", "backlog", "accepted", "closed"}],
         socket' \in BOOLEAN,
         UNCHANGED <<cfg, event, readers, stdins, outputs, server, serving, got, stopping>>
  PROVE  TypeOK'
  BY DEF TypeOK, stdins, outputs, serving, stopping

\* Every step keeps the types.
LEMMA TypeStep == Inv /\ [Next]_vars => TypeOK'
  <1> SUFFICES ASSUME TypeOK, ControlInv, [Next]_vars PROVE TypeOK'
    BY DEF Inv
  <1> USE AttachClientAssumption DEF TypeOK, main, stdins, outputs, serving, stopping
  <1>1. ASSUME NEW s \in Session, \/ AttachContainer(s) \/ AttachContainerFails(s)
                                  \/ Dial(s) \/ AttachFuncFails(s) \/ PassThrough(s)
                                  \/ PostAttachFunc(s) \/ RangeReaders(s) \/ RemoveSocket(s)
        PROVE  TypeOK'
    <2>1. CASE AttachContainerFails(s) \/ AttachFuncFails(s) \/ PassThrough(s)
      <3>1. Return(s, "error") \/ Return(s, "ok")
        BY <2>1 DEF AttachContainerFails, AttachFuncFails, PassThrough
      <3>2. UNCHANGED <<cfg, event, readers, stdins, outputs, socket, server, serving, got,
                        stopping>>
        BY <2>1 DEF AttachContainerFails, AttachFuncFails, PassThrough
      <3> QED
        BY <3>1, <3>2, ReturnType, CallerType
    <2>2. CASE AttachContainer(s) \/ PostAttachFunc(s) \/ RangeReaders(s) \/ RemoveSocket(s)
      <3>1. PICK l \in {"pre", "dial", "select", "finish", "remove"} : Goto(s, l)
        BY <2>2 DEF AttachContainer, PostAttachFunc, RangeReaders, RemoveSocket
      <3>2. UNCHANGED <<cfg, event, result, readers, stdins, outputs, server, conn, serving,
                        got, stopping>>
        BY <2>2 DEF AttachContainer, PostAttachFunc, RangeReaders, RemoveSocket
      <3>3. socket' \in BOOLEAN
        BY <2>2 DEF AttachContainer, PostAttachFunc, RangeReaders, RemoveSocket
      <3>4. pc' \in [Session -> {"idle", "dial", "pre", "post", "select", "take", "range",
                                 "remove", "finish", "drain", "returned"}]
        BY <3>1, GotoType
      <3> QED
        BY <3>2, <3>3, <3>4, CallerType
    <2>3. CASE Dial(s)
      <3>1. UNCHANGED <<cfg, event, readers, stdins, outputs, socket, server, serving, got,
                        stopping>>
        BY <2>3 DEF Dial
      <3>2. CASE Return(s, "error")
        BY <3>1, <3>2, ReturnType, CallerType
      <3>3. CASE Goto(s, "pre") /\ UNCHANGED result /\ conn' = [conn EXCEPT ![s] = "backlog"]
        <4>1. conn' \in [Session -> {"none", "backlog", "accepted", "closed"}]
          BY <3>3
        <4> QED
          BY <3>1, <3>3, <4>1, GotoType, CallerType
      <3> QED
        BY <2>3, <3>2, <3>3 DEF Dial
    <2> QED
      BY <1>1, <2>1, <2>2, <2>3
  <1>2. ASSUME NEW s \in Session, SetupStdioChannels(s) \/ TakeReader(s)
        PROVE  TypeOK'
    <2>1. CASE SetupStdioChannels(s)
      <3>1. readers' \subseteq {t \in Session : cfg[t].stdin}
        BY <2>1 DEF SetupStdioChannels
      <3>2. stdinGo' \in [Session -> {"none", "copying", "sending", "over"}]
        BY <2>1 DEF SetupStdioChannels
      <3> QED
        BY <2>1, <3>1, <3>2 DEF SetupStdioChannels, Goto
    <2>2. CASE TakeReader(s)
      <3>1. stdinShut' \in [Session -> BOOLEAN]
        BY <2>2 DEF TakeReader
      <3> QED
        BY <2>2, <3>1 DEF TakeReader, Goto
    <2> QED
      BY <1>2, <2>1, <2>2
  <1>3. ASSUME NEW s \in Session, SelectOutput(s) \/ SelectStdin(s)
        PROVE  TypeOK'
    <2>1. CASE SelectOutput(s)
      BY <2>1 DEF SelectOutput, Goto
    <2>2. CASE SelectStdin(s)
      <3>1. /\ stdinGo' \in [Session -> {"none", "copying", "sending", "over"}]
            /\ event' \in [Session -> {"output", "end", "detach", None}]
        BY <2>2 DEF SelectStdin
      <3>2. /\ pc' \in [Session -> {"idle", "dial", "pre", "post", "select", "take", "range",
                                    "remove", "finish", "drain", "returned"}]
            /\ result' \in [Session -> {"ok", "detach", "error", None}]
            /\ conn' \in [Session -> {"none", "backlog", "accepted", "closed"}]
        <4>1. CASE Return(s, "ok")
          BY <4>1, ReturnType
        <4>2. CASE Goto(s, "take") /\ UNCHANGED <<result, conn>>
          BY <4>2, GotoType
        <4> QED
          BY <2>2, <4>1, <4>2 DEF SelectStdin
      <3>3. UNCHANGED <<cfg, readers, stdinErr, stdinShut, outputs, socket, server, serving, got,
                        stopping>>
        BY <2>2 DEF SelectStdin
      <3> QED
        BY <3>1, <3>2, <3>3
    <2> QED
      BY <1>3, <2>1, <2>2
  <1>4. ASSUME NEW s \in Session, Finish(s)
        PROVE  TypeOK'
    <2>0. event[s] \in {"output", "end", "detach"}
      BY <1>4 DEF Finish, ControlInv
    <2>1. UNCHANGED <<cfg, event, readers, stdins, outputs, socket, server, serving, got,
                      stopping>>
      BY <1>4 DEF Finish
    <2>2. outErr[s] \in {"ok", "detach", "error", None}
      OBVIOUS
    <2>3. ASSUME NEW r \in {"ok", "detach", "error", None}, Return(s, r)
          PROVE  TypeOK'
      <3>1. /\ pc' \in [Session -> {"idle", "dial", "pre", "post", "select", "take", "range",
                                    "remove", "finish", "drain", "returned"}]
            /\ result' \in [Session -> {"ok", "detach", "error", None}]
            /\ conn' \in [Session -> {"none", "backlog", "accepted", "closed"}]
        BY <2>3, ReturnType
      <3>2. socket' \in BOOLEAN
        BY <2>1
      <3> QED
        BY <2>1, <3>1, <3>2, CallerType
    <2>4. CASE Goto(s, "drain") /\ UNCHANGED <<result, conn>>
      BY <2>1, <2>4, GotoType, CallerType
    <2> QED
      BY <1>4, <2>0, <2>2, <2>3, <2>4 DEF Finish
  <1>5. ASSUME NEW s \in Session, Drain(s)
        PROVE  TypeOK'
    BY <1>5 DEF Drain, Return, Goto
  <1>6. ASSUME NEW s \in Session, HandlePacket(s)
        PROVE  TypeOK'
    <2> DEFINE packet == sent[s][got[s] + 1]
    <2>1. packet \in Packet
      BY <1>6 DEF HandlePacket
    <2>2. written' \in [Session -> Seq(Packet)]
      BY <1>6, <2>1 DEF HandlePacket
    <2>3. got' \in [Session -> Nat] /\ \A t \in Session : got'[t] <= Len(sent'[t])
      BY <1>6 DEF HandlePacket
    <2>4. /\ outGo' \in [Session -> {"none", "reading", "sending", "over"}]
          /\ outErr' \in [Session -> {"ok", "error", None}]
          /\ outShut' \in [Session -> BOOLEAN]
      <3>1. OutputEnds(s, "ok") \/ UNCHANGED <<outGo, outErr, outShut>>
        BY <1>6 DEF HandlePacket
      <3> QED
        BY <3>1 DEF OutputEnds
    <2> QED
      BY <1>6, <2>2, <2>3, <2>4 DEF HandlePacket
  <1>7. ASSUME NEW s \in Session, HandlePacketFails(s) \/ ReadEof(s) \/ ReadClosed(s)
        PROVE  TypeOK'
    <2>1. CASE HandlePacketFails(s)
      BY <2>1 DEF HandlePacketFails, OutputEnds
    <2>2. CASE ReadEof(s)
      BY <2>2 DEF ReadEof, OutputEnds
    <2>3. CASE ReadClosed(s)
      BY <2>3 DEF ReadClosed, OutputEnds
    <2> QED
      BY <1>7, <2>1, <2>2, <2>3
  <1>8. ASSUME NEW s \in Session, CopyClosed(s) \/ \E err \in {"end", "detach"} : CopyEnds(s, err)
        PROVE  TypeOK'
    <2>1. CASE CopyClosed(s)
      BY <2>1 DEF CopyClosed
    <2>2. ASSUME NEW err \in {"end", "detach"}, CopyEnds(s, err)
          PROVE  TypeOK'
      BY <2>2 DEF CopyEnds
    <2> QED
      BY <1>8, <2>1, <2>2
  <1>9. ASSUME NEW s \in Session, Accept(s) \/ Lag(s)
        PROVE  TypeOK'
    <2>1. CASE Accept(s)
      BY <2>1 DEF Accept
    <2>2. CASE Lag(s)
      BY <2>2 DEF Lag
    <2> QED
      BY <1>9, <2>1, <2>2
  <1>10. ASSUME NEW p \in Pipe, Emit(p)
         PROVE  TypeOK'
    <2>1. emitted' \in 1..MaxPackets /\ [pipe |-> p, n |-> emitted + 1] \in Packet
      BY <1>10 DEF Emit, Packet
    <2>2. sent' \in [Session -> Seq(Packet)] /\ \A t \in Session : got[t] <= Len(sent'[t])
      BY <1>10, <2>1 DEF Emit, Send
    <2> QED
      BY <1>10, <2>1, <2>2 DEF Emit
  <1>11. ASSUME NEW p \in Pipe, EmitDone(p)
         PROVE  TypeOK'
    <2>1. Done \in Packet
      BY DEF Packet
    <2>2. sent' \in [Session -> Seq(Packet)] /\ \A t \in Session : got[t] <= Len(sent'[t])
      BY <1>11, <2>1 DEF EmitDone, Send
    <2> QED
      BY <1>11, <2>2 DEF EmitDone
  <1>12. ASSUME ServerExit \/ Shutdown \/ ShutdownRange \/ ShutdownRemove \/ ShutdownKill
         PROVE  TypeOK'
    <2>1. CASE ServerExit
      BY <2>1 DEF ServerExit
    <2>2. CASE Shutdown
      BY <2>2 DEF Shutdown
    <2>3. CASE ShutdownRange
      BY <2>3 DEF ShutdownRange
    <2>4. CASE ShutdownRemove
      BY <2>4 DEF ShutdownRemove
    <2>5. CASE ShutdownKill
      BY <2>5 DEF ShutdownKill
    <2> QED
      BY <1>12, <2>1, <2>2, <2>3, <2>4, <2>5
  <1>13. ASSUME NEW s \in Session, ShutdownClose(s)
         PROVE  TypeOK'
    BY <1>13 DEF ShutdownClose
  <1>14. CASE UNCHANGED vars
    BY <1>14 DEF vars
  <1> QED
    BY <1>1, <1>2, <1>3, <1>4, <1>5, <1>6, <1>7, <1>8, <1>9, <1>10, <1>11, <1>12, <1>13, <1>14
    DEF Next, MainStep, OutputStep, ShutdownStep

-----------------------------------------------------------------------------
(* The invariants of the caller's goroutine, of the map and of the socket. *)

\* A step of the caller's goroutine keeps the control invariant.
LEMMA ControlStep == Inv /\ [Next]_vars => ControlInv'
  <1> SUFFICES ASSUME TypeOK, ControlInv, [Next]_vars PROVE ControlInv'
    BY DEF Inv
  <1> USE AttachClientAssumption DEF TypeOK, ControlInv, main, stdins, outputs, serving, stopping
  <1>1. ASSUME NEW s \in Session, \/ AttachContainer(s) \/ AttachContainerFails(s)
                                  \/ Dial(s) \/ AttachFuncFails(s) \/ PassThrough(s)
                                  \/ PostAttachFunc(s) \/ RangeReaders(s) \/ RemoveSocket(s)
        PROVE  ControlInv'
    BY <1>1 DEF AttachContainer, AttachContainerFails, Dial, AttachFuncFails, PassThrough,
                PostAttachFunc, RangeReaders, RemoveSocket, Return, Goto
  <1>2. ASSUME NEW s \in Session, SetupStdioChannels(s) \/ TakeReader(s)
        PROVE  ControlInv'
    <2>1. CASE SetupStdioChannels(s)
      BY <2>1 DEF SetupStdioChannels, Goto
    <2>2. CASE TakeReader(s)
      BY <2>2 DEF TakeReader, Goto
    <2> QED
      BY <1>2, <2>1, <2>2
  <1>3. ASSUME NEW s \in Session, SelectOutput(s) \/ SelectStdin(s) \/ Drain(s)
        PROVE  ControlInv'
    BY <1>3 DEF SelectOutput, SelectStdin, Drain, Return, Goto
  <1>4. ASSUME NEW s \in Session, Finish(s)
        PROVE  ControlInv'
    <2>1. event[s] \in {"output", "end", "detach"}
      BY <1>4 DEF Finish
    <2>2. /\ UNCHANGED <<cfg, event, readers, stdinGo, stdinErr>>
          /\ \/ pc' = [pc EXCEPT ![s] = "drain"] /\ result' = result
             \/ \E r : Return(s, r)
      BY <1>4, <2>1 DEF Finish, Goto
    <2> QED
      BY <1>4, <2>1, <2>2 DEF Finish, Return, Goto
  <1>5. ASSUME NEW s \in Session, \/ HandlePacket(s) \/ HandlePacketFails(s) \/ ReadEof(s)
                                  \/ ReadClosed(s) \/ Accept(s) \/ Lag(s)
        PROVE  ControlInv'
    BY <1>5 DEF HandlePacket, HandlePacketFails, ReadEof, ReadClosed, Accept, Lag
  <1>6. ASSUME NEW s \in Session, CopyClosed(s) \/ \E err \in {"end", "detach"} : CopyEnds(s, err)
        PROVE  ControlInv'
    <2>1. CASE CopyClosed(s)
      BY <2>1 DEF CopyClosed
    <2>2. ASSUME NEW err \in {"end", "detach"}, CopyEnds(s, err)
          PROVE  ControlInv'
      BY <2>2 DEF CopyEnds
    <2> QED
      BY <1>6, <2>1, <2>2
  <1>7. ASSUME NEW p \in Pipe, Emit(p) \/ EmitDone(p)
        PROVE  ControlInv'
    BY <1>7 DEF Emit, EmitDone
  <1>8. ASSUME ServerExit \/ Shutdown \/ ShutdownRange \/ ShutdownRemove \/ ShutdownKill
        PROVE  ControlInv'
    BY <1>8 DEF ServerExit, Shutdown, ShutdownRange, ShutdownRemove, ShutdownKill
  <1>9. ASSUME NEW s \in Session, ShutdownClose(s)
        PROVE  ControlInv'
    BY <1>9 DEF ShutdownClose
  <1>10. CASE UNCHANGED vars
    BY <1>10 DEF vars
  <1> QED
    BY <1>1, <1>2, <1>3, <1>4, <1>5, <1>6, <1>7, <1>8, <1>9, <1>10
    DEF Next, MainStep, OutputStep, ShutdownStep

\* A session takes its reader out of the map for good, and closes its stdin.
LEMMA ReaderStep == Inv /\ [Next]_vars => ReaderInv'
  <1> SUFFICES ASSUME TypeOK, ControlInv, ReaderInv, [Next]_vars PROVE ReaderInv'
    BY DEF Inv
  <1> USE AttachClientAssumption DEF TypeOK, ControlInv, ReaderInv, Took, main, stdins, outputs,
                                     serving, stopping
  <1>1. ASSUME NEW s \in Session, \/ AttachContainer(s) \/ AttachContainerFails(s)
                                  \/ Dial(s) \/ AttachFuncFails(s) \/ PassThrough(s)
                                  \/ PostAttachFunc(s) \/ RangeReaders(s) \/ RemoveSocket(s)
        PROVE  ReaderInv'
    BY <1>1 DEF AttachContainer, AttachContainerFails, Dial, AttachFuncFails, PassThrough,
                PostAttachFunc, RangeReaders, RemoveSocket, Return, Goto
  <1>2. ASSUME NEW s \in Session, SetupStdioChannels(s)
        PROVE  ReaderInv'
    BY <1>2 DEF SetupStdioChannels, Goto
  <1>3. ASSUME NEW s \in Session, TakeReader(s)
        PROVE  ReaderInv'
    BY <1>3 DEF TakeReader, Goto
  <1>4. ASSUME NEW s \in Session, SelectOutput(s) \/ SelectStdin(s) \/ Drain(s)
        PROVE  ReaderInv'
    <2>1. CASE SelectOutput(s)
      BY <2>1 DEF SelectOutput, Goto
    <2>2. CASE SelectStdin(s)
      BY <2>2 DEF SelectStdin, Return, Goto
    <2>3. CASE Drain(s)
      BY <2>3 DEF Drain, Return, Goto
    <2> QED
      BY <1>4, <2>1, <2>2, <2>3
  <1>5. ASSUME NEW s \in Session, Finish(s)
        PROVE  ReaderInv'
    <2>1. event[s] \in {"output", "end", "detach"}
      BY <1>5 DEF Finish
    <2>2. /\ UNCHANGED <<cfg, event, readers, stdinShut>>
          /\ pc' = [pc EXCEPT ![s] = "drain"] \/ \E r : Return(s, r)
      BY <1>5, <2>1 DEF Finish, Goto
    <2> QED
      BY <1>5, <2>1, <2>2 DEF Finish, Return, Goto
  <1>6. ASSUME NEW s \in Session, \/ HandlePacket(s) \/ HandlePacketFails(s) \/ ReadEof(s)
                                  \/ ReadClosed(s) \/ Accept(s) \/ Lag(s) \/ CopyClosed(s)
                                  \/ \E err \in {"end", "detach"} : CopyEnds(s, err)
        PROVE  ReaderInv'
    BY <1>6 DEF HandlePacket, HandlePacketFails, ReadEof, ReadClosed, Accept, Lag, CopyClosed,
                CopyEnds
  <1>7. ASSUME NEW p \in Pipe, Emit(p) \/ EmitDone(p)
        PROVE  ReaderInv'
    BY <1>7 DEF Emit, EmitDone
  <1>8. ASSUME ServerExit \/ Shutdown \/ ShutdownRange \/ ShutdownRemove \/ ShutdownKill
        PROVE  ReaderInv'
    BY <1>8 DEF ServerExit, Shutdown, ShutdownRange, ShutdownRemove, ShutdownKill
  <1>9. ASSUME NEW s \in Session, ShutdownClose(s)
        PROVE  ReaderInv'
    <2>1. UNCHANGED <<cfg, pc, event, readers>>
      BY <1>9 DEF ShutdownClose
    <2>2. \A t \in Session : stdinShut[t] => stdinShut'[t]
      <3>1. stdinShut' = [stdinShut EXCEPT ![s] = TRUE] \/ UNCHANGED stdinShut
        BY <1>9 DEF ShutdownClose
      <3> QED
        BY <3>1
    <2> QED
      BY <2>1, <2>2
  <1>10. CASE UNCHANGED vars
    BY <1>10 DEF vars
  <1> QED
    BY <1>1, <1>2, <1>3, <1>4, <1>5, <1>6, <1>7, <1>8, <1>9, <1>10
    DEF Next, MainStep, OutputStep, ShutdownStep

\* The last session that has to do with the socket removes it: who searches the
\* map and finds it in use leaves the socket to the owner of a reader in it.
LEMMA SocketStep == Inv /\ [Next]_vars => SocketInv'
  <1> SUFFICES ASSUME TypeOK, ControlInv, ReaderInv, SocketInv, [Next]_vars, socket'
               PROVE  \E t \in Session : ~Gone(t)'
    BY DEF Inv, SocketInv
  <1> USE AttachClientAssumption DEF TypeOK, main, stdins, outputs, serving, stopping
  <1>0. ASSUME UNCHANGED <<cfg, pc, event, readers>>, socket
        PROVE  \E t \in Session : ~Gone(t)'
    BY <1>0 DEF SocketInv, Gone
  <1>1. ASSUME NEW s \in Session, AttachContainer(s)
        PROVE  \E t \in Session : ~Gone(t)'
    BY <1>1 DEF AttachContainer, Goto, Gone
  <1>2. ASSUME NEW s \in Session, AttachContainerFails(s)
        PROVE  \E t \in Session : ~Gone(t)'
    <2>1. event[s] = None
      BY <1>2 DEF AttachContainerFails, ControlInv
    <2> QED
      BY <1>2, <2>1 DEF AttachContainerFails, Return, Goto, Gone
  <1>3. ASSUME NEW s \in Session, Dial(s) \/ AttachFuncFails(s) \/ PassThrough(s)
        PROVE  \E t \in Session : ~Gone(t)'
    <2>1. event[s] = None
      BY <1>3 DEF Dial, AttachFuncFails, PassThrough, ControlInv
    <2>2. UNCHANGED event /\ (Goto(s, "pre") \/ Goto(s, "returned"))
      BY <1>3 DEF Dial, AttachFuncFails, PassThrough, Return
    <2>3. pc'[s] \in {"pre", "returned"} /\ event'[s] = None
      BY <2>1, <2>2 DEF Goto
    <2>4. ~Gone(s)'
      BY <2>3 DEF Gone
    <2> QED
      BY <2>4
  <1>4. ASSUME NEW s \in Session, SetupStdioChannels(s) \/ PostAttachFunc(s) \/ SelectOutput(s)
        PROVE  \E t \in Session : ~Gone(t)'
    <2>0. pc'[s] \in {"post", "select", "take"}
      BY <1>4 DEF SetupStdioChannels, PostAttachFunc, SelectOutput, Goto
    <2>1. ~Gone(s)'
      BY <2>0 DEF Gone
    <2> QED
      BY <2>1
  <1>5. ASSUME NEW s \in Session, SelectStdin(s)
        PROVE  \E t \in Session : ~Gone(t)'
    <2>1. cfg[s].stdin => s \in readers
      BY <1>5 DEF SelectStdin, ControlInv
    <2>2. ~Gone(s)'
      BY <1>5, <2>1 DEF SelectStdin, Return, Goto, Gone
    <2> QED
      BY <2>2
  <1>6. ASSUME NEW s \in Session, TakeReader(s)
        PROVE  \E t \in Session : ~Gone(t)'
    <2>1. cfg[s].stdin => s \in readers
      BY <1>6 DEF TakeReader, ControlInv
    <2>2. ~Gone(s)'
      BY <1>6, <2>1 DEF TakeReader, Goto, Gone
    <2> QED
      BY <2>2
  <1>7. ASSUME NEW s \in Session, RangeReaders(s)
        PROVE  \E t \in Session : ~Gone(t)'
    <2>1. CASE SocketPathInUse
      <3>1. PICK t \in readers : TRUE
        BY <2>1 DEF SocketPathInUse
      <3>2. cfg[s].stdin => t # s
        BY <1>7, <3>1 DEF RangeReaders, ReaderInv, Took
      <3>3. CASE t = s
        BY <1>7, <3>2, <3>3 DEF RangeReaders, Goto, Gone
      <3>4. CASE t # s /\ pc[t] # "idle"
        BY <1>7, <3>1, <3>4 DEF RangeReaders, Goto, Gone
      <3>5. CASE pc[t] = "idle"
        BY <3>1, <3>5 DEF ControlInv
      <3> QED
        BY <3>3, <3>4, <3>5
    <2>2. CASE ~SocketPathInUse
      BY <1>7, <2>2 DEF RangeReaders, Goto, Gone
    <2> QED
      BY <2>1, <2>2
  <1>8. ASSUME NEW s \in Session, RemoveSocket(s)
        PROVE  \E t \in Session : ~Gone(t)'
    BY <1>8 DEF RemoveSocket
  <1>9. ASSUME NEW s \in Session, Finish(s)
        PROVE  \E t \in Session : ~Gone(t)'
    <2>1. event[s] \in {"output", "end", "detach"}
      BY <1>9 DEF Finish, ControlInv
    <2>2. /\ UNCHANGED <<cfg, event, readers, socket>>
          /\ pc' = [pc EXCEPT ![s] = "drain"] \/ \E r : Return(s, r)
      BY <1>9, <2>1 DEF Finish, Goto
    <2>3. \A t \in Session : Gone(t)' <=> Gone(t)
      BY <1>9, <2>2 DEF Finish, Gone, Return, Goto
    <2> QED
      BY <2>2, <2>3 DEF SocketInv
  <1>10. ASSUME NEW s \in Session, Drain(s)
         PROVE  \E t \in Session : ~Gone(t)'
    <2>1. \A t \in Session : Gone(t)' <=> Gone(t)
      BY <1>10 DEF Drain, Gone, Return, Goto
    <2> QED
      BY <1>10, <2>1 DEF Drain, SocketInv
  <1>11. ASSUME NEW s \in Session, \/ HandlePacket(s) \/ HandlePacketFails(s) \/ ReadEof(s)
                                   \/ ReadClosed(s) \/ Accept(s) \/ Lag(s) \/ CopyClosed(s)
                                   \/ \E err \in {"end", "detach"} : CopyEnds(s, err)
                                   \/ ShutdownClose(s)
         PROVE  \E t \in Session : ~Gone(t)'
    BY <1>0, <1>11 DEF HandlePacket, HandlePacketFails, ReadEof, ReadClosed, Accept, Lag,
                       CopyClosed, CopyEnds, ShutdownClose
  <1>12. ASSUME NEW p \in Pipe, Emit(p) \/ EmitDone(p)
         PROVE  \E t \in Session : ~Gone(t)'
    BY <1>0, <1>12 DEF Emit, EmitDone
  <1>13. ASSUME ServerExit \/ Shutdown \/ ShutdownRange \/ ShutdownRemove \/ ShutdownKill
         PROVE  \E t \in Session : ~Gone(t)'
    BY <1>0, <1>13 DEF ServerExit, Shutdown, ShutdownRange, ShutdownRemove, ShutdownKill
  <1>14. CASE UNCHANGED vars
    BY <1>0, <1>14 DEF vars
  <1> QED
    BY <1>1, <1>2, <1>3, <1>4, <1>5, <1>6, <1>7, <1>8, <1>9, <1>10, <1>11, <1>12, <1>13, <1>14
    DEF Next, MainStep, OutputStep, ShutdownStep

-----------------------------------------------------------------------------
(* The invariants of what the server sent and of what was written of it. *)

\* The server numbers what it sends, and sends nothing after Done.
LEMMA SentStep == Inv /\ [Next]_vars => SentInv'
  <1> SUFFICES ASSUME TypeOK, SentInv, [Next]_vars PROVE SentInv'
    BY DEF Inv
  <1> USE AttachClientAssumption DEF TypeOK, main, stdins, outputs, serving, stopping
  <1>0. ASSUME UNCHANGED <<sent, emitted>>, \A t \in Session : ended[t] => ended'[t]
        PROVE  SentInv'
    BY <1>0 DEF SentInv
  <1>1. ASSUME NEW p \in Pipe, Emit(p)
        PROVE  SentInv'
    <2> DEFINE packet == [pipe |-> p, n |-> emitted + 1]
    <2>1. packet \in Packet /\ packet # Done /\ packet.n = emitted + 1
      BY <1>1 DEF Emit, Packet, Done, Pipe
    <2>2. emitted' = emitted + 1 /\ ended' = ended
      BY <1>1 DEF Emit
    <2>3. ASSUME NEW t \in Session
          PROVE  \/ sent'[t] = sent[t]
                 \/ sent'[t] = Append(sent[t], packet) /\ ~ended[t]
      BY <1>1 DEF Emit, Send, Subscribed
    <2> HIDE DEF packet
    <2>4. ASSUME NEW t \in Session, NEW i \in 1..Len(sent[t])
          PROVE  sent[t][i] \in Packet /\ sent[t][i].n \in Nat
      BY DEF Packet, Done
    <2>5. ASSUME NEW t \in Session, sent'[t] = sent[t], NEW i \in 1..Len(sent'[t])
          PROVE  /\ sent'[t][i].n <= emitted'
                 /\ sent'[t][i] = Done => i = Len(sent'[t]) /\ ended'[t]
                 /\ \A j \in 1..Len(sent'[t]) :
                       i < j /\ sent'[t][j] # Done => sent'[t][i].n < sent'[t][j].n
      BY <2>2, <2>4, <2>5 DEF SentInv
    <2>6. ASSUME NEW t \in Session, sent'[t] = Append(sent[t], packet), ~ended[t],
                 NEW i \in 1..Len(sent'[t])
          PROVE  /\ sent'[t][i].n <= emitted'
                 /\ sent'[t][i] = Done => i = Len(sent'[t]) /\ ended'[t]
                 /\ \A j \in 1..Len(sent'[t]) :
                       i < j /\ sent'[t][j] # Done => sent'[t][i].n < sent'[t][j].n
      <3>1. Len(sent'[t]) = Len(sent[t]) + 1
        BY <2>1, <2>6
      <3>2. \A k \in 1..Len(sent[t]) : sent'[t][k] = sent[t][k]
        BY <2>1, <2>6
      <3>3. sent'[t][Len(sent[t]) + 1] = packet
        BY <2>1, <2>6
      <3>4. CASE i = Len(sent[t]) + 1
        BY <2>1, <2>2, <3>1, <3>3, <3>4
      <3>5. CASE i \in 1..Len(sent[t])
        <4>1. sent'[t][i].n <= emitted /\ sent'[t][i] # Done /\ sent'[t][i].n \in Nat
          BY <2>4, <2>6, <3>2, <3>5 DEF SentInv
        <4>2. ASSUME NEW j \in 1..Len(sent[t]), i < j, sent'[t][j] # Done
              PROVE  sent'[t][i].n < sent'[t][j].n
          BY <3>2, <3>5, <4>2 DEF SentInv
        <4>3. sent'[t][i].n < sent'[t][Len(sent[t]) + 1].n
          BY <2>1, <3>3, <4>1
        <4> QED
          BY <2>2, <3>1, <4>1, <4>2, <4>3
      <3> QED
        BY <3>1, <3>4, <3>5
    <2> QED
      BY <2>3, <2>5, <2>6 DEF SentInv
  <1>2. ASSUME NEW p \in Pipe, EmitDone(p)
        PROVE  SentInv'
    <2>1. Done \in Packet /\ Done.n = 0
      BY DEF Packet, Done
    <2>2. emitted' = emitted
      BY <1>2 DEF EmitDone
    <2>3. ASSUME NEW t \in Session
          PROVE  /\ ended[t] => ended'[t]
                 /\ \/ sent'[t] = sent[t]
                    \/ sent'[t] = Append(sent[t], Done) /\ ~ended[t] /\ ended'[t]
      BY <1>2 DEF EmitDone, Send, Subscribed
    <2>4. ASSUME NEW t \in Session, sent'[t] = sent[t], NEW i \in 1..Len(sent'[t])
          PROVE  /\ sent'[t][i].n <= emitted'
                 /\ sent'[t][i] = Done => i = Len(sent'[t]) /\ ended'[t]
                 /\ \A j \in 1..Len(sent'[t]) :
                       i < j /\ sent'[t][j] # Done => sent'[t][i].n < sent'[t][j].n
      BY <2>2, <2>3, <2>4 DEF SentInv
    <2>5. ASSUME NEW t \in Session, sent'[t] = Append(sent[t], Done), ~ended[t], ended'[t],
                 NEW i \in 1..Len(sent'[t])
          PROVE  /\ sent'[t][i].n <= emitted'
                 /\ sent'[t][i] = Done => i = Len(sent'[t]) /\ ended'[t]
                 /\ \A j \in 1..Len(sent'[t]) :
                       i < j /\ sent'[t][j] # Done => sent'[t][i].n < sent'[t][j].n
      <3>1. Len(sent'[t]) = Len(sent[t]) + 1
        BY <2>1, <2>5
      <3>2. \A k \in 1..Len(sent[t]) : sent'[t][k] = sent[t][k]
        BY <2>1, <2>5
      <3>3. sent'[t][Len(sent[t]) + 1] = Done
        BY <2>1, <2>5
      <3>4. CASE i = Len(sent[t]) + 1
        BY <2>1, <2>2, <2>5, <3>1, <3>3, <3>4
      <3>5. CASE i \in 1..Len(sent[t])
        <4>1. sent'[t][i].n <= emitted /\ sent'[t][i] # Done
          BY <2>5, <3>2, <3>5 DEF SentInv
        <4>2. ASSUME NEW j \in 1..Len(sent[t]), i < j, sent'[t][j] # Done
              PROVE  sent'[t][i].n < sent'[t][j].n
          BY <3>2, <3>5, <4>2 DEF SentInv
        <4> QED
          BY <2>2, <3>1, <3>3, <4>1, <4>2
      <3> QED
        BY <3>1, <3>4, <3>5
    <2> QED
      BY <2>3, <2>4, <2>5 DEF SentInv
  <1>3. ASSUME NEW s \in Session, \/ AttachContainer(s) \/ AttachContainerFails(s) \/ MainStep(s)
                                  \/ OutputStep(s) \/ CopyClosed(s) \/ Accept(s)
                                  \/ \E err \in {"end", "detach"} : CopyEnds(s, err)
        PROVE  SentInv'
    <2>1. UNCHANGED <<sent, emitted, ended>>
      BY <1>3 DEF AttachContainer, AttachContainerFails, MainStep, Dial, AttachFuncFails,
                  SetupStdioChannels, PassThrough, PostAttachFunc, SelectOutput, SelectStdin,
                  TakeReader, RangeReaders, RemoveSocket, Finish, Drain, OutputStep,
                  HandlePacket, HandlePacketFails, ReadEof, ReadClosed, CopyClosed, CopyEnds,
                  Accept
    <2> QED
      BY <1>0, <2>1
  <1>4. ASSUME NEW s \in Session, Lag(s)
        PROVE  SentInv'
    BY <1>0, <1>4 DEF Lag
  <1>5. ASSUME ServerExit \/ Shutdown \/ ShutdownStep
        PROVE  SentInv'
    BY <1>0, <1>5 DEF ServerExit, Shutdown, ShutdownStep, ShutdownClose, ShutdownRange,
                      ShutdownRemove, ShutdownKill
  <1>6. CASE UNCHANGED vars
    BY <1>0, <1>6 DEF vars
  <1> QED
    BY <1>1, <1>2, <1>3, <1>4, <1>5, <1>6 DEF Next

\* It depends on what was read only.
LEMMA WroteAllKept ==
    ASSUME NEW t \in Session, WroteAll(t), cfg'[t] = cfg[t], written'[t] = written[t],
           got'[t] = got[t], \A k \in 1..got[t] : sent'[t][k] = sent[t][k]
    PROVE  WroteAll(t)'
  <1>1. \A i \in 1..Len(written'[t]) : \E k \in 1..got'[t] : written'[t][i] = sent'[t][k]
    <2> TAKE i \in 1..Len(written'[t])
    <2>1. PICK k \in 1..got[t] : written[t][i] = sent[t][k]
      BY DEF WroteAll
    <2> WITNESS k \in 1..got'[t]
    <2> QED
      BY <2>1
  <1>2. \A i \in 1..Len(written'[t]) : written'[t][i].pipe \in cfg'[t].streams
    BY DEF WroteAll
  <1>3. \A k \in 1..got'[t] : sent'[t][k].pipe \in cfg'[t].streams =>
           \E i \in 1..Len(written'[t]) : written'[t][i] = sent'[t][k]
    BY Zenon DEF WroteAll
  <1>4. \A i, j \in 1..Len(written'[t]) : i < j => written'[t][i].n < written'[t][j].n
    BY Zenon DEF WroteAll
  <1> QED
    BY <1>1, <1>2, <1>3, <1>4 DEF WroteAll

\* What the goroutine of the output reads and wants it writes behind the rest.
LEMMA WrittenStep == Inv /\ [Next]_vars => WrittenInv'
  <1> SUFFICES ASSUME TypeOK, SentInv, WrittenInv, OutputInv, [Next]_vars PROVE WrittenInv'
    BY DEF Inv
  <1> USE AttachClientAssumption DEF TypeOK, main, stdins, outputs, serving, stopping
  <1> DEFINE W(t) == outErr[t] # "error" => WroteAll(t)
  <1>0. \A t \in Session : W(t)
    BY DEF WrittenInv
  <1>1. ASSUME \A t \in Session : W(t)'
        PROVE  WrittenInv'
    BY <1>1 DEF WrittenInv
  <1>2. ASSUME NEW t \in Session, outErr'[t] # "error" => outErr[t] # "error",
               cfg'[t] = cfg[t], written'[t] = written[t], got'[t] = got[t],
               \A k \in 1..got[t] : sent'[t][k] = sent[t][k]
        PROVE  W(t)'
    BY <1>0, <1>2, WroteAllKept
  <1>3. ASSUME UNCHANGED <<cfg, written, got, outErr>>,
               \A t \in Session : \A k \in 1..got[t] : sent'[t][k] = sent[t][k]
        PROVE  \A t \in Session : W(t)'
    BY <1>2, <1>3
  <1> HIDE DEF W
  <1>11. ASSUME UNCHANGED <<cfg, written, got, outErr, sent>>
         PROVE  \A t \in Session : W(t)'
    BY <1>2, <1>11
  <1>4. ASSUME NEW p \in Pipe, Emit(p) \/ EmitDone(p)
        PROVE  \A t \in Session : W(t)'
    <2>1. \E packet \in Packet : Send(packet)
      <3>1. CASE Emit(p)
        <4>1. [pipe |-> p, n |-> emitted + 1] \in Packet
          BY <3>1 DEF Emit, Packet
        <4> QED
          BY <3>1, <4>1 DEF Emit
      <3>2. CASE EmitDone(p)
        BY <3>2 DEF EmitDone, Packet
      <3> QED
        BY <1>4, <3>1, <3>2
    <2>2. \A t \in Session : \A k \in 1..got[t] : sent'[t][k] = sent[t][k]
      BY <2>1 DEF Send
    <2> QED
      BY <1>3, <1>4, <2>2 DEF Emit, EmitDone
  <1>5. ASSUME NEW s \in Session, HandlePacket(s)
        PROVE  \A t \in Session : W(t)'
    <2>1. ASSUME NEW t \in Session, t # s
          PROVE  W(t)'
      <3>1. /\ cfg'[t] = cfg[t] /\ written'[t] = written[t] /\ got'[t] = got[t]
            /\ outErr'[t] = outErr[t] /\ sent' = sent
        BY <1>5, <2>1 DEF HandlePacket, OutputEnds
      <3> QED
        BY <1>2, <3>1
    <2>2. outErr[s] # "error"
      BY <1>5 DEF HandlePacket, OutputInv
    <2> SUFFICES ASSUME NEW packet, packet = sent[s][got[s] + 1]
                 PROVE  W(s)'
      BY <2>1
    <2>3. got[s] + 1 \in 1..Len(sent[s]) /\ packet \in Packet
      BY <1>5 DEF HandlePacket
    <2>4. sent' = sent /\ cfg' = cfg /\ got'[s] = got[s] + 1
      BY <1>5 DEF HandlePacket
    <2>5. /\ \A i \in 1..Len(written[s]) : \E k \in 1..got[s] : written[s][i] = sent[s][k]
          /\ \A i \in 1..Len(written[s]) : written[s][i].pipe \in cfg[s].streams
          /\ \A k \in 1..got[s] : sent[s][k].pipe \in cfg[s].streams =>
                \E i \in 1..Len(written[s]) : written[s][i] = sent[s][k]
          /\ \A i, j \in 1..Len(written[s]) : i < j => written[s][i].n < written[s][j].n
      BY <1>0, <2>2 DEF W, WroteAll
    <2>6. CASE packet.pipe \notin cfg[s].streams
      <3>1. written'[s] = written[s]
        BY <1>5, <2>6 DEF HandlePacket
      <3>2. \A k \in 1..got'[s] : k \in 1..got[s] \/ k = got[s] + 1
        BY <2>4
      <3> QED
        BY <2>4, <2>5, <2>6, <3>1, <3>2 DEF W, WroteAll
    <2>7. CASE packet.pipe \in cfg[s].streams
      <3>1. written'[s] = Append(written[s], packet)
        BY <1>5, <2>7 DEF HandlePacket
      <3>2. Len(written'[s]) = Len(written[s]) + 1
        BY <2>3, <3>1
      <3>3. \A i \in 1..Len(written[s]) : written'[s][i] = written[s][i]
        BY <2>3, <3>1
      <3>4. written'[s][Len(written[s]) + 1] = packet
        BY <2>3, <3>1
      <3>5. \A i \in 1..Len(written'[s]) : i \in 1..Len(written[s]) \/ i = Len(written[s]) + 1
        BY <3>2
      <3>6. \A k \in 1..got'[s] : k \in 1..got[s] \/ k = got[s] + 1
        BY <2>4
      <3>7. packet # Done
        <4>1. cfg[s].streams \subseteq Pipe
          OBVIOUS
        <4>2. Done.pipe \notin Pipe
          BY DEF Pipe, Done
        <4> QED
          BY <2>7, <4>1, <4>2
      <3>8. \A i \in 1..Len(written[s]) : written[s][i].n < packet.n
        <4> TAKE i \in 1..Len(written[s])
        <4>1. PICK k \in 1..got[s] : written[s][i] = sent[s][k]
          BY <2>5
        <4>2. k \in 1..Len(sent[s]) /\ k < got[s] + 1
          BY <2>3
        <4>3. sent[s][k].n < sent[s][got[s] + 1].n
          BY <2>3, <3>7, <4>2 DEF SentInv
        <4> QED
          BY <4>1, <4>3
      <3>9. \A i \in 1..Len(written'[s]) : \E k \in 1..got'[s] : written'[s][i] = sent'[s][k]
        <4> TAKE i \in 1..Len(written'[s])
        <4>1. CASE i = Len(written[s]) + 1
          <5>1. got[s] + 1 \in 1..got'[s]
            BY <2>4
          <5> QED
            BY <2>4, <3>4, <4>1, <5>1
        <4>2. CASE i \in 1..Len(written[s])
          <5>1. PICK k \in 1..got[s] : written[s][i] = sent[s][k]
            BY <2>5, <4>2
          <5>2. k \in 1..got'[s]
            BY <2>4
          <5> QED
            BY <2>4, <3>3, <4>2, <5>1, <5>2
        <4> QED
          BY <3>5, <4>1, <4>2
      <3>10. \A i \in 1..Len(written'[s]) : written'[s][i].pipe \in cfg'[s].streams
        BY <2>4, <2>5, <2>7, <3>3, <3>4, <3>5
      <3>11. \A k \in 1..got'[s] : sent'[s][k].pipe \in cfg'[s].streams =>
                \E i \in 1..Len(written'[s]) : written'[s][i] = sent'[s][k]
        <4> TAKE k \in 1..got'[s]
        <4> HAVE sent'[s][k].pipe \in cfg'[s].streams
        <4>1. CASE k = got[s] + 1
          BY <2>4, <3>2, <3>4, <4>1
        <4>2. CASE k \in 1..got[s]
          <5>1. PICK i \in 1..Len(written[s]) : written[s][i] = sent[s][k]
            BY <2>4, <2>5, <4>2
          <5> QED
            BY <2>4, <3>2, <3>3, <5>1
        <4> QED
          BY <3>6, <4>1, <4>2
      <3>12. \A i, j \in 1..Len(written'[s]) : i < j => written'[s][i].n < written'[s][j].n
        <4> SUFFICES ASSUME NEW i \in 1..Len(written'[s]), NEW j \in 1..Len(written'[s]), i < j
                     PROVE  written'[s][i].n < written'[s][j].n
          OBVIOUS
        <4>1. i \in 1..Len(written[s])
          BY <3>2
        <4>2. CASE j \in 1..Len(written[s])
          BY <2>5, <3>3, <4>1, <4>2
        <4>3. CASE j = Len(written[s]) + 1
          BY <3>3, <3>4, <3>8, <4>1, <4>3
        <4> QED
          BY <3>5, <4>2, <4>3
      <3> QED
        BY <3>9, <3>10, <3>11, <3>12 DEF W, WroteAll
    <2> QED
      BY <2>6, <2>7
  <1>6. ASSUME NEW s \in Session, HandlePacketFails(s)
        PROVE  \A t \in Session : W(t)'
    <2>1. W(s)'
      BY <1>6 DEF HandlePacketFails, OutputEnds, W
    <2>2. ASSUME NEW t \in Session, t # s
          PROVE  W(t)'
      <3>1. /\ cfg'[t] = cfg[t] /\ written'[t] = written[t] /\ got'[t] = got[t]
            /\ outErr'[t] = outErr[t] /\ sent' = sent
        BY <1>6, <2>2 DEF HandlePacketFails, OutputEnds
      <3> QED
        BY <1>2, <3>1
    <2> QED
      BY <2>1, <2>2
  <1>7. ASSUME NEW s \in Session, ReadEof(s) \/ ReadClosed(s)
        PROVE  \A t \in Session : W(t)'
    <2>1. outErr[s] # "error"
      BY <1>7 DEF ReadEof, ReadClosed, OutputInv
    <2>2. ASSUME NEW t \in Session
          PROVE  outErr'[t] # "error" => outErr[t] # "error"
      BY <1>7, <2>1 DEF ReadEof, ReadClosed, OutputEnds
    <2>3. UNCHANGED <<cfg, written, got, sent>>
      BY <1>7 DEF ReadEof, ReadClosed
    <2> QED
      BY <1>2, <2>2, <2>3
  <1>8. ASSUME NEW s \in Session, \/ AttachContainer(s) \/ AttachContainerFails(s) \/ MainStep(s)
                                  \/ CopyClosed(s) \/ Accept(s) \/ Lag(s)
                                  \/ \E err \in {"end", "detach"} : CopyEnds(s, err)
        PROVE  \A t \in Session : W(t)'
    <2>1. UNCHANGED <<cfg, written, got, outErr, sent>>
      BY <1>8 DEF AttachContainer, AttachContainerFails, MainStep, Dial, AttachFuncFails,
                  SetupStdioChannels, PassThrough, PostAttachFunc, SelectOutput, SelectStdin,
                  TakeReader, RangeReaders, RemoveSocket, Finish, Drain, CopyClosed, CopyEnds,
                  Accept, Lag
    <2> QED
      BY <1>11, <2>1
  <1>9. ASSUME ServerExit \/ Shutdown \/ ShutdownStep
        PROVE  \A t \in Session : W(t)'
    <2>1. UNCHANGED <<cfg, written, got, outErr, sent>>
      BY <1>9 DEF ServerExit, Shutdown, ShutdownStep, ShutdownClose, ShutdownRange,
                  ShutdownRemove, ShutdownKill
    <2> QED
      BY <1>11, <2>1
  <1>10. CASE UNCHANGED vars
    <2>1. UNCHANGED <<cfg, written, got, outErr, sent>>
      BY <1>10 DEF vars
    <2> QED
      BY <1>1, <1>11, <2>1
  <1> QED
    BY <1>1, <1>4, <1>5, <1>6, <1>7, <1>8, <1>9, <1>10 DEF Next, OutputStep

\* The goroutine of the output ends well at the end of what will ever be sent,
\* and the success of a session is its success.
LEMMA OutputStepInv == Inv /\ [Next]_vars => OutputInv'
  <1> SUFFICES ASSUME TypeOK, ControlInv, SentInv, OutputInv, [Next]_vars PROVE OutputInv'
    BY DEF Inv
  <1> USE AttachClientAssumption DEF TypeOK, main, stdins, outputs, serving, stopping
  <1>1. ASSUME NEW s \in Session, \/ AttachContainer(s) \/ AttachContainerFails(s) \/ Dial(s)
                                  \/ AttachFuncFails(s) \/ PassThrough(s) \/ PostAttachFunc(s)
                                  \/ RangeReaders(s) \/ RemoveSocket(s) \/ TakeReader(s)
        PROVE  OutputInv'
    BY <1>1 DEF OutputInv, ControlInv, OnePacketOnly, AttachContainer, AttachContainerFails, Dial,
                AttachFuncFails, PassThrough, PostAttachFunc, RangeReaders, RemoveSocket,
                TakeReader, Return, Goto
  <1>2. ASSUME NEW s \in Session, SetupStdioChannels(s)
        PROVE  OutputInv'
    BY <1>2 DEF OutputInv, ControlInv, OnePacketOnly, SetupStdioChannels, Goto
  <1>3. ASSUME NEW s \in Session, SelectOutput(s)
        PROVE  OutputInv'
    BY <1>3 DEF OutputInv, ControlInv, OnePacketOnly, SelectOutput, Goto
  <1>4. ASSUME NEW s \in Session, SelectStdin(s)
        PROVE  OutputInv'
    <2>1. event'[s] # "output" /\ \A t \in Session \ {s} : event'[t] = event[t]
      BY <1>4 DEF SelectStdin
    <2>2. \/ result' = result
          \/ cfg[s].stopAfterStdinEOF /\ \A t \in Session \ {s} : result'[t] = result[t]
      BY <1>4 DEF SelectStdin, Return
    <2>3. pc'[s] \in {"take", "returned"} /\ \A t \in Session \ {s} : pc'[t] = pc[t]
      BY <1>4 DEF SelectStdin, Return, Goto
    <2>4. UNCHANGED <<cfg, outGo, outErr, sent, got, ended, server>>
      BY <1>4 DEF SelectStdin
    <2> QED
      BY <2>1, <2>2, <2>3, <2>4 DEF OutputInv, OnePacketOnly
  <1>5. ASSUME NEW s \in Session, Finish(s)
        PROVE  OutputInv'
    <2>1. event[s] \in {"output", "end", "detach"}
      BY <1>5 DEF Finish, ControlInv
    <2>2. CASE event[s] = "output"
      <3>1. Return(s, outErr[s])
        BY <1>5, <2>2 DEF Finish
      <3> QED
        BY <1>5, <3>1 DEF OutputInv, OnePacketOnly, Finish, Return, Goto
    <2>3. CASE event[s] = "detach"
      <3>1. Return(s, "detach")
        BY <1>5, <2>3 DEF Finish
      <3> QED
        BY <1>5, <3>1 DEF OutputInv, OnePacketOnly, Finish, Return, Goto
    <2>4. CASE event[s] = "end" /\ cfg[s].streams = {}
      <3>1. Return(s, "ok")
        BY <1>5, <2>4 DEF Finish
      <3> QED
        BY <1>5, <2>4, <3>1 DEF OutputInv, OnePacketOnly, Finish, Return, Goto
    <2>5. CASE event[s] = "end" /\ cfg[s].streams # {}
      <3>1. Goto(s, "drain") /\ UNCHANGED <<result, conn>>
        BY <1>5, <2>5 DEF Finish
      <3> QED
        BY <1>5, <3>1 DEF OutputInv, OnePacketOnly, Finish, Goto
    <2> QED
      BY <2>1, <2>2, <2>3, <2>4, <2>5
  <1>6. ASSUME NEW s \in Session, Drain(s)
        PROVE  OutputInv'
    BY <1>6 DEF OutputInv, ControlInv, OnePacketOnly, Drain, Return, Goto
  <1>7. ASSUME NEW s \in Session, HandlePacket(s)
        PROVE  OutputInv'
    <2> SUFFICES ASSUME NEW packet, packet = sent[s][got[s] + 1]
                 PROVE  OutputInv'
      OBVIOUS
    <2>0. outErr[s] = None
      BY <1>7 DEF HandlePacket, OutputInv
    <2>1. CASE packet = Done \/ OnePacketOnly(s)
      <3>1. OutputEnds(s, "ok")
        BY <1>7, <2>1 DEF HandlePacket
      <3>2. packet = Done => got[s] + 1 = Len(sent[s]) /\ ended[s]
        <4>1. got[s] + 1 \in 1..Len(sent[s])
          BY <1>7 DEF HandlePacket
        <4> QED
          BY <4>1 DEF SentInv
      <3> QED
        BY <1>7, <2>0, <2>1, <3>1, <3>2 DEF HandlePacket, OutputEnds, OnePacketOnly, OutputInv
    <2>2. CASE ~(packet = Done \/ OnePacketOnly(s))
      <3>1. UNCHANGED <<outGo, outErr, outShut>>
        BY <1>7, <2>2 DEF HandlePacket
      <3> QED
        BY <1>7, <2>0, <3>1 DEF HandlePacket, OnePacketOnly, OutputInv
    <2> QED
      BY <2>1, <2>2
  <1>8. ASSUME NEW s \in Session, HandlePacketFails(s)
        PROVE  OutputInv'
    BY <1>8 DEF OutputInv, OnePacketOnly, HandlePacketFails, OutputEnds
  <1>9. ASSUME NEW s \in Session, ReadEof(s)
        PROVE  OutputInv'
    BY <1>9 DEF OutputInv, OnePacketOnly, ReadEof, EndOfStream, OutputEnds
  <1>10. ASSUME NEW s \in Session, ReadClosed(s)
         PROVE  OutputInv'
    BY <1>10 DEF OutputInv, OnePacketOnly, ReadClosed, OutputEnds
  <1>11. ASSUME NEW s \in Session, \/ CopyClosed(s) \/ Accept(s) \/ Lag(s) \/ ShutdownClose(s)
                                   \/ \E err \in {"end", "detach"} : CopyEnds(s, err)
         PROVE  OutputInv'
    <2>1. UNCHANGED <<cfg, pc, event, result, outGo, outErr, sent, got, server>>
      BY <1>11 DEF CopyClosed, Accept, Lag, ShutdownClose, CopyEnds
    <2>2. \A t \in Session : ended[t] => ended'[t]
      BY <1>11 DEF CopyClosed, Accept, Lag, ShutdownClose, CopyEnds
    <2> QED
      BY <2>1, <2>2 DEF OutputInv, OnePacketOnly
  <1>12. ASSUME NEW p \in Pipe, Emit(p) \/ EmitDone(p)
         PROVE  OutputInv'
    <2>1. \A t \in Session : ended[t] => sent'[t] = sent[t] /\ ended'[t]
      BY <1>12 DEF Emit, EmitDone, Send, Subscribed
    <2>2. server /\ UNCHANGED <<cfg, pc, event, result, outGo, outErr, got, server>>
      BY <1>12 DEF Emit, EmitDone
    <2> QED
      BY <2>1, <2>2 DEF OutputInv, OnePacketOnly
  <1>13. ASSUME ServerExit \/ Shutdown \/ ShutdownRange \/ ShutdownRemove \/ ShutdownKill
         PROVE  OutputInv'
    BY <1>13 DEF OutputInv, OnePacketOnly, ServerExit, Shutdown, ShutdownRange, ShutdownRemove,
                 ShutdownKill
  <1>14. CASE UNCHANGED vars
    BY <1>14 DEF OutputInv, OnePacketOnly, vars
  <1> QED
    BY <1>1, <1>2, <1>3, <1>4, <1>5, <1>6, <1>7, <1>8, <1>9, <1>10, <1>11, <1>12, <1>13, <1>14
    DEF Next, MainStep, OutputStep, ShutdownStep

-----------------------------------------------------------------------------

\* The invariant holds in every reachable state.
LEMMA Invariance == Spec => []Inv
  <1>1. Inv /\ [Next]_vars => Inv'
    BY TypeStep, ControlStep, ReaderStep, SocketStep, SentStep, WrittenStep, OutputStepInv
    DEF Inv
  <1> QED
    BY <1>1, InitInv, PTL DEF Spec

\* Every variable of the attach sessions keeps its type, the bounds of the
\* channels and of the packets on their way included.
THEOREM TypeCorrect == Spec => []TypeOK
  BY Invariance, PTL DEF Inv

\* A session that reports success has written all that the server sent to it
\* for the streams it has, each packet once and in order, for any number of
\* sessions and any amount of output (redirectResponseToOutputStreams).
THEOREM OutputCompleteCorrect == Spec => []OutputComplete
  <1>1. Inv => OutputComplete
    <2> SUFFICES ASSUME Inv, NEW s \in Session,
                        result[s] = "ok", ~cfg[s].passthrough, cfg[s].streams # {},
                        ~cfg[s].stopAfterStdinEOF, ~cfg[s].containerStdin
                 PROVE  /\ {written[s][i] : i \in 1..Len(written[s])} = Wanted(s)
                        /\ \A i, j \in 1..Len(written[s]) :
                              i < j => written[s][i].n < written[s][j].n
      BY DEF OutputComplete
    <2>1. outErr[s] = "ok" /\ got[s] = Len(sent[s])
      BY DEF Inv, OutputInv, OnePacketOnly
    <2>2. WroteAll(s)
      BY <2>1 DEF Inv, WrittenInv
    <2>3. ASSUME NEW i \in 1..Len(written[s])
          PROVE  written[s][i] \in Wanted(s)
      BY <2>1, <2>2 DEF WroteAll, Wanted
    <2>4. ASSUME NEW packet \in Wanted(s)
          PROVE  packet \in {written[s][i] : i \in 1..Len(written[s])}
      <3>1. PICK k \in 1..got[s] : packet = sent[s][k] /\ sent[s][k].pipe \in cfg[s].streams
        BY <2>1 DEF Wanted
      <3>2. \E i \in 1..Len(written[s]) : written[s][i] = sent[s][k]
        BY <2>2, <3>1 DEF WroteAll
      <3> QED
        BY <3>1, <3>2
    <2> QED
      BY <2>2, <2>3, <2>4 DEF WroteAll
  <1> QED
    BY <1>1, Invariance, PTL

\* When all sessions with a stdin have released their readers, the socket is
\* gone: however their ends overlap, one of them found the map empty
\* (tryCloseAttachReaderForID and closeAttachReader).
THEOREM SocketRemovedCorrect == Spec => []SocketRemoved
  <1>1. Inv => SocketRemoved
    BY DEF Inv, SocketInv, Gone, SocketRemoved
  <1> QED
    BY <1>1, Invariance, PTL

=============================================================================
