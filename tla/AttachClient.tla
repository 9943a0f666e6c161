---------------------------- MODULE AttachClient ----------------------------
(***************************************************************************)
(* AttachContainer of the Go client (pkg/client/attach.go), for sessions   *)
(* of one client that attach to one container over one socket path, with   *)
(* Shutdown of that client running beside them.                            *)
(*                                                                         *)
(* A session has three goroutines: the caller's, which ends in the select  *)
(* of readStdio, one that copies packets to the output streams, and one    *)
(* that copies stdin.  The latter two report over unbuffered channels.     *)
(* The sessions share the attachReaders map and the socket file, which the *)
(* session that finds the map empty removes and the server creates again   *)
(* for the next request (Attach::create and write_loop of attach.rs).      *)
(***************************************************************************)
EXTENDS Naturals, Sequences, FiniteSets

CONSTANTS
    Session,     \* calls of AttachContainer
    Config,      \* the AttachConfigs they may be called with
    MaxPackets,  \* bound: data packets the container's output makes
    Reading,     \* calls whose output streams take what is written to them
    None

Pipe == {"stdout", "stderr"}

ASSUME AttachClientAssumption ==
    /\ Config \subseteq [stdin : BOOLEAN, streams : SUBSET Pipe, stopAfterStdinEOF : BOOLEAN,
                         containerStdin : BOOLEAN, passthrough : BOOLEAN]
    /\ MaxPackets \in Nat /\ Reading \subseteq Session
    /\ None \notin {"output", "end", "detach", "error", "ok"}

\* A packet is data of a pipe, or attachPipeDone.
Done == [pipe |-> "done", n |-> 0]
Packet == [pipe : Pipe, n : 1..MaxPackets] \cup {Done}

VARIABLES
    cfg,        \* the AttachConfig of a session
    pc,         \* where the caller's goroutine is
    event,      \* what its select received first
    result,     \* what AttachContainer returned
    readers,    \* attachReaders: the sessions that are keys of it
    stdinGo,    \* the goroutine that copies stdin
    stdinErr,   \* ... and what it reports: the end of stdin or an error, or ErrDetach
    stdinShut,  \* Streams.Stdin is closed
    outGo,      \* the goroutine that copies the output
    outErr,     \* ... and the error it reports
    outShut,    \* Streams.Stdout and Stderr are closed
    written,    \* what was written to them
    socket,     \* the attach socket's path exists
    server,     \* the server runs
    conn,       \* a session's connection
    sent,       \* packets the server's write loop sent over it
    got,        \* ... and how many of them were read
    ended,      \* that write loop has returned
    emitted,    \* data packets of the container so far
    finished,   \* pipes of the container that have ended
    shut,       \* where Shutdown is
    todo        \* the readers it has yet to close

main == <<cfg, pc, event, result>>
stdins == <<stdinGo, stdinErr, stdinShut>>
outputs == <<outGo, outErr, outShut, written>>
serving == <<sent, ended, emitted, finished>>
stopping == <<shut, todo>>
vars == <<main, readers, stdins, outputs, socket, server, conn, serving, got, stopping>>

TypeOK ==
    /\ cfg \in [Session -> Config]
    /\ pc \in [Session -> {"idle", "dial", "pre", "post", "select", "take", "range",
                           "remove", "finish", "drain", "returned"}]
    /\ event \in [Session -> {"output", "end", "detach", None}]
    /\ result \in [Session -> {"ok", "detach", "error", None}]
    /\ readers \subseteq {s \in Session : cfg[s].stdin}
    /\ stdinGo \in [Session -> {"none", "copying", "sending", "over"}]
    /\ stdinErr \in [Session -> {"end", "detach", None}]
    /\ stdinShut \in [Session -> BOOLEAN]
    /\ outGo \in [Session -> {"none", "reading", "sending", "over"}]
    /\ outErr \in [Session -> {"ok", "error", None}]
    /\ outShut \in [Session -> BOOLEAN]
    /\ written \in [Session -> Seq(Packet)]
    /\ {socket, server} \subseteq BOOLEAN
    /\ conn \in [Session -> {"none", "backlog", "accepted", "closed"}]
    /\ sent \in [Session -> Seq(Packet)]
    /\ got \in [Session -> Nat] /\ \A s \in Session : got[s] <= Len(sent[s])
    /\ ended \in [Session -> BOOLEAN]
    /\ emitted \in 0..MaxPackets
    /\ finished \subseteq Pipe
    /\ shut \in {"no", "ranging", "checking", "removing", "killed"}
    /\ todo \subseteq Session

Init ==
    /\ cfg \in [Session -> Config]
    /\ pc = [s \in Session |-> "idle"]
    /\ event = [s \in Session |-> None]
    /\ result = [s \in Session |-> None]
    /\ readers = {}
    /\ stdinGo = [s \in Session |-> "none"]
    /\ stdinErr = [s \in Session |-> None]
    /\ stdinShut = [s \in Session |-> FALSE]
    /\ outGo = [s \in Session |-> "none"]
    /\ outErr = [s \in Session |-> None]
    /\ outShut = [s \in Session |-> FALSE]
    /\ written = [s \in Session |-> <<>>]
    /\ socket = FALSE /\ server = TRUE
    /\ conn = [s \in Session |-> "none"]
    /\ sent = [s \in Session |-> <<>>]
    /\ got = [s \in Session |-> 0]
    /\ ended = [s \in Session |-> FALSE]
    /\ emitted = 0
    /\ finished = {}
    /\ shut = "no" /\ todo = {}

Goto(s, l) == pc' = [pc EXCEPT ![s] = l]

\* Faulty: the connection is not closed when the call returns.
ReturnOpen(s, r) ==
    /\ Goto(s, "returned")
    /\ result' = [result EXCEPT ![s] = r]
    /\ UNCHANGED conn

\* AttachContainer returns; the deferred Close ends the connection, if any.
Return(s, r) ==
    /\ Goto(s, "returned")
    /\ result' = [result EXCEPT ![s] = r]
    /\ conn' = [conn EXCEPT ![s] = "closed"]

-----------------------------------------------------------------------------
(* The server: Attach::create, start and write_loop of attach.rs. *)

\* start() accepts a connection and subscribes its write loop to the output.
Accept(s) ==
    /\ server /\ conn[s] = "backlog"
    /\ conn' = [conn EXCEPT ![s] = "accepted"]
    /\ UNCHANGED <<main, readers, stdins, outputs, socket, server, serving, got, stopping>>

Subscribed == {s \in Session : conn[s] = "accepted" /\ ~ended[s]}
Send(p) == sent' = [s \in Session |-> IF s \in Subscribed THEN Append(sent[s], p) ELSE sent[s]]

\* Nothing is sent while there is no receiver.
Emit(p) ==
    /\ server /\ p \notin finished /\ emitted < MaxPackets /\ Subscribed # {}
    /\ emitted' = emitted + 1
    /\ Send([pipe |-> p, n |-> emitted + 1])
    /\ UNCHANGED <<main, readers, stdins, outputs, socket, server, conn, got, ended,
                   finished, stopping>>

\* The first pipe that ends ends the write loops.
EmitDone(p) ==
    /\ server /\ p \notin finished
    /\ finished' = finished \cup {p}
    /\ Send(Done)
    /\ ended' = [s \in Session |-> ended[s] \/ s \in Subscribed]
    /\ UNCHANGED <<main, readers, stdins, outputs, socket, server, conn, got, emitted, stopping>>

\* A write loop that lags behind the channel ends without a word.
Lag(s) ==
    /\ server /\ s \in Subscribed
    /\ ended' = [ended EXCEPT ![s] = TRUE]
    /\ UNCHANGED <<main, readers, stdins, outputs, socket, server, conn, sent, emitted,
                   finished, got, stopping>>

\* The server exits or is killed; nobody removes the attach socket.
ServerExit ==
    /\ server
    /\ server' = FALSE
    /\ UNCHANGED <<main, readers, stdins, outputs, socket, conn, serving, got, stopping>>

-----------------------------------------------------------------------------
(* The caller's goroutine: AttachContainer, attach and readStdio. *)

\* The answer to the request: the server listens on the path, or takes a file
\* that exists there for a socket it listens on.
AttachContainer(s) ==
    /\ pc[s] = "idle" /\ server
    /\ socket' = TRUE
    /\ Goto(s, IF cfg[s].passthrough THEN "pre" ELSE "dial")
    /\ UNCHANGED <<cfg, event, result, readers, stdins, outputs, server, conn, serving, got,
                   stopping>>

\* No connection, or no such container.
AttachContainerFails(s) ==
    /\ pc[s] = "idle"
    /\ Return(s, "error")
    /\ UNCHANGED <<cfg, event, readers, stdins, outputs, socket, server, serving, got, stopping>>

\* DialLongSocket, which fails if the path is gone again or nobody listens.
Dial(s) ==
    /\ pc[s] = "dial"
    /\ IF socket /\ server
       THEN /\ conn' = [conn EXCEPT ![s] = "backlog"]
            /\ Goto(s, "pre")
            /\ UNCHANGED result
       ELSE Return(s, "error")
    /\ UNCHANGED <<cfg, event, readers, stdins, outputs, socket, server, serving, got, stopping>>

\* PreAttachFunc or PostAttachFunc returns an error.  After the latter the
\* reader stays in the map and its goroutine stays with it.
AttachFuncFails(s) ==
    /\ pc[s] \in {"pre", "post"}
    /\ Return(s, "error")
    /\ UNCHANGED <<cfg, event, readers, stdins, outputs, socket, server, serving, got, stopping>>

\* PreAttachFunc succeeds, and setupStdioChannels starts the goroutines.
SetupStdioChannels(s) ==
    /\ pc[s] = "pre" /\ ~cfg[s].passthrough
    /\ outGo' = [outGo EXCEPT ![s] = "reading"]
    /\ IF cfg[s].stdin
       THEN /\ readers' = readers \cup {s}
            /\ stdinGo' = [stdinGo EXCEPT ![s] = "copying"]
       ELSE UNCHANGED <<readers, stdinGo>>
    /\ Goto(s, "post")
    /\ UNCHANGED <<cfg, event, result, stdinErr, stdinShut, outErr, outShut, written, socket,
                   server, conn, serving, got, stopping>>

\* With Passthrough there is nothing to do after PreAttachFunc.
PassThrough(s) ==
    /\ pc[s] = "pre" /\ cfg[s].passthrough
    /\ Return(s, "ok")
    /\ UNCHANGED <<cfg, event, readers, stdins, outputs, socket, server, serving, got, stopping>>

PostAttachFunc(s) ==
    /\ pc[s] = "post"
    /\ Goto(s, "select")
    /\ UNCHANGED <<cfg, event, result, readers, stdins, outputs, socket, server, conn, serving,
                   got, stopping>>

\* readStdio receives from receiveStdoutError ...
SelectOutput(s) ==
    /\ pc[s] = "select" /\ outGo[s] = "sending"
    /\ outGo' = [outGo EXCEPT ![s] = "over"]
    /\ event' = [event EXCEPT ![s] = "output"]
    /\ Goto(s, "take")
    /\ UNCHANGED <<cfg, result, readers, stdins, outErr, outShut, written, socket, server, conn,
                   serving, got, stopping>>

\* ... or from stdinDone, when StopAfterStdinEOF returns at once.
SelectStdin(s) ==
    /\ pc[s] = "select" /\ stdinGo[s] = "sending"
    /\ stdinGo' = [stdinGo EXCEPT ![s] = "over"]
    /\ event' = [event EXCEPT ![s] = stdinErr[s]]
    /\ IF cfg[s].stopAfterStdinEOF
       THEN Return(s, "ok")
       ELSE Goto(s, "take") /\ UNCHANGED <<result, conn>>
    /\ UNCHANGED <<cfg, readers, stdinErr, stdinShut, outputs, socket, server, serving, got,
                   stopping>>

\* tryCloseAttachReaderForID: LoadAndDelete and, of closeAttachReader, close stdin ...
TakeReader(s) ==
    /\ pc[s] = "take"
    /\ readers' = readers \ {s}
    /\ stdinShut' = [stdinShut EXCEPT ![s] = @ \/ s \in readers]
    /\ Goto(s, IF s \in readers THEN "range" ELSE "finish")
    /\ UNCHANGED <<cfg, event, result, stdinGo, stdinErr, outputs, socket, server, conn, serving,
                   got, stopping>>

\* Faulty: connections are counted, the session's own among them.
SocketPathConnected == \E s \in Session : conn[s] \in {"backlog", "accepted"}

SocketPathInUse == readers # {}

\* ... look for other readers of the path ...
RangeReaders(s) ==
    /\ pc[s] = "range"
    /\ Goto(s, IF SocketPathInUse THEN "finish" ELSE "remove")
    /\ UNCHANGED <<cfg, event, result, readers, stdins, outputs, socket, server, conn, serving,
                   got, stopping>>

\* ... and remove it.
RemoveSocket(s) ==
    /\ pc[s] = "remove"
    /\ socket' = FALSE
    /\ Goto(s, "finish")
    /\ UNCHANGED <<cfg, event, result, readers, stdins, outputs, server, conn, serving, got,
                   stopping>>

\* The rest of readStdio.  CloseWrite is seen by the server's read loop only.
Finish(s) ==
    /\ pc[s] = "finish"
    /\ CASE event[s] = "output" -> Return(s, outErr[s])
         [] event[s] = "detach" -> Return(s, "detach")
         [] event[s] = "end" ->
                IF cfg[s].streams = {}
                THEN Return(s, "ok")
                ELSE Goto(s, "drain") /\ UNCHANGED <<result, conn>>
    /\ UNCHANGED <<cfg, event, readers, stdins, outputs, socket, server, serving, got, stopping>>

\* return <-receiveStdoutError
Drain(s) ==
    /\ pc[s] = "drain" /\ outGo[s] = "sending"
    /\ outGo' = [outGo EXCEPT ![s] = "over"]
    /\ Return(s, outErr[s])
    /\ UNCHANGED <<cfg, event, readers, stdins, outErr, outShut, written, socket, server, serving,
                   got, stopping>>

-----------------------------------------------------------------------------
(* The goroutine of the output: redirectResponseToOutputStreams. *)

\* It returns: the deferred function closes the streams, then it reports.
OutputEnds(s, err) ==
    /\ outGo' = [outGo EXCEPT ![s] = "sending"]
    /\ outErr' = [outErr EXCEPT ![s] = err]
    /\ outShut' = [outShut EXCEPT ![s] = TRUE]

\* What follows a packet or an error that does not end the loop by itself.
OnePacketOnly(s) == cfg[s].containerStdin /\ ~cfg[s].stopAfterStdinEOF

\* Faulty: a packet of a stream the caller does not want ends the loop.
HandlePacketNilEnds(s) ==
    /\ outGo[s] = "reading" /\ conn[s] # "closed" /\ got[s] < Len(sent[s])
    /\ got' = [got EXCEPT ![s] = @ + 1]
    /\ LET packet == sent[s][got[s] + 1]
       IN  /\ written' = IF packet.pipe \in cfg[s].streams
                         THEN [written EXCEPT ![s] = Append(@, packet)] ELSE written
           /\ IF packet.pipe \notin cfg[s].streams \/ OnePacketOnly(s)
              THEN OutputEnds(s, "ok")
              ELSE UNCHANGED <<outGo, outErr, outShut>>
    /\ UNCHANGED <<main, readers, stdins, socket, server, conn, serving, stopping>>

\* handlePacket: data of a stream that is nil is dropped.
HandlePacket(s) ==
    /\ outGo[s] = "reading" /\ conn[s] # "closed" /\ got[s] < Len(sent[s])
    /\ got' = [got EXCEPT ![s] = @ + 1]
    /\ LET packet == sent[s][got[s] + 1]
       IN  /\ written' = IF packet.pipe \in cfg[s].streams
                         THEN [written EXCEPT ![s] = Append(@, packet)] ELSE written
           /\ IF packet = Done \/ OnePacketOnly(s)
              THEN OutputEnds(s, "ok")
              ELSE UNCHANGED <<outGo, outErr, outShut>>
    /\ UNCHANGED <<main, readers, stdins, socket, server, conn, serving, stopping>>

\* Writing to the stream fails or is short.
HandlePacketFails(s) ==
    /\ outGo[s] = "reading" /\ conn[s] # "closed" /\ got[s] < Len(sent[s])
    /\ sent[s][got[s] + 1].pipe \in cfg[s].streams
    /\ got' = [got EXCEPT ![s] = @ + 1]
    /\ OutputEnds(s, "error")
    /\ UNCHANGED <<main, readers, stdins, written, socket, server, conn, serving, stopping>>

\* Faulty: only the end of a write loop counts as the end.
EndOfStreamIfEnded(s) == got[s] = Len(sent[s]) /\ ended[s]

EndOfStream(s) == got[s] = Len(sent[s]) /\ (ended[s] \/ ~server)

\* io.EOF, possibly after a connection reset, which is read over.
ReadEof(s) ==
    /\ outGo[s] = "reading" /\ conn[s] # "closed" /\ EndOfStream(s)
    /\ OutputEnds(s, "ok")
    /\ UNCHANGED <<main, readers, stdins, written, socket, server, conn, serving, got, stopping>>

\* The caller has closed the connection.
ReadClosed(s) ==
    /\ outGo[s] = "reading" /\ conn[s] = "closed"
    /\ OutputEnds(s, IF OnePacketOnly(s) THEN "ok" ELSE "error")
    /\ UNCHANGED <<main, readers, stdins, written, socket, server, conn, serving, got, stopping>>

-----------------------------------------------------------------------------
(* The goroutine of stdin: detach.Copy. *)

\* The caller's stdin ends, holds the detach keys, or an error happens.
CopyEnds(s, err) ==
    /\ stdinGo[s] = "copying" /\ ~stdinShut[s]
    /\ stdinGo' = [stdinGo EXCEPT ![s] = "sending"]
    /\ stdinErr' = [stdinErr EXCEPT ![s] = err]
    /\ UNCHANGED <<main, readers, stdinShut, outputs, socket, server, conn, serving, got,
                   stopping>>

\* Stdin was closed under it.  An io.Pipe says io.ErrClosedPipe, which is not
\* reported; a file has an error of its own.
CopyClosed(s) ==
    /\ stdinGo[s] = "copying" /\ stdinShut[s]
    /\ \/ /\ stdinGo' = [stdinGo EXCEPT ![s] = "over"]
          /\ UNCHANGED stdinErr
       \/ /\ stdinGo' = [stdinGo EXCEPT ![s] = "sending"]
          /\ stdinErr' = [stdinErr EXCEPT ![s] = "end"]
    /\ UNCHANGED <<main, readers, stdinShut, outputs, socket, server, conn, serving, got,
                   stopping>>

-----------------------------------------------------------------------------
(* Shutdown, up to the signal it sends; ServerLifecycle has the rest. *)

Shutdown ==
    /\ shut = "no"
    /\ shut' = "ranging" /\ todo' = readers
    /\ UNCHANGED <<main, readers, stdins, outputs, socket, server, conn, serving, got>>

\* Range reaches a reader that may have been deleted meanwhile: closeAttachReader.
ShutdownClose(s) ==
    /\ shut = "ranging" /\ s \in todo
    /\ todo' = todo \ {s}
    /\ IF s \in readers
       THEN /\ stdinShut' = [stdinShut EXCEPT ![s] = TRUE]
            /\ shut' = "checking"
       ELSE UNCHANGED <<stdinShut, shut>>
    /\ UNCHANGED <<main, readers, stdinGo, stdinErr, outputs, socket, server, conn, serving, got>>

\* The reader is still in the map, unless its session has just deleted it.
ShutdownRange ==
    /\ shut = "checking"
    /\ shut' = IF SocketPathInUse THEN "ranging" ELSE "removing"
    /\ UNCHANGED <<main, readers, stdins, outputs, socket, server, conn, serving, got, todo>>

ShutdownRemove ==
    /\ shut = "removing"
    /\ socket' = FALSE
    /\ shut' = "ranging"
    /\ UNCHANGED <<main, readers, stdins, outputs, server, conn, serving, got, todo>>

\* kill(serverPID, SIGINT)
ShutdownKill ==
    /\ shut = "ranging" /\ todo = {}
    /\ shut' = "killed"
    /\ UNCHANGED <<main, readers, stdins, outputs, socket, server, conn, serving, got, todo>>

-----------------------------------------------------------------------------

MainStep(s) == \/ Dial(s) \/ AttachFuncFails(s) \/ SetupStdioChannels(s) \/ PassThrough(s)
               \/ PostAttachFunc(s) \/ SelectOutput(s) \/ SelectStdin(s) \/ TakeReader(s)
               \/ RangeReaders(s) \/ RemoveSocket(s) \/ Finish(s) \/ Drain(s)
OutputStep(s) == HandlePacket(s) \/ HandlePacketFails(s) \/ ReadEof(s) \/ ReadClosed(s)
ShutdownStep == \/ \E s \in Session : ShutdownClose(s)
                \/ ShutdownRange \/ ShutdownRemove \/ ShutdownKill

Next ==
    \/ \E s \in Session : \/ AttachContainer(s) \/ AttachContainerFails(s) \/ MainStep(s)
                          \/ OutputStep(s) \/ CopyClosed(s) \/ Accept(s) \/ Lag(s)
                          \/ \E err \in {"end", "detach"} : CopyEnds(s, err)
    \/ \E p \in Pipe : Emit(p) \/ EmitDone(p)
    \/ ServerExit \/ Shutdown \/ ShutdownStep

Spec == Init /\ [][Next]_vars

\* The packet that is next goes to one of the caller's streams.
Writes(s) == got[s] < Len(sent[s]) /\ sent[s][got[s] + 1].pipe \in cfg[s].streams

\* Goroutines run, PreAttachFunc and PostAttachFunc return.  Nothing is assumed of
\* the container, of stdin before it is closed, of when the client shuts down and
\* whether its server stops then; a stream nobody reads may block the goroutine
\* that writes to it for ever.
Fairness ==
    /\ \A s \in Session : /\ WF_vars(MainStep(s)) /\ WF_vars(~Writes(s) /\ OutputStep(s))
                          /\ s \in Reading => WF_vars(OutputStep(s))
                          /\ WF_vars(CopyClosed(s)) /\ WF_vars(Accept(s))
    /\ WF_vars(ShutdownStep)

FairSpec == Spec /\ Fairness

-----------------------------------------------------------------------------

\* What the server sent to a session for the streams it has.
Wanted(s) == {p \in {sent[s][i] : i \in 1..Len(sent[s])} : p.pipe \in cfg[s].streams}

\* A session that reports success has written all that the server sent to it,
\* each packet once, in order and to the streams it has, whatever happened to
\* stdin, to the other stream and to the server meanwhile
\* (redirectResponseToOutputStreams and handlePacket).  StopAfterStdinEOF returns
\* at the end of stdin; without it, and with ContainerStdin, one packet is all a
\* session takes.
OutputComplete ==
    \A s \in Session :
        /\ result[s] = "ok" /\ ~cfg[s].passthrough /\ cfg[s].streams # {}
        /\ ~cfg[s].stopAfterStdinEOF /\ ~cfg[s].containerStdin
        => /\ {written[s][i] : i \in 1..Len(written[s])} = Wanted(s)
           /\ \A i, j \in 1..Len(written[s]) : i < j => written[s][i].n < written[s][j].n

\* The last session with a stdin removes the socket, however the ends of the
\* sessions overlap with each other and with Shutdown (closeAttachReader: a
\* reader leaves the map before the map is searched).
SocketRemoved ==
    (\A s \in Session : \/ pc[s] = "idle"
                         \/ /\ pc[s] = "returned" /\ cfg[s].stdin /\ event[s] # None
                            /\ s \notin readers)
        => ~socket

\* Once the server has ended a session's output, or is gone, AttachContainer
\* returns, also when it has not got to its streams yet and when Shutdown closes
\* its reader meanwhile; a user who detaches gets it back in any case, with the
\* server's output going on and the goroutine of the output stuck in a write.
SessionEnds ==
    \A s \in Session :
        /\ (pc[s] # "idle" /\ (ended[s] \/ ~server) /\ s \in Reading) ~> (pc[s] = "returned")
        /\ (stdinGo[s] = "sending" /\ stdinErr[s] = "detach") ~> (pc[s] = "returned")

\* Whoever reads the other end of Stdout and Stderr is not left waiting: the
\* streams are closed once the call has returned.
StreamsClosed ==
    \A s \in Reading : (outGo[s] # "none" /\ pc[s] = "returned") ~> outShut[s]

=============================================================================
