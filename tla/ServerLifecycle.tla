-------------------------- MODULE ServerLifecycle --------------------------
(***************************************************************************)
(* Starting, finding and stopping the server of one run directory: New and *)
(* Shutdown of the Go client (pkg/client/client.go) against the start-up,  *)
(* the signal handler and the backend of the server (server.rs) and the    *)
(* clean-up of Config::validate (config.rs).                               *)
(*                                                                         *)
(* What the processes share is three files of the directory: the socket,   *)
(* the fd socket and the pidfile.  A socket file outlives the process that *)
(* bound it, and can be removed while that process still listens.          *)
(*                                                                         *)
(* A server has the name of the client that launched it.                   *)
(***************************************************************************)
EXTENDS FiniteSets

CONSTANTS
    Client,     \* calls of New
    Slow,       \* clients whose 100 tries may not be enough
    MayCrash,   \* whether a server may be killed with SIGKILL
    Stubborn,   \* servers with a container that may ignore the signal
    None        \* no file, no pid

Empty == "empty"

ASSUME LifecycleAssumption ==
    /\ IsFiniteSet(Client) /\ Slow \subseteq Client
    /\ Stubborn \subseteq Client
    /\ MayCrash \in BOOLEAN
    /\ None \notin Client /\ Empty \notin Client /\ None # Empty

VARIABLES
    \* The run directory.
    socket,     \* the server whose socket file is there
    fdSocket,   \* the server whose fd socket file is there
    pidfile,    \* the server whose pid is in the pidfile, Empty or None
    \* The clients.
    client,     \* where a client is in New or Shutdown
    serverPID,  \* the server the client believes it has
    \* The process cmd.Run starts, up to its exit.
    launcher,
    \* The forked server.
    alive,      \* the process exists
    sigint,     \* a signal is waiting for the signal handler
    handler,    \* the signal handler's task
    backend,    \* the backend's task
    fdStarted,  \* its fd socket listens
    crashed,    \* servers that were killed
    orderly     \* no New or Shutdown has begun out of turn, no answer was lost

files == <<socket, fdSocket, pidfile>>
clients == <<client, serverPID>>
servers == <<alive, sigint, handler, backend, fdStarted, crashed>>
vars == <<files, clients, launcher, servers, orderly>>

File == Client \cup {None}

TypeOK ==
    /\ socket \in File /\ fdSocket \in File /\ pidfile \in File \cup {Empty}
    /\ client \in [Client -> {"idle", "launching", "pid", "waiting", "removing",
                              "connected", "stopping", "failing", "closed",
                              "failed"}]
    /\ serverPID \in [Client -> File]
    /\ launcher \in [Client -> {"none", "socket", "removeSocket", "fdSocket",
                                "removeFdSocket", "fork", "create", "write",
                                "exited", "error"}]
    /\ alive \in [Client -> BOOLEAN] /\ sigint \in [Client -> BOOLEAN]
    /\ handler \in [Client -> {"none", "waiting", "killing", "socket",
                               "fdSocket", "done"}]
    /\ backend \in [Client -> {"none", "starting", "serving", "returned"}]
    /\ fdStarted \in [Client -> BOOLEAN]
    /\ crashed \in SUBSET Client
    /\ orderly \in BOOLEAN

Init ==
    /\ socket = None /\ fdSocket = None /\ pidfile = None
    /\ client = [c \in Client |-> "idle"]
    /\ serverPID = [c \in Client |-> None]
    /\ launcher = [c \in Client |-> "none"]
    /\ alive = [c \in Client |-> FALSE]
    /\ sigint = [c \in Client |-> FALSE]
    /\ handler = [c \in Client |-> "none"]
    /\ backend = [c \in Client |-> "none"]
    /\ fdStarted = [c \in Client |-> FALSE]
    /\ crashed = {}
    /\ orderly = TRUE

-----------------------------------------------------------------------------

Serving(s) == alive[s] /\ backend[s] = "serving"

\* A server that was told to stop and still runs.
Stopping(s) == alive[s] /\ (sigint[s] \/ handler[s] \notin {"none", "waiting"})

\* Version() can succeed: somebody accepts connections under the path of the
\* socket.
Reachable == socket # None /\ Serving(socket)

\* The pid in the answer to Version: the server's own.
ProcessID == socket

\* A New or Shutdown is in turn when nobody else is in one of them and no server
\* is about to come or to go.
InTurn ==
    /\ \A c \in Client : client[c] \in {"idle", "connected", "closed", "failed"}
    /\ \A s \in Client : alive[s] => Serving(s) /\ ~Stopping(s)

Begin == orderly' = (orderly /\ InTurn)

\* A call goes on without an answer, which a server that is there owed it.
NoAnswer == orderly' = (orderly /\ InTurn /\ ~Reachable)

-----------------------------------------------------------------------------
(* New. *)

\* A server answers: its pid comes with the answer ...
NewInherits(c) ==
    /\ client[c] = "idle" /\ Begin /\ Reachable
    /\ client' = [client EXCEPT ![c] = "connected"]
    /\ serverPID' = [serverPID EXCEPT ![c] = ProcessID]
    /\ UNCHANGED <<files, launcher, servers>>

\* ... or the call fails, because no server is there or for any other reason:
\* startServer runs conmonrs.
NewLaunches(c) ==
    /\ client[c] = "idle" /\ NoAnswer
    /\ client' = [client EXCEPT ![c] = "launching"]
    /\ launcher' = [launcher EXCEPT ![c] = "socket"]
    /\ UNCHANGED <<files, serverPID, servers>>

\* toArgs rejects the configuration: nothing is started.
NewBadConfig(c) ==
    /\ client[c] = "idle" /\ NoAnswer
    /\ client' = [client EXCEPT ![c] = "failed"]
    /\ UNCHANGED <<files, serverPID, launcher, servers>>

\* cmd.Run returns when the process that forks has exited.
RunReturns(c) ==
    /\ client[c] = "launching" /\ launcher[c] \in {"exited", "error"}
    /\ client' = [client EXCEPT ![c] =
                    IF launcher[c] = "exited" THEN "pid" ELSE "failed"]
    /\ UNCHANGED <<files, serverPID, launcher, servers>>

\* pidGivenFile.  Shutdown is not deferred yet: if the file cannot be read or
\* parsed, the server is left alone.
ReadPid(c) ==
    /\ client[c] = "pid"
    /\ IF pidfile \in Client
       THEN /\ serverPID' = [serverPID EXCEPT ![c] = pidfile]
            /\ client' = [client EXCEPT ![c] = "waiting"]
       ELSE /\ client' = [client EXCEPT ![c] = "failed"]
            /\ UNCHANGED serverPID
    /\ UNCHANGED <<files, launcher, servers>>

\* Faulty: running out of tries counts as success.
ServerUpOrTired(c) ==
    /\ client[c] = "waiting" /\ (Reachable \/ c \in Slow)
    /\ client' = [client EXCEPT ![c] = "removing"]
    /\ UNCHANGED <<files, serverPID, launcher, servers>>

\* waitUntilServerUp: a Version call succeeds.
ServerUp(c) ==
    /\ client[c] = "waiting" /\ Reachable
    /\ client' = [client EXCEPT ![c] = "removing"]
    /\ UNCHANGED <<files, serverPID, launcher, servers>>

\* The end of a process is the end of its tasks.
Die(s) ==
    /\ alive' = [alive EXCEPT ![s] = FALSE]
    /\ sigint' = [sigint EXCEPT ![s] = FALSE]
    /\ handler' = [handler EXCEPT ![s] = "none"]
    /\ backend' = [backend EXCEPT ![s] = "none"]
    /\ fdStarted' = [fdStarted EXCEPT ![s] = FALSE]

\* kill(2) with SIGINT, which ends a server without a handler.
Kill(s) ==
    \/ handler[s] = "none" /\ Die(s)
    \/ /\ handler[s] # "none"
       /\ sigint' = [sigint EXCEPT ![s] = TRUE]
       /\ UNCHANGED <<alive, handler, backend, fdStarted>>

\* Faulty: the server is not shut down when New fails.
GiveUpOnly(c) ==
    /\ client[c] = "waiting"
    /\ c \in Slow \/ ~(Reachable \/ alive[serverPID[c]])
    /\ client' = [client EXCEPT ![c] = "failed"]
    /\ UNCHANGED <<files, serverPID, launcher, servers>>

\* waitUntilServerUp: no Version call has succeeded, and the deferred Shutdown
\* stops the server.
GiveUp(c) ==
    /\ client[c] = "waiting"
    /\ c \in Slow \/ ~(Reachable \/ alive[serverPID[c]])
    /\ client' = [client EXCEPT ![c] = "failing"]
    /\ Kill(serverPID[c])
    /\ UNCHANGED <<files, serverPID, launcher, crashed>>

\* The last step of New removes the pidfile; if it is gone, New fails and shuts
\* the server down.
RemovePidfile(c) ==
    /\ client[c] = "removing"
    /\ IF pidfile # None
       THEN /\ pidfile' = None
            /\ client' = [client EXCEPT ![c] = "connected"]
            /\ UNCHANGED <<alive, sigint, handler, backend, fdStarted>>
       ELSE /\ client' = [client EXCEPT ![c] = "failing"]
            /\ Kill(serverPID[c])
            /\ UNCHANGED pidfile
    /\ UNCHANGED <<socket, fdSocket, serverPID, launcher, crashed>>

-----------------------------------------------------------------------------
(* Shutdown, and the one call that makes a file. *)

\* The signal is sent; a process that is gone already is no error.
Shutdown(c) ==
    /\ client[c] = "connected" /\ Begin
    /\ client' = [client EXCEPT ![c] = "stopping"]
    /\ Kill(serverPID[c])
    /\ UNCHANGED <<files, serverPID, launcher, crashed>>

\* The pid is gone, or the client has waited for ten seconds.
ShutdownReturns(c) ==
    /\ client[c] \in {"stopping", "failing"}
    /\ client' = [client EXCEPT ![c] =
                    IF client[c] = "stopping" THEN "closed" ELSE "failed"]
    /\ UNCHANGED <<files, serverPID, launcher, servers>>

\* FdSocket::start: the first call binds the path, which fails if it is taken.
FirstFdSocket(s) ==
    /\ ~fdStarted[s] /\ fdSocket = None
    /\ fdSocket' = s
    /\ fdStarted' = [fdStarted EXCEPT ![s] = TRUE]

StartFdSocket(c) ==
    /\ client[c] = "connected" /\ Reachable
    /\ FirstFdSocket(socket)
    /\ UNCHANGED <<socket, pidfile, clients, launcher, alive, sigint, handler,
                   backend, crashed>>

-----------------------------------------------------------------------------
(* The process cmd.Run starts: Server::new and the parent's side of start. *)

Launcher(s, from, to) ==
    /\ launcher[s] = from
    /\ launcher' = [launcher EXCEPT ![s] = to]

\* Config::validate: a socket file that exists ...
CheckSocket(s) ==
    /\ Launcher(s, "socket", IF socket = None THEN "fdSocket" ELSE "removeSocket")
    /\ UNCHANGED <<files, clients, servers>>

\* Faulty: the socket of an earlier server is left in place.
RemoveSocketNot(s) ==
    /\ Launcher(s, "removeSocket", "fdSocket")
    /\ UNCHANGED <<files, clients, servers>>

\* ... is removed, which fails if somebody else has removed it meanwhile.
RemoveSocket(s) ==
    /\ Launcher(s, "removeSocket", IF socket = None THEN "error" ELSE "fdSocket")
    /\ socket' = None
    /\ UNCHANGED <<fdSocket, pidfile, clients, servers>>

CheckFdSocket(s) ==
    /\ Launcher(s, "fdSocket", IF fdSocket = None THEN "fork" ELSE "removeFdSocket")
    /\ UNCHANGED <<files, clients, servers>>

\* Faulty: the fd socket of an earlier server is left in place.
RemoveFdSocketNot(s) ==
    /\ Launcher(s, "removeFdSocket", "fork")
    /\ UNCHANGED <<files, clients, servers>>

RemoveFdSocket(s) ==
    /\ Launcher(s, "removeFdSocket", IF fdSocket = None THEN "error" ELSE "fork")
    /\ fdSocket' = None
    /\ UNCHANGED <<socket, pidfile, clients, servers>>

\* validate rejects the configuration, or Server::init fails.
LaunchFails(s) ==
    /\ Launcher(s, "socket", "error") \/ Launcher(s, "fork", "error")
    /\ UNCHANGED <<files, clients, servers>>

Fork(s) ==
    /\ Launcher(s, "fork", "create")
    /\ alive' = [alive EXCEPT ![s] = TRUE]
    /\ backend' = [backend EXCEPT ![s] = "starting"]
    /\ UNCHANGED <<files, clients, sigint, handler, fdStarted, crashed>>

\* The parent writes the pidfile in two steps and exits.
CreatePidfile(s) ==
    /\ Launcher(s, "create", "write")
    /\ pidfile' = Empty
    /\ UNCHANGED <<socket, fdSocket, clients, servers>>

WritePidfile(s) ==
    /\ Launcher(s, "write", "exited")
    /\ pidfile' = s
    /\ UNCHANGED <<socket, fdSocket, clients, servers>>

\* One of the two fails: the parent reports an error, the forked server goes on.
PidfileFails(s) ==
    /\ Launcher(s, "create", "error") \/ Launcher(s, "write", "error")
    /\ UNCHANGED <<files, clients, servers>>

-----------------------------------------------------------------------------
(* The server: the signal handler and the backend are two tasks. *)

Handler(s, from, to) ==
    /\ alive[s] /\ handler[s] = from
    /\ handler' = [handler EXCEPT ![s] = to]

InstallHandler(s) ==
    /\ Handler(s, "none", "waiting")
    /\ UNCHANGED <<files, clients, launcher, alive, sigint, backend, fdStarted,
                   crashed>>

HandleSignal(s) ==
    /\ sigint[s] /\ Handler(s, "waiting", "killing")
    /\ UNCHANGED <<files, clients, launcher, alive, sigint, backend, fdStarted,
                   crashed>>

\* kill_grandchildren has waited for the exit of every container it signalled,
\* and the shutdown message is sent ...
SendShutdown(s) ==
    /\ Handler(s, "killing", "socket")
    /\ UNCHANGED <<files, clients, launcher, alive, sigint, backend, fdStarted,
                   crashed>>

\* ... before the socket file, whoever bound it, is removed; without one the
\* handler fails here.
RemoveOwnSocket(s) ==
    /\ Handler(s, "socket", IF socket = None THEN "done" ELSE "fdSocket")
    /\ socket' = None
    /\ UNCHANGED <<fdSocket, pidfile, clients, launcher, alive, sigint, backend,
                   fdStarted, crashed>>

RemoveOwnFdSocket(s) ==
    /\ Handler(s, "fdSocket", "done")
    /\ fdSocket' = None
    /\ UNCHANGED <<socket, pidfile, clients, launcher, alive, sigint, backend,
                   fdStarted, crashed>>

\* bind_long_path fails if the path exists, which ends the process.
Bind(s) ==
    /\ alive[s] /\ backend[s] = "starting"
    /\ IF socket = None
       THEN /\ socket' = s
            /\ backend' = [backend EXCEPT ![s] = "serving"]
            /\ UNCHANGED <<alive, sigint, handler, fdStarted>>
       ELSE Die(s) /\ UNCHANGED socket
    /\ UNCHANGED <<fdSocket, pidfile, clients, launcher, crashed>>

\* The shutdown message ends the accept loop, and main goes on ...
BackendReturns(s) ==
    /\ Serving(s) /\ handler[s] \in {"socket", "fdSocket", "done"}
    /\ backend' = [backend EXCEPT ![s] = "returned"]
    /\ UNCHANGED <<files, clients, launcher, alive, sigint, handler, fdStarted,
                   crashed>>

\* ... to the end of the process, whether or not the signal handler is through.
ServerExit(s) ==
    /\ alive[s] /\ backend[s] = "returned"
    /\ Die(s)
    /\ UNCHANGED <<files, clients, launcher, crashed>>

\* The server is killed, or its start-up fails for another reason than the path.
Crash(s) ==
    /\ MayCrash /\ alive[s]
    /\ Die(s)
    /\ crashed' = crashed \cup {s}
    /\ UNCHANGED <<files, clients, launcher>>

-----------------------------------------------------------------------------

CallStep(c) == NewInherits(c) \/ NewLaunches(c) \/ NewBadConfig(c) \/ Shutdown(c)

ClientStep(c) ==
    /\ \/ RunReturns(c) \/ ReadPid(c) \/ ServerUp(c) \/ GiveUp(c)
       \/ RemovePidfile(c) \/ ShutdownReturns(c)
    /\ UNCHANGED orderly

LaunchStep(s) ==
    /\ \/ CheckSocket(s) \/ RemoveSocket(s) \/ CheckFdSocket(s)
       \/ RemoveFdSocket(s) \/ LaunchFails(s) \/ Fork(s)
       \/ CreatePidfile(s) \/ WritePidfile(s) \/ PidfileFails(s)
    /\ UNCHANGED orderly

HandlerStep(s) ==
    /\ \/ InstallHandler(s) \/ HandleSignal(s)
       \/ RemoveOwnSocket(s) \/ RemoveOwnFdSocket(s)
    /\ UNCHANGED orderly

GrandchildrenEnd(s) == SendShutdown(s) /\ UNCHANGED orderly

BackendStep(s) ==
    /\ Bind(s) \/ BackendReturns(s) \/ ServerExit(s)
    /\ UNCHANGED orderly

OtherStep(s) ==
    /\ StartFdSocket(s) \/ Crash(s)
    /\ UNCHANGED orderly

Next ==
    \E c \in Client : \/ CallStep(c) \/ ClientStep(c) \/ LaunchStep(c)
                      \/ HandlerStep(c) \/ GrandchildrenEnd(c)
                      \/ BackendStep(c) \/ OtherStep(c)

Spec == Init /\ [][Next]_vars

\* Processes that can go on do; nobody has to call New or Shutdown.  Nothing ends
\* the wait for a container that ignores the signal: it is sent once.
Fairness ==
    \A c \in Client :
        /\ WF_vars(ClientStep(c)) /\ WF_vars(LaunchStep(c))
        /\ WF_vars(HandlerStep(c)) /\ WF_vars(BackendStep(c))
        /\ c \notin Stubborn => WF_vars(GrandchildrenEnd(c))

FairSpec == Spec /\ Fairness

-----------------------------------------------------------------------------

\* A client of a server that is neither gone nor about to go reaches that server
\* and no other under the socket's path, whatever crashed servers and failed
\* calls have left in the directory (New: "the client connects to the existing
\* server instead").
ClientReachesServer ==
    orderly => \A c \in Client : client[c] = "connected" =>
        LET s == serverPID[c]
        IN  alive[s] /\ ~Stopping(s) => Serving(s) /\ socket = s

\* Whatever is left of earlier servers, a New that got its server forked and
\* waits long enough ends with a client, unless that server is killed
\* (Config::validate and the wait of New).
NewConnects ==
    \A c \in Client \ Slow :
        (launcher[c] = "exited")
            ~> \/ client[c] \in {"connected", "stopping", "closed"}
               \/ c \in crashed \/ ~orderly

\* Shutdown, called by the user or deferred by a New that fails once it knows a
\* pid ("Cleanup the background server process if we fail any of the next
\* steps"), ends that server, however calls overlap and whatever it finds of its
\* socket files; a server it leaves behind is waiting for a container that
\* ignores the signal (kill_grandchildren, the client's errTimeoutWaitForPid).
ShutdownStopsServer ==
    \A c, s \in Client :
        (client[c] \in {"closed", "failed"} /\ serverPID[c] = s)
            ~> ~alive[s] \/ (s \in Stubborn /\ handler[s] = "killing")

\* The fd socket can always be started: no path is taken by the fd socket of a
\* server that is gone (Config::validate, start_fd_socket).
FdSocketFree ==
    orderly => \A s \in Client :
        Serving(s) /\ ~Stopping(s) /\ ~fdStarted[s] => fdSocket = None

=============================================================================
