----------------------- MODULE ServerLifecycleProofs -----------------------
(***************************************************************************)
(* Proofs about ServerLifecycle for every set of clients.  While calls are *)
(* orderly, one client at most is inside New or Shutdown and one server at *)
(* most is alive; the inductive invariant says so for every place the      *)
(* launching process, the client and the server may be in.                 *)
(***************************************************************************)
EXTENDS ServerLifecycle, TLAPS

\* A client inside New or Shutdown.
Busy(c) == client[c] \in {"launching", "pid", "waiting", "removing", "stopping", "failing"}

\* The launching process has not got to its fork.
Preparing(s) == launcher[s] \in {"socket", "removeSocket", "fdSocket", "removeFdSocket", "fork"}

\* It is past it and will not fork again.
Forked(s) == launcher[s] \in {"create", "write", "exited", "error"}

\* The launching process runs on behalf of a New that waits for it.
LaunchInv ==
    \A c \in Client :
        /\ client[c] = "idle" => launcher[c] = "none"
        /\ Preparing(c) \/ launcher[c] \in {"create", "write"} => client[c] = "launching"

\* Whoever is alive, has a file or is known to a client was forked; a backend
\* returns because the signal handler told it to.
ForkInv ==
    /\ \A s \in Client :
        /\ alive[s] \/ socket = s \/ pidfile = s => Forked(s)
        /\ backend[s] = "returned" => handler[s] \in {"socket", "fdSocket", "done"}
    /\ \A c \in Client :
        /\ serverPID[c] # None => Forked(serverPID[c])
        /\ client[c] \in {"waiting", "removing", "connected", "stopping", "failing"}
               => serverPID[c] # None

\* One call at a time, one server at a time, and none while one is being prepared.
TurnInv ==
    orderly =>
        /\ \A c, d \in Client : Busy(c) /\ Busy(d) => c = d
        /\ \A s, t \in Client : alive[s] /\ alive[t] => s = t
        /\ \A s, t \in Client : Preparing(s) => ~alive[t]

\* The files belong to the server that is alive, and the clients that have got
\* through New know a server that has got through its start-up.
OwnerInv ==
    orderly =>
        /\ \A s \in Client : Serving(s) /\ ~Stopping(s) => socket = s
        /\ \A c \in Client : client[c] \in {"removing", "connected"} /\ alive[serverPID[c]]
               => backend[serverPID[c]] \in {"serving", "returned"}
        /\ \A s \in Client : (launcher[s] = "fork" \/ alive[s]) /\ ~fdStarted[s]
               => fdSocket = None

Inv == TypeOK /\ LaunchInv /\ ForkInv /\ TurnInv /\ OwnerInv

-----------------------------------------------------------------------------

\* The initial state satisfies Inv.
LEMMA InitInv == Init => Inv
  BY LifecycleAssumption
  DEF Init, Inv, TypeOK, File, LaunchInv, ForkInv, TurnInv, OwnerInv, Busy, Preparing,
      Forked, Serving, Stopping

\* A client that sends a signal knows whom to send it to.
LEMMA KnowsServer ==
  ASSUME Inv, NEW c \in Client,
         client[c] \in {"waiting", "removing", "connected", "stopping", "failing"}
  PROVE  serverPID[c] \in Client
  BY DEF Inv, TypeOK, File, ForkInv

\* SIGINT ends a server or is left for its handler; no server comes to life by it.
LEMMA KillEffect ==
  ASSUME Inv, NEW s \in Client, Kill(s)
  PROVE  /\ alive' \in [Client -> BOOLEAN] /\ sigint' \in [Client -> BOOLEAN]
         /\ handler' \in [Client -> {"none", "waiting", "killing", "socket", "fdSocket", "done"}]
         /\ backend' \in [Client -> {"none", "starting", "serving", "returned"}]
         /\ fdStarted' \in [Client -> BOOLEAN]
         /\ \A t \in Client :
              \/ /\ alive'[t] = alive[t] /\ handler'[t] = handler[t]
                 /\ backend'[t] = backend[t] /\ fdStarted'[t] = fdStarted[t]
                 /\ sigint[t] => sigint'[t]
              \/ ~alive'[t] /\ backend'[t] = "none"
  <1>1. CASE handler[s] = "none" /\ Die(s)
    BY <1>1 DEF Inv, TypeOK, Die
  <1>2. CASE handler[s] # "none" /\ ~(handler[s] = "none" /\ Die(s))
    BY <1>2 DEF Inv, TypeOK, Kill
  <1> QED BY <1>1, <1>2 DEF Kill

\* Beginning a New or a Shutdown preserves Inv.
LEMMA CallStepInv ==
  ASSUME Inv, NEW c \in Client, CallStep(c)
  PROVE  Inv'
  <1> USE LifecycleAssumption
      DEF Inv, TypeOK, File, LaunchInv, ForkInv, TurnInv, OwnerInv, Busy, Preparing,
          Forked, Serving, Stopping, files, clients, servers, InTurn, Begin, NoAnswer, Reachable
  <1>1. CASE NewInherits(c)
    BY <1>1 DEF NewInherits, ProcessID
  <1>2. CASE NewLaunches(c)
    BY <1>2 DEF NewLaunches
  <1>3. CASE NewBadConfig(c)
    BY <1>3 DEF NewBadConfig
  <1>4. CASE Shutdown(c)
    <2>1. serverPID[c] \in Client /\ Kill(serverPID[c])
      BY <1>4, KnowsServer DEF Shutdown
    <2>2. TypeOK' /\ LaunchInv' /\ ForkInv'
      BY <1>4, <2>1, KillEffect DEF Shutdown
    <2>3. TurnInv'
      <3>1. /\ orderly' => orderly /\ InTurn
            /\ client' = [client EXCEPT ![c] = "stopping"] /\ UNCHANGED launcher
        BY <1>4 DEF Shutdown
      <3>2. \A t \in Client : alive'[t] => alive[t]
        BY <2>1, KillEffect
      <3>3. orderly' => \A d, e \in Client : Busy(d)' /\ Busy(e)' => d = e
        BY <3>1
      <3>4. orderly' => \A d, e \in Client : alive'[d] /\ alive'[e] => d = e
        BY <3>1, <3>2
      <3>5. orderly' => \A d, e \in Client : Preparing(d)' => ~alive'[e]
        BY <3>1, <3>2
      <3> QED BY <3>3, <3>4, <3>5
    <2>4. OwnerInv'
      BY <1>4, <2>1, KillEffect DEF Shutdown
    <2> QED BY <2>2, <2>3, <2>4
  <1> QED BY <1>1, <1>2, <1>3, <1>4 DEF CallStep

\* What a client does inside New and Shutdown preserves Inv.
LEMMA ClientStepInv ==
  ASSUME Inv, NEW c \in Client, ClientStep(c)
  PROVE  Inv'
  <1> USE LifecycleAssumption
      DEF Inv, TypeOK, File, LaunchInv, ForkInv, TurnInv, OwnerInv, Busy, Preparing,
          Forked, Serving, Stopping, files, clients, servers
  <1> UNCHANGED orderly
    BY DEF ClientStep
  <1>1. CASE RunReturns(c)
    BY <1>1 DEF RunReturns
  <1>2. CASE ReadPid(c)
    BY <1>2 DEF ReadPid
  <1>3. CASE ServerUp(c)
    BY <1>3 DEF ServerUp, Reachable
  <1>4. CASE GiveUp(c)
    <2>1. serverPID[c] \in Client /\ Kill(serverPID[c])
      BY <1>4, KnowsServer DEF GiveUp
    <2> QED BY <1>4, <2>1, KillEffect DEF GiveUp
  <1>5. CASE RemovePidfile(c)
    <2>1. CASE pidfile # None
      BY <1>5, <2>1 DEF RemovePidfile
    <2>2. CASE pidfile = None
      <3>1. serverPID[c] \in Client /\ Kill(serverPID[c])
        BY <1>5, <2>2, KnowsServer DEF RemovePidfile
      <3> QED BY <1>5, <2>2, <3>1, KillEffect DEF RemovePidfile
    <2> QED BY <2>1, <2>2
  <1>6. CASE ShutdownReturns(c)
    BY <1>6 DEF ShutdownReturns
  <1> QED BY <1>1, <1>2, <1>3, <1>4, <1>5, <1>6 DEF ClientStep

\* What the launching process does preserves Inv.
LEMMA LaunchStepInv ==
  ASSUME Inv, NEW s \in Client, LaunchStep(s)
  PROVE  Inv'
  <1> USE LifecycleAssumption
      DEF Inv, TypeOK, File, LaunchInv, ForkInv, TurnInv, OwnerInv, Busy, Preparing,
          Forked, Serving, Stopping, files, clients, servers, Launcher
  <1> UNCHANGED orderly
    BY DEF LaunchStep
  <1>1. CASE CheckSocket(s)
    BY <1>1 DEF CheckSocket
  <1>2. CASE RemoveSocket(s)
    BY <1>2 DEF RemoveSocket
  <1>3. CASE CheckFdSocket(s)
    BY <1>3 DEF CheckFdSocket
  <1>4. CASE RemoveFdSocket(s)
    BY <1>4 DEF RemoveFdSocket
  <1>5. CASE LaunchFails(s)
    BY <1>5 DEF LaunchFails
  <1>6. CASE Fork(s)
    BY <1>6 DEF Fork
  <1>7. CASE CreatePidfile(s)
    BY <1>7 DEF CreatePidfile, Empty
  <1>8. CASE WritePidfile(s)
    BY <1>8 DEF WritePidfile
  <1>9. CASE PidfileFails(s)
    BY <1>9 DEF PidfileFails
  <1> QED BY <1>1, <1>2, <1>3, <1>4, <1>5, <1>6, <1>7, <1>8, <1>9 DEF LaunchStep

\* What the signal handler and the backend of a server do preserves Inv.
LEMMA ServerStepInv ==
  ASSUME Inv, NEW s \in Client, HandlerStep(s) \/ GrandchildrenEnd(s) \/ BackendStep(s)
  PROVE  Inv'
  <1> USE LifecycleAssumption
      DEF Inv, TypeOK, File, LaunchInv, ForkInv, TurnInv, OwnerInv, Busy, Preparing,
          Forked, Serving, Stopping, files, clients, servers, Handler
  <1> UNCHANGED orderly
    BY DEF HandlerStep, GrandchildrenEnd, BackendStep
  <1>1. CASE InstallHandler(s)
    BY <1>1 DEF InstallHandler
  <1>2. CASE HandleSignal(s)
    BY <1>2 DEF HandleSignal
  <1>3. CASE SendShutdown(s)
    BY <1>3 DEF SendShutdown
  <1>4. CASE RemoveOwnSocket(s)
    BY <1>4 DEF RemoveOwnSocket
  <1>5. CASE RemoveOwnFdSocket(s)
    BY <1>5 DEF RemoveOwnFdSocket
  <1>6. CASE Bind(s)
    <2>1. CASE socket = None
      <3>1. TypeOK' /\ LaunchInv' /\ ForkInv'
        BY <1>6, <2>1 DEF Bind
      <3>2. TurnInv'
        BY <1>6, <2>1 DEF Bind
      <3>3. OwnerInv'
        BY <1>6, <2>1 DEF Bind
      <3> QED BY <3>1, <3>2, <3>3
    <2>2. CASE socket # None
      <3>1. alive[s] /\ Die(s) /\ UNCHANGED <<files, clients, launcher, crashed>>
        BY <1>6, <2>2 DEF Bind
      <3> QED BY <3>1 DEF Die
    <2> QED BY <2>1, <2>2
  <1>7. CASE BackendReturns(s)
    BY <1>7 DEF BackendReturns
  <1>8. CASE ServerExit(s)
    BY <1>8 DEF ServerExit, Die
  <1> QED BY <1>1, <1>2, <1>3, <1>4, <1>5, <1>6, <1>7, <1>8
       DEF HandlerStep, GrandchildrenEnd, BackendStep

\* Starting the fd socket and killing a server preserve Inv.
LEMMA OtherStepInv ==
  ASSUME Inv, NEW s \in Client, OtherStep(s)
  PROVE  Inv'
  <1> USE LifecycleAssumption
      DEF Inv, TypeOK, File, LaunchInv, ForkInv, TurnInv, OwnerInv, Busy, Preparing,
          Forked, Serving, Stopping, files, clients, servers
  <1> UNCHANGED orderly
    BY DEF OtherStep
  <1>1. CASE StartFdSocket(s)
    BY <1>1 DEF StartFdSocket, FirstFdSocket, Reachable
  <1>2. CASE Crash(s)
    BY <1>2 DEF Crash, Die
  <1> QED BY <1>1, <1>2 DEF OtherStep

\* Every step preserves Inv.
LEMMA NextInv == Inv /\ [Next]_vars => Inv'
  <1> SUFFICES ASSUME Inv, [Next]_vars PROVE Inv'
    OBVIOUS
  <1>1. CASE UNCHANGED vars
    BY <1>1 DEF vars, files, clients, servers, Inv, TypeOK, File, LaunchInv, ForkInv,
                TurnInv, OwnerInv, Busy, Preparing, Forked, Serving, Stopping
  <1>2. CASE Next
    BY <1>2, CallStepInv, ClientStepInv, LaunchStepInv, ServerStepInv, OtherStepInv DEF Next
  <1> QED BY <1>1, <1>2

\* Inv holds in every state.
LEMMA Invariance == Spec => []Inv
  BY InitInv, NextInv, PTL DEF Spec

-----------------------------------------------------------------------------

\* Every variable of the clients, their servers and the files keeps its type.
THEOREM TypeCorrect == Spec => []TypeOK
  BY Invariance, PTL DEF Inv

\* A client that New has returned reaches the server it was given, and no other,
\* under the socket's path, until that server is gone or told to go.
THEOREM ClientReachesServerCorrect == Spec => []ClientReachesServer
  <1>1. Inv => ClientReachesServer
    BY DEF Inv, TypeOK, File, ForkInv, OwnerInv, ClientReachesServer, Serving, Stopping
  <1> QED BY Invariance, <1>1, PTL

\* The path of the fd socket is free for the first call that starts it, whatever
\* an earlier server has left there.
THEOREM FdSocketFreeCorrect == Spec => []FdSocketFree
  <1>1. Inv => FdSocketFree
    BY DEF Inv, OwnerInv, FdSocketFree, Serving
  <1> QED BY Invariance, <1>1, PTL

=============================================================================
