------------------------- MODULE ChildReaperProofs -------------------------
(***************************************************************************)
(* Proofs about ChildReaper for every set of children, ids, pids, codes    *)
(* and signals.  The inductive invariant Inv follows one child through the *)
(* tasks that handle it: what the waitpid thread returns, what the watch   *)
(* task makes of it, which files and messages come out of that, and what   *)
(* the cleanup task and the signal handler conclude from them.             *)
(***************************************************************************)
EXTENDS ChildReaper, FiniteSetTheorems, TLAPS

\* A process has a pid from its birth and a status from its death.
ProcessInv ==
    \A c \in Child :
        /\ process[c] = "unborn" <=> pid[c] = None
        /\ process[c] \in {"zombie", "reaped"} <=> status[c] # None

\* The handler registers a child after its process was made, and a child is
\* registered when its watch and cleanup tasks exist.
HandlerInv ==
    \A c \in Child :
        /\ rpc[c] \in {"idle", "runtime", "orphaned", "stuck"} => process[c] = "unborn"
        /\ rpc[c] \in {"pidfile", "created"} => process[c] # "unborn"
        /\ rpc[c] \in {"idle", "runtime", "pidfile", "created", "failing", "stuck",
                        "orphaned"} => position[c] = 0
        /\ rpc[c] \in {"reading", "waiting"} => position[c] > 0
        /\ position[c] > 0 => process[c] # "unborn"
        /\ position[c] = 0 <=> watch[c] = "none"
        /\ position[c] = 0 <=> cleanup[c] = "none"

\* The waitpid thread runs beside the watch task and returns the code of its
\* own process; only a timed exec has a deadline.
WaiterInv ==
    \A c \in Child :
        /\ waiter[c] = "done" => waitCode[c] \in Int /\ TrueCode(c, waitCode[c])
        /\ elapsed[c] => c \in Timed
        /\ readTimedOut[c] => elapsed[c]

\* What the watch task has gathered is the truth, or the result of its timeout.
Gathered(c) ==
    IF exit[c].timedOut
    THEN elapsed[c] /\ exit[c].code = FAILED_EXIT_CODE
    ELSE TrueCode(c, exit[c].code)

\* Files and messages come out of the watch task in this order.
WatchInv ==
    \A c \in Child :
        /\ watch[c] \in {"none", "spawned", "join"} => ~exit[c].timedOut
        /\ watch[c] \in {"stop", "send", "done"} => Gathered(c)
        /\ exitFile[c] # None => /\ c \in Container /\ watch[c] \in {"send", "done"}
                                 /\ exitFile[c] = exit[c].code
        /\ c \in Container \ Unwritable /\ watch[c] \in {"send", "done"}
              => exitFile[c] # None
        /\ watch[c] = "done" <=> published[c] # None
        /\ published[c] # None => published[c] = exit[c]

\* The cleanup task goes on once the exit is published.
CleanupInv ==
    \A c \in Child :
        /\ cleanup[c] \in {"forget", "done"} => published[c] # None
        /\ c \in Container /\ position[c] > 0 /\ ~leakFds[c] => published[c] # None

\* Pids that are not reused are distinct, and nobody is forgotten early.
MapInv ==
    ~ReusePids =>
        /\ \A c, d \in Child : pid[c] # None /\ pid[c] = pid[d] => c = d
        /\ \A c \in Child : position[c] > 0 /\ published[c] = None => c \in grandchildren

\* An OOM that is on its way to a report has left its files, if they can be
\* written.
OomInv ==
    \A c \in Child :
        /\ oomFile[c] => oomEvent[c]
        /\ oomChan[c] = "oom" \/ exit[c].oomed
              => oomEvent[c] /\ (oomFile[c] \/ c \in Unwritable)

\* An exec that was registered is answered with what was published.
AnswerInv ==
    \A c \in Exec : position[c] > 0 /\ rpc[c] = "answered" =>
        /\ answer[c] # None
        /\ IF answer[c].timedOut THEN elapsed[c] ELSE TrueCode(c, answer[c].code)

KillInv ==
    \A c \in closed : watch[c] = "done"

Inv == /\ TypeOK /\ ProcessInv /\ HandlerInv /\ WaiterInv /\ WatchInv
       /\ CleanupInv /\ MapInv /\ OomInv /\ AnswerInv /\ KillInv

-----------------------------------------------------------------------------

\* The codes the reaper makes up and those of processes are integers.
LEMMA CodesInt ==
  /\ FAILED_EXIT_CODE \in Int /\ CREATE_FAILED \in Int
  /\ ExitCode \subseteq Int /\ Signal \subseteq Int
  BY ConstantsAssumption DEF FAILED_EXIT_CODE, CREATE_FAILED

\* None is none of the values it stands beside.
LEMMA NoneFacts ==
  /\ None \notin Int /\ None \notin Pid /\ None \notin Child
  /\ None \notin WaitStatus /\ None \notin ExitData /\ None \notin Answer
  BY ConstantsAssumption DEF ExitData, Answer

\* wait_for_exit_code turns every status of an ended process into a number.
LEMMA ExitCodeInt ==
  \A ws \in WaitStatus : ToExitCode(ws) \in Int
  <1> SUFFICES ASSUME NEW ws \in WaitStatus PROVE ToExitCode(ws) \in Int
    OBVIOUS
  <1>1. CASE ws \in {"exited"} \X ExitCode
    <2>1. PICK code \in ExitCode : ws = <<"exited", code>>
      BY <1>1
    <2>2. code \in Int
      BY CodesInt
    <2> QED BY <2>1, <2>2 DEF ToExitCode
  <1>2. CASE ws \in {"signaled"} \X (Signal \cup {SIGTERM, SIGKILL})
    <2>1. PICK sig \in Signal \cup {SIGTERM, SIGKILL} : ws = <<"signaled", sig>>
      BY <1>2
    <2>2. sig \in Int
      BY CodesInt DEF SIGTERM, SIGKILL
    <2> QED BY <2>1, <2>2 DEF ToExitCode
  <1> QED BY <1>1, <1>2 DEF WaitStatus

\* The initial state satisfies Inv.
LEMMA InitInv == Init => Inv
  <1> SUFFICES ASSUME Init PROVE Inv
    OBVIOUS
  <1>1. TypeOK
    BY DEF Init, TypeOK, NoExit, ExitData
  <1>2. \A c \in Child : ~exit[c].timedOut /\ ~exit[c].oomed
    BY DEF Init, NoExit
  <1>3. ProcessInv /\ HandlerInv /\ WaiterInv
    BY DEF Init, ProcessInv, HandlerInv, WaiterInv
  <1>4. WatchInv /\ CleanupInv /\ MapInv /\ OomInv
    BY <1>2 DEF Init, WatchInv, CleanupInv, MapInv, OomInv
  <1>5. AnswerInv /\ KillInv
    BY ConstantsAssumption DEF Init, AnswerInv, KillInv
  <1> QED BY <1>1, <1>3, <1>4, <1>5 DEF Inv

\* A process that dies leaves a wait status, and keeps its pid.
LEMMA DieProcess ==
  ASSUME Inv, NEW c \in Child, NEW ws \in WaitStatus, Die(c, ws), UNCHANGED pid
  PROVE  ProcessInv'
  <1>1. /\ process' = [process EXCEPT ![c] = "zombie"] /\ process[c] = "running"
        /\ status' = [status EXCEPT ![c] = ws] /\ ws # None
    BY NoneFacts DEF Die
  <1>2. /\ \A d \in Child \ {c} : process'[d] = process[d] /\ status'[d] = status[d]
        /\ process'[c] = "zombie" /\ status'[c] = ws
    BY <1>1 DEF Inv, TypeOK
  <1> QED BY <1>1, <1>2 DEF Inv, ProcessInv

\* What the kernel does to a process preserves Inv.
LEMMA KernelStepInv ==
  ASSUME Inv, NEW c \in Child, KernelStep(c)
  PROVE  Inv'
  <1> USE DEF kernel, request, registry, watching, waiting, ooming, cleaning,
              killing
  <1>1. CASE Exit(c)
    <2>1. PICK ws \in ({"exited"} \X ExitCode) \cup ({"signaled"} \X (Signal \cup signals[c])) :
            Die(c, ws)
      BY <1>1 DEF Exit
    <2>2. signals[c] \subseteq {SIGTERM, SIGKILL}
      BY DEF TypeOK, Inv
    <2>3. ws \in WaitStatus
      BY <2>2 DEF WaitStatus
    <2>4. TypeOK'
      BY <1>1, <2>1, <2>3 DEF Exit, Die, TypeOK, Inv
    <2>5. ProcessInv'
      BY <1>1, <2>1, <2>3, DieProcess DEF Exit
    <2>6. /\ HandlerInv' /\ WaiterInv' /\ WatchInv' /\ CleanupInv'
        /\ MapInv' /\ OomInv' /\ AnswerInv' /\ KillInv'
      BY <1>1 DEF Exit, Die, TypeOK, Inv, HandlerInv, WaiterInv, WatchInv,
          CleanupInv, MapInv, OomInv, AnswerInv, KillInv, TrueCode, Gathered
    <2> QED BY <2>4, <2>5, <2>6 DEF Inv
  <1>2. CASE DieOfSigkill(c)
    <2>1. <<"signaled", SIGKILL>> \in WaitStatus
      BY DEF WaitStatus
    <2>2. TypeOK'
      BY <1>2, <2>1 DEF DieOfSigkill, Die, TypeOK, Inv
    <2>3. ProcessInv'
      BY <1>2, <2>1, DieProcess DEF DieOfSigkill
    <2>4. /\ HandlerInv' /\ WaiterInv' /\ WatchInv' /\ CleanupInv'
        /\ MapInv' /\ OomInv' /\ AnswerInv' /\ KillInv'
      BY <1>2 DEF DieOfSigkill, Die, TypeOK, Inv, HandlerInv, WaiterInv,
          WatchInv, CleanupInv, MapInv, OomInv, AnswerInv, KillInv, TrueCode,
          Gathered
    <2> QED BY <2>2, <2>3, <2>4 DEF Inv
  <1>3. CASE OomKill(c)
    <2>1. <<"signaled", SIGKILL>> \in WaitStatus
      BY DEF WaitStatus
    <2>2. TypeOK'
      BY <1>3, <2>1 DEF OomKill, Die, TypeOK, Inv
    <2>3. ProcessInv'
      BY <1>3, <2>1, DieProcess DEF OomKill
    <2>4. /\ HandlerInv' /\ WaiterInv' /\ WatchInv' /\ CleanupInv'
        /\ MapInv' /\ OomInv' /\ AnswerInv' /\ KillInv'
      BY <1>3 DEF OomKill, Die, TypeOK, Inv, HandlerInv, WaiterInv, WatchInv,
          CleanupInv, MapInv, OomInv, AnswerInv, KillInv, TrueCode, Gathered
    <2> QED BY <2>2, <2>3, <2>4 DEF Inv
  <1>4. CASE MemoryEvent(c)
    <2>1. PICK oom \in {oomEvent[c], TRUE} : oomEvent' = [oomEvent EXCEPT ![c] = oom]
      BY <1>4 DEF MemoryEvent
    <2>2. oomEvent[c] \in BOOLEAN
      BY DEF Inv, TypeOK
    <2>3. oom \in BOOLEAN /\ (oomEvent[c] => oom)
      <3>1. CASE oom = TRUE
        BY <3>1
      <3>2. CASE oom = oomEvent[c]
        BY <2>2, <3>2
      <3> QED BY <3>1, <3>2
    <2>4. oomEvent' \in [Child -> BOOLEAN] /\ notified' \in [Child -> BOOLEAN]
      BY <1>4, <2>1, <2>3 DEF MemoryEvent, Inv, TypeOK
    <2>5. TypeOK'
      BY <1>4, <2>4 DEF MemoryEvent, TypeOK, Inv
    <2>6. OomInv'
      BY <1>4, <2>1, <2>3 DEF MemoryEvent, TypeOK, Inv, OomInv
    <2>7. /\ ProcessInv' /\ HandlerInv' /\ WaiterInv' /\ WatchInv'
        /\ CleanupInv' /\ MapInv' /\ AnswerInv' /\ KillInv'
      BY <1>4 DEF MemoryEvent, TypeOK, Inv, ProcessInv, HandlerInv, WaiterInv,
          WatchInv, CleanupInv, MapInv, AnswerInv, KillInv, TrueCode, Gathered
    <2> QED BY <2>5, <2>6, <2>7 DEF Inv
  <1>5. CASE Elapse(c)
    <2>1. TypeOK'
      BY <1>5 DEF Elapse, TypeOK, Inv
    <2>2. /\ ProcessInv' /\ HandlerInv' /\ WaiterInv' /\ WatchInv'
        /\ CleanupInv' /\ MapInv' /\ OomInv' /\ AnswerInv'
        /\ KillInv'
      BY <1>5 DEF Elapse, TypeOK, Inv, ProcessInv, HandlerInv, WaiterInv,
          WatchInv, CleanupInv, MapInv, OomInv, AnswerInv, KillInv, TrueCode,
          Gathered
    <2> QED BY <2>1, <2>2 DEF Inv
  <1> QED BY <1>1, <1>2, <1>3, <1>4, <1>5 DEF KernelStep

\* A process that comes out of the runtime preserves Inv, whether or not its
\* handler is still there.
LEMMA BornInv ==
  ASSUME Inv, NEW c \in Child, Born(c),
         \/ rpc[c] = "runtime" /\ rpc' = [rpc EXCEPT ![c] = "pidfile"]
         \/ rpc[c] = "orphaned" /\ rpc' = [rpc EXCEPT ![c] = "dropped"]
  PROVE  Inv'
  <1> USE DEF kernel, request, registry, watching, waiting, ooming, cleaning,
              killing
  <1>1. PICK p \in Pid : FreePid(p) /\ pid' = [pid EXCEPT ![c] = p]
    BY DEF Born
  <1>2. process[c] = "unborn" /\ pid[c] = None /\ status[c] = None
    BY DEF Inv, HandlerInv, ProcessInv
  <1>3. TypeOK'
    BY <1>1 DEF Born, TypeOK, Inv
  <1>4. ProcessInv'
    BY <1>1, <1>2, NoneFacts DEF Born, TypeOK, Inv, ProcessInv
  <1>5. WaiterInv'
    BY <1>2 DEF Born, TypeOK, Inv, WaiterInv, TrueCode
  <1>6. WatchInv'
    BY <1>2 DEF Born, TypeOK, Inv, WatchInv, Gathered, TrueCode
  <1>7. MapInv'
    BY <1>1 DEF Born, FreePid, TypeOK, Inv, MapInv
  <1>8. HandlerInv'
    BY DEF Born, TypeOK, Inv, HandlerInv
  <1>9. CleanupInv' /\ OomInv' /\ KillInv'
    BY DEF Born, Inv, CleanupInv, OomInv, KillInv
  <1>10. AnswerInv'
    <2>1. rpc'[c] # "answered" /\ \A d \in Child \ {c} : rpc'[d] = rpc[d]
      BY DEF Inv, TypeOK
    <2>2. \A d \in Child \ {c} : process'[d] = process[d]
      BY DEF Born, Inv, TypeOK
    <2>3. UNCHANGED <<position, answer, elapsed, status>>
      BY DEF Born
    <2> QED BY <2>1, <2>2, <2>3, ConstantsAssumption DEF Inv, AnswerInv, TrueCode
  <1> QED BY <1>3, <1>4, <1>5, <1>6, <1>7, <1>8, <1>9, <1>10 DEF Inv

\* So does a create_child that fails, and the answer to it.
LEMMA FailsInv ==
  ASSUME Inv, NEW c \in Child,
         \/ rpc[c] = "idle" /\ (Refuse(c) \/ CreateChildFails(c, "stuck"))
         \/ rpc[c] \in {"runtime", "pidfile"} /\ CreateChildFails(c, "failing")
         \/ rpc[c] = "failing" /\ Refuse(c),
         token' \in [Child -> BOOLEAN],
         UNCHANGED <<kernel, readTimedOut, registry, watching, waiting, ooming,
                     cleaning, killing>>
  PROVE  Inv'
  <1> USE DEF kernel, request, registry, watching, waiting, ooming, cleaning,
              killing
  <1>1. FailedAnswer(c) \in Answer
    BY CodesInt DEF FailedAnswer, Answer
  <1>2. \E state \in {"answered", "failing", "stuck"} :
           /\ rpc' = [rpc EXCEPT ![c] = state]
           /\ state = "stuck" => rpc[c] = "idle"
    BY DEF Refuse, CreateChildFails
  <1>3. position[c] = 0 /\ answer' \in [Child -> Answer \cup {None}]
        /\ \A d \in Child \ {c} : answer'[d] = answer[d]
    BY <1>1 DEF Refuse, CreateChildFails, Inv, TypeOK, HandlerInv
  <1>4. TypeOK'
    <2>1. rpc' \in [Child -> {"idle", "runtime", "pidfile", "created", "reading", "waiting",
                              "failing", "stuck", "answered", "orphaned", "dropped"}]
      BY <1>2 DEF TypeOK, Inv
    <2> QED BY <1>3, <2>1 DEF TypeOK, Inv
  <1>5. AnswerInv'
    BY <1>2, <1>3, ConstantsAssumption DEF TypeOK, Inv, AnswerInv, TrueCode
  <1>6. HandlerInv'
    BY <1>2, <1>3 DEF TypeOK, Inv, HandlerInv
  <1>7. ProcessInv' /\ WaiterInv' /\ WatchInv' /\ CleanupInv'
    BY DEF Inv, ProcessInv, WaiterInv, WatchInv, CleanupInv, TrueCode, Gathered
  <1>8. MapInv' /\ OomInv' /\ KillInv'
    BY DEF Inv, MapInv, OomInv, KillInv
  <1> QED BY <1>4, <1>5, <1>6, <1>7, <1>8 DEF Inv

\* The RPC handlers preserve Inv.
LEMMA RpcStepInv ==
  ASSUME Inv, NEW c \in Child, RpcStep(c)
  PROVE  Inv'
  <1> USE DEF kernel, request, registry, watching, waiting, ooming, cleaning,
              killing
  <1>1. CASE CreateChild(c)
    <2>1. TypeOK'
      BY <1>1 DEF CreateChild, TypeOK, Inv
    <2>2. /\ ProcessInv' /\ HandlerInv' /\ WaiterInv' /\ WatchInv'
        /\ CleanupInv' /\ MapInv' /\ OomInv' /\ AnswerInv'
        /\ KillInv'
      BY <1>1 DEF CreateChild, TypeOK, Inv, ProcessInv, HandlerInv, WaiterInv,
          WatchInv, CleanupInv, MapInv, OomInv, AnswerInv, KillInv, TrueCode,
          Gathered
    <2> QED BY <2>1, <2>2 DEF Inv
  <1>2. CASE RuntimeSucceeds(c)
    BY <1>2, BornInv DEF RuntimeSucceeds
  <1>3. CASE CreateFails(c) \/ RuntimeFails(c) \/ PidfileFails(c) \/ FailureRead(c)
    <2>1. token' \in [Child -> BOOLEAN]
      BY <1>3 DEF CreateFails, RuntimeFails, PidfileFails, FailureRead, Inv, TypeOK
    <2> QED BY <1>3, <2>1, FailsInv
            DEF CreateFails, RuntimeFails, PidfileFails, FailureRead
  <1>4. CASE ReadPidfile(c)
    <2>1. TypeOK'
      BY <1>4 DEF ReadPidfile, TypeOK, Inv
    <2>2. /\ ProcessInv' /\ HandlerInv' /\ WaiterInv' /\ WatchInv'
        /\ CleanupInv' /\ MapInv' /\ OomInv' /\ AnswerInv'
        /\ KillInv'
      BY <1>4 DEF ReadPidfile, TypeOK, Inv, ProcessInv, HandlerInv, WaiterInv,
          WatchInv, CleanupInv, MapInv, OomInv, AnswerInv, KillInv, TrueCode,
          Gathered
    <2> QED BY <2>1, <2>2 DEF Inv
  <1>5. CASE OrphanEnds(c)
    <2>1. CASE Born(c)
      BY <1>5, <2>1, BornInv DEF OrphanEnds
    <2>2. CASE ~Born(c)
      <3>1. TypeOK'
        BY <1>5, <2>2 DEF OrphanEnds, TypeOK, Inv
      <3>2. HandlerInv' /\ AnswerInv'
        BY <1>5, <2>2 DEF OrphanEnds, TypeOK, Inv, HandlerInv, AnswerInv, TrueCode
      <3>3. /\ ProcessInv' /\ WaiterInv' /\ WatchInv' /\ CleanupInv'
            /\ MapInv' /\ OomInv' /\ KillInv'
        BY <1>5, <2>2 DEF OrphanEnds, TypeOK, Inv, ProcessInv, WaiterInv, WatchInv,
           CleanupInv, MapInv, OomInv, KillInv, TrueCode, Gathered
      <3> QED BY <3>1, <3>2, <3>3 DEF Inv
    <2> QED BY <2>1, <2>2
  <1>6. CASE Disconnect(c)
    <2>1. TypeOK'
      BY <1>6 DEF Disconnect, TypeOK, Inv
    <2>2. /\ ProcessInv' /\ HandlerInv' /\ WaiterInv' /\ WatchInv'
        /\ CleanupInv' /\ MapInv' /\ OomInv' /\ AnswerInv'
        /\ KillInv'
      BY <1>6 DEF Disconnect, TypeOK, Inv, ProcessInv, HandlerInv, WaiterInv,
          WatchInv, CleanupInv, MapInv, OomInv, AnswerInv, KillInv, TrueCode,
          Gathered
    <2> QED BY <2>1, <2>2 DEF Inv
  <1>7. CASE WatchGrandchild(c)
    <2>1. Cardinality({d \in Child : position[d] > 0}) \in Nat
      BY ConstantsAssumption, FS_Subset, FS_CardinalityType
    <2>2. /\ position[c] = 0 /\ process[c] # "unborn"
          /\ watch[c] = "none" /\ ~exit[c].timedOut
          /\ exitFile[c] = None /\ published[c] = None
      BY <1>7 DEF WatchGrandchild, TypeOK, Inv, HandlerInv, WatchInv
    <2>3. TypeOK'
      <3>1. answer' \in [Child -> Answer \cup {None}]
        <4>1. [code |-> 0, timedOut |-> FALSE] \in Answer
          BY DEF Answer
        <4>2. \/ answer' = answer
              \/ answer' = [answer EXCEPT ![c] = [code |-> 0, timedOut |-> FALSE]]
          BY <1>7 DEF WatchGrandchild
        <4>3. answer \in [Child -> Answer \cup {None}]
          BY DEF TypeOK, Inv
        <4> QED BY <4>1, <4>2, <4>3
      <3>2. leakFds' \in [Child -> BOOLEAN]
        BY <1>7 DEF WatchGrandchild, TypeOK, Inv
      <3>3. position' \in [Child -> Nat]
        BY <1>7, <2>1 DEF WatchGrandchild, TypeOK, Inv
      <3> QED
        BY <1>7, <3>1, <3>2, <3>3 DEF WatchGrandchild, TypeOK, Inv
    <2>4. HandlerInv'
      BY <1>7, <2>1, <2>2 DEF WatchGrandchild, TypeOK, Inv, HandlerInv
    <2>5. WatchInv'
      BY <1>7, <2>2 DEF WatchGrandchild, TypeOK, Inv, WatchInv, Gathered,
          TrueCode
    <2>6. CleanupInv'
      <3>1. c \in Container => leakFds'[c]
        BY <1>7 DEF WatchGrandchild, TypeOK, Inv
      <3>2. \A d \in Child \ {c} : leakFds'[d] = leakFds[d] /\ position'[d] = position[d]
        BY <1>7 DEF WatchGrandchild, TypeOK, Inv
      <3>3. published' = published /\ cleanup' = [cleanup EXCEPT ![c] = "spawned"]
        BY <1>7 DEF WatchGrandchild
      <3> QED
        BY <2>2, <3>1, <3>2, <3>3 DEF TypeOK, Inv, CleanupInv
    <2>7. AnswerInv'
      <3>1. c \in Exec => rpc'[c] # "answered"
        BY <1>7 DEF WatchGrandchild, TypeOK, Inv
      <3>2. \A d \in Child \ {c} : /\ rpc'[d] = rpc[d] /\ answer'[d] = answer[d]
                                  /\ position'[d] = position[d]
        BY <1>7 DEF WatchGrandchild, TypeOK, Inv
      <3>3. UNCHANGED <<elapsed, process, status>>
        BY <1>7 DEF WatchGrandchild
      <3> QED
        BY <3>1, <3>2, <3>3, ConstantsAssumption DEF Inv, AnswerInv, TrueCode
    <2>8. KillInv'
      BY <1>7, <2>2 DEF WatchGrandchild, TypeOK, Inv, KillInv
    <2>9. /\ ProcessInv' /\ WaiterInv' /\ MapInv' /\ OomInv'
      BY <1>7 DEF WatchGrandchild, TypeOK, Inv, ProcessInv, WaiterInv, MapInv,
          OomInv, TrueCode
    <2> QED BY <2>3, <2>4, <2>5, <2>6, <2>7, <2>8, <2>9 DEF Inv
  <1>8. CASE ExecReadEof(c)
    <2>1. TypeOK'
      BY <1>8 DEF ExecReadEof, TypeOK, Inv
    <2>2. /\ ProcessInv' /\ HandlerInv' /\ WaiterInv' /\ WatchInv'
        /\ CleanupInv' /\ MapInv' /\ OomInv' /\ AnswerInv'
        /\ KillInv'
      BY <1>8 DEF ExecReadEof, TypeOK, Inv, ProcessInv, HandlerInv, WaiterInv,
          WatchInv, CleanupInv, MapInv, OomInv, AnswerInv, KillInv, TrueCode,
          Gathered
    <2> QED BY <2>1, <2>2 DEF Inv
  <1>9. CASE ExecReadTimeout(c)
    <2>1. TypeOK'
      BY <1>9 DEF ExecReadTimeout, TypeOK, Inv
    <2>2. /\ ProcessInv' /\ HandlerInv' /\ WaiterInv' /\ WatchInv'
        /\ CleanupInv' /\ MapInv' /\ OomInv' /\ AnswerInv'
        /\ KillInv'
      BY <1>9 DEF ExecReadTimeout, TypeOK, Inv, ProcessInv, HandlerInv,
          WaiterInv, WatchInv, CleanupInv, MapInv, OomInv, AnswerInv, KillInv,
          TrueCode, Gathered
    <2> QED BY <2>1, <2>2 DEF Inv
  <1>10. CASE ExecAnswer(c)
    <2>1. published[c] # None /\ published[c] = exit[c] /\ Gathered(c)
      BY <1>10 DEF ExecAnswer, Inv, WatchInv
    <2>2. exit[c] \in ExitData
      BY DEF Inv, TypeOK
    <2>3. ExecResult(c) \in Answer
      BY <2>1, <2>2 DEF ExecResult, ExitData, Answer, Inv, TypeOK
    <2>4. IF ExecResult(c).timedOut THEN elapsed[c] ELSE TrueCode(c, ExecResult(c).code)
      BY <2>1, <2>2 DEF ExecResult, ExitData, Gathered, Inv, TypeOK, WaiterInv
    <2>5. TypeOK'
      BY <1>10, <2>3 DEF ExecAnswer, TypeOK, Inv
    <2>6. AnswerInv'
      BY <1>10, <2>3, <2>4, NoneFacts DEF ExecAnswer, TypeOK, Inv, AnswerInv,
          TrueCode
    <2>7. /\ ProcessInv' /\ HandlerInv' /\ WaiterInv' /\ WatchInv'
        /\ CleanupInv' /\ MapInv' /\ OomInv' /\ KillInv'
      BY <1>10 DEF ExecAnswer, TypeOK, Inv, ProcessInv, HandlerInv, WaiterInv,
          WatchInv, CleanupInv, MapInv, OomInv, KillInv, TrueCode, Gathered
    <2> QED BY <2>5, <2>6, <2>7 DEF Inv
  <1>11. CASE StdinEof(c)
    <2>1. TypeOK'
      BY <1>11 DEF StdinEof, TypeOK, Inv
    <2>2. /\ ProcessInv' /\ HandlerInv' /\ WaiterInv' /\ WatchInv'
        /\ CleanupInv' /\ MapInv' /\ OomInv' /\ AnswerInv'
        /\ KillInv'
      BY <1>11 DEF StdinEof, TypeOK, Inv, ProcessInv, HandlerInv, WaiterInv,
          WatchInv, CleanupInv, MapInv, OomInv, AnswerInv, KillInv, TrueCode,
          Gathered
    <2> QED BY <2>1, <2>2 DEF Inv
  <1> QED BY <1>1, <1>2, <1>3, <1>4, <1>5, <1>6, <1>7, <1>8, <1>9, <1>10, <1>11 DEF RpcStep

\* The watch task and its waitpid thread preserve Inv.
LEMMA WatchStepInv ==
  ASSUME Inv, NEW c \in Child, WatchStep(c)
  PROVE  Inv'
  <1> USE DEF kernel, request, registry, watching, waiting, ooming, cleaning,
              killing
  <1>1. CASE WatchStart(c)
    <2>1. TypeOK'
      BY <1>1 DEF WatchStart, TypeOK, Inv
    <2>2. /\ ProcessInv' /\ HandlerInv' /\ WaiterInv' /\ WatchInv'
        /\ CleanupInv' /\ MapInv' /\ OomInv' /\ AnswerInv'
        /\ KillInv'
      BY <1>1 DEF WatchStart, TypeOK, Inv, ProcessInv, HandlerInv, WaiterInv,
          WatchInv, CleanupInv, MapInv, OomInv, AnswerInv, KillInv, TrueCode,
          Gathered
    <2> QED BY <2>1, <2>2 DEF Inv
  <1>2. CASE WaitForExitCode(c)
    <2>1. status[c] \in WaitStatus /\ ToExitCode(status[c]) \in Int
      BY <1>2, ExitCodeInt DEF WaitForExitCode, Inv, TypeOK, ProcessInv
    <2>2. TypeOK'
      BY <1>2, <2>1 DEF WaitForExitCode, TypeOK, Inv
    <2>3. WaiterInv'
      BY <1>2, <2>1 DEF WaitForExitCode, TypeOK, Inv, WaiterInv, TrueCode
    <2>4. /\ ProcessInv' /\ HandlerInv' /\ WatchInv' /\ CleanupInv'
        /\ MapInv' /\ OomInv' /\ AnswerInv' /\ KillInv'
      BY <1>2 DEF WaitForExitCode, TypeOK, Inv, ProcessInv, HandlerInv,
          WatchInv, CleanupInv, MapInv, OomInv, AnswerInv, KillInv, Gathered,
          TrueCode
    <2> QED BY <2>2, <2>3, <2>4 DEF Inv
  <1>3. CASE WaitpidError(c)
    <2>1. TypeOK'
      BY <1>3, CodesInt DEF WaitpidError, TypeOK, Inv
    <2>2. WaiterInv'
      BY <1>3, CodesInt DEF WaitpidError, TypeOK, Inv, WaiterInv, TrueCode
    <2>3. /\ ProcessInv' /\ HandlerInv' /\ WatchInv' /\ CleanupInv'
        /\ MapInv' /\ OomInv' /\ AnswerInv' /\ KillInv'
      BY <1>3 DEF WaitpidError, TypeOK, Inv, ProcessInv, HandlerInv, WatchInv,
          CleanupInv, MapInv, OomInv, AnswerInv, KillInv, Gathered, TrueCode
    <2> QED BY <2>1, <2>2, <2>3 DEF Inv
  <1>4. CASE JoinDone(c)
    <2>1. waitCode[c] \in Int /\ TrueCode(c, waitCode[c]) /\ ~exit[c].timedOut
      BY <1>4 DEF JoinDone, Joined, Inv, WaiterInv, WatchInv
    <2>2. exit[c] \in ExitData
      BY DEF Inv, TypeOK
    <2>3. /\ JoinedExit(c) \in ExitData
          /\ JoinedExit(c).code = waitCode[c] /\ JoinedExit(c).timedOut = exit[c].timedOut
          /\ JoinedExit(c).oomed = (oomChan[c] = "oom")
      BY <2>1, <2>2 DEF JoinedExit, ExitData
    <2>4. TypeOK'
      BY <1>4, <2>3 DEF JoinDone, TypeOK, Inv
    <2>5. WatchInv'
      BY <1>4, <2>1, <2>3 DEF JoinDone, TypeOK, Inv, WatchInv, Gathered,
          TrueCode
    <2>6. OomInv'
      BY <1>4, <2>3 DEF JoinDone, TypeOK, Inv, OomInv
    <2>7. /\ ProcessInv' /\ HandlerInv' /\ WaiterInv' /\ CleanupInv'
        /\ MapInv' /\ AnswerInv' /\ KillInv'
      BY <1>4 DEF JoinDone, TypeOK, Inv, ProcessInv, HandlerInv, WaiterInv,
          CleanupInv, MapInv, AnswerInv, KillInv, TrueCode
    <2> QED BY <2>4, <2>5, <2>6, <2>7 DEF Inv
  <1>5. CASE JoinTimeout(c)
    <2>1. exit[c] \in ExitData
      BY DEF Inv, TypeOK
    <2>2. [exit[c] EXCEPT !.code = FAILED_EXIT_CODE, !.timedOut = TRUE] \in ExitData
      BY <2>1, CodesInt DEF ExitData
    <2>3. signals' \in [Child -> SUBSET {SIGTERM, SIGKILL}]
      BY <1>5 DEF JoinTimeout, Signalled, Inv, TypeOK
    <2>4. TypeOK'
      BY <1>5, <2>2, <2>3 DEF JoinTimeout, TypeOK, Inv
    <2>5. /\ ProcessInv' /\ HandlerInv' /\ WaiterInv' /\ WatchInv'
        /\ CleanupInv' /\ MapInv' /\ OomInv' /\ AnswerInv'
        /\ KillInv'
      BY <1>5 DEF JoinTimeout, TypeOK, Inv, ProcessInv, HandlerInv, WaiterInv,
          WatchInv, CleanupInv, MapInv, OomInv, AnswerInv, KillInv, TrueCode,
          Gathered
    <2> QED BY <2>4, <2>5 DEF Inv
  <1>6. CASE WriteExitPaths(c)
    <2>1. exit[c].code \in Int
      BY DEF Inv, TypeOK, ExitData
    <2>2. TypeOK'
      BY <1>6, <2>1 DEF WriteExitPaths, TypeOK, Inv
    <2>3. WatchInv'
      <3>1. PICK written \in Written(c) :
              exitFile' = IF c \in Container /\ written
                          THEN [exitFile EXCEPT ![c] = exit[c].code] ELSE exitFile
        BY <1>6 DEF WriteExitPaths
      <3>2. c \in Container \ Unwritable => exitFile'[c] # None
        BY <2>1, <3>1, NoneFacts DEF Written, Inv, TypeOK
      <3>3. exitFile'[c] # None => c \in Container /\ exitFile'[c] = exit[c].code
        BY <1>6, <3>1 DEF WriteExitPaths, Inv, TypeOK, WatchInv
      <3>4. \A d \in Child \ {c} : exitFile'[d] = exitFile[d]
        BY <3>1 DEF Inv, TypeOK
      <3> QED BY <1>6, <3>2, <3>3, <3>4 DEF WriteExitPaths, TypeOK, Inv, WatchInv,
              Gathered, TrueCode
    <2>4. /\ ProcessInv' /\ HandlerInv' /\ WaiterInv' /\ CleanupInv'
        /\ MapInv' /\ OomInv' /\ AnswerInv' /\ KillInv'
      BY <1>6 DEF WriteExitPaths, TypeOK, Inv, ProcessInv, HandlerInv,
          WaiterInv, CleanupInv, MapInv, OomInv, AnswerInv, KillInv, TrueCode
    <2> QED BY <2>2, <2>3, <2>4 DEF Inv
  <1>7. CASE SendExit(c)
    <2>1. exit[c] \in ExitData /\ exit[c] # None
      BY NoneFacts DEF Inv, TypeOK
    <2>2. TypeOK'
      BY <1>7, <2>1 DEF SendExit, TypeOK, Inv
    <2>3. WatchInv'
      BY <1>7, <2>1 DEF SendExit, TypeOK, Inv, WatchInv, Gathered, TrueCode
    <2>4. CleanupInv'
      BY <1>7, <2>1 DEF SendExit, TypeOK, Inv, CleanupInv
    <2>5. MapInv'
      BY <1>7, <2>1 DEF SendExit, TypeOK, Inv, MapInv
    <2>6. /\ ProcessInv' /\ HandlerInv' /\ WaiterInv' /\ OomInv'
        /\ AnswerInv' /\ KillInv'
      BY <1>7 DEF SendExit, TypeOK, Inv, ProcessInv, HandlerInv, WaiterInv,
          OomInv, AnswerInv, KillInv, TrueCode
    <2> QED BY <2>2, <2>3, <2>4, <2>5, <2>6 DEF Inv
  <1> QED BY <1>1, <1>2, <1>3, <1>4, <1>5, <1>6, <1>7 DEF WatchStep

\* The OOM task preserves Inv.
LEMMA OomStepInv ==
  ASSUME Inv, NEW c \in Child, OomStep(c)
  PROVE  Inv'
  <1> USE DEF kernel, request, registry, watching, waiting, ooming, cleaning,
              killing
  <1>1. CASE OomWatch(c)
    <2>1. TypeOK'
      BY <1>1 DEF OomWatch, TypeOK, Inv
    <2>2. /\ ProcessInv' /\ HandlerInv' /\ WaiterInv' /\ WatchInv'
        /\ CleanupInv' /\ MapInv' /\ OomInv' /\ AnswerInv'
        /\ KillInv'
      BY <1>1 DEF OomWatch, TypeOK, Inv, ProcessInv, HandlerInv, WaiterInv,
          WatchInv, CleanupInv, MapInv, OomInv, AnswerInv, KillInv, TrueCode,
          Gathered
    <2> QED BY <2>1, <2>2 DEF Inv
  <1>2. CASE OomNoCgroup(c)
    <2>1. TypeOK'
      BY <1>2 DEF OomNoCgroup, OomDone, TypeOK, Inv
    <2>2. OomInv'
      BY <1>2 DEF OomNoCgroup, OomDone, TypeOK, Inv, OomInv
    <2>3. /\ ProcessInv' /\ HandlerInv' /\ WaiterInv' /\ WatchInv'
        /\ CleanupInv' /\ MapInv' /\ AnswerInv' /\ KillInv'
      BY <1>2 DEF OomNoCgroup, OomDone, TypeOK, Inv, ProcessInv, HandlerInv,
          WaiterInv, WatchInv, CleanupInv, MapInv, AnswerInv, KillInv, TrueCode,
          Gathered
    <2> QED BY <2>1, <2>2, <2>3 DEF Inv
  <1>3. CASE OomCancelled(c)
    <2>1. TypeOK'
      BY <1>3 DEF OomCancelled, OomDone, TypeOK, Inv
    <2>2. OomInv'
      BY <1>3 DEF OomCancelled, OomDone, TypeOK, Inv, OomInv
    <2>3. /\ ProcessInv' /\ HandlerInv' /\ WaiterInv' /\ WatchInv'
        /\ CleanupInv' /\ MapInv' /\ AnswerInv' /\ KillInv'
      BY <1>3 DEF OomCancelled, OomDone, TypeOK, Inv, ProcessInv, HandlerInv,
          WaiterInv, WatchInv, CleanupInv, MapInv, AnswerInv, KillInv, TrueCode,
          Gathered
    <2> QED BY <2>1, <2>2, <2>3 DEF Inv
  <1>4. CASE OomRemoved(c)
    <2>1. TypeOK'
      BY <1>4 DEF OomRemoved, OomDone, TypeOK, Inv
    <2>2. OomInv'
      BY <1>4 DEF OomRemoved, OomDone, TypeOK, Inv, OomInv
    <2>3. /\ ProcessInv' /\ HandlerInv' /\ WaiterInv' /\ WatchInv'
        /\ CleanupInv' /\ MapInv' /\ AnswerInv' /\ KillInv'
      BY <1>4 DEF OomRemoved, OomDone, TypeOK, Inv, ProcessInv, HandlerInv,
          WaiterInv, WatchInv, CleanupInv, MapInv, AnswerInv, KillInv, TrueCode,
          Gathered
    <2> QED BY <2>1, <2>2, <2>3 DEF Inv
  <1>5. CASE OomFound(c)
    <2>4. PICK written \in Written(c) : oomFile' = [oomFile EXCEPT ![c] = written]
      BY <1>5 DEF OomFound
    <2>5. written \in BOOLEAN /\ (written \/ c \in Unwritable)
      BY DEF Written
    <2>1. TypeOK'
      BY <1>5, <2>4, <2>5 DEF OomFound, OomDone, TypeOK, Inv
    <2>2. OomInv'
      <3>1. oomFile'[c] = written /\ \A d \in Child \ {c} : oomFile'[d] = oomFile[d]
        BY <2>4 DEF Inv, TypeOK
      <3> QED BY <1>5, <2>5, <3>1 DEF OomFound, OomDone, CounterChanged, TypeOK, Inv,
              OomInv
    <2>3. /\ ProcessInv' /\ HandlerInv' /\ WaiterInv' /\ WatchInv'
        /\ CleanupInv' /\ MapInv' /\ AnswerInv' /\ KillInv'
      BY <1>5 DEF OomFound, OomDone, TypeOK, Inv, ProcessInv, HandlerInv,
          WaiterInv, WatchInv, CleanupInv, MapInv, AnswerInv, KillInv, TrueCode,
          Gathered
    <2> QED BY <2>1, <2>2, <2>3 DEF Inv
  <1>6. CASE OomNotFound(c)
    <2>1. TypeOK'
      BY <1>6 DEF OomNotFound, TypeOK, Inv
    <2>2. /\ ProcessInv' /\ HandlerInv' /\ WaiterInv' /\ WatchInv'
        /\ CleanupInv' /\ MapInv' /\ OomInv' /\ AnswerInv'
        /\ KillInv'
      BY <1>6 DEF OomNotFound, TypeOK, Inv, ProcessInv, HandlerInv, WaiterInv,
          WatchInv, CleanupInv, MapInv, OomInv, AnswerInv, KillInv, TrueCode,
          Gathered
    <2> QED BY <2>1, <2>2 DEF Inv
  <1> QED BY <1>1, <1>2, <1>3, <1>4, <1>5, <1>6 DEF OomStep

\* The cleanup task preserves Inv.
LEMMA CleanupStepInv ==
  ASSUME Inv, NEW c \in Child, CleanupStep(c)
  PROVE  Inv'
  <1> USE DEF kernel, request, registry, watching, waiting, ooming, cleaning,
              killing
  <1>1. CASE CleanupSubscribe(c)
    <2>1. TypeOK'
      BY <1>1 DEF CleanupSubscribe, TypeOK, Inv
    <2>2. /\ ProcessInv' /\ HandlerInv' /\ WaiterInv' /\ WatchInv'
        /\ CleanupInv' /\ MapInv' /\ OomInv' /\ AnswerInv'
        /\ KillInv'
      BY <1>1 DEF CleanupSubscribe, TypeOK, Inv, ProcessInv, HandlerInv,
          WaiterInv, WatchInv, CleanupInv, MapInv, OomInv, AnswerInv, KillInv,
          TrueCode, Gathered
    <2> QED BY <2>1, <2>2 DEF Inv
  <1>2. CASE CleanupRecv(c)
    <2>1. TypeOK'
      BY <1>2 DEF CleanupRecv, TypeOK, Inv
    <2>2. /\ ProcessInv' /\ HandlerInv' /\ WaiterInv' /\ WatchInv'
        /\ CleanupInv' /\ MapInv' /\ OomInv' /\ AnswerInv'
        /\ KillInv'
      BY <1>2 DEF CleanupRecv, TypeOK, Inv, ProcessInv, HandlerInv, WaiterInv,
          WatchInv, CleanupInv, MapInv, OomInv, AnswerInv, KillInv, TrueCode,
          Gathered
    <2> QED BY <2>1, <2>2 DEF Inv
  <1>3. CASE ForgetGrandchild(c)
    <2>1. TypeOK'
      BY <1>3 DEF ForgetGrandchild, Remaining, TypeOK, Inv
    <2>2. MapInv'
      <3>1. published[c] # None /\ pid[c] # None
        BY <1>3 DEF ForgetGrandchild, TypeOK, Inv, CleanupInv, HandlerInv,
            ProcessInv
      <3> QED
        BY <1>3, <3>1 DEF ForgetGrandchild, Remaining, TypeOK, Inv, MapInv
    <2>3. /\ ProcessInv' /\ HandlerInv' /\ WaiterInv' /\ WatchInv'
        /\ CleanupInv' /\ OomInv' /\ AnswerInv' /\ KillInv'
      BY <1>3 DEF ForgetGrandchild, TypeOK, Inv, ProcessInv, HandlerInv,
          WaiterInv, WatchInv, CleanupInv, OomInv, AnswerInv, KillInv, TrueCode,
          Gathered
    <2> QED BY <2>1, <2>2, <2>3 DEF Inv
  <1> QED BY <1>1, <1>2, <1>3 DEF CleanupStep

\* The signal handler preserves Inv.
LEMMA KillStepInv ==
  ASSUME Inv, KillStep
  PROVE  Inv'
  <1> USE DEF kernel, request, registry, watching, waiting, ooming, cleaning,
              killing
  <1>1. CASE ReceiveSignal
    <2>1. TypeOK'
      BY <1>1 DEF ReceiveSignal, TypeOK, Inv
    <2>2. /\ ProcessInv' /\ HandlerInv' /\ WaiterInv' /\ WatchInv'
        /\ CleanupInv' /\ MapInv' /\ OomInv' /\ AnswerInv'
        /\ KillInv'
      BY <1>1 DEF ReceiveSignal, TypeOK, Inv, ProcessInv, HandlerInv,
          WaiterInv, WatchInv, CleanupInv, MapInv, OomInv, AnswerInv, KillInv,
          TrueCode, Gathered
    <2> QED BY <2>1, <2>2 DEF Inv
  <1>2. CASE KillDone
    <2>1. TypeOK'
      BY <1>2 DEF KillDone, TypeOK, Inv
    <2>2. /\ ProcessInv' /\ HandlerInv' /\ WaiterInv' /\ WatchInv'
        /\ CleanupInv' /\ MapInv' /\ OomInv' /\ AnswerInv'
        /\ KillInv'
      BY <1>2 DEF KillDone, TypeOK, Inv, ProcessInv, HandlerInv, WaiterInv,
          WatchInv, CleanupInv, MapInv, OomInv, AnswerInv, KillInv, TrueCode,
          Gathered
    <2> QED BY <2>1, <2>2 DEF Inv
  <1>3. CASE ServerExit
    <2>1. TypeOK'
      BY <1>3 DEF ServerExit, TypeOK, Inv
    <2>2. /\ ProcessInv' /\ HandlerInv' /\ WaiterInv' /\ WatchInv'
        /\ CleanupInv' /\ MapInv' /\ OomInv' /\ AnswerInv'
        /\ KillInv'
      BY <1>3 DEF ServerExit, TypeOK, Inv, ProcessInv, HandlerInv, WaiterInv,
          WatchInv, CleanupInv, MapInv, OomInv, AnswerInv, KillInv, TrueCode,
          Gathered
    <2> QED BY <2>1, <2>2 DEF Inv
  <1>4. ASSUME NEW c \in Child, KillGrandchild(c) PROVE Inv'
    <2>1. TypeOK'
      <3>1. signals' \in [Child -> SUBSET {SIGTERM, SIGKILL}]
        BY <1>4 DEF KillGrandchild, Signalled, Inv, TypeOK
      <3> QED
        BY <1>4, <3>1 DEF KillGrandchild, TypeOK, Inv
    <2>2. /\ ProcessInv' /\ HandlerInv' /\ WaiterInv' /\ WatchInv'
        /\ CleanupInv' /\ MapInv' /\ OomInv' /\ AnswerInv'
        /\ KillInv'
      BY <1>4 DEF KillGrandchild, TypeOK, Inv, ProcessInv, HandlerInv,
          WaiterInv, WatchInv, CleanupInv, MapInv, OomInv, AnswerInv, KillInv,
          TrueCode, Gathered
    <2> QED BY <2>1, <2>2 DEF Inv
  <1>5. ASSUME NEW c \in Child, Close(c) PROVE Inv'
    <2>1. TypeOK'
      BY <1>5 DEF Close, TypeOK, Inv
    <2>2. /\ ProcessInv' /\ HandlerInv' /\ WaiterInv' /\ WatchInv'
        /\ CleanupInv' /\ MapInv' /\ OomInv' /\ AnswerInv'
        /\ KillInv'
      BY <1>5 DEF Close, TypeOK, Inv, ProcessInv, HandlerInv, WaiterInv,
          WatchInv, CleanupInv, MapInv, OomInv, AnswerInv, KillInv, TrueCode,
          Gathered
    <2> QED BY <2>1, <2>2 DEF Inv
  <1> QED BY <1>1, <1>2, <1>3, <1>4, <1>5 DEF KillStep, KillLoop

\* Every step preserves Inv.
LEMMA NextInv ==
  ASSUME Inv, [Next]_vars
  PROVE  Inv'
  <1>1. CASE UNCHANGED vars
    <2> USE <1>1 DEF vars, kernel, request, registry, watching, waiting, ooming,
            cleaning, killing
    <2>1. TypeOK' /\ ProcessInv' /\ HandlerInv' /\ WaiterInv'
      BY DEF Inv, TypeOK, ProcessInv, HandlerInv, WaiterInv, TrueCode
    <2>2. WatchInv' /\ CleanupInv' /\ MapInv'
      BY DEF Inv, WatchInv, Gathered, TrueCode, CleanupInv, MapInv
    <2>3. OomInv' /\ AnswerInv' /\ KillInv'
      BY DEF Inv, OomInv, AnswerInv, TrueCode, KillInv
    <2> QED BY <2>1, <2>2, <2>3 DEF Inv
  <1>2. CASE Next
    BY <1>2, KernelStepInv, RpcStepInv, WatchStepInv, OomStepInv, CleanupStepInv,
       KillStepInv DEF Next
  <1> QED BY <1>1, <1>2

\* Inv is an invariant of the reaper.
LEMMA AlwaysInv == Spec => []Inv
  BY InitInv, NextInv, PTL DEF Spec

-----------------------------------------------------------------------------
(* The theorems. *)

\* Every variable of the reaper keeps its type.
THEOREM TypeCorrect == Spec => []TypeOK
  BY AlwaysInv, PTL DEF Inv

\* The exit file of a container holds the code of its own reaped process,
\* whatever timeouts, OOM events, pid reuse and shutdowns happen around it (watch,
\* wait_for_exit_code, write_to_exit_paths).
THEOREM ExitFileCorrect == Spec => []ExitFileTruthful
  <1>1. Inv => ExitFileTruthful
    <2> SUFFICES ASSUME Inv, NEW c \in Container, exitFile[c] # None
                 PROVE  TrueCode(c, exitFile[c])
      BY DEF ExitFileTruthful
    <2>1. c \in Child /\ ~elapsed[c]
      BY ConstantsAssumption DEF Container, Inv, WaiterInv
    <2> QED BY <2>1 DEF Inv, WatchInv, Gathered
  <1> QED BY <1>1, AlwaysInv, PTL

\* leak_fds of a container are kept until its process has ended
\* (watch_grandchild).
THEOREM LeakFdsCorrect == Spec => []LeakFdsHeld
  <1>1. Inv => LeakFdsHeld
    <2> SUFFICES ASSUME Inv, NEW c \in Container \ Unwaitable,
                        position[c] > 0, process[c] = "running", ~leakFds[c]
                 PROVE  FALSE
      BY DEF LeakFdsHeld
    <2>1. c \in Child /\ ~elapsed[c]
      BY ConstantsAssumption DEF Container, Inv, WaiterInv
    <2>2. Gathered(c)
      BY <2>1 DEF Inv, CleanupInv, WatchInv
    <2> QED BY <2>1, <2>2 DEF Gathered, TrueCode
  <1> QED BY <1>1, AlwaysInv, PTL

\* exec_sync_container answers with the code of its process, or says that the
\* deadline passed, and then it did.
THEOREM ExecAnswerCorrect == Spec => []ExecAnswerTruthful
  <1>1. Inv => ExecAnswerTruthful
    BY DEF Inv, AnswerInv, ExecAnswerTruthful
  <1> QED BY <1>1, AlwaysInv, PTL

\* With pids that are not reused, no child leaves the map before its exit was
\* published (forget_grandchild).
THEOREM MapCorrect == Spec => []RegisteredUntilExit
  <1>1. Inv => RegisteredUntilExit
    BY DEF Inv, MapInv, RegisteredUntilExit
  <1> QED BY <1>1, AlwaysInv, PTL

\* An OOM is reported when there was one, and with its files unless these could
\* not be written (oom_handling_cgroup_v2 and watch).
THEOREM OomCorrect == Spec => []OomReportReal
  <1>1. Inv => OomReportReal
    BY DEF Inv, OomInv, WatchInv, OomReportReal
  <1> QED BY <1>1, AlwaysInv, PTL

\* What the signal handler has closed is recorded (kill_grandchildren, close).
THEOREM ShutdownCorrect == Spec => []ShutdownAwaitsExit
  <1>1. Inv => ShutdownAwaitsExit
    <2> SUFFICES ASSUME Inv, NEW c \in closed
                 PROVE  /\ published[c] # None
                        /\ c \in Container \ Unwritable => exitFile[c] # None
      BY DEF ShutdownAwaitsExit
    <2>1. c \in Child /\ watch[c] = "done"
      BY DEF Inv, TypeOK, KillInv
    <2> QED BY <2>1 DEF Inv, WatchInv
  <1> QED BY <1>1, AlwaysInv, PTL

-----------------------------------------------------------------------------
(* get(id) finds the container: where the map's order comes from. *)

Registered == {c \in Child : position[c] > 0}

\* No id is used for two containers.
UniqueIds == \A c, d \in Container : IdOf[c] = IdOf[d] => c = d

\* The runtime starts an exec once the creation of its container is over, and
\* positions are given out in the order of registration.
OrderInv ==
    /\ \A c \in Child : position[c] <= Cardinality(Registered)
    /\ \A c \in grandchildren : position[c] > 0
    /\ \A c \in Container, d \in Exec : IdOf[c] = IdOf[d] =>
          /\ process[d] # "unborn" => rpc[c] \in {"answered", "dropped"}
          /\ position[c] > 0 /\ position[d] > 0 => position[c] < position[d]

\* A step that makes no process, registers nobody and takes no handler back.
OrderQuiet ==
    /\ position' = position
    /\ grandchildren' \subseteq grandchildren
    /\ \A c \in Child :
          /\ process'[c] # "unborn" => process[c] # "unborn"
          /\ rpc[c] \in {"answered", "dropped"} => rpc'[c] = rpc[c]

\* Such a step preserves OrderInv.
LEMMA OrderQuietInv ==
  ASSUME OrderInv, OrderQuiet
  PROVE  OrderInv'
  <1>1. Container \subseteq Child /\ Exec \subseteq Child
    BY ConstantsAssumption DEF Container
  <1>2. Registered' = Registered
    BY DEF OrderQuiet, Registered
  <1> QED BY <1>1, <1>2 DEF OrderQuiet, OrderInv

\* A process comes out of the runtime.
Makes(c) == RuntimeSucceeds(c) \/ (OrphanEnds(c) /\ Born(c))

\* All steps but the ones that make and register a process are of this kind.
LEMMA OrderFrame ==
  ASSUME Inv, [Next]_vars,
         ~\E c \in Child : Makes(c) \/ WatchGrandchild(c)
  PROVE  OrderQuiet
  <1> USE DEF kernel, request, registry
  <1>1. CASE UNCHANGED vars
    BY <1>1 DEF vars, OrderQuiet
  <1>2. CASE KillStep
    <2>1. UNCHANGED <<registry, process, rpc>>
      BY <1>2 DEF KillStep, KillLoop, ReceiveSignal, KillDone, ServerExit, KillGrandchild,
         Close
    <2> QED BY <2>1 DEF OrderQuiet
  <1>3. ASSUME NEW c \in Child, KernelStep(c) PROVE OrderQuiet
    <2>1. /\ UNCHANGED <<registry, rpc>>
          /\ \/ process' = process
             \/ process' = [process EXCEPT ![c] = "zombie"] /\ process[c] = "running"
      BY <1>3 DEF KernelStep, Exit, DieOfSigkill, OomKill, MemoryEvent, Elapse, Die
    <2> QED BY <2>1 DEF OrderQuiet, Inv, TypeOK
  <1>4. ASSUME NEW c \in Child, RpcStep(c) PROVE OrderQuiet
    <2>1. CASE CreateFails(c) \/ RuntimeFails(c) \/ PidfileFails(c) \/ FailureRead(c)
      <3>1. UNCHANGED <<registry, process>>
        BY <2>1 DEF CreateFails, RuntimeFails, PidfileFails, FailureRead
      <3>2. /\ rpc[c] \notin {"answered", "dropped"}
            /\ \A d \in Child \ {c} : rpc'[d] = rpc[d]
        BY <2>1 DEF CreateFails, RuntimeFails, PidfileFails, FailureRead,
           CreateChildFails, Refuse, Inv, TypeOK
      <3> QED BY <3>1, <3>2 DEF OrderQuiet
    <2>2. CASE OrphanEnds(c)
      <3>1. UNCHANGED <<registry, process>>
        BY <1>4, <2>2 DEF OrphanEnds, Makes
      <3>2. /\ rpc[c] \notin {"answered", "dropped"}
            /\ \A d \in Child \ {c} : rpc'[d] = rpc[d]
        BY <2>2 DEF OrphanEnds, Inv, TypeOK
      <3> QED BY <3>1, <3>2 DEF OrderQuiet
    <2>3. CASE \/ CreateChild(c) \/ ReadPidfile(c) \/ Disconnect(c) \/ ExecReadEof(c)
               \/ ExecReadTimeout(c) \/ ExecAnswer(c) \/ StdinEof(c)
      <3>1. UNCHANGED <<registry, process>>
        BY <2>3 DEF CreateChild, ReadPidfile, Disconnect, ExecReadEof, ExecReadTimeout,
           ExecAnswer, StdinEof
      <3>2. \/ rpc' = rpc
            \/ /\ rpc[c] \notin {"answered", "dropped"}
               /\ \A d \in Child \ {c} : rpc'[d] = rpc[d]
        BY <2>3 DEF CreateChild, ReadPidfile, Disconnect, ExecReadEof, ExecReadTimeout,
           ExecAnswer, StdinEof, Inv, TypeOK
      <3> QED BY <3>1, <3>2 DEF OrderQuiet
    <2> QED BY <1>4, <2>1, <2>2, <2>3 DEF RpcStep, Makes
  <1>5. ASSUME NEW c \in Child, WatchStep(c) PROVE OrderQuiet
    <2>1. UNCHANGED <<registry, rpc>>
      BY <1>5 DEF WatchStep, WatchStart, WaitForExitCode, WaitpidError, JoinDone,
         JoinTimeout, WriteExitPaths, SendExit
    <2>2. \/ process' = process
          \/ process' = [process EXCEPT ![c] = "reaped"] /\ process[c] = "zombie"
      BY <1>5 DEF WatchStep, WatchStart, WaitForExitCode, WaitpidError, JoinDone,
         JoinTimeout, WriteExitPaths, SendExit
    <2> QED BY <2>1, <2>2 DEF OrderQuiet, Inv, TypeOK
  <1>6. ASSUME NEW c \in Child, OomStep(c) PROVE OrderQuiet
    <2>1. UNCHANGED <<registry, process, rpc>>
      BY <1>6 DEF OomStep, OomWatch, OomNoCgroup, OomCancelled, OomRemoved, OomFound,
         OomNotFound
    <2> QED BY <2>1 DEF OrderQuiet
  <1>7. ASSUME NEW c \in Child, CleanupStep(c) PROVE OrderQuiet
    <2>1. UNCHANGED <<position, process, rpc>> /\ grandchildren' \subseteq grandchildren
      BY <1>7 DEF CleanupStep, CleanupSubscribe, CleanupRecv, ForgetGrandchild, Remaining
    <2> QED BY <2>1 DEF OrderQuiet
  <1> QED BY <1>1, <1>2, <1>3, <1>4, <1>5, <1>6, <1>7 DEF Next

\* The runtime makes the process of an exec when its container was started.
LEMMA OrderRuntime ==
  ASSUME UniqueIds, Inv, OrderInv, NEW e \in Child, Makes(e)
  PROVE  OrderInv'
  <1>1. Container \subseteq Child /\ Exec \subseteq Child
    BY ConstantsAssumption DEF Container
  <1>2. /\ registry' = registry /\ rpc[e] \notin {"answered", "dropped"}
        /\ \E state \in {"pidfile", "dropped"} : rpc' = [rpc EXCEPT ![e] = state]
        /\ process' = [process EXCEPT ![e] = "running"]
    BY DEF Makes, RuntimeSucceeds, OrphanEnds, Born
  <1>3. ASSUME NEW c \in Container, e \in Exec, IdOf[c] = IdOf[e]
        PROVE  rpc[c] \in {"answered", "dropped"}
    BY <1>3 DEF Makes, RuntimeSucceeds, Born, RuntimeAccepts, UniqueIds
  <1>4. Registered' = Registered
    BY <1>2 DEF Registered, registry
  <1> QED BY <1>1, <1>2, <1>3, <1>4 DEF OrderInv, Inv, TypeOK, registry

\* A registration gives out the next position.
LEMMA OrderWatch ==
  ASSUME Inv, OrderInv, NEW e \in Child, WatchGrandchild(e)
  PROVE  OrderInv'
  <1> DEFINE n == Cardinality(Registered)
  <1>1. Container \subseteq Child /\ Exec \subseteq Child /\ Container \cap Exec = {}
    BY ConstantsAssumption DEF Container
  <1>2. /\ position' = [position EXCEPT ![e] = n + 1] /\ rpc[e] = "created"
        /\ position \in [Child -> Nat] /\ position[e] = 0 /\ process' = process
        /\ \A c \in Child \ {e} : rpc'[c] = rpc[c]
    BY DEF WatchGrandchild, kernel, Inv, TypeOK, HandlerInv, Registered
  <1>3. IsFiniteSet(Registered) /\ n \in Nat
    BY ConstantsAssumption, FS_Subset, FS_CardinalityType DEF Registered
  <1>4. e \notin Registered /\ Registered' = Registered \cup {e}
    BY <1>2, <1>3 DEF Registered
  <1>5. Cardinality(Registered') = n + 1
    BY <1>3, <1>4, FS_AddElement
  <1>6. \A c \in Child : position'[c] <= Cardinality(Registered')
    BY <1>2, <1>3, <1>5 DEF OrderInv
  <1>7. ASSUME NEW c \in Container, NEW d \in Exec, IdOf[c] = IdOf[d],
               process'[d] # "unborn"
        PROVE  rpc'[c] \in {"answered", "dropped"} /\ c # e
    BY <1>1, <1>2, <1>7 DEF OrderInv
  <1>8. ASSUME NEW c \in Container, NEW d \in Exec, IdOf[c] = IdOf[d],
               position'[c] > 0, position'[d] > 0
        PROVE  position'[c] < position'[d]
    <2>1. process[d] # "unborn"
      BY <1>1, <1>2, <1>8 DEF WatchGrandchild, Inv, HandlerInv
    <2>2. c # e /\ c \in Child /\ d \in Child
      BY <1>1, <1>2, <1>7, <1>8, <2>1
    <2> QED BY <1>2, <1>3, <1>8, <2>2 DEF OrderInv
  <1>9. \A c \in grandchildren' : position'[c] > 0
    BY <1>2, <1>3 DEF WatchGrandchild, OrderInv, Inv, TypeOK
  <1> QED BY <1>6, <1>7, <1>8, <1>9 DEF OrderInv

\* OrderInv is an invariant when no id is used for two containers.
LEMMA AlwaysOrder ==
  ASSUME UniqueIds
  PROVE  Spec => []OrderInv
  <1>1. Init => OrderInv
    <2> SUFFICES ASSUME Init PROVE OrderInv
      OBVIOUS
    <2>1. Registered = {} /\ Container \subseteq Child /\ Exec \subseteq Child
      BY ConstantsAssumption DEF Init, Registered, Container
    <2> QED BY <2>1, FS_EmptySet DEF Init, OrderInv
  <1>2. Inv /\ OrderInv /\ [Next]_vars => OrderInv'
    BY OrderFrame, OrderQuietInv, OrderRuntime, OrderWatch
  <1> QED BY <1>1, <1>2, AlwaysInv, PTL DEF Spec

\* When pids are not reused and no id is used for two containers, get(id) finds
\* the container, not one of its execs, until its exit is published
\* (watch_grandchild, get and the multimap of child_reaper.rs).
THEOREM ContainerFoundCorrect ==
  ASSUME UniqueIds
  PROVE  Spec => []ContainerFound
  <1>1. Inv /\ OrderInv => ContainerFound
    <2> SUFFICES ASSUME Inv, OrderInv, ~ReusePids, NEW c \in Container,
                        position[c] > 0, published[c] = None, NEW d \in grandchildren,
                        IdOf[d] = IdOf[c]
                 PROVE  c \in grandchildren /\ position[c] <= position[d]
      BY DEF ContainerFound, Firsts, Inv, MapInv, Container
    <2>1. c \in Child /\ c \in grandchildren /\ d \in Child
      BY DEF Inv, MapInv, Container, TypeOK
    <2>2. position[d] > 0
      BY DEF OrderInv
    <2>3. CASE d \in Exec
      BY <2>1, <2>2, <2>3 DEF OrderInv, Inv, TypeOK
    <2>4. CASE d \in Container
      BY <2>1, <2>4 DEF UniqueIds, Inv, TypeOK
    <2> QED BY <2>1, <2>3, <2>4 DEF Container
  <1> QED BY <1>1, AlwaysInv, AlwaysOrder, PTL

-----------------------------------------------------------------------------
(* The reaper implements ExitMonitor. *)

\* A step that leaves processes, statuses, the map and the messages alone is no
\* step of the monitor.
LEMMA MonitorStutter ==
  ASSUME UNCHANGED <<process, status, grandchildren, published>>
  PROVE  UNCHANGED Monitor!vars
  BY DEF Monitor!vars

\* The end of a process is the monitor's End.
LEMMA MonitorEnd ==
  ASSUME Inv, NEW c \in Child, NEW ws \in WaitStatus, Die(c, ws),
         UNCHANGED <<grandchildren, published>>
  PROVE  Monitor!End(c)
  <1>1. process[c] = "running" /\ status[c] = None /\ ws # None
    BY NoneFacts DEF Die, Inv, ProcessInv
  <1>2. {d \in Child : process'[d] # "unborn"} = {d \in Child : process[d] # "unborn"}
    BY <1>1 DEF Die, Inv, TypeOK
  <1>3. [d \in Child |-> IF status'[d] = None THEN None ELSE ToExitCode(status'[d])]
        = [[d \in Child |-> IF status[d] = None THEN None ELSE ToExitCode(status[d])]
              EXCEPT ![c] = ToExitCode(ws)]
    BY <1>1 DEF Die, Inv, TypeOK
  <1> QED BY <1>1, <1>2, <1>3 DEF Monitor!End

\* A published exit is the monitor's Report: the watch task publishes while the
\* child is in the map, and what it publishes is true.
LEMMA MonitorReport ==
  ASSUME ~ReusePids, Inv, NEW c \in Child, SendExit(c)
  PROVE  Monitor!Report(c)
  <1>1. /\ published[c] = None /\ c \in grandchildren /\ Gathered(c)
        /\ exit[c] \in ExitData /\ exit[c] # None
    BY NoneFacts DEF SendExit, Inv, TypeOK, HandlerInv, WatchInv, MapInv
  <1>2. UNCHANGED <<process, status, grandchildren>>
    BY DEF SendExit, kernel, registry
  <1> DEFINE Report(e) == [code |-> e.code, timedOut |-> e.timedOut]
             report == [d \in Child |-> IF published[d] = None THEN None
                                        ELSE Report(published[d])]
  <1>3. [d \in Child |-> IF published'[d] = None THEN None ELSE Report(published'[d])]
        = [report EXCEPT ![c] = Report(exit[c])]
    BY <1>1 DEF SendExit, Inv, TypeOK
  <1>4. CASE exit[c].timedOut
    <2>1. c \in Timed /\ Report(exit[c]) = [code |-> FAILED_EXIT_CODE, timedOut |-> TRUE]
      BY <1>1, <1>4 DEF Gathered, ExitData, Inv, WaiterInv
    <2> QED BY <1>1, <1>2, <1>3, <2>1 DEF Monitor!Report
  <1>5. CASE ~exit[c].timedOut /\ c \in Unwaitable
    <2>1. Report(exit[c]) = [code |-> FAILED_EXIT_CODE, timedOut |-> FALSE]
      BY <1>1, <1>5 DEF Gathered, TrueCode, ExitData
    <2> QED BY <1>1, <1>2, <1>3, <1>5, <2>1 DEF Monitor!Report
  <1>6. CASE ~exit[c].timedOut /\ c \notin Unwaitable
    <2>1. status[c] \in WaitStatus
      BY <1>1, <1>6 DEF Gathered, TrueCode, Inv, TypeOK, ProcessInv
    <2>2. ToExitCode(status[c]) # None
      BY <2>1, ExitCodeInt, NoneFacts
    <2>3. Report(exit[c]) = [code |-> ToExitCode(status[c]), timedOut |-> FALSE]
      BY <1>1, <1>6 DEF Gathered, TrueCode, ExitData
    <2> QED BY <1>1, <1>2, <1>3, <1>6, <2>1, <2>2, <2>3, NoneFacts DEF Monitor!Report
  <1> QED BY <1>4, <1>5, <1>6

\* What the kernel does is an End of the monitor, or nothing to it.
LEMMA MonitorKernel ==
  ASSUME Inv, NEW c \in Child, KernelStep(c)
  PROVE  Monitor!End(c) \/ UNCHANGED Monitor!vars
  <1> USE DEF registry, watching
  <1>1. CASE Exit(c)
    <2>1. PICK ws \in ({"exited"} \X ExitCode) \cup ({"signaled"} \X (Signal \cup signals[c])) :
            Die(c, ws)
      BY <1>1 DEF Exit
    <2>2. signals[c] \subseteq {SIGTERM, SIGKILL}
      BY DEF TypeOK, Inv
    <2>3. ws \in WaitStatus
      BY <2>2 DEF WaitStatus
    <2> QED BY <1>1, <2>1, <2>3, MonitorEnd DEF Exit
  <1>2. CASE DieOfSigkill(c) \/ OomKill(c)
    <2>1. <<"signaled", SIGKILL>> \in WaitStatus
      BY DEF WaitStatus
    <2>2. Die(c, <<"signaled", SIGKILL>>) /\ UNCHANGED <<grandchildren, published>>
      BY <1>2 DEF DieOfSigkill, OomKill
    <2> QED BY <2>1, <2>2, MonitorEnd
  <1>3. CASE MemoryEvent(c) \/ Elapse(c)
    BY <1>3, MonitorStutter DEF MemoryEvent, Elapse
  <1> QED BY <1>1, <1>2, <1>3 DEF KernelStep

\* A handler starts processes and puts them under watch.
LEMMA MonitorRpc ==
  ASSUME Inv, NEW c \in Child, RpcStep(c)
  PROVE  Monitor!Start(c) \/ Monitor!Watch(c) \/ UNCHANGED Monitor!vars
  <1> USE DEF kernel, registry, watching
  <1>1. CASE Makes(c)
    <2>1. process[c] = "unborn" /\ Born(c)
      BY <1>1 DEF Makes, RuntimeSucceeds, OrphanEnds, Inv, HandlerInv
    <2>2. {d \in Child : process'[d] # "unborn"}
          = {d \in Child : process[d] # "unborn"} \cup {c}
      BY <2>1 DEF Born, Inv, TypeOK
    <2> QED BY <2>1, <2>2 DEF Born, Monitor!Start
  <1>2. CASE WatchGrandchild(c)
    <2>1. process[c] # "unborn" /\ published[c] = None
      BY <1>2 DEF WatchGrandchild, Inv, HandlerInv, WatchInv
    <2> QED BY <1>2, <2>1 DEF WatchGrandchild, Monitor!Watch
  <1>3. CASE CreateFails(c) \/ RuntimeFails(c) \/ PidfileFails(c) \/ FailureRead(c)
    BY <1>3, MonitorStutter DEF CreateFails, RuntimeFails, PidfileFails, FailureRead
  <1>6. CASE CreateChild(c) \/ ReadPidfile(c) \/ (OrphanEnds(c) /\ ~Born(c))
    BY <1>6, MonitorStutter DEF CreateChild, ReadPidfile, OrphanEnds
  <1>4. CASE Disconnect(c) \/ ExecReadEof(c) \/ ExecReadTimeout(c)
    BY <1>4, MonitorStutter DEF Disconnect, ExecReadEof, ExecReadTimeout
  <1>5. CASE ExecAnswer(c) \/ StdinEof(c)
    BY <1>5, MonitorStutter DEF ExecAnswer, StdinEof
  <1> QED BY <1>1, <1>2, <1>3, <1>4, <1>5, <1>6 DEF RpcStep, Makes

\* The watch task reports; reaping a process is nothing to the monitor.
LEMMA MonitorWatch ==
  ASSUME ~ReusePids, Inv, NEW c \in Child, WatchStep(c)
  PROVE  Monitor!Report(c) \/ UNCHANGED Monitor!vars
  <1> USE DEF kernel, registry, watching
  <1>1. CASE WaitForExitCode(c)
    <2>1. {d \in Child : process'[d] # "unborn"} = {d \in Child : process[d] # "unborn"}
      BY <1>1 DEF WaitForExitCode, Inv, TypeOK
    <2>2. UNCHANGED <<status, grandchildren, published>>
      BY <1>1 DEF WaitForExitCode
    <2> QED BY <2>1, <2>2 DEF Monitor!vars
  <1>2. CASE SendExit(c)
    BY <1>2, MonitorReport
  <1>3. CASE WatchStart(c) \/ WaitpidError(c) \/ WriteExitPaths(c)
    BY <1>3, MonitorStutter DEF WatchStart, WaitpidError, WriteExitPaths
  <1>4. CASE JoinDone(c) \/ JoinTimeout(c)
    BY <1>4, MonitorStutter DEF JoinDone, JoinTimeout
  <1> QED BY <1>1, <1>2, <1>3, <1>4 DEF WatchStep

\* The OOM task is nothing to the monitor.
LEMMA MonitorOom ==
  ASSUME NEW c \in Child, OomStep(c)
  PROVE  UNCHANGED Monitor!vars
  <1> USE DEF kernel, registry, watching
  <1>1. CASE OomWatch(c) \/ OomNoCgroup(c) \/ OomCancelled(c)
    BY <1>1, MonitorStutter DEF OomWatch, OomNoCgroup, OomCancelled
  <1>2. CASE OomRemoved(c) \/ OomFound(c) \/ OomNotFound(c)
    BY <1>2, MonitorStutter DEF OomRemoved, OomFound, OomNotFound
  <1> QED BY <1>1, <1>2 DEF OomStep

\* forget_grandchild forgets the one child with this pid.
LEMMA MonitorCleanup ==
  ASSUME ~ReusePids, Inv, NEW c \in Child, CleanupStep(c)
  PROVE  Monitor!Forget(c) \/ UNCHANGED Monitor!vars
  <1> USE DEF kernel, registry, watching
  <1>1. CASE ForgetGrandchild(c)
    <2>1. published[c] # None /\ pid[c] # None
      BY <1>1 DEF ForgetGrandchild, Inv, TypeOK, CleanupInv, HandlerInv, ProcessInv
    <2>2. grandchildren \in SUBSET Child
      BY DEF Inv, TypeOK
    <2>3. Remaining(c) = grandchildren \ {c}
      BY <2>1, <2>2 DEF Remaining, Inv, MapInv
    <2>4. published[c] \in ExitData
      BY <2>1 DEF Inv, TypeOK
    <2>5. [code |-> published[c].code, timedOut |-> published[c].timedOut] \in Answer
      BY <2>4 DEF ExitData, Answer
    <2>6. UNCHANGED <<process, status, published>>
      BY <1>1 DEF ForgetGrandchild
    <2> QED BY <1>1, <2>1, <2>3, <2>5, <2>6, NoneFacts
            DEF ForgetGrandchild, Monitor!Forget
  <1>2. CASE CleanupSubscribe(c) \/ CleanupRecv(c)
    BY <1>2, MonitorStutter DEF CleanupSubscribe, CleanupRecv
  <1> QED BY <1>1, <1>2 DEF CleanupStep

\* The signal handler is nothing to the monitor.
LEMMA MonitorKill ==
  ASSUME KillStep
  PROVE  UNCHANGED Monitor!vars
  <1> USE DEF kernel, registry, watching
  <1>1. CASE ReceiveSignal \/ KillDone \/ ServerExit
    BY <1>1, MonitorStutter DEF ReceiveSignal, KillDone, ServerExit
  <1>2. CASE \E c \in Child : KillGrandchild(c) \/ Close(c)
    BY <1>2, MonitorStutter DEF KillGrandchild, Close
  <1> QED BY <1>1, <1>2 DEF KillStep, KillLoop

\* When pids are not reused, the reaper with all its tasks implements the
\* abstract monitor: each child is reported on at most once, truthfully, while
\* it is in the map, and forgotten only afterwards.
THEOREM ReaperImplementsMonitor ==
  ASSUME ~ReusePids
  PROVE  Spec => ImplementsMonitor
  <1>1. Init => Monitor!Init
    BY DEF Init, Monitor!Init
  <1>2. Inv /\ [Next]_vars => [Monitor!Next]_(Monitor!vars)
    <2> SUFFICES ASSUME Inv, [Next]_vars
                 PROVE  Monitor!Next \/ UNCHANGED Monitor!vars
      OBVIOUS
    <2>1. CASE UNCHANGED vars
      BY <2>1, MonitorStutter DEF vars, kernel, registry, watching
    <2>2. CASE KillStep
      BY <2>2, MonitorKill
    <2>3. ASSUME NEW c \in Child,
                 \/ KernelStep(c) \/ RpcStep(c) \/ WatchStep(c) \/ OomStep(c)
                 \/ CleanupStep(c)
          PROVE  Monitor!Next \/ UNCHANGED Monitor!vars
      BY <2>3, MonitorKernel, MonitorRpc, MonitorWatch, MonitorOom, MonitorCleanup
         DEF Monitor!Next
    <2> QED BY <2>1, <2>2, <2>3 DEF Next
  <1> QED BY <1>1, <1>2, AlwaysInv, PTL DEF Spec, ImplementsMonitor, Monitor!Spec

=============================================================================
