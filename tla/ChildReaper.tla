---------------------------- MODULE ChildReaper ----------------------------
(***************************************************************************)
(* The child reaper of the conmonrs server                                 *)
(* (conmon-rs/server/src/child_reaper.rs), the two RPC handlers that feed  *)
(* it (create_container and exec_sync_container of rpc.rs) and the OOM     *)
(* watcher every child gets (oom_watcher.rs).                              *)
(*                                                                         *)
(* One element of Child is one create or exec request and the process that *)
(* comes out of it.  Per child the server runs five concurrent activities  *)
(* on a multi-threaded tokio runtime: the RPC handler, the `watch` task,   *)
(* the blocking waitpid thread, the OOM task and the cleanup task of       *)
(* `watch_grandchild`.  One signal handler (`kill_grandchildren`) runs     *)
(* beside them and keeps the lock of the grandchildren map while it waits. *)
(***************************************************************************)
EXTENDS Integers, FiniteSets

CONSTANTS
    Child,       \* create and exec requests, one process each
    Exec,        \* the requests made by exec_sync_container
    Timed,       \* the exec requests with timeout_sec > 0
    Attached,    \* children somebody attaches to with stop_after_stdin_eof
    Impatient,   \* requests whose client may disconnect
    Unwaitable,  \* children waitpid(2) refuses (not a descendant of ours)
    Unwritable,  \* containers whose exit and OOM files may fail to be written
    Id,          \* container ids
    IdOf,        \* the id each request names; an exec shares its container's
    Pid,         \* process ids
    ReusePids,   \* TRUE when the pid space may wrap around
    ExitCode,    \* codes a process may exit with
    Signal,      \* signals from outside that may end a process
    None         \* "no value": Option::None, no file, no message

SIGTERM == 15
SIGKILL == 9
FAILED_EXIT_CODE == -3
CREATE_FAILED == -2

\* What waitpid reports of a process that ended.
WaitStatus == ({"exited"} \X ExitCode) \cup ({"signaled"} \X (Signal \cup {SIGTERM, SIGKILL}))

ASSUME ConstantsAssumption ==
    /\ IsFiniteSet(Child)
    /\ Exec \subseteq Child /\ Timed \subseteq Exec
    /\ Attached \subseteq Child /\ Impatient \subseteq Child
    /\ Unwaitable \subseteq Child /\ Unwritable \subseteq Child \ Exec
    /\ IdOf \in [Child -> Id]
    /\ ReusePids \in BOOLEAN
    /\ ExitCode \subseteq 0..255 /\ Signal \subseteq 1..64
    /\ None \notin Int /\ None \notin Pid /\ None \notin Child
    /\ None \notin WaitStatus
    /\ None \notin [code : Int, oomed : BOOLEAN, timedOut : BOOLEAN]
    /\ None \notin [code : Int, timedOut : BOOLEAN]

Container == Child \ Exec

VARIABLES
    \* The kernel.
    pid,          \* the pid a child's process was given
    process,      \* "unborn", "running", "zombie" or "reaped"
    status,       \* how the process ended
    signals,      \* signals sent to the process and not yet acted on
    oomEvent,     \* the cgroup's memory.events counter is no longer 0
    notified,     \* a change of memory.events waits in the notify channel
    elapsed,      \* the deadline of a timed exec has passed
    \* The RPC handlers.
    rpc,          \* where the handler of a request is
    readTimedOut, \* read_all_with_timeout gave up
    answer,       \* what the client was told
    \* The reaper's map: its members and the order they were inserted in.
    grandchildren,
    position,
    \* The tasks of a child.
    token,        \* its CancellationToken is cancelled
    watch,        \* the watch task
    waiter,       \* the blocking waitpid thread
    waitCode,     \* ... and what it returned
    oomTask,      \* the OOM watcher's task
    oomChan,      \* the oom mpsc channel, capacity 1
    exit,         \* the watch task's exit_code, oomed and timed_out
    exitFile,     \* content of the exit_paths files
    oomFile,      \* the oom_exit_paths files exist
    published,    \* the message of the exit broadcast channel
    cleanup,      \* the task spawned by watch_grandchild
    leakFds,      \* the cleanup task still owns leak_fds
    \* The signal handler.
    killer,       \* "idle", "closing" (holds the map's lock), "done", "exited"
    current,      \* the grandchild being closed
    closed        \* grandchildren already closed

kernel == <<pid, process, status, signals, oomEvent, notified, elapsed>>
request == <<rpc, readTimedOut, answer>>
registry == <<grandchildren, position>>
watching == <<watch, exit, exitFile, published>>
ooming == <<oomTask, oomChan, oomFile>>
cleaning == <<cleanup, leakFds>>
killing == <<killer, current, closed>>
waiting == <<waiter, waitCode>>
vars == <<kernel, request, registry, token, watching, waiting, ooming,
          cleaning, killing>>

-----------------------------------------------------------------------------

NoExit == [code |-> -1, oomed |-> FALSE, timedOut |-> FALSE]

ExitData == [code : Int, oomed : BOOLEAN, timedOut : BOOLEAN]
Answer == [code : Int, timedOut : BOOLEAN]

TypeOK ==
    /\ pid \in [Child -> Pid \cup {None}]
    /\ process \in [Child -> {"unborn", "running", "zombie", "reaped"}]
    /\ status \in [Child -> WaitStatus \cup {None}]
    /\ signals \in [Child -> SUBSET {SIGTERM, SIGKILL}]
    /\ oomEvent \in [Child -> BOOLEAN]
    /\ notified \in [Child -> BOOLEAN]
    /\ elapsed \in [Child -> BOOLEAN]
    /\ rpc \in [Child -> {"idle", "runtime", "pidfile", "created", "reading",
                          "waiting", "failing", "stuck", "answered", "orphaned",
                          "dropped"}]
    /\ readTimedOut \in [Child -> BOOLEAN]
    /\ answer \in [Child -> Answer \cup {None}]
    /\ grandchildren \in SUBSET Child
    /\ position \in [Child -> Nat]
    /\ token \in [Child -> BOOLEAN]
    /\ watch \in [Child -> {"none", "spawned", "join", "stop", "send", "done"}]
    /\ waiter \in [Child -> {"none", "waiting", "done"}]
    /\ waitCode \in [Child -> Int \cup {None}]
    /\ oomTask \in [Child -> {"none", "setup", "watching", "done"}]
    /\ oomChan \in [Child -> {"empty", "oom", "noOom"}]
    /\ exit \in [Child -> ExitData]
    /\ exitFile \in [Child -> Int \cup {None}]
    /\ oomFile \in [Child -> BOOLEAN]
    /\ published \in [Child -> ExitData \cup {None}]
    /\ cleanup \in [Child -> {"none", "spawned", "subscribed", "lost",
                              "forget", "done"}]
    /\ leakFds \in [Child -> BOOLEAN]
    /\ killer \in {"idle", "closing", "done", "exited"}
    /\ current \in Child \cup {None}
    /\ closed \in SUBSET Child

Init ==
    /\ pid = [c \in Child |-> None]
    /\ process = [c \in Child |-> "unborn"]
    /\ status = [c \in Child |-> None]
    /\ signals = [c \in Child |-> {}]
    /\ oomEvent = [c \in Child |-> FALSE]
    /\ notified = [c \in Child |-> FALSE]
    /\ elapsed = [c \in Child |-> FALSE]
    /\ rpc = [c \in Child |-> "idle"]
    /\ readTimedOut = [c \in Child |-> FALSE]
    /\ answer = [c \in Child |-> None]
    /\ grandchildren = {}
    /\ position = [c \in Child |-> 0]
    /\ token = [c \in Child |-> FALSE]
    /\ watch = [c \in Child |-> "none"]
    /\ waiter = [c \in Child |-> "none"]
    /\ waitCode = [c \in Child |-> None]
    /\ oomTask = [c \in Child |-> "none"]
    /\ oomChan = [c \in Child |-> "empty"]
    /\ exit = [c \in Child |-> NoExit]
    /\ exitFile = [c \in Child |-> None]
    /\ oomFile = [c \in Child |-> FALSE]
    /\ published = [c \in Child |-> None]
    /\ cleanup = [c \in Child |-> "none"]
    /\ leakFds = [c \in Child |-> FALSE]
    /\ killer = "idle"
    /\ current = None
    /\ closed = {}

Up == killer # "exited"

LockFree == killer # "closing"

\* All handlers run on one thread.  One that returned from create_child goes on
\* to watch_grandchild without an await: while it waits there for the map's
\* lock, which blocks the thread, no other handler runs.
RpcFree == \A c \in Child : rpc[c] # "created"

\* Faulty: the newest value of a key instead of the oldest.
FirstsNewest ==
    {c \in grandchildren :
        \A d \in grandchildren :
            IdOf[d] = IdOf[c] => position[c] >= position[d]}

\* The multimap's get() of a key yields the oldest value of that key, and its
\* iter() yields the same one, once per key.
Firsts ==
    {c \in grandchildren :
        \A d \in grandchildren :
            IdOf[d] = IdOf[c] => position[c] <= position[d]}

-----------------------------------------------------------------------------
(* The kernel. *)

\* The process a pid stands for: a zombie keeps its pid, a reaped process
\* does not.
Occupant(p) == {c \in Child : pid[c] = p /\ process[c] \in {"running", "zombie"}}

FreePid(p) ==
    /\ Occupant(p) = {}
    /\ ReusePids \/ \A c \in Child : pid[c] # p

\* kill_grandchild: whoever has the pid now gets the signal.
Signalled(p, s) ==
    [c \in Child |-> IF c \in Occupant(p) /\ process[c] = "running"
                     THEN signals[c] \cup {s} ELSE signals[c]]

Die(c, ws) ==
    /\ process[c] = "running"
    /\ process' = [process EXCEPT ![c] = "zombie"]
    /\ status' = [status EXCEPT ![c] = ws]
    /\ signals' = [signals EXCEPT ![c] = {}]

\* The process ends on its own, of a signal from outside, or of one it was sent
\* by conmonrs and does not handle.
Exit(c) ==
    /\ \E ws \in ({"exited"} \X ExitCode) \cup ({"signaled"} \X (Signal \cup signals[c])) :
          Die(c, ws)
    /\ UNCHANGED <<pid, oomEvent, notified, elapsed, request, registry, token,
                   watching, waiting, ooming, cleaning, killing>>

\* SIGKILL cannot be ignored.
DieOfSigkill(c) ==
    /\ SIGKILL \in signals[c]
    /\ Die(c, <<"signaled", SIGKILL>>)
    /\ UNCHANGED <<pid, oomEvent, notified, elapsed, request, registry, token,
                   watching, waiting, ooming, cleaning, killing>>

\* The kernel's OOM killer hits the container's process; memory.events
\* changes, which a watch that is already set up reports.
OomKill(c) ==
    /\ c \in Container
    /\ Die(c, <<"signaled", SIGKILL>>)
    /\ oomEvent' = [oomEvent EXCEPT ![c] = TRUE]
    /\ notified' = [notified EXCEPT ![c] = @ \/ oomTask[c] = "watching"]
    /\ UNCHANGED <<pid, elapsed, request, registry, token, watching, waiting,
                   ooming, cleaning, killing>>

\* memory.events changes for another reason: a high or max event, or an OOM kill
\* of another process of the container.
MemoryEvent(c) ==
    /\ c \in Container /\ process[c] = "running"
    /\ \E oom \in {oomEvent[c], TRUE} : oomEvent' = [oomEvent EXCEPT ![c] = oom]
    /\ notified' = [notified EXCEPT ![c] = @ \/ oomTask[c] = "watching"]
    /\ UNCHANGED <<pid, process, status, signals, elapsed, request, registry,
                   token, watching, waiting, ooming, cleaning, killing>>

Elapse(c) ==
    /\ c \in Timed /\ position[c] > 0 /\ ~elapsed[c]
    /\ elapsed' = [elapsed EXCEPT ![c] = TRUE]
    /\ UNCHANGED <<pid, process, status, signals, oomEvent, notified, request,
                   registry, token, watching, waiting, ooming, cleaning, killing>>

-----------------------------------------------------------------------------
(* create_container and exec_sync_container. *)

\* The handler calls create_child, which spawns the runtime.
CreateChild(c) ==
    /\ Up /\ RpcFree /\ rpc[c] = "idle"
    /\ rpc' = [rpc EXCEPT ![c] = "runtime"]
    /\ UNCHANGED <<kernel, readTimedOut, answer, registry, token, watching,
                   waiting, ooming, cleaning, killing>>

\* The runtime has one container per id.  An exec needs a container that was
\* started, which engines do once its creation is over, though not by this
\* server: containers outlive their server.
RuntimeAccepts(c) ==
    LET known == {d \in Container : IdOf[d] = IdOf[c]}
        running == {d \in known : process[d] = "running"}
        started == {d \in running : rpc[d] \in {"answered", "dropped"}}
    IN  IF c \in Exec THEN known = {} \/ started # {} ELSE running = {}

\* The runtime leaves a process behind and exits with 0.
Born(c) ==
    /\ RuntimeAccepts(c)
    /\ \E p \in Pid :
        /\ FreePid(p)
        /\ pid' = [pid EXCEPT ![c] = p]
    /\ process' = [process EXCEPT ![c] = "running"]
    /\ UNCHANGED <<status, signals, oomEvent, notified, elapsed, readTimedOut,
                   answer, registry, token, watching, waiting, ooming, cleaning,
                   killing>>

RuntimeSucceeds(c) ==
    /\ Up /\ RpcFree /\ rpc[c] = "runtime"
    /\ Born(c)
    /\ rpc' = [rpc EXCEPT ![c] = "pidfile"]

\* What the client of a failed create_child gets: exec_sync_container answers
\* with exit code -2, create_container with an error.
FailedAnswer(c) ==
    [code |-> IF c \in Exec THEN CREATE_FAILED ELSE FAILED_EXIT_CODE,
     timedOut |-> FALSE]

Refuse(c) ==
    /\ rpc' = [rpc EXCEPT ![c] = "answered"]
    /\ answer' = [answer EXCEPT ![c] = FailedAnswer(c)]

\* create_child fails: create_container first reads the output of the runtime
\* to its end, without a deadline.
CreateChildFails(c, state) ==
    \/ c \in Exec /\ Refuse(c)
    \/ c \in Container /\ rpc' = [rpc EXCEPT ![c] = state] /\ UNCHANGED answer

\* The log of the container cannot be opened, or the runtime not be spawned.
\* In the latter case there is no read loop, while the handler itself holds
\* the senders of the channels it reads from.
CreateFails(c) ==
    /\ Up /\ RpcFree /\ rpc[c] = "idle"
    /\ \/ c \in Container /\ Refuse(c)
       \/ CreateChildFails(c, "stuck")
    /\ UNCHANGED <<kernel, readTimedOut, registry, token, watching, waiting,
                   ooming, cleaning, killing>>

\* The runtime exits with an error: the token is cancelled, so that the read
\* loops of the child that will never be registered stop.
RuntimeFails(c) ==
    /\ Up /\ RpcFree /\ rpc[c] = "runtime"
    /\ token' = [token EXCEPT ![c] = TRUE]
    /\ CreateChildFails(c, "failing")
    /\ UNCHANGED <<kernel, readTimedOut, registry, watching, waiting, ooming,
                   cleaning, killing>>

\* The pidfile is read, an await of its own: create_child returns ...
ReadPidfile(c) ==
    /\ Up /\ RpcFree /\ rpc[c] = "pidfile"
    /\ rpc' = [rpc EXCEPT ![c] = "created"]
    /\ UNCHANGED <<kernel, readTimedOut, answer, registry, token, watching,
                   waiting, ooming, cleaning, killing>>

\* ... or fails, now without cancelling the token, and the process is nobody's.
PidfileFails(c) ==
    /\ Up /\ RpcFree /\ rpc[c] = "pidfile"
    /\ CreateChildFails(c, "failing")
    /\ UNCHANGED <<kernel, readTimedOut, registry, token, watching, waiting,
                   ooming, cleaning, killing>>

\* The output has come to its end: the runtime is gone, and a process it left
\* behind has closed its streams, which it may do at any time.
FailureRead(c) ==
    /\ Up /\ RpcFree /\ rpc[c] = "failing"
    /\ Refuse(c)
    /\ UNCHANGED <<kernel, readTimedOut, registry, token, watching, waiting,
                   ooming, cleaning, killing>>

\* The client disconnects: the RPC system drops the handler's future at its
\* await point.  A child that is registered already stays registered, a process
\* whose pidfile is being read never is.
Disconnect(c) ==
    /\ Up /\ RpcFree /\ c \in Impatient
    /\ rpc[c] \in {"runtime", "pidfile", "reading", "waiting", "failing", "stuck"}
    /\ rpc' = [rpc EXCEPT ![c] = IF @ = "runtime" THEN "orphaned" ELSE "dropped"]
    /\ UNCHANGED <<kernel, readTimedOut, answer, registry, token, watching,
                   waiting, ooming, cleaning, killing>>

\* A runtime whose handler was dropped goes on by itself: it may leave a process
\* behind that nobody registers.
OrphanEnds(c) ==
    /\ rpc[c] = "orphaned"
    /\ rpc' = [rpc EXCEPT ![c] = "dropped"]
    /\ \/ Born(c)
       \/ UNCHANGED <<kernel, readTimedOut, answer, registry, token, watching,
                      waiting, ooming, cleaning, killing>>

\* watch_grandchild: under the map's lock, spawn the watch task, insert the
\* child, spawn the cleanup task that owns leak_fds.  create_container answers
\* at once; exec_sync_container goes on to read the output.
WatchGrandchild(c) ==
    /\ Up /\ LockFree /\ rpc[c] = "created"
    /\ grandchildren' = grandchildren \cup {c}
    /\ position' = [position EXCEPT ![c] =
                       Cardinality({d \in Child : position[d] > 0}) + 1]
    /\ watch' = [watch EXCEPT ![c] = "spawned"]
    /\ cleanup' = [cleanup EXCEPT ![c] = "spawned"]
    /\ leakFds' = [leakFds EXCEPT ![c] = c \in Container]
    /\ IF c \in Exec
       THEN /\ rpc' = [rpc EXCEPT ![c] = "reading"]
            /\ UNCHANGED answer
       ELSE /\ rpc' = [rpc EXCEPT ![c] = "answered"]
            /\ answer' = [answer EXCEPT ![c] = [code |-> 0, timedOut |-> FALSE]]
    /\ UNCHANGED <<kernel, readTimedOut, token, exit, exitFile, published,
                   waiting, ooming, killing>>

\* exec_sync_container: read_all_with_timeout returns because the streams are
\* at their end (the process may close them at any time) ...
ExecReadEof(c) ==
    /\ Up /\ RpcFree /\ rpc[c] = "reading"
    /\ rpc' = [rpc EXCEPT ![c] = "waiting"]
    /\ UNCHANGED <<kernel, readTimedOut, answer, registry, token, watching,
                   waiting, ooming, cleaning, killing>>

\* ... or because the deadline passed.
ExecReadTimeout(c) ==
    /\ Up /\ RpcFree /\ rpc[c] = "reading" /\ elapsed[c]
    /\ rpc' = [rpc EXCEPT ![c] = "waiting"]
    /\ readTimedOut' = [readTimedOut EXCEPT ![c] = TRUE]
    /\ UNCHANGED <<kernel, answer, registry, token, watching, waiting, ooming,
                   cleaning, killing>>

\* Faulty: only the timeout of the reads is reported.
ExecResultReadOnly(c) == [code |-> published[c].code, timedOut |-> readTimedOut[c]]

ExecResult(c) == [code |-> published[c].code,
                  timedOut |-> readTimedOut[c] \/ published[c].timedOut]

\* exit_rx.recv(): the receiver exists since watch_grandchild, so it cannot
\* miss the message.
ExecAnswer(c) ==
    /\ Up /\ RpcFree /\ rpc[c] = "waiting" /\ published[c] # None
    /\ rpc' = [rpc EXCEPT ![c] = "answered"]
    /\ answer' = [answer EXCEPT ![c] = ExecResult(c)]
    /\ UNCHANGED <<kernel, readTimedOut, registry, token, watching, waiting,
                   ooming, cleaning, killing>>

\* attach.rs: the read loop of an attach with stop_after_stdin_eof sees the end
\* of the client's stdin and cancels the token of the whole child.
StdinEof(c) ==
    /\ Up /\ c \in Attached \cap Firsts /\ ~token[c]
    /\ token' = [token EXCEPT ![c] = TRUE]
    /\ UNCHANGED <<kernel, request, registry, watching, waiting, ooming,
                   cleaning, killing>>

-----------------------------------------------------------------------------
(* ReapableChild::watch and wait_for_exit_code. *)

\* The task starts: the OOM watcher and the waitpid thread are spawned.
WatchStart(c) ==
    /\ Up /\ watch[c] = "spawned"
    /\ watch' = [watch EXCEPT ![c] = "join"]
    /\ oomTask' = [oomTask EXCEPT ![c] = "setup"]
    /\ waiter' = [waiter EXCEPT ![c] = "waiting"]
    /\ UNCHANGED <<kernel, request, registry, token, exit, exitFile, published,
                   waitCode, oomChan, oomFile, cleaning, killing>>

ToExitCode(ws) == IF ws[1] = "exited" THEN ws[2] ELSE ws[2] + 128

\* Faulty: the token is not cancelled, so the OOM task goes on.
WaitForExitCodeNoCancel(c) ==
    /\ Up /\ waiter[c] = "waiting" /\ c \notin Unwaitable
    /\ process[c] = "zombie"
    /\ process' = [process EXCEPT ![c] = "reaped"]
    /\ waiter' = [waiter EXCEPT ![c] = "done"]
    /\ waitCode' = [waitCode EXCEPT ![c] = ToExitCode(status[c])]
    /\ UNCHANGED <<pid, status, signals, oomEvent, notified, elapsed, request,
                   registry, token, watching, ooming, cleaning, killing>>

\* waitpid returns: the process is reaped, its pid free, the token cancelled.
WaitForExitCode(c) ==
    /\ Up /\ waiter[c] = "waiting" /\ c \notin Unwaitable
    /\ process[c] = "zombie"
    /\ process' = [process EXCEPT ![c] = "reaped"]
    /\ waiter' = [waiter EXCEPT ![c] = "done"]
    /\ waitCode' = [waitCode EXCEPT ![c] = ToExitCode(status[c])]
    /\ token' = [token EXCEPT ![c] = TRUE]
    /\ UNCHANGED <<pid, status, signals, oomEvent, notified, elapsed, request,
                   registry, watching, ooming, cleaning, killing>>

\* waitpid fails with anything but EINTR.
WaitpidError(c) ==
    /\ Up /\ waiter[c] = "waiting" /\ c \in Unwaitable
    /\ waiter' = [waiter EXCEPT ![c] = "done"]
    /\ waitCode' = [waitCode EXCEPT ![c] = FAILED_EXIT_CODE]
    /\ token' = [token EXCEPT ![c] = TRUE]
    /\ UNCHANGED <<kernel, request, registry, watching, ooming, cleaning, killing>>

\* Faulty: select! instead of join!.
JoinedEither(c) == waiter[c] = "done" \/ oomChan[c] # "empty" \/ oomTask[c] = "done"

\* Both branches of the join! are ready: a code, and a message or the end of
\* the OOM channel (its sender lives in the OOM task).
Joined(c) ==
    /\ waiter[c] = "done"
    /\ oomChan[c] # "empty" \/ oomTask[c] = "done"

\* Faulty: an "else if", which drops the code when there is an OOM message.
JoinedExitEither(c) ==
    IF oomChan[c] = "empty" THEN [exit[c] EXCEPT !.code = waitCode[c]]
    ELSE [exit[c] EXCEPT !.oomed = oomChan[c] = "oom"]

JoinedExit(c) == [exit[c] EXCEPT !.code = waitCode[c], !.oomed = oomChan[c] = "oom"]

JoinDone(c) ==
    /\ Up /\ watch[c] = "join" /\ Joined(c)
    /\ exit' = [exit EXCEPT ![c] = JoinedExit(c)]
    /\ watch' = [watch EXCEPT ![c] = "stop"]
    /\ token' = [token EXCEPT ![c] = TRUE]
    /\ UNCHANGED <<kernel, request, registry, exitFile, published, waiting,
                   ooming, cleaning, killing>>

\* Faulty: the process is not killed.
JoinTimeoutNoKill(c) ==
    /\ Up /\ watch[c] = "join" /\ elapsed[c] /\ ~Joined(c)
    /\ exit' = [exit EXCEPT ![c] = [@ EXCEPT !.code = FAILED_EXIT_CODE,
                                             !.timedOut = TRUE]]
    /\ watch' = [watch EXCEPT ![c] = "stop"]
    /\ token' = [token EXCEPT ![c] = TRUE]
    /\ UNCHANGED <<kernel, request, registry, exitFile, published, waiting,
                   ooming, cleaning, killing>>

\* timeout_at gives up on the join: SIGKILL to whoever has the pid, then
\* oom_watcher.stop() cancels the token.  The waitpid thread goes on.
JoinTimeout(c) ==
    /\ Up /\ watch[c] = "join" /\ elapsed[c] /\ ~Joined(c)
    /\ exit' = [exit EXCEPT ![c] = [@ EXCEPT !.code = FAILED_EXIT_CODE,
                                             !.timedOut = TRUE]]
    /\ signals' = Signalled(pid[c], SIGKILL)
    /\ watch' = [watch EXCEPT ![c] = "stop"]
    /\ token' = [token EXCEPT ![c] = TRUE]
    /\ UNCHANGED <<pid, process, status, oomEvent, notified, elapsed, request,
                   registry, exitFile, published, waiting, ooming, cleaning,
                   killing>>

\* Whether files come to be written: a failure is logged and passed over.
Written(c) == IF c \in Unwritable THEN BOOLEAN ELSE {TRUE}

\* stop() has awaited the OOM task; write_to_exit_paths (an exec has none).
WriteExitPaths(c) ==
    /\ Up /\ watch[c] = "stop" /\ oomTask[c] = "done"
    /\ \E written \in Written(c) :
          exitFile' = IF c \in Container /\ written
                      THEN [exitFile EXCEPT ![c] = exit[c].code] ELSE exitFile
    /\ watch' = [watch EXCEPT ![c] = "send"]
    /\ UNCHANGED <<kernel, request, registry, token, exit, published, waiting,
                   ooming, cleaning, killing>>


\* The message of the exit channel; nobody may be listening.
SendExit(c) ==
    /\ Up /\ watch[c] = "send"
    /\ published' = [published EXCEPT ![c] = exit[c]]
    /\ watch' = [watch EXCEPT ![c] = "done"]
    /\ UNCHANGED <<kernel, request, registry, token, exit, exitFile, waiting,
                   ooming, cleaning, killing>>

-----------------------------------------------------------------------------
(* OOMWatcher. *)

OomDone(c, msg) ==
    /\ oomTask' = [oomTask EXCEPT ![c] = "done"]
    /\ oomChan' = [oomChan EXCEPT ![c] = msg]

\* The cgroup of the pid is found and memory.events watched ...
OomWatch(c) ==
    /\ Up /\ oomTask[c] = "setup"
    /\ oomTask' = [oomTask EXCEPT ![c] = "watching"]
    /\ UNCHANGED <<kernel, request, registry, token, watching, waiting, oomChan,
                   oomFile, cleaning, killing>>

\* ... or not: the task ends without a message and its sender is dropped.
OomNoCgroup(c) ==
    /\ Up /\ oomTask[c] = "setup"
    /\ OomDone(c, oomChan[c])
    /\ UNCHANGED <<kernel, request, registry, token, watching, waiting, oomFile,
                   cleaning, killing>>

\* select!: the token's branch.
OomCancelled(c) ==
    /\ Up /\ oomTask[c] = "watching" /\ token[c]
    /\ OomDone(c, "noOom")
    /\ UNCHANGED <<kernel, request, registry, token, watching, waiting, oomFile,
                   cleaning, killing>>

\* select!: memory.events is removed with the cgroup of a dead container; or
\* the watch reports an error or the file cannot be read, which may happen at
\* any time.
OomRemoved(c) ==
    /\ Up /\ oomTask[c] = "watching"
    /\ OomDone(c, "noOom")
    /\ UNCHANGED <<kernel, request, registry, token, watching, waiting, oomFile,
                   cleaning, killing>>

\* Faulty: every change of memory.events counts.
CounterChangedAlways(c) == TRUE

\* check_for_oom: one of the two OOM counters is not the last one seen, 0.
CounterChanged(c) == oomEvent[c]

\* select!: memory.events changed and check_for_oom finds a new counter: the
\* files are written, or not, before the message is sent.
OomFound(c) ==
    /\ Up /\ oomTask[c] = "watching" /\ notified[c] /\ CounterChanged(c)
    /\ notified' = [notified EXCEPT ![c] = FALSE]
    /\ \E written \in Written(c) : oomFile' = [oomFile EXCEPT ![c] = written]
    /\ OomDone(c, "oom")
    /\ UNCHANGED <<pid, process, status, signals, oomEvent, elapsed, request,
                   registry, token, watching, waiting, cleaning, killing>>

\* select!: memory.events changed, but neither OOM counter did.
OomNotFound(c) ==
    /\ Up /\ oomTask[c] = "watching" /\ notified[c] /\ ~CounterChanged(c)
    /\ notified' = [notified EXCEPT ![c] = FALSE]
    /\ UNCHANGED <<pid, process, status, signals, oomEvent, elapsed, request,
                   registry, token, watching, waiting, ooming, cleaning, killing>>

-----------------------------------------------------------------------------
(* The cleanup task of watch_grandchild. *)

\* exit_tx.subscribe() runs when the task is first polled: a message that was
\* sent before is not seen, and since the task owns a sender itself the
\* channel never closes.
CleanupSubscribe(c) ==
    /\ Up /\ cleanup[c] = "spawned"
    /\ cleanup' = [cleanup EXCEPT ![c] =
                     IF published[c] = None THEN "subscribed" ELSE "lost"]
    /\ UNCHANGED <<kernel, request, registry, token, watching, waiting, ooming,
                   leakFds, killing>>

\* Faulty: leak_fds are dropped without waiting for the exit.
CleanupRecvEarly(c) ==
    /\ Up /\ cleanup[c] = "subscribed"
    /\ cleanup' = [cleanup EXCEPT ![c] = "forget"]
    /\ leakFds' = [leakFds EXCEPT ![c] = FALSE]
    /\ UNCHANGED <<kernel, request, registry, token, watching, waiting, ooming,
                   killing>>

\* recv() returns: drop(leak_fds).
CleanupRecv(c) ==
    /\ Up /\ cleanup[c] = "subscribed" /\ published[c] # None
    /\ cleanup' = [cleanup EXCEPT ![c] = "forget"]
    /\ leakFds' = [leakFds EXCEPT ![c] = FALSE]
    /\ UNCHANGED <<kernel, request, registry, token, watching, waiting, ooming,
                   killing>>

\* Faulty: every entry with this id leaves the map.
RemainingOtherIds(c) == {d \in grandchildren : IdOf[d] # IdOf[c]}

\* retain: every entry with this pid leaves the map.
Remaining(c) == {d \in grandchildren : pid[d] # pid[c]}

\* forget_grandchild.
ForgetGrandchild(c) ==
    /\ Up /\ LockFree /\ cleanup[c] = "forget"
    /\ grandchildren' = Remaining(c)
    /\ cleanup' = [cleanup EXCEPT ![c] = "done"]
    /\ UNCHANGED <<kernel, request, position, token, watching, waiting, ooming,
                   leakFds, killing>>

-----------------------------------------------------------------------------
(* kill_grandchildren, called by the server's signal handler. *)

ReceiveSignal ==
    /\ killer = "idle"
    /\ killer' = "closing"
    /\ UNCHANGED <<kernel, request, registry, token, watching, waiting, ooming,
                   cleaning, current, closed>>

\* One turn of the loop: kill_grandchild, then close() awaits the watch task.
KillGrandchild(c) ==
    /\ killer = "closing" /\ current = None
    /\ c \in Firsts \ closed
    /\ current' = c
    /\ signals' = Signalled(pid[c], SIGTERM)
    /\ UNCHANGED <<pid, process, status, oomEvent, notified, elapsed, request,
                   registry, token, watching, waiting, ooming, cleaning, killer,
                   closed>>

\* Faulty: the watch task is not awaited.
CloseAtOnce(c) ==
    /\ killer = "closing" /\ current = c
    /\ current' = None
    /\ closed' = closed \cup {c}
    /\ UNCHANGED <<kernel, request, registry, token, watching, waiting, ooming,
                   cleaning, killer>>

Close(c) ==
    /\ killer = "closing" /\ current = c
    /\ watch[c] = "done"
    /\ current' = None
    /\ closed' = closed \cup {c}
    /\ UNCHANGED <<kernel, request, registry, token, watching, waiting, ooming,
                   cleaning, killer>>

\* The loop is over: the lock is released.
KillDone ==
    /\ killer = "closing" /\ current = None /\ Firsts \subseteq closed
    /\ killer' = "done"
    /\ UNCHANGED <<kernel, request, registry, token, watching, waiting, ooming,
                   cleaning, current, closed>>

\* The shutdown message reaches the backend: the runtime is shut down in the
\* background, whatever its tasks are doing, and the process exits.
ServerExit ==
    /\ killer = "done"
    /\ killer' = "exited"
    /\ UNCHANGED <<kernel, request, registry, token, watching, waiting, ooming,
                   cleaning, current, closed>>

-----------------------------------------------------------------------------

KernelStep(c) == \/ Exit(c) \/ DieOfSigkill(c) \/ OomKill(c) \/ MemoryEvent(c)
                 \/ Elapse(c)
RpcStep(c) == \/ CreateChild(c) \/ CreateFails(c) \/ RuntimeSucceeds(c)
              \/ RuntimeFails(c) \/ ReadPidfile(c) \/ PidfileFails(c)
              \/ FailureRead(c) \/ Disconnect(c) \/ OrphanEnds(c)
              \/ WatchGrandchild(c) \/ ExecReadEof(c) \/ ExecReadTimeout(c)
              \/ ExecAnswer(c) \/ StdinEof(c)
WatchStep(c) == \/ WatchStart(c) \/ WaitForExitCode(c) \/ WaitpidError(c)
                \/ JoinDone(c) \/ JoinTimeout(c) \/ WriteExitPaths(c)
                \/ SendExit(c)
OomStep(c) == \/ OomWatch(c) \/ OomNoCgroup(c) \/ OomCancelled(c)
              \/ OomRemoved(c) \/ OomFound(c) \/ OomNotFound(c)
CleanupStep(c) == \/ CleanupSubscribe(c) \/ CleanupRecv(c) \/ ForgetGrandchild(c)
KillLoop == KillDone \/ \E c \in Child : KillGrandchild(c) \/ Close(c)
KillStep == ReceiveSignal \/ KillLoop \/ ServerExit

Next ==
    \/ \E c \in Child : \/ KernelStep(c) \/ RpcStep(c) \/ WatchStep(c)
                        \/ OomStep(c) \/ CleanupStep(c)
    \/ KillStep

Spec == Init /\ [][Next]_vars

-----------------------------------------------------------------------------
(* Safety. *)

\* What a child's exit code has to be: the wait status of its own process.
TrueCode(c, code) ==
    IF c \in Unwaitable
    THEN code = FAILED_EXIT_CODE
    ELSE process[c] = "reaped" /\ code = ToExitCode(status[c])

\* The exit file of a container appears only after its own process was reaped
\* and holds that process's code, whatever timeouts, signals, OOM events, pid
\* reuse and attach sessions happen around it (watch, wait_for_exit_code and
\* write_to_exit_paths of child_reaper.rs).
ExitFileTruthful ==
    \A c \in Container : exitFile[c] # None => TrueCode(c, exitFile[c])

\* The answer to an exec that got as far as being registered is the code of its
\* process, or says that it timed out, and then the deadline really passed
\* (exec_sync_container of rpc.rs and the timeout of watch).
ExecAnswerTruthful ==
    \A c \in Exec : position[c] > 0 /\ rpc[c] = "answered" =>
        IF answer[c].timedOut THEN elapsed[c] ELSE TrueCode(c, answer[c].code)

\* The leaked descriptors of a container stay open while its process runs
\* (leak_fds of watch_grandchild; LeakFDs of the Go client).
LeakFdsHeld ==
    \A c \in Container \ Unwaitable :
        position[c] > 0 /\ process[c] = "running" => leakFds[c]

\* A registered child stays in the map, where get, attach, reopen_log,
\* set_window_size and the signal handler find it, until its exit is published
\* (forget_grandchild removes by pid, so this needs pids that are not reused).
RegisteredUntilExit ==
    ~ReusePids =>
        \A c \in Child : position[c] > 0 /\ published[c] = None
                            => c \in grandchildren

\* As long as a container's exit is not published, get(id) finds the container
\* and not one of the execs registered under the same id.
ContainerFound ==
    ~ReusePids =>
        \A c \in Container : position[c] > 0 /\ published[c] = None => c \in Firsts

\* An OOM is reported only if there was one: not for another change of
\* memory.events, and whichever of the token, the exit and the event the tasks
\* see first.  The report comes with the files that stand for it, unless they
\* could not be written, and there are no files without an OOM
\* (oom_handling_cgroup_v2 and watch).
OomReportReal ==
    \A c \in Child :
        /\ published[c] # None /\ published[c].oomed =>
              oomEvent[c] /\ (oomFile[c] \/ c \in Unwritable)
        /\ oomFile[c] => oomEvent[c]

\* Once the signal handler is done with a grandchild its exit is published, and
\* the exit file of a container is written, unless it cannot be: the server
\* never exits between killing a container and recording its exit
\* (kill_grandchildren and close).
ShutdownAwaitsExit ==
    \A c \in closed : /\ published[c] # None
                      /\ c \in Container \ Unwritable => exitFile[c] # None

-----------------------------------------------------------------------------
(* Refinement. *)

Monitor == INSTANCE ExitMonitor WITH
    Code <- {ToExitCode(ws) : ws \in WaitStatus},
    Failed <- FAILED_EXIT_CODE,
    started <- {c \in Child : process[c] # "unborn"},
    ended <- [c \in Child |->
                IF status[c] = None THEN None ELSE ToExitCode(status[c])],
    known <- grandchildren,
    report <- [c \in Child |->
                 IF published[c] = None THEN None
                 ELSE [code |-> published[c].code, timedOut |-> published[c].timedOut]]

\* With pids that are not reused the reaper implements the abstract monitor:
\* through all its tasks, every child is reported on at most once, truthfully,
\* while it is known, and forgotten only afterwards.
ImplementsMonitor == Monitor!Spec

-----------------------------------------------------------------------------
(* Liveness.  Tasks that can run are scheduled (tokio is fair to ready tasks, *)
(* its select! picks a ready branch at random), time passes, SIGKILL kills.   *)
(* Nothing is assumed of clients, of the runtime, of the moment a process     *)
(* ends (it may ignore SIGTERM), or of the server being told to stop.         *)

TaskFairness(c) ==
    /\ WF_vars(WatchStep(c))
    /\ WF_vars(OomWatch(c) \/ OomNoCgroup(c))
    /\ WF_vars(OomCancelled(c))
    /\ WF_vars(CleanupSubscribe(c))
    /\ WF_vars(CleanupRecv(c))
    /\ WF_vars(ForgetGrandchild(c))
    /\ WF_vars(WatchGrandchild(c))
    /\ WF_vars(ExecReadTimeout(c))
    /\ WF_vars(ExecAnswer(c))
    /\ WF_vars(Elapse(c))
    /\ WF_vars(DieOfSigkill(c))

FairSpec == Spec /\ (\A c \in Child : TaskFairness(c)) /\ WF_vars(KillLoop)

\* The exit of every registered container is recorded in its exit file, unless
\* the file cannot be written or the server is told to stop (README: conmonrs is
\* there for "writing the exit code").
ExitRecorded ==
    \A c \in Container \ Unwritable :
        (process[c] = "zombie" /\ position[c] > 0)
            ~> (exitFile[c] # None \/ killer # "idle")

\* An exec with a timeout is answered even if its process ignores everything
\* and holds its streams open, unless its client is gone, and leaves no process
\* behind, answered or not, unless the server stops (exec_sync_container and
\* the timed join of watch).
TimedExecEnds ==
    \A c \in Timed :
        /\ (rpc[c] = "reading")
              ~> (rpc[c] \in {"answered", "dropped"} \/ killer # "idle")
        /\ (rpc[c] = "reading" /\ c \notin Unwaitable)
              ~> (process[c] = "reaped" \/ killer # "idle")


-----------------------------------------------------------------------------
(* What the documentation promises and the code does not keep. *)

\* pkg/client/client.go, LeakFDs: "keep file descriptors open as long as the
\* container is running", so not for longer.
LeakFdsReleased ==
    \A c \in Container :
        (process[c] = "reaped" /\ leakFds[c]) ~> (~leakFds[c] \/ killer # "idle")

=============================================================================
