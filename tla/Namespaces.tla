----------------------------- MODULE Namespaces -----------------------------
(***************************************************************************)
(* CreateNamespaces on the server (rpc.rs) and the pause process           *)
(* (pause.rs).  The first request starts `conmonrs pause`, which forks: the *)
(* parent writes the PID file, the ID mappings and waits for the mounts;   *)
(* the child unshares, binds every namespace below the pod's path and then *)
(* sleeps until SIGTERM.  The handler blocks the RPC thread until the      *)
(* parent has exited and keeps the result in a OnceCell for all later      *)
(* requests.  The signal handler of the server, on another thread, stops   *)
(* what it finds in the cell.                                              *)
(*                                                                         *)
(* Both processes hold both ends of the socket pair, so a read never sees  *)
(* the end of the stream.  With a user namespace the child also unshares   *)
(* its mount namespace: its mounts are its own then, nobody else sees them *)
(* and they end with it; only the files they lie on are the host's.        *)
(*                                                                         *)
(* Faults (a failing system call, a killed process) are bounded by         *)
(* MaxFaults, requests by MaxRequests.                                     *)
(***************************************************************************)
EXTENDS Integers, Sequences, FiniteSets, SequencesExt

CONSTANTS
    Pod,            \* pod IDs
    Wants,          \* the sets of namespaces a request may ask to unshare
    MaxRequests,
    MaxFaults

(* The order of Namespace::iter().                                         *)
NamespaceIter == << "ipc", "pid", "net", "user", "uts" >>

ASSUME WantsAssumption == Wants \subseteq SUBSET Range(NamespaceIter)
ASSUME BoundsAssumption == MaxRequests \in Nat /\ MaxFaults \in Nat

(* The server refuses the empty pod ID.                                    *)
NoPod == ""

ASSUME PodAssumption == NoPod \notin Pod

VARIABLES
    handler,    \* [pc, pod]: create_namespaces on the RPC thread
    answer,     \* [status, pod]: the last answer
    cell,       \* the OnceCell: empty or [pod, pid]
    pause,      \* the runs of `conmonrs pause`, in the order of their start
    bound,      \* how many mounts of the host lie on the path of a pod's namespace
    file,       \* whether that path exists
    pidfile,    \* the run whose child a pod's PID file names, or a mark
    stop,       \* [pc, at, ignored, missed]: the signal handler
    requests, faults

vars == << handler, answer, cell, pause, bound, file, pidfile, stop,
           requests, faults >>

Empty == [pod |-> NoPod, pid |-> 0]     \* no instance in the cell
NoFile == 0
EmptyFile == -1                         \* created, but not written

Run == DOMAIN pause
Current == Len(pause)
User(i) == "user" \in pause[i].want

(* One byte on the way in each direction of the socket pair.               *)
NewRun(pod, want) ==
    [pod |-> pod, want |-> want, parent |-> "start", child |-> "none", at |-> 1,
     toParent |-> 0, toChild |-> 0, term |-> FALSE]

Fault ==
    /\ faults < MaxFaults
    /\ faults' = faults + 1

-----------------------------------------------------------------------------
(* The RPC handler.                                                        *)

Reply(status, pod) ==
    /\ handler' = [handler EXCEPT !.pc = "idle"]
    /\ answer' = [status |-> status, pod |-> pod]

(* create_namespaces up to the wait for the pause process.  A cell that is *)
(* filled answers every pod, with paths made from the pod of the request.  *)
create_namespaces(pod, want, mapped) ==
    /\ handler.pc = "idle"
    /\ stop.pc # "done"
    /\ requests < MaxRequests
    /\ requests' = requests + 1
    /\ \/ /\ pod = NoPod
          /\ Reply("error", pod)
          /\ pause' = pause
       \/ /\ pod # NoPod
          /\ cell # Empty
          /\ Reply("ok", pod)
          /\ pause' = pause
       \/ /\ pod # NoPod
          /\ cell = Empty
          /\ "user" \in want /\ ~mapped
          /\ Reply("error", pod)
          /\ pause' = pause
       \/ /\ pod # NoPod
          /\ cell = Empty
          /\ "user" \in want => mapped
          /\ handler' = [pc |-> "wait", pod |-> pod]
          /\ pause' = Append(pause, NewRun(pod, want))
          /\ answer' = answer
    /\ UNCHANGED << cell, bound, file, pidfile, stop, faults >>

(* child.wait(), the status, and the PID file.                             *)
init ==
    /\ handler.pc = "wait"
    /\ \/ /\ pause[Current].parent = "exited"
          /\ cell' = [pod |-> handler.pod, pid |-> pidfile[handler.pod]]
          /\ Reply("ok", handler.pod)
       \/ /\ pause[Current].parent = "failed"
          /\ cell' = cell
          /\ Reply("error", handler.pod)
    /\ UNCHANGED << pause, bound, file, pidfile, stop, requests, faults >>

(* The PID file cannot be read: the namespaces stay, unknown to the server. *)
initFails ==
    /\ handler.pc = "wait"
    /\ pause[Current].parent = "exited"
    /\ Reply("error", handler.pod)
    /\ Fault
    /\ UNCHANGED << cell, pause, bound, file, pidfile, stop, requests >>

-----------------------------------------------------------------------------
(* `conmonrs pause`: the process the server started, the parent half.      *)

Unchanged == UNCHANGED << handler, answer, cell, stop, requests >>

Parent(i, from, to) ==
    /\ pause[i].parent = from
    /\ pause' = [pause EXCEPT ![i].parent = to]

(* Without a user namespace everything is unshared before the fork.        *)
unshare(i) ==
    /\ Parent(i, "start", "fork")
    /\ UNCHANGED << bound, file, pidfile, faults >>
    /\ Unchanged

(* Starting the process, unsharing, forking or writing the mappings fails. *)
ParentFails(i) ==
    /\ pause[i].parent \in {"start", "fork", "map"}
    /\ pause' = [pause EXCEPT ![i].parent = "failed"]
    /\ Fault
    /\ UNCHANGED << bound, file, pidfile >>
    /\ Unchanged

fork(i) ==
    /\ pause[i].parent = "fork"
    /\ pause' = [pause EXCEPT ![i].parent = "pidfile", ![i].child = "start"]
    /\ UNCHANGED << bound, file, pidfile, faults >>
    /\ Unchanged

WritePidfile(i) ==
    /\ Parent(i, "pidfile", IF User(i) THEN "user" ELSE "mounts")
    /\ pidfile' = [pidfile EXCEPT ![pause[i].pod] = i]
    /\ UNCHANGED << bound, file, faults >>
    /\ Unchanged

(* The child goes on when its parent has given up.                         *)
WritePidfileFails(i) ==
    /\ Parent(i, "pidfile", "failed")
    /\ pidfile' \in {pidfile, [pidfile EXCEPT ![pause[i].pod] = EmptyFile]}
    /\ Fault
    /\ UNCHANGED << bound, file >>
    /\ Unchanged

ReadUser(i) ==
    /\ pause[i].parent = "user"
    /\ pause[i].toParent > 0
    /\ pause' = [pause EXCEPT ![i].parent = "map", ![i].toParent = @ - 1]
    /\ UNCHANGED << bound, file, pidfile, faults >>
    /\ Unchanged

(* Faulty: the child is not told.                                          *)
write_mappingsSilent(i) ==
    /\ Parent(i, "map", "mounts")
    /\ UNCHANGED << bound, file, pidfile, faults >>
    /\ Unchanged

(* A child that died meanwhile still has its entry in /proc.               *)
write_mappings(i) ==
    /\ pause[i].parent = "map"
    /\ pause' = [pause EXCEPT ![i].parent = "mounts", ![i].toChild = @ + 1]
    /\ UNCHANGED << bound, file, pidfile, faults >>
    /\ Unchanged

(* Faulty: the parent does not wait for the mounts.                        *)
ReadMountsNoWait(i) ==
    /\ Parent(i, "mounts", "exited")
    /\ UNCHANGED << bound, file, pidfile, faults >>
    /\ Unchanged

ReadMounts(i) ==
    /\ pause[i].parent = "mounts"
    /\ pause[i].toParent > 0
    /\ pause' = [pause EXCEPT ![i].parent = "exited", ![i].toParent = @ - 1]
    /\ UNCHANGED << bound, file, pidfile, faults >>
    /\ Unchanged

-----------------------------------------------------------------------------
(* The child half.                                                         *)

(* With a user namespace the child unshares it first and reports that.     *)
UnshareUser(i) ==
    /\ pause[i].child = "start"
    /\ pause' = IF User(i)
                THEN [pause EXCEPT ![i].child = "maps", ![i].toParent = @ + 1]
                ELSE [pause EXCEPT ![i].child = "bind"]
    /\ UNCHANGED << bound, file, pidfile, faults >>
    /\ Unchanged

(* ... and takes the root IDs and the rest once the mappings are there.    *)
ReadMapped(i) ==
    /\ pause[i].child = "maps"
    /\ pause[i].toChild > 0
    /\ pause' = [pause EXCEPT ![i].child = "bind", ![i].toChild = @ - 1]
    /\ UNCHANGED << bound, file, pidfile, faults >>
    /\ Unchanged

(* All namespaces are bound, shared with the host or not; then the parent  *)
(* is told.  The mount is one of the host unless the child has a mount     *)
(* namespace of its own, where it is one of the first at - 1.              *)
bind(i) ==
    /\ pause[i].child = "bind"
    /\ \/ /\ pause[i].at <= Len(NamespaceIter)
          /\ file' = [file EXCEPT ![pause[i].pod][NamespaceIter[pause[i].at]] = TRUE]
          /\ bound' = IF User(i) THEN bound
                      ELSE [bound EXCEPT ![pause[i].pod][NamespaceIter[pause[i].at]] = @ + 1]
          /\ pause' = [pause EXCEPT ![i].at = @ + 1]
       \/ /\ pause[i].at > Len(NamespaceIter)
          /\ pause' = [pause EXCEPT ![i].child = "bound", ![i].toParent = @ + 1]
          /\ UNCHANGED << bound, file >>
    /\ UNCHANGED << pidfile, faults >>
    /\ Unchanged

(* The path is there, but mounting on it fails: the child ends.            *)
MountFails(i) ==
    /\ pause[i].child = "bind"
    /\ pause[i].at <= Len(NamespaceIter)
    /\ file' = [file EXCEPT ![pause[i].pod][NamespaceIter[pause[i].at]] = TRUE]
    /\ pause' = [pause EXCEPT ![i].child = "dead"]
    /\ Fault
    /\ UNCHANGED << bound, pidfile >>
    /\ Unchanged

registerSignals(i) ==
    /\ pause[i].child = "bound"
    /\ pause' = [pause EXCEPT ![i].child = "asleep"]
    /\ UNCHANGED << bound, file, pidfile, faults >>
    /\ Unchanged

(* A system call of the child fails, or the child is killed.  The mounts   *)
(* of the host stay.                                                       *)
ChildDies(i) ==
    /\ pause[i].child \notin {"none", "dead"}
    /\ pause' = [pause EXCEPT ![i].child = "dead"]
    /\ Fault
    /\ UNCHANGED << bound, file, pidfile >>
    /\ Unchanged

(* SIGTERM arrives: the child ends, asleep or not.                         *)
Terminated(i) ==
    /\ pause[i].term
    /\ pause[i].child # "dead"
    /\ pause' = [pause EXCEPT ![i].child = "dead"]
    /\ UNCHANGED << bound, file, pidfile, faults >>
    /\ Unchanged

-----------------------------------------------------------------------------
(* The signal handler of the server.                                       *)

HandleSignal ==
    /\ stop.pc = "none"
    /\ stop' = [stop EXCEPT !.pc = IF cell = Empty THEN "skipped" ELSE "umount"]
    /\ UNCHANGED << handler, answer, cell, pause, bound, file, pidfile, requests, faults >>

Target == NamespaceIter[stop.at]

Umounting ==
    /\ stop.pc = "umount"
    /\ stop.at <= Len(NamespaceIter)
    /\ UNCHANGED << handler, answer, cell, pause, pidfile, requests >>

(* What umount(2) leaves on the path: the uppermost mount goes.            *)
Popped == [bound EXCEPT ![cell.pod][Target] = IF @ > 0 THEN @ - 1 ELSE 0]

(* Faulty: only what the request named is unmounted.                       *)
umountWanted ==
    /\ Umounting
    /\ stop' = [stop EXCEPT !.at = @ + 1]
    /\ bound' = IF Target \in pause[cell.pid].want THEN Popped ELSE bound
    /\ file' = [file EXCEPT ![cell.pod][Target] = @ /\ bound'[cell.pod][Target] > 0]
    /\ UNCHANGED faults

(* Unmount, and whatever that said, unlink the path: nothing is mounted on *)
(* the path of a child with its own mounts, and a path that is still a     *)
(* mount point cannot be removed.                                          *)
umount ==
    /\ Umounting
    /\ stop' = [stop EXCEPT !.at = @ + 1]
    /\ bound' = Popped
    /\ file' = [file EXCEPT ![cell.pod][Target] = @ /\ Popped[cell.pod][Target] > 0]
    /\ UNCHANGED faults

(* Either call fails; stop logs it and goes on with the next namespace.    *)
umountFails ==
    /\ Umounting
    /\ stop' = [stop EXCEPT !.at = @ + 1, !.missed = @ \cup {Target}]
    /\ bound' \in {bound, Popped}
    /\ file' = file
    /\ Fault

(* The first process of a PID namespace does not get a signal it has no    *)
(* handler for.  The child is one when it was forked after the unshare.    *)
InitOfPidNamespace(i) == "pid" \in pause[i].want /\ ~User(i)

TermIgnored(i) == pause[i].child = "bound" /\ InitOfPidNamespace(i)

(* SIGTERM is sent, to a process that may be gone; nobody waits for it.    *)
kill ==
    /\ stop.pc = "umount"
    /\ stop.at > Len(NamespaceIter)
    /\ stop' = [stop EXCEPT !.pc = "killed", !.ignored = TermIgnored(cell.pid)]
    /\ pause' = [pause EXCEPT ![cell.pid].term = ~TermIgnored(cell.pid)]
    /\ UNCHANGED << handler, answer, cell, bound, file, pidfile, requests, faults >>

RemovePidfile ==
    /\ stop.pc = "killed"
    /\ \/ /\ pidfile' = [pidfile EXCEPT ![cell.pod] = NoFile]
          /\ stop' = [stop EXCEPT !.pc = "done"]
          /\ faults' = faults
       \/ /\ pidfile' = pidfile
          /\ stop' = [stop EXCEPT !.pc = "done", !.missed = @ \cup {"pidfile"}]
          /\ Fault
    /\ UNCHANGED << handler, answer, cell, pause, bound, file, requests >>

-----------------------------------------------------------------------------
Init ==
    /\ handler = [pc |-> "idle", pod |-> NoPod]
    /\ answer = [status |-> "none", pod |-> NoPod]
    /\ cell = Empty
    /\ pause = << >>
    /\ bound = [p \in Pod |-> [n \in Range(NamespaceIter) |-> 0]]
    /\ file = [p \in Pod |-> [n \in Range(NamespaceIter) |-> FALSE]]
    /\ pidfile = [p \in Pod |-> NoFile]
    /\ stop = [pc |-> "none", at |-> 1, ignored |-> FALSE, missed |-> {}]
    /\ requests = 0
    /\ faults = 0

ParentStep(i) ==
    unshare(i) \/ fork(i) \/ WritePidfile(i) \/ ReadUser(i) \/ write_mappings(i) \/ ReadMounts(i)

ChildStep(i) ==
    UnshareUser(i) \/ ReadMapped(i) \/ bind(i) \/ registerSignals(i) \/ Terminated(i)

RunFails(i) == ParentFails(i) \/ WritePidfileFails(i) \/ MountFails(i) \/ ChildDies(i)

StopStep == umount \/ kill \/ RemovePidfile

Next ==
    \/ \E p \in Pod \cup {NoPod}, w \in Wants, m \in BOOLEAN : create_namespaces(p, w, m)
    \/ init \/ initFails
    \/ \E i \in Run : ParentStep(i) \/ ChildStep(i)
    \/ \E i \in Run : RunFails(i)
    \/ HandleSignal
    \/ StopStep \/ umountFails

Spec == Init /\ [][Next]_vars

(* The operating system runs every process that can run, and the threads   *)
(* of the server; nobody has to send requests or signals.                  *)
FairSpec ==
    /\ Spec
    /\ WF_vars(init)
    /\ WF_vars(StopStep)
    /\ \A i \in 1..MaxRequests :
          /\ WF_vars(i \in Run /\ ParentStep(i))
          /\ WF_vars(i \in Run /\ ChildStep(i))

-----------------------------------------------------------------------------
(* The child of the run has mounted the namespace and the mount is still   *)
(* there: on the host, or as long as the child lives in its own tree.      *)
Mounted(i, n) ==
    IF User(i) THEN pause[i].child # "dead" /\ \E k \in 1..(pause[i].at - 1) : NamespaceIter[k] = n
               ELSE bound[pause[i].pod][n] > 0

(* Until the server is stopped, the paths a successful answer lists for    *)
(* the pod the instance was made for exist, every one, and a namespace is  *)
(* mounted on each, for as long as the child lives, and beyond its end     *)
(* when it has no user namespace; and the process the instance will stop   *)
(* is the one that mounted them.  All this whatever failed in earlier      *)
(* attempts, and however their processes go on.  About init, run, bind and *)
(* the answer of create_namespaces.                                        *)
NamespacesBound ==
    answer.status = "ok" /\ answer.pod = cell.pod /\ stop.pc = "none" =>
        /\ \A n \in Range(NamespaceIter) :
              /\ file[cell.pod][n]
              /\ Mounted(cell.pid, n) \/ (User(cell.pid) /\ pause[cell.pid].child = "dead")
        /\ pause[cell.pid].pod = cell.pod
        /\ pause[cell.pid].child \in {"bound", "asleep", "dead"}
        /\ pidfile[cell.pod] = cell.pid

(* The run for this pod whose child stop() knows nothing of.               *)
Stray(i) == i # cell.pid /\ pause[i].pod = cell.pod /\ pause[i].child # "none"

(* Stopping leaves nothing of the pod behind on the host, a mount, a path  *)
(* or the PID file, but what the failing call was for, which it passes     *)
(* over: one failure does not keep it from the rest.  A child of a user    *)
(* namespace, whose paths are no mount points of the host, is no exception. *)
(* The pause process has gone or the signal is on its way, unless it came  *)
(* before the handler of the first process of a PID namespace.  All this   *)
(* unless an earlier attempt for the pod left a child behind.  About       *)
(* Pause::stop and Namespace::umount.                                      *)
StopCleans ==
    stop.pc = "done" /\ (\A i \in Run : ~Stray(i)) =>
        /\ \A n \in Range(NamespaceIter) \ stop.missed :
              bound[cell.pod][n] = 0 /\ ~file[cell.pod][n]
        /\ \A n \in Range(NamespaceIter) : bound[cell.pod][n] <= 1
        /\ "pidfile" \notin stop.missed => pidfile[cell.pod] = NoFile
        /\ \/ pause[cell.pid].child = "dead"
           \/ pause[cell.pid].term
           \/ stop.ignored

(* A child that is gone before it has told the parent about the mounts.    *)
LostChild(i) == pause[i].child = "dead" /\ pause[i].toParent = 0

(* A request that waits for the pause process is answered, with the two    *)
(* processes waiting for each other in turn, unless the child died: then   *)
(* the parent reads from a socket whose other end it holds itself, and the *)
(* RPC thread stands still for ever.  About the socket pair of run and the *)
(* wait of init.                                                           *)
InitAnswered == (handler.pc = "wait") ~> (handler.pc = "idle" \/ LostChild(Current))

=============================================================================
