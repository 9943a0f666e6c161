-------------------------- MODULE NamespacesProofs --------------------------
(***************************************************************************)
(* Proofs about Namespaces for every set of pods, of requests and of       *)
(* faults.  The inductive invariant describes one run of the pause process *)
(* by itself (Handshake: how far the two halves can be from each other),   *)
(* what the handler and the cell know of the runs, and which mounts the    *)
(* runs account for.                                                       *)
(***************************************************************************)
EXTENDS Namespaces, SequenceTheorems, TLAPS

Kind == {"ipc", "pid", "net", "user", "uts"}
Count == 5

RunRecord ==
    [pod : Pod, want : SUBSET Kind,
     parent : {"start", "fork", "pidfile", "user", "map", "mounts", "exited", "failed"},
     child : {"none", "start", "maps", "bind", "bound", "asleep", "dead"},
     at : 1..(Count + 1), toParent : 0..1, toChild : 0..1, term : BOOLEAN]

StopRecord ==
    [pc : {"none", "skipped", "umount", "killed", "done"}, at : 1..(Count + 1),
     ignored : BOOLEAN, missed : SUBSET (Kind \cup {"pidfile"})]

TypeInv ==
    /\ handler \in [pc : {"idle", "wait"}, pod : Pod \cup {NoPod}]
    /\ answer \in [status : {"none", "ok", "error"}, pod : Pod \cup {NoPod}]
    /\ cell \in [pod : Pod \cup {NoPod}, pid : Int]
    /\ pause \in Seq(RunRecord)
    /\ bound \in [Pod -> [Kind -> Nat]]
    /\ file \in [Pod -> [Kind -> BOOLEAN]]
    /\ pidfile \in [Pod -> Int]
    /\ stop \in StopRecord

\* The parent half is through, well or badly.
Over(r) == r.parent \in {"exited", "failed"}

\* The parent half has written the PID file.
Written(r) == r.parent \in {"user", "map", "mounts", "exited"}

\* The child half has bound everything and said so.
AllBound(r) == r.at = Count + 1 /\ r.child \in {"bound", "asleep", "dead"}

\* How far the halves of one run can be apart.
Handshake(r) ==
    /\ r.parent \in {"start", "fork"} => r.child = "none"
    /\ r.child = "none" => /\ r.parent \in {"start", "fork", "failed"}
                           /\ r.toParent = 0 /\ r.toChild = 0 /\ ~r.term
    /\ r.child \in {"none", "start", "maps"} => r.at = 1
    /\ r.child \in {"bound", "asleep"} => r.at = Count + 1
    /\ r.child \in {"start", "bind"} => r.toParent = 0
    /\ r.parent \in {"user", "map"} => "user" \in r.want
    /\ r.parent \in {"mounts", "exited"} /\ r.toParent > 0 => AllBound(r)
    /\ r.parent = "exited" => AllBound(r)
    /\ IF "user" \in r.want
       THEN /\ r.child = "start" => r.parent \in {"pidfile", "user", "failed"}
            /\ r.parent \in {"pidfile", "user", "map"} =>
                   r.toChild = 0 /\ r.child \in {"start", "maps", "dead"}
            /\ r.child \in {"maps", "start"} /\ r.toChild > 0 => r.toParent = 0
            /\ r.parent \in {"map", "mounts"} /\ r.child = "maps" => r.toParent = 0
            /\ r.parent = "map" => r.toParent = 0
            /\ r.parent = "failed" /\ r.child \in {"start", "maps"} => r.toChild = 0
       ELSE /\ r.child # "maps"
            /\ r.toParent > 0 => AllBound(r)

RunInv == \A i \in DOMAIN pause : Handshake(pause[i])

\* Only the last run has a parent that is not through, and only while the
\* handler waits for it; then its PID file is the one the handler will read.
HandlerInv ==
    /\ handler.pc = "wait" =>
          /\ cell = Empty /\ Len(pause) > 0
          /\ pause[Len(pause)].pod = handler.pod
          /\ Written(pause[Len(pause)]) => pidfile[handler.pod] = Len(pause)
    /\ \A i \in DOMAIN pause : Over(pause[i]) \/ (handler.pc = "wait" /\ i = Len(pause))
    /\ answer.status = "ok" => answer.pod \in Pod

\* The cell names a run that came to its end, and its PID file until the stop.
CellInv ==
    IF cell.pod = NoPod
    THEN cell = Empty /\ stop.pc \in {"none", "skipped"}
    ELSE /\ cell.pid \in DOMAIN pause
         /\ pause[cell.pid].pod = cell.pod /\ pause[cell.pid].parent = "exited"
         /\ stop.pc # "done" => pidfile[cell.pod] = cell.pid
         /\ stop.pc = "done" /\ "pidfile" \notin stop.missed => pidfile[cell.pod] = NoFile

\* No other run of the pod has a child.
Only(i) ==
    \A j \in DOMAIN pause : j # i /\ pause[j].pod = pause[i].pod => pause[j].child = "none"

\* The child mounts in the host's mount namespace.
Shared(r) == "user" \notin r.want

\* Before a stop, runs account for the mounts, and their paths are there.
BoundInv ==
    stop.pc \in {"none", "skipped"} =>
        /\ \A i \in DOMAIN pause : \A k \in 1..Count :
              /\ k < pause[i].at /\ Shared(pause[i]) => bound[pause[i].pod][NamespaceIter[k]] > 0
              /\ Only(i) => bound[pause[i].pod][NamespaceIter[k]] =
                                IF k < pause[i].at /\ Shared(pause[i]) THEN 1 ELSE 0
        /\ \A p \in Pod : (\A i \in DOMAIN pause : pause[i].pod # p) =>
              \A n \in Kind : bound[p][n] = 0

FileInv ==
    stop.pc \in {"none", "skipped"} =>
        \A i \in DOMAIN pause : \A k \in 1..Count :
            k < pause[i].at => file[pause[i].pod][NamespaceIter[k]]

\* During a stop, nothing of the instance is left where the stop has passed
\* without a failure.
StopInv ==
    IF stop.pc \in {"none", "skipped"}
    THEN stop.at = 1
    ELSE /\ Only(cell.pid) => \A k \in 1..Count :
               /\ bound[cell.pod][NamespaceIter[k]] \in 0..1
               /\ k < stop.at /\ NamespaceIter[k] \notin stop.missed =>
                      bound[cell.pod][NamespaceIter[k]] = 0 /\ ~file[cell.pod][NamespaceIter[k]]
         /\ stop.pc # "umount" =>
               /\ stop.at = Count + 1
               /\ pause[cell.pid].child = "dead" \/ pause[cell.pid].term \/ stop.ignored

Inv == TypeInv /\ RunInv /\ HandlerInv /\ CellInv /\ BoundInv /\ FileInv /\ StopInv

\* A step of one run adds paths of its pod at most, and only when it binds.
FileGrows(i) ==
    /\ file' \in [Pod -> [Kind -> BOOLEAN]]
    /\ \A q \in Pod, m \in Kind :
          /\ file[q][m] => file'[q][m]
          /\ q # pause[i].pod \/ pause[i].child # "bind" => file'[q][m] = file[q][m]

-----------------------------------------------------------------------------

\* Namespace::iter yields every kind once.
LEMMA IterFacts ==
  /\ Len(NamespaceIter) = Count
  /\ Range(NamespaceIter) = Kind
  /\ \A k \in 1..Count : NamespaceIter[k] \in Kind
  /\ \A n \in Kind : \E k \in 1..Count : NamespaceIter[k] = n
  /\ \A j, k \in 1..Count : NamespaceIter[j] = NamespaceIter[k] => j = k
  BY DEF NamespaceIter, Range, Kind, Count

\* Changing one run leaves the others alone.
LEMMA ChangeRun ==
  ASSUME pause \in Seq(RunRecord), NEW i \in DOMAIN pause, NEW r \in RunRecord,
         pause' = [pause EXCEPT ![i] = r]
  PROVE  /\ pause' \in Seq(RunRecord) /\ Len(pause') = Len(pause)
         /\ DOMAIN pause' = DOMAIN pause
         /\ pause'[i] = r
         /\ \A j \in DOMAIN pause : j # i => pause'[j] = pause[j]
  <1>1. i \in 1..Len(pause) /\ DOMAIN pause = 1..Len(pause)
    BY LenProperties
  <1> QED BY <1>1, ExceptSeq, LenProperties

\* The initial state satisfies Inv.
LEMMA InitInv == Init => Inv
  <1> SUFFICES ASSUME Init PROVE Inv
    OBVIOUS
  <1>1. TypeInv
    BY IterFacts DEF Init, TypeInv, StopRecord, Empty, NoFile, Count
  <1>2. RunInv /\ HandlerInv
    BY DEF Init, RunInv, HandlerInv
  <1>3. CellInv
    BY DEF Init, CellInv, Empty
  <1>4. BoundInv /\ FileInv /\ StopInv
    BY IterFacts DEF Init, BoundInv, FileInv, StopInv
  <1> QED BY <1>1, <1>2, <1>3, <1>4 DEF Inv

\* The record of a run, and what is known of it.
LEMMA RunFacts ==
  ASSUME Inv, NEW i \in DOMAIN pause
  PROVE  pause[i] \in RunRecord /\ Handshake(pause[i]) /\ i \in Int
  BY LenProperties, ElementOfSeq DEF Inv, TypeInv, RunInv

\* A stop has found in the cell a run that came to its end: it binds no more.
LEMMA StopFacts ==
  ASSUME Inv, stop.pc \in {"umount", "killed", "done"}
  PROVE  /\ cell.pid \in DOMAIN pause /\ pause[cell.pid].pod = cell.pod /\ cell.pod \in Pod
         /\ pause[cell.pid].parent = "exited" /\ cell.pod # NoPod
         /\ AllBound(pause[cell.pid])
         /\ stop.pc # "done" => pidfile[cell.pod] = cell.pid
         /\ stop.pc = "done" /\ "pidfile" \notin stop.missed => pidfile[cell.pod] = NoFile
  <1>1. cell.pod # NoPod
    BY DEF Inv, CellInv
  <1>2. cell.pod \in Pod
    BY <1>1 DEF Inv, TypeInv
  <1>3. cell.pid \in DOMAIN pause /\ pause[cell.pid].parent = "exited"
    BY <1>1 DEF Inv, CellInv
  <1>4. AllBound(pause[cell.pid])
    BY <1>3, RunFacts DEF Handshake
  <1> QED BY <1>1, <1>2, <1>3, <1>4 DEF Inv, CellInv

\* What a stop has removed stays away, unless a stray child brings it back.
LEMMA StopFile ==
  ASSUME Inv, NEW i \in DOMAIN pause, FileGrows(i), Only(cell.pid),
         stop.pc \notin {"none", "skipped"}
  PROVE  \A m \in Kind : file'[cell.pod][m] = file[cell.pod][m]
  <1>1. stop.pc \in {"umount", "killed", "done"}
    BY DEF Inv, TypeInv, StopRecord
  <1>2. /\ cell.pid \in DOMAIN pause /\ pause[cell.pid].pod = cell.pod /\ cell.pod \in Pod
        /\ pause[cell.pid].child # "bind"
    BY <1>1, StopFacts DEF AllBound
  <1>3. pause[i].pod # cell.pod \/ pause[i].child # "bind"
    BY <1>2 DEF Only
  <1> QED BY <1>2, <1>3 DEF FileGrows

\* A step of one run that makes no mount: what the rest of Inv asks of it.
LEMMA QuietRun ==
  ASSUME Inv, NEW i \in DOMAIN pause, NEW r \in RunRecord,
         pause' = [pause EXCEPT ![i] = r], Handshake(r),
         UNCHANGED << handler, answer, cell, bound, stop >>, FileGrows(i),
         r.pod = pause[i].pod, r.want = pause[i].want, r.at = pause[i].at,
         pause[i].term => r.term,
         r.child = "none" => pause[i].child = "none",
         pause[i].child = "dead" => r.child = "dead",
         Over(pause[i]) => r.parent = pause[i].parent,
         pidfile' \in [Pod -> Int],
         Over(pause[i]) => pidfile' = pidfile,
         Written(r) => \/ pidfile' = pidfile /\ Written(pause[i])
                       \/ pidfile'[r.pod] = i
  PROVE  Inv'
  <1>1. /\ pause' \in Seq(RunRecord) /\ Len(pause') = Len(pause)
        /\ DOMAIN pause' = DOMAIN pause
        /\ pause'[i] = r
        /\ \A j \in DOMAIN pause : j # i => pause'[j] = pause[j]
    BY ChangeRun DEF Inv, TypeInv
  <1>2. TypeInv'
    BY <1>1 DEF Inv, TypeInv, FileGrows
  <1>3. RunInv'
    BY <1>1 DEF Inv, RunInv
  <1>4. HandlerInv'
    BY <1>1 DEF Inv, HandlerInv, Over, Written
  <1>5. CellInv'
    BY <1>1 DEF Inv, CellInv, HandlerInv, Over, Empty, TypeInv, NoFile
  <1>6. \A j \in DOMAIN pause : /\ pause'[j].pod = pause[j].pod
                                /\ pause'[j].at = pause[j].at
                                /\ Shared(pause'[j]) = Shared(pause[j])
                                /\ Only(j)' => Only(j)
    BY <1>1 DEF Only, Shared
  <1>7. BoundInv'
    BY <1>1, <1>6 DEF Inv, BoundInv
  <1>8. FileInv'
    <2> SUFFICES ASSUME stop.pc \in {"none", "skipped"}, NEW j \in DOMAIN pause, NEW k \in 1..Count,
                        k < pause[j].at
                 PROVE  file'[pause[j].pod][NamespaceIter[k]]
      BY <1>1, <1>6 DEF FileInv
    <2>1. file[pause[j].pod][NamespaceIter[k]]
      BY DEF Inv, FileInv
    <2>2. pause[j].pod \in Pod /\ NamespaceIter[k] \in Kind
      BY RunFacts, IterFacts DEF RunRecord
    <2> QED BY <2>1, <2>2 DEF FileGrows
  <1>9. StopInv'
    <2>1. CASE stop.pc \in {"none", "skipped"}
      BY <2>1 DEF Inv, StopInv
    <2>2. CASE stop.pc \notin {"none", "skipped"}
      <3>1. Only(cell.pid)' => \A m \in Kind : file'[cell.pod][m] = file[cell.pod][m]
        <4>1. cell.pid \in DOMAIN pause
          BY <2>2 DEF Inv, CellInv
        <4> QED BY <1>6, <2>2, <4>1, StopFile
      <3>2. Only(cell.pid)' => Only(cell.pid)
        BY <1>6, <2>2 DEF Inv, CellInv
      <3>3. ASSUME Only(cell.pid)', NEW k \in 1..Count
            PROVE  /\ bound'[cell.pod][NamespaceIter[k]] \in 0..1
                   /\ k < stop'.at /\ NamespaceIter[k] \notin stop'.missed =>
                        bound'[cell.pod][NamespaceIter[k]] = 0 /\ ~file'[cell.pod][NamespaceIter[k]]
        BY <2>2, <3>1, <3>2, <3>3, IterFacts DEF Inv, StopInv
      <3>4. stop.pc # "umount" =>
               /\ stop.at = Count + 1
               /\ pause'[cell.pid].child = "dead" \/ pause'[cell.pid].term \/ stop.ignored
        BY <1>1, <2>2 DEF Inv, StopInv, CellInv
      <3> QED BY <2>2, <3>3, <3>4 DEF StopInv
    <2> QED BY <2>1, <2>2
  <1> QED BY <1>2, <1>3, <1>4, <1>5, <1>7, <1>8, <1>9 DEF Inv

\* A step that leaves the paths alone.
LEMMA SameFile ==
  ASSUME Inv, NEW i, UNCHANGED file
  PROVE  FileGrows(i)
  BY DEF FileGrows, Inv, TypeInv


\* The path a child makes before it mounts on it.
LEMMA NewFile ==
  ASSUME Inv, NEW i \in DOMAIN pause, pause[i].child = "bind", pause[i].at <= Count,
         file' = [file EXCEPT ![pause[i].pod][NamespaceIter[pause[i].at]] = TRUE]
  PROVE  FileGrows(i) /\ file'[pause[i].pod][NamespaceIter[pause[i].at]]
  <1> DEFINE p == pause[i].pod
             n == NamespaceIter[pause[i].at]
             g == [file[p] EXCEPT ![n] = TRUE]
  <1>1. p \in Pod /\ n \in Kind
    BY RunFacts, IterFacts DEF RunRecord, Count
  <1>2. file \in [Pod -> [Kind -> BOOLEAN]] /\ file' = [file EXCEPT ![p] = g]
    BY DEF Inv, TypeInv
  <1>3. g \in [Kind -> BOOLEAN] /\ g[n] = TRUE /\ \A m \in Kind : m # n => g[m] = file[p][m]
    BY <1>1, <1>2
  <1>4. p = pause[i].pod /\ n = NamespaceIter[pause[i].at]
    OBVIOUS
  <1> HIDE DEF p, n, g
  <1>5. file' \in [Pod -> [Kind -> BOOLEAN]] /\ file'[p] = g /\ \A q \in Pod : q # p => file'[q] = file[q]
    BY <1>1, <1>2, <1>3
  <1>6. \A q \in Pod, m \in Kind : /\ file[q][m] => file'[q][m]
                                   /\ q # p => file'[q][m] = file[q][m]
    BY <1>1, <1>3, <1>5
  <1> QED BY <1>1, <1>3, <1>4, <1>5, <1>6 DEF FileGrows

\* What the parent half does preserves Inv.
LEMMA ParentStepInv ==
  ASSUME Inv, NEW i \in DOMAIN pause, ParentStep(i)
  PROVE  Inv'
  <1>0. pause[i] \in RunRecord /\ Handshake(pause[i]) /\ i \in Int
    BY RunFacts
  <1> USE <1>0
  <1>1. CASE unshare(i)
    <2> DEFINE r == [pause[i] EXCEPT !.parent = "fork"]
    <2>1. pause' = [pause EXCEPT ![i] = r]
      BY <1>1 DEF unshare, Parent
    <2>2. r \in RunRecord /\ Handshake(r)
      BY <1>1 DEF unshare, Parent, User, Handshake, AllBound, RunRecord, Count
    <2>3. /\ r.pod = pause[i].pod /\ r.want = pause[i].want /\ r.at = pause[i].at
          /\ r.term = pause[i].term /\ r.child = pause[i].child
          /\ ~Over(pause[i]) /\ (Written(r) => Written(pause[i]))
      BY <1>1 DEF unshare, Parent, Over, Written, RunRecord
    <2>4. UNCHANGED << handler, answer, cell, bound, file, pidfile, stop >>
      BY <1>1 DEF unshare, Unchanged
    <2> HIDE DEF r
    <2> QED BY <2>1, <2>2, <2>3, <2>4, QuietRun, SameFile DEF Inv, TypeInv
  <1>2. CASE fork(i)
    <2> DEFINE r == [pause[i] EXCEPT !.parent = "pidfile", !.child = "start"]
    <2>1. pause' = [pause EXCEPT ![i] = r]
      BY <1>2 DEF fork, Parent
    <2>2. r \in RunRecord /\ Handshake(r)
      BY <1>2 DEF fork, Parent, User, Handshake, AllBound, RunRecord, Count
    <2>3. pidfile' \in [Pod -> Int]
      BY <1>2 DEF fork, Inv, TypeInv
    <2>4. /\ r.pod = pause[i].pod /\ r.want = pause[i].want /\ r.at = pause[i].at
          /\ r.term = pause[i].term /\ ~Over(pause[i])
          /\ r.child # "none" /\ (pause[i].child = "dead" => r.child = "dead")
      BY <1>2, <2>2 DEF fork, Parent, Over, Handshake, RunRecord
    <2>5. UNCHANGED << handler, answer, cell, bound, file, stop >>
      BY <1>2 DEF fork, Unchanged
    <2>6. Written(r) => pidfile'[r.pod] = i
      BY <1>2, <2>4 DEF fork, Written, Inv, TypeInv, RunRecord
    <2> HIDE DEF r
    <2> QED BY <2>1, <2>2, <2>3, <2>4, <2>5, <2>6, QuietRun, SameFile
  <1>3. CASE WritePidfile(i)
    <2> DEFINE r == [pause[i] EXCEPT !.parent = IF User(i) THEN "user" ELSE "mounts"]
    <2>1. pause' = [pause EXCEPT ![i] = r]
      BY <1>3 DEF WritePidfile, Parent
    <2>2. r \in RunRecord /\ Handshake(r)
      BY <1>3 DEF WritePidfile, Parent, User, Handshake, AllBound, RunRecord, Count
    <2>3. pidfile' \in [Pod -> Int] /\ pause[i].parent = "pidfile"
      BY <1>3 DEF WritePidfile, Parent, Inv, TypeInv, RunRecord
    <2>4. /\ r.pod = pause[i].pod /\ r.want = pause[i].want /\ r.at = pause[i].at
          /\ r.term = pause[i].term /\ ~Over(pause[i])
          /\ r.child # "none" /\ (pause[i].child = "dead" => r.child = "dead")
      BY <1>3, <2>2 DEF WritePidfile, Parent, Over, Handshake, RunRecord
    <2>5. UNCHANGED << handler, answer, cell, bound, file, stop >>
      BY <1>3 DEF WritePidfile, Unchanged
    <2>6. Written(r) => pidfile'[r.pod] = i
      BY <1>3, <2>4 DEF WritePidfile, Written, Inv, TypeInv, RunRecord
    <2> HIDE DEF r
    <2> QED BY <2>1, <2>2, <2>3, <2>4, <2>5, <2>6, QuietRun, SameFile
  <1>4. CASE ReadUser(i)
    <2> DEFINE r == [pause[i] EXCEPT !.parent = "map", !.toParent = @ - 1]
    <2>1. pause' = [pause EXCEPT ![i] = r]
      BY <1>4 DEF ReadUser, Parent
    <2>2. r \in RunRecord /\ Handshake(r)
      BY <1>4 DEF ReadUser, Parent, User, Handshake, AllBound, RunRecord, Count
    <2>3. /\ r.pod = pause[i].pod /\ r.want = pause[i].want /\ r.at = pause[i].at
          /\ r.term = pause[i].term /\ r.child = pause[i].child
          /\ ~Over(pause[i]) /\ (Written(r) => Written(pause[i]))
      BY <1>4 DEF ReadUser, Over, Written, RunRecord
    <2>4. UNCHANGED << handler, answer, cell, bound, file, pidfile, stop >>
      BY <1>4 DEF ReadUser, Unchanged
    <2> HIDE DEF r
    <2> QED BY <2>1, <2>2, <2>3, <2>4, QuietRun, SameFile DEF Inv, TypeInv
  <1>5. CASE write_mappings(i)
    <2> DEFINE r == [pause[i] EXCEPT !.parent = "mounts", !.toChild = @ + 1]
    <2>1. pause' = [pause EXCEPT ![i] = r]
      BY <1>5 DEF write_mappings, Parent
    <2>2. r \in RunRecord /\ Handshake(r)
      BY <1>5 DEF write_mappings, Parent, User, Handshake, AllBound, RunRecord, Count
    <2>3. /\ r.pod = pause[i].pod /\ r.want = pause[i].want /\ r.at = pause[i].at
          /\ r.term = pause[i].term /\ r.child = pause[i].child
          /\ ~Over(pause[i]) /\ (Written(r) => Written(pause[i]))
      BY <1>5 DEF write_mappings, Over, Written, RunRecord
    <2>4. UNCHANGED << handler, answer, cell, bound, file, pidfile, stop >>
      BY <1>5 DEF write_mappings, Unchanged
    <2> HIDE DEF r
    <2> QED BY <2>1, <2>2, <2>3, <2>4, QuietRun, SameFile DEF Inv, TypeInv
  <1>6. CASE ReadMounts(i)
    <2> DEFINE r == [pause[i] EXCEPT !.parent = "exited", !.toParent = @ - 1]
    <2>1. pause' = [pause EXCEPT ![i] = r]
      BY <1>6 DEF ReadMounts, Parent
    <2>2. r \in RunRecord /\ Handshake(r)
      BY <1>6 DEF ReadMounts, Parent, User, Handshake, AllBound, RunRecord, Count
    <2>3. /\ r.pod = pause[i].pod /\ r.want = pause[i].want /\ r.at = pause[i].at
          /\ r.term = pause[i].term /\ r.child = pause[i].child
          /\ ~Over(pause[i]) /\ (Written(r) => Written(pause[i]))
      BY <1>6 DEF ReadMounts, Over, Written, RunRecord
    <2>4. UNCHANGED << handler, answer, cell, bound, file, pidfile, stop >>
      BY <1>6 DEF ReadMounts, Unchanged
    <2> HIDE DEF r
    <2> QED BY <2>1, <2>2, <2>3, <2>4, QuietRun, SameFile DEF Inv, TypeInv
  <1> QED BY <1>1, <1>2, <1>3, <1>4, <1>5, <1>6 DEF ParentStep

\* Faults of either half preserve Inv.
LEMMA FaultInv ==
  ASSUME Inv, NEW i \in DOMAIN pause, RunFails(i)
  PROVE  Inv'
  <1>0. pause[i] \in RunRecord /\ Handshake(pause[i]) /\ i \in Int
    BY RunFacts
  <1> USE <1>0
  <1>1. CASE ParentFails(i)
    <2> DEFINE r == [pause[i] EXCEPT !.parent = "failed"]
    <2>1. pause' = [pause EXCEPT ![i] = r]
      BY <1>1 DEF ParentFails, Parent
    <2>2. r \in RunRecord /\ Handshake(r)
      BY <1>1 DEF ParentFails, Parent, User, Handshake, AllBound, RunRecord, Count
    <2>3. /\ r.pod = pause[i].pod /\ r.want = pause[i].want /\ r.at = pause[i].at
          /\ r.term = pause[i].term /\ ~Over(pause[i])
          /\ r.child = pause[i].child /\ ~Written(r)
      BY <1>1 DEF ParentFails, Over, Written, RunRecord
    <2>4. UNCHANGED << handler, answer, cell, bound, file, pidfile, stop >>
      BY <1>1 DEF ParentFails, Unchanged
    <2> HIDE DEF r
    <2> QED BY <2>1, <2>2, <2>3, <2>4, QuietRun, SameFile DEF Inv, TypeInv
  <1>2. CASE WritePidfileFails(i)
    <2> DEFINE r == [pause[i] EXCEPT !.parent = "failed"]
    <2>1. pause' = [pause EXCEPT ![i] = r]
      BY <1>2 DEF WritePidfileFails, Parent
    <2>2. r \in RunRecord /\ Handshake(r)
      BY <1>2 DEF WritePidfileFails, Parent, User, Handshake, AllBound, RunRecord, Count, EmptyFile
    <2>3. pidfile' \in [Pod -> Int] /\ pause[i].parent = "pidfile"
      BY <1>2 DEF WritePidfileFails, Parent, Inv, TypeInv, RunRecord, EmptyFile
    <2>4. /\ r.pod = pause[i].pod /\ r.want = pause[i].want /\ r.at = pause[i].at
          /\ r.term = pause[i].term /\ ~Over(pause[i])
          /\ r.child # "none" /\ (pause[i].child = "dead" => r.child = "dead")
      BY <1>2, <2>2 DEF WritePidfileFails, Parent, Over, Handshake, RunRecord
    <2>5. UNCHANGED << handler, answer, cell, bound, file, stop >>
      BY <1>2 DEF WritePidfileFails, Unchanged
    <2>6. Written(r) => pidfile'[r.pod] = i
      BY <1>2, <2>4 DEF WritePidfileFails, Written, Inv, TypeInv, RunRecord
    <2> HIDE DEF r
    <2> QED BY <2>1, <2>2, <2>3, <2>4, <2>5, <2>6, QuietRun, SameFile
  <1>3. CASE ChildDies(i)
    <2> DEFINE r == [pause[i] EXCEPT !.child = "dead"]
    <2>1. pause' = [pause EXCEPT ![i] = r]
      BY <1>3 DEF ChildDies, Parent
    <2>2. r \in RunRecord /\ Handshake(r)
      BY <1>3 DEF ChildDies, Parent, User, Handshake, AllBound, RunRecord, Count
    <2>3. /\ r.pod = pause[i].pod /\ r.want = pause[i].want /\ r.at = pause[i].at
          /\ r.term = pause[i].term /\ r.child = "dead"
          /\ r.parent = pause[i].parent /\ (Written(r) => Written(pause[i]))
      BY <1>3 DEF ChildDies, Written, RunRecord
    <2>4. UNCHANGED << handler, answer, cell, bound, file, pidfile, stop >>
      BY <1>3 DEF ChildDies, Unchanged
    <2> HIDE DEF r
    <2> QED BY <2>1, <2>2, <2>3, <2>4, QuietRun, SameFile DEF Inv, TypeInv
  <1>4. CASE MountFails(i)
    <2> DEFINE r == [pause[i] EXCEPT !.child = "dead"]
    <2>1. pause' = [pause EXCEPT ![i] = r]
      BY <1>4 DEF MountFails
    <2>2. r \in RunRecord /\ Handshake(r)
      BY <1>4 DEF MountFails, User, Handshake, AllBound, RunRecord, Count
    <2>3. /\ r.pod = pause[i].pod /\ r.want = pause[i].want /\ r.at = pause[i].at
          /\ r.term = pause[i].term /\ r.child = "dead"
          /\ r.parent = pause[i].parent /\ (Written(r) => Written(pause[i]))
      BY <1>4 DEF MountFails, Written, RunRecord
    <2>4. UNCHANGED << handler, answer, cell, bound, pidfile, stop >>
      BY <1>4 DEF MountFails, Unchanged
    <2>5. FileGrows(i)
      BY <1>4, NewFile, IterFacts DEF MountFails
    <2> HIDE DEF r
    <2> QED BY <2>1, <2>2, <2>3, <2>4, <2>5, QuietRun DEF Inv, TypeInv
  <1> QED BY <1>1, <1>2, <1>3, <1>4 DEF RunFails

\* One more mount preserves Inv: it is counted for its run alone, and not at
\* all when the child has its own mounts.
LEMMA BindOneInv ==
  ASSUME Inv, NEW i \in DOMAIN pause, pause[i].child = "bind", pause[i].at <= Count,
         bound' = IF User(i) THEN bound
                  ELSE [bound EXCEPT ![pause[i].pod][NamespaceIter[pause[i].at]] = @ + 1],
         file' = [file EXCEPT ![pause[i].pod][NamespaceIter[pause[i].at]] = TRUE],
         pause' = [pause EXCEPT ![i].at = @ + 1],
         UNCHANGED << handler, answer, cell, pidfile, stop >>
  PROVE  Inv'
  <1> DEFINE r == [pause[i] EXCEPT !.at = @ + 1]
             p == pause[i].pod
             n == NamespaceIter[pause[i].at]
             d == IF Shared(pause[i]) THEN 1 ELSE 0
  <1>0. pause[i] \in RunRecord /\ Handshake(pause[i]) /\ i \in Int
    BY RunFacts
  <1>1. r \in RunRecord /\ Handshake(r) /\ pause' = [pause EXCEPT ![i] = r]
    BY <1>0 DEF Handshake, AllBound, RunRecord, Count
  <1>2. /\ pause' \in Seq(RunRecord) /\ Len(pause') = Len(pause)
        /\ DOMAIN pause' = DOMAIN pause
        /\ pause'[i] = r
        /\ \A j \in DOMAIN pause : j # i => pause'[j] = pause[j]
    BY <1>1, ChangeRun DEF Inv, TypeInv
  <1>3. \A j \in DOMAIN pause : /\ pause'[j].pod = pause[j].pod
                                /\ pause'[j].parent = pause[j].parent
                                /\ pause'[j].child = pause[j].child
                                /\ pause'[j].term = pause[j].term
                                /\ Shared(pause'[j]) = Shared(pause[j])
                                /\ Only(j)' => Only(j)
    <2>1. \A j \in DOMAIN pause : /\ pause'[j].pod = pause[j].pod
                                  /\ pause'[j].want = pause[j].want
                                  /\ pause'[j].parent = pause[j].parent
                                  /\ pause'[j].child = pause[j].child
                                  /\ pause'[j].term = pause[j].term
      <3>1. /\ r.pod = pause[i].pod /\ r.want = pause[i].want /\ r.parent = pause[i].parent
            /\ r.child = pause[i].child /\ r.term = pause[i].term
        BY <1>0 DEF RunRecord
      <3> HIDE DEF r
      <3> QED BY <1>2, <3>1
    <2>2. \A j \in DOMAIN pause : Only(j)' => Only(j)
      BY <1>2, <2>1 DEF Only
    <2> QED BY <2>1, <2>2 DEF Shared
  <1>4. p \in Pod /\ n \in Kind /\ pause[i].at \in 1..Count /\ r.at = pause[i].at + 1
    BY <1>0, IterFacts DEF RunRecord, Count
  <1>5. /\ bound' \in [Pod -> [Kind -> Nat]] /\ bound'[p][n] = bound[p][n] + d
        /\ \A q \in Pod, m \in Kind : q # p \/ m # n => bound'[q][m] = bound[q][m]
    <2>0. CASE ~Shared(pause[i])
      <3>1. bound' = bound /\ d = 0 /\ bound \in [Pod -> [Kind -> Nat]]
        BY <2>0 DEF Shared, User, Inv, TypeInv
      <3>2. bound[p][n] \in Nat
        BY <1>4, <3>1
      <3>3. bound[p][n] + d = bound[p][n]
        <4> HIDE DEF d, p, n
        <4> QED BY <3>1, <3>2
      <3> HIDE DEF d, p, n
      <3> QED BY <3>1, <3>3
    <2> SUFFICES ASSUME Shared(pause[i])
                 PROVE  /\ bound' \in [Pod -> [Kind -> Nat]] /\ bound'[p][n] = bound[p][n] + 1
                        /\ \A q \in Pod, m \in Kind : q # p \/ m # n => bound'[q][m] = bound[q][m]
      BY <2>0
    <2>1. bound \in [Pod -> [Kind -> Nat]]
      BY DEF Inv, TypeInv
    <2> DEFINE f == [bound[p] EXCEPT ![n] = @ + 1]
    <2>2. bound' = [bound EXCEPT ![p] = f]
      BY DEF Shared, User
    <2>3. f \in [Kind -> Nat] /\ f[n] = bound[p][n] + 1 /\ \A m \in Kind : m # n => f[m] = bound[p][m]
      BY <1>4, <2>1
    <2> HIDE DEF f, p, n
    <2> QED BY <1>4, <2>1, <2>2, <2>3
  <1>51. FileGrows(i) /\ file'[p][n]
    BY NewFile
  <1>6. TypeInv'
    BY <1>2, <1>5, <1>51 DEF Inv, TypeInv, FileGrows
  <1>7. RunInv'
    BY <1>1, <1>2 DEF Inv, RunInv
  <1>8. HandlerInv'
    BY <1>2, <1>3 DEF Inv, HandlerInv, Over, Written
  <1>9. CellInv'
    BY <1>2, <1>3 DEF Inv, CellInv, Empty
  <1>10. BoundInv'
    <2> SUFFICES ASSUME stop.pc \in {"none", "skipped"} PROVE BoundInv'
      BY DEF BoundInv
    <2>1. ASSUME NEW j \in DOMAIN pause, NEW k \in 1..Count
          PROVE  /\ k < pause'[j].at /\ Shared(pause'[j]) =>
                       bound'[pause'[j].pod][NamespaceIter[k]] > 0
                 /\ Only(j)' => bound'[pause'[j].pod][NamespaceIter[k]] =
                                    IF k < pause'[j].at /\ Shared(pause'[j]) THEN 1 ELSE 0
      <3>1. pause[j] \in RunRecord /\ pause[j].pod \in Pod /\ pause[j].at \in 1..(Count + 1)
        BY RunFacts DEF RunRecord
      <3>2. /\ NamespaceIter[k] \in Kind /\ k \in Int
            /\ NamespaceIter[k] = n => k = pause[i].at
        BY <1>4, IterFacts DEF Count
      <3>3. /\ k < pause[j].at /\ Shared(pause[j]) => bound[pause[j].pod][NamespaceIter[k]] > 0
            /\ Only(j) => bound[pause[j].pod][NamespaceIter[k]] =
                              IF k < pause[j].at /\ Shared(pause[j]) THEN 1 ELSE 0
        BY DEF Inv, BoundInv
      <3>4. CASE j = i
        <4>1. /\ pause'[j].pod = p /\ pause'[j].at = pause[i].at + 1
              /\ bound[p][NamespaceIter[k]] \in Nat /\ bound[p][n] \in Nat
          <5>1. pause'[j].pod = p /\ pause'[j].at = pause[i].at + 1
            BY <1>2, <1>3, <1>4, <3>4
          <5>2. bound \in [Pod -> [Kind -> Nat]]
            BY DEF Inv, TypeInv
          <5> HIDE DEF p, n
          <5> QED BY <1>4, <3>2, <5>1, <5>2
        <4>2. CASE k = pause[i].at
          <5>1. NamespaceIter[k] = n /\ k < pause[i].at + 1 /\ ~(k < pause[i].at)
            BY <1>4, <4>2 DEF Count
          <5>2. bound'[p][NamespaceIter[k]] = bound[p][n] + d
            BY <1>5, <5>1
          <5>3. Only(i) => bound[p][n] = 0
            BY <3>3, <3>4, <5>1
          <5>4. (Only(i)' => Only(i)) /\ Shared(pause'[i]) = Shared(pause[i])
            BY <1>3
          <5>5. d = IF Shared(pause[i]) THEN 1 ELSE 0
            OBVIOUS
          <5> HIDE DEF p, n, d
          <5>6. CASE Shared(pause[i])
            BY <3>4, <4>1, <5>1, <5>2, <5>3, <5>4, <5>5, <5>6
          <5>7. CASE ~Shared(pause[i])
            BY <3>4, <4>1, <5>1, <5>2, <5>3, <5>4, <5>5, <5>7
          <5> QED BY <5>6, <5>7
        <4>3. CASE k # pause[i].at
          <5>1. bound'[p][NamespaceIter[k]] = bound[p][NamespaceIter[k]]
            BY <1>4, <1>5, <3>2, <4>3
          <5>2. k < pause[i].at + 1 <=> k < pause[i].at
            BY <1>4, <3>2, <4>3 DEF Count
          <5> QED BY <1>3, <3>3, <3>4, <4>1, <5>1, <5>2
        <4> QED BY <4>2, <4>3
      <3>5. CASE j # i /\ pause[j].pod # p
        BY <1>2, <1>3, <1>5, <3>1, <3>2, <3>3, <3>5
      <3>6. CASE j # i /\ pause[j].pod = p
        <4>1. ~Only(j)'
          BY <1>2, <1>3, <3>6 DEF Only
        <4>3. /\ pause'[j].pod = p /\ pause'[j].at = pause[j].at
              /\ Shared(pause'[j]) = Shared(pause[j])
          BY <1>2, <3>6
        <4>4. bound'[p][NamespaceIter[k]] \in Nat /\ bound[p][NamespaceIter[k]] \in Nat
          <5>1. bound \in [Pod -> [Kind -> Nat]]
            BY DEF Inv, TypeInv
          <5> HIDE DEF p, n, d
          <5> QED BY <1>4, <1>5, <3>2, <5>1
        <4>2. bound'[p][NamespaceIter[k]] >= bound[p][NamespaceIter[k]]
          <5>1. d \in 0..1
            OBVIOUS
          <5> HIDE DEF p, n, d
          <5> QED BY <1>4, <1>5, <3>2, <4>4, <5>1
        <4> HIDE DEF p
        <4> QED BY <3>3, <3>6, <4>1, <4>2, <4>3, <4>4
      <3> QED BY <3>4, <3>5, <3>6
    <2>2. ASSUME NEW q \in Pod, \A j \in DOMAIN pause : pause'[j].pod # q, NEW m \in Kind
          PROVE  bound'[q][m] = 0
      BY <1>3, <1>5, <2>2 DEF Inv, BoundInv
    <2> QED BY <1>2, <2>1, <2>2 DEF BoundInv
  <1>101. FileInv'
    <2> SUFFICES ASSUME stop.pc \in {"none", "skipped"}, NEW j \in DOMAIN pause, NEW k \in 1..Count,
                        k < pause'[j].at
                 PROVE  file'[pause[j].pod][NamespaceIter[k]]
      BY <1>2, <1>3 DEF FileInv
    <2>1. pause[j].pod \in Pod /\ NamespaceIter[k] \in Kind
      BY RunFacts, IterFacts DEF RunRecord
    <2>2. CASE k < pause[j].at
      BY <1>51, <2>1, <2>2 DEF Inv, FileInv, FileGrows
    <2>3. CASE ~(k < pause[j].at)
      <3>1. j = i
        BY <1>2, <2>3
      <3>2. k = pause[i].at
        <4>1. pause'[j].at = pause[i].at + 1
          BY <1>2, <1>4, <3>1
        <4>2. pause[i].at \in Int /\ k \in Int
          BY <1>4
        <4> QED BY <2>3, <3>1, <4>1, <4>2
      <3> QED BY <1>51, <3>1, <3>2
    <2> QED BY <2>2, <2>3
  <1>11. StopInv'
    <2> SUFFICES ASSUME stop.pc \notin {"none", "skipped"} PROVE StopInv'
      BY DEF Inv, StopInv
    <2>1. /\ cell.pid \in DOMAIN pause /\ pause[cell.pid].pod = cell.pod
          /\ pause[cell.pid].parent = "exited" /\ cell.pid # i
      BY RunFacts DEF Inv, CellInv, Handshake, AllBound
    <2>2. CASE cell.pod # p
      <3>1. \A k \in 1..Count :
               /\ bound'[cell.pod][NamespaceIter[k]] = bound[cell.pod][NamespaceIter[k]]
               /\ file'[cell.pod][NamespaceIter[k]] = file[cell.pod][NamespaceIter[k]]
        <4>1. cell.pod \in Pod /\ \A k \in 1..Count : NamespaceIter[k] \in Kind
          BY <2>1, RunFacts, IterFacts DEF RunRecord
        <4>2. \A m \in Kind : bound'[cell.pod][m] = bound[cell.pod][m]
          BY <1>5, <2>2, <4>1
        <4>3. \A m \in Kind : file'[cell.pod][m] = file[cell.pod][m]
          BY <1>51, <2>2, <4>1 DEF FileGrows
        <4> QED BY <4>1, <4>2, <4>3
      <3>2. Only(cell.pid)' => Only(cell.pid)
        BY <1>3, <2>1
      <3>3. pause'[cell.pid].child = pause[cell.pid].child /\ pause'[cell.pid].term = pause[cell.pid].term
        BY <1>3, <2>1
      <3>4. ASSUME Only(cell.pid)', NEW k \in 1..Count
            PROVE  /\ bound'[cell.pod][NamespaceIter[k]] \in 0..1
                   /\ k < stop'.at /\ NamespaceIter[k] \notin stop'.missed =>
                        bound'[cell.pod][NamespaceIter[k]] = 0 /\ ~file'[cell.pod][NamespaceIter[k]]
        BY <3>1, <3>2, <3>4 DEF Inv, StopInv
      <3> QED BY <3>3, <3>4 DEF Inv, StopInv
    <2>3. CASE cell.pod = p
      <3>1. ~Only(cell.pid)'
        BY <1>2, <1>3, <2>1, <2>3 DEF Only
      <3> QED BY <1>2, <1>3, <2>1, <3>1 DEF Inv, StopInv
    <2> QED BY <2>2, <2>3
  <1> QED BY <1>6, <1>7, <1>8, <1>9, <1>10, <1>101, <1>11 DEF Inv

\* What the child half does preserves Inv.
LEMMA ChildStepInv ==
  ASSUME Inv, NEW i \in DOMAIN pause, ChildStep(i)
  PROVE  Inv'
  <1>0. pause[i] \in RunRecord /\ Handshake(pause[i]) /\ i \in Int
    BY RunFacts
  <1> USE <1>0
  <1>1. CASE UnshareUser(i)
    <2> DEFINE r == IF User(i)
                     THEN [pause[i] EXCEPT !.child = "maps", !.toParent = @ + 1]
                     ELSE [pause[i] EXCEPT !.child = "bind"]
    <2>1. pause' = [pause EXCEPT ![i] = r]
      BY <1>1 DEF UnshareUser, User
    <2>2. r \in RunRecord /\ Handshake(r)
      BY <1>1 DEF UnshareUser, User, Handshake, AllBound, RunRecord, Count
    <2>3. /\ r.pod = pause[i].pod /\ r.want = pause[i].want /\ r.at = pause[i].at
          /\ r.term = pause[i].term /\ r.parent = pause[i].parent
          /\ r.child # "none" /\ pause[i].child # "dead"
      BY <1>1 DEF UnshareUser, RunRecord
    <2>4. UNCHANGED << handler, answer, cell, bound, file, pidfile, stop >>
      BY <1>1 DEF UnshareUser, Unchanged
    <2> HIDE DEF r
    <2> QED BY <2>1, <2>2, <2>3, <2>4, QuietRun, SameFile DEF Inv, TypeInv, Written
  <1>2. CASE ReadMapped(i)
    <2> DEFINE r == [pause[i] EXCEPT !.child = "bind", !.toChild = @ - 1]
    <2>1. pause' = [pause EXCEPT ![i] = r]
      BY <1>2 DEF ReadMapped, User
    <2>2. r \in RunRecord /\ Handshake(r)
      BY <1>2 DEF ReadMapped, User, Handshake, AllBound, RunRecord, Count
    <2>3. /\ r.pod = pause[i].pod /\ r.want = pause[i].want /\ r.at = pause[i].at
          /\ r.term = pause[i].term /\ r.parent = pause[i].parent
          /\ r.child # "none" /\ pause[i].child # "dead"
      BY <1>2 DEF ReadMapped, RunRecord
    <2>4. UNCHANGED << handler, answer, cell, bound, file, pidfile, stop >>
      BY <1>2 DEF ReadMapped, Unchanged
    <2> HIDE DEF r
    <2> QED BY <2>1, <2>2, <2>3, <2>4, QuietRun, SameFile DEF Inv, TypeInv, Written
  <1>3. CASE bind(i) /\ pause[i].at <= Count
    <2>1. pause[i].at \in Int /\ ~(pause[i].at > Len(NamespaceIter))
      BY <1>3, IterFacts DEF RunRecord, Count
    <2>2. /\ bound' = IF User(i) THEN bound
                       ELSE [bound EXCEPT ![pause[i].pod][NamespaceIter[pause[i].at]] = @ + 1]
          /\ file' = [file EXCEPT ![pause[i].pod][NamespaceIter[pause[i].at]] = TRUE]
          /\ pause' = [pause EXCEPT ![i].at = @ + 1]
          /\ pause[i].child = "bind"
      BY <1>3, <2>1 DEF bind
    <2> QED BY <1>3, <2>2, BindOneInv DEF bind, Unchanged
  <1>4. CASE bind(i) /\ pause[i].at > Count
    <2> DEFINE r == [pause[i] EXCEPT !.child = "bound", !.toParent = @ + 1]
    <2>1. pause' = [pause EXCEPT ![i] = r] /\ pause[i].child = "bind"
          /\ bound' = bound /\ file' = file
      <3>1. pause[i].at \in Int /\ ~(pause[i].at <= Len(NamespaceIter))
        BY <1>4, IterFacts DEF RunRecord, Count
      <3> QED BY <1>4, <3>1 DEF bind
    <2>0. pause[i].at = 6 /\ pause[i].toParent = 0
      BY <1>4, <2>1 DEF Handshake, RunRecord, Count
    <2>2. r \in RunRecord /\ Handshake(r)
      <3>1. /\ r.pod = pause[i].pod /\ r.want = pause[i].want /\ r.parent = pause[i].parent
            /\ r.child = "bound" /\ r.at = 6 /\ r.toParent = 1 /\ r.toChild = pause[i].toChild
            /\ r.term = pause[i].term
        BY <2>0 DEF RunRecord
      <3>2. r \in RunRecord
        <4> DEFINE q == [pause[i] EXCEPT !.child = "bound"]
        <4>1. q \in RunRecord /\ r = [q EXCEPT !.toParent = 1]
          BY <2>0 DEF RunRecord
        <4> HIDE DEF q, r
        <4> QED BY <4>1 DEF RunRecord
      <3> HIDE DEF r
      <3> QED BY <2>0, <2>1, <3>1, <3>2 DEF Handshake, AllBound, Count
    <2>3. /\ r.pod = pause[i].pod /\ r.want = pause[i].want /\ r.at = pause[i].at
          /\ r.term = pause[i].term /\ r.parent = pause[i].parent
          /\ r.child # "none" /\ pause[i].child # "dead"
      BY <2>1 DEF RunRecord
    <2>4. UNCHANGED << handler, answer, cell, bound, file, pidfile, stop >>
      BY <1>4, <2>1 DEF bind, Unchanged
    <2> HIDE DEF r
    <2> QED BY <2>1, <2>2, <2>3, <2>4, QuietRun, SameFile DEF Inv, TypeInv, Written
  <1>5. CASE registerSignals(i)
    <2> DEFINE r == [pause[i] EXCEPT !.child = "asleep"]
    <2>1. pause' = [pause EXCEPT ![i] = r]
      BY <1>5 DEF registerSignals, User
    <2>2. r \in RunRecord /\ Handshake(r)
      BY <1>5 DEF registerSignals, User, Handshake, AllBound, RunRecord, Count
    <2>3. /\ r.pod = pause[i].pod /\ r.want = pause[i].want /\ r.at = pause[i].at
          /\ r.term = pause[i].term /\ r.parent = pause[i].parent
          /\ r.child # "none" /\ pause[i].child # "dead"
      BY <1>5 DEF registerSignals, RunRecord
    <2>4. UNCHANGED << handler, answer, cell, bound, file, pidfile, stop >>
      BY <1>5 DEF registerSignals, Unchanged
    <2> HIDE DEF r
    <2> QED BY <2>1, <2>2, <2>3, <2>4, QuietRun, SameFile DEF Inv, TypeInv, Written
  <1>6. CASE bind(i)
    BY <1>3, <1>4, <1>6 DEF RunRecord, Count
  <1>7. CASE Terminated(i)
    <2> DEFINE r == [pause[i] EXCEPT !.child = "dead"]
    <2>1. pause' = [pause EXCEPT ![i] = r]
      BY <1>7 DEF Terminated
    <2>2. r \in RunRecord /\ Handshake(r)
      BY <1>7 DEF Terminated, Handshake, AllBound, RunRecord, Count
    <2>3. /\ r.pod = pause[i].pod /\ r.want = pause[i].want /\ r.at = pause[i].at
          /\ r.term = pause[i].term /\ r.parent = pause[i].parent
          /\ r.child = "dead" /\ pause[i].child # "dead"
      BY <1>7 DEF Terminated, RunRecord
    <2>4. UNCHANGED << handler, answer, cell, bound, file, pidfile, stop >>
      BY <1>7 DEF Terminated, Unchanged
    <2> HIDE DEF r
    <2> QED BY <2>1, <2>2, <2>3, <2>4, QuietRun, SameFile DEF Inv, TypeInv, Written
  <1> QED BY <1>1, <1>2, <1>5, <1>6, <1>7 DEF ChildStep
\* Starting another attempt preserves Inv, whatever earlier attempts left behind.
LEMMA AppendInv ==
  ASSUME Inv, NEW p \in Pod, NEW want \in Wants,
         handler.pc = "idle", cell = Empty,
         handler' = [pc |-> "wait", pod |-> p],
         pause' = Append(pause, NewRun(p, want)),
         UNCHANGED << answer, cell, bound, file, pidfile, stop >>
  PROVE  Inv'
  <1> SUFFICES ASSUME NEW n, n = Len(pause) + 1 PROVE Inv'
    OBVIOUS
  <1> DEFINE r == NewRun(p, want)
  <1>1. r \in RunRecord /\ Handshake(r)
    BY WantsAssumption, IterFacts DEF NewRun, RunRecord, Handshake, AllBound, Count
  <1>2. /\ r.pod = p /\ r.at = 1 /\ r.child = "none" /\ r.parent = "start"
    BY DEF NewRun
  <1> HIDE DEF r
  <1>3. pause \in Seq(RunRecord) /\ pause' = Append(pause, r)
    BY DEF Inv, TypeInv, r
  <1>4. /\ pause' \in Seq(RunRecord) /\ Len(pause') = n /\ Len(pause) \in Nat
        /\ DOMAIN pause = 1..Len(pause) /\ DOMAIN pause' = 1..n
        /\ pause'[n] = r
        /\ \A j \in DOMAIN pause : pause'[j] = pause[j]
    BY <1>1, <1>3, AppendProperties, LenProperties
  <1>5. /\ n \notin DOMAIN pause /\ n \in DOMAIN pause'
        /\ \A j \in DOMAIN pause' : j = n \/ j \in DOMAIN pause
        /\ \A j \in DOMAIN pause : j \in DOMAIN pause' /\ j # n
    BY <1>4
  <1>6. TypeInv'
    BY <1>4 DEF Inv, TypeInv
  <1>7. RunInv'
    BY <1>1, <1>4, <1>5 DEF Inv, RunInv
  <1>8. HandlerInv'
    <2>1. \A j \in DOMAIN pause : Over(pause[j])
      BY DEF Inv, HandlerInv
    <2>2. ~Written(r)
      BY <1>2 DEF Written
    <2>3. n > 0
      BY <1>4
    <2> QED BY <1>2, <1>4, <1>5, <2>1, <2>2, <2>3 DEF Inv, HandlerInv
  <1>9. CellInv' /\ stop.pc \in {"none", "skipped"}
    BY PodAssumption DEF Inv, CellInv, Empty, TypeInv
  <1>10. BoundInv'
    <2>0. BoundInv /\ stop.pc \in {"none", "skipped"}
      BY <1>9 DEF Inv
    <2>1. ASSUME NEW j \in DOMAIN pause, NEW k \in 1..Count
          PROVE  /\ k < pause'[j].at /\ Shared(pause'[j]) =>
                       bound'[pause'[j].pod][NamespaceIter[k]] > 0
                 /\ Only(j)' => bound'[pause'[j].pod][NamespaceIter[k]] =
                                    IF k < pause'[j].at /\ Shared(pause'[j]) THEN 1 ELSE 0
      <3>1. Only(j)' => Only(j)
        BY <1>4, <1>5 DEF Only
      <3> QED BY <1>4, <2>0, <3>1 DEF BoundInv
    <2>2. ASSUME NEW k \in 1..Count, Only(n)'
          PROVE  bound[p][NamespaceIter[k]] = 0
      <3>1. \A j \in DOMAIN pause : pause[j].pod = p => pause[j].child = "none"
        BY <1>2, <1>4, <1>5, <2>2 DEF Only
      <3>2. CASE \A j \in DOMAIN pause : pause[j].pod # p
        BY <2>0, <3>2, IterFacts DEF BoundInv
      <3>3. CASE \E j \in DOMAIN pause : pause[j].pod = p
        <4>1. PICK j \in DOMAIN pause : pause[j].pod = p
          BY <3>3
        <4>2. Only(j) /\ pause[j].at = 1
          BY <3>1, <4>1, RunFacts DEF Only, Handshake
        <4>3. bound[p][NamespaceIter[k]] = IF k < 1 /\ Shared(pause[j]) THEN 1 ELSE 0
          BY <2>0, <4>1, <4>2 DEF BoundInv
        <4> QED BY <4>3 DEF Count
      <3> QED BY <3>2, <3>3
    <2>3. ASSUME NEW k \in 1..Count
          PROVE  /\ ~(k < pause'[n].at)
                 /\ Only(n)' => bound'[pause'[n].pod][NamespaceIter[k]] = 0
      <3>1. ~(k < pause'[n].at) /\ pause'[n].pod = p
        BY <1>2, <1>4 DEF Count
      <3> QED BY <2>2, <3>1
    <2>4. ASSUME NEW q \in Pod, \A j \in DOMAIN pause' : pause'[j].pod # q, NEW m \in Kind
          PROVE  bound'[q][m] = 0
      BY <1>4, <1>5, <2>0, <2>4 DEF BoundInv
    <2>5. \A j \in DOMAIN pause' : \A k \in 1..Count :
             /\ k < pause'[j].at /\ Shared(pause'[j]) =>
                   bound'[pause'[j].pod][NamespaceIter[k]] > 0
             /\ Only(j)' => bound'[pause'[j].pod][NamespaceIter[k]] =
                                IF k < pause'[j].at /\ Shared(pause'[j]) THEN 1 ELSE 0
      <3> TAKE j \in DOMAIN pause'
      <3> TAKE k \in 1..Count
      <3>1. CASE j = n
        BY <2>3, <3>1 DEF Only
      <3>2. CASE j \in DOMAIN pause
        BY <2>1, <3>2
      <3> QED BY <1>5, <3>1, <3>2
    <2> QED BY <2>4, <2>5 DEF BoundInv
  <1>11. FileInv'
    <2> SUFFICES ASSUME NEW j \in DOMAIN pause', NEW k \in 1..Count, k < pause'[j].at
                 PROVE  file[pause'[j].pod][NamespaceIter[k]]
      BY DEF FileInv
    <2>1. j # n
      BY <1>2, <1>4 DEF Count
    <2> QED BY <1>4, <1>5, <1>9, <2>1 DEF Inv, FileInv
  <1>12. StopInv'
    BY <1>9 DEF Inv, StopInv
  <1> QED BY <1>6, <1>7, <1>8, <1>9, <1>10, <1>11, <1>12 DEF Inv

\* An answer changes nothing but the handler and the answer.
LEMMA ReplyInv ==
  ASSUME Inv, NEW status \in {"ok", "error"}, NEW p \in Pod \cup {NoPod},
         Reply(status, p), handler.pc = "idle" \/ Over(pause[Len(pause)]),
         status = "ok" => p \in Pod,
         UNCHANGED << cell, pause, bound, file, pidfile, stop >>
  PROVE  Inv'
  <1>1. handler'.pc = "idle" /\ answer'.pod = p /\ answer'.status = status
    BY DEF Reply, Inv, TypeInv
  <1>2. TypeInv'
    BY DEF Inv, TypeInv, Reply
  <1>3. RunInv' /\ CellInv' /\ BoundInv' /\ FileInv' /\ StopInv'
    BY DEF Inv, RunInv, CellInv, BoundInv, FileInv, StopInv, Only
  <1>4. HandlerInv'
    BY <1>1 DEF Inv, HandlerInv
  <1> QED BY <1>2, <1>3, <1>4 DEF Inv

\* A request preserves Inv.
LEMMA CreateInv ==
  ASSUME Inv, NEW p \in Pod \cup {NoPod}, NEW w \in Wants, NEW m \in BOOLEAN,
         create_namespaces(p, w, m)
  PROVE  Inv'
  <1>1. CASE Reply("error", p) /\ pause' = pause
    BY <1>1, ReplyInv DEF create_namespaces
  <1>2. CASE p # NoPod /\ Reply("ok", p) /\ pause' = pause
    BY <1>2, ReplyInv DEF create_namespaces
  <1>3. CASE /\ p # NoPod /\ cell = Empty
             /\ handler' = [pc |-> "wait", pod |-> p]
             /\ pause' = Append(pause, NewRun(p, w))
             /\ answer' = answer
    BY <1>3, AppendInv DEF create_namespaces
  <1> QED BY <1>1, <1>2, <1>3 DEF create_namespaces

\* Filling the cell, or giving up, preserves Inv.
LEMMA HandlerStepInv ==
  ASSUME Inv, init \/ initFails
  PROVE  Inv'
  <1>1. /\ handler.pc = "wait" /\ cell = Empty /\ Current \in DOMAIN pause
        /\ pause[Current] \in RunRecord
        /\ pause[Current].pod = handler.pod /\ handler.pod \in Pod
    <2>1. handler.pc = "wait" /\ Current \in DOMAIN pause
      BY LenProperties DEF init, initFails, Inv, HandlerInv, TypeInv, Current
    <2> QED BY <2>1, RunFacts DEF Inv, HandlerInv, RunRecord, Current
  <1>2. CASE UNCHANGED cell
    <2>1. Reply("error", handler.pod) \/ Reply("ok", handler.pod)
      BY DEF init, initFails
    <2>2. Over(pause[Len(pause)])
      BY DEF init, initFails, Over, Current
    <2> QED BY <1>1, <1>2, <2>1, <2>2, ReplyInv DEF init, initFails
  <1>3. CASE /\ pause[Current].parent = "exited"
             /\ cell' = [pod |-> handler.pod, pid |-> pidfile[handler.pod]]
             /\ Reply("ok", handler.pod)
             /\ UNCHANGED << pause, bound, file, pidfile, stop >>
    <2>1. pidfile[handler.pod] = Current /\ Over(pause[Current])
      BY <1>1, <1>3 DEF Inv, HandlerInv, Written, Current, Over
    <2>2. handler'.pc = "idle" /\ answer'.pod = handler.pod /\ answer'.status = "ok"
      BY <1>3 DEF Reply, Inv, TypeInv
    <2>3. TypeInv'
      BY <1>1, <1>3 DEF Inv, TypeInv, Reply
    <2>4. RunInv' /\ BoundInv' /\ FileInv'
      BY <1>3 DEF Inv, RunInv, BoundInv, FileInv, Only
    <2>5. stop.pc \in {"none", "skipped"}
      BY <1>1 DEF Inv, CellInv, Empty
    <2>6. CellInv' /\ StopInv'
      BY <1>1, <1>3, <2>1, <2>5, PodAssumption DEF Inv, CellInv, StopInv
    <2>7. HandlerInv'
      BY <1>1, <1>3, <2>1, <2>2 DEF Inv, HandlerInv, Current
    <2> QED BY <2>3, <2>4, <2>6, <2>7 DEF Inv
  <1> QED BY <1>2, <1>3 DEF init, initFails

\* The start of a stop preserves Inv: the instance is fully mounted.
LEMMA SignalInv ==
  ASSUME Inv, HandleSignal
  PROVE  Inv'
  <1>1. /\ stop' = [stop EXCEPT !.pc = IF cell = Empty THEN "skipped" ELSE "umount"]
        /\ stop.pc = "none" /\ stop.at = 1
        /\ UNCHANGED << handler, answer, cell, pause, bound, file, pidfile >>
    BY DEF HandleSignal, Inv, StopInv
  <1>2. /\ stop'.pc = (IF cell = Empty THEN "skipped" ELSE "umount")
        /\ stop'.at = 1
    BY <1>1 DEF Inv, TypeInv, StopRecord
  <1>3. TypeInv'
    BY <1>1 DEF Inv, TypeInv, StopRecord
  <1>4. RunInv' /\ HandlerInv'
    BY <1>1 DEF Inv, RunInv, HandlerInv
  <1>5. CellInv'
    BY <1>1, <1>2 DEF Inv, CellInv, Empty
  <1>6. BoundInv' /\ FileInv'
    BY <1>1 DEF Inv, BoundInv, FileInv, Only
  <1>7. StopInv'
    <2>1. CASE cell = Empty
      BY <1>2, <2>1 DEF StopInv
    <2>2. CASE cell # Empty
      <3>1. /\ cell.pid \in DOMAIN pause /\ pause[cell.pid].pod = cell.pod
            /\ pause[cell.pid].parent = "exited"
        BY <2>2 DEF Inv, CellInv
      <3>3. ASSUME NEW k \in 1..Count, Only(cell.pid)
            PROVE  bound[cell.pod][NamespaceIter[k]] \in 0..1 /\ ~(k < 1)
        <4>1. ~(k < 1)
          BY DEF Count
        <4>2. bound[pause[cell.pid].pod][NamespaceIter[k]] =
                IF k < pause[cell.pid].at /\ Shared(pause[cell.pid]) THEN 1 ELSE 0
          BY <1>1, <3>1, <3>3 DEF Inv, BoundInv
        <4> QED BY <3>1, <4>1, <4>2
      <3>4. Only(cell.pid)' => Only(cell.pid)
        BY <1>1 DEF Only
      <3> QED BY <1>1, <1>2, <2>2, <3>3, <3>4 DEF StopInv
    <2> QED BY <2>1, <2>2
  <1> QED BY <1>3, <1>4, <1>5, <1>6, <1>7 DEF Inv

\* Unmounting the next namespace, with or without success, preserves Inv.
LEMMA UmountInv ==
  ASSUME Inv, umount \/ umountFails
  PROVE  Inv'
  <1> DEFINE p == cell.pod
             n == NamespaceIter[stop.at]
             f == [bound[p] EXCEPT ![n] = IF @ > 0 THEN @ - 1 ELSE 0]
  <1>0. stop.pc = "umount" /\ stop.at \in 1..Count /\ stop.at <= Count /\ stop \in StopRecord
    <2>1. stop \in StopRecord
      BY DEF Inv, TypeInv
    <2>2. stop.pc = "umount" /\ stop.at <= Len(NamespaceIter)
      BY DEF umount, umountFails, Umounting
    <2> QED BY <2>1, <2>2, IterFacts DEF StopRecord, Count
  <1>1. /\ p \in Pod /\ p # NoPod /\ n \in Kind
        /\ bound \in [Pod -> [Kind -> Nat]] /\ file \in [Pod -> [Kind -> BOOLEAN]]
        /\ UNCHANGED << handler, answer, cell, pause, pidfile >>
    BY <1>0, StopFacts, IterFacts DEF umount, umountFails, Umounting, Inv, TypeInv
  <1>2. /\ f \in [Kind -> Nat] /\ f[n] = IF bound[p][n] > 0 THEN bound[p][n] - 1 ELSE 0
        /\ \A m \in Kind : m # n => f[m] = bound[p][m]
    BY <1>1
  <1>3. Popped = [bound EXCEPT ![p] = f]
    BY DEF Popped, Target
  <1>4. /\ Popped \in [Pod -> [Kind -> Nat]]
        /\ \A m \in Kind : Popped[p][m] <= bound[p][m]
        /\ Popped[p][n] = IF bound[p][n] > 0 THEN bound[p][n] - 1 ELSE 0
    <2>1. Popped \in [Pod -> [Kind -> Nat]] /\ Popped[p] = f
      <3> HIDE DEF f, n, p
      <3> QED BY <1>1, <1>2, <1>3
    <2>2. bound[p] \in [Kind -> Nat]
      BY <1>1
    <2> HIDE DEF f, n, p
    <2> QED BY <1>1, <1>2, <2>1, <2>2
  <1>5. /\ file' \in [Pod -> [Kind -> BOOLEAN]]
        /\ \A m \in Kind : file'[p][m] => file[p][m]
    <2>1. CASE file' = file
      BY <1>1, <2>1
    <2>2. CASE file' = [file EXCEPT ![p][n] = @ /\ Popped[p][n] > 0]
      <3> DEFINE h == [file[p] EXCEPT ![n] = @ /\ Popped[p][n] > 0]
      <3>1. h \in [Kind -> BOOLEAN] /\ (\A m \in Kind : h[m] => file[p][m])
        BY <1>1
      <3>2. file' = [file EXCEPT ![p] = h]
        BY <2>2
      <3> HIDE DEF h, p, n
      <3> QED BY <1>1, <3>1, <3>2
    <2> QED BY <2>1, <2>2 DEF umount, umountFails, Target
  <1>6. /\ stop'.pc = "umount" /\ stop'.at = stop.at + 1 /\ stop' \in StopRecord
        /\ stop.missed \subseteq stop'.missed
    <2>1. stop.at + 1 \in 1..(Count + 1) /\ n \in Kind
      BY <1>0, <1>1 DEF Count
    <2>2. CASE umount
      BY <1>0, <2>1, <2>2 DEF umount, StopRecord
    <2>3. CASE umountFails
      <3>1. stop' = [stop EXCEPT !.at = @ + 1, !.missed = @ \cup {n}]
        BY <2>3 DEF umountFails, Target
      <3> HIDE DEF n
      <3> QED BY <1>0, <2>1, <3>1 DEF StopRecord
    <2> QED BY <2>2, <2>3
  <1>7. /\ bound' \in [Pod -> [Kind -> Nat]]
        /\ \A m \in Kind : bound'[p][m] <= bound[p][m]
    <2>1. CASE bound' = bound
      BY <1>1, <2>1
    <2>2. CASE bound' = Popped
      BY <1>4, <2>2
    <2> QED BY <2>1, <2>2 DEF umount, umountFails
  <1>8. umount => bound' = Popped /\ (Popped[p][n] = 0 => ~file'[p][n])
    <2> SUFFICES ASSUME umount PROVE bound' = Popped /\ (Popped[p][n] = 0 => ~file'[p][n])
      OBVIOUS
    <2>1. bound' = Popped /\ file' = [file EXCEPT ![p][n] = @ /\ Popped[p][n] > 0]
      BY DEF umount, Target
    <2> DEFINE h == [file[p] EXCEPT ![n] = @ /\ Popped[p][n] > 0]
    <2>2. h[n] = (file[p][n] /\ Popped[p][n] > 0)
      BY <1>1
    <2>3. file' = [file EXCEPT ![p] = h]
      BY <2>1
    <2>4. file'[p] = h
      <3> HIDE DEF h, p, n
      <3> QED BY <1>1, <2>3
    <2>5. Popped[p][n] = 0 => ~h[n]
      <3>1. Popped[p][n] = 0 => ~(Popped[p][n] > 0)
        <4> HIDE DEF p, n
        <4> QED OBVIOUS
      <3> HIDE DEF h, p, n
      <3> QED BY <2>2, <3>1
    <2> HIDE DEF h, p, n
    <2> QED BY <2>1, <2>4, <2>5
  <1>9. umount \/ n \in stop'.missed
    <2>1. CASE umountFails
      BY <1>0, <2>1 DEF umountFails, Target, StopRecord
    <2> QED BY <2>1
  <1>10. TypeInv'
    BY <1>1, <1>5, <1>6, <1>7 DEF Inv, TypeInv
  <1>11. RunInv' /\ HandlerInv'
    BY <1>1 DEF Inv, RunInv, HandlerInv
  <1>12. CellInv'
    BY <1>0, <1>1, <1>6 DEF Inv, CellInv
  <1>13. BoundInv' /\ FileInv'
    BY <1>6 DEF BoundInv, FileInv
  <1>14. StopInv'
    <2>1. ASSUME Only(cell.pid)', NEW k \in 1..Count
          PROVE  /\ bound'[p][NamespaceIter[k]] \in 0..1
                 /\ k < stop.at + 1 /\ NamespaceIter[k] \notin stop'.missed =>
                       bound'[p][NamespaceIter[k]] = 0 /\ ~file'[p][NamespaceIter[k]]
      <3> DEFINE e == NamespaceIter[k]
      <3>1. Only(cell.pid)
        BY <1>1, <2>1 DEF Only
      <3>2. /\ bound[p][e] \in 0..1
            /\ k < stop.at /\ e \notin stop.missed => bound[p][e] = 0 /\ ~file[p][e]
        BY <1>0, <3>1 DEF Inv, StopInv
      <3>3. e \in Kind /\ (k = stop.at => e = n) /\ k \in Int /\ stop.at \in Int
        BY <1>0, IterFacts DEF Count
      <3>4. bound'[p][e] \in Nat /\ bound'[p][e] <= bound[p][e] /\ (file'[p][e] => file[p][e])
        BY <1>1, <1>5, <1>7, <3>3
      <3>5. bound'[p][e] \in 0..1
        <4> HIDE DEF p, e
        <4> QED BY <3>2, <3>4
      <3>6. CASE k # stop.at
        <4>1. k < stop.at + 1 <=> k < stop.at
          BY <3>3, <3>6
        <4>2. e \notin stop'.missed => e \notin stop.missed
          BY <1>6
        <4> HIDE DEF p, e, n
        <4> QED BY <3>2, <3>4, <3>5, <4>1, <4>2 DEF e
      <3>7. CASE k = stop.at
        <4>1. e = n
          BY <3>3, <3>7
        <4>2. umount => Popped[p][n] = 0
          <5>1. bound[p][n] \in 0..1
            BY <3>2, <4>1
          <5> HIDE DEF p, n
          <5> QED BY <1>4, <5>1
        <4> HIDE DEF p, n
        <4> QED BY <1>8, <1>9, <3>5, <4>1, <4>2
      <3> QED BY <3>6, <3>7
    <2> QED BY <1>0, <1>1, <1>6, <2>1 DEF StopInv
  <1> QED BY <1>10, <1>11, <1>12, <1>13, <1>14 DEF Inv

\* The signal to the instance's process preserves Inv.
LEMMA KillInv ==
  ASSUME Inv, kill
  PROVE  Inv'
  <1> SUFFICES ASSUME NEW c, c = cell.pid PROVE Inv'
    OBVIOUS
  <1> DEFINE r == [pause[c] EXCEPT !.term = ~TermIgnored(c)]
  <1>1. /\ c \in DOMAIN pause /\ pause[c].pod = cell.pod /\ pause[c].parent = "exited"
        /\ pause[c] \in RunRecord /\ Handshake(pause[c]) /\ cell.pod # NoPod
        /\ stop.pc = "umount" /\ stop.at = Count + 1 /\ stop \in StopRecord
    <2>1. stop.pc = "umount" /\ stop.at = Count + 1 /\ stop \in StopRecord
      BY IterFacts DEF kill, Inv, TypeInv, StopRecord, Count
    <2> QED BY <2>1, StopFacts, RunFacts
  <1>2. /\ r \in RunRecord /\ Handshake(r) /\ r.pod = pause[c].pod /\ r.at = pause[c].at
        /\ r.parent = pause[c].parent /\ r.child = pause[c].child
        /\ TermIgnored(c) \/ r.term
    <2>1. TermIgnored(c) \in BOOLEAN
      BY DEF TermIgnored, InitOfPidNamespace
    <2> QED BY <1>1, <2>1 DEF RunRecord, Handshake, AllBound, Count
  <1>3. pause' = [pause EXCEPT ![c] = r]
    BY DEF kill
  <1> HIDE DEF r
  <1>4. /\ pause' \in Seq(RunRecord) /\ Len(pause') = Len(pause)
        /\ DOMAIN pause' = DOMAIN pause
        /\ pause'[c] = r
        /\ \A j \in DOMAIN pause : j # c => pause'[j] = pause[j]
    BY <1>1, <1>2, <1>3, ChangeRun DEF Inv, TypeInv
  <1>5. /\ stop'.pc = "killed" /\ stop'.at = Count + 1 /\ stop'.ignored = TermIgnored(c)
        /\ stop'.missed = stop.missed /\ stop' \in StopRecord
        /\ UNCHANGED << handler, answer, cell, bound, file, pidfile >>
    <2>1. TermIgnored(c) \in BOOLEAN
      BY DEF TermIgnored, InitOfPidNamespace
    <2> QED BY <1>1, <2>1 DEF kill, StopRecord
  <1>6. TypeInv'
    BY <1>4, <1>5 DEF Inv, TypeInv
  <1>7. RunInv'
    BY <1>2, <1>4 DEF Inv, RunInv
  <1>8. HandlerInv'
    BY <1>1, <1>2, <1>4, <1>5 DEF Inv, HandlerInv, Over, Written
  <1>9. CellInv'
    BY <1>1, <1>2, <1>4, <1>5 DEF Inv, CellInv
  <1>10. BoundInv' /\ FileInv'
    BY <1>5 DEF BoundInv, FileInv
  <1>11. StopInv'
    <2>1. Only(c)' => Only(c)
      BY <1>1, <1>2, <1>4 DEF Only
    <2> QED BY <1>1, <1>2, <1>4, <1>5, <2>1 DEF Inv, StopInv
  <1> QED BY <1>6, <1>7, <1>8, <1>9, <1>10, <1>11 DEF Inv

\* Removing the PID file, with or without success, preserves Inv.
LEMMA RemovePidfileInv ==
  ASSUME Inv, RemovePidfile
  PROVE  Inv'
  <1>1. /\ cell.pod \in Pod /\ cell.pod # NoPod /\ cell # Empty /\ stop.pc = "killed"
        /\ stop \in StopRecord
        /\ UNCHANGED << handler, answer, cell, pause, bound, file >>
    BY StopFacts DEF RemovePidfile, Empty, Inv, TypeInv
  <1>2. /\ stop'.pc = "done" /\ stop'.at = stop.at /\ stop'.ignored = stop.ignored
        /\ stop' \in StopRecord
        /\ stop.missed \subseteq stop'.missed
        /\ pidfile' \in [Pod -> Int]
        /\ "pidfile" \notin stop'.missed => pidfile'[cell.pod] = NoFile
    <2>1. CASE /\ stop' = [stop EXCEPT !.pc = "done"]
               /\ pidfile' = [pidfile EXCEPT ![cell.pod] = NoFile]
      <3>1. pidfile' \in [Pod -> Int] /\ pidfile'[cell.pod] = NoFile
        BY <1>1, <2>1 DEF Inv, TypeInv, NoFile
      <3> QED BY <1>1, <2>1, <3>1 DEF StopRecord
    <2>2. CASE /\ stop' = [stop EXCEPT !.pc = "done", !.missed = @ \cup {"pidfile"}]
               /\ pidfile' = pidfile
      BY <1>1, <2>2 DEF Inv, TypeInv, StopRecord
    <2> QED BY <2>1, <2>2 DEF RemovePidfile
  <1>3. TypeInv'
    BY <1>1, <1>2 DEF Inv, TypeInv
  <1>4. RunInv'
    BY <1>1 DEF Inv, RunInv
  <1>5. HandlerInv'
    BY <1>1 DEF Inv, HandlerInv
  <1>6. CellInv'
    BY <1>1, <1>2 DEF Inv, CellInv
  <1>7. BoundInv' /\ FileInv'
    BY <1>2 DEF BoundInv, FileInv
  <1>8. StopInv'
    BY <1>1, <1>2 DEF Inv, StopInv, Only
  <1> QED BY <1>3, <1>4, <1>5, <1>6, <1>7, <1>8 DEF Inv

\* Every step preserves Inv.
LEMMA NextInv ==
  ASSUME Inv, [Next]_vars
  PROVE  Inv'
  <1>1. CASE \E p \in Pod \cup {NoPod}, w \in Wants, m \in BOOLEAN : create_namespaces(p, w, m)
    BY <1>1, CreateInv
  <1>2. CASE init \/ initFails
    BY <1>2, HandlerStepInv
  <1>3. CASE \E i \in Run : ParentStep(i) \/ ChildStep(i)
    BY <1>3, ParentStepInv, ChildStepInv DEF Run
  <1>4. CASE \E i \in Run : RunFails(i)
    BY <1>4, FaultInv DEF Run
  <1>5. CASE HandleSignal
    BY <1>5, SignalInv
  <1>6. CASE StopStep \/ umountFails
    BY <1>6, UmountInv, KillInv, RemovePidfileInv DEF StopStep
  <1>7. CASE UNCHANGED vars
    BY <1>7 DEF vars, Inv, TypeInv, RunInv, HandlerInv, CellInv, BoundInv, FileInv, StopInv, Only
  <1> QED BY <1>1, <1>2, <1>3, <1>4, <1>5, <1>6, <1>7 DEF Next

\* Inv holds in every reachable state.
LEMMA Invariance == Spec => []Inv
  BY InitInv, NextInv, PTL DEF Spec

-----------------------------------------------------------------------------

\* The paths of a successful answer of CreateNamespaces for the pod of the
\* instance exist before a stop, and the namespaces are mounted on them: on the
\* host for good, or with a user namespace while the child lives; and the
\* instance is the process that mounted them.
THEOREM NamespacesBoundCorrect == Spec => []NamespacesBound
  <1>1. Inv => NamespacesBound
    <2> SUFFICES ASSUME Inv, answer.status = "ok", answer.pod = cell.pod, stop.pc = "none"
                 PROVE  /\ \A n \in Range(NamespaceIter) :
                              /\ file[cell.pod][n]
                              /\ \/ Mounted(cell.pid, n)
                                 \/ User(cell.pid) /\ pause[cell.pid].child = "dead"
                        /\ pause[cell.pid].pod = cell.pod
                        /\ pause[cell.pid].child \in {"bound", "asleep", "dead"}
                        /\ pidfile[cell.pod] = cell.pid
      BY DEF NamespacesBound
    <2>1. cell.pod # NoPod
      BY PodAssumption DEF Inv, HandlerInv
    <2>2. /\ cell.pid \in DOMAIN pause /\ pause[cell.pid].pod = cell.pod
          /\ pause[cell.pid].parent = "exited" /\ pidfile[cell.pod] = cell.pid
      BY <2>1 DEF Inv, CellInv
    <2>3. AllBound(pause[cell.pid]) /\ pause[cell.pid].at = Count + 1
      BY <2>2, RunFacts DEF Handshake, AllBound
    <2>4. \A k \in 1..Count : /\ ~User(cell.pid) => bound[cell.pod][NamespaceIter[k]] > 0
                             /\ file[cell.pod][NamespaceIter[k]]
      BY <2>2, <2>3 DEF Inv, BoundInv, FileInv, Shared, User, Count
    <2>5. \A n \in Kind : \E k \in 1..(pause[cell.pid].at - 1) : NamespaceIter[k] = n
      BY <2>3, IterFacts DEF Count
    <2>6. ASSUME NEW n \in Kind
          PROVE  file[cell.pod][n] /\ (~User(cell.pid) => bound[cell.pod][n] > 0)
      BY <2>4, IterFacts
    <2> QED BY <2>2, <2>3, <2>5, <2>6, IterFacts DEF AllBound, Mounted
  <1> QED BY <1>1, Invariance, PTL

\* A stop leaves neither a mount, nor a path, nor the PID file, nor an
\* unsignalled process behind, but what a failing call left, and with the
\* exceptions StopCleans names.
THEOREM StopCleansCorrect == Spec => []StopCleans
  <1>1. Inv => StopCleans
    <2> SUFFICES ASSUME Inv, stop.pc = "done", \A i \in Run : ~Stray(i)
                 PROVE  /\ \A n \in Range(NamespaceIter) \ stop.missed :
                              bound[cell.pod][n] = 0 /\ ~file[cell.pod][n]
                        /\ \A n \in Range(NamespaceIter) : bound[cell.pod][n] <= 1
                        /\ "pidfile" \notin stop.missed => pidfile[cell.pod] = NoFile
                        /\ \/ pause[cell.pid].child = "dead"
                           \/ pause[cell.pid].term
                           \/ stop.ignored
      BY DEF StopCleans
    <2>1. /\ cell.pid \in DOMAIN pause /\ pause[cell.pid].pod = cell.pod
          /\ "pidfile" \notin stop.missed => pidfile[cell.pod] = NoFile
      BY StopFacts
    <2>2. Only(cell.pid)
      BY <2>1 DEF Only, Stray, Run
    <2>3. \A k \in 1..Count :
             /\ bound[cell.pod][NamespaceIter[k]] <= 1
             /\ NamespaceIter[k] \notin stop.missed =>
                    bound[cell.pod][NamespaceIter[k]] = 0 /\ ~file[cell.pod][NamespaceIter[k]]
      BY <2>2 DEF Inv, StopInv, Count
    <2> QED BY <2>1, <2>3, IterFacts DEF Inv, StopInv
  <1> QED BY <1>1, Invariance, PTL

=============================================================================
