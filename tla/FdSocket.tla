------------------------------ MODULE FdSocket ------------------------------
(***************************************************************************)
(* Passing file descriptors to the server: the fd socket                   *)
(* (conmon-rs/server/src/fd_socket.rs), its client RemoteFDs               *)
(* (pkg/client/remote_fds.go), and the way create_container (rpc.rs) and   *)
(* create_child (child_reaper.rs) own, hand on and close what was passed.  *)
(*                                                                         *)
(* The server's descriptor table is modelled by number: a descriptor is an *)
(* index the kernel gives out lowest first and reuses at once, and an      *)
(* OwnedFd in the code is a claim on a number, right or wrong.             *)
(***************************************************************************)
EXTENDS Integers, FiniteSets

CONSTANTS
    Conn,          \* client connections, one RemoteFDs each
    Req,           \* create_container requests
    File,          \* what clients pass: numbers, in the order they pass them
    Fd,            \* the numbers of the server's descriptor table
    W,             \* slots are numbered modulo W (2^64 in the code)
    MaxFDs,        \* most descriptors in one message (253)
    MaxAncillary,  \* most the server's 1024 byte ancillary buffer takes (252)
    Additional,    \* requests that name additional_fds
    None

Slot == 0..(W - 1)

\* The number of descriptors in an error reply: num_fds | 0xff.
ERROR_NUM == 255
\* 0xffff_ffff, which the client compares with, as a signed 32 bit number.
MAX_NUM == -1

ASSUME FdSocketAssumption ==
    /\ File \subseteq Nat /\ Fd \subseteq Nat /\ IsFiniteSet(Fd)
    /\ W \in Nat \ {0} /\ MaxFDs \in 1..253 /\ MaxAncillary \in 1..253
    /\ Additional \subseteq Req
    /\ None \notin Int

VARIABLES
    table,      \* the kernel's table: what each number of the server refers to
    fds,        \* State.fds: slot -> claimed number
    last,       \* State.last
    guard,      \* ConnectionGuard.slots of every connection
    conn,       \* "new", "open", "closing" (client closed) or "gone"
    wire,       \* the request a client has sent, {} if there is none
    asked,      \* ... and the number of descriptors in it
    reply,      \* the response the server has sent
    handles,    \* RemoteFDs a client holds: slot -> file it passed
    sent,       \* files passed so far
    req,        \* state of a create_container request
    additional, \* numbers the request's additional_fds claim
    command,    \* numbers the Command's fd_mappings claim
    leak,       \* numbers leak_fds claim
    leakFiles,  \* what the client meant to be leaked
    mapped      \* requests whose Command was given fd_mappings

clientVars == <<conn, wire, asked, reply, handles, sent>>
serverVars == <<fds, last, guard>>
reqVars == <<req, additional, command, leak, leakFiles, mapped>>
vars == <<table, clientVars, serverVars, reqVars>>

\* Handles are a partial function from slots to files.
NoHandles == [s \in Slot |-> None]

TypeOK ==
    /\ table \in [Fd -> File \cup {None}]
    /\ fds \in [Slot -> Fd \cup {None}]
    /\ last \in Slot
    /\ guard \in [Conn -> SUBSET Slot]
    /\ conn \in [Conn -> {"new", "open", "closing", "gone"}]
    /\ wire \in [Conn -> SUBSET File]
    /\ asked \in [Conn -> Nat]
    /\ reply \in [Conn -> [num : Nat, slots : [Slot -> File \cup {None}]] \cup {None}]
    /\ handles \in [Conn -> [Slot -> File \cup {None}]]
    /\ sent \in SUBSET File
    /\ req \in [Req -> {"idle", "taken", "ready", "spawned", "running", "done",
                        "failing", "failed"}]
    /\ additional \in [Req -> SUBSET Fd]
    /\ command \in [Req -> SUBSET Fd]
    /\ leak \in [Req -> SUBSET Fd]
    /\ leakFiles \in [Req -> SUBSET File]
    /\ mapped \in SUBSET Req

Init ==
    /\ table = [n \in Fd |-> None]
    /\ fds = [s \in Slot |-> None]
    /\ last = 0
    /\ guard = [k \in Conn |-> {}]
    /\ conn = [k \in Conn |-> "new"]
    /\ wire = [k \in Conn |-> {}]
    /\ asked = [k \in Conn |-> 0]
    /\ reply = [k \in Conn |-> None]
    /\ handles = [k \in Conn |-> NoHandles]
    /\ sent = {}
    /\ req = [r \in Req |-> "idle"]
    /\ additional = [r \in Req |-> {}]
    /\ command = [r \in Req |-> {}]
    /\ leak = [r \in Req |-> {}]
    /\ leakFiles = [r \in Req |-> {}]
    /\ mapped = {}

-----------------------------------------------------------------------------
(* RemoteFDs. *)

NewRemoteFDs(k) ==
    /\ conn[k] = "new"
    /\ conn' = [conn EXCEPT ![k] = "open"]
    /\ UNCHANGED <<table, wire, asked, reply, handles, sent, serverVars, reqVars>>

\* Send, first half: one message with the descriptors F.
Send(k, F) ==
    /\ conn[k] = "open" /\ wire[k] = {} /\ reply[k] = None
    /\ F # {} /\ F \cap sent = {} /\ IsFiniteSet(F) /\ Cardinality(F) <= MaxFDs
    /\ \A f \in F, g \in File \ (sent \cup F) : f < g
    /\ wire' = [wire EXCEPT ![k] = F]
    /\ asked' = [asked EXCEPT ![k] = Cardinality(F)]
    /\ sent' = sent \cup F
    /\ UNCHANGED <<table, conn, reply, handles, serverVars, reqVars>>

\* What Send makes of a response: numFDs is compared with 0xffff_ffff for an
\* error of the server, then with the number of descriptors sent.
Outcome(num, n) == IF num = MAX_NUM THEN "serverError"
                   ELSE IF num # n THEN "mismatch" ELSE "ok"

\* Send, second half: read the response.
Receive(k) ==
    /\ conn[k] = "open" /\ reply[k] # None
    /\ handles' = [handles EXCEPT ![k] =
                     [s \in Slot |->
                        IF /\ Outcome(reply[k].num, asked[k]) = "ok"
                           /\ reply[k].slots[s] # None
                        THEN reply[k].slots[s] ELSE handles[k][s]]]
    /\ reply' = [reply EXCEPT ![k] = None]
    /\ UNCHANGED <<table, conn, wire, asked, sent, serverVars, reqVars>>

\* Close, or the end of the client's process, at any time.
CloseConn(k) ==
    /\ conn[k] = "open"
    /\ conn' = [conn EXCEPT ![k] = "closing"]
    /\ handles' = [handles EXCEPT ![k] = NoHandles]
    /\ UNCHANGED <<table, wire, asked, reply, sent, serverVars, reqVars>>

-----------------------------------------------------------------------------
(* Server::serve and State. *)

Rank(x, S) == Cardinality({y \in S : y < x})

FreeFds == {n \in Fd : table[n] = None}

\* The kernel installs received descriptors at the lowest free numbers.
FdFor(f, F) == CHOOSE n \in FreeFds : Rank(n, FreeFds) = Rank(f, F)

\* State::add counts up from last, wrapping, and skips occupied slots.
Distance(s) == (s + W - last - 1) % W
FreeSlots == {s \in Slot : fds[s] = None}
SlotFor(f, F) ==
    CHOOSE s \in FreeSlots :
        Cardinality({t \in FreeSlots : Distance(t) < Distance(s)}) = Rank(f, F)

\* Faulty: the guard is emptied, the slots are not.
GuardCloseForgets(k) ==
    /\ guard' = [guard EXCEPT ![k] = {}]
    /\ UNCHANGED <<table, fds>>

\* Faulty: the slots of all connections are closed.
GuardCloseAll(k) ==
    LET held == {fds[s] : s \in Slot} \ {None}
    IN  /\ table' = [n \in Fd |-> IF n \in held THEN None ELSE table[n]]
        /\ fds' = [s \in Slot |-> None]
        /\ guard' = [guard EXCEPT ![k] = {}]

\* The connection's slots are emptied and what they held is closed; slots
\* whose descriptor was taken before are still listed, and skipped.
GuardClose(k) ==
    LET held == {fds[s] : s \in guard[k]} \ {None}
    IN  /\ table' = [n \in Fd |-> IF n \in held THEN None ELSE table[n]]
        /\ fds' = [s \in Slot |-> IF s \in guard[k] THEN None ELSE fds[s]]
        /\ guard' = [guard EXCEPT ![k] = {}]

\* A message with descriptors.  More of them than the ancillary buffer takes:
\* the ones that arrived are dropped and the reply is an error.
Serve(k) ==
    /\ wire[k] # {} /\ conn[k] \in {"open", "closing"}
    /\ LET F == wire[k]
           slots == {SlotFor(f, F) : f \in F}
       IN  IF Cardinality(F) > MaxAncillary
           THEN /\ reply' = [reply EXCEPT ![k] = [num |-> ERROR_NUM,
                                                  slots |-> NoHandles]]
                /\ UNCHANGED <<table, serverVars>>
           ELSE /\ Cardinality(F) <= Cardinality(FreeFds)
                /\ Cardinality(F) <= Cardinality(FreeSlots)
                /\ table' = [n \in Fd |->
                     IF \E f \in F : FdFor(f, F) = n
                     THEN CHOOSE f \in F : FdFor(f, F) = n ELSE table[n]]
                /\ fds' = [s \in Slot |->
                     IF s \in slots
                     THEN FdFor(CHOOSE f \in F : SlotFor(f, F) = s, F)
                     ELSE fds[s]]
                /\ last' = SlotFor(CHOOSE f \in F : \A g \in F : g <= f, F)
                /\ guard' = [guard EXCEPT ![k] = @ \cup slots]
                /\ reply' = [reply EXCEPT ![k] =
                     [num |-> Cardinality(F),
                      slots |-> [s \in Slot |->
                         IF s \in slots THEN CHOOSE f \in F : SlotFor(f, F) = s
                         ELSE None]]]
    /\ wire' = [wire EXCEPT ![k] = {}]
    /\ UNCHANGED <<conn, asked, handles, sent, reqVars>>

\* An empty request: close the descriptors of this connection, no response.
ServeClose(k) ==
    /\ conn[k] = "open" /\ wire[k] = {} /\ reply[k] = None
    /\ GuardClose(k)
    /\ handles' = [handles EXCEPT ![k] = NoHandles]
    /\ UNCHANGED <<conn, wire, asked, reply, sent, last, reqVars>>

\* End of the connection: the guard is dropped.
ServeEof(k) ==
    /\ conn[k] = "closing" /\ wire[k] = {}
    /\ GuardClose(k)
    /\ conn' = [conn EXCEPT ![k] = "gone"]
    /\ reply' = [reply EXCEPT ![k] = None]
    /\ UNCHANGED <<wire, asked, handles, sent, last, reqVars>>

-----------------------------------------------------------------------------
(* create_container: take_all twice, spawn, wait for the runtime, register. *)

CloseFds(N) == [n \in Fd |-> IF n \in N THEN None ELSE table[n]]

\* Faulty: get instead of remove.
EmptyNone(S) == fds

Empty(S) == [s \in Slot |-> IF s \in S THEN None ELSE fds[s]]

\* The slots a client can name: those it was told about.
Known == {s \in Slot : \E k \in Conn : handles[k][s] # None}

\* The client uses a handle once.
Used(S) == [k \in Conn |-> [s \in Slot |-> IF s \in S THEN None ELSE handles[k][s]]]

\* take_all(additional_fds).  Every named slot holds a descriptor ...
TakeAdditional(r, S) ==
    /\ req[r] = "idle"
    /\ S \subseteq Known /\ (r \notin Additional => S = {})
    /\ \A s \in S : fds[s] # None
    /\ additional' = [additional EXCEPT ![r] = {fds[s] : s \in S}]
    /\ fds' = Empty(S)
    /\ handles' = Used(S)
    /\ req' = [req EXCEPT ![r] = "taken"]
    /\ UNCHANGED <<table, conn, wire, asked, reply, sent, last, guard, command,
                   leak, leakFiles, mapped>>

\* take_all(leak_fds), under a second locking of the state.
TakeLeak(r, S) ==
    /\ req[r] = "taken"
    /\ S \subseteq Known
    /\ \A s \in S : fds[s] # None
    /\ leak' = [leak EXCEPT ![r] = {fds[s] : s \in S}]
    /\ leakFiles' = [leakFiles EXCEPT ![r] =
                       {f \in File : \E s \in S, k \in Conn : handles[k][s] = f}]
    /\ fds' = Empty(S)
    /\ handles' = Used(S)
    /\ req' = [req EXCEPT ![r] = "ready"]
    /\ UNCHANGED <<table, conn, wire, asked, reply, sent, last, guard,
                   additional, command, mapped>>

\* ... or one of them does not (its connection is closed): the call fails, and
\* the slots T that come before it in the list are emptied and closed, as is
\* what the request had taken before.
TakeFails(r, T) ==
    /\ req[r] \in {"idle", "taken"}
    /\ T \subseteq Known /\ \A s \in T : fds[s] # None
    /\ fds' = Empty(T)
    /\ table' = CloseFds({fds[s] : s \in T} \cup additional[r])
    /\ handles' = Used(T)
    /\ additional' = [additional EXCEPT ![r] = {}]
    /\ req' = [req EXCEPT ![r] = "failed"]
    /\ UNCHANGED <<conn, wire, asked, reply, sent, last, guard, command, leak,
                   leakFiles, mapped>>

\* The log of the container cannot be opened: the handler ends.
InitFails(r) ==
    /\ req[r] = "ready"
    /\ table' = CloseFds(additional[r] \cup leak[r])
    /\ additional' = [additional EXCEPT ![r] = {}]
    /\ leak' = [leak EXCEPT ![r] = {}]
    /\ req' = [req EXCEPT ![r] = "failed"]
    /\ UNCHANGED <<clientVars, serverVars, command, leakFiles, mapped>>

\* create_child spawns the runtime with fd_mappings made by from_raw_fd from
\* the numbers of additional_fds, then drops additional_fds.  If it cannot be
\* spawned the same numbers are closed twice as well, by the Command and by
\* additional_fds after it: the second time is that of CreateChildFails.
Spawn(r) ==
    /\ req[r] = "ready"
    /\ command' = [command EXCEPT ![r] = additional[r]]
    /\ mapped' = IF additional[r] = {} THEN mapped ELSE mapped \cup {r}
    /\ table' = CloseFds(additional[r])
    /\ additional' = [additional EXCEPT ![r] = {}]
    /\ req' = [req EXCEPT ![r] = "spawned"]
    /\ UNCHANGED <<clientVars, serverVars, leak, leakFiles>>

\* create_child returns, which drops the Command and with it the mappings'
\* OwnedFds.  On success leak_fds move to the cleanup task ...
CreateChildOk(r) ==
    /\ req[r] = "spawned"
    /\ table' = CloseFds(command[r])
    /\ command' = [command EXCEPT ![r] = {}]
    /\ req' = [req EXCEPT ![r] = "running"]
    /\ UNCHANGED <<clientVars, serverVars, additional, leak, leakFiles, mapped>>

\* ... on failure the handler keeps them while it reads the output that is left
CreateChildFails(r) ==
    /\ req[r] = "spawned"
    /\ table' = CloseFds(command[r])
    /\ command' = [command EXCEPT ![r] = {}]
    /\ req' = [req EXCEPT ![r] = "failing"]
    /\ UNCHANGED <<clientVars, serverVars, additional, leak, leakFiles, mapped>>

\* and drops them when it answers or its client disconnects.
Refuse(r) ==
    /\ req[r] = "failing"
    /\ table' = CloseFds(leak[r])
    /\ leak' = [leak EXCEPT ![r] = {}]
    /\ req' = [req EXCEPT ![r] = "failed"]
    /\ UNCHANGED <<clientVars, serverVars, additional, command, leakFiles, mapped>>

\* The container has ended and the cleanup task drops leak_fds.
Exited(r) ==
    /\ req[r] = "running"
    /\ table' = CloseFds(leak[r])
    /\ leak' = [leak EXCEPT ![r] = {}]
    /\ req' = [req EXCEPT ![r] = "done"]
    /\ UNCHANGED <<clientVars, serverVars, additional, command, leakFiles, mapped>>

-----------------------------------------------------------------------------

ClientStep(k) == \/ NewRemoteFDs(k) \/ Receive(k) \/ CloseConn(k)
                 \/ \E F \in SUBSET (File \ sent) : Send(k, F)
ServeStep(k) == Serve(k) \/ ServeClose(k) \/ ServeEof(k)
CreateStep(r) == \/ InitFails(r) \/ Spawn(r) \/ CreateChildOk(r)
                 \/ CreateChildFails(r) \/ Refuse(r) \/ Exited(r)
RequestStep(r) ==
    \/ \E S \in SUBSET Known : \/ TakeAdditional(r, S) \/ TakeLeak(r, S)
                               \/ TakeFails(r, S)
    \/ CreateStep(r)

Next == \/ \E k \in Conn : ClientStep(k) \/ ServeStep(k)
        \/ \E r \in Req : RequestStep(r)

Spec == Init /\ [][Next]_vars

-----------------------------------------------------------------------------

\* Every open descriptor has an owner that will close it: a slot of a connection
\* that is still served, a request in progress or a container.  Failed requests,
\* failed messages and connections that end at any moment leave nothing open
\* (ConnectionGuard, take_all and the ownership of additional_fds and leak_fds).
NoFdLeak ==
    \A n \in Fd : table[n] # None =>
        \/ \E k \in Conn : conn[k] # "gone" /\ \E s \in guard[k] : fds[s] = n
        \/ \E r \in Req : n \in additional[r] \cup leak[r]

\* A slot number the client was given refers to the descriptor it passed until
\* the client hands it to a request or closes its connection, whatever other
\* connections and requests do (State::add, State::take, ConnectionGuard::close),
\* as long as no Command closes additional_fds for a second time.
HandlesHold ==
    mapped = {} => \A k \in Conn, s \in Slot : handles[k][s] # None =>
        fds[s] # None /\ table[fds[s]] = handles[k][s]

\* The descriptors leaked into a container stay open, and stay the right ones,
\* until its end (pkg/client/client.go, LeakFDs: "keep file descriptors open as
\* long as the container is running").
LeakFdsOpen ==
    \A r \in Req : req[r] = "running" => {table[n] : n \in leak[r]} = leakFiles[r]

\* That does hold as long as no request has additional_fds: failing requests,
\* ending connections and reused numbers do not take a leaked descriptor away.
LeakFdsOpenUnmapped == mapped = {} => LeakFdsOpen

=============================================================================
