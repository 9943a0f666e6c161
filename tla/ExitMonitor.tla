---------------------------- MODULE ExitMonitor ----------------------------
(***************************************************************************)
(* What the child reaper promises, without its tasks, channels, locks and  *)
(* signals: every process it comes to know of is reported on at most once, *)
(* with the code the process ended with, or with the failure code when its *)
(* deadline passed or it cannot be waited for; and a process is forgotten  *)
(* only after it was reported on.  ChildReaper implements this             *)
(* specification (the property ImplementsMonitor there).                   *)
(***************************************************************************)
EXTENDS Integers

CONSTANTS
    Child,       \* processes
    Timed,       \* those with a deadline
    Unwaitable,  \* those that cannot be waited for
    Code,        \* codes a process may end with
    Failed,      \* the failure code
    None

VARIABLES
    started,  \* processes that exist or have existed
    ended,    \* the code a process ended with
    known,    \* processes under watch
    report    \* the one report on a process

vars == <<started, ended, known, report>>

Init ==
    /\ started = {}
    /\ ended = [c \in Child |-> None]
    /\ known = {}
    /\ report = [c \in Child |-> None]

Start(c) ==
    /\ c \notin started
    /\ started' = started \cup {c}
    /\ UNCHANGED <<ended, known, report>>

\* A process exits with a code, or is ended by a signal.
End(c) ==
    /\ c \in started /\ ended[c] = None
    /\ \E code \in Code : ended' = [ended EXCEPT ![c] = code]
    /\ UNCHANGED <<started, known, report>>

Watch(c) ==
    /\ c \in started /\ report[c] = None
    /\ known' = known \cup {c}
    /\ UNCHANGED <<started, ended, report>>

Report(c) ==
    /\ c \in known /\ report[c] = None
    /\ \/ /\ ended[c] # None /\ c \notin Unwaitable
          /\ report' = [report EXCEPT ![c] = [code |-> ended[c], timedOut |-> FALSE]]
       \/ /\ c \in Unwaitable
          /\ report' = [report EXCEPT ![c] = [code |-> Failed, timedOut |-> FALSE]]
       \/ /\ c \in Timed
          /\ report' = [report EXCEPT ![c] = [code |-> Failed, timedOut |-> TRUE]]
    /\ UNCHANGED <<started, ended, known>>

Forget(c) ==
    /\ report[c] # None
    /\ known' = known \ {c}
    /\ UNCHANGED <<started, ended, report>>

Next == \E c \in Child : Start(c) \/ End(c) \/ Watch(c) \/ Report(c) \/ Forget(c)

Spec == Init /\ [][Next]_vars

=============================================================================
