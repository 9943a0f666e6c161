--------------------------- MODULE MCContainerIO ---------------------------
(* Instances of ContainerIO for TLC: one pipe writes more than the other. *)
EXTENDS ContainerIO, FiniteSets

CONSTANTS k1, k2

Chunks2And1 == [p \in Pipe |-> IF p = "stdout" THEN 2 ELSE 1]

Attached == {k \in Client : client[k] # "absent"}

\* An attach names a container, and finds an exec of it only when the reaper
\* does not know the container: only containers are attached to here.  Bound: a
\* second client is there for one chunk only.
Bounded ==
    Attached # {} =>
        /\ \A p \in Pipe : reader[p] = "none"
        /\ produced["stdout"] + produced["stderr"] + 2 * Cardinality(Attached) <= 5
ContainerAttachFairSpec == Init /\ [][Next /\ Bounded']_vars /\ Fairness

=============================================================================
