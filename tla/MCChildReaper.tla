--------------------------- MODULE MCChildReaper ---------------------------
(* Instances of ChildReaper for TLC: one or two requests. *)
EXTENDS ChildReaper

CONSTANTS c1, c2, x1, i1, i2

\* Every request names the same container id.
OneId == [c \in Child |-> i1]

\* The exec is one of a container that an earlier server created.
TwoIds == [c \in Child |-> IF c \in Exec THEN i2 ELSE i1]

\* Liveness is checked for each kind of request, one in a run of the server.
Made == {c \in Child : rpc[c] # "idle"}
OneRequestFairSpec ==
    /\ Init
    /\ [][Next /\ Cardinality(Made') <= 1]_vars
    /\ \A c \in Child : TaskFairness(c)
    /\ WF_vars(KillLoop)

=============================================================================
