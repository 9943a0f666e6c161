-------------------------- MODULE MCAttachClient ---------------------------
(* Instances of AttachClient for TLC. *)
EXTENDS AttachClient

CONSTANTS s1, s2

Cfg(stdin, streams, stop, containerStdin, passthrough) ==
    [stdin |-> stdin, streams |-> streams, stopAfterStdinEOF |-> stop,
     containerStdin |-> containerStdin, passthrough |-> passthrough]

Configs == { Cfg(TRUE, {"stdout"}, FALSE, FALSE, FALSE),
             Cfg(TRUE, {}, TRUE, TRUE, FALSE),
             Cfg(TRUE, {"stdout", "stderr"}, FALSE, TRUE, FALSE),
             Cfg(FALSE, {"stdout", "stderr"}, FALSE, FALSE, FALSE),
             Cfg(FALSE, {"stdout"}, FALSE, FALSE, TRUE) }

\* One session meets everything the server may do, one disturbance at a time; so
\* does one with a stdin whose streams nobody reads.
Made == {s \in Session : pc[s] # "idle"}
Lagged(s) == ended[s] /\ \A i \in 1..Len(sent[s]) : sent[s][i] # Done
Disturbed == { d \in {"lag", "exit", "shutdown"} :
                 CASE d = "lag" -> \E s \in Session : Lagged(s)
                   [] d = "exit" -> ~server /\ shut # "killed"
                   [] d = "shutdown" -> shut # "no" }
Alone == /\ cfg[s1] = cfg[s2] /\ Cardinality(Disturbed) <= 1
         /\ \/ Made \subseteq {s1}
            \/ Made \subseteq {s2} /\ cfg[s2] = Cfg(TRUE, {"stdout"}, FALSE, FALSE, FALSE)
\* Two sessions with stdin meet in the map and at the socket.
Pair == /\ cfg[s1] = cfg[s2] /\ cfg[s1] = Cfg(TRUE, {"stdout"}, FALSE, FALSE, FALSE)
        /\ emitted = 0 /\ finished \subseteq {"stdout"} /\ Disturbed = {}
MCSpec == Init /\ [][Next /\ (Alone \/ Pair)']_vars
MCFairSpec == MCSpec /\ Fairness

=============================================================================
