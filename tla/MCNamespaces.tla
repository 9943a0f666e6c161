---------------------------- MODULE MCNamespaces ----------------------------
EXTENDS Namespaces
CONSTANTS p1, p2

(* The host namespaces, a PID namespace, and both a PID and a user one.    *)
MCWants == {{}, {"pid"}, {"pid", "user"}}
=============================================================================
