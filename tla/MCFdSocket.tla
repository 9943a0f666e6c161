----------------------------- MODULE MCFdSocket -----------------------------
(* Instances of FdSocket for TLC.  W has as many slots as files are passed, so  *)
(* the counter wraps around, and no slot number is given out twice: the code   *)
(* would need 2^64 descriptors for that.                                       *)
EXTENDS FdSocket, TLC

CONSTANTS k1, k2, r1, r2

Symmetry == Permutations({k1, k2})

=============================================================================
