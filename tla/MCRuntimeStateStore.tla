----------------------- MODULE MCRuntimeStateStore -----------------------
(* RuntimeStateStore on one host, one rule and two savers: the least that   *)
(* lets a stale payload, a newer one and an edit between them coexist.      *)
EXTENDS RuntimeStateStore, TLC

Symmetry == Permutations(Host) \cup Permutations(Saver)
=============================================================================
