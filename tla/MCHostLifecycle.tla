------------------------- MODULE MCHostLifecycle -------------------------
(* HostLifecycle for TLC.  No host of these instances is static, so they   *)
(* are interchangeable.                                                    *)
EXTENDS HostLifecycle, TLC

Symmetry == Permutations(Host)
=============================================================================
