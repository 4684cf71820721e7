--------------------------- MODULE MCAdminStore ---------------------------
(* AdminStore with two operations at a time: what a third would add is one  *)
(* more stale copy.  Once an update was lost, tokens and sessions are       *)
(* promised nothing; such states are explored further only for what the     *)
(* file holds, without the tokens.                                          *)
EXTENDS AdminStore, TLC

Symmetry == Permutations(Request)
TokensUntilLost == lost => issued = {}
=============================================================================
