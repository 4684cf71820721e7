-------------------------- MODULE MCAlertEngine --------------------------
(* AlertEngine for TLC.  Once a restart has lost an alert state, `lossy'   *)
(* stays and the properties promise nothing; nor do they of a usage rule   *)
(* that was passed over.  Such states are not explored further.            *)
EXTENDS AlertEngine

NothingLost == ~lossy
Promising == NothingLost /\ (muted => metric = "offline")
=============================================================================
