---------------------------- MODULE MCAdminPage ----------------------------
(* AdminPage with three changes: one whose answer is awaited, one queued    *)
(* behind it and one that is made in between.  A page that missed something *)
(* is promised less; it is explored up to two changes.                      *)
EXTENDS AdminPage

FewChangesAdrift == gestures = MaxGestures => ~drift
=============================================================================
