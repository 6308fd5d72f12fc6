------------------------- MODULE MCSimplbooksOutbox --------------------------
(* Small instances of SimplbooksOutbox for TLC.                             *)
EXTENDS SimplbooksOutbox

CONSTANT w1

=============================================================================
