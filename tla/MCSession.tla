----------------------------- MODULE MCSession -----------------------------
(***************************************************************************)
(* Instances of Session: two goroutines.                                   *)
(***************************************************************************)
EXTENDS Session

CONSTANTS p1, p2

MCProcess == {p1, p2}
=============================================================================
