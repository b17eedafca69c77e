------------------------------ MODULE MCEngine ------------------------------
(***************************************************************************)
(* Engine with two callers and the three slots of the code.                *)
(***************************************************************************)
EXTENDS Engine

CONSTANTS p1, p2, l1

MCProcess == {p1, p2}
MCLine == {l1}
=============================================================================
