----------------------------- MODULE MCRedirect -----------------------------
(***************************************************************************)
(* Redirect with three callers, a Smart configuration, which needs the     *)
(* China list, and a Global one, which does not.                           *)
(***************************************************************************)
EXTENDS Redirect

CONSTANTS p1, p2, p3, smart1, global1

MCProcess == {p1, p2, p3}
MCConfig == {smart1, global1}
MCGlobal == {global1}
=============================================================================
