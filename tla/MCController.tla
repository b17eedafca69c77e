---------------------------- MODULE MCController ----------------------------
(***************************************************************************)
(* Instances of Controller: up to two clients, two lines, two sessions.    *)
(***************************************************************************)
EXTENDS Controller, TLC

CONSTANTS c1, c2, l1, l2

MCClient == {c1, c2}
MCLine == {l1, l2}
MCSymmetry == Permutations(MCClient) \cup Permutations(MCLine)

MCLineSymmetry == Permutations(MCLine)

WithMode(mode, sessions, autoRoute) ==
  [mode |-> mode, selected |-> NoLine, sessions |-> sessions,
   autoConnect |-> TRUE, autoRoute |-> autoRoute]

ManualSettings == {WithMode("smart", 1, FALSE)}
AutoSettings == {WithMode("smart", 1, TRUE)}
ManualPosts == {WithMode("global", MaxSessions, FALSE)}
AutoPosts == {WithMode("global", MaxSessions, TRUE)}

AnySettings == ManualSettings \cup AutoSettings
AnyPosts == ManualPosts \cup AutoPosts
=============================================================================
