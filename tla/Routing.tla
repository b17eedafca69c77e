------------------------------- MODULE Routing -------------------------------
(***************************************************************************)
(* What the router promises the LAN about OpenSocks: at any moment traffic *)
(* either goes out directly or is governed by exactly one complete routing *)
(* configuration, and one configuration is replaced by another only        *)
(* through a moment in which traffic is direct.                            *)
(***************************************************************************)
CONSTANTS Config,   \* the configurations a ruleset can be built from
          Direct    \* no OpenSocks rules at all; not a configuration

VARIABLE active     \* the configuration in force, or Direct

Init == active = Direct

Install(c) == active = Direct /\ active' = c

Remove == active # Direct /\ active' = Direct

Next == Remove \/ \E c \in Config : Install(c)

Spec == Init /\ [][Next]_active
=============================================================================
