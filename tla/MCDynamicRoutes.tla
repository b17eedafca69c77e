-------------------------- MODULE MCDynamicRoutes --------------------------
(***************************************************************************)
(* Instances of DynamicRoutes and of Packets, which share no variable: a   *)
(* behaviour is one of the first or one of the second.  The entries are    *)
(* such that only one of two domain lists resolves to them; times are in   *)
(* the order of the code's.                                                *)
(***************************************************************************)
EXTENDS DynamicRoutes, Packets

CONSTANTS e1, k1, k2

VARIABLE part

MCEntry == {e1}
MCKey == {k1, k2}
MCNames == [k \in MCKey |-> IF k = k1 THEN {e1} ELSE {}]
MCGroup == <<"honor_of_kings", "bilibili">>

MCInit ==
  /\ Init /\ PacketInit
  /\ \/ part = "routes" /\ packet = [lan |-> FALSE, family |-> 6, proto |-> "tcp", port |-> 80, to |-> {}] /\ smart
     \/ part = "packets" /\ key = k1

Ended == at = "done" /\ UNCHANGED packetVars

MCNext ==
  /\ \/ part = "routes" /\ Next /\ UNCHANGED packetVars
     \/ part = "packets" /\ (PacketNext \/ Ended) /\ UNCHANGED vars
  /\ UNCHANGED part

MCSpec ==
  /\ MCInit /\ [][MCNext]_<<vars, packetVars, part>>
  /\ part = "routes" => Fairness
=============================================================================
