------------------------------- MODULE Packets -------------------------------
(***************************************************************************)
(* The way of a packet through the table that setupRedirect of             *)
(* netfilter.go writes: one action for each base chain, in the order of    *)
(* the hooks and priorities that the table declares.  A packet carries the *)
(* sets that its destination is in, so that every overlap of lists is a    *)
(* packet of its own; the sets are those of validCIDRs, the China list,    *)
(* the learned addresses and the constants of the source.                  *)
(***************************************************************************)
EXTENDS Naturals, Sequences

CONSTANTS
  Group,        \* chinaServiceGroups in order of priority; honor_of_kings first
  Sessions      \* ss-redir instances: 1 to 3

GroupSet == {Group[i] : i \in DOMAIN Group}

ASSUME PacketsAssumption ==
  /\ Group \in Seq(GroupSet) /\ Group # << >>
  /\ Sessions \in 1..3
  /\ GroupSet \cap {"private", "proxy", "exclude", "honor", "domain", "include", "cn",
                    "encrypted", "other"} = {}

\* What the daemon was asked to route, and what it must leave alone.
ChinaSets == {"honor", "domain", "include", "cn"}
Exempt == {"private", "proxy", "exclude"}
ListedSets == ChinaSets \cup Exempt \cup {"encrypted"} \cup GroupSet

\* The constants of the source do not overlap: honorOfKingsDirectCIDRs lies "outside
\* the mainland allocation list", publicEncryptedDNS4 too, and all are public.
Disjoint == {"private", "honor", "encrypted", "cn"}
Destinations == {d \in SUBSET ListedSets : \A a, b \in d \cap Disjoint : a = b}

Packet == [lan : BOOLEAN, family : {4}, proto : {"tcp", "udp", "icmp"},
           port : {53, 443, 853, 80}, to : Destinations]
          \cup [lan : BOOLEAN, family : {6}, proto : {"tcp", "udp", "icmp"},
                port : {53, 443, 853, 80}, to : {{}}]

VARIABLES
  packet, smart,   \* the packet; the mode of the table
  at,              \* the chain it comes to
  tproxied, nat,   \* the slot TPROXY chose, 0: none; what NAT made of it
  counted,         \* the service counters it has passed
  verdict

packetVars == <<packet, smart, at, tproxied, nat, counted, verdict>>

PacketInit ==
  /\ packet \in Packet /\ smart \in BOOLEAN
  /\ packet.to \subseteq IF smart THEN ListedSets ELSE {"private", "proxy"}
  /\ at = "prerouting_udp"
  /\ tproxied = 0 /\ nat = [to |-> "none", slot |-> 0]
  /\ counted = << >> /\ verdict = "none"

To(set) == set \in packet.to
Goes(chain) == at' = chain

-----------------------------------------------------------------------------
(* prerouting *)

\* Seeded error: the China list is looked at before the exclusions.
ListedFirst(proto) ==
  /\ packet.lan /\ packet.family = 4 /\ packet.proto = proto
  /\ \/ smart /\ To("cn")
     \/ packet.to \cap Exempt = {} /\ (smart => packet.to \cap ChinaSets # {})

\* The rules that the two redirecting chains have in common: others' interfaces,
\* private addresses, the proxies and, in smart mode, exclude4 return.
Listed(proto) ==
  /\ packet.lan /\ packet.family = 4 /\ packet.proto = proto
  /\ packet.to \cap (IF smart THEN Exempt ELSE Exempt \ {"exclude"}) = {}
  /\ smart => packet.to \cap ChinaSets # {}

\* filter, priority mangle.  symhash sends a flow to one slot, both ways.
PreroutingUdp ==
  /\ at = "prerouting_udp"
  /\ IF Listed("udp") THEN tproxied' \in 1..Sessions ELSE UNCHANGED tproxied
  /\ Goes("dns_capture")
  /\ UNCHANGED <<packet, smart, nat, counted, verdict>>

\* nat, priority dstnat - 10.
DnsCapture ==
  /\ at = "dns_capture"
  /\ nat' = IF smart /\ packet.lan /\ packet.proto \in {"tcp", "udp"} /\ packet.port = 53
            THEN [to |-> "resolver", slot |-> 0] ELSE nat
  /\ Goes("prerouting")
  /\ UNCHANGED <<packet, smart, tproxied, counted, verdict>>

\* nat, priority dstnat - 1: a connection that NAT has changed is not seen again.
Prerouting ==
  /\ at = "prerouting"
  /\ IF nat.to = "none" /\ Listed("tcp")
     THEN \E slot \in 1..Sessions : nat' = [to |-> "engine", slot |-> slot]
     ELSE UNCHANGED nat
  /\ Goes(IF tproxied # 0 \/ nat'.to # "none" THEN "service_up" ELSE "smart_leak_guard")
  /\ UNCHANGED <<packet, smart, tproxied, counted, verdict>>

-----------------------------------------------------------------------------
(* input: the packet was redirected, or the mark of TPROXY made it local *)

\* The first rule that matches returns.
Service ==
  LET hits == SelectSeq(Group, LAMBDA g : To(g))
  IN IF To("honor") THEN <<Group[1]>>
     ELSE IF hits # << >> THEN <<hits[1]>>
     ELSE IF packet.to \cap {"domain", "include", "cn"} # {} THEN <<"other">>
     ELSE << >>

\* service_up; service_down counts the replies by the same destination.
ServiceUp ==
  /\ at = "service_up"
  /\ counted' = IF smart /\ packet.lan THEN Service ELSE << >>
  /\ Goes("deliver")
  /\ UNCHANGED <<packet, smart, tproxied, nat, verdict>>

\* A packet that both TPROXY and NAT took can end with either socket.
Deliver ==
  /\ at = "deliver"
  /\ verdict' \in (IF tproxied # 0 \/ nat.to = "engine" THEN {"proxied"} ELSE {})
                  \cup (IF nat.to = "resolver" THEN {"captured"} ELSE {})
  /\ Goes("done")
  /\ UNCHANGED <<packet, smart, tproxied, nat, counted>>

-----------------------------------------------------------------------------
(* forward *)

Ends(result) == Goes("done") /\ verdict' = result

\* priority mangle - 2
SmartLeakGuard ==
  /\ at = "smart_leak_guard"
  /\ IF /\ smart /\ packet.lan /\ packet.proto \in {"tcp", "udp"}
        /\ \/ packet.family = 6
           \/ packet.port = 853
           \/ To("encrypted") /\ packet.port = 443
     THEN Ends("rejected")
     ELSE Goes("force_china_tcp") /\ UNCHANGED verdict
  /\ UNCHANGED <<packet, smart, tproxied, nat, counted>>

\* priority filter - 1
ForceChinaTcp ==
  /\ at = "force_china_tcp"
  /\ Ends(IF /\ smart /\ packet.lan /\ packet.proto = "udp" /\ packet.port = 443
             /\ packet.to \cap {"domain", "cn"} # {}
          THEN "rejected" ELSE "direct")
  /\ UNCHANGED <<packet, smart, tproxied, nat, counted>>

PacketNext ==
  \/ PreroutingUdp \/ DnsCapture \/ Prerouting
  \/ ServiceUp \/ Deliver
  \/ SmartLeakGuard \/ ForceChinaTcp

PacketSpec == PacketInit /\ [][PacketNext]_packetVars

-----------------------------------------------------------------------------
(***************************************************************************)
(* What is promised of a packet, whatever the order of chains and rules.   *)
(*                                                                         *)
(* A LAN connection to a destination of one of the China lists, or in      *)
(* global mode to anything, goes to the proxy, unless it is for a private  *)
(* address, for a proxy server or, in smart mode, for an excluded address. *)
(* In smart mode the router answers DNS, except that over UDP a routed     *)
(* destination may get it through the proxy; IPv6, DNS over TLS and known  *)
(* DNS over HTTPS are refused, and so is QUIC to a China destination,      *)
(* an excluded one included.                                               *)
(***************************************************************************)
Connects == packet.lan /\ packet.proto \in {"tcp", "udp"}
Proxied ==
  /\ Connects /\ packet.family = 4
  /\ ~To("private") /\ ~To("proxy")
  /\ smart => ~To("exclude") /\ (\E s \in ChinaSets : To(s))
Dns == smart /\ Connects /\ packet.port = 53
Refused ==
  /\ smart /\ Connects
  /\ \/ packet.family = 6 \/ packet.port = 853
     \/ packet.port = 443 /\ To("encrypted")
     \/ packet.port = 443 /\ packet.proto = "udp" /\ (To("cn") \/ To("domain"))

Promised ==
  CASE Dns /\ Proxied /\ packet.proto = "udp" -> {"captured", "proxied"}
    [] Dns /\ ~(Proxied /\ packet.proto = "udp") -> {"captured"}
    [] ~Dns /\ Proxied -> {"proxied"}
    [] ~Dns /\ ~Proxied /\ Refused -> {"rejected"}
    [] OTHER -> {"direct"}

(***************************************************************************)
(* Every packet ends as promised, and "nftables applies the stable group   *)
(* priority and counts the flow only once": a packet that smart mode sends *)
(* to the proxy passes exactly one service counter, one that goes directly *)
(* or is refused none, and the slot it goes to is one that runs.           *)
(***************************************************************************)
RoutedAsPromised ==
  at = "done" =>
    /\ verdict \in Promised
    /\ Len(counted) <= 1
    /\ verdict = "proxied" => (Len(counted) = 1 <=> smart)
    /\ verdict \in {"direct", "rejected"} => counted = << >>
    /\ verdict = "proxied" => tproxied \in 1..Sessions \/ nat.slot \in 1..Sessions
=============================================================================
