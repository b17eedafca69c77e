---------------------------- MODULE DynamicRoutes ----------------------------
(***************************************************************************)
(* The learned addresses of smart mode: the timed sets of the nftables     *)
(* table, and what the daemon remembers to have put there                  *)
(* (dynamicElementState of netfilter.go).  The DNS observer adds the       *)
(* addresses of the answers it saw each second, a ticker those of the      *)
(* configured domains every five minutes, and setupRedirect loads a new    *)
(* table with the addresses it resolved or found in routingIPCache.        *)
(*                                                                         *)
(* An entry stands for an address in a set.  Time passes in units; a       *)
(* second is far below one, so every call that has begun ends before the   *)
(* next tick.                                                              *)
(***************************************************************************)
EXTENDS Naturals

CONSTANTS
  Entry,
  Key, NoKey,            \* settings of the include and exclude lists; empty cache
  Names,                 \* the entries that the domains of a key resolve to
  Observer, Ticker,      \* the two goroutines that add entries
  TTL, Recheck, Purge,   \* 30 minutes, 31 minutes and 2 hours
  MaxSetups, MaxFaults, MaxCrashes        \* bounds of the environment

Worker == {Observer, Ticker}
Never == Purge + 2       \* no time is remembered
Modes == {"smart", "global"}

ASSUME DynamicRoutesAssumption ==
  /\ {TTL, Recheck, Purge, MaxSetups, MaxFaults, MaxCrashes} \subseteq Nat
  /\ TTL <= Recheck /\ Recheck < Purge
  /\ Names \in [Key -> SUBSET Entry]
  /\ NoKey \notin Key
  /\ Observer # Ticker

VARIABLES
  table,        \* kernel: "none", or the mode of the table in place
  left,         \* kernel: the time an entry still has in its set, 0: not there
  seen,         \* dynamicElementState: time since an entry was remembered
  cache,        \* routingIPCache: its key and entries
  key,          \* the settings on disk
  pending,      \* the observer's entries until its next flush
  wpc, batch,   \* where each worker is in addDynamicElements, and its pending
  spc, sips,    \* where setupRedirect is, the entries and the key it found
  skey, smode,
  replaced,     \* history: entries remembered of a table that is gone
  inherited,    \* history: the table is that of a daemon that died
  budget

kernel == <<table, left>>
worker == <<wpc, batch>>
setup == <<spc, sips, skey, smode>>
vars == <<kernel, seen, cache, key, pending, worker, setup, replaced, inherited, budget>>

Init ==
  /\ table = "none" /\ left = [e \in Entry |-> 0]
  /\ seen = [e \in Entry |-> Never]
  /\ cache = [key |-> NoKey, ips |-> {}]
  /\ key \in Key
  /\ pending = {}
  /\ wpc = [w \in Worker |-> "idle"] /\ batch = [w \in Worker |-> {}]
  /\ spc = "idle" /\ sips = {} /\ skey = key /\ smode = "smart"
  /\ replaced = {} /\ inherited = FALSE
  /\ budget = [setup |-> MaxSetups, fault |-> MaxFaults, crash |-> MaxCrashes]

Spend(kind) == budget[kind] > 0 /\ budget' = [budget EXCEPT ![kind] = @ - 1]

-----------------------------------------------------------------------------
(* routingIPCache *)

\* Seeded error: the cache is used whatever domains it was filled for.
CachedForAnyKey(k, ips) ==
  \/ cache.ips # {} /\ ips = cache.ips /\ UNCHANGED cache
  \/ ips \subseteq Names[k] /\ cache' = [key |-> k, ips |-> ips]

\* cachedRoutingIPs: a cached answer of this key, or, once ten minutes are over,
\* whatever the lookups return in time.  The mutex is held throughout.
Cached(k, ips) ==
  \/ cache.key = k /\ cache.ips # {} /\ ips = cache.ips /\ UNCHANGED cache
  \/ ips \subseteq Names[k] /\ cache' = [key |-> k, ips |-> ips]

-----------------------------------------------------------------------------
(* addDynamicElements *)

\* Seeded error: an entry is due again just before it leaves its set.
DueEarly(e) == seen[e] = Never \/ seen[e] + 1 >= Recheck

Due(e) == seen[e] = Never \/ seen[e] > Recheck

\* Seeded error: what is asked for again stays remembered, and nothing is purged.
PickKeepsAll(w, wanted) ==
  /\ wpc[w] = "idle"
  /\ seen' = [e \in Entry |-> IF e \in wanted /\ ~Due(e) THEN 0 ELSE seen[e]]
  /\ batch' = [batch EXCEPT ![w] = {e \in wanted : Due(e)}]
  /\ wpc' = [wpc EXCEPT ![w] = IF \E e \in wanted : Due(e) THEN "add" ELSE "idle"]

\* Under the mutex: forget what is old, pick what is due.
Pick(w, wanted) ==
  /\ wpc[w] = "idle"
  /\ seen' = [e \in Entry |-> IF seen[e] > Purge THEN Never ELSE seen[e]]
  /\ batch' = [batch EXCEPT ![w] = {e \in wanted : Due(e)}]
  /\ wpc' = [wpc EXCEPT ![w] = IF \E e \in wanted : Due(e) THEN "add" ELSE "idle"]

\* flushLearnedDNS, each second; nothing learned still purges.
Flush ==
  /\ Pick(Observer, pending)
  /\ pending' = {}
  /\ UNCHANGED <<kernel, cache, key, setup, replaced, inherited, budget>>

\* refreshDomainRoutes, every five minutes while the engine runs in smart mode.
Refresh ==
  /\ \E ips \in SUBSET Entry :
       /\ Cached(key, ips)
       /\ IF ips = {} THEN wpc[Ticker] = "idle" /\ UNCHANGED <<seen, worker>>
          ELSE Pick(Ticker, ips)
  /\ UNCHANGED <<kernel, key, pending, setup, replaced, inherited, budget>>

\* One nft transaction.  An element that is there keeps its timeout.
Add(w) ==
  /\ wpc[w] = "add"
  /\ table = "smart"
  /\ left' = [e \in Entry |-> IF e \in batch[w] /\ left[e] = 0 THEN TTL ELSE left[e]]
  /\ replaced' = replaced \ batch[w]
  /\ wpc' = [wpc EXCEPT ![w] = "remember"]
  /\ UNCHANGED <<table, seen, cache, key, pending, batch, setup, inherited, budget>>

Done(w) ==
  /\ wpc' = [wpc EXCEPT ![w] = "idle"]
  /\ batch' = [batch EXCEPT ![w] = {}]

\* Seeded error: the result of nft is not looked at.
AddFailsRemembered(w) ==
  /\ wpc[w] = "add"
  /\ \/ table # "smart" /\ UNCHANGED budget
     \/ Spend("fault")
  /\ wpc' = [wpc EXCEPT ![w] = "remember"]
  /\ UNCHANGED <<kernel, seen, cache, key, pending, batch, setup, replaced, inherited>>

\* There is no table, or a global one, which has no such set; or nft fails.
AddFails(w) ==
  /\ wpc[w] = "add"
  /\ \/ table # "smart" /\ UNCHANGED budget
     \/ Spend("fault")
  /\ Done(w)
  /\ UNCHANGED <<kernel, seen, cache, key, pending, setup, replaced, inherited>>

Remembered(entries) == seen' = [e \in Entry |-> IF e \in entries THEN 0 ELSE seen[e]]

Remember(w) ==
  /\ wpc[w] = "remember"
  /\ Remembered(batch[w])
  /\ Done(w)
  /\ UNCHANGED <<kernel, cache, key, pending, setup, replaced, inherited, budget>>

-----------------------------------------------------------------------------
(* setupRedirect and teardownRedirect, one at a time under redirectMu *)

NewTable(mode, entries) ==
  /\ table' = mode
  /\ left' = [e \in Entry |-> IF e \in entries THEN TTL ELSE 0]

\* The caller read its settings, with k, some time ago.
Resolve(mode, k) ==
  /\ spc = "idle"
  /\ Spend("setup")
  /\ IF mode = "global" THEN sips' = {} /\ UNCHANGED cache
     ELSE \E ips \in SUBSET Entry : Cached(k, ips) /\ sips' = ips
  /\ skey' = k /\ smode' = mode
  /\ spc' = "drop"
  /\ UNCHANGED <<kernel, seen, key, pending, worker, replaced, inherited>>

\* What is remembered, or about to be, was in the table that goes.
DropTable ==
  /\ NewTable("none", {})
  /\ replaced' = {e \in Entry : seen[e] # Never} \cup UNION {batch[w] : w \in Worker}
  /\ inherited' = FALSE

Drop ==
  /\ spc = "drop"
  /\ DropTable
  /\ spc' = "load"
  /\ UNCHANGED <<seen, cache, key, pending, worker, sips, skey, smode, budget>>

Load ==
  /\ spc = "load"
  /\ NewTable(smode, sips)
  /\ replaced' = replaced \ sips
  /\ spc' = "remember"
  /\ UNCHANGED <<seen, cache, key, pending, worker, sips, skey, smode, inherited, budget>>

LoadFails ==
  /\ spc = "load"
  /\ Spend("fault")
  /\ spc' = "idle" /\ sips' = {}
  /\ UNCHANGED <<kernel, seen, cache, key, pending, worker, skey, smode, replaced, inherited>>

RememberLoaded ==
  /\ spc = "remember"
  /\ Remembered(sips)
  /\ spc' = "idle" /\ sips' = {}
  /\ UNCHANGED <<kernel, cache, key, pending, worker, skey, smode, replaced, inherited, budget>>

Teardown ==
  /\ spc = "idle"
  /\ table # "none"
  /\ Spend("setup")
  /\ DropTable
  /\ UNCHANGED <<seen, cache, key, pending, worker, setup>>

-----------------------------------------------------------------------------
(* the environment *)

\* An answer for a name of the China list or of a service reaches the socket and
\* finds room in the channel; one that does not is as if it had not been sent.
Answer(e) ==
  /\ e \notin pending
  /\ pending' = pending \cup {e}
  /\ UNCHANGED <<kernel, seen, cache, key, worker, setup, replaced, inherited, budget>>

SaveSettings ==
  /\ Spend("setup")
  /\ key' \in Key \ {key}
  /\ UNCHANGED <<kernel, seen, cache, pending, worker, setup, replaced, inherited>>

Tick ==
  /\ spc = "idle" /\ \A w \in Worker : wpc[w] = "idle"
  /\ left' = [e \in Entry |-> IF left[e] > 0 THEN left[e] - 1 ELSE 0]
  /\ seen' = [e \in Entry |-> IF seen[e] <= Purge THEN seen[e] + 1 ELSE seen[e]]
  /\ UNCHANGED <<table, cache, key, pending, worker, setup, replaced, inherited, budget>>

\* The daemon is killed and respawned; the kernel keeps the table.
Respawn ==
  /\ Spend("crash")
  /\ seen' = [e \in Entry |-> Never]
  /\ cache' = [key |-> NoKey, ips |-> {}]
  /\ pending' = {}
  /\ wpc' = [w \in Worker |-> "idle"] /\ batch' = [w \in Worker |-> {}]
  /\ spc' = "idle" /\ sips' = {} /\ skey' = key /\ smode' = "smart"
  /\ replaced' = {} /\ inherited' = TRUE
  /\ UNCHANGED <<kernel, key>>

Work(w) == Add(w) \/ AddFails(w) \/ Remember(w)
Setup == Drop \/ Load \/ LoadFails \/ RememberLoaded

Next ==
  \/ Flush \/ Refresh \/ \E w \in Worker : Work(w)
  \/ Setup \/ \E mode \in Modes, k \in Key : Resolve(mode, k)
  \/ Teardown
  \/ \E e \in Entry : Answer(e)
  \/ SaveSettings \/ Tick \/ Respawn

Spec == Init /\ [][Next]_vars

(***************************************************************************)
(* The observer's ticker ticks each second, commands end and time passes.  *)
(* Tick waits for everyone at rest, which is so again and again: SF.       *)
(***************************************************************************)
Fairness ==
  /\ SF_vars(Flush) /\ WF_vars(Setup) /\ \A w \in Worker : WF_vars(Work(w))
  /\ SF_vars(Tick)

FairSpec == Spec /\ Fairness

-----------------------------------------------------------------------------
(***************************************************************************)
(* Types of the kernel's sets and the daemon's bookkeeping.                *)
(***************************************************************************)
TypeOK ==
  /\ table \in Modes \cup {"none"}
  /\ left \in [Entry -> 0..TTL]
  /\ seen \in [Entry -> 0..Never]
  /\ cache \in [key : Key \cup {NoKey}, ips : SUBSET Entry]
  /\ {key, skey} \subseteq Key
  /\ {pending, sips, replaced} \subseteq SUBSET Entry
  /\ wpc \in [Worker -> {"idle", "add", "remember"}]
  /\ batch \in [Worker -> SUBSET Entry]
  /\ spc \in {"idle", "drop", "load", "remember"}
  /\ smode \in Modes
  /\ inherited \in BOOLEAN
  /\ budget \in [{"setup", "fault", "crash"} -> Nat]

(***************************************************************************)
(* An entry that is remembered is in the table for as long as its timeout  *)
(* runs: the daemon skips it rightly.  The exceptions are the entries      *)
(* remembered of a table that setup or teardown has replaced since, which  *)
(* dynamicElementState is not told of.                                     *)
(***************************************************************************)
RememberedIsThere ==
  \A e \in Entry \ replaced :
    table = "smart" /\ ~inherited /\ seen[e] < TTL => left[e] > 0

(***************************************************************************)
(* No add is in vain: what is due has left its set, so that nft gives it a *)
(* new timeout (it does not for an element that is there), unless another  *)
(* goroutine put it there and is about to remember it, or a dead daemon    *)
(* did.  This is why 31 minutes are waited for a timeout of 30.            *)
(***************************************************************************)
DueHasExpired ==
  \A e \in Entry :
    Due(e) /\ left[e] > 0 /\ ~inherited =>
      \/ \E w \in Worker : e \in batch[w]
      \/ spc = "remember" /\ e \in sips

(***************************************************************************)
(* A new table is loaded with addresses that were resolved for the domain  *)
(* lists it is built for, whatever the cache holds.                        *)
(***************************************************************************)
LoadedForItsLists == spc \in {"drop", "load", "remember"} => sips \subseteq Names[skey]

(***************************************************************************)
(* While a smart table stays, an address that DNS answers keep naming is   *)
(* in it again and again, whatever was remembered, torn down or lost.      *)
(***************************************************************************)
LearnedAgain ==
  \A e \in Entry :
    ([]<><<Flush /\ e \in pending>>_vars /\ <>[](table = "smart"))
      => []<>(left[e] > 0)
=============================================================================
