------------------------ MODULE DynamicRoutesProofs ------------------------
(***************************************************************************)
(* Proofs about DynamicRoutes, for any entries, domain lists and bounds,   *)
(* and any times in the order of the code's; and about Packets, for any    *)
(* service groups and overlaps of the lists.                               *)
(*                                                                         *)
(* DynamicRoutes: the argument is an account of each entry.  The time it   *)
(* still has in its set and the time since it was remembered make up the   *)
(* timeout (Kept and Accounted), except while a goroutine is between its   *)
(* nft command and the note of it (AboutToRemember), when no time passes   *)
(* and the timeout is whole (Whole, Fresh); and what is noted of a table   *)
(* that is gone has been replaced with it (Gone).                          *)
(*                                                                         *)
(* Packets: each chain adds what it says of the packet to what the earlier *)
(* ones said (Steered, Ways, Counters, Guarded).                           *)
(***************************************************************************)
EXTENDS DynamicRoutes, Packets, TLAPS

\* What is cached, and what a table is loaded with, was resolved for its key.
Resolved ==
  /\ cache.key # NoKey => cache.ips \subseteq Names[cache.key]
  /\ LoadedForItsLists

\* Where setupRedirect and the workers are.
Stages ==
  /\ spc = "idle" => sips = {}
  /\ smode = "global" => sips = {}
  /\ spc = "load" => table = "none"
  /\ spc = "remember" => table = smode
  /\ \A w \in Worker : wpc[w] = "idle" => batch[w] = {}

\* Somebody has put e in the table and has not noted it yet; or is going to put it there.
AboutToRemember(e) ==
  \/ \E w \in Worker : wpc[w] = "remember" /\ e \in batch[w]
  \/ spc = "remember" /\ e \in sips
Taken(e) == AboutToRemember(e) \/ \E w \in Worker : e \in batch[w]

Whole == ~inherited => \A e \in Entry : Taken(e) => left[e] \in {0, TTL}

Fresh ==
  /\ ~inherited /\ table = "smart" =>
       \A e \in Entry \ replaced : AboutToRemember(e) => left[e] = TTL
  /\ spc = "remember" => \A e \in sips : left[e] = TTL

Accounted ==
  ~inherited =>
    \A e \in Entry : left[e] = 0 \/ AboutToRemember(e) \/ left[e] + seen[e] <= TTL

Kept ==
  ~inherited /\ table = "smart" => \A e \in Entry \ replaced : left[e] + seen[e] >= TTL

Gone ==
  table # "smart" =>
    /\ ~inherited => \A e \in Entry \ replaced : seen[e] >= TTL
    /\ \A w \in Worker : wpc[w] = "remember" => batch[w] \subseteq replaced

Timed == Whole /\ Fresh /\ Accounted /\ Kept /\ Gone

DInv == TypeOK /\ Resolved /\ Stages /\ Timed

-----------------------------------------------------------------------------
(* types *)

\* The order of the times, and that they are numbers.
LEMMA Times ==
  /\ TTL \in Nat /\ Recheck \in Nat /\ Purge \in Nat /\ Never = Purge + 2
  /\ TTL <= Recheck /\ Recheck < Purge
BY DynamicRoutesAssumption DEF Never

\* A cached or a fresh answer is a set of entries.
LEMMA CachedTyped ==
  ASSUME TypeOK, NEW k \in Key, NEW ips \in SUBSET Entry, Cached(k, ips)
  PROVE  cache' \in [key : Key \cup {NoKey}, ips : SUBSET Entry]
BY DEF Cached, TypeOK

\* What picking leaves is well typed.
LEMMA PickTyped ==
  ASSUME TypeOK, NEW w \in Worker, NEW wanted \in SUBSET Entry, Pick(w, wanted)
  PROVE  /\ seen' \in [Entry -> 0..Never]
         /\ wpc' \in [Worker -> {"idle", "add", "remember"}]
         /\ batch' \in [Worker -> SUBSET Entry]
<1>1. Never \in 0..Never
  BY Times
<1>2. seen' \in [Entry -> 0..Never]
  BY <1>1 DEF Pick, TypeOK
<1>3. QED
  BY <1>2 DEF Pick, TypeOK

\* Spending keeps the budget's type.
LEMMA SpendTyped ==
  ASSUME TypeOK, NEW kind \in {"setup", "fault", "crash"}, Spend(kind)
  PROVE  budget' \in [{"setup", "fault", "crash"} -> Nat]
<1>1. budget[kind] - 1 \in Nat
  BY DEF Spend, TypeOK
<1>2. QED
  BY <1>1 DEF Spend, TypeOK

\* Types, initially.
LEMMA TypedInit == Init => TypeOK
<1> SUFFICES ASSUME Init PROVE TypeOK
  OBVIOUS
<1>1. 0 \in 0..TTL /\ Never \in 0..Never
  BY Times
<1>2. left \in [Entry -> 0..TTL] /\ seen \in [Entry -> 0..Never]
  BY <1>1 DEF Init
<1>3. budget \in [{"setup", "fault", "crash"} -> Nat]
  BY DynamicRoutesAssumption DEF Init
<1>4. inherited \in BOOLEAN
  BY DEF Init
<1>5. QED
  BY <1>2, <1>3, <1>4 DEF Init, TypeOK, Modes

\* Every step keeps the types.
LEMMA TypedStep == TypeOK /\ [Next]_vars => TypeOK'
<1> SUFFICES ASSUME TypeOK, [Next]_vars PROVE TypeOK'
  OBVIOUS
<1>a. inherited \in BOOLEAN /\ TTL \in 0..TTL /\ 0 \in 0..TTL /\ 0 \in 0..Never /\ Never \in 0..Never
  BY Times DEF TypeOK
<1>1. CASE Flush
  BY <1>1, PickTyped DEF Flush, TypeOK, kernel, setup, Worker
<1>2. CASE Refresh
  <2>1. PICK ips \in SUBSET Entry :
          /\ Cached(key, ips)
          /\ \/ UNCHANGED <<seen, wpc, batch>>
             \/ Pick(Ticker, ips)
    BY <1>2 DEF Refresh, worker
  <2>2. /\ seen' \in [Entry -> 0..Never]
        /\ wpc' \in [Worker -> {"idle", "add", "remember"}]
        /\ batch' \in [Worker -> SUBSET Entry]
    BY <2>1, PickTyped DEF TypeOK, Worker
  <2>3. cache' \in [key : Key \cup {NoKey}, ips : SUBSET Entry]
    BY <2>1, CachedTyped DEF TypeOK
  <2>4. UNCHANGED <<table, left, key, pending, spc, sips, skey, smode, replaced, inherited, budget>>
    BY <1>2 DEF Refresh, kernel, setup
  <2>5. QED
    BY <2>2, <2>3, <2>4 DEF TypeOK
<1>3. ASSUME NEW w \in Worker, Add(w) PROVE TypeOK'
  <2>1. left' \in [Entry -> 0..TTL]
    BY <1>3, <1>a DEF Add, TypeOK
  <2>2. QED
    BY <1>3, <2>1 DEF Add, TypeOK, setup
<1>4. ASSUME NEW w \in Worker, AddFails(w) PROVE TypeOK'
  BY <1>4, SpendTyped DEF AddFails, Done, TypeOK, kernel, setup
<1>5. ASSUME NEW w \in Worker, Remember(w) PROVE TypeOK'
  <2>1. seen' \in [Entry -> 0..Never]
    BY <1>5, <1>a DEF Remember, Remembered, TypeOK
  <2>2. QED
    BY <1>5, <2>1 DEF Remember, Done, TypeOK, kernel, setup
<1>6. CASE Drop \/ Teardown
  <2>1. /\ table' = "none" /\ left' = [e \in Entry |-> 0] /\ inherited' = FALSE
        /\ replaced' \subseteq Entry
    BY <1>6 DEF Drop, Teardown, DropTable, NewTable, TypeOK
  <2>2. CASE Drop
    BY <2>1, <2>2, <1>a DEF Drop, TypeOK, worker
  <2>3. CASE Teardown
    BY <2>1, <2>3, <1>a, SpendTyped DEF Teardown, TypeOK, worker, setup
  <2>4. QED
    BY <1>6, <2>2, <2>3
<1>7. CASE Load
  <2>1. left' \in [Entry -> 0..TTL]
    BY <1>7, <1>a DEF Load, NewTable
  <2>2. QED
    BY <1>7, <2>1 DEF Load, NewTable, TypeOK, worker
<1>8. CASE LoadFails
  BY <1>8, SpendTyped DEF LoadFails, TypeOK, kernel, worker
<1>9. CASE RememberLoaded
  <2>1. seen' \in [Entry -> 0..Never]
    BY <1>9, <1>a DEF RememberLoaded, Remembered, TypeOK
  <2>2. QED
    BY <1>9, <2>1 DEF RememberLoaded, TypeOK, kernel, worker
<1>10. ASSUME NEW mode \in Modes, NEW k \in Key, Resolve(mode, k) PROVE TypeOK'
  <2>1. /\ sips' \in SUBSET Entry
        /\ cache' \in [key : Key \cup {NoKey}, ips : SUBSET Entry]
    BY <1>10, CachedTyped DEF Resolve, TypeOK
  <2>2. budget' \in [{"setup", "fault", "crash"} -> Nat]
    BY <1>10, SpendTyped DEF Resolve
  <2>3. /\ UNCHANGED <<table, left, seen, key, pending, wpc, batch, replaced, inherited>>
        /\ spc' = "drop" /\ skey' = k /\ smode' = mode
    BY <1>10 DEF Resolve, kernel, worker
  <2>4. QED
    BY <2>1, <2>2, <2>3 DEF TypeOK
<1>11. CASE (\E e \in Entry : Answer(e)) \/ SaveSettings \/ UNCHANGED vars
  <2>1. CASE SaveSettings
    BY <2>1, SpendTyped DEF SaveSettings, TypeOK, kernel, worker, setup
  <2>2. CASE \E e \in Entry : Answer(e)
    BY <2>2 DEF Answer, TypeOK, kernel, worker, setup
  <2>3. CASE UNCHANGED vars
    BY <2>3 DEF vars, TypeOK, kernel, worker, setup
  <2>4. QED
    BY <1>11, <2>1, <2>2, <2>3
<1>12. CASE Tick
  <2>1. \A e \in Entry : left[e] \in 0..TTL /\ seen[e] \in 0..Never
    BY DEF TypeOK
  <2>2. \A e \in Entry : (IF left[e] > 0 THEN left[e] - 1 ELSE 0) \in 0..TTL
    BY <2>1, Times
  <2>3. \A e \in Entry : (IF seen[e] <= Purge THEN seen[e] + 1 ELSE seen[e]) \in 0..Never
    BY <2>1, Times
  <2>4. left' \in [Entry -> 0..TTL] /\ seen' \in [Entry -> 0..Never]
    BY <1>12, <2>2, <2>3 DEF Tick
  <2>5. QED
    BY <1>12, <2>4 DEF Tick, TypeOK, worker, setup
<1>13. CASE Respawn
  <2>1. seen' \in [Entry -> 0..Never] /\ inherited' \in BOOLEAN
    BY <1>13, <1>a DEF Respawn
  <2>2. budget' \in [{"setup", "fault", "crash"} -> Nat]
    BY <1>13, SpendTyped DEF Respawn
  <2>3. QED
    BY <1>13, <2>1, <2>2 DEF Respawn, TypeOK, kernel, Modes
<1>14. QED
  BY <1>1, <1>2, <1>3, <1>4, <1>5, <1>6, <1>7, <1>8, <1>9, <1>10, <1>11, <1>12, <1>13
     DEF Next, Work, Setup

-----------------------------------------------------------------------------
(* what a table is loaded with *)

\* What cachedRoutingIPs returns was resolved for the key it is asked for.
LEMMA CachedResolved ==
  ASSUME TypeOK, Resolved, NEW k \in Key, NEW ips \in SUBSET Entry, Cached(k, ips)
  PROVE  ips \subseteq Names[k] /\ (cache'.key # NoKey => cache'.ips \subseteq Names[cache'.key])
<1>1. CASE cache.key = k /\ ips = cache.ips /\ UNCHANGED cache
  BY <1>1, DynamicRoutesAssumption DEF Resolved
<1>2. CASE ips \subseteq Names[k] /\ cache' = [key |-> k, ips |-> ips]
  BY <1>2
<1>3. QED
  BY <1>1, <1>2 DEF Cached

\* Every step keeps what is loaded resolved for its lists.
LEMMA ResolvedStep == TypeOK /\ Resolved /\ [Next]_vars => Resolved'
<1> SUFFICES ASSUME TypeOK, Resolved, [Next]_vars PROVE Resolved'
  OBVIOUS
<1>1. CASE UNCHANGED <<cache, spc, sips, skey>>
  BY <1>1 DEF Resolved, LoadedForItsLists
<1>2. CASE Refresh
  <2>1. PICK ips \in SUBSET Entry : Cached(key, ips)
    BY <1>2 DEF Refresh
  <2>2. UNCHANGED <<spc, sips, skey>>
    BY <1>2 DEF Refresh, setup
  <2>3. QED
    BY <2>1, <2>2, CachedResolved DEF Resolved, LoadedForItsLists, TypeOK
<1>3. ASSUME NEW mode \in Modes, NEW k \in Key, Resolve(mode, k) PROVE Resolved'
  <2>1. CASE mode = "global"
    BY <1>3, <2>1 DEF Resolve, Resolved, LoadedForItsLists
  <2>2. CASE mode # "global"
    <3>1. PICK ips \in SUBSET Entry : Cached(k, ips) /\ sips' = ips /\ skey' = k
      BY <1>3, <2>2 DEF Resolve
    <3>2. QED
      BY <3>1, CachedResolved DEF Resolved, LoadedForItsLists
  <2>3. QED
    BY <2>1, <2>2
<1>4. CASE Drop \/ Load
  BY <1>4 DEF Drop, Load, Resolved, LoadedForItsLists
<1>5. CASE LoadFails \/ RememberLoaded
  BY <1>5 DEF LoadFails, RememberLoaded, Resolved, LoadedForItsLists
<1>6. CASE Respawn
  BY <1>6 DEF Respawn, Resolved, LoadedForItsLists
<1>7. CASE \/ Flush \/ Teardown \/ SaveSettings \/ Tick
           \/ \E w \in Worker : Add(w) \/ AddFails(w) \/ Remember(w)
           \/ \E e \in Entry : Answer(e)
  BY <1>1, <1>7 DEF Flush, Teardown, SaveSettings, Tick, Add, AddFails, Remember, Answer, setup
<1>8. CASE UNCHANGED vars
  BY <1>1, <1>8 DEF vars, setup
<1>9. QED
  BY <1>2, <1>3, <1>4, <1>5, <1>6, <1>7, <1>8 DEF Next, Work, Setup

-----------------------------------------------------------------------------
(* stages *)

\* Every step keeps the stages of setupRedirect and of the workers.
LEMMA StagesStep == TypeOK /\ Stages /\ [Next]_vars => Stages'
<1> SUFFICES ASSUME TypeOK, Stages, [Next]_vars PROVE Stages'
  OBVIOUS
<1> DEFINE Idle == \A w \in Worker : wpc[w] = "idle" => batch[w] = {}
<1>1. ASSUME UNCHANGED <<wpc, batch>> PROVE Idle'
  BY <1>1 DEF Stages
<1>2. ASSUME NEW w \in Worker, NEW wanted \in SUBSET Entry, Pick(w, wanted) PROVE Idle'
  <2>1. /\ batch'[w] = {e \in wanted : Due(e)}
        /\ wpc'[w] = IF \E e \in wanted : Due(e) THEN "add" ELSE "idle"
        /\ \A v \in Worker \ {w} : wpc'[v] = wpc[v] /\ batch'[v] = batch[v]
    BY <1>2 DEF Pick, TypeOK
  <2>2. wpc'[w] = "idle" => batch'[w] = {}
    BY <2>1
  <2>3. QED
    BY <2>1, <2>2 DEF Stages
<1>3. ASSUME NEW w \in Worker, Done(w) \/ (UNCHANGED batch /\ wpc' = [wpc EXCEPT ![w] = "remember"])
      PROVE  Idle'
  BY <1>3 DEF Done, Stages, TypeOK
<1>4. CASE Flush \/ Refresh
  <2>1. UNCHANGED <<table, spc, sips, smode>>
    BY <1>4 DEF Flush, Refresh, kernel, setup
  <2>2. Idle'
    <3>1. CASE Flush
      BY <3>1, <1>2 DEF Flush, TypeOK, Worker
    <3>2. CASE Refresh
      BY <3>2, <1>1, <1>2 DEF Refresh, worker, Worker
    <3>3. QED
      BY <1>4, <3>1, <3>2
  <2>3. QED
    BY <2>1, <2>2 DEF Stages
<1>5. ASSUME NEW w \in Worker, Work(w) PROVE Stages'
  <2>1. UNCHANGED <<table, spc, sips, smode>>
    BY <1>5 DEF Work, Add, AddFails, Remember, kernel, setup
  <2>2. Idle'
    BY <1>5, <1>3 DEF Work, Add, AddFails, Remember
  <2>3. QED
    BY <2>1, <2>2 DEF Stages
<1>6. CASE Setup
  <2>1. Idle'
    BY <1>6, <1>1 DEF Setup, Drop, Load, LoadFails, RememberLoaded, worker
  <2>2. CASE Drop
    BY <2>1, <2>2 DEF Drop, DropTable, NewTable, Stages
  <2>3. CASE Load
    BY <2>1, <2>3 DEF Load, NewTable, Stages
  <2>4. CASE LoadFails \/ RememberLoaded
    BY <2>1, <2>4 DEF LoadFails, RememberLoaded, Stages
  <2>5. QED
    BY <1>6, <2>2, <2>3, <2>4 DEF Setup
<1>7. ASSUME NEW mode \in Modes, NEW k \in Key, Resolve(mode, k) PROVE Stages'
  <2>1. Idle'
    BY <1>7, <1>1 DEF Resolve, worker
  <2>2. QED
    BY <1>7, <2>1 DEF Resolve, Stages
<1>8. CASE Teardown
  BY <1>8, <1>1 DEF Teardown, worker, setup, Stages
<1>9. CASE (\E e \in Entry : Answer(e)) \/ SaveSettings \/ Tick \/ UNCHANGED vars
  <2>1. UNCHANGED <<table, spc, sips, smode, wpc, batch>>
    BY <1>9 DEF Answer, SaveSettings, Tick, vars, kernel, worker, setup
  <2>2. QED
    BY <2>1 DEF Stages
<1>10. CASE Respawn
  BY <1>10 DEF Respawn, Stages
<1>11. QED
  BY <1>4, <1>5, <1>6, <1>7, <1>8, <1>9, <1>10 DEF Next

-----------------------------------------------------------------------------
(* the account of an entry *)

\* The account reads only these, and spc only to see whether it is "remember".
LEMMA TimedStays ==
  ASSUME Timed, UNCHANGED <<table, left, seen, wpc, batch, replaced, inherited>>,
         \/ UNCHANGED <<spc, sips>>
         \/ spc # "remember" /\ spc' # "remember"
  PROVE  Timed'
<1>1. \A e \in Entry : AboutToRemember(e)' <=> AboutToRemember(e)
  BY DEF AboutToRemember
<1>2. \A e \in Entry : Taken(e)' <=> Taken(e)
  BY <1>1 DEF Taken
<1>3. Whole' /\ Accounted' /\ Kept' /\ Gone'
  BY <1>1, <1>2 DEF Timed, Whole, Accounted, Kept, Gone
<1>4. Fresh'
  BY <1>1 DEF Timed, Fresh
<1>5. QED
  BY <1>3, <1>4 DEF Timed

\* Picking what is due: it has left its set, or somebody has just put it there.
LEMMA PickTimed ==
  ASSUME TypeOK, Timed, NEW w \in Worker, NEW wanted \in SUBSET Entry, Pick(w, wanted),
         UNCHANGED <<table, left, spc, sips, replaced, inherited>>
  PROVE  Timed'
<1>1. /\ wpc[w] = "idle" /\ wpc'[w] # "remember"
      /\ batch'[w] = {e \in wanted : Due(e)}
      /\ \A v \in Worker \ {w} : wpc'[v] = wpc[v] /\ batch'[v] = batch[v]
  BY DEF Pick, TypeOK
<1>2. /\ \A e \in Entry : seen'[e] = IF seen[e] > Purge THEN Never ELSE seen[e]
      /\ \A e \in Entry : left[e] \in 0..TTL /\ seen[e] \in 0..Never
  BY DEF Pick, TypeOK
<1>3. \A e \in Entry : AboutToRemember(e)' <=> AboutToRemember(e)
  BY <1>1 DEF AboutToRemember
<1>4. \A e \in Entry : Due(e) => seen[e] > TTL
  BY <1>2, Times DEF Due
<1>5. Whole'
  <2> SUFFICES ASSUME ~inherited, NEW e \in Entry, Taken(e)' PROVE left[e] \in {0, TTL}
    BY DEF Whole
  <2>1. CASE Taken(e)
    BY <2>1 DEF Timed, Whole
  <2>2. CASE ~Taken(e)
    <3>1. Due(e)
      BY <2>2, <1>1, <1>3 DEF Taken
    <3>2. ~AboutToRemember(e)
      BY <2>2 DEF Taken
    <3>3. left[e] = 0
      BY <3>1, <3>2, <1>2, <1>4, Times DEF Timed, Accounted
    <3>4. QED
      BY <3>3
  <2>3. QED
    BY <2>1, <2>2
<1>6. Fresh'
  BY <1>3 DEF Timed, Fresh
<1>7. Accounted'
  <2> SUFFICES ASSUME ~inherited, NEW e \in Entry, left[e] # 0, ~AboutToRemember(e)
               PROVE  left[e] + seen'[e] <= TTL
    BY <1>3 DEF Accounted
  <2>1. left[e] + seen[e] <= TTL
    BY DEF Timed, Accounted
  <2>2. seen'[e] = seen[e]
    BY <2>1, <1>2, Times
  <2>3. QED
    BY <2>1, <2>2
<1>8. \A e \in Entry : seen'[e] >= seen[e] /\ seen'[e] \in Nat
  BY <1>2, Times
<1>9. Kept'
  <2> SUFFICES ASSUME ~inherited, table = "smart", NEW e \in Entry \ replaced
               PROVE  left[e] + seen'[e] >= TTL
    BY DEF Kept
  <2>1. left[e] + seen[e] >= TTL
    BY DEF Timed, Kept
  <2>2. QED
    BY <2>1, <1>2, <1>8, Times
<1>10. Gone'
  <2>1. ASSUME ~inherited, table # "smart", NEW e \in Entry \ replaced PROVE seen'[e] >= TTL
    <3>1. seen[e] >= TTL
      BY <2>1 DEF Timed, Gone
    <3>2. QED
      BY <3>1, <1>2, <1>8, Times
  <2>2. \A v \in Worker : wpc'[v] = "remember" => batch'[v] = batch[v] /\ wpc[v] = "remember"
    BY <1>1
  <2>3. QED
    BY <2>1, <2>2 DEF Timed, Gone
<1>11. QED
  BY <1>5, <1>6, <1>7, <1>9, <1>10 DEF Timed

\* nft puts what was picked into the table, with a new timeout.
LEMMA AddTimed ==
  ASSUME TypeOK, Timed, NEW w \in Worker, Add(w)
  PROVE  Timed'
<1>1. /\ wpc'[w] = "remember" /\ wpc[w] = "add" /\ table = "smart"
      /\ \A v \in Worker \ {w} : wpc'[v] = wpc[v]
      /\ replaced' = replaced \ batch[w]
      /\ UNCHANGED <<table, seen, batch, spc, sips, inherited>>
  BY DEF Add, TypeOK, setup
<1>2. /\ \A e \in Entry : left'[e] = IF e \in batch[w] /\ left[e] = 0 THEN TTL ELSE left[e]
      /\ \A e \in Entry : left[e] \in 0..TTL /\ seen[e] \in 0..Never
  BY DEF Add, TypeOK
<1>3. \A e \in Entry : AboutToRemember(e)' <=> AboutToRemember(e) \/ e \in batch[w]
  BY <1>1 DEF AboutToRemember
<1>4. \A e \in Entry : Taken(e)' <=> Taken(e)
  BY <1>1, <1>3 DEF Taken
<1>5. ~inherited => \A e \in Entry : e \in batch[w] => left'[e] = TTL
  BY <1>2 DEF Timed, Whole, Taken
<1>6. Whole'
  BY <1>1, <1>2, <1>4 DEF Timed, Whole
<1>7. Fresh'
  <2>1. ASSUME ~inherited, NEW e \in Entry \ replaced', AboutToRemember(e)'
        PROVE  left'[e] = TTL
    <3>1. CASE e \in batch[w]
      BY <2>1, <3>1, <1>5
    <3>2. CASE e \notin batch[w]
      <4>1. e \notin replaced /\ AboutToRemember(e)
        BY <2>1, <3>2, <1>1, <1>3
      <4>2. left[e] = TTL
        BY <2>1, <4>1, <1>1 DEF Timed, Fresh
      <4>3. QED
        BY <4>2, <3>2, <1>2
    <3>3. QED
      BY <3>1, <3>2
  <2>2. spc = "remember" => \A e \in sips : left[e] = TTL
    BY DEF Timed, Fresh
  <2>3. \A e \in Entry : left[e] = TTL => left'[e] = TTL
    BY <1>2
  <2>4. sips \subseteq Entry
    BY DEF TypeOK
  <2>5. QED
    BY <2>1, <2>2, <2>3, <2>4, <1>1 DEF Fresh
<1>8. Accounted'
  BY <1>1, <1>2, <1>3 DEF Timed, Accounted
<1>9. Kept'
  <2> SUFFICES ASSUME ~inherited, NEW e \in Entry \ replaced' PROVE left'[e] + seen[e] >= TTL
    BY <1>1 DEF Kept
  <2>1. CASE e \in batch[w]
    BY <2>1, <1>2, <1>5, Times
  <2>2. CASE e \notin batch[w]
    <3>1. e \notin replaced /\ left'[e] = left[e]
      BY <2>2, <1>1, <1>2
    <3>2. QED
      BY <3>1, <1>1 DEF Timed, Kept
  <2>3. QED
    BY <2>1, <2>2
<1>10. Gone'
  BY <1>1 DEF Gone
<1>11. QED
  BY <1>6, <1>7, <1>8, <1>9, <1>10 DEF Timed

\* A worker whose command failed forgets what it picked.
LEMMA AddFailsTimed ==
  ASSUME TypeOK, Timed, NEW w \in Worker, AddFails(w)
  PROVE  Timed'
<1>1. /\ wpc[w] = "add" /\ wpc'[w] = "idle" /\ batch'[w] = {}
      /\ \A v \in Worker \ {w} : wpc'[v] = wpc[v] /\ batch'[v] = batch[v]
      /\ UNCHANGED <<table, left, seen, spc, sips, replaced, inherited>>
  BY DEF AddFails, Done, TypeOK, kernel, setup
<1>2. \A e \in Entry : AboutToRemember(e)' <=> AboutToRemember(e)
  BY <1>1 DEF AboutToRemember
<1>3. \A e \in Entry : Taken(e)' => Taken(e)
  BY <1>1, <1>2 DEF Taken
<1>4. \A v \in Worker : wpc'[v] = "remember" => batch'[v] = batch[v] /\ wpc[v] = "remember"
  BY <1>1
<1>5. Whole'
  BY <1>1, <1>3 DEF Timed, Whole
<1>6. Fresh' /\ Accounted' /\ Kept'
  BY <1>1, <1>2 DEF Timed, Fresh, Accounted, Kept
<1>7. Gone'
  BY <1>1, <1>4 DEF Timed, Gone
<1>8. QED
  BY <1>5, <1>6, <1>7 DEF Timed

\* What was put into the table is noted: its whole timeout is still to come.
LEMMA RememberTimed ==
  ASSUME TypeOK, Timed, NEW noted \in SUBSET Entry, Remembered(noted),
         UNCHANGED <<table, left, replaced, inherited>>,
         \A e \in noted : AboutToRemember(e),
         \A e \in Entry : AboutToRemember(e)' => AboutToRemember(e),
         \A e \in Entry \ noted : AboutToRemember(e) => AboutToRemember(e)',
         \A e \in Entry : Taken(e)' => Taken(e),
         \A v \in Worker : wpc'[v] = "remember" => batch'[v] = batch[v] /\ wpc[v] = "remember",
         spc' = "remember" => spc = "remember" /\ sips' = sips,
         table # "smart" => noted \subseteq replaced
  PROVE  Timed'
<1>1. /\ \A e \in Entry : seen'[e] = IF e \in noted THEN 0 ELSE seen[e]
      /\ \A e \in Entry : left[e] \in 0..TTL /\ seen[e] \in 0..Never
  BY DEF Remembered, TypeOK
<1>2. Whole'
  BY DEF Timed, Whole
<1>3. Fresh'
  BY DEF Timed, Fresh
<1>4. Accounted'
  <2> SUFFICES ASSUME ~inherited, NEW e \in Entry, left[e] # 0, ~AboutToRemember(e)'
               PROVE  left[e] + seen'[e] <= TTL
    BY DEF Accounted
  <2>1. CASE e \in noted
    BY <2>1, <1>1, Times
  <2>2. CASE e \notin noted
    BY <2>2, <1>1 DEF Timed, Accounted
  <2>3. QED
    BY <2>1, <2>2
<1>5. Kept'
  <2> SUFFICES ASSUME ~inherited, table = "smart", NEW e \in Entry \ replaced
               PROVE  left[e] + seen'[e] >= TTL
    BY DEF Kept
  <2>1. CASE e \in noted
    <3>1. left[e] = TTL
      BY <2>1 DEF Timed, Fresh
    <3>2. QED
      BY <2>1, <3>1, <1>1, Times
  <2>2. CASE e \notin noted
    BY <2>2, <1>1 DEF Timed, Kept
  <2>3. QED
    BY <2>1, <2>2
<1>6. Gone'
  <2>1. ASSUME table # "smart", ~inherited, NEW e \in Entry \ replaced PROVE seen'[e] >= TTL
    <3>1. e \notin noted /\ seen[e] >= TTL
      BY <2>1 DEF Timed, Gone
    <3>2. QED
      BY <3>1, <1>1
  <2>2. QED
    BY <2>1 DEF Timed, Gone
<1>7. QED
  BY <1>2, <1>3, <1>4, <1>5, <1>6 DEF Timed

\* A worker notes its batch.
LEMMA WorkerRemembers ==
  ASSUME TypeOK, Timed, NEW w \in Worker, Remember(w)
  PROVE  Timed'
<1>1. /\ wpc[w] = "remember" /\ wpc'[w] = "idle" /\ batch'[w] = {}
      /\ \A v \in Worker \ {w} : wpc'[v] = wpc[v] /\ batch'[v] = batch[v]
      /\ Remembered(batch[w])
      /\ UNCHANGED <<table, left, spc, sips, replaced, inherited>>
  BY DEF Remember, Done, TypeOK, kernel, setup
<1>2. batch[w] \in SUBSET Entry
  BY DEF TypeOK
<1>3. /\ \A e \in batch[w] : AboutToRemember(e)
      /\ \A e \in Entry : AboutToRemember(e)' => AboutToRemember(e)
      /\ \A e \in Entry \ batch[w] : AboutToRemember(e) => AboutToRemember(e)'
  BY <1>1 DEF AboutToRemember
<1>4. \A e \in Entry : Taken(e)' => Taken(e)
  BY <1>1, <1>3 DEF Taken
<1>5. \A v \in Worker : wpc'[v] = "remember" => batch'[v] = batch[v] /\ wpc[v] = "remember"
  BY <1>1
<1>6. table # "smart" => batch[w] \subseteq replaced
  BY <1>1 DEF Timed, Gone
<1>7. spc' = "remember" => spc = "remember" /\ sips' = sips
  BY <1>1
<1>8. UNCHANGED <<table, left, replaced, inherited>> /\ Remembered(batch[w])
  BY <1>1
<1>9. QED
  BY <1>2, <1>3, <1>4, <1>5, <1>6, <1>7, <1>8, RememberTimed

\* setupRedirect notes what it loaded.
LEMMA SetupRemembers ==
  ASSUME TypeOK, Stages, Timed, RememberLoaded
  PROVE  Timed'
<1>1. /\ spc = "remember" /\ spc' = "idle" /\ sips' = {} /\ Remembered(sips)
      /\ UNCHANGED <<table, left, wpc, batch, replaced, inherited>>
  BY DEF RememberLoaded, kernel, worker
<1>2. sips \in SUBSET Entry
  BY DEF TypeOK
<1>3. /\ \A e \in sips : AboutToRemember(e)
      /\ \A e \in Entry : AboutToRemember(e)' => AboutToRemember(e)
      /\ \A e \in Entry \ sips : AboutToRemember(e) => AboutToRemember(e)'
  BY <1>1 DEF AboutToRemember
<1>4. \A e \in Entry : Taken(e)' => Taken(e)
  BY <1>1, <1>3 DEF Taken
<1>5. table # "smart" => sips \subseteq replaced
  BY <1>1 DEF Stages, TypeOK, Modes
<1>6. \A v \in Worker : wpc'[v] = "remember" => batch'[v] = batch[v] /\ wpc[v] = "remember"
  BY <1>1
<1>7. spc' = "remember" => spc = "remember" /\ sips' = sips
  BY <1>1
<1>8. UNCHANGED <<table, left, replaced, inherited>> /\ Remembered(sips)
  BY <1>1
<1>9. QED
  BY <1>2, <1>3, <1>4, <1>5, <1>6, <1>7, <1>8, RememberTimed

\* A table that goes takes all entries along: everything noted of it is replaced.
LEMMA DropTimed ==
  ASSUME TypeOK, Stages, DropTable, UNCHANGED <<seen, wpc, batch>>, spc' # "remember"
  PROVE  Timed'
<1>1. /\ table' = "none" /\ \A e \in Entry : left'[e] = 0
      /\ \A e \in Entry \ replaced' : seen[e] = Never /\ \A w \in Worker : e \notin batch[w]
  BY DEF DropTable, NewTable
<1>2. Whole' /\ Fresh' /\ Accounted' /\ Kept'
  BY <1>1 DEF Whole, Fresh, Accounted, Kept
<1>3. \A w \in Worker : batch[w] \subseteq replaced'
  BY <1>1 DEF TypeOK
<1>4. Gone'
  BY <1>1, <1>3, Times DEF Gone
<1>5. QED
  BY <1>2, <1>4 DEF Timed

\* A new table holds what it was loaded with, and nothing else.
LEMMA LoadTimed ==
  ASSUME TypeOK, Stages, Timed, Load
  PROVE  Timed'
<1>1. /\ spc = "load" /\ spc' = "remember" /\ table = "none" /\ table' = smode
      /\ \A e \in Entry : left'[e] = IF e \in sips THEN TTL ELSE 0
      /\ replaced' = replaced \ sips
      /\ UNCHANGED <<seen, wpc, batch, sips, smode, inherited>>
      /\ sips \subseteq Entry
  BY DEF Load, NewTable, worker, Stages, TypeOK
<1>2. /\ ~inherited => \A e \in Entry \ replaced : seen[e] >= TTL
      /\ \A w \in Worker : wpc[w] = "remember" => batch[w] \subseteq replaced
  BY <1>1 DEF Timed, Gone
<1>3. Whole'
  BY <1>1 DEF Whole
<1>4. Fresh'
  <2>1. ASSUME NEW e \in Entry \ replaced', AboutToRemember(e)' PROVE e \in sips
    BY <2>1, <1>1, <1>2 DEF AboutToRemember
  <2>2. QED
    BY <2>1, <1>1 DEF Fresh
<1>5. Accounted'
  BY <1>1 DEF Accounted, AboutToRemember
<1>6. \A e \in Entry : seen[e] \in Nat
  BY Times DEF TypeOK
<1>7. Kept'
  BY <1>1, <1>2, <1>6, Times DEF Kept
<1>8. Gone'
  <2>1. CASE smode = "smart"
    BY <2>1, <1>1 DEF Gone
  <2>2. CASE smode # "smart"
    <3>1. replaced' = replaced
      BY <2>2, <1>1 DEF Stages, TypeOK, Modes
    <3>2. QED
      BY <3>1, <1>1, <1>2 DEF Gone
  <2>3. QED
    BY <2>1, <2>2
<1>9. QED
  BY <1>3, <1>4, <1>5, <1>7, <1>8 DEF Timed

\* Time passes only when nobody is in between.
LEMMA TickTimed ==
  ASSUME TypeOK, Stages, Timed, Tick
  PROVE  Timed'
<1>1. /\ \A e \in Entry : left'[e] = IF left[e] > 0 THEN left[e] - 1 ELSE 0
      /\ \A e \in Entry : seen'[e] = IF seen[e] <= Purge THEN seen[e] + 1 ELSE seen[e]
      /\ \A e \in Entry : left[e] \in 0..TTL /\ seen[e] \in 0..Never
      /\ UNCHANGED <<table, spc, sips, wpc, batch, replaced, inherited>>
  BY DEF Tick, TypeOK, worker, setup
<1>2. spc = "idle" /\ sips = {} /\ \A w \in Worker : wpc[w] = "idle" /\ batch[w] = {}
  BY DEF Tick, Stages
<1>3. \A e \in Entry : ~Taken(e) /\ ~Taken(e)' /\ ~AboutToRemember(e) /\ ~AboutToRemember(e)'
  BY <1>1, <1>2 DEF Taken, AboutToRemember
<1>4. Whole' /\ Fresh'
  BY <1>1, <1>2, <1>3 DEF Whole, Fresh
<1>5. Accounted'
  <2> SUFFICES ASSUME ~inherited, NEW e \in Entry, left'[e] # 0
               PROVE  left'[e] + seen'[e] <= TTL
    BY <1>1 DEF Accounted
  <2>1. left[e] # 0
    BY <1>1
  <2>2. left[e] + seen[e] <= TTL
    BY <2>1, <1>3 DEF Timed, Accounted
  <2>3. QED
    BY <2>1, <2>2, <1>1, Times
<1>6. Kept'
  <2> SUFFICES ASSUME ~inherited, table = "smart", NEW e \in Entry \ replaced
               PROVE  left'[e] + seen'[e] >= TTL
    BY <1>1 DEF Kept
  <2>1. left[e] + seen[e] >= TTL
    BY DEF Timed, Kept
  <2>2. QED
    BY <2>1, <1>1, Times
<1>7. Gone'
  <2>1. ASSUME table # "smart", ~inherited, NEW e \in Entry \ replaced PROVE seen'[e] >= TTL
    <3>1. seen[e] >= TTL
      BY <2>1 DEF Timed, Gone
    <3>2. QED
      BY <3>1, <1>1, Times
  <2>2. QED
    BY <2>1, <1>1, <1>2 DEF Gone
<1>8. QED
  BY <1>4, <1>5, <1>6, <1>7 DEF Timed

\* Every step keeps the account.
LEMMA TimedStep == TypeOK /\ Stages /\ Timed /\ [Next]_vars => Timed'
<1> SUFFICES ASSUME TypeOK, Stages, Timed, [Next]_vars PROVE Timed'
  OBVIOUS
<1>1. CASE Flush
  BY <1>1, PickTimed DEF Flush, Worker, TypeOK, kernel, setup
<1>2. CASE Refresh
  <2>1. UNCHANGED <<table, left, spc, sips, replaced, inherited>>
    BY <1>2 DEF Refresh, kernel, setup
  <2>2. CASE UNCHANGED <<seen, worker>>
    BY <2>1, <2>2, TimedStays DEF worker
  <2>3. CASE \E ips \in SUBSET Entry : Pick(Ticker, ips)
    BY <2>1, <2>3, PickTimed DEF Worker
  <2>4. QED
    BY <1>2, <2>2, <2>3 DEF Refresh
<1>3. ASSUME NEW w \in Worker, Work(w) PROVE Timed'
  BY <1>3, AddTimed, AddFailsTimed, WorkerRemembers DEF Work
<1>4. CASE Drop \/ Teardown
  <2>1. DropTable /\ UNCHANGED <<seen, wpc, batch>> /\ spc' # "remember"
    BY <1>4 DEF Drop, Teardown, worker, setup
  <2>2. QED
    BY <2>1, DropTimed
<1>5. CASE LoadFails \/ \E mode \in Modes, k \in Key : Resolve(mode, k)
  <2>1. /\ UNCHANGED <<table, left, seen, wpc, batch, replaced, inherited>>
        /\ spc # "remember" /\ spc' # "remember"
    BY <1>5 DEF LoadFails, Resolve, kernel, worker
  <2>2. QED
    BY <2>1, TimedStays
<1>6. CASE (\E e \in Entry : Answer(e)) \/ SaveSettings \/ UNCHANGED vars
  <2>1. UNCHANGED <<table, left, seen, wpc, batch, replaced, inherited, spc, sips>>
    BY <1>6 DEF Answer, SaveSettings, vars, kernel, worker, setup
  <2>2. QED
    BY <2>1, TimedStays
<1>7. CASE Respawn
  <2>1. /\ inherited' /\ spc' = "idle"
        /\ \A w \in Worker : wpc'[w] = "idle" /\ batch'[w] = {}
    BY <1>7 DEF Respawn
  <2>2. QED
    BY <2>1 DEF Timed, Whole, Fresh, Accounted, Kept, Gone
<1>8. QED
  BY <1>1, <1>2, <1>3, <1>4, <1>5, <1>6, <1>7, LoadTimed, SetupRemembers, TickTimed
     DEF Next, Setup

-----------------------------------------------------------------------------
\* The conjunction of all of it is an inductive invariant.
THEOREM Inductive == Spec => []DInv
<1>1. Init => DInv
  <2> SUFFICES ASSUME Init PROVE DInv
    OBVIOUS
  <2>1. Resolved
    BY DEF Init, Resolved, LoadedForItsLists
  <2>2. Stages
    BY DEF Init, Stages
  <2>3. \A e \in Entry : seen[e] = Never /\ left[e] = 0
    BY DEF Init
  <2>4. Whole /\ Fresh /\ Accounted /\ Kept
    BY <2>3 DEF Init, Whole, Fresh, Accounted, Kept
  <2>5. Gone
    BY <2>3, Times DEF Init, Gone
  <2>6. QED
    BY <2>1, <2>2, <2>4, <2>5, TypedInit DEF DInv, Timed
<1>2. DInv /\ [Next]_vars => DInv'
  BY TypedStep, ResolvedStep, StagesStep, TimedStep DEF DInv
<1>3. QED
  BY <1>1, <1>2, PTL DEF Spec

(***************************************************************************)
(* Type correctness of the kernel's sets and of the daemon's bookkeeping:  *)
(* no time runs below zero or past the two hours of a purge.               *)
(***************************************************************************)
THEOREM TypeCorrect == Spec => []TypeOK
<1>1. DInv => TypeOK
  BY DEF DInv
<1>2. QED
  BY Inductive, <1>1, PTL

(***************************************************************************)
(* What addDynamicElements skips is in the table of the kernel: whatever   *)
(* the order of the observer, the ticker, setupRedirect and the clock, and *)
(* for any timeout, except of a table that has been replaced since.        *)
(***************************************************************************)
THEOREM RememberedEntriesAreThere == Spec => []RememberedIsThere
<1>1. DInv => RememberedIsThere
  <2> SUFFICES ASSUME DInv, NEW e \in Entry \ replaced, table = "smart", ~inherited, seen[e] < TTL
               PROVE  left[e] > 0
    BY DEF RememberedIsThere
  <2>1. left[e] \in 0..TTL /\ seen[e] \in 0..Never
    BY DEF DInv, TypeOK
  <2>2. left[e] + seen[e] >= TTL
    BY DEF DInv, Timed, Kept
  <2>3. QED
    BY <2>1, <2>2, Times
<1>2. QED
  BY Inductive, <1>1, PTL

(***************************************************************************)
(* No add is in vain: what is due has left its set, for any recheck that   *)
(* is no shorter than the timeout, unless somebody has just put it there.  *)
(***************************************************************************)
THEOREM DueEntriesHaveExpired == Spec => []DueHasExpired
<1>1. DInv => DueHasExpired
  <2> SUFFICES ASSUME DInv, NEW e \in Entry, Due(e), left[e] > 0, ~inherited
               PROVE  AboutToRemember(e)
    BY DEF DueHasExpired, AboutToRemember
  <2>1. left[e] \in 0..TTL /\ seen[e] \in 0..Never
    BY DEF DInv, TypeOK
  <2>2. seen[e] > TTL
    BY <2>1, Times DEF Due
  <2>3. left[e] # 0 /\ ~(left[e] + seen[e] <= TTL)
    BY <2>1, <2>2, Times
  <2>4. QED
    BY <2>3 DEF DInv, Timed, Accounted
<1>2. QED
  BY Inductive, <1>1, PTL

(***************************************************************************)
(* A new table is loaded with addresses resolved for the lists it is built *)
(* for: the key of routingIPCache is compared before its addresses are     *)
(* used, whichever goroutine filled it.                                    *)
(***************************************************************************)
THEOREM LoadedAddressesAreResolved == Spec => []LoadedForItsLists
<1>1. DInv => LoadedForItsLists
  BY DEF DInv, Resolved
<1>2. QED
  BY Inductive, <1>1, PTL

-----------------------------------------------------------------------------
(* packets *)

\* The values that the chains look at.
PacketTyped ==
  /\ smart \in BOOLEAN /\ packet.lan \in BOOLEAN
  /\ packet.proto \in {"tcp", "udp", "icmp"}
  /\ smart \/ packet.to \subseteq {"private", "proxy"}
  /\ at \in {"prerouting_udp", "dns_capture", "prerouting", "service_up", "deliver",
             "smart_leak_guard", "force_china_tcp", "done"}

\* What the chains of prerouting have done of what is promised.
Steered ==
  /\ at = "prerouting_udp" => tproxied = 0
  /\ at # "prerouting_udp" =>
       /\ tproxied # 0 <=> Proxied /\ packet.proto = "udp"
       /\ tproxied # 0 => tproxied \in 1..Sessions
  /\ at \in {"prerouting_udp", "dns_capture"} => nat.to = "none"
  /\ at = "prerouting" => nat.to = IF Dns THEN "resolver" ELSE "none"
  /\ at \in {"service_up", "deliver", "smart_leak_guard", "force_china_tcp", "done"} =>
       /\ nat.to = IF Dns THEN "resolver"
                   ELSE IF Proxied /\ packet.proto = "tcp" THEN "engine" ELSE "none"
       /\ nat.to = "engine" => nat.slot \in 1..Sessions

\* A packet is delivered here, or goes on, as prerouting left it.
Ways ==
  /\ at \in {"service_up", "deliver"} => tproxied # 0 \/ nat.to # "none"
  /\ at \in {"smart_leak_guard", "force_china_tcp"} => tproxied = 0 /\ nat.to = "none"

\* A counter is passed once, on the way to a socket, and only in smart mode.
Counters ==
  /\ at \notin {"deliver", "done"} => counted = << >>
  /\ at = "deliver" =>
       /\ Len(counted) <= 1
       /\ Proxied => (Len(counted) = 1 <=> smart)

\* What smart_leak_guard refuses does not come to the next chain.
Guarded ==
  at = "force_china_tcp" =>
    (Refused => packet.port = 443 /\ packet.proto = "udp" /\ (To("cn") \/ To("domain")))

PacketInv == PacketTyped /\ Steered /\ Ways /\ Counters /\ Guarded /\ RoutedAsPromised

\* The rules that the redirecting chains share say who is proxied.
LEMMA ListedIsProxied ==
  ASSUME PacketTyped
  PROVE  /\ Listed("udp") <=> Proxied /\ packet.proto = "udp"
         /\ Listed("tcp") <=> Proxied /\ packet.proto = "tcp"
BY DEF PacketTyped, Listed, Proxied, Connects, To, Exempt, ChinaSets

\* The first rule that matches counts: one counter for what smart mode proxies.
LEMMA ServiceCountsOnce ==
  /\ Len(Service) <= 1
  /\ smart /\ Proxied => Len(Service) = 1
<1>1. \A s : Len(<<s>>) = 1
  OBVIOUS
<1>2. Len(<< >>) = 0
  OBVIOUS
<1>3. \/ \E s : Service = <<s>>
      \/ Service = << >> /\ ~To("honor") /\ packet.to \cap {"domain", "include", "cn"} = {}
  BY DEF Service
<1>4. smart /\ Proxied => To("honor") \/ packet.to \cap {"domain", "include", "cn"} # {}
  BY DEF Proxied, ChinaSets, To
<1>5. CASE \E s : Service = <<s>>
  BY <1>1, <1>5
<1>6. CASE Service = << >> /\ ~To("honor") /\ packet.to \cap {"domain", "include", "cn"} = {}
  BY <1>2, <1>4, <1>6
<1>7. QED
  BY <1>3, <1>5, <1>6

\* What is promised, and asked, of a packet does not change on its way.
LEMMA PacketStays ==
  ASSUME UNCHANGED <<packet, smart>>
  PROVE  /\ Proxied' <=> Proxied
         /\ Dns' <=> Dns
         /\ Refused' <=> Refused
         /\ Promised' = Promised
         /\ \A s : To(s)' <=> To(s)
BY DEF Proxied, Dns, Refused, Promised, To, Connects

\* Every chain keeps the promise.
LEMMA PacketStep == PacketInv /\ [PacketNext]_packetVars => PacketInv'
<1> SUFFICES ASSUME PacketInv, [PacketNext]_packetVars PROVE PacketInv'
  OBVIOUS
<1>a. PacketTyped /\ Steered /\ Ways /\ Counters /\ Guarded /\ RoutedAsPromised
  BY DEF PacketInv
<1>1. CASE PreroutingUdp
  <2>1. /\ at = "prerouting_udp" /\ at' = "dns_capture"
        /\ UNCHANGED <<packet, smart, nat, counted, verdict>>
        /\ Listed("udp") => tproxied' \in 1..Sessions
        /\ ~Listed("udp") => tproxied' = tproxied
    BY <1>1 DEF PreroutingUdp, Goes
  <2>2. tproxied' # 0 <=> Listed("udp")
    BY <2>1, <1>a DEF Steered
  <2>3. Steered'
    BY <2>1, <2>2, <1>a, ListedIsProxied, PacketStays DEF Steered
  <2>4. QED
    BY <2>1, <2>3, <1>a DEF PacketInv, PacketTyped, Ways, Counters, Guarded, RoutedAsPromised
<1>2. CASE DnsCapture
  <2>1. /\ at = "dns_capture" /\ at' = "prerouting"
        /\ UNCHANGED <<packet, smart, tproxied, counted, verdict>>
        /\ nat'.to = IF Dns THEN "resolver" ELSE "none"
    BY <1>2, <1>a DEF DnsCapture, Goes, Dns, Connects, Steered
  <2>2. Steered'
    BY <2>1, <1>a, PacketStays DEF Steered
  <2>3. QED
    BY <2>1, <2>2, <1>a DEF PacketInv, PacketTyped, Ways, Counters, Guarded, RoutedAsPromised
<1>3. CASE Prerouting
  <2>1. /\ at = "prerouting"
        /\ UNCHANGED <<packet, smart, tproxied, counted, verdict>>
        /\ at' = IF tproxied # 0 \/ nat'.to # "none" THEN "service_up" ELSE "smart_leak_guard"
    BY <1>3 DEF Prerouting, Goes
  <2>2. /\ nat'.to = IF Dns THEN "resolver"
                     ELSE IF Proxied /\ packet.proto = "tcp" THEN "engine" ELSE "none"
        /\ nat'.to = "engine" => nat'.slot \in 1..Sessions
    <3>1. CASE nat.to = "none" /\ Listed("tcp")
      BY <3>1, <1>3, <1>a, <2>1, ListedIsProxied DEF Prerouting, Steered
    <3>2. CASE ~(nat.to = "none" /\ Listed("tcp"))
      BY <3>2, <1>3, <1>a, <2>1, ListedIsProxied DEF Prerouting, Steered
    <3>3. QED
      BY <3>1, <3>2
  <2>3. Steered' /\ Ways'
    BY <2>1, <2>2, <1>a, PacketStays DEF Steered, Ways
  <2>4. QED
    BY <2>1, <2>3, <1>a DEF PacketInv, PacketTyped, Counters, Guarded, RoutedAsPromised
<1>4. CASE ServiceUp
  <2>1. /\ at = "service_up" /\ at' = "deliver"
        /\ UNCHANGED <<packet, smart, tproxied, nat, verdict>>
        /\ counted' = IF smart /\ packet.lan THEN Service ELSE << >>
    BY <1>4 DEF ServiceUp, Goes
  <2>2. Steered' /\ Ways'
    BY <2>1, <1>a, PacketStays DEF Steered, Ways
  <2>3. Len(counted') <= 1 /\ (Proxied => (Len(counted') = 1 <=> smart))
    <3>1. Proxied => packet.lan
      BY DEF Proxied, Connects
    <3>2. Len(<< >>) = 0
      OBVIOUS
    <3>3. CASE smart /\ packet.lan
      BY <2>1, <3>3, ServiceCountsOnce
    <3>4. CASE ~(smart /\ packet.lan)
      BY <2>1, <3>1, <3>2, <3>4
    <3>5. QED
      BY <3>3, <3>4
  <2>4. QED
    BY <2>1, <2>2, <2>3, <1>a, PacketStays
       DEF PacketInv, PacketTyped, Counters, Guarded, RoutedAsPromised
<1>5. CASE Deliver
  <2>1. /\ at = "deliver" /\ at' = "done"
        /\ UNCHANGED <<packet, smart, tproxied, nat, counted>>
        /\ \/ verdict' = "proxied" /\ (tproxied # 0 \/ nat.to = "engine")
           \/ verdict' = "captured" /\ nat.to = "resolver"
    BY <1>5 DEF Deliver, Goes
  <2>2. Steered' /\ Ways' /\ PacketTyped' /\ Counters' /\ Guarded'
    BY <2>1, <1>a, PacketStays DEF Steered, Ways, PacketTyped, Counters, Guarded
  <2>3. verdict' \in Promised
    BY <2>1, <1>a DEF Steered, Promised, PacketTyped
  <2>4. /\ Len(counted) <= 1
        /\ verdict' = "proxied" => (Len(counted) = 1 <=> smart)
    <3>1. verdict' = "proxied" => Proxied
      BY <2>1, <1>a DEF Steered
    <3>2. QED
      BY <2>1, <3>1, <1>a DEF Counters
  <2>5. verdict' = "proxied" => tproxied \in 1..Sessions \/ nat.slot \in 1..Sessions
    BY <2>1, <1>a DEF Steered
  <2>6. RoutedAsPromised'
    BY <2>1, <2>3, <2>4, <2>5, PacketStays DEF RoutedAsPromised
  <2>7. QED
    BY <2>2, <2>6 DEF PacketInv
<1>6. CASE SmartLeakGuard
  <2>1. /\ at = "smart_leak_guard" /\ UNCHANGED <<packet, smart, tproxied, nat, counted>>
        /\ ~Dns /\ ~Proxied /\ counted = << >>
    BY <1>6, <1>a DEF SmartLeakGuard, Steered, Ways, Counters, Proxied, Connects
  <2>2. CASE at' = "done" /\ verdict' = "rejected" /\ Refused
    <3>1. verdict' \in Promised
      BY <2>1, <2>2 DEF Promised
    <3>2. RoutedAsPromised'
      BY <2>1, <2>2, <3>1, PacketStays DEF RoutedAsPromised
    <3>3. QED
      BY <2>1, <2>2, <3>2, <1>a, PacketStays
         DEF PacketInv, PacketTyped, Steered, Ways, Counters, Guarded
  <2>3. CASE /\ at' = "force_china_tcp" /\ UNCHANGED verdict
             /\ Refused => packet.port = 443 /\ packet.proto = "udp" /\ (To("cn") \/ To("domain"))
    BY <2>1, <2>3, <1>a, PacketStays
       DEF PacketInv, PacketTyped, Steered, Ways, Counters, Guarded, RoutedAsPromised
  <2>4. QED
    BY <1>6, <2>2, <2>3 DEF SmartLeakGuard, Goes, Ends, Refused, Connects
<1>7. CASE ForceChinaTcp
  <2>1. /\ at = "force_china_tcp" /\ at' = "done" /\ UNCHANGED <<packet, smart, tproxied, nat, counted>>
        /\ ~Dns /\ ~Proxied /\ counted = << >>
        /\ verdict' = IF Refused THEN "rejected" ELSE "direct"
    <3>1. /\ at = "force_china_tcp" /\ at' = "done" /\ UNCHANGED <<packet, smart, tproxied, nat, counted>>
      BY <1>7 DEF ForceChinaTcp, Ends, Goes
    <3>2. ~Dns /\ ~Proxied /\ counted = << >>
      BY <3>1, <1>a DEF Steered, Ways, Counters, Proxied, Connects
    <3>3. verdict' = IF Refused THEN "rejected" ELSE "direct"
      BY <1>7, <1>a DEF ForceChinaTcp, Ends, Goes, Guarded, Refused, Connects, To
    <3>4. QED
      BY <3>1, <3>2, <3>3
  <2>2. verdict' \in Promised
    BY <2>1 DEF Promised
  <2>3. RoutedAsPromised'
    BY <2>1, <2>2, PacketStays DEF RoutedAsPromised
  <2>4. QED
    BY <2>1, <2>3, <1>a, PacketStays
       DEF PacketInv, PacketTyped, Steered, Ways, Counters, Guarded
<1>8. CASE UNCHANGED packetVars
  <2>1. UNCHANGED <<packet, smart, at, tproxied, nat, counted, verdict>>
    BY <1>8 DEF packetVars
  <2>2. QED
    BY <2>1, <1>a, PacketStays
       DEF PacketInv, PacketTyped, Steered, Ways, Counters, Guarded, RoutedAsPromised
<1>9. QED
  BY <1>1, <1>2, <1>3, <1>4, <1>5, <1>6, <1>7, <1>8 DEF PacketNext

(***************************************************************************)
(* Every packet through the table of setupRedirect is routed as promised   *)
(* and passes a service counter at most once: for any service groups, any  *)
(* number of engine instances and any overlap of the address lists.        *)
(***************************************************************************)
THEOREM PacketsAreRouted == PacketSpec => []RoutedAsPromised
<1>1. PacketInit => PacketInv
  <2> SUFFICES ASSUME PacketInit PROVE PacketInv
    OBVIOUS
  <2>1. packet \in Packet
    BY DEF PacketInit
  <2>2. packet.lan \in BOOLEAN /\ packet.proto \in {"tcp", "udp", "icmp"}
    BY <2>1 DEF Packet
  <2>3. smart \in BOOLEAN
    BY DEF PacketInit
  <2>4. QED
    BY <2>2, <2>3 DEF PacketInit, PacketInv, PacketTyped, Steered, Ways, Counters, Guarded,
                      RoutedAsPromised
<1>2. PacketInv => RoutedAsPromised
  BY DEF PacketInv
<1>3. QED
  BY <1>1, <1>2, PacketStep, PTL DEF PacketSpec
=============================================================================
