--------------------------- MODULE RedirectProofs ---------------------------
(***************************************************************************)
(* Proofs about Redirect, for any callers and any configurations.          *)
(*                                                                         *)
(* The argument: redirectMu admits one caller (MutexInv), so what the      *)
(* holder has done so far determines the kernel state (StageInv).  The     *)
(* type invariant, the mutex and the stages together are inductive.        *)
(***************************************************************************)
EXTENDS Redirect, SequenceTheorems, TLAPS

\* A caller is past Lock and before its Unlock exactly when it holds the mutex.
MutexInv == \A p \in Process : rpc[p] \in Inside <=> redirectMu = p

\* Only a setup gets past the teardown at its head.
ArgInv ==
  \A p \in Process :
    rpc[p] \in Inside \ {"dropTable", "dropRule", "dropRoute"} => rarg[p] # NoConfig

\* What the caller inside has established, by its program counter.
StageInv ==
  \A p \in Process :
    /\ rpc[p] \in Inside \ {"china", "dropTable"} => table = << >>
    /\ rpc[p] \in {"dropRoute", "clearRule", "clearRoute", "addRule", "undoRoute"} => ~ipRule
    /\ rpc[p] \in {"clearRule", "clearRoute", "addRule", "addRoute"} => ~ipRoute
    /\ rpc[p] \in {"addRoute", "load"} => ipRule
    /\ rpc[p] = "load" => ipRoute

IInv == TypeOK /\ MutexInv /\ ArgInv /\ StageInv /\ AtMostOneRuleSet /\ TableHasPolicyRoute

-----------------------------------------------------------------------------
(***************************************************************************)
(* Every variable of netfilter.go's two functions, and the kernel state    *)
(* they change, keeps its type; that the table only ever holds rulesets    *)
(* needs that a teardown never gets as far as loading one.                 *)
(***************************************************************************)
LEMMA TypedInit == Init => TypeOK /\ ArgInv
<1> SUFFICES ASSUME Init PROVE TypeOK /\ ArgInv
  OBVIOUS
<1>1. ipRule \in BOOLEAN /\ ipRoute \in BOOLEAN
  BY DEF Init
<1>2. TypeOK
  BY <1>1 DEF Init, TypeOK, Label
<1>3. ArgInv
  BY DEF Init, ArgInv, Inside
<1>4. QED
  BY <1>2, <1>3

LEMMA TypedStep == TypeOK /\ ArgInv /\ [Next]_vars => TypeOK' /\ ArgInv'
<1> SUFFICES ASSUME TypeOK, ArgInv, [Next]_vars PROVE TypeOK' /\ ArgInv'
  OBVIOUS
<1> USE DEF TypeOK, ArgInv, Label, Inside, Goto, Finish, kernel
<1>1. ASSUME NEW p \in Process, Lock(p) PROVE TypeOK' /\ ArgInv'
  BY <1>1 DEF Lock
<1>2. ASSUME NEW p \in Process, BuildScript(p) PROVE TypeOK' /\ ArgInv'
  BY <1>2 DEF BuildScript
<1>3. ASSUME NEW p \in Process, DropTable(p) PROVE TypeOK' /\ ArgInv'
  BY <1>3 DEF DropTable
<1>4. ASSUME NEW p \in Process, DeleteRule(p) PROVE TypeOK' /\ ArgInv'
  <2>1. (ipRule \in BOOLEAN /\ ipRoute \in BOOLEAN)'
    BY <1>4 DEF DeleteRule
  <2>2. QED
    BY <1>4, <2>1 DEF DeleteRule
<1>5. ASSUME NEW p \in Process, FlushRoute(p) PROVE TypeOK' /\ ArgInv'
  <2>1. (ipRule \in BOOLEAN /\ ipRoute \in BOOLEAN)'
    BY <1>5 DEF FlushRoute
  <2>2. QED
    BY <1>5, <2>1 DEF FlushRoute
<1>6. ASSUME NEW p \in Process, AddRule(p) \/ AddRoute(p) PROVE TypeOK' /\ ArgInv'
  <2>1. (ipRule \in BOOLEAN /\ ipRoute \in BOOLEAN)'
    BY <1>6 DEF AddRule, AddRoute
  <2>2. QED
    BY <1>6, <2>1 DEF AddRule, AddRoute
<1>7. ASSUME NEW p \in Process, LoadTable(p) PROVE TypeOK' /\ ArgInv'
  <2>1. rarg[p] \in Config
    BY <1>7 DEF LoadTable
  <2>2. QED
    BY <1>7, <2>1 DEF LoadTable
<1>8. ASSUME NEW p \in Process, Fail(p) PROVE TypeOK' /\ ArgInv'
  BY <1>8 DEF Fail, LoadChinaRoutesFails, AddRuleFails, AddRouteFails, LoadTableFails
<1>9. ASSUME NEW p \in Process, Return(p) PROVE TypeOK' /\ ArgInv'
  BY <1>9 DEF Return
<1>10. ASSUME NEW p \in Process, NEW c \in Config \cup {NoConfig}, Call(p, c)
       PROVE TypeOK' /\ ArgInv'
  BY <1>10 DEF Call
<1>11. CASE Crash
  BY <1>11 DEF Crash
<1>12. CASE UNCHANGED vars
  BY <1>12 DEF vars
<1>13. QED
  BY <1>1, <1>2, <1>3, <1>4, <1>5, <1>6, <1>7, <1>8, <1>9, <1>10, <1>11, <1>12
     DEF Next, Step, Succeed

\* Every variable of the two functions keeps its type, in every behaviour.
THEOREM TypeCorrect == Spec => []TypeOK
<1>1. Spec => [](TypeOK /\ ArgInv)
  BY TypedInit, TypedStep, PTL DEF Spec
<1>2. QED
  BY <1>1, PTL

-----------------------------------------------------------------------------
(***************************************************************************)
(* redirectMu excludes: between its Lock and its Unlock a caller is alone. *)
(***************************************************************************)
LEMMA MutexStep == TypeOK /\ MutexInv /\ [Next]_vars => MutexInv'
<1> SUFFICES ASSUME TypeOK, MutexInv, [Next]_vars PROVE MutexInv'
  OBVIOUS
<1> USE RedirectAssumption DEF TypeOK, MutexInv, Label, Inside, Goto, Finish, kernel
<1>1. ASSUME NEW p \in Process, Lock(p) PROVE MutexInv'
  BY <1>1 DEF Lock
<1>2. ASSUME NEW p \in Process, Succeed(p) PROVE MutexInv'
  <2>1. CASE BuildScript(p) \/ DropTable(p)
    BY <2>1 DEF BuildScript, DropTable
  <2>2. CASE DeleteRule(p)
    BY <2>2 DEF DeleteRule
  <2>3. CASE FlushRoute(p)
    BY <2>3 DEF FlushRoute
  <2>4. CASE AddRule(p) \/ AddRoute(p) \/ LoadTable(p)
    BY <2>4 DEF AddRule, AddRoute, LoadTable
  <2>5. QED
    BY <1>2, <2>1, <2>2, <2>3, <2>4 DEF Succeed
<1>3. ASSUME NEW p \in Process, Fail(p) PROVE MutexInv'
  BY <1>3 DEF Fail, LoadChinaRoutesFails, AddRuleFails, AddRouteFails, LoadTableFails
<1>4. ASSUME NEW p \in Process, Return(p) PROVE MutexInv'
  BY <1>4 DEF Return
<1>5. ASSUME NEW p \in Process, NEW c \in Config \cup {NoConfig}, Call(p, c) PROVE MutexInv'
  BY <1>5 DEF Call
<1>6. CASE Crash
  BY <1>6 DEF Crash
<1>7. CASE UNCHANGED vars
  BY <1>7 DEF vars
<1>8. QED
  BY <1>1, <1>2, <1>3, <1>4, <1>5, <1>6, <1>7 DEF Next, Step

-----------------------------------------------------------------------------
(***************************************************************************)
(* The kernel state the two functions of netfilter.go leave at each point: *)
(* the stages, and with them the two invariants of the table, survive      *)
(* every command, every failure and the death of the daemon.               *)
(***************************************************************************)
KernelInv == StageInv /\ AtMostOneRuleSet /\ TableHasPolicyRoute

LEMMA KernelStep == IInv /\ [Next]_vars => KernelInv'
<1> SUFFICES ASSUME IInv, [Next]_vars PROVE KernelInv'
  OBVIOUS
<1> USE DEF IInv, KernelInv, StageInv, AtMostOneRuleSet, TableHasPolicyRoute, Inside, Label
<1>1. \A p, q \in Process : rpc[p] \in Inside /\ rpc[q] \in Inside => p = q
  BY RedirectAssumption DEF MutexInv
<1>2. rpc \in [Process -> Label]
  BY DEF TypeOK
<1> USE DEF Goto, Finish, kernel
<1>3. ASSUME NEW p \in Process, Lock(p) PROVE KernelInv'
  BY <1>2, <1>3 DEF Lock
<1>4. ASSUME NEW p \in Process, BuildScript(p) \/ LoadChinaRoutesFails(p) PROVE KernelInv'
  BY <1>1, <1>2, <1>4 DEF BuildScript, LoadChinaRoutesFails
<1>5. ASSUME NEW p \in Process, DropTable(p) PROVE KernelInv'
  BY <1>1, <1>2, <1>5 DEF DropTable
<1>6. ASSUME NEW p \in Process, DeleteRule(p) PROVE KernelInv'
  BY <1>1, <1>2, <1>6 DEF DeleteRule
<1>7. ASSUME NEW p \in Process, FlushRoute(p) PROVE KernelInv'
  BY <1>1, <1>2, <1>7 DEF FlushRoute
<1>8. ASSUME NEW p \in Process, AddRule(p) \/ AddRuleFails(p) PROVE KernelInv'
  BY <1>1, <1>2, <1>8 DEF AddRule, AddRuleFails
<1>9. ASSUME NEW p \in Process, AddRoute(p) \/ AddRouteFails(p) PROVE KernelInv'
  BY <1>1, <1>2, <1>9 DEF AddRoute, AddRouteFails
<1>10. ASSUME NEW p \in Process, LoadTable(p) PROVE KernelInv'
  <2>1. table = << >> /\ rarg[p] \in Config
    BY <1>10 DEF LoadTable, ArgInv, TypeOK
  <2>2. Len(table') = 1 /\ table' # << >>
    BY <1>10, <2>1 DEF LoadTable
  <2>3. QED
    BY <1>1, <1>2, <1>10, <2>2 DEF LoadTable
<1>11. ASSUME NEW p \in Process, LoadTableFails(p) PROVE KernelInv'
  BY <1>1, <1>2, <1>11 DEF LoadTableFails
<1>12. ASSUME NEW p \in Process, Return(p) PROVE KernelInv'
  BY <1>2, <1>12 DEF Return
<1>13. ASSUME NEW p \in Process, NEW c \in Config \cup {NoConfig}, Call(p, c) PROVE KernelInv'
  BY <1>2, <1>13 DEF Call
<1>14. CASE Crash
  BY <1>14 DEF Crash
<1>15. CASE UNCHANGED vars
  BY <1>15 DEF vars
<1>16. QED
  BY <1>3, <1>4, <1>5, <1>6, <1>7, <1>8, <1>9, <1>10, <1>11, <1>12, <1>13, <1>14, <1>15
     DEF Next, Step, Succeed, Fail

\* The daemon's first state, on a router without OpenSocks rules.
LEMMA InductiveInit == Init => IInv
<1> SUFFICES ASSUME Init PROVE IInv
  OBVIOUS
<1>1. MutexInv
  BY RedirectAssumption DEF Init, MutexInv, Inside
<1>2. StageInv
  BY DEF Init, StageInv, Inside
<1>3. AtMostOneRuleSet /\ TableHasPolicyRoute
  BY DEF Init, AtMostOneRuleSet, TableHasPolicyRoute
<1>4. QED
  BY TypedInit, <1>1, <1>2, <1>3 DEF IInv

\* The conjunction of all of it is an inductive invariant.
THEOREM Inductive == Spec => []IInv
<1>1. IInv /\ [Next]_vars => IInv'
  BY TypedStep, MutexStep, KernelStep DEF IInv, KernelInv
<1>2. QED
  BY InductiveInit, <1>1, PTL DEF Spec

(***************************************************************************)
(* The comment on redirectMu holds for any number of callers: the table    *)
(* never holds two copies of the rules.                                    *)
(***************************************************************************)
THEOREM OneRuleSet == Spec => []AtMostOneRuleSet
<1>1. IInv => AtMostOneRuleSet
  BY DEF IInv
<1>2. QED
  BY Inductive, <1>1, PTL

(***************************************************************************)
(* Marked packets always have the rule and the route that deliver them:    *)
(* no interleaving, failed command or crash leaves a table without both.   *)
(***************************************************************************)
THEOREM PolicyRoutePresent == Spec => []TableHasPolicyRoute
<1>1. IInv => TableHasPolicyRoute
  BY DEF IInv
<1>2. QED
  BY Inductive, <1>1, PTL

(***************************************************************************)
(* setupTPROXYRoute never meets a rule or a route of its own, whatever a   *)
(* crash or a failure left behind.                                         *)
(***************************************************************************)
THEOREM NoCollision == Spec => []NothingToCollideWith
<1>1. IInv => NothingToCollideWith
  BY DEF IInv, StageInv, NothingToCollideWith
<1>2. QED
  BY Inductive, <1>1, PTL

\* A single step that ends a call leaves a whole state.
LEMMA WholeStateStep == IInv /\ [Next]_vars => [LeavesWholeState]_vars
<1> SUFFICES ASSUME IInv, Next, NEW q \in Process,
                    rpc[q] \in Inside \ {"china"}, rpc'[q] \in {"ok", "err"}
             PROVE (ipRule' <=> table' # << >>) /\ (ipRoute' <=> table' # << >>)
  BY DEF LeavesWholeState
<1> USE DEF Inside, Label, Goto, Finish, kernel
<1>1. rpc \in [Process -> Label] /\ table \in Seq(Config) /\ rarg \in [Process -> Config \cup {NoConfig}]
  BY DEF IInv, TypeOK
<1>2. StageInv
  BY DEF IInv
<1>3. rpc[q] \notin {"out", "lock", "ok", "err"}
  OBVIOUS
<1>5. ASSUME NEW p \in Process, Lock(p) \/ Return(p) PROVE FALSE
  BY <1>1, <1>3, <1>5 DEF Lock, Return
<1>6. ASSUME NEW p \in Process, NEW c \in Config \cup {NoConfig}, Call(p, c) PROVE FALSE
  BY <1>1, <1>3, <1>6 DEF Call
<1>7. ASSUME NEW p \in Process, Succeed(p) PROVE (ipRule' <=> table' # << >>) /\ (ipRoute' <=> table' # << >>)
  <2>1. CASE BuildScript(p) \/ DropTable(p) \/ DeleteRule(p) \/ AddRule(p) \/ AddRoute(p)
    BY <1>1, <1>3, <2>1 DEF BuildScript, DropTable, DeleteRule, AddRule, AddRoute
  <2>2. CASE FlushRoute(p)
    <3>1. rpc[q] \in {"dropRoute", "undoRoute"} /\ ~ipRoute' /\ ipRule' = ipRule /\ table' = table
      BY <1>1, <1>3, <2>2 DEF FlushRoute
    <3>2. QED
      BY <1>2, <3>1 DEF StageInv
  <2>3. CASE LoadTable(p)
    <3>1. rpc[q] = "load" /\ table' = Append(table, rarg[p]) /\ ipRule' = ipRule /\ ipRoute' = ipRoute
      BY <1>1, <1>3, <2>3 DEF LoadTable
    <3>2. table' # << >>
      <4>1. table = << >> /\ rarg[p] \in Config
        BY <2>3 DEF LoadTable, IInv, ArgInv, StageInv, TypeOK
      <4>2. Len(table') = 1
        BY <3>1, <4>1
      <4>3. QED
        BY <4>2
    <3>3. QED
      BY <1>2, <3>1, <3>2 DEF StageInv
  <2>4. QED
    BY <1>7, <2>1, <2>2, <2>3 DEF Succeed
<1>8. ASSUME NEW p \in Process, Fail(p) PROVE (ipRule' <=> table' # << >>) /\ (ipRoute' <=> table' # << >>)
  <2>1. rpc[q] = "addRule" /\ ipRule' = ipRule /\ ipRoute' = ipRoute /\ table' = table
    BY <1>1, <1>3, <1>8 DEF Fail, LoadChinaRoutesFails, AddRuleFails, AddRouteFails, LoadTableFails
  <2>2. QED
    BY <1>2, <2>1 DEF StageInv
<1>9. CASE Crash
  BY <1>9 DEF Crash
<1>10. QED
  BY <1>5, <1>6, <1>7, <1>8, <1>9 DEF Next, Step

(***************************************************************************)
(* Every call of netfilter.go's two functions that got past its script, on *)
(* its success and on each of its error paths, leaves table, rule and      *)
(* route together or none of them.                                         *)
(***************************************************************************)
THEOREM WholeState == Spec => CallsLeaveWholeState
<1>1. QED
  BY Inductive, WholeStateStep, PTL DEF Spec, CallsLeaveWholeState

-----------------------------------------------------------------------------
\* A table that holds at most one ruleset and is not empty holds one.
LEMMA OneElement ==
  ASSUME NEW S, NEW s \in Seq(S), Len(s) <= 1, s # << >>
  PROVE  Len(s) = 1
<1>1. Len(s) \in Nat /\ Len(s) # 0
  BY EmptySeq
<1>2. QED
  BY <1>1

\* Under the invariant the mapping needs no third case.
LEMMA ActiveIs == IInv => Active = IF table = << >> THEN NoConfig ELSE table[1]
<1> SUFFICES ASSUME IInv PROVE Active = IF table = << >> THEN NoConfig ELSE table[1]
  OBVIOUS
<1>1. table \in Seq(Config) /\ Len(table) <= 1 /\ (table # << >> => ipRule /\ ipRoute)
  BY DEF IInv, TypeOK, AtMostOneRuleSet, TableHasPolicyRoute
<1>2. table # << >> => Len(table) = 1
  BY <1>1, OneElement
<1>3. QED
  BY <1>1, <1>2 DEF Active

(***************************************************************************)
(* A step of the detailed module is an Install, a Remove or a stutter of   *)
(* the abstract one: only `nft delete table` and `nft -f` show.            *)
(***************************************************************************)
LEMMA RoutingStep == IInv /\ IInv' /\ [Next]_vars => [Abstract!Next]_Active
<1> SUFFICES ASSUME IInv, IInv', [Next]_vars PROVE [Abstract!Next]_Active
  OBVIOUS
<1>1. Active = IF table = << >> THEN NoConfig ELSE table[1]
  BY ActiveIs
<1>2. Active' = IF table' = << >> THEN NoConfig ELSE table'[1]
  <2>1. table' \in Seq(Config) /\ Len(table') <= 1 /\ (table' # << >> => ipRule' /\ ipRoute')
    BY DEF IInv, TypeOK, AtMostOneRuleSet, TableHasPolicyRoute
  <2>2. table' # << >> => Len(table') = 1
    BY <2>1, OneElement
  <2>3. QED
    BY <2>1, <2>2 DEF Active
<1>3. CASE UNCHANGED table
  BY <1>1, <1>2, <1>3
<1>4. ASSUME NEW p \in Process, DropTable(p), table # << >> PROVE Abstract!Next
  <2>1. Active # NoConfig
    <3>1. table[1] \in Config
      BY <1>4 DEF IInv, TypeOK
    <3>2. QED
      BY <1>1, <1>4, <3>1, RedirectAssumption
  <2>2. Active' = NoConfig
    BY <1>2, <1>4 DEF DropTable
  <2>3. QED
    BY <2>1, <2>2 DEF Abstract!Next, Abstract!Remove
<1>5. ASSUME NEW p \in Process, LoadTable(p) PROVE Abstract!Next
  <2>1. table = << >> /\ rarg[p] \in Config
    BY <1>5 DEF LoadTable, IInv, ArgInv, StageInv, TypeOK, Inside, Label
  <2>2. Active = NoConfig
    BY <1>1, <2>1
  <2>3. table' = << rarg[p] >>
    BY <1>5, <2>1 DEF LoadTable
  <2>4. Active' = rarg[p]
    BY <1>2, <2>3
  <2>5. QED
    BY <2>1, <2>2, <2>4 DEF Abstract!Next, Abstract!Install
<1>6. ASSUME Next, table' # table
      PROVE \E p \in Process : LoadTable(p) \/ (DropTable(p) /\ table # << >>)
  BY <1>6 DEF Next, Step, Succeed, Fail, Lock, Return, Call, Crash, kernel, BuildScript, DropTable,
     DeleteRule, FlushRoute, AddRule, AddRoute, LoadTable, LoadChinaRoutesFails, AddRuleFails,
     AddRouteFails, LoadTableFails
<1>7. QED
  BY <1>3, <1>4, <1>5, <1>6 DEF vars

(***************************************************************************)
(* setupRedirect and teardownRedirect, called by anyone at any time and    *)
(* cut short anywhere, implement the abstract routing.                     *)
(***************************************************************************)
THEOREM RedirectImplementsRouting == Spec => ImplementsRouting
<1>1. Init => Abstract!Init
  BY DEF Init, Active, Abstract!Init
<1>2. QED
  BY <1>1, Inductive, RoutingStep, PTL DEF Spec, ImplementsRouting, Abstract!Spec
=============================================================================
