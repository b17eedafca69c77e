------------------------------ MODULE Redirect ------------------------------
(***************************************************************************)
(* netfilter.go: setupRedirect and teardownRedirect, and the kernel state  *)
(* they drive: the table "inet opensocks", the fwmark rule and the local   *)
(* route that TPROXY needs.  Every external command is a step of its own,  *)
(* so that commands of two callers, a failing command and the death of the *)
(* daemon between two commands are all behaviours.                         *)
(*                                                                         *)
(* A ruleset is abstracted to the configuration it is built from.  `nft    *)
(* -f` of a table that exists appends to its chains: the table is the      *)
(* sequence of the configurations loaded into it.                          *)
(***************************************************************************)
EXTENDS Sequences, Naturals

CONSTANTS Process,        \* goroutines that may call the two functions
          NoProcess,      \* redirectMu is free
          Config,         \* arguments of setupRedirect
          GlobalConfig,   \* those of mode "global", which need no China list
          NoConfig,       \* the argument of a teardown; no table
          Broken          \* neither direct nor one complete configuration

ASSUME RedirectAssumption ==
  /\ NoProcess \notin Process
  /\ NoConfig \notin Config
  /\ Broken \notin Config \cup {NoConfig}

VARIABLES
  table,        \* kernel: rulesets in the table, << >> when it does not exist
  ipRule,       \* kernel: ip rule pref 100 fwmark 0x51/0xff lookup 100
  ipRoute,      \* kernel: local default route in table 100
  redirectMu,   \* the holder of the mutex
  rpc,          \* where each caller is inside the functions
  rarg          \* the configuration each caller wants; NoConfig: a teardown

kernel == <<table, ipRule, ipRoute>>
vars == <<table, ipRule, ipRoute, redirectMu, rpc, rarg>>

Label == {"out", "lock", "china",
          "dropTable", "dropRule", "dropRoute",      \* teardownRedirectLocked
          "clearRule", "clearRoute",                 \* head of setupTPROXYRoute
          "addRule", "addRoute", "load",
          "undoRule", "undoRoute",                   \* after a failed command
          "ok", "err"}

Inside == Label \ {"out", "lock", "ok", "err"}       \* labels that hold redirectMu

Init ==
  /\ table = << >>
  /\ ipRule = FALSE
  /\ ipRoute = FALSE
  /\ redirectMu = NoProcess
  /\ rpc = [p \in Process |-> "out"]
  /\ rarg = [p \in Process |-> NoConfig]

Goto(p, label) == rpc' = [rpc EXCEPT ![p] = label]

\* Leave the function; the deferred Unlock runs.
Finish(p, result) == Goto(p, result) /\ redirectMu' = NoProcess

-----------------------------------------------------------------------------
Call(p, c) ==
  /\ rpc[p] = "out"
  /\ Goto(p, "lock")
  /\ rarg' = [rarg EXCEPT ![p] = c]
  /\ UNCHANGED <<kernel, redirectMu>>

\* Seeded error: redirectMu does not exclude.
LockUnguarded(p) ==
  /\ rpc[p] = "lock"
  /\ redirectMu' = p
  /\ Goto(p, IF rarg[p] = NoConfig THEN "dropTable" ELSE "china")
  /\ UNCHANGED <<kernel, rarg>>

Lock(p) ==
  /\ rpc[p] = "lock"
  /\ redirectMu = NoProcess
  /\ redirectMu' = p
  /\ Goto(p, IF rarg[p] = NoConfig THEN "dropTable" ELSE "china")
  /\ UNCHANGED <<kernel, rarg>>

\* The script is complete: nothing of the old configuration was touched yet.
BuildScript(p) ==
  /\ rpc[p] = "china"
  /\ Goto(p, "dropTable")
  /\ UNCHANGED <<kernel, redirectMu, rarg>>

\* Seeded error: the early return keeps the mutex.
LoadChinaRoutesFailsLocked(p) ==
  /\ rpc[p] = "china"
  /\ rarg[p] \notin GlobalConfig
  /\ Goto(p, "err")
  /\ UNCHANGED <<kernel, redirectMu, rarg>>

\* The pinned China list is missing and cannot be downloaded or verified.
LoadChinaRoutesFails(p) ==
  /\ rpc[p] = "china"
  /\ rarg[p] \notin GlobalConfig
  /\ Finish(p, "err")
  /\ UNCHANGED <<kernel, rarg>>

\* Seeded error: a setup loads its rules on top of the old ones.
DropTableForgotten(p) ==
  /\ rpc[p] = "dropTable"
  /\ table' = IF rarg[p] = NoConfig THEN << >> ELSE table
  /\ Goto(p, "dropRule")
  /\ UNCHANGED <<ipRule, ipRoute, redirectMu, rarg>>

DropTable(p) ==
  /\ rpc[p] = "dropTable"
  /\ table' = << >>
  /\ Goto(p, "dropRule")
  /\ UNCHANGED <<ipRule, ipRoute, redirectMu, rarg>>

\* teardownTPROXYRoute is called from three places; it is two commands.
DeleteRule(p) ==
  /\ \/ rpc[p] = "dropRule" /\ Goto(p, "dropRoute")
     \/ rpc[p] = "clearRule" /\ Goto(p, "clearRoute")
     \/ rpc[p] = "undoRule" /\ Goto(p, "undoRoute")
  /\ ipRule' = FALSE
  /\ UNCHANGED <<table, ipRoute, redirectMu, rarg>>

FlushRoute(p) ==
  /\ \/ rpc[p] = "dropRoute" /\ rarg[p] = NoConfig /\ Finish(p, "ok")
     \/ /\ rpc[p] = "dropRoute" /\ rarg[p] # NoConfig
        /\ Goto(p, "clearRule") /\ UNCHANGED redirectMu
     \/ rpc[p] = "clearRoute" /\ Goto(p, "addRule") /\ UNCHANGED redirectMu
     \/ rpc[p] = "undoRoute" /\ Finish(p, "err")
  /\ ipRoute' = FALSE
  /\ UNCHANGED <<table, ipRule, rarg>>

\* The kernel refuses a second rule or route equal to one that exists.
AddRule(p) ==
  /\ rpc[p] = "addRule"
  /\ ~ipRule
  /\ ipRule' = TRUE
  /\ Goto(p, "addRoute")
  /\ UNCHANGED <<table, ipRoute, redirectMu, rarg>>

AddRuleFails(p) ==
  /\ rpc[p] = "addRule"
  /\ Finish(p, "err")
  /\ UNCHANGED <<kernel, rarg>>

AddRoute(p) ==
  /\ rpc[p] = "addRoute"
  /\ ~ipRoute
  /\ ipRoute' = TRUE
  /\ Goto(p, "load")
  /\ UNCHANGED <<table, ipRule, redirectMu, rarg>>

\* Seeded error: the error of `ip route add` is ignored.
AddRouteFailsIgnored(p) ==
  /\ rpc[p] = "addRoute"
  /\ Goto(p, "load")
  /\ UNCHANGED <<kernel, redirectMu, rarg>>

AddRouteFails(p) ==
  /\ rpc[p] = "addRoute"
  /\ Goto(p, "undoRule")
  /\ UNCHANGED <<kernel, redirectMu, rarg>>

\* nft -f is one transaction: the whole ruleset or nothing.
LoadTable(p) ==
  /\ rpc[p] = "load"
  /\ table' = Append(table, rarg[p])
  /\ Finish(p, "ok")
  /\ UNCHANGED <<ipRule, ipRoute, rarg>>

\* Seeded error: a failed `nft -f` leaves the rule and the route.
LoadTableFailsNoUndo(p) ==
  /\ rpc[p] = "load"
  /\ Finish(p, "err")
  /\ UNCHANGED <<kernel, rarg>>

LoadTableFails(p) ==
  /\ rpc[p] = "load"
  /\ Goto(p, "undoRule")
  /\ UNCHANGED <<kernel, redirectMu, rarg>>

Return(p) ==
  /\ rpc[p] \in {"ok", "err"}
  /\ Goto(p, "out")
  /\ rarg' = [rarg EXCEPT ![p] = NoConfig]
  /\ UNCHANGED <<kernel, redirectMu>>

\* The daemon dies: goroutines and mutex are gone, the kernel keeps its state.
Crash ==
  /\ redirectMu' = NoProcess
  /\ rpc' = [p \in Process |-> "out"]
  /\ rarg' = [p \in Process |-> NoConfig]
  /\ UNCHANGED kernel

-----------------------------------------------------------------------------
Succeed(p) ==
  \/ BuildScript(p) \/ DropTable(p) \/ DeleteRule(p) \/ FlushRoute(p)
  \/ AddRule(p) \/ AddRoute(p) \/ LoadTable(p)

Fail(p) ==
  \/ LoadChinaRoutesFails(p) \/ AddRuleFails(p)
  \/ AddRouteFails(p) \/ LoadTableFails(p)

Step(p) == Lock(p) \/ Succeed(p) \/ Fail(p) \/ Return(p)

Next ==
  \/ \E p \in Process : Step(p) \/ \E c \in Config \cup {NoConfig} : Call(p, c)
  \/ Crash

Spec == Init /\ [][Next]_vars

(***************************************************************************)
(* A runnable goroutine runs on, and Go's mutex hands itself to a waiter   *)
(* that has starved for a millisecond: strong fairness of Lock.            *)
(***************************************************************************)
Fairness == \A p \in Process : SF_vars(Lock(p)) /\ WF_vars(Succeed(p) \/ Fail(p) \/ Return(p))

FairSpec == Spec /\ Fairness

-----------------------------------------------------------------------------
(***************************************************************************)
(* Types of the variables of netfilter.go's two functions and the kernel   *)
(* state they change.                                                      *)
(***************************************************************************)
TypeOK ==
  /\ table \in Seq(Config)
  /\ ipRule \in BOOLEAN
  /\ ipRoute \in BOOLEAN
  /\ redirectMu \in Process \cup {NoProcess}
  /\ rpc \in [Process -> Label]
  /\ rarg \in [Process -> Config \cup {NoConfig}]

(***************************************************************************)
(* The promise of the comment on redirectMu: concurrent setups never       *)
(* append a second copy of the rules, because each deletes the table and   *)
(* loads its own without another setup between the two.                    *)
(***************************************************************************)
AtMostOneRuleSet == Len(table) <= 1

(***************************************************************************)
(* While the table marks UDP packets for TPROXY, the policy rule and the   *)
(* local route that deliver marked packets exist: after any failing        *)
(* command, between any two commands and after a crash.                    *)
(***************************************************************************)
TableHasPolicyRoute == table # << >> => ipRule /\ ipRoute

(***************************************************************************)
(* setupTPROXYRoute never fails because of what OpenSocks itself left      *)
(* behind: whatever a crash or an earlier failure left, the rule and the   *)
(* route are absent when they are added ("File exists" is impossible).     *)
(***************************************************************************)
NothingToCollideWith ==
  \A p \in Process : /\ rpc[p] = "addRule" => ~ipRule
                     /\ rpc[p] = "addRoute" => ~ipRoute

(***************************************************************************)
(* A call that got past building its script leaves a whole state: table,   *)
(* rule and route together or none of them, on success and on every error  *)
(* path.  (A call that fails on the China list leaves what it found.)      *)
(***************************************************************************)
LeavesWholeState ==
  \A p \in Process :
    (rpc[p] \in Inside \ {"china"} /\ rpc'[p] \in {"ok", "err"})
      => (ipRule' <=> table' # << >>) /\ (ipRoute' <=> table' # << >>)

CallsLeaveWholeState == [][LeavesWholeState]_vars

(***************************************************************************)
(* Every caller that waits for redirectMu gets its answer (or dies with    *)
(* the daemon): no error path leaves the mutex locked.                     *)
(***************************************************************************)
CallsReturn == \A p \in Process : rpc[p] = "lock" ~> rpc[p] = "out"

\* What the LAN sees of the kernel state.
Active ==
  IF table = << >> THEN NoConfig
  ELSE IF Len(table) = 1 /\ ipRule /\ ipRoute THEN table[1] ELSE Broken

Abstract == INSTANCE Routing WITH active <- Active, Direct <- NoConfig

(***************************************************************************)
(* setupRedirect and teardownRedirect implement the abstract routing: one  *)
(* complete configuration or none, replaced through direct.                *)
(***************************************************************************)
ImplementsRouting == Abstract!Spec
=============================================================================
