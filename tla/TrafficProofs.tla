--------------------------- MODULE TrafficProofs ---------------------------
(***************************************************************************)
(* Proofs about SpeedJob and Traffic, for any goroutines, helpers and      *)
(* bounds of the environment.                                              *)
(*                                                                         *)
(* The argument: speedMu is held exactly between Acquire and a way out     *)
(* (Holder); its holder starts helpers one by one, and each way out stops  *)
(* as many as it took speedMu for (Helpers); only the goroutine that the   *)
(* running job was started for finishes it (ReportIsOwn, inductive as it   *)
(* stands); and what the tables still have to count never exceeds what the *)
(* environment still carries (TrafficInv).                                 *)
(***************************************************************************)
EXTENDS Traffic, FiniteSetTheorems, TLAPS

Busy == Holding \cup {"stages"}

SpeedTyped == SpeedTypeOK /\ (job.running => job.owner \in Process)

\* Who holds speedMu, and for what.
Holder ==
  /\ \A p \in Process : tpc[p] \in Busy <=> speedMu = p
  /\ \A p \in Process : tpc[p] \in Testing \cup {"stages"} => use.for = "test"
  /\ speedMu = NoProcess => use = NoUse
  /\ speedMu # NoProcess => use.for \in Waiting /\ (use.for # "test" => use.paths = 1)

\* Between a death and the next start nothing is done, and the file of each helper that
\* can be found is still there; after the start there is neither.
Strays ==
  /\ \A n \in Path : stray[n] = "alive" => pidFile[n] = "stray"
  /\ booted => \A n \in Path : pidFile[n] # "stray"
  /\ ~booted => \A p \in Process : tpc[p] = "idle"

\* The helpers started are the first ones, no more than asked for, each named after it
\* was started.
Helpers ==
  /\ \E k \in 0..use.paths : Started = 1..k
  /\ \A p \in Process : tpc[p] = "name" => Started # {}
  /\ \A n \in Path : pidFile[n] = "child" => helper[n] # "none"
  /\ Strays

SpeedInv == SpeedTyped /\ Holder /\ Helpers /\ ReportIsOwn

SpeedStep == SpeedNext \/ SpeedBoot

-----------------------------------------------------------------------------
(* the helpers *)

\* Helpers started one by one are as many as the last one's number.
LEMMA Counted ==
  ASSUME NEW k \in Nat, Started = 1..k
  PROVE  Cardinality(Started) = k
<1>1. 1 \in Int /\ k \in Int
  OBVIOUS
<1>2. Cardinality(1..k) = IF 1 > k THEN 0 ELSE k - 1 + 1
  BY <1>1, FS_Interval
<1>3. QED
  BY <1>2

\* The bounds of the helpers a test asks for.
LEMMA Asked == ASSUME SpeedTyped PROVE use.paths \in 0..MaxPaths /\ MaxPaths \in Nat \ {0}
BY SpeedJobAssumption DEF SpeedTyped, SpeedTypeOK

\* Whichever of the two calls stops the helpers, all are stopped and no file is left.
LEMMA StopIsEnough ==
  ASSUME SpeedInv, NEW p \in Process, tpc[p] \in Busy, Stop(p)
  PROVE  /\ helper' = [n \in Path |-> "none"]
         /\ pidFile' = [n \in Path |-> "none"]
         /\ UNCHANGED stray
<1>1. CASE use.for = "test" \/ tpc[p] \in {"spawn", "name"}
  BY <1>1 DEF Stop, StopPool
<1>2. CASE ~(use.for = "test" \/ tpc[p] \in {"spawn", "name"})
  <2>1. StopOnly
    BY <1>2 DEF Stop
  <2>2. use.paths = 1
    BY <1>2, SpeedJobAssumption DEF SpeedInv, Holder
  <2>3. \A n \in Path : helper[n] # "none" => n = 1
    <3>1. PICK k \in 0..1 : Started = 1..k
      BY <2>2 DEF SpeedInv, Helpers
    <3>2. \A n \in Started : n = 1
      BY <3>1
    <3>3. QED
      BY <3>2 DEF Started
  <2>4. helper' = [n \in Path |-> "none"]
    BY <2>1, <2>3 DEF StopOnly, SpeedInv, SpeedTyped, SpeedTypeOK
  <2>5. pidFile' = [n \in Path |-> "none"]
    <3>1. /\ pidFile \in [Path -> {"none", "child", "stray"}]
          /\ \A n \in Path : pidFile[n] # "stray"
          /\ \A n \in Path : pidFile[n] = "child" => n = 1
      BY <2>3 DEF SpeedInv, SpeedTyped, SpeedTypeOK, Helpers, Strays, Busy, Holding, Testing
    <3>2. QED
      BY <2>1, <3>1 DEF StopOnly
  <2>6. QED
    BY <2>1, <2>4, <2>5 DEF StopOnly
<1>3. QED
  BY <1>1, <1>2

\* After a step that leaves no helper and no file, nothing is started.
LEMMA NoneStarted ==
  ASSUME SpeedTyped', helper' = [n \in Path |-> "none"], pidFile' = [n \in Path |-> "none"],
         \A p \in Process : tpc'[p] # "name",
         booted', \A n \in Path : stray'[n] # "alive"
  PROVE  Helpers'
<1>1. Started' = {}
  BY DEF Started
<1>2. Started' = 1..0 /\ 0 \in 0..use'.paths
  BY <1>1, SpeedJobAssumption DEF SpeedTyped, SpeedTypeOK
<1>3. Strays'
  BY DEF Strays
<1>4. QED
  BY <1>2, <1>3 DEF Helpers

\* No helper of a dead daemon that its file names is left once the next has started.
LEMMA NoneAlive ==
  ASSUME Helpers, booted
  PROVE  /\ \A n \in Path : stray[n] # "alive"
         /\ Killed = [n \in Path |-> stray[n]]
BY DEF Helpers, Strays, Killed

-----------------------------------------------------------------------------
(* types *)

\* What a stop leaves is well typed.
LEMMA StopTyped ==
  ASSUME SpeedTyped, NEW p \in Process, Stop(p)
  PROVE  /\ helper' \in [Path -> {"none", "serving", "refused"}]
         /\ pidFile' \in [Path -> {"none", "child", "stray"}]
         /\ stray' \in [Path -> {"none", "alive", "unnamed", "dying"}]
<1>1. CASE StopPool
  BY <1>1 DEF StopPool, SpeedTyped, SpeedTypeOK
<1>2. CASE StopOnly
  BY <1>2 DEF StopOnly, SpeedTyped, SpeedTypeOK
<1>3. QED
  BY <1>1, <1>2 DEF Stop

\* Every step of the speed tests, and of a restart, keeps the types.
LEMMA SpeedTypedStep == SpeedTyped /\ [SpeedStep]_speedVars => SpeedTyped'
<1> SUFFICES ASSUME SpeedTyped, [SpeedStep]_speedVars PROVE SpeedTyped'
  OBVIOUS
<1> USE DEF SpeedTyped, SpeedTypeOK
<1>1. ASSUME NEW p \in Process, StartJob(p) \/ Handle(p) PROVE SpeedTyped'
  <2>1. CASE StartJob(p)
    <3>1. job' = [NoReport EXCEPT !.running = TRUE, !.owner = p, !.stage = "preparing"]
      BY <2>1 DEF StartJob
    <3>2. 0 \in 0..MaxPaths
      BY SpeedJobAssumption
    <3>3. job'.running /\ job'.owner = p /\ job'.sessions = 0
      BY <3>1 DEF NoReport
    <3>4. job' \in [running : BOOLEAN, sessions : 0..MaxPaths,
                   stage : {"none", "preparing", "complete", "error"} \cup Testing,
                   owner : Process \cup {NoProcess}, current : Process \cup {NoProcess},
                   down : Process \cup {NoProcess}, up : Process \cup {NoProcess}]
      BY <3>1, <3>2 DEF NoReport
    <3>5. QED
      BY <2>1, <3>3, <3>4 DEF StartJob, TestGoto, helpers, Kinds
  <2>2. CASE Handle(p)
    BY <2>2 DEF Handle, TestGoto, helpers, Kinds
  <2>3. QED
    BY <1>1, <2>1, <2>2
<1>2. ASSUME NEW p \in Process, Prepared(p) \/ NotPrepared(p) PROVE SpeedTyped'
  BY <1>2 DEF Prepared, NotPrepared, TestGoto, helpers, Waiting
<1>3. ASSUME NEW p \in Process, Acquire(p) PROVE SpeedTyped'
  BY <1>3, SpeedJobAssumption DEF Acquire, TestGoto, Killed, Holding, Waiting
<1>4. ASSUME NEW p \in Process, Spawn(p) \/ Name(p) \/ Ready(p) PROVE SpeedTyped'
  <2>1. CASE Spawn(p)
    BY <2>1 DEF Spawn, TestGoto, Holding
  <2>2. CASE Name(p)
    BY <2>2 DEF Name, TestGoto, Holding
  <2>3. CASE Ready(p)
    BY <2>3 DEF Ready, TestGoto, Holding, helpers, Waiting
  <2>4. QED
    BY <1>4, <2>1, <2>2, <2>3
<1>5. ASSUME NEW p \in Process, Stage(p) \/ Transfer(p) PROVE SpeedTyped'
  <2>1. CASE Stage(p)
    <3>1. PICK stage \in Testing : job' = StageSet(stage) /\ TestGoto(p, stage)
      BY <2>1 DEF Stage, NextStage, Testing
    <3>2. tpc' \in [Process -> {"idle", "prepare", "stages", "failed", "succeeded"} \cup Waiting \cup Holding]
      BY <3>1 DEF TestGoto, Holding
    <3>3. CASE ~job.running
      BY <2>1, <3>1, <3>2, <3>3 DEF Stage, StageSet, helpers
    <3>4. CASE job.running
      <4>1. job' = [job EXCEPT !.down = job'.down, !.stage = stage, !.current = NoProcess]
        BY <3>1, <3>4 DEF StageSet
      <4>2. job'.down \in Process \cup {NoProcess}
        BY <3>1, <3>4 DEF StageSet
      <4>3. UNCHANGED <<speedMu, kind, use, helper, pidFile, stray, booted>>
        BY <2>1 DEF Stage, helpers
      <4>4. QED
        BY <3>2, <4>1, <4>2, <4>3
    <3>5. QED
      BY <3>3, <3>4
  <2>2. CASE Transfer(p)
    BY <2>2 DEF Transfer, BytesAdded, locals, helpers
  <2>3. QED
    BY <1>5, <2>1, <2>2
<1>6. ASSUME NEW p \in Process, Done(p) PROVE SpeedTyped'
  BY <1>6, StopTyped, SpeedJobAssumption DEF Done, Release, TestGoto, After, NoUse, Waiting
<1>7. ASSUME NEW p \in Process, Fails(p) PROVE SpeedTyped'
  BY <1>7, StopTyped, SpeedJobAssumption DEF Fails, Release, TestGoto, NoUse, Waiting
<1>8. ASSUME NEW p \in Process, Finish(p) PROVE SpeedTyped'
  BY <1>8 DEF Finish, Reported, TestGoto, Kinds, helpers
<1>9. CASE StrayHelperExits
  BY <1>9 DEF StrayHelperExits, locals
<1>10. CASE SpeedCrash
  <2>1. job' = NoReport /\ use' = NoUse /\ booted' = FALSE
    BY <1>10 DEF SpeedCrash
  <2>2. 0 \in 0..MaxPaths
    BY SpeedJobAssumption
  <2>3. /\ job' \in [running : BOOLEAN, sessions : 0..MaxPaths,
                     stage : {"none", "preparing", "complete", "error"} \cup Testing,
                     owner : Process \cup {NoProcess}, current : Process \cup {NoProcess},
                     down : Process \cup {NoProcess}, up : Process \cup {NoProcess}]
        /\ ~job'.running
    BY <2>1, <2>2 DEF NoReport
  <2>4. use' \in [for : Waiting \cup {"none"}, paths : 0..MaxPaths]
    BY <2>1, <2>2 DEF NoUse
  <2>5. booted' \in BOOLEAN
    BY <2>1
  <2>6. /\ stray' \in [Path -> {"none", "alive", "unnamed", "dying"}]
        /\ pidFile' \in [Path -> {"none", "child", "stray"}]
        /\ helper' \in [Path -> {"none", "serving", "refused"}]
    BY <1>10 DEF SpeedCrash
  <2>7. QED
    BY <1>10, <2>3, <2>4, <2>5, <2>6 DEF SpeedCrash, Kinds
<1>11. CASE SpeedBoot
  BY <1>11 DEF SpeedBoot, Killed, locals
<1>12. CASE UNCHANGED speedVars
  BY <1>12 DEF speedVars, locals, helpers
<1>13. QED
  BY <1>1, <1>2, <1>3, <1>4, <1>5, <1>6, <1>7, <1>8, <1>9, <1>10, <1>11, <1>12
     DEF SpeedStep, SpeedNext, Test

-----------------------------------------------------------------------------
(* who holds speedMu *)

\* A process that does not hold speedMu goes where nobody does.
LEMMA Outside ==
  ASSUME SpeedTyped, Holder, NEW p \in Process, NEW label, TestGoto(p, label),
         tpc[p] \notin Busy, label \notin Busy, UNCHANGED <<speedMu, use>>
  PROVE  Holder'
<1>1. \A q \in Process : tpc'[q] = IF q = p THEN label ELSE tpc[q]
  BY DEF TestGoto, SpeedTyped, SpeedTypeOK
<1>2. QED
  BY <1>1 DEF Holder, Busy, Holding, Testing

\* The holder of speedMu goes on with it.
LEMMA Inside ==
  ASSUME SpeedTyped, Holder, NEW p \in Process, NEW label \in Busy, TestGoto(p, label),
         tpc[p] \in Busy, UNCHANGED <<speedMu, use>>,
         label \in Testing \cup {"stages"} => use.for = "test"
  PROVE  Holder'
<1>1. \A q \in Process : tpc'[q] = IF q = p THEN label ELSE tpc[q]
  BY DEF TestGoto, SpeedTyped, SpeedTypeOK
<1>2. QED
  BY <1>1 DEF Holder

\* The holder of speedMu gives it back.
LEMMA GivenBack ==
  ASSUME SpeedTyped, Holder, NEW p \in Process, NEW label, TestGoto(p, label),
         tpc[p] \in Busy, label \notin Busy, speedMu' = NoProcess, use' = NoUse
  PROVE  Holder'
<1>1. \A q \in Process : tpc'[q] = IF q = p THEN label ELSE tpc[q]
  BY DEF TestGoto, SpeedTyped, SpeedTypeOK
<1>2. \A q \in Process : tpc'[q] \notin Busy
  BY <1>1 DEF Holder
<1>3. QED
  BY <1>2, SpeedJobAssumption DEF Holder, Busy, Holding

\* Every step keeps the correspondence between speedMu and its holder.
LEMMA HolderStep == SpeedTyped /\ Holder /\ [SpeedStep]_speedVars => Holder'
<1> SUFFICES ASSUME SpeedTyped, Holder, [SpeedStep]_speedVars PROVE Holder'
  OBVIOUS
<1>1. ASSUME NEW p \in Process,
             StartJob(p) \/ Handle(p) \/ Prepared(p) \/ NotPrepared(p) \/ Finish(p)
      PROVE  Holder'
  <2>1. /\ tpc[p] \in {"idle", "prepare", "failed", "succeeded"}
        /\ UNCHANGED <<speedMu, use>>
        /\ \E label \in {"idle", "prepare", "failed", "pings", "test", "directory"} :
             TestGoto(p, label)
    BY <1>1 DEF StartJob, Handle, Prepared, NotPrepared, Finish
  <2>2. QED
    BY <2>1, Outside DEF Busy, Holding, Testing
<1>2. ASSUME NEW p \in Process, Acquire(p) PROVE Holder'
  <2>1. /\ \A q \in Process : tpc'[q] = IF q = p THEN "spawn" ELSE tpc[q]
        /\ speedMu = NoProcess /\ speedMu' = p /\ tpc[p] \in Waiting
        /\ use'.for = tpc[p] /\ use'.paths = IF tpc[p] = "test" THEN MaxPaths ELSE 1
    BY <1>2 DEF Acquire, TestGoto, SpeedTyped, SpeedTypeOK
  <2>2. \A q \in Process : tpc[q] \notin Busy
    BY <2>1, SpeedJobAssumption DEF Holder
  <2>3. \A q \in Process : tpc'[q] \in Busy <=> q = p
    BY <2>1, <2>2 DEF Busy, Holding
  <2>4. \A q \in Process : tpc'[q] \notin Testing \cup {"stages"}
    BY <2>1, <2>2 DEF Busy, Holding, Testing
  <2>5. QED
    BY <2>1, <2>3, <2>4, SpeedJobAssumption DEF Holder
<1>3. ASSUME NEW p \in Process, Spawn(p) \/ Name(p) \/ Ready(p) PROVE Holder'
  <2>1. /\ tpc[p] \in {"spawn", "name"} /\ UNCHANGED <<speedMu, use>>
        /\ \E label \in {"spawn", "name", "single", "stages"} :
             TestGoto(p, label) /\ (label = "stages" => use.for = "test")
    BY <1>3 DEF Spawn, Name, Ready
  <2>2. QED
    BY <2>1, Inside DEF Busy, Holding, Testing
<1>4. ASSUME NEW p \in Process, Stage(p) PROVE Holder'
  <2>1. /\ tpc[p] \in {"stages", "ping", "download"} /\ UNCHANGED <<speedMu, use>>
        /\ \E label \in Testing : TestGoto(p, label)
    BY <1>4 DEF Stage, NextStage, Testing
  <2>2. tpc[p] \in Busy /\ use.for = "test" /\ Testing \subseteq Busy
    BY <2>1 DEF Busy, Holding, Testing, Holder
  <2>3. QED
    BY <2>1, <2>2, Inside
<1>5. ASSUME NEW p \in Process, Done(p) \/ Fails(p) PROVE Holder'
  <2>1. /\ tpc[p] \in Busy /\ speedMu' = NoProcess /\ use' = NoUse
        /\ \E label \in {"pings", "test", "succeeded", "failed"} : TestGoto(p, label)
    BY <1>5 DEF Done, Fails, Release, After, Busy, Holding, Testing
  <2>2. QED
    BY <2>1, GivenBack DEF Busy, Holding, Testing
<1>6. ASSUME NEW p \in Process, Transfer(p) PROVE Holder'
  BY <1>6 DEF Transfer, locals, Holder
<1>7. CASE StrayHelperExits \/ UNCHANGED speedVars
  BY <1>7 DEF StrayHelperExits, speedVars, locals, Holder
<1>8. CASE SpeedCrash \/ SpeedBoot
  BY <1>8, SpeedJobAssumption DEF SpeedCrash, SpeedBoot, locals, Holder, Busy, Holding, Testing
<1>9. QED
  BY <1>1, <1>2, <1>3, <1>4, <1>5, <1>6, <1>7, <1>8 DEF SpeedStep, SpeedNext, Test

-----------------------------------------------------------------------------
(* which helpers are started *)

\* Where nothing is started, named or released, the helpers stay.
LEMMA HelpersStay ==
  ASSUME Helpers, UNCHANGED <<helper, pidFile, use, booted>>,
         \A p \in Process : tpc'[p] = "name" => tpc[p] = "name",
         booted \/ UNCHANGED tpc,
         \A n \in Path : stray'[n] = "alive" => stray[n] = "alive"
  PROVE  Helpers'
<1>1. Started' = Started
  BY DEF Started
<1>2. Strays'
  BY DEF Helpers, Strays
<1>3. QED
  BY <1>1, <1>2 DEF Helpers

\* Every step keeps the helpers a prefix of those asked for.
LEMMA HelpersStep == SpeedInv /\ [SpeedStep]_speedVars => Helpers'
<1> SUFFICES ASSUME SpeedInv, [SpeedStep]_speedVars PROVE Helpers'
  OBVIOUS
<1>a. SpeedTyped /\ Holder /\ Helpers
  BY DEF SpeedInv
<1>b. SpeedTyped' /\ Holder'
  BY <1>a, SpeedTypedStep, HolderStep
<1>1. ASSUME NEW p \in Process,
             \/ StartJob(p) \/ Handle(p) \/ Prepared(p) \/ NotPrepared(p) \/ Finish(p)
             \/ Ready(p) \/ Stage(p)
      PROVE  Helpers'
  <2>1. /\ UNCHANGED <<helper, pidFile, use, stray, booted>>
        /\ booted \/ tpc[p] # "idle"
        /\ \E label \in {"idle", "prepare", "failed", "pings", "test", "directory",
                         "single", "stages"} \cup Testing : TestGoto(p, label)
    BY <1>1 DEF StartJob, Handle, Prepared, NotPrepared, Finish, Ready, Stage, NextStage,
                Testing, helpers
  <2>2. \A q \in Process : tpc'[q] = "name" => tpc[q] = "name"
    BY <2>1, <1>a DEF TestGoto, Testing, SpeedTyped, SpeedTypeOK
  <2>3. booted
    BY <1>a, <2>1 DEF Helpers, Strays
  <2>4. QED
    BY <1>a, <2>1, <2>2, <2>3, HelpersStay
<1>2. ASSUME NEW p \in Process, Acquire(p) PROVE Helpers'
  <2>1. /\ \A q \in Process : tpc'[q] = IF q = p THEN "spawn" ELSE tpc[q]
        /\ speedMu = NoProcess /\ UNCHANGED <<helper, booted>>
        /\ pidFile' = [n \in Path |-> "none"] /\ stray' = Killed
        /\ tpc[p] # "idle"
    BY <1>2, <1>a DEF Acquire, TestGoto, SpeedTyped, SpeedTypeOK, Waiting
  <2>2. \A q \in Process : tpc[q] # "name"
    BY <2>1, <1>a, SpeedJobAssumption DEF Holder, Busy, Holding
  <2>3. use.paths = 0
    BY <2>1, <1>a DEF Holder, NoUse
  <2>4. Started = {}
    BY <2>3, <1>a DEF Helpers
  <2>5. helper' = [n \in Path |-> "none"]
    BY <2>1, <2>4, <1>a DEF Started, SpeedTyped, SpeedTypeOK
  <2>6. booted
    BY <2>1, <1>a DEF Helpers, Strays
  <2>7. booted' /\ \A n \in Path : stray'[n] # "alive"
    BY <2>1, <2>6, <1>a, NoneAlive
  <2>8. QED
    BY <2>1, <2>2, <2>5, <2>7, <1>b, NoneStarted
<1>3. ASSUME NEW p \in Process, Spawn(p) PROVE Helpers'
  <2>1. PICK k \in 0..use.paths : Started = 1..k
    BY <1>a DEF Helpers
  <2>2. k \in Nat /\ use.paths \in 0..MaxPaths /\ MaxPaths \in Nat
    BY <1>a, SpeedJobAssumption DEF SpeedTyped, SpeedTypeOK
  <2>3. Cardinality(Started) = k
    BY <2>1, <2>2, Counted
  <2>4. /\ k < use.paths /\ k + 1 \in Path
        /\ UNCHANGED <<pidFile, use, stray, booted>>
        /\ helper' = [helper EXCEPT ![k + 1] = IF stray[k + 1] = "none" THEN "serving" ELSE "refused"]
    BY <1>3, <2>2, <2>3 DEF Spawn, Path
  <2>5. Started' = Started \cup {k + 1}
    BY <2>4, <1>a DEF Started, SpeedTyped, SpeedTypeOK
  <2>6. Started' = 1..(k + 1) /\ k + 1 \in 0..use'.paths
    BY <2>1, <2>2, <2>4, <2>5
  <2>7. Started' # {} /\ (\A n \in Path : helper[n] # "none" => helper'[n] # "none")
    BY <2>4, <2>5, <1>a DEF SpeedTyped, SpeedTypeOK
  <2>8. booted
    BY <1>3, <1>a DEF Spawn, Helpers, Strays
  <2>9. Strays'
    BY <2>4, <2>8, <1>a DEF Helpers, Strays
  <2>10. QED
    BY <2>4, <2>6, <2>7, <2>9, <1>a DEF Helpers
<1>4. ASSUME NEW p \in Process, Name(p) PROVE Helpers'
  <2>1. PICK k \in 0..use.paths : Started = 1..k
    BY <1>a DEF Helpers
  <2>2. k \in Nat /\ use.paths \in Nat
    BY <1>a, SpeedJobAssumption DEF SpeedTyped, SpeedTypeOK
  <2>3. Cardinality(Started) = k
    BY <2>1, <2>2, Counted
  <2>4. Started # {}
    BY <1>4, <1>a DEF Name, Helpers
  <2>5. k \in Started
    BY <2>1, <2>2, <2>4
  <2>6. /\ pidFile' = [pidFile EXCEPT ![k] = "child"]
        /\ UNCHANGED <<helper, use, stray, booted>>
        /\ \A q \in Process : tpc'[q] = "name" => tpc[q] = "name"
    BY <1>4, <1>a, <2>3 DEF Name, TestGoto, SpeedTyped, SpeedTypeOK
  <2>7. \A n \in Path : pidFile'[n] = "child" => helper'[n] # "none"
    BY <2>5, <2>6, <1>a DEF Helpers, Started, SpeedTyped, SpeedTypeOK
  <2>8. Started' = Started
    BY <2>6 DEF Started
  <2>9. booted
    BY <1>4, <1>a DEF Name, Helpers, Strays
  <2>10. \A n \in Path : pidFile'[n] # "stray" /\ stray'[n] # "alive"
    BY <2>6, <2>9, <1>a DEF Helpers, Strays, SpeedTyped, SpeedTypeOK
  <2>11. Strays'
    BY <2>6, <2>9, <2>10 DEF Strays
  <2>12. QED
    BY <2>6, <2>7, <2>8, <2>11, <1>a DEF Helpers
<1>5. ASSUME NEW p \in Process, Done(p) \/ Fails(p) PROVE Helpers'
  <2>1. tpc[p] \in Busy /\ Stop(p) /\ speedMu' = NoProcess /\ UNCHANGED booted
    BY <1>5 DEF Done, Fails, Release, Busy, Holding, Testing
  <2>2. /\ helper' = [n \in Path |-> "none"] /\ pidFile' = [n \in Path |-> "none"]
        /\ UNCHANGED stray
    BY <2>1, StopIsEnough
  <2>3. \A q \in Process : tpc'[q] # "name"
    BY <2>1, <1>b, SpeedJobAssumption DEF Holder, Busy, Holding
  <2>4. booted
    BY <2>1, <1>a DEF Helpers, Strays, Busy, Holding, Testing
  <2>5. booted' /\ \A n \in Path : stray'[n] # "alive"
    BY <2>1, <2>2, <2>4, <1>a, NoneAlive
  <2>6. QED
    BY <2>2, <2>3, <2>5, <1>b, NoneStarted
<1>6. ASSUME NEW p \in Process, Transfer(p) PROVE Helpers'
  BY <1>6, <1>a, HelpersStay DEF Transfer, locals, helpers
<1>7. CASE UNCHANGED speedVars
  BY <1>7, <1>a, HelpersStay DEF speedVars, locals, helpers
<1>8. CASE StrayHelperExits
  <2>1. PICK n \in Path : stray[n] = "dying" /\ stray' = [stray EXCEPT ![n] = "none"]
    BY <1>8 DEF StrayHelperExits
  <2>2. \A m \in Path : stray'[m] = "alive" => stray[m] = "alive"
    BY <2>1, <1>a DEF SpeedTyped, SpeedTypeOK
  <2>3. QED
    BY <1>8, <2>2, <1>a, HelpersStay DEF StrayHelperExits, locals
<1>9. CASE SpeedCrash
  <2>1. /\ helper' = [n \in Path |-> "none"]
        /\ pidFile' = [n \in Path |-> IF n \in Named THEN "stray" ELSE "none"]
        /\ booted /\ ~booted' /\ \A p \in Process : tpc'[p] = "idle"
        /\ stray' = [n \in Path |-> IF n \in Named THEN "alive"
                                   ELSE IF helper[n] = "serving" THEN "unnamed" ELSE stray[n]]
    BY <1>9 DEF SpeedCrash
  <2>2. \A n \in Path : stray'[n] = "alive" => n \in Named
    BY <2>1, <1>a, NoneAlive
  <2>3. Strays'
    BY <2>1, <2>2 DEF Strays
  <2>4. Started' = {}
    BY <2>1 DEF Started
  <2>5. Started' = 1..0 /\ 0 \in 0..use'.paths
    BY <2>4, <1>b, SpeedJobAssumption DEF SpeedTyped, SpeedTypeOK
  <2>6. QED
    BY <2>1, <2>3, <2>5 DEF Helpers
<1>10. CASE SpeedBoot
  <2>1. /\ UNCHANGED <<helper, use, tpc>> /\ booted' /\ ~booted
        /\ pidFile' = [n \in Path |-> "none"] /\ stray' = Killed
    BY <1>10 DEF SpeedBoot, locals
  <2>2. \A n \in Path : stray'[n] # "alive"
    BY <2>1, <1>a DEF Killed, Helpers, Strays
  <2>3. Strays'
    BY <2>1, <2>2 DEF Strays
  <2>4. Started' = Started
    BY <2>1 DEF Started
  <2>5. QED
    BY <2>1, <2>3, <2>4, <1>a DEF Helpers
<1>11. QED
  BY <1>1, <1>2, <1>3, <1>4, <1>5, <1>6, <1>7, <1>8, <1>9, <1>10 DEF SpeedStep, SpeedNext, Test

-----------------------------------------------------------------------------
(* the report *)

\* Every step keeps the report the running job's own.
LEMMA ReportStep == SpeedTyped /\ ReportIsOwn /\ [SpeedStep]_speedVars => ReportIsOwn'
<1> SUFFICES ASSUME SpeedTyped, ReportIsOwn, [SpeedStep]_speedVars PROVE ReportIsOwn'
  OBVIOUS
<1>a. /\ tpc = [q \in Process |-> tpc[q]] /\ kind = [q \in Process |-> kind[q]]
      /\ job.running => job.owner \in Process
  BY DEF SpeedTyped, SpeedTypeOK
<1>1. ASSUME NEW p \in Process, StartJob(p) PROVE ReportIsOwn'
  <2>1. /\ ~job.running /\ job'.running /\ job'.owner = p /\ job'.stage = "preparing"
        /\ tpc'[p] = "prepare"
        /\ \A q \in Process : kind'[q] = IF q = p THEN "job" ELSE kind[q]
    BY <1>1, <1>a DEF StartJob, TestGoto, NoReport
  <2>2. QED
    BY <2>1 DEF ReportIsOwn
<1>2. ASSUME NEW p \in Process, Handle(p) PROVE ReportIsOwn'
  <2>1. /\ tpc[p] = "idle" /\ UNCHANGED job
        /\ kind'[p] # "job" /\ tpc'[p] = "prepare"
        /\ \A q \in Process \ {p} : kind'[q] = kind[q] /\ tpc'[q] = tpc[q]
    BY <1>2, <1>a DEF Handle, TestGoto
  <2>2. QED
    BY <2>1, <1>a DEF ReportIsOwn
<1>3. ASSUME NEW p \in Process, NEW label, label # "idle", TestGoto(p, label), UNCHANGED kind,
             \/ UNCHANGED job
             \/ /\ job.running /\ job'.running /\ job'.owner = job.owner
                /\ \/ job'.stage # "complete"
                   \/ job'.stage = job.stage /\ job'.down = job.down /\ job'.up = job.up
      PROVE  ReportIsOwn'
  <2>1. \A q \in Process : tpc'[q] = IF q = p THEN label ELSE tpc[q]
    BY <1>3, <1>a DEF TestGoto
  <2>2. QED
    BY <1>3, <2>1, <1>a DEF ReportIsOwn, Testing
<1>4. ASSUME NEW p \in Process,
             \/ Prepared(p) \/ NotPrepared(p) \/ Acquire(p) \/ Spawn(p) \/ Name(p)
             \/ Done(p) \/ Fails(p)
      PROVE  ReportIsOwn'
  <2>1. /\ UNCHANGED <<job, kind>>
        /\ \E label \in {"pings", "test", "directory", "failed", "spawn", "name",
                         "succeeded"} : TestGoto(p, label)
    BY <1>4 DEF Prepared, NotPrepared, Acquire, Spawn, Name, Done, Fails, After
  <2>2. QED
    BY <2>1, <1>3
<1>5. ASSUME NEW p \in Process, Stage(p) PROVE ReportIsOwn'
  <2>1. PICK stage \in Testing : job' = StageSet(stage) /\ TestGoto(p, stage) /\ UNCHANGED kind
    BY <1>5 DEF Stage, NextStage, Testing
  <2>2. CASE ~job.running
    BY <2>1, <2>2, <1>3 DEF StageSet, Testing
  <2>3. CASE job.running
    <3>1. job'.running /\ job'.owner = job.owner /\ job'.stage = stage
      BY <2>1, <2>3 DEF StageSet, SpeedTyped, SpeedTypeOK
    <3>2. QED
      BY <2>1, <2>3, <3>1, <1>3 DEF Testing
  <2>4. QED
    BY <2>2, <2>3
<1>6. ASSUME NEW p \in Process, Transfer(p) PROVE ReportIsOwn'
  <2>1. UNCHANGED <<tpc, kind>> /\ job' = BytesAdded(p)
    BY <1>6 DEF Transfer, locals
  <2>2. CASE job.running /\ job.stage \in {"download", "upload"}
    <3>1. job' = [job EXCEPT !.current = p]
      BY <2>1, <2>2 DEF BytesAdded
    <3>2. \A f \in {"running", "owner", "stage", "down", "up"} : job'[f] = job[f]
      BY <3>1 DEF SpeedTyped, SpeedTypeOK
    <3>3. QED
      BY <2>1, <3>2 DEF ReportIsOwn
  <2>3. CASE ~(job.running /\ job.stage \in {"download", "upload"})
    BY <2>1, <2>3 DEF BytesAdded, ReportIsOwn
  <2>4. QED
    BY <2>2, <2>3
<1>7. ASSUME NEW p \in Process, Finish(p) PROVE ReportIsOwn'
  <2>1. /\ kind'[p] = "single"
        /\ \A q \in Process \ {p} : kind'[q] = kind[q] /\ tpc'[q] = tpc[q]
        /\ job' = IF kind[p] = "job" THEN Reported(p) ELSE job
    BY <1>7, <1>a DEF Finish, TestGoto
  <2>2. CASE kind[p] = "job"
    <3>1. job.owner = p /\ ~job'.running /\ job'.owner = job.owner
      BY <2>1, <2>2 DEF Reported, SpeedTyped, SpeedTypeOK, ReportIsOwn
    <3>2. job'.stage = "complete" => job'.down = p /\ job'.up = p
      BY <2>1, <2>2 DEF Reported, SpeedTyped, SpeedTypeOK
    <3>3. \A q \in Process : kind'[q] # "job"
      BY <2>1, <3>1 DEF ReportIsOwn
    <3>4. QED
      BY <3>1, <3>2, <3>3 DEF ReportIsOwn
  <2>3. CASE kind[p] # "job"
    BY <2>1, <2>3, <1>a DEF ReportIsOwn
  <2>4. QED
    BY <2>2, <2>3
<1>8. CASE StrayHelperExits \/ UNCHANGED speedVars
  BY <1>8 DEF StrayHelperExits, speedVars, locals, ReportIsOwn
<1>9. CASE SpeedCrash
  BY <1>9 DEF SpeedCrash, NoReport, ReportIsOwn
<1>10. CASE SpeedBoot
  BY <1>10 DEF SpeedBoot, locals, ReportIsOwn
<1>11. ASSUME NEW p \in Process, Ready(p) PROVE ReportIsOwn'
  <2>1. /\ UNCHANGED kind /\ TestGoto(p, IF use.for = "test" THEN "stages" ELSE "single")
        /\ job' = IF job.running THEN [job EXCEPT !.sessions = use.paths] ELSE job
    BY <1>11 DEF Ready
  <2>2. CASE ~job.running
    BY <2>1, <2>2, <1>3
  <2>3. CASE job.running
    <3>1. /\ job'.running /\ job'.owner = job.owner
          /\ job'.stage = job.stage /\ job'.down = job.down /\ job'.up = job.up
      BY <2>1, <2>3 DEF SpeedTyped, SpeedTypeOK
    <3>2. QED
      BY <2>1, <2>3, <3>1, <1>3
  <2>4. QED
    BY <2>2, <2>3
<1>12. QED
  BY <1>1, <1>2, <1>4, <1>5, <1>6, <1>7, <1>8, <1>9, <1>10, <1>11 DEF SpeedStep, SpeedNext, Test

\* The initial state of the speed tests.
LEMMA SpeedInvInit == SpeedInit => SpeedInv
<1> SUFFICES ASSUME SpeedInit PROVE SpeedInv
  OBVIOUS
<1>1. SpeedTyped
  BY SpeedJobAssumption DEF SpeedInit, SpeedTyped, SpeedTypeOK, NoReport, NoUse, Kinds
<1>2. Holder
  BY SpeedJobAssumption DEF SpeedInit, Holder, Busy, Holding, Testing
<1>3. Started = 1..0 /\ 0 \in 0..use.paths
  BY DEF SpeedInit, Started, NoUse
<1>4. Helpers
  BY <1>3 DEF SpeedInit, Helpers, Strays
<1>5. ReportIsOwn
  BY DEF SpeedInit, ReportIsOwn, NoReport
<1>6. QED
  BY <1>1, <1>2, <1>4, <1>5 DEF SpeedInv

\* A step of the whole is a step of the speed tests, or leaves them alone.
LEMMA SpeedMoves == [Next]_vars => [SpeedStep]_speedVars
BY DEF Next, vars, SpeedStep

\* The invariant of the speed tests is inductive.
THEOREM SpeedInductive == Spec => []SpeedInv
<1>1. Init => SpeedInv
  BY SpeedInvInit DEF Init
<1>2. SpeedInv /\ [Next]_vars => SpeedInv'
  BY SpeedMoves, SpeedTypedStep, HolderStep, HelpersStep, ReportStep DEF SpeedInv
<1>3. QED
  BY <1>1, <1>2, PTL DEF Spec

(***************************************************************************)
(* No helper outlives the test it was started for, whichever of the ways   *)
(* out of measure, handleSpeedRun and runSpeedJob it takes, and each one   *)
(* is known by its file: for any number of sessions to test through.       *)
(***************************************************************************)
THEOREM HelpersAreStopped == Spec => []HelpersBelongToTest
<1>1. SpeedInv => HelpersBelongToTest
  <2> SUFFICES ASSUME SpeedInv PROVE HelpersBelongToTest
    OBVIOUS
  <2>1. PICK k \in 0..use.paths : Started = 1..k
    BY DEF SpeedInv, Helpers
  <2>2. k \in Nat /\ use.paths \in Nat /\ k <= use.paths
    BY SpeedJobAssumption DEF SpeedInv, SpeedTyped, SpeedTypeOK
  <2>3. Cardinality(Started) <= use.paths
    BY <2>1, <2>2, Counted
  <2>4. speedMu = NoProcess => Started = {}
    BY <2>1, <2>2 DEF SpeedInv, Holder, NoUse
  <2>5. booted => \A n \in Path : stray[n] # "alive"
    BY NoneAlive DEF SpeedInv
  <2>6. QED
    BY <2>3, <2>4, <2>5 DEF SpeedInv, Helpers, HelpersBelongToTest
<1>2. QED
  BY SpeedInductive, <1>1, PTL

(***************************************************************************)
(* The report of a completed job holds the speeds of that job, whatever    *)
(* tests the handlers run with the same setters meanwhile.  While the job  *)
(* runs, the handlers' stages, bytes and sessions show in it.              *)
(***************************************************************************)
THEOREM ReportBelongsToJob == Spec => []ReportIsOwn
<1>1. SpeedInv => ReportIsOwn
  BY DEF SpeedInv
<1>2. QED
  BY SpeedInductive, <1>1, PTL

(***************************************************************************)
(* A finished report changes only with the next job, or is forgotten by a  *)
(* restart: stages and bytes of a handler's test do not touch it.          *)
(***************************************************************************)
THEOREM FinishedReportIsKept == Spec => FinishedReportStays
<1>1. SpeedInv /\ [Next]_vars => [~job.running /\ ~job'.running => job' \in {job, NoReport}]_speedVars
  <2> SUFFICES ASSUME SpeedInv, SpeedStep, ~job.running, ~job'.running
               PROVE  job' \in {job, NoReport}
    BY SpeedMoves
  <2>1. \A p \in Process : kind[p] # "job"
    BY DEF SpeedInv, ReportIsOwn
  <2>2. ASSUME NEW p \in Process, SpeedNext PROVE job' = job \/ StartJob(p) \/ job'.running \/ SpeedCrash
    BY <2>1, <2>2 DEF SpeedNext, Handle, Test, Transfer, Prepared, NotPrepared, Acquire, Spawn, Name,
       Ready, Stage, StageSet, BytesAdded, Done, Fails, Finish, StrayHelperExits, StartJob, NoReport,
       SpeedCrash
  <2>3. QED
    BY <2>2 DEF SpeedStep, SpeedBoot, SpeedNext, SpeedCrash, StrayHelperExits, StartJob, NoReport
<1>2. QED
  BY SpeedInductive, <1>1, PTL DEF Spec, FinishedReportStays

-----------------------------------------------------------------------------
(* traffic accounting *)

\* The types of the counters.
TrafficTyped ==
  /\ counter \in 0..NoTable /\ previous \in 0..Unsampled
  /\ total \in Nat /\ saved \in Nat /\ carried \in 0..MaxBytes
  /\ missed \in BOOLEAN
  /\ changes \in 0..MaxChanges /\ bytes \in 0..MaxBytes
  /\ saved <= total

\* No table has counted, and no reading has seen, more than the environment carries.
Bounds ==
  /\ counter # NoTable => counter + bytes <= MaxBytes
  /\ carried + bytes <= MaxBytes
  /\ previous # Unsampled => previous <= MaxBytes

TrafficInv == TrafficTyped /\ Bounds /\ NeverCountedTwice

\* What is still to be read is never negative.
LEMMA UnreadNat ==
  ASSUME TrafficTyped, Bounds
  PROVE  Unread \in Nat /\ Reading \in 0..MaxBytes
BY TrafficAssumption DEF TrafficTyped, Bounds, Unread, Added, Delta, Reading, NoTable, Unsampled

\* Every step of the sampler, the traffic, the table and a restart keeps the account.
LEMMA TrafficStep ==
  ASSUME TrafficInv, TrafficNext \/ Reload \/ UNCHANGED trafficVars
  PROVE  TrafficInv'
<1>a. MaxBytes \in Nat /\ MaxChanges \in Nat /\ NoTable = MaxBytes + 1 /\ Unsampled = MaxBytes + 2
  BY TrafficAssumption DEF NoTable, Unsampled
<1>b. TrafficTyped /\ Bounds /\ NeverCountedTwice /\ Unread \in Nat /\ Reading \in 0..MaxBytes
  BY UnreadNat DEF TrafficInv
<1>1. CASE Sample
  <2>1. /\ total' = total + Unread /\ previous' = Reading /\ Reading' = Reading
        /\ UNCHANGED <<counter, saved, carried, missed, changes, bytes>>
    BY <1>1 DEF Sample, Unread, Reading
  <2>2. Unread' = 0
    BY <2>1, <1>a, <1>b DEF Unread, Added, Delta
  <2>3. TrafficTyped' /\ Bounds'
    BY <2>1, <1>a, <1>b DEF TrafficTyped, Bounds, NoTable, Unsampled
  <2>4. NeverCountedTwice'
    BY <2>1, <2>2, <1>b DEF NeverCountedTwice, TrafficTyped
  <2>5. QED
    BY <2>3, <2>4 DEF TrafficInv
<1>2. CASE SampleFails
  <2>1. /\ previous' = 0 /\ missed' = (missed \/ counter # NoTable) /\ changes' = changes - 1
        /\ changes > 0 /\ UNCHANGED <<counter, total, saved, carried, bytes>>
    BY <1>2 DEF SampleFails
  <2>2. missed' \in BOOLEAN
    BY <2>1
  <2>3. TrafficTyped' /\ Bounds'
    BY <2>1, <2>2, <1>a, <1>b DEF TrafficTyped, Bounds, NoTable, Unsampled
  <2>4. ~missed' => ~missed /\ counter' = NoTable
    BY <2>1
  <2>5. ~missed' => Unread' = 0
    <3>1. previous' # Unsampled
      BY <2>1, <1>a
    <3>2. counter' = NoTable => Reading' = 0
      BY DEF Reading, NoTable
    <3>3. QED
      BY <2>1, <2>4, <3>1, <3>2 DEF Unread, Added, Delta, Unsampled
  <2>6. NeverCountedTwice'
    BY <2>1, <2>4, <2>5, <1>b DEF NeverCountedTwice, TrafficTyped
  <2>7. QED
    BY <2>3, <2>6 DEF TrafficInv
<1>3. CASE Save
  <2>1. saved' = total /\ UNCHANGED <<counter, previous, total, carried, missed, changes, bytes>>
    BY <1>3 DEF Save
  <2>2. QED
    BY <2>1, <1>b DEF TrafficInv, TrafficTyped, Bounds, NeverCountedTwice, Unread, Added, Delta,
                      Reading, NoTable, Unsampled
<1>4. CASE Carry
  <2>1. /\ counter # NoTable /\ bytes > 0 /\ bytes' = bytes - 1
        /\ counter' = counter + 1 /\ carried' = carried + 1
        /\ UNCHANGED <<previous, total, saved, missed, changes>>
    BY <1>4 DEF Carry
  <2>2. TrafficTyped' /\ Bounds'
    BY <2>1, <1>a, <1>b DEF TrafficTyped, Bounds, NoTable, Unsampled
  <2>3. Unread' <= Unread + 1
    BY <2>1, <2>2, <1>a, <1>b DEF TrafficTyped, Bounds, Unread, Added, Delta, Reading, NoTable,
                                  Unsampled
  <2>4. Unread' \in Nat
    <3>1. Reading' = counter + 1 /\ counter \in Nat
      BY <2>1, <2>2, <1>a, <1>b DEF Bounds, TrafficTyped, Reading, NoTable
    <3>2. previous \in Nat
      BY <1>a, <1>b DEF TrafficTyped
    <3>3. QED
      BY <2>1, <3>1, <3>2 DEF Unread, Added, Delta, Unsampled
  <2>5. NeverCountedTwice'
    <3>1. total \in Nat /\ carried \in Nat /\ Unread \in Nat
      BY <1>a, <1>b DEF TrafficTyped
    <3>2. total + Unread <= carried => total' + Unread' <= carried'
      <4>1. total' = total /\ carried' = carried + 1
        BY <2>1
      <4>2. ASSUME NEW u \in Nat, NEW v \in Nat, v <= u + 1, total + u <= carried
            PROVE  total + v <= carried + 1
        BY <3>1, <4>2
      <4>3. QED
        BY <2>3, <2>4, <3>1, <4>1, <4>2
    <3>3. ~missed' => ~missed
      BY <2>1
    <3>4. ~missed => total + Unread <= carried
      BY <1>b DEF NeverCountedTwice
    <3>5. ~missed' => total' + Unread' <= carried'
      BY <3>2, <3>3, <3>4, Zenon
    <3>6. QED
      BY <3>5 DEF NeverCountedTwice
  <2>6. QED
    BY <2>2, <2>5 DEF TrafficInv
<1>5. CASE ChangeTable
  <2>1. /\ changes > 0 /\ changes' = changes - 1 /\ counter' \in {0, NoTable}
        /\ UNCHANGED <<previous, total, saved, carried, missed, bytes>>
    BY <1>5 DEF ChangeTable
  <2>2. counter' = 0 \/ counter' = NoTable
    BY <2>1
  <2>3. TrafficTyped' /\ Bounds'
    <3>1. counter' \in 0..NoTable /\ (counter' # NoTable => counter' + bytes <= MaxBytes)
      BY <2>2, <1>a, <1>b DEF TrafficTyped
    <3>2. changes' \in 0..MaxChanges
      BY <2>1, <1>a, <1>b DEF TrafficTyped
    <3>3. QED
      BY <2>1, <3>1, <3>2, <1>b DEF TrafficTyped, Bounds, NoTable, Unsampled
  <2>4. Unread' = 0
    <3>1. Reading' = 0
      BY <2>2 DEF Reading, NoTable
    <3>2. previous \in Nat
      BY <1>a, <1>b DEF TrafficTyped
    <3>3. QED
      BY <2>1, <3>1, <3>2 DEF Unread, Added, Delta, Unsampled
  <2>5. NeverCountedTwice'
    BY <2>1, <2>4, <1>b DEF NeverCountedTwice, TrafficTyped
  <2>6. QED
    BY <2>3, <2>5 DEF TrafficInv
<1>6. CASE Reload
  <2>1. /\ total' = saved /\ previous' = Unsampled
        /\ UNCHANGED <<counter, saved, carried, missed, changes, bytes>>
    BY <1>6 DEF Reload
  <2>2. TrafficTyped' /\ Bounds'
    BY <2>1, <1>a, <1>b DEF TrafficTyped, Bounds, NoTable, Unsampled
  <2>3. Unread' = 0
    BY <2>1 DEF Unread, Added, Unsampled
  <2>4. NeverCountedTwice'
    BY <2>1, <2>3, <1>b DEF NeverCountedTwice, TrafficTyped
  <2>5. QED
    BY <2>2, <2>4 DEF TrafficInv
<1>7. CASE UNCHANGED trafficVars
  BY <1>7 DEF trafficVars, TrafficInv, TrafficTyped, Bounds, NeverCountedTwice, Unread, Added, Delta,
              Reading, NoTable, Unsampled
<1>8. QED
  BY <1>1, <1>2, <1>3, <1>4, <1>5, <1>6, <1>7 DEF TrafficNext, Sampler

\* The account is an inductive invariant of its own: it asks nothing of the speed tests.
THEOREM TrafficInductive == Spec => []TrafficInv
<1>1. Init => TrafficInv
  <2> SUFFICES ASSUME TrafficInit PROVE TrafficInv
    BY DEF Init
  <2>1. MaxBytes \in Nat /\ MaxChanges \in Nat
    BY TrafficAssumption
  <2>2. missed \in BOOLEAN
    BY DEF TrafficInit
  <2>3. /\ counter = 0 /\ previous = MaxBytes + 2 /\ total = 0 /\ saved = 0 /\ carried = 0
        /\ changes \in 0..MaxChanges /\ bytes \in 0..MaxBytes
    BY DEF TrafficInit, Unsampled
  <2>4. TrafficTyped /\ Bounds
    BY <2>1, <2>2, <2>3 DEF TrafficTyped, Bounds, NoTable, Unsampled
  <2>5. Unread = 0
    BY DEF TrafficInit, Unread, Added
  <2>6. QED
    BY <2>4, <2>5 DEF TrafficInit, TrafficInv, NeverCountedTwice
<1>2. TrafficInv /\ [Next]_vars => TrafficInv'
  BY TrafficStep DEF Next, vars
<1>3. QED
  BY <1>1, <1>2, PTL DEF Spec

(***************************************************************************)
(* Type correctness of the counters and of the speed tests: no counter     *)
(* goes below zero and traffic.json never runs ahead of the totals.        *)
(***************************************************************************)
THEOREM TypeCorrect == Spec => []TypeOK
<1>1. SpeedInv /\ TrafficInv => TypeOK
  BY DEF SpeedInv, SpeedTyped, TrafficInv, TrafficTyped, TypeOK
<1>2. QED
  BY SpeedInductive, TrafficInductive, <1>1, PTL

(***************************************************************************)
(* Nothing is counted twice, whatever is restarted, replaced or tested in  *)
(* between, as long as nft never fails while the table is there.           *)
(***************************************************************************)
THEOREM TrafficIsCountedOnce == Spec => []NeverCountedTwice
<1>1. TrafficInv => NeverCountedTwice
  BY DEF TrafficInv
<1>2. QED
  BY TrafficInductive, <1>1, PTL

\* The kernel's counter is what the sampler reads, and it is at least the last reading.
LEMMA Forward ==
  ASSUME TrafficTyped, Bounds, previous # Unsampled, counter >= previous
  PROVE  Unread = IF counter = NoTable THEN 0 ELSE counter - previous
<1>1. previous \in Nat /\ counter \in Nat /\ (previous # 0 => previous > 0)
  BY TrafficAssumption DEF TrafficTyped, NoTable, Unsampled
<1>2. CASE counter = NoTable
  <2>1. Reading = 0
    BY <1>2 DEF Reading
  <2>2. QED
    BY <1>1, <1>2, <2>1 DEF Unread, Added, Delta
<1>3. CASE counter # NoTable
  <2>1. Reading = counter
    BY <1>3 DEF Reading
  <2>2. QED
    BY <1>1, <1>3, <2>1 DEF Unread, Added, Delta
<1>4. QED
  BY <1>2, <1>3

(***************************************************************************)
(* Whatever the sampler skips while jobs run, and however long: a step     *)
(* that leaves the table and the daemon in place, and in which nft does    *)
(* not fail, loses nothing of what was carried.                            *)
(***************************************************************************)
THEOREM NothingIsLost == Spec => PausesLoseNothing
<1> DEFINE Kept ==
      /\ previous # Unsampled /\ previous' # Unsampled
      /\ counter >= previous /\ (counter' = counter \/ carried' # carried)
      /\ ~missed'
<1>1. ASSUME TrafficInv, TrafficInv', Kept, TrafficNext \/ Reload \/ UNCHANGED trafficVars
      PROVE  Lost' = Lost
  <2>a. /\ MaxBytes \in Nat /\ NoTable = MaxBytes + 1 /\ Unsampled = MaxBytes + 2
        /\ TrafficTyped /\ Bounds /\ Unread \in Nat
        /\ total \in Nat /\ carried \in Nat
    BY <1>1, UnreadNat, TrafficAssumption DEF TrafficInv, TrafficTyped, NoTable, Unsampled
  <2>b. Unread = IF counter = NoTable THEN 0 ELSE counter - previous
    BY <1>1, <2>a, Forward
  <2>1. CASE Sample
    <3>1. total' = total + Unread /\ previous' = Reading /\ Reading' = Reading /\ carried' = carried
      BY <2>1 DEF Sample, Unread, Reading
    <3>2. Reading \in Nat
      BY <2>a, UnreadNat
    <3>3. Unread' = 0
      BY <1>1, <3>1, <3>2 DEF Unread, Added, Delta, Unsampled
    <3>4. QED
      BY <2>a, <3>1, <3>3 DEF Lost
  <2>2. CASE SampleFails
    <3>1. counter = NoTable /\ previous' = 0 /\ UNCHANGED <<counter, total, carried>>
      BY <1>1, <2>2 DEF SampleFails
    <3>2. Reading' = 0
      BY <3>1 DEF Reading, NoTable
    <3>3. Unread' = 0 /\ Unread = 0
      BY <1>1, <2>b, <3>1, <3>2 DEF Unread, Added, Delta, Unsampled
    <3>4. QED
      BY <3>1, <3>3 DEF Lost
  <2>3. CASE Carry
    <3>1. /\ counter # NoTable /\ counter' = counter + 1 /\ carried' = carried + 1
          /\ bytes > 0 /\ UNCHANGED <<previous, total>>
      BY <2>3 DEF Carry
    <3>2. counter \in Nat /\ counter' # NoTable /\ previous \in Nat /\ bytes \in Nat
      BY <2>a, <3>1 DEF TrafficTyped, Bounds
    <3>3. Reading' = counter + 1
      BY <3>1, <3>2 DEF Reading, NoTable
    <3>4. Unread' = counter + 1 - previous
      BY <1>1, <3>1, <3>2, <3>3 DEF Unread, Added, Delta, Unsampled
    <3>5. Unread = counter - previous
      BY <2>b, <3>1
    <3>6. QED
      BY <2>a, <3>1, <3>2, <3>4, <3>5 DEF Lost
  <2>4. CASE Save \/ UNCHANGED trafficVars
    BY <2>4 DEF Save, trafficVars, Lost, Unread, Added, Delta, Reading, NoTable, Unsampled
  <2>5. CASE ChangeTable
    BY <1>1, <2>5 DEF ChangeTable
  <2>6. CASE Reload
    BY <1>1, <2>6 DEF Reload
  <2>7. QED
    BY <1>1, <2>1, <2>2, <2>3, <2>4, <2>5, <2>6 DEF TrafficNext, Sampler
<1>2. TrafficInv /\ TrafficInv' /\ [Next]_vars => [Kept => Lost' = Lost]_vars
  BY <1>1 DEF Next, vars
<1>3. QED
  BY TrafficInductive, <1>2, PTL DEF Spec, PausesLoseNothing
=============================================================================
