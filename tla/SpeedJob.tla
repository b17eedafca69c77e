------------------------------ MODULE SpeedJob ------------------------------
(***************************************************************************)
(* The speed tests: speedjob.go, speedtest.go, regiontest.go and their     *)
(* handlers in server.go.  A job runs in a goroutine of its own; the       *)
(* handlers that test at once, list servers or ask for the exit region     *)
(* use the same ss-local helpers, one user at a time under speedMu, and    *)
(* the same setters of the job's report.                                   *)
(*                                                                         *)
(* A measurement is named by the process that took it, a test by the       *)
(* stages it goes through; HTTP requests only succeed or fail.             *)
(***************************************************************************)
EXTENDS Naturals, FiniteSets

CONSTANTS
  Process, NoProcess,        \* goroutines that test; nobody
  MaxPaths,                  \* the helpers of a test: one for each session
  MaxTests, MaxTestFaults    \* bounds of the environment

Path == 1..MaxPaths
Kinds == {"job", "test", "single"}
Waiting == {"directory", "pings", "test"}          \* for speedMu
Testing == {"ping", "download", "upload"}
Holding == {"spawn", "name", "single"} \cup Testing

ASSUME SpeedJobAssumption ==
  /\ NoProcess \notin Process
  /\ MaxPaths \in Nat \ {0}
  /\ {MaxTests, MaxTestFaults} \subseteq Nat

VARIABLES
  job,        \* speedJob.State; owner: the goroutine it was started for
  speedMu,
  tpc, kind,  \* where a process is, and in what
  use,        \* what it takes speedMu for, and with how many helpers
  helper,     \* the holder's children: "none", "serving", or "refused": its port is taken
  pidFile,    \* "none", "child", or "stray": of a daemon that died
  stray,      \* helpers of a dead daemon: "none", "alive", "unnamed" if it died before
              \* their file was written, "dying"
  booted,     \* the daemon runs, and its start is done with the helpers
  tbudget

helpers == <<helper, pidFile, stray>>
locals == <<tpc, kind, use>>
speedVars == <<job, speedMu, locals, helpers, booted, tbudget>>

NoReport == [running |-> FALSE, owner |-> NoProcess, stage |-> "none", sessions |-> 0,
             current |-> NoProcess, down |-> NoProcess, up |-> NoProcess]
NoUse == [for |-> "none", paths |-> 0]

SpeedInit ==
  /\ job = NoReport
  /\ speedMu = NoProcess
  /\ tpc = [p \in Process |-> "idle"] /\ kind = [p \in Process |-> "single"]
  /\ use = NoUse
  /\ helper = [n \in Path |-> "none"]
  /\ pidFile = [n \in Path |-> "none"]
  /\ stray = [n \in Path |-> "none"]
  /\ booted = TRUE
  /\ tbudget \in [test : 0..MaxTests, fault : 0..MaxTestFaults]

SpendTest(what) == tbudget[what] > 0 /\ tbudget' = [tbudget EXCEPT ![what] = @ - 1]
TestGoto(p, label) == tpc' = [tpc EXCEPT ![p] = label]

-----------------------------------------------------------------------------
(* the job's report; every setter looks at Running first *)

\* Seeded error: a stage is recorded whether or not a job runs.
StageSetAlways(stage) ==
  [job EXCEPT !.down = IF stage = "upload" /\ job.stage = "download" THEN job.current ELSE @,
              !.stage = stage, !.current = NoProcess]

\* setSpeedStage
StageSet(stage) ==
  IF ~job.running THEN job
  ELSE [job EXCEPT !.down = IF stage = "upload" /\ job.stage = "download" THEN job.current ELSE @,
                   !.stage = stage, !.current = NoProcess]

\* addSpeedBytes, when 50 ms have gone by
BytesAdded(p) ==
  IF job.running /\ job.stage \in {"download", "upload"} THEN [job EXCEPT !.current = p] ELSE job

-----------------------------------------------------------------------------
(* the helpers; speedMu is held *)

\* stopSpeedSOCKSPool: kill and wait for each, remove the three files.
StopPool ==
  /\ helper' = [n \in Path |-> "none"]
  /\ pidFile' = [n \in Path |-> "none"]
  /\ UNCHANGED stray

\* stopSpeedSOCKS: the only helper, and its file if it names it.
StopOnly ==
  /\ helper' = [helper EXCEPT ![1] = "none"]
  /\ pidFile' = [pidFile EXCEPT ![1] = IF @ = "child" THEN "none" ELSE @]
  /\ UNCHANGED stray

Stop(p) == IF use.for = "test" \/ tpc[p] \in {"spawn", "name"} THEN StopPool ELSE StopOnly

\* Seeded error: only the file of the first helper is looked at.
KilledFirst ==
  [n \in Path |-> IF n = 1 /\ pidFile[n] = "stray" /\ stray[n] = "alive" THEN "dying" ELSE stray[n]]

\* cleanupStaleSpeedSOCKS kills what a file names, and does not wait.
Killed == [n \in Path |-> IF pidFile[n] = "stray" /\ stray[n] = "alive" THEN "dying" ELSE stray[n]]

Acquire(p) ==
  /\ tpc[p] \in Waiting
  /\ speedMu = NoProcess
  /\ speedMu' = p
  /\ stray' = Killed /\ pidFile' = [n \in Path |-> "none"]
  /\ use' = [for |-> tpc[p], paths |-> IF tpc[p] = "test" THEN MaxPaths ELSE 1]
  /\ TestGoto(p, "spawn")
  /\ UNCHANGED <<job, kind, helper, booted, tbudget>>

Started == {n \in Path : helper[n] # "none"}

Spawn(p) ==
  /\ tpc[p] = "spawn"
  /\ Cardinality(Started) < use.paths
  /\ LET n == Cardinality(Started) + 1 IN
       helper' = [helper EXCEPT ![n] = IF stray[n] = "none" THEN "serving" ELSE "refused"]
  /\ TestGoto(p, "name")
  /\ UNCHANGED <<job, speedMu, kind, use, pidFile, stray, booted, tbudget>>

Name(p) ==
  /\ tpc[p] = "name"
  /\ pidFile' = [pidFile EXCEPT ![Cardinality(Started)] = "child"]
  /\ TestGoto(p, "spawn")
  /\ UNCHANGED <<job, speedMu, kind, use, helper, stray, booted, tbudget>>

\* Half a second later.  Signal(0) finds a refused helper too, as nobody waited for it.
\* setSpeedSessions is called by whoever started helpers, a handler among them.
Ready(p) ==
  /\ tpc[p] = "spawn"
  /\ Cardinality(Started) = use.paths
  /\ job' = IF job.running THEN [job EXCEPT !.sessions = use.paths] ELSE job
  /\ TestGoto(p, IF use.for = "test" THEN "stages" ELSE "single")
  /\ UNCHANGED <<speedMu, kind, use, helpers, booted, tbudget>>

-----------------------------------------------------------------------------
(* runChinaSpeedTest and runSpeedTestCN *)

NextStage == [stages |-> "ping", ping |-> "download", download |-> "upload"]

Stage(p) ==
  /\ tpc[p] \in DOMAIN NextStage
  /\ job' = StageSet(NextStage[tpc[p]])
  /\ TestGoto(p, NextStage[tpc[p]])
  /\ UNCHANGED <<speedMu, kind, use, helpers, booted, tbudget>>

\* Workers of parallelDownload and parallelUpload.
Transfer(p) ==
  /\ tpc[p] \in {"download", "upload"}
  /\ job' = BytesAdded(p)
  /\ UNCHANGED <<speedMu, locals, helpers, booted, tbudget>>

\* Where a process goes with what it took speedMu for.
After(p) ==
  IF use.for = "directory" THEN (IF kind[p] = "single" THEN "pings" ELSE "test") ELSE "succeeded"

\* Deferred calls: helpers first, then the mutex.
Release(p) ==
  /\ Stop(p)
  /\ speedMu' = NoProcess
  /\ use' = NoUse

Done(p) ==
  /\ tpc[p] \in {"single", "upload"}
  /\ TestGoto(p, After(p))
  /\ Release(p)
  /\ UNCHANGED <<job, kind, booted, tbudget>>

\* Seeded error: a request that fails returns without the deferred Unlock.
FailsLocked(p) ==
  /\ tpc[p] \in Holding \cup {"stages"}
  /\ SpendTest("fault")
  /\ TestGoto(p, "failed")
  /\ Stop(p)
  /\ UNCHANGED <<job, kind, speedMu, use, booted>>

\* A helper, its file, a request, or every try of one fails.  handleSpeedRun goes on
\* with another server.
Fails(p) ==
  /\ tpc[p] \in Holding \cup {"stages"}
  /\ SpendTest("fault")
  /\ \/ TestGoto(p, "failed")
     \/ kind[p] = "test" /\ use.for = "test" /\ TestGoto(p, "test")
  /\ Release(p)
  /\ UNCHANGED <<job, kind, booted>>

-----------------------------------------------------------------------------
(* the handlers and the job's goroutine *)

\* startSpeedJob
StartJob(p) ==
  /\ booted /\ tpc[p] = "idle"
  /\ SpendTest("test")
  /\ ~job.running
  /\ job' = [NoReport EXCEPT !.running = TRUE, !.owner = p, !.stage = "preparing"]
  /\ TestGoto(p, "prepare")
  /\ kind' = [kind EXCEPT ![p] = "job"]
  /\ UNCHANGED <<speedMu, use, helpers, booted>>

\* handleSpeedRun, handleSpeedTestCNRun; handleRegionTest, handleSpeedServers,
\* handleSpeedTestCNServers.
Handle(p) ==
  /\ booted /\ tpc[p] = "idle"
  /\ SpendTest("test")
  /\ \E k \in {"test", "single"} : kind' = [kind EXCEPT ![p] = k]
  /\ TestGoto(p, "prepare")
  /\ UNCHANGED <<job, speedMu, use, helpers, booted>>

\* prepareTripleSpeedSession if need be; then the directory of SpeedTest.cn from its
\* cache, Ookla's, or one that has to be fetched through a helper.
Prepared(p) ==
  /\ tpc[p] = "prepare"
  /\ \/ TestGoto(p, IF kind[p] = "single" THEN "pings" ELSE "test")
     \/ TestGoto(p, "directory")
  /\ UNCHANGED <<job, speedMu, kind, use, helpers, booted, tbudget>>

NotPrepared(p) ==
  /\ tpc[p] = "prepare"
  /\ SpendTest("fault")
  /\ TestGoto(p, "failed")
  /\ UNCHANGED <<job, speedMu, kind, use, helpers, booted>>

\* Seeded error: the stage is set, the results are not.
ReportedPartly(p) ==
  IF tpc[p] = "failed" THEN [job EXCEPT !.running = FALSE, !.stage = "error"]
  ELSE [job EXCEPT !.running = FALSE, !.stage = "complete"]

Reported(p) ==
  IF tpc[p] = "failed" THEN [job EXCEPT !.running = FALSE, !.stage = "error"]
  ELSE [job EXCEPT !.running = FALSE, !.stage = "complete", !.down = p, !.up = p]

Finish(p) ==
  /\ tpc[p] \in {"failed", "succeeded"}
  /\ job' = IF kind[p] = "job" THEN Reported(p) ELSE job
  /\ TestGoto(p, "idle")
  /\ kind' = [kind EXCEPT ![p] = "single"]
  /\ UNCHANGED <<speedMu, use, helpers, booted, tbudget>>

-----------------------------------------------------------------------------
StrayHelperExits ==
  /\ \E n \in Path : stray[n] = "dying" /\ stray' = [stray EXCEPT ![n] = "none"]
  /\ UNCHANGED <<job, speedMu, locals, helper, pidFile, booted, tbudget>>

Named == {n \in Path : helper[n] = "serving" /\ pidFile[n] = "child"}

\* The daemon dies; its helpers go on.  The file of one that was refused names nothing.
SpeedCrash ==
  /\ booted /\ SpendTest("fault")
  /\ booted' = FALSE
  /\ stray' = [n \in Path |-> IF n \in Named THEN "alive"
                             ELSE IF helper[n] = "serving" THEN "unnamed" ELSE stray[n]]
  /\ pidFile' = [n \in Path |-> IF n \in Named THEN "stray" ELSE "none"]
  /\ helper' = [n \in Path |-> "none"]
  /\ job' = NoReport /\ speedMu' = NoProcess /\ use' = NoUse
  /\ tpc' = [p \in Process |-> "idle"] /\ kind' = [p \in Process |-> "single"]

\* procd starts it again; runDaemon cleans up before it serves or tests anything.
SpeedBoot ==
  /\ ~booted /\ booted' = TRUE
  /\ stray' = Killed /\ pidFile' = [n \in Path |-> "none"]
  /\ UNCHANGED <<job, speedMu, locals, helper, tbudget>>

Test(p) ==
  \/ Prepared(p) \/ NotPrepared(p) \/ Acquire(p) \/ Spawn(p) \/ Name(p) \/ Ready(p)
  \/ Stage(p) \/ Done(p) \/ Fails(p) \/ Finish(p)

SpeedNext ==
  \/ \E p \in Process : StartJob(p) \/ Handle(p) \/ Test(p) \/ Transfer(p)
  \/ StrayHelperExits \/ SpeedCrash

-----------------------------------------------------------------------------
(***************************************************************************)
(* Types of the report, the processes and the helpers.                     *)
(***************************************************************************)
SpeedTypeOK ==
  /\ job \in [running : BOOLEAN, sessions : 0..MaxPaths,
              stage : {"none", "preparing", "complete", "error"} \cup Testing,
              owner : Process \cup {NoProcess}, current : Process \cup {NoProcess},
              down : Process \cup {NoProcess}, up : Process \cup {NoProcess}]
  /\ speedMu \in Process \cup {NoProcess}
  /\ tpc \in [Process -> {"idle", "prepare", "stages", "failed", "succeeded"} \cup Waiting \cup Holding]
  /\ kind \in [Process -> Kinds]
  /\ use \in [for : Waiting \cup {"none"}, paths : 0..MaxPaths]
  /\ helper \in [Path -> {"none", "serving", "refused"}]
  /\ pidFile \in [Path -> {"none", "child", "stray"}]
  /\ stray \in [Path -> {"none", "alive", "unnamed", "dying"}]
  /\ booted \in BOOLEAN

(***************************************************************************)
(* No helper outlives the test it was started for, whichever way the test  *)
(* ends; and the next daemon has killed what a dead one left before it     *)
(* serves, but for a helper whose process number was not written yet.      *)
(***************************************************************************)
HelpersBelongToTest ==
  /\ speedMu = NoProcess => Started = {}
  /\ speedMu # NoProcess => Cardinality(Started) <= use.paths
  /\ \A n \in Path : pidFile[n] = "child" => helper[n] # "none"
  /\ booted => \A n \in Path : stray[n] # "alive"

(***************************************************************************)
(* The report of a job that has completed holds the speeds that this job   *)
(* measured, though the tests of handlers use the same setters while it    *)
(* runs.  The number of sessions it shows can be a handler's.              *)
(***************************************************************************)
ReportIsOwn ==
  /\ job.running => kind[job.owner] = "job" /\ tpc[job.owner] # "idle"
  /\ \A p \in Process : kind[p] = "job" => job.running /\ job.owner = p
  /\ job.stage = "complete" => job.down = job.owner /\ job.up = job.owner

(***************************************************************************)
(* A finished report stays as it is until the next job starts.             *)
(***************************************************************************)
FinishedReportStays == [][~job.running /\ ~job'.running => job' \in {job, NoReport}]_speedVars

(***************************************************************************)
(* Every test ends: each of its ways out gives speedMu back.               *)
(***************************************************************************)
TestsEnd == \A p \in Process : tpc[p] # "idle" ~> tpc[p] = "idle"
=============================================================================
