------------------------------- MODULE Traffic -------------------------------
(***************************************************************************)
(* traffic.go: a goroutine reads the counters of the nftables table each   *)
(* second and adds what is new to the totals, which are saved every 15     *)
(* minutes and on SIGTERM.  It skips the seconds in which a speed job runs *)
(* (SpeedJob).  One counter stands for all of them.                        *)
(***************************************************************************)
EXTENDS SpeedJob, Integers

CONSTANTS
  MaxBytes, MaxChanges     \* bounds of the environment

ASSUME TrafficAssumption == {MaxBytes, MaxChanges} \subseteq Nat

VARIABLES
  counter,    \* kernel: what the table has counted; NoTable
  previous,   \* the sampler's last reading, Unsampled until the first
  total,      \* trafficState.Data.Up, its Down, or a service's
  saved,      \* traffic.json
  carried,    \* history: what any table has counted
  missed,     \* history: a reading failed while there was a table
  changes,    \* of the table, or failing readings, still to come
  bytes       \* still to come

NoTable == MaxBytes + 1
Unsampled == MaxBytes + 2

trafficVars == <<counter, previous, total, saved, carried, missed, changes, bytes>>
vars == <<speedVars, trafficVars>>

TrafficInit ==
  /\ counter = 0                      \* of the table a daemon before left
  /\ previous = Unsampled
  /\ total = 0 /\ saved = 0
  /\ carried = 0 /\ missed = FALSE
  /\ changes \in 0..MaxChanges /\ bytes \in 0..MaxBytes

Init == SpeedInit /\ TrafficInit

-----------------------------------------------------------------------------
\* A counter below its last reading is that of a new table.
Delta(current, last) == IF current >= last THEN current - last ELSE current

\* readNFTCounters: no output, no counters, and a missing counter reads as zero.
Reading == IF counter = NoTable THEN 0 ELSE counter

\* Seeded error: the first reading after a start is counted.
AddedFromStart(current) ==
  IF previous = Unsampled THEN current ELSE Delta(current, previous)

\* The first reading after a start only says where to count from.
Added(current) == IF previous = Unsampled THEN 0 ELSE Delta(current, previous)

\* What the next reading will add.
Unread == Added(Reading)

\* Seeded error: the readings go on during a test and are not counted.
SampleForgetful ==
  /\ total' = IF job.running THEN total ELSE total + Added(Reading)
  /\ previous' = Reading
  /\ UNCHANGED <<counter, saved, carried, missed, changes, bytes>>

Sample ==
  /\ ~job.running
  /\ total' = total + Added(Reading)
  /\ previous' = Reading
  /\ UNCHANGED <<counter, saved, carried, missed, changes, bytes>>

SampleFails ==
  /\ ~job.running
  /\ changes > 0 /\ changes' = changes - 1
  /\ previous' = 0
  /\ missed' = (missed \/ counter # NoTable)
  /\ UNCHANGED <<counter, total, saved, carried, bytes>>

\* saveTrafficTotals; the rename is atomic.
Save ==
  /\ saved # total
  /\ saved' = total
  /\ UNCHANGED <<counter, previous, total, carried, missed, changes, bytes>>

-----------------------------------------------------------------------------
Carry ==
  /\ counter # NoTable
  /\ bytes > 0 /\ bytes' = bytes - 1
  /\ counter' = counter + 1 /\ carried' = carried + 1
  /\ UNCHANGED <<previous, total, saved, missed, changes>>

\* setupRedirect and teardownRedirect: the counters go with the table.
ChangeTable ==
  /\ changes > 0 /\ changes' = changes - 1
  /\ counter' \in {0, NoTable} \ {counter}
  /\ UNCHANGED <<previous, total, saved, carried, missed, bytes>>

\* loadTrafficTotals; the table is still there.
Reload ==
  /\ total' = saved
  /\ previous' = Unsampled
  /\ UNCHANGED <<counter, saved, carried, missed, changes, bytes>>

Sampler == Sample \/ SampleFails \/ Save

TrafficNext == Carry \/ (booted /\ (Sampler \/ ChangeTable))

Next ==
  \/ SpeedNext /\ UNCHANGED trafficVars
  \/ TrafficNext /\ UNCHANGED speedVars
  \/ SpeedBoot /\ Reload

Spec == Init /\ [][Next]_vars

(***************************************************************************)
(* Requests have timeouts, and speedMu is starvation-free (SF).            *)
(***************************************************************************)
Fairness == \A p \in Process : SF_vars(Test(p) /\ UNCHANGED trafficVars)

FairSpec == Spec /\ Fairness

-----------------------------------------------------------------------------
(***************************************************************************)
(* Types of the counters and of the speed tests.                           *)
(***************************************************************************)
TypeOK ==
  /\ SpeedTypeOK
  /\ counter \in 0..NoTable /\ previous \in 0..Unsampled
  /\ {total, saved} \subseteq Nat /\ carried \in 0..MaxBytes
  /\ missed \in BOOLEAN
  /\ changes \in 0..MaxChanges /\ bytes \in 0..MaxBytes
  /\ saved <= total

(***************************************************************************)
(* Restarts, replaced tables and tests in between: nothing is counted      *)
(* twice, unless nft failed while the table was there, whose counters are  *)
(* then read again as if they were new.                                    *)
(***************************************************************************)
NeverCountedTwice == ~missed => total + Unread <= carried

\* What was carried and is neither counted nor going to be.
Lost == carried - (total + Unread)

(***************************************************************************)
(* However long tests keep the sampler from reading, nothing is lost by    *)
(* it: what is carried is counted or will be, as long as the daemon and    *)
(* the table that was read last stay and nft does not fail.                *)
(***************************************************************************)
PausesLoseNothing ==
  [][/\ previous # Unsampled /\ previous' # Unsampled
     /\ counter >= previous /\ (counter' = counter \/ carried' # carried)
     /\ ~missed'
     => Lost' = Lost]_vars

(***************************************************************************)
(* "Counters remain in the kernel and are reconciled after the test        *)
(* completes": while a job runs nothing is lost, whatever else is done.    *)
(* The code does not keep it: a connect or disconnect during the test      *)
(* replaces the table with what it has counted since the test began.       *)
(***************************************************************************)
Reconciled ==
  [][job.running /\ job'.running /\ previous # Unsampled /\ ~missed' => Lost' = Lost]_vars
=============================================================================
