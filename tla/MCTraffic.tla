------------------------------ MODULE MCTraffic ------------------------------
(***************************************************************************)
(* Instances of Traffic with SpeedJob, two goroutines that test, and of    *)
(* MultiSession, three sessions switched once.  The two share no variable: *)
(* a behaviour is one of the first, with either more tests or more of the  *)
(* traffic, or one of the second, with one connect, fault or other call    *)
(* less than the bounds allow.                                             *)
(***************************************************************************)
EXTENDS Traffic, MultiSession

CONSTANTS p1, p2

VARIABLE part

MCProcess == {p1, p2}

mcVars == <<vars, multiVars, part>>
Alone(name, others) == part = name /\ UNCHANGED <<others, part>>

MCInit ==
  /\ Init /\ MultiInit
  /\ part \in {"tests", "slots"}
  /\ tbudget.fault = MaxTestFaults
  /\ \/ part = "tests" /\ tbudget.test = MaxTests /\ bytes = 0 /\ changes = 0
     \/ tbudget.test = 1 /\ bytes = MaxBytes /\ changes = MaxChanges
  /\ LET spent == IF part = "slots" THEN 1 ELSE 0 IN
       mbudget.connect + mbudget.other + mbudget.fault + spent = MaxConnects + MaxOthers + MaxSlotFaults

MCNext ==
  \/ Alone("tests", multiVars) /\ Next
  \/ Alone("slots", vars) /\ MultiNext

\* Fairness of Traffic and of MultiSession.
MCFairness ==
  /\ \A p \in Process : SF_mcVars(Alone("tests", multiVars) /\ Test(p) /\ UNCHANGED trafficVars)
  /\ WF_mcVars(Alone("slots", vars) /\ ConnectMultiLine)
  /\ WF_mcVars(Alone("slots", vars) /\ RefreshSettings)
  /\ \A s \in Slot : WF_mcVars(Alone("slots", vars) /\ SlotWorker(s))

MCSpec == MCInit /\ [][MCNext]_mcVars /\ MCFairness
=============================================================================
