---------------------------- MODULE UnitLifecycle ----------------------------
(***************************************************************************)
(* What switching, self test and acquisition promise of the sensor units:  *)
(* a unit is off, being switched on, on, under self test or acquiring; it  *)
(* leaves "off" only by being switched on, at most one unit is tested, and *)
(* nothing is switched on or put to test while a unit is acquiring.        *)
(***************************************************************************)
CONSTANT Units

VARIABLE unit

Phases == {"off", "starting", "on", "test", "acquiring"}
InPhase(phase) == {u \in Units : unit[u] = phase}

Init == unit = [u \in Units |-> "off"]

StartSwitching(u) ==
  /\ unit[u] = "off"
  /\ InPhase("acquiring") = {}
  /\ unit' = [unit EXCEPT ![u] = "starting"]

Settle(u) ==
  /\ unit[u] = "starting"
  /\ unit' = [unit EXCEPT ![u] = "on"]

BeginTest(u) ==
  /\ unit[u] = "on"
  /\ InPhase("test") \cup InPhase("acquiring") = {}
  /\ unit' = [unit EXCEPT ![u] = "test"]

EndTest(u) ==
  /\ unit[u] = "test"
  /\ unit' = [unit EXCEPT ![u] = "on"]

\* All units that are on start, and later stop, together.
BeginAcquisition ==
  /\ InPhase("starting") = {}
  /\ unit' = [u \in Units |-> IF unit[u] = "on" THEN "acquiring" ELSE unit[u]]

EndAcquisition ==
  unit' = [u \in Units |-> IF unit[u] = "acquiring" THEN "on" ELSE unit[u]]

\* A telecommand, a failure or a reset can switch units off at any time.
SwitchOff(off) ==
  unit' = [u \in Units |-> IF u \in off THEN "off" ELSE unit[u]]

Next ==
  \/ \E u \in Units :
       StartSwitching(u) \/ Settle(u) \/ BeginTest(u) \/ EndTest(u)
  \/ BeginAcquisition
  \/ EndAcquisition
  \/ \E off \in SUBSET Units : SwitchOff(off)

Spec == Init /\ [][Next]_unit
=============================================================================
