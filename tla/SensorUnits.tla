----------------------------- MODULE SensorUnits -----------------------------
(***************************************************************************)
(* Switching and self test of the sensor units: SU_state, the supply       *)
(* power, self_test_SU_number and the mode, shared by                      *)
(*                                                                         *)
(*   Hit trigger task (priority 3)   answers a self test pulse             *)
(*   TC execution task (priority 2)  SWITCH_SU, START/STOP_ACQUISITION     *)
(*   Health task (priority 0)        one round a second: Update_SU_State   *)
(*                                   of every unit, then Monitor(round)    *)
(*                                                                         *)
(* A telecommand is one step, since only the hit trigger task can preempt  *)
(* it.  The health task can be preempted after each of its statements      *)
(* except where the interrupt master is disabled; a step of it is the code *)
(* from one access of the shared variables to the next.  A rejected        *)
(* telecommand changes nothing here.                                       *)
(***************************************************************************)
EXTENDS Integers, FiniteSets

CONSTANTS
  NUM_SU,         \* number of sensor units
  HEALTH_COUNT,   \* rounds are counted down from it to 0
  ChannelTests,   \* calls of ExecuteChannelTest in a self test
  Overlap         \* the telecommands that come during work on the same units

ASSUME ConstantsAssumption ==
  /\ NUM_SU \in Nat \ {0}
  /\ HEALTH_COUNT \in Nat /\ HEALTH_COUNT >= 7
  /\ ChannelTests \in Nat \ {0}
  /\ Overlap \subseteq {"off_in_switching", "off_in_self_test", "test_in_self_test"}

VARIABLES
  SU_state,             \* of each sensor unit
  powered,              \* units whose bit in SU_ctrl_register is set
  self_test_SU_number,  \* unit under self test, or NO_SU
  mode,                 \* mode bits of mode_status
  health_mon_round,
  health,               \* the health task: where it is, unit and channel test
  stray                 \* whether an array has been indexed by NO_SU - SU_1

vars == <<SU_state, powered, self_test_SU_number, mode, health_mon_round,
          health, stray>>

SUs == 1 .. NUM_SU
NO_SU == 0
SelfTestStates == {"self_test_mon_e", "self_test_e", "self_test_trigger_e"}
SwitchingStates == {"start_switching_e", "switching_e"}
States == {"off_e", "on_e", "acquisition_e"} \cup SelfTestStates \cup SwitchingStates
Modes == {"DPU_SELF_TEST", "STAND_BY", "ACQUISITION"}

\* Tests and assignments of SU_state[n - SU_1].  For n = NO_SU the index is -1:
\* the test may go either way, and the assignment hits some other variable.
MayBe(n, state) == n \in SUs => SU_state[n] = state
MayDiffer(n, state) == n \in SUs => SU_state[n] # state
Access(n) == stray' = (stray \/ n \notin SUs)
SetState(n, state) ==
  /\ SU_state' = IF n \in SUs THEN [SU_state EXCEPT ![n] = state] ELSE SU_state
  /\ Access(n)

\* Where the health task is: between two rounds, in Update_SU_State, in Monitor
\* or in the functions that rounds 7 and 6 call.
Places == {"init", "interval", "update", "peak_reset", "monitor",
           "call_monitoring", "self_test", "monitored", "mark",
           "call_tests", "pulse", "judge", "restore", "unnumber",
           "set_on", "end_test"}
At(place) == health.at = place
Goto(place) == health' = [health EXCEPT !.at = place]

----------------------------------------------------------------------------
(* Switching off *)

\* SetSensorUnitOff, with interrupts disabled: power, SU_state and, if it is
\* the unit under test, self_test_SU_number.
PowerAndStateOff(s, left, number) ==
  /\ powered' = left
  /\ SU_state' = [SU_state EXCEPT ![s] = "off_e"]
  /\ self_test_SU_number' = number
  /\ UNCHANGED stray

NumberWithout(s) ==
  IF self_test_SU_number = s THEN NO_SU ELSE self_test_SU_number

MutantKeepNumber(s) == PowerAndStateOff(s, powered \ {s}, self_test_SU_number)
MutantOffUnpowered(s) == PowerAndStateOff(s, powered, NumberWithout(s))
SetSensorUnitOff(s) == PowerAndStateOff(s, powered \ {s}, NumberWithout(s))

----------------------------------------------------------------------------
(* TC execution task and hit trigger task *)

\* SWITCH_SU with ON_VALUE.
Start_SU_SwitchingOn(s) ==
  /\ mode # "ACQUISITION"
  /\ SU_state[s] = "off_e"
  /\ powered' = powered \cup {s}
  /\ SU_state' = [SU_state EXCEPT ![s] = "start_switching_e"]
  /\ UNCHANGED <<self_test_SU_number, mode, health_mon_round, health, stray>>

\* The health task is between a look at the state of unit s and a later
\* assignment to it: while it waits for the peak detector ...
InSwitching(s) == At("peak_reset") /\ health.su = s

\* ... or in the self test.
InSelfTest(s) ==
  /\ health.at \in {"call_monitoring", "mark", "call_tests", "pulse", "judge",
                    "restore", "unnumber", "set_on"}
  /\ s \in {health.su, self_test_SU_number}

\* SWITCH_SU with OFF_VALUE.
SwitchOff(s) ==
  /\ mode # "ACQUISITION"
  /\ InSwitching(s) => "off_in_switching" \in Overlap
  /\ InSelfTest(s) => "off_in_self_test" \in Overlap
  /\ SetSensorUnitOff(s)
  /\ UNCHANGED <<mode, health_mon_round, health>>

\* SWITCH_SU with SELF_TEST, for a number that no test may be running for.
BeginSelfTest(s, number) ==
  /\ mode # "ACQUISITION"
  /\ SU_state[s] = "on_e"
  /\ self_test_SU_number = number
  /\ health.at \in {"self_test", "monitored", "set_on", "end_test"} =>
       "test_in_self_test" \in Overlap
  /\ self_test_SU_number' = s
  /\ SU_state' = [SU_state EXCEPT ![s] = "self_test_mon_e"]
  /\ UNCHANGED <<powered, mode, health_mon_round, health, stray>>

MutantSelfTestTwice(s) == BeginSelfTest(s, self_test_SU_number)
StartSelfTest(s) == BeginSelfTest(s, NO_SU)

\* Switch_SU_State ends the test of a unit that it takes out of a state.
NumberUnlessIn(state) ==
  IF self_test_SU_number # NO_SU /\ SU_state[self_test_SU_number] = state
    THEN NO_SU ELSE self_test_SU_number

\* START_ACQUISITION, refused while a unit is in one of the states "busy":
\* every unit that is on, and only those, goes to acquisition.
AcquireUnless(busy) ==
  /\ mode = "STAND_BY"
  /\ \A s \in SUs : SU_state[s] \notin busy
  /\ SU_state' = [s \in SUs |->
       IF SU_state[s] = "on_e" THEN "acquisition_e" ELSE SU_state[s]]
  /\ self_test_SU_number' = NumberUnlessIn("on_e")
  /\ mode' = "ACQUISITION"
  /\ UNCHANGED <<powered, health_mon_round, health, stray>>

MutantStartWhileSwitching == AcquireUnless({"start_switching_e"})
StartAcquisition == AcquireUnless(SwitchingStates)

StopAcquisition ==
  /\ mode = "ACQUISITION"
  /\ SU_state' = [s \in SUs |->
       IF SU_state[s] = "acquisition_e" THEN "on_e" ELSE SU_state[s]]
  /\ self_test_SU_number' = NumberUnlessIn("acquisition_e")
  /\ mode' = "STAND_BY"
  /\ UNCHANGED <<powered, health_mon_round, health, stray>>

\* A hit trigger that is the answer of the unit under test to a test pulse.
HandleHitTrigger ==
  /\ self_test_SU_number # NO_SU
  /\ SU_state[self_test_SU_number] = "self_test_trigger_e"
  /\ SetState(self_test_SU_number, "self_test_e")
  /\ UNCHANGED <<powered, self_test_SU_number, mode, health_mon_round, health>>

----------------------------------------------------------------------------
(* Health task *)

\* HandleHealthMonitoring starts with the first unit.
StartRound ==
  /\ At("interval")
  /\ health' = [health EXCEPT !.at = "update", !.su = 1]
  /\ UNCHANGED <<SU_state, powered, self_test_SU_number, mode,
                 health_mon_round, stray>>

\* The unit after health.su is next, Monitor after the last one.
NextUnit ==
  health' = IF health.su = NUM_SU THEN [health EXCEPT !.at = "monitor"]
            ELSE [health EXCEPT !.at = "update", !.su = @ + 1]

\* Update_SU_State up to the first ResetPeakDetector, which enables the
\* interrupts again, or to its end.
UpdateTo(started) ==
  /\ At("update")
  /\ IF SU_state[health.su] = "switching_e"
       THEN Goto("peak_reset") /\ UNCHANGED SU_state
       ELSE /\ SU_state' = [SU_state EXCEPT ![health.su] =
                 IF @ = "start_switching_e" THEN started ELSE @]
            /\ NextUnit
  /\ UNCHANGED <<powered, self_test_SU_number, mode, health_mon_round, stray>>

MutantUpdate == UpdateTo("start_switching_e")
Update_SU_State == UpdateTo("switching_e")

\* The rest of Update_SU_State, after the wait.
SetOnAfterReset ==
  /\ At("peak_reset")
  /\ SU_state' = [SU_state EXCEPT ![health.su] = "on_e"]
  /\ NextUnit
  /\ UNCHANGED <<powered, self_test_SU_number, mode, health_mon_round, stray>>

\* LowVoltageCurrent (round 4 and in the self test) and TemperatureFailure
\* (round 9 and in the self test) switch units off.
FailureSwitchesOff(s) ==
  /\ (At("monitor") /\ health_mon_round \in {4, 9}) \/ At("self_test")
  /\ SetSensorUnitOff(s)
  /\ UNCHANGED <<mode, health_mon_round, health>>

\* UpdatePeriodCounter and WaitInterval after Monitor.
EndRound ==
  /\ health_mon_round' = IF health_mon_round = 0 THEN HEALTH_COUNT ELSE health_mon_round - 1
  /\ Goto("interval")

\* Monitor: in round 7 a requested self test starts, in round 6 it goes on.
Monitor ==
  /\ At("monitor")
  /\ \/ /\ health_mon_round = 7 /\ self_test_SU_number # NO_SU
        /\ Goto("call_monitoring")
        /\ UNCHANGED health_mon_round
     \/ /\ health_mon_round = 6 /\ self_test_SU_number # NO_SU
        /\ SU_state[self_test_SU_number] = "self_test_e"
        /\ Goto("call_tests")
        /\ UNCHANGED health_mon_round
     \/ /\ health_mon_round = 7 => self_test_SU_number = NO_SU
        /\ health_mon_round = 6 /\ self_test_SU_number # NO_SU =>
             SU_state[self_test_SU_number] # "self_test_e"
        /\ EndRound
  /\ UNCHANGED <<SU_state, powered, self_test_SU_number, mode, stray>>

\* SelfTest_SU is called for the unit that is under test now.
Measure(number) ==
  /\ At("call_monitoring")
  /\ health' = [health EXCEPT !.at = "self_test", !.su = number]
  /\ Access(number)
  /\ UNCHANGED <<SU_state, powered, self_test_SU_number, mode, health_mon_round>>

MutantCallSelfTest_SU == Measure(self_test_SU_number - 1)
CallSelfTest_SU == Measure(self_test_SU_number)

SelfTest_SU ==
  /\ At("self_test")
  /\ Goto("monitored")
  /\ UNCHANGED <<SU_state, powered, self_test_SU_number, mode,
                 health_mon_round, stray>>

\* The measurements may have switched the unit off.
MarkIf(found) ==
  /\ At("monitored")
  /\ IF found
       THEN Goto("mark") /\ UNCHANGED health_mon_round
       ELSE EndRound
  /\ UNCHANGED <<SU_state, powered, self_test_SU_number, mode, stray>>

MutantNoSecondLook == MarkIf(TRUE)
LookAgain == MarkIf(self_test_SU_number # NO_SU)

MarkMonitored ==
  /\ At("mark")
  /\ SetState(self_test_SU_number, "self_test_e")
  /\ EndRound
  /\ UNCHANGED <<powered, self_test_SU_number, mode>>

\* SelfTestChannel is called for the unit that is under test now.
CallSelfTestChannel ==
  /\ At("call_tests")
  /\ health' = [at |-> "pulse", su |-> self_test_SU_number, test |-> 1]
  /\ Access(self_test_SU_number)
  /\ UNCHANGED <<SU_state, powered, self_test_SU_number, mode, health_mon_round>>

\* ExecuteChannelTest up to the test pulse ...
StartPulse ==
  /\ At("pulse")
  /\ SetState(health.su, "self_test_trigger_e")
  /\ Goto("judge")
  /\ UNCHANGED <<powered, self_test_SU_number, mode, health_mon_round>>

\* ... and after it: the unit goes back to setup if it did not answer.
EndPulse ==
  /\ At("judge")
  /\ \/ MayBe(health.su, "self_test_trigger_e") /\ SetState(health.su, "self_test_e")
     \/ /\ MayDiffer(health.su, "self_test_trigger_e")
        /\ UNCHANGED SU_state
        /\ Access(health.su)
  /\ health' = IF health.test < ChannelTests
                 THEN [health EXCEPT !.at = "pulse", !.test = @ + 1]
                 ELSE [health EXCEPT !.at = "restore"]
  /\ UNCHANGED <<powered, self_test_SU_number, mode, health_mon_round>>

\* RestoreSettings calls Switch_SU_State for the unit under test now, in three
\* statements: its state is tested, ...
RestoreSettings ==
  /\ At("restore")
  /\ \/ /\ MayBe(self_test_SU_number, "self_test_e")
        /\ health' = [health EXCEPT !.at = "unnumber", !.su = self_test_SU_number]
     \/ /\ MayDiffer(self_test_SU_number, "self_test_e")
        /\ Goto("end_test")
  /\ Access(self_test_SU_number)
  /\ UNCHANGED <<SU_state, powered, self_test_SU_number, mode, health_mon_round>>

\* ... it is no longer under test, ...
ResetNumber ==
  /\ At("unnumber")
  /\ self_test_SU_number' = NumberWithout(health.su)
  /\ Goto("set_on")
  /\ UNCHANGED <<SU_state, powered, mode, health_mon_round, stray>>

\* ... and it is on.
SwitchBackOn(state) ==
  /\ At("set_on")
  /\ SetState(health.su, state)
  /\ Goto("end_test")
  /\ UNCHANGED <<powered, self_test_SU_number, mode, health_mon_round>>

MutantStaysInTest == SwitchBackOn("self_test_e")
SetOnAfterTest == SwitchBackOn("on_e")

\* The end of round 6 of Monitor.
EndSelfTest ==
  /\ At("end_test")
  /\ self_test_SU_number' = NO_SU
  /\ EndRound
  /\ UNCHANGED <<SU_state, powered, mode, stray>>

----------------------------------------------------------------------------
(* Resets *)

\* Boot switches all units off, one by one, before the tasks start.
Boot ==
  /\ SU_state' = [s \in SUs |-> "off_e"]
  /\ powered' = {}
  /\ self_test_SU_number' = NO_SU
  /\ mode' = "DPU_SELF_TEST"
  /\ health_mon_round' = HEALTH_COUNT
  /\ health' = [at |-> "init", su |-> 1, test |-> 1]
  /\ UNCHANGED stray

\* InitHealthMonitoring, which has started the other tasks before.
InitHealthMonitoring ==
  /\ At("init")
  /\ mode' = "STAND_BY"
  /\ Goto("interval")
  /\ UNCHANGED <<SU_state, powered, self_test_SU_number, health_mon_round, stray>>

----------------------------------------------------------------------------
Init ==
  /\ SU_state = [s \in SUs |-> "off_e"]
  /\ powered = {}
  /\ self_test_SU_number = NO_SU
  /\ mode = "DPU_SELF_TEST"
  /\ health_mon_round = HEALTH_COUNT
  /\ health = [at |-> "init", su |-> 1, test |-> 1]
  /\ stray = FALSE

HealthMonitoringTask ==
  \/ InitHealthMonitoring \/ StartRound \/ Update_SU_State \/ SetOnAfterReset
  \/ Monitor \/ CallSelfTest_SU \/ SelfTest_SU \/ LookAgain \/ MarkMonitored
  \/ CallSelfTestChannel \/ StartPulse \/ EndPulse
  \/ RestoreSettings \/ ResetNumber \/ SetOnAfterTest \/ EndSelfTest

Telecommand ==
  \/ \E s \in SUs : Start_SU_SwitchingOn(s) \/ SwitchOff(s) \/ StartSelfTest(s)
  \/ StartAcquisition
  \/ StopAcquisition

Next ==
  \/ HealthMonitoringTask
  \/ \E s \in SUs : FailureSwitchesOff(s)
  \/ Telecommand
  \/ HandleHitTrigger
  \/ Boot

Spec == Init /\ [][Next]_vars

\* The health task has the lowest priority, but every other task waits most of
\* the time, and the hits that a period may bring are budgeted.
FairSpec == Spec /\ WF_vars(HealthMonitoringTask)

----------------------------------------------------------------------------
(* Properties *)

\* The variables keep their types; the health task has a unit to update, and
\* one to test unless self_test_SU_number was reset under it.
TypeOK ==
  /\ SU_state \in [SUs -> States]
  /\ powered \subseteq SUs
  /\ self_test_SU_number \in SUs \cup {NO_SU}
  /\ mode \in Modes
  /\ health_mon_round \in 0 .. HEALTH_COUNT
  /\ health \in [at : Places, su : SUs \cup {NO_SU}, test : 1 .. ChannelTests]
  /\ health.at \in {"update", "peak_reset"} => health.su \in SUs
  /\ stray \in BOOLEAN

\* No unit has power while its state is off, whatever the health task was
\* doing when the unit was switched off (Switch_SU_Off and Switch_SU_State in
\* one section without interrupts).
PoweredNotOff == \A s \in powered : SU_state[s] # "off_e"

\* A unit accepts hits only in acquisition mode, and in that mode none is being
\* switched on (START_ACQUISITION, STOP_ACQUISITION, SWITCH_SU; the health
\* task finishes what it has begun).
AcquisitionModeUnits ==
  \A s \in SUs :
    /\ SU_state[s] = "acquisition_e" => mode = "ACQUISITION"
    /\ mode = "ACQUISITION" => SU_state[s] \notin SwitchingStates

\* Only the TC task takes a unit out of the state off (comment in
\* Start_SU_SwitchingOn).
LeavesOffByTC ==
  [][\A s \in SUs : SU_state[s] = "off_e" /\ SU_state'[s] # "off_e" =>
       Start_SU_SwitchingOn(s)]_vars

\* Only the unit self_test_SU_number is in self test, but for the moment when
\* Switch_SU_State ends it (comment of self_test_SU_number); and no table has
\* been accessed with the index of NO_SU (Monitor tests the number before the
\* calls that use it).
OnlyNumberedInTest ==
  /\ \A s \in SUs : SU_state[s] \in SelfTestStates =>
       self_test_SU_number = s \/ (At("set_on") /\ health.su = s)
  /\ ~stray

\* Only a unit whose supplies were measured goes on to the test pulses (round
\* 7 of Monitor, comment of self_test_mon_e).
MonitoredFirst ==
  [][\A s \in SUs :
       SU_state[s] = "self_test_mon_e" /\ SU_state'[s] = "self_test_e" =>
         health.su = s]_vars

\* Switching on comes to an end (Update_SU_State in every round).
SwitchingEnds ==
  \A s \in SUs : SU_state[s] \in SwitchingStates ~> SU_state[s] \notin SwitchingStates

\* A self test comes to an end (rounds 7 and 6 of Monitor, RestoreSettings).
SelfTestEnds ==
  \A s \in SUs : SU_state[s] \in SelfTestStates ~> SU_state[s] \notin SelfTestStates

\* Whatever has become of the unit under test in the middle of its test, the test
\* gives the number back, or SELF_TEST would be refused for every unit from then on
\* (Switch_SU_State, SetSensorUnitOff, the ends of rounds 7 and 6 of Monitor).
NumberFreed == self_test_SU_number # NO_SU ~> self_test_SU_number = NO_SU
============================================================================
