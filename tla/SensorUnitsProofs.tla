------------------------- MODULE SensorUnitsProofs -------------------------
(***************************************************************************)
(* Theorems about SensorUnits, for any number of units and channel tests.  *)
(***************************************************************************)
EXTENDS MCSensorUnits, TLAPS

----------------------------------------------------------------------------
(* Types *)

LEMMA FirstUnit == 1 \in SUs /\ 1 \in 1 .. ChannelTests
BY ConstantsAssumption DEF SUs

LEMMA StateNames ==
  /\ {"off_e", "on_e", "acquisition_e", "start_switching_e", "switching_e",
      "self_test_mon_e", "self_test_e", "self_test_trigger_e"} \subseteq States
  /\ NO_SU \notin SUs
BY ConstantsAssumption DEF States, SelfTestStates, SwitchingStates, NO_SU, SUs

\* The health task goes on to a unit that exists.
LEMMA NextUnitType ==
  ASSUME TypeOK, health.su \in SUs, NextUnit
  PROVE  /\ health' \in [at : Places, su : SUs \cup {NO_SU}, test : 1 .. ChannelTests]
         /\ health'.at \in {"update", "monitor"}
         /\ health'.at = "update" => health'.su \in SUs
<1>1. CASE health.su = NUM_SU
  <2>1. health' = [health EXCEPT !.at = "monitor"]
    BY <1>1 DEF NextUnit
  <2>. QED  BY <2>1 DEF TypeOK, Places
<1>2. CASE health.su # NUM_SU
  <2>1. health.su + 1 \in SUs
    BY <1>2, ConstantsAssumption DEF SUs
  <2>2. health' = [health EXCEPT !.at = "update", !.su = health.su + 1]
    BY <1>2 DEF NextUnit
  <2>. QED  BY <2>1, <2>2 DEF TypeOK, Places
<1>. QED  BY <1>1, <1>2

LEMMA TypeOKInit == Init => TypeOK
<1>. SUFFICES ASSUME Init PROVE TypeOK
  OBVIOUS
<1>1. health \in [at : Places, su : SUs \cup {NO_SU}, test : 1 .. ChannelTests]
  BY FirstUnit DEF Init, Places
<1>2. SU_state \in [SUs -> States] /\ powered \subseteq SUs
  BY StateNames DEF Init
<1>3. health_mon_round \in 0 .. HEALTH_COUNT
  BY ConstantsAssumption DEF Init
<1>. QED
  BY <1>1, <1>2, <1>3 DEF Init, TypeOK, Modes, At

LEMMA TypeOKStep == TypeOK /\ [Next]_vars => TypeOK'
<1>. SUFFICES ASSUME TypeOK, [Next]_vars
              PROVE  TypeOK'
  OBVIOUS
<1>. USE ConstantsAssumption DEF TypeOK, SUs, NO_SU, States, SelfTestStates,
       SwitchingStates, Modes, At, Goto, Places
<1>1. CASE InitHealthMonitoring
  BY <1>1 DEF InitHealthMonitoring
<1>2. CASE StartRound
  <2>1. health' = [health EXCEPT !.at = "update", !.su = 1]
    BY <1>2 DEF StartRound
  <2>2. health' \in [at : Places, su : SUs \cup {NO_SU}, test : 1 .. ChannelTests]
        /\ health'.su \in SUs
    BY <2>1, FirstUnit
  <2>. QED  BY <1>2, <2>2 DEF StartRound
<1>3. CASE Update_SU_State
  <2>1. health.su \in SUs
    BY <1>3 DEF Update_SU_State, UpdateTo
  <2>2. CASE SU_state[health.su] = "switching_e"
    BY <1>3, <2>1, <2>2 DEF Update_SU_State, UpdateTo
  <2>3. CASE SU_state[health.su] # "switching_e"
    <3>1. NextUnit
      BY <1>3, <2>3 DEF Update_SU_State, UpdateTo
    <3>2. SU_state' \in [SUs -> States]
      BY <1>3, <2>1, <2>3 DEF Update_SU_State, UpdateTo
    <3>. QED
      BY <1>3, <2>1, <3>1, <3>2, NextUnitType DEF Update_SU_State, UpdateTo
  <2>. QED  BY <2>2, <2>3
<1>4. CASE SetOnAfterReset
  <2>1. health.su \in SUs /\ NextUnit
    BY <1>4 DEF SetOnAfterReset
  <2>2. SU_state' \in [SUs -> States]
    BY <1>4, <2>1 DEF SetOnAfterReset
  <2>. QED
    BY <1>4, <2>1, <2>2, NextUnitType DEF SetOnAfterReset
<1>5. CASE Monitor
  BY <1>5 DEF Monitor, EndRound
<1>6. CASE CallSelfTest_SU
  BY <1>6 DEF CallSelfTest_SU, Measure, Access
<1>7. CASE SelfTest_SU
  BY <1>7 DEF SelfTest_SU
<1>8. CASE LookAgain
  BY <1>8 DEF LookAgain, MarkIf, EndRound
<1>9. CASE MarkMonitored
  BY <1>9, SMTT(60) DEF MarkMonitored, SetState, Access, EndRound
<1>10. CASE CallSelfTestChannel
  BY <1>10 DEF CallSelfTestChannel, Access
<1>11. CASE StartPulse
  BY <1>11 DEF StartPulse, SetState, Access
<1>12. CASE EndPulse
  <2>1. SU_state' \in [SUs -> States] /\ stray' \in BOOLEAN
    BY <1>12 DEF EndPulse, SetState, Access
  <2>2. CASE health.test < ChannelTests
    <3>1. health' = [health EXCEPT !.at = "pulse", !.test = health.test + 1]
      BY <1>12, <2>2 DEF EndPulse
    <3>2. health.test + 1 \in 1 .. ChannelTests
      BY <2>2
    <3>3. health' \in [at : Places, su : SUs \cup {NO_SU}, test : 1 .. ChannelTests]
          /\ health'.at = "pulse"
      BY <3>1, <3>2
    <3>. QED  BY <1>12, <2>1, <3>3 DEF EndPulse
  <2>3. CASE ~ (health.test < ChannelTests)
    <3>1. health' = [health EXCEPT !.at = "restore"]
      BY <1>12, <2>3 DEF EndPulse
    <3>. QED  BY <1>12, <2>1, <3>1 DEF EndPulse
  <2>. QED  BY <2>2, <2>3
<1>13. CASE RestoreSettings
  BY <1>13, ZenonT(60) DEF RestoreSettings, Access
<1>14. CASE ResetNumber
  BY <1>14 DEF ResetNumber, NumberWithout
<1>15. CASE SetOnAfterTest
  BY <1>15 DEF SetOnAfterTest, SwitchBackOn, SetState, Access
<1>16. CASE EndSelfTest
  BY <1>16 DEF EndSelfTest, EndRound
<1>17. ASSUME NEW s \in SUs, FailureSwitchesOff(s)
       PROVE  TypeOK'
  BY <1>17 DEF FailureSwitchesOff, SetSensorUnitOff, PowerAndStateOff, NumberWithout
<1>18. ASSUME NEW s \in SUs, Start_SU_SwitchingOn(s)
       PROVE  TypeOK'
  BY <1>18 DEF Start_SU_SwitchingOn
<1>19. ASSUME NEW s \in SUs, SwitchOff(s)
       PROVE  TypeOK'
  BY <1>19 DEF SwitchOff, SetSensorUnitOff, PowerAndStateOff, NumberWithout
<1>20. ASSUME NEW s \in SUs, StartSelfTest(s)
       PROVE  TypeOK'
  BY <1>20 DEF StartSelfTest, BeginSelfTest
<1>21. CASE StartAcquisition
  BY <1>21 DEF StartAcquisition, AcquireUnless, NumberUnlessIn
<1>22. CASE StopAcquisition
  BY <1>22 DEF StopAcquisition, NumberUnlessIn
<1>23. CASE HandleHitTrigger
  BY <1>23 DEF HandleHitTrigger, SetState, Access
<1>24. CASE Boot
  BY <1>24 DEF Boot
<1>25. CASE UNCHANGED vars
  BY <1>25 DEF vars
<1>. QED
  BY <1>1, <1>2, <1>3, <1>4, <1>5, <1>6, <1>7, <1>8, <1>9, <1>10, <1>11, <1>12,
     <1>13, <1>14, <1>15, <1>16, <1>17, <1>18, <1>19, <1>20, <1>21, <1>22,
     <1>23, <1>24, <1>25
  DEF Next, HealthMonitoringTask, Telecommand

\* The state of every unit and the place of the health task are always known,
\* and the health task updates no unit beyond the last (HandleHealthMonitoring).
THEOREM TypeCorrect == Spec => []TypeOK
<1>. QED  BY TypeOKInit, TypeOKStep, PTL DEF Spec

----------------------------------------------------------------------------
(* Power and modes, with telecommands at any point of the health task *)

\* What the health task and the hit trigger task may do to a unit: they change
\* the state of one unit, never to off, acquisition or the start of switching.
OneUnitMoves ==
  \E s \in SUs, state \in {"switching_e", "on_e", "self_test_e", "self_test_trigger_e"} :
    /\ SU_state' = [SU_state EXCEPT ![s] = state]
    /\ state = "switching_e" => SU_state[s] \in SwitchingStates

LEMMA SetStateMoves ==
  ASSUME TypeOK, NEW n \in SUs \cup {NO_SU},
         NEW state \in {"on_e", "self_test_e", "self_test_trigger_e"}, SetState(n, state)
  PROVE  OneUnitMoves \/ UNCHANGED SU_state
<1>1. CASE n \in SUs
  BY <1>1 DEF SetState, OneUnitMoves
<1>2. CASE n \notin SUs
  BY <1>2 DEF SetState
<1>. QED  BY <1>1, <1>2

\* A step of the health task or of the hit trigger task.
LEMMA OtherTasksStep ==
  ASSUME TypeOK, HealthMonitoringTask \/ HandleHitTrigger
  PROVE  /\ UNCHANGED powered
         /\ UNCHANGED mode \/ (At("init") /\ ~At("init")' /\ mode' = "STAND_BY")
         /\ At("init")' => At("init")
         /\ OneUnitMoves \/ UNCHANGED SU_state
<1>. USE DEF At, Goto, TypeOK
<1>1. CASE InitHealthMonitoring
  BY <1>1 DEF InitHealthMonitoring
<1>2. CASE StartRound
  BY <1>2 DEF StartRound
<1>3. CASE Update_SU_State
  <2>1. /\ health.su \in SUs /\ ~At("init") /\ ~At("init")'
        /\ UNCHANGED <<powered, mode>>
    BY <1>3 DEF Update_SU_State, UpdateTo, NextUnit
  <2>2. CASE SU_state[health.su] = "start_switching_e"
    <3>1. SU_state' = [SU_state EXCEPT ![health.su] = "switching_e"]
      BY <1>3, <2>2 DEF Update_SU_State, UpdateTo
    <3>. QED  BY <2>1, <2>2, <3>1 DEF OneUnitMoves, SwitchingStates
  <2>3. CASE SU_state[health.su] # "start_switching_e"
    <3>1. UNCHANGED SU_state
      BY <1>3, <2>1, <2>3 DEF Update_SU_State, UpdateTo
    <3>. QED  BY <2>1, <3>1
  <2>. QED  BY <2>2, <2>3
<1>4. CASE SetOnAfterReset
  <2>1. /\ health.su \in SUs /\ ~At("init") /\ ~At("init")'
        /\ SU_state' = [SU_state EXCEPT ![health.su] = "on_e"]
        /\ UNCHANGED <<powered, mode>>
    BY <1>4 DEF SetOnAfterReset, NextUnit
  <2>. QED  BY <2>1 DEF OneUnitMoves
<1>5. CASE Monitor
  BY <1>5 DEF Monitor, EndRound
<1>6. CASE CallSelfTest_SU
  BY <1>6 DEF CallSelfTest_SU, Measure
<1>7. CASE SelfTest_SU
  BY <1>7 DEF SelfTest_SU
<1>8. CASE LookAgain
  BY <1>8 DEF LookAgain, MarkIf, EndRound
<1>9. CASE MarkMonitored
  <2>1. /\ SetState(self_test_SU_number, "self_test_e")
        /\ UNCHANGED <<powered, mode>> /\ ~At("init") /\ ~At("init")'
    BY <1>9 DEF MarkMonitored, EndRound
  <2>. QED  BY <2>1, SetStateMoves
<1>10. CASE CallSelfTestChannel
  BY <1>10 DEF CallSelfTestChannel
<1>11. CASE StartPulse
  <2>1. /\ SetState(health.su, "self_test_trigger_e")
        /\ UNCHANGED <<powered, mode>> /\ ~At("init") /\ ~At("init")'
    BY <1>11 DEF StartPulse
  <2>. QED  BY <2>1, SetStateMoves
<1>12. CASE EndPulse
  <2>1. /\ SetState(health.su, "self_test_e") \/ UNCHANGED SU_state
        /\ UNCHANGED <<powered, mode>> /\ ~At("init") /\ ~At("init")'
    BY <1>12 DEF EndPulse
  <2>. QED  BY <2>1, SetStateMoves
<1>13. CASE RestoreSettings
  BY <1>13 DEF RestoreSettings
<1>14. CASE ResetNumber
  BY <1>14 DEF ResetNumber
<1>15. CASE SetOnAfterTest
  <2>1. /\ SetState(health.su, "on_e")
        /\ UNCHANGED <<powered, mode>> /\ ~At("init") /\ ~At("init")'
    BY <1>15 DEF SetOnAfterTest, SwitchBackOn
  <2>. QED  BY <2>1, SetStateMoves
<1>16. CASE EndSelfTest
  BY <1>16 DEF EndSelfTest, EndRound
<1>17. CASE HandleHitTrigger
  <2>1. /\ SetState(self_test_SU_number, "self_test_e")
        /\ UNCHANGED <<powered, mode, health>>
    BY <1>17 DEF HandleHitTrigger
  <2>. QED  BY <2>1, SetStateMoves
<1>. QED
  BY <1>1, <1>2, <1>3, <1>4, <1>5, <1>6, <1>7, <1>8, <1>9, <1>10, <1>11, <1>12,
     <1>13, <1>14, <1>15, <1>16, <1>17 DEF HealthMonitoringTask

\* Until InitHealthMonitoring is done the DPU is in its self test.
BootMode == At("init") => mode = "DPU_SELF_TEST"

SwitchingInv == PoweredNotOff /\ AcquisitionModeUnits /\ BootMode

LEMMA SwitchingInvInit == Init => SwitchingInv
BY DEF Init, SwitchingInv, PoweredNotOff, AcquisitionModeUnits, BootMode, SwitchingStates

LEMMA SwitchingInvStep == TypeOK /\ SwitchingInv /\ [Next]_vars => SwitchingInv'
<1>. SUFFICES ASSUME TypeOK, SwitchingInv, [Next]_vars
              PROVE  SwitchingInv'
  OBVIOUS
<1>. USE DEF SwitchingInv, PoweredNotOff, AcquisitionModeUnits, BootMode
<1>. USE DEF TypeOK, SwitchingStates, At
<1>1. CASE HealthMonitoringTask \/ HandleHitTrigger
  <2>1. /\ UNCHANGED powered
        /\ UNCHANGED mode \/ (At("init") /\ ~At("init")' /\ mode' = "STAND_BY")
        /\ At("init")' => At("init")
        /\ OneUnitMoves \/ UNCHANGED SU_state
    BY <1>1, OtherTasksStep
  <2>2. BootMode' /\ (mode' = "ACQUISITION" => mode = "ACQUISITION")
    BY <2>1
  <2>3. \A s \in SUs : SU_state[s] = "acquisition_e" => mode' = "ACQUISITION"
    BY <2>1
  <2>4. CASE OneUnitMoves
    <3>1. PICK s \in SUs, state \in {"switching_e", "on_e", "self_test_e",
                                    "self_test_trigger_e"} :
            /\ SU_state' = [SU_state EXCEPT ![s] = state]
            /\ state = "switching_e" => SU_state[s] \in SwitchingStates
      BY <2>4 DEF OneUnitMoves
    <3>. QED  BY <2>1, <2>2, <2>3, <3>1
  <2>5. CASE UNCHANGED SU_state
    BY <2>1, <2>2, <2>3, <2>5
  <2>. QED  BY <2>1, <2>4, <2>5
<1>2. ASSUME NEW s \in SUs, FailureSwitchesOff(s) \/ SwitchOff(s)
      PROVE  SwitchingInv'
  BY <1>2 DEF FailureSwitchesOff, SwitchOff, SetSensorUnitOff, PowerAndStateOff
<1>3. ASSUME NEW s \in SUs, Start_SU_SwitchingOn(s)
      PROVE  SwitchingInv'
  BY <1>3 DEF Start_SU_SwitchingOn
<1>4. ASSUME NEW s \in SUs, StartSelfTest(s)
      PROVE  SwitchingInv'
  BY <1>4 DEF StartSelfTest, BeginSelfTest
<1>5. CASE StartAcquisition
  BY <1>5 DEF StartAcquisition, AcquireUnless
<1>6. CASE StopAcquisition
  BY <1>6 DEF StopAcquisition
<1>7. CASE Boot
  BY <1>7 DEF Boot
<1>8. CASE UNCHANGED vars
  BY <1>8 DEF vars
<1>. QED
  BY <1>1, <1>2, <1>3, <1>4, <1>5, <1>6, <1>7, <1>8 DEF Next, Telecommand

\* A unit that has power is never off, however telecommands, failures and the
\* health task interleave (SetSensorUnitOff).
THEOREM PowerHasState == Spec => []PoweredNotOff
<1>. QED
  BY SwitchingInvInit, SwitchingInvStep, TypeCorrect, PTL DEF Spec, SwitchingInv

\* Units accept hits only in acquisition mode and none is being switched on in
\* it (START_ACQUISITION, SWITCH_SU).
THEOREM AcquisitionMode == Spec => []AcquisitionModeUnits
<1>. QED
  BY SwitchingInvInit, SwitchingInvStep, TypeCorrect, PTL DEF Spec, SwitchingInv

----------------------------------------------------------------------------
(* The life of a unit, without telecommands for a unit being worked on *)

\* What the health task relies on at each place: the unit that it is switching
\* on is still switching, the one that it tests still is the one under test.
WorkInv ==
  /\ self_test_SU_number \in SUs => SU_state[self_test_SU_number] \in SelfTestStates
  /\ At("peak_reset") => SU_state[health.su] = "switching_e"
  /\ health.at \in {"call_monitoring", "mark", "call_tests"} => self_test_SU_number \in SUs
  /\ At("call_tests") => SU_state[self_test_SU_number] = "self_test_e"
  /\ health.at \in {"pulse", "judge", "restore", "unnumber"} =>
       health.su \in SUs /\ self_test_SU_number = health.su
  /\ health.at \in {"pulse", "restore", "unnumber", "set_on"} =>
       SU_state[health.su] = "self_test_e"
  /\ At("judge") => SU_state[health.su] \in {"self_test_e", "self_test_trigger_e"}
  /\ At("set_on") => health.su \in SUs
  /\ health.at \in {"set_on", "end_test"} => self_test_SU_number = NO_SU

CalmInv == OnlyNumberedInTest /\ WorkInv

LEMMA CalmInvInit == Init => CalmInv
<1>. SUFFICES ASSUME Init PROVE CalmInv
  OBVIOUS
<1>1. self_test_SU_number \notin SUs
  BY StateNames DEF Init
<1>. QED
  BY <1>1 DEF Init, CalmInv, OnlyNumberedInTest, WorkInv, At, SelfTestStates

LEMMA CalmInvStep ==
  ASSUME Overlap = {}, TypeOK, TypeOK', CalmInv, [Next]_vars
  PROVE  CalmInv'
<1>. USE DEF CalmInv, OnlyNumberedInTest, WorkInv, TypeOK, At, Goto, SelfTestStates
<1>. USE StateNames
<1>1. CASE InitHealthMonitoring
  BY <1>1 DEF InitHealthMonitoring
<1>2. CASE StartRound
  BY <1>2 DEF StartRound
<1>3. CASE Update_SU_State
  BY <1>3, ZenonT(60) DEF Update_SU_State, UpdateTo, NextUnit
<1>4. CASE SetOnAfterReset
  BY <1>4 DEF SetOnAfterReset, NextUnit
<1>5. CASE Monitor
  BY <1>5 DEF Monitor, EndRound
<1>6. CASE CallSelfTest_SU
  BY <1>6 DEF CallSelfTest_SU, Measure, Access
<1>7. CASE SelfTest_SU
  BY <1>7 DEF SelfTest_SU
<1>8. CASE LookAgain
  BY <1>8 DEF LookAgain, MarkIf, EndRound
<1>9. CASE MarkMonitored
  BY <1>9 DEF MarkMonitored, SetState, EndRound, Access
<1>10. CASE CallSelfTestChannel
  BY <1>10 DEF CallSelfTestChannel, Access
<1>11. CASE StartPulse
  BY <1>11 DEF StartPulse, SetState, Access
<1>12. CASE EndPulse
  BY <1>12 DEF EndPulse, SetState, MayBe, MayDiffer, Access
<1>13. CASE RestoreSettings
  BY <1>13 DEF RestoreSettings, MayBe, MayDiffer, Access
<1>14. CASE ResetNumber
  BY <1>14 DEF ResetNumber, NumberWithout
<1>15. CASE SetOnAfterTest
  BY <1>15 DEF SetOnAfterTest, SwitchBackOn, SetState, Access
<1>16. CASE EndSelfTest
  BY <1>16 DEF EndSelfTest, EndRound
<1>17. ASSUME NEW s \in SUs, FailureSwitchesOff(s)
       PROVE  CalmInv'
  BY <1>17 DEF FailureSwitchesOff, SetSensorUnitOff, PowerAndStateOff, NumberWithout
<1>18. ASSUME NEW s \in SUs, Start_SU_SwitchingOn(s)
       PROVE  CalmInv'
  BY <1>18 DEF Start_SU_SwitchingOn
<1>19. ASSUME NEW s \in SUs, SwitchOff(s)
       PROVE  CalmInv'
  BY <1>19 DEF SwitchOff, InSwitching, InSelfTest, SetSensorUnitOff, PowerAndStateOff,
       NumberWithout
<1>20. ASSUME NEW s \in SUs, StartSelfTest(s)
       PROVE  CalmInv'
  BY <1>20 DEF StartSelfTest, BeginSelfTest
<1>21. CASE StartAcquisition
  BY <1>21 DEF StartAcquisition, AcquireUnless, NumberUnlessIn, SwitchingStates
<1>22. CASE StopAcquisition
  BY <1>22 DEF StopAcquisition, NumberUnlessIn
<1>23. CASE HandleHitTrigger
  BY <1>23 DEF HandleHitTrigger, SetState, Access
<1>24. CASE Boot
  BY <1>24 DEF Boot
<1>25. CASE UNCHANGED vars
  BY <1>25 DEF vars
<1>. QED
  BY <1>1, <1>2, <1>3, <1>4, <1>5, <1>6, <1>7, <1>8, <1>9, <1>10, <1>11, <1>12,
     <1>13, <1>14, <1>15, <1>16, <1>17, <1>18, <1>19, <1>20, <1>21, <1>22,
     <1>23, <1>24, <1>25
  DEF Next, HealthMonitoringTask, Telecommand

\* The unit that the health task measures, or is about to mark as measured, is the
\* one under test, if there is one.
MeasuredInv ==
  health.at \in {"self_test", "monitored", "mark"} /\ self_test_SU_number \in SUs =>
    health.su = self_test_SU_number

LEMMA MeasuredInvStep ==
  ASSUME Overlap = {}, TypeOK, CalmInv, MeasuredInv, [Next]_vars
  PROVE  MeasuredInv'
<1>. USE DEF MeasuredInv, TypeOK, At, Goto
<1>. USE StateNames
<1>1. CASE InitHealthMonitoring \/ StartRound
  BY <1>1 DEF InitHealthMonitoring, StartRound
<1>2. CASE Update_SU_State \/ SetOnAfterReset
  BY <1>2 DEF Update_SU_State, UpdateTo, SetOnAfterReset, NextUnit
<1>3. CASE Monitor
  BY <1>3 DEF Monitor, EndRound
<1>4. CASE CallSelfTest_SU \/ SelfTest_SU
  BY <1>4 DEF CallSelfTest_SU, Measure, SelfTest_SU
<1>5. CASE LookAgain \/ MarkMonitored
  BY <1>5 DEF LookAgain, MarkIf, MarkMonitored, EndRound
<1>6. CASE CallSelfTestChannel \/ StartPulse \/ EndPulse
  <2>1. CASE CallSelfTestChannel
    BY <2>1 DEF CallSelfTestChannel
  <2>2. CASE StartPulse
    BY <2>2 DEF StartPulse
  <2>3. CASE EndPulse
    BY <2>3 DEF EndPulse
  <2>. QED
    BY <1>6, <2>1, <2>2, <2>3
<1>7. CASE RestoreSettings \/ ResetNumber \/ SetOnAfterTest \/ EndSelfTest
  BY <1>7 DEF RestoreSettings, ResetNumber, SetOnAfterTest, SwitchBackOn, EndSelfTest,
     EndRound
<1>8. ASSUME NEW s \in SUs, FailureSwitchesOff(s) \/ SwitchOff(s)
      PROVE  MeasuredInv'
  BY <1>8 DEF FailureSwitchesOff, SwitchOff, SetSensorUnitOff, PowerAndStateOff,
     NumberWithout
<1>9. ASSUME NEW s \in SUs, Start_SU_SwitchingOn(s)
      PROVE  MeasuredInv'
  BY <1>9 DEF Start_SU_SwitchingOn
<1>10. ASSUME NEW s \in SUs, StartSelfTest(s)
       PROVE  MeasuredInv'
  <2>1. health.at \notin {"self_test", "monitored"} /\ self_test_SU_number \notin SUs
    BY <1>10 DEF StartSelfTest, BeginSelfTest
  <2>. QED
    BY <1>10, <2>1 DEF StartSelfTest, BeginSelfTest, CalmInv, WorkInv
<1>11. CASE StartAcquisition \/ StopAcquisition
  BY <1>11 DEF StartAcquisition, AcquireUnless, StopAcquisition, NumberUnlessIn
<1>12. CASE HandleHitTrigger
  BY <1>12 DEF HandleHitTrigger
<1>13. CASE Boot
  BY <1>13 DEF Boot
<1>14. CASE UNCHANGED vars
  BY <1>14 DEF vars
<1>. QED
  BY <1>1, <1>2, <1>3, <1>4, <1>5, <1>6, <1>7, <1>8, <1>9, <1>10, <1>11, <1>12, <1>13,
     <1>14
  DEF Next, HealthMonitoringTask, Telecommand

\* A step by which a unit leaves the monitoring state for the next one.
GoesOn(s) == SU_state[s] = "self_test_mon_e" /\ SU_state'[s] = "self_test_e"

LEMMA GoesOnMeasured ==
  ASSUME Overlap = {}, TypeOK, CalmInv, MeasuredInv, [Next]_vars, NEW s \in SUs, GoesOn(s)
  PROVE  health.su = s
<1>. USE DEF GoesOn, TypeOK, At
<1>1. CASE MarkMonitored
  <2>1. self_test_SU_number = s
    BY <1>1 DEF MarkMonitored, SetState
  <2>. QED
    BY <1>1, <2>1 DEF MarkMonitored, MeasuredInv
<1>2. CASE HandleHitTrigger
  BY <1>2 DEF HandleHitTrigger, SetState
<1>3. CASE StartPulse \/ SetOnAfterTest
  BY <1>3 DEF StartPulse, SetOnAfterTest, SwitchBackOn, SetState
<1>4. CASE EndPulse
  BY <1>4 DEF EndPulse, MayBe, SetState, CalmInv, WorkInv
<1>5. CASE Update_SU_State \/ SetOnAfterReset
  BY <1>5 DEF Update_SU_State, UpdateTo, SetOnAfterReset
<1>6. CASE \/ InitHealthMonitoring \/ StartRound \/ Monitor \/ CallSelfTest_SU
           \/ SelfTest_SU \/ LookAgain \/ CallSelfTestChannel \/ RestoreSettings
           \/ ResetNumber \/ EndSelfTest \/ UNCHANGED vars
  BY <1>6 DEF InitHealthMonitoring, StartRound, Monitor, CallSelfTest_SU, Measure,
     SelfTest_SU, LookAgain, MarkIf, CallSelfTestChannel, RestoreSettings, ResetNumber,
     EndSelfTest, vars
<1>7. ASSUME NEW u \in SUs, \/ FailureSwitchesOff(u) \/ SwitchOff(u)
                            \/ Start_SU_SwitchingOn(u) \/ StartSelfTest(u)
      PROVE  FALSE
  BY <1>7 DEF FailureSwitchesOff, SwitchOff, SetSensorUnitOff, PowerAndStateOff,
     Start_SU_SwitchingOn, StartSelfTest, BeginSelfTest
<1>8. CASE StartAcquisition \/ StopAcquisition \/ Boot
  BY <1>8 DEF StartAcquisition, AcquireUnless, StopAcquisition, Boot
<1>. QED
  BY <1>1, <1>2, <1>3, <1>4, <1>5, <1>6, <1>7, <1>8
  DEF Next, HealthMonitoringTask, Telecommand

\* The phases of the unit states, one by one.
LEMMA PhaseOf ==
  ASSUME NEW state \in States
  PROVE  /\ Phase(state) = "off" <=> state = "off_e"
         /\ Phase(state) = "on" <=> state = "on_e"
         /\ Phase(state) = "acquiring" <=> state = "acquisition_e"
         /\ Phase(state) = "starting" <=> state \in SwitchingStates
         /\ Phase(state) = "test" <=> state \in SelfTestStates
BY DEF Phase, States, SwitchingStates, SelfTestStates

\* Units in a phase, seen from the state.
LEMMA PhaseSets ==
  ASSUME TypeOK
  PROVE  /\ Lifecycle!InPhase("acquiring") = {s \in SUs : SU_state[s] = "acquisition_e"}
         /\ Lifecycle!InPhase("starting") = {s \in SUs : SU_state[s] \in SwitchingStates}
         /\ Lifecycle!InPhase("test") = {s \in SUs : SU_state[s] \in SelfTestStates}
BY PhaseOf DEF Lifecycle!InPhase, TypeOK

\* The abstract states of the units.
Units == [s \in SUs |-> Phase(SU_state[s])]

LEMMA OnePhaseMoves ==
  ASSUME TypeOK, NEW s \in SUs, NEW state, SU_state' = [SU_state EXCEPT ![s] = state]
  PROVE  Units' = [Units EXCEPT ![s] = Phase(state)]
BY DEF Units, TypeOK

LEMMA SamePhase ==
  ASSUME TypeOK, NEW s \in SUs, NEW state, SU_state' = [SU_state EXCEPT ![s] = state],
         Phase(state) = Phase(SU_state[s])
  PROVE  UNCHANGED Units
BY DEF Units, TypeOK

LEMMA InitRefines == Init => Lifecycle!Init
BY PhaseOf, StateNames DEF Init, Lifecycle!Init

LEMMA StepRefines ==
  ASSUME Overlap = {}, TypeOK, TypeOK', SwitchingInv, CalmInv, [Next]_vars
  PROVE  [Lifecycle!Next]_Units
<1>. USE DEF TypeOK, At, Goto
<1>. DEFINE Stays == UNCHANGED Units
<1>1. ASSUME UNCHANGED SU_state
      PROVE  Stays
  BY <1>1 DEF Units
<1>2. CASE Update_SU_State
  <2>1. CASE SU_state[health.su] = "start_switching_e"
    <3>1. health.su \in SUs /\ SU_state' = [SU_state EXCEPT ![health.su] = "switching_e"]
      BY <1>2, <2>1 DEF Update_SU_State, UpdateTo
    <3>2. Phase("switching_e") = Phase("start_switching_e")
      BY DEF Phase, SwitchingStates, SelfTestStates
    <3>. QED  BY <2>1, <3>1, <3>2, SamePhase
  <2>2. CASE SU_state[health.su] # "start_switching_e"
    <3>1. UNCHANGED SU_state
      BY <1>2, <2>2 DEF Update_SU_State, UpdateTo
    <3>. QED  BY <1>1, <3>1
  <2>. QED  BY <2>1, <2>2
<1>3. CASE SetOnAfterReset
  <2>1. /\ health.su \in SUs /\ SU_state[health.su] = "switching_e"
        /\ SU_state' = [SU_state EXCEPT ![health.su] = "on_e"]
    BY <1>3 DEF SetOnAfterReset, CalmInv, WorkInv
  <2>2. Units[health.su] = "starting" /\ Phase("on_e") = "on"
    BY <2>1, PhaseOf, StateNames DEF Units, SwitchingStates
  <2>3. Lifecycle!Settle(health.su)
    BY <2>1, <2>2, OnePhaseMoves DEF Lifecycle!Settle, Units
  <2>. QED  BY <2>1, <2>3 DEF Lifecycle!Next
<1>4. ASSUME NEW n \in SUs, NEW state \in SelfTestStates,
             SU_state[n] \in SelfTestStates, SetState(n, state)
      PROVE  Stays
  <2>1. SU_state' = [SU_state EXCEPT ![n] = state]
    BY <1>4 DEF SetState
  <2>2. Phase(state) = Phase(SU_state[n])
    BY <1>4, PhaseOf DEF States
  <2>. QED  BY <2>1, <2>2, SamePhase
<1>5. CASE MarkMonitored
  BY <1>4, <1>5 DEF MarkMonitored, CalmInv, WorkInv, SelfTestStates
<1>6. CASE StartPulse
  BY <1>4, <1>6 DEF StartPulse, CalmInv, WorkInv, SelfTestStates
<1>7. CASE EndPulse
  BY <1>1, <1>4, <1>7 DEF EndPulse, CalmInv, WorkInv, SelfTestStates
<1>8. CASE HandleHitTrigger
  <2>1. self_test_SU_number \in SUs
    BY <1>8 DEF HandleHitTrigger
  <2>. QED  BY <1>4, <1>8, <2>1 DEF HandleHitTrigger, SelfTestStates
<1>9. CASE SetOnAfterTest
  <2>1. /\ health.su \in SUs /\ SU_state[health.su] = "self_test_e"
        /\ SU_state' = [SU_state EXCEPT ![health.su] = "on_e"]
    BY <1>9 DEF SetOnAfterTest, SwitchBackOn, SetState, CalmInv, WorkInv
  <2>2. Units[health.su] = "test" /\ Phase("on_e") = "on"
    BY <2>1, PhaseOf, StateNames DEF Units, SelfTestStates
  <2>3. Lifecycle!EndTest(health.su)
    BY <2>1, <2>2, OnePhaseMoves DEF Lifecycle!EndTest, Units
  <2>. QED  BY <2>1, <2>3 DEF Lifecycle!Next
<1>10. ASSUME NEW s \in SUs, FailureSwitchesOff(s) \/ SwitchOff(s)
       PROVE  Lifecycle!Next
  <2>1. SU_state' = [SU_state EXCEPT ![s] = "off_e"]
    BY <1>10 DEF FailureSwitchesOff, SwitchOff, SetSensorUnitOff, PowerAndStateOff
  <2>2. Lifecycle!SwitchOff({s})
    BY <2>1, PhaseOf, StateNames DEF Lifecycle!SwitchOff
  <2>. QED  BY <2>2 DEF Lifecycle!Next
<1>11. ASSUME NEW s \in SUs, Start_SU_SwitchingOn(s)
       PROVE  Lifecycle!Next
  <2>1. /\ SU_state[s] = "off_e" /\ mode # "ACQUISITION"
        /\ SU_state' = [SU_state EXCEPT ![s] = "start_switching_e"]
    BY <1>11 DEF Start_SU_SwitchingOn
  <2>2. Lifecycle!InPhase("acquiring") = {}
    BY <2>1, PhaseSets DEF SwitchingInv, AcquisitionModeUnits
  <2>3. Units[s] = "off" /\ Phase("start_switching_e") = "starting"
    BY <2>1, PhaseOf, StateNames DEF Units, SwitchingStates
  <2>4. Lifecycle!StartSwitching(s)
    BY <2>1, <2>2, <2>3, OnePhaseMoves DEF Lifecycle!StartSwitching, Units
  <2>. QED  BY <2>4 DEF Lifecycle!Next
<1>12. ASSUME NEW s \in SUs, StartSelfTest(s)
       PROVE  Lifecycle!Next
  <2>1. /\ SU_state[s] = "on_e" /\ mode # "ACQUISITION"
        /\ self_test_SU_number = NO_SU /\ ~At("set_on")
        /\ SU_state' = [SU_state EXCEPT ![s] = "self_test_mon_e"]
    BY <1>12 DEF StartSelfTest, BeginSelfTest
  <2>2. Lifecycle!InPhase("acquiring") = {} /\ Lifecycle!InPhase("test") = {}
    BY <2>1, PhaseSets, StateNames
    DEF SwitchingInv, AcquisitionModeUnits, CalmInv, OnlyNumberedInTest
  <2>3. Units[s] = "on" /\ Phase("self_test_mon_e") = "test"
    BY <2>1, PhaseOf, StateNames DEF Units, SelfTestStates
  <2>4. Lifecycle!BeginTest(s)
    BY <2>1, <2>2, <2>3, OnePhaseMoves DEF Lifecycle!BeginTest, Units
  <2>. QED  BY <2>4 DEF Lifecycle!Next
<1>13. CASE StartAcquisition
  <2>1. /\ \A s \in SUs : SU_state[s] \notin SwitchingStates
        /\ \A s \in SUs : SU_state'[s] =
             IF SU_state[s] = "on_e" THEN "acquisition_e" ELSE SU_state[s]
    BY <1>13 DEF StartAcquisition, AcquireUnless
  <2>2. Lifecycle!InPhase("starting") = {}
    BY <2>1, PhaseSets
  <2>3. \A s \in SUs : Phase(SU_state'[s]) =
          IF Phase(SU_state[s]) = "on" THEN "acquiring" ELSE Phase(SU_state[s])
    BY <2>1, PhaseOf, StateNames
  <2>4. Lifecycle!BeginAcquisition
    BY <2>2, <2>3 DEF Lifecycle!BeginAcquisition
  <2>. QED  BY <2>4 DEF Lifecycle!Next
<1>14. CASE StopAcquisition
  <2>1. \A s \in SUs : SU_state'[s] =
          IF SU_state[s] = "acquisition_e" THEN "on_e" ELSE SU_state[s]
    BY <1>14 DEF StopAcquisition
  <2>2. \A s \in SUs : Phase(SU_state'[s]) =
          IF Phase(SU_state[s]) = "acquiring" THEN "on" ELSE Phase(SU_state[s])
    BY <2>1, PhaseOf, StateNames
  <2>3. Lifecycle!EndAcquisition
    BY <2>2 DEF Lifecycle!EndAcquisition
  <2>. QED  BY <2>3 DEF Lifecycle!Next
<1>15. CASE Boot
  <2>1. \A s \in SUs : Phase(SU_state'[s]) = "off"
    BY <1>15, PhaseOf, StateNames DEF Boot
  <2>2. Lifecycle!SwitchOff(SUs)
    BY <2>1 DEF Lifecycle!SwitchOff
  <2>. QED  BY <2>2 DEF Lifecycle!Next
<1>16. CASE \/ InitHealthMonitoring \/ StartRound \/ Monitor \/ CallSelfTest_SU
            \/ SelfTest_SU \/ LookAgain \/ CallSelfTestChannel
            \/ RestoreSettings \/ ResetNumber \/ EndSelfTest \/ UNCHANGED vars
  <2>1. UNCHANGED SU_state
    BY <1>16
    DEF InitHealthMonitoring, StartRound, Monitor, CallSelfTest_SU, Measure, SelfTest_SU,
        LookAgain, MarkIf, CallSelfTestChannel, RestoreSettings, ResetNumber,
        EndSelfTest, vars
  <2>. QED  BY <1>1, <2>1
<1>. QED
  BY <1>2, <1>3, <1>5, <1>6, <1>7, <1>8, <1>9, <1>10, <1>11, <1>12, <1>13, <1>14,
     <1>15, <1>16
  DEF Next, HealthMonitoringTask, Telecommand

\* While no telecommand comes for a unit that the health task is working on,
\* only the unit of self_test_SU_number is in self test (Monitor, RestoreSettings).
THEOREM OneUnitInTest ==
  ASSUME Overlap = {}
  PROVE  Spec => []OnlyNumberedInTest
<1>1. TypeOK /\ TypeOK' /\ CalmInv /\ [Next]_vars => CalmInv'
  BY CalmInvStep
<1>. QED
  BY <1>1, CalmInvInit, TypeCorrect, PTL DEF Spec, CalmInv

\* ... and a unit goes on to the test pulses only after its supplies were measured
\* (rounds 7 and 6 of Monitor, HandleHitTrigger).
THEOREM MeasuredBeforePulses ==
  ASSUME Overlap = {}
  PROVE  Spec => MonitoredFirst
<1>1. TypeOK /\ TypeOK' /\ CalmInv /\ [Next]_vars => CalmInv'
  BY CalmInvStep
<1>2. Init => MeasuredInv
  BY DEF Init, MeasuredInv
<1>3. TypeOK /\ CalmInv /\ MeasuredInv /\ [Next]_vars => MeasuredInv'
  BY MeasuredInvStep
<1>4. TypeOK /\ CalmInv /\ MeasuredInv /\ [Next]_vars =>
        [\A s \in SUs : GoesOn(s) => health.su = s]_vars
  BY GoesOnMeasured
<1>. QED
  BY <1>1, <1>2, <1>3, <1>4, CalmInvInit, TypeCorrect, PTL
  DEF Spec, MonitoredFirst, GoesOn

\* Then every unit also lives as UnitLifecycle says.
THEOREM UnitsImplementLifecycle ==
  ASSUME Overlap = {}
  PROVE  Spec => ImplementsUnitLifecycle
<1>1. TypeOK /\ TypeOK' /\ CalmInv /\ [Next]_vars => CalmInv'
  BY CalmInvStep
<1>2. TypeOK /\ TypeOK' /\ SwitchingInv /\ CalmInv /\ [Next]_vars => [Lifecycle!Next]_Units
  BY StepRefines
<1>. QED
  BY <1>1, <1>2, CalmInvInit, InitRefines, SwitchingInvInit, SwitchingInvStep,
     TypeCorrect, PTL
  DEF Spec, ImplementsUnitLifecycle, Lifecycle!Spec, Units

============================================================================
