---------------------------- MODULE HealthMonitor ----------------------------
(***************************************************************************)
(* The Health Monitoring task: the rounds of Monitor, the measurements of  *)
(* voltages and temperatures with an A/D converter that the hit trigger    *)
(* task takes away, what is done when one fails, and the watchdog.         *)
(*                                                                         *)
(* The task is the list of its remaining duties (work["health"]): a call   *)
(* puts what its body does before what the caller has left to do.  A step  *)
(* ends where another task or an interrupt can make a difference.  Tasks   *)
(* of a higher priority preempt it between any two steps: the TC execution *)
(* and Acquisition tasks, and the hit trigger task, which is one step.     *)
(*                                                                         *)
(* Time, the sums of CalculateChecksum (module CodeMemory), the states of  *)
(* the sensor units and their channel tests (modules SensorUnits and       *)
(* HitTrigger) are left out, and the times of the conversions.             *)
(***************************************************************************)
EXTENDS StatusRegisters

CONSTANTS
  NUM_TEMP,              \* temperatures of a sensor unit
  NUM_CHANNELS,          \* voltage channels: 7
  DPU_CHANNELS,          \* those of Monitor_DPU_Voltage, in order
  LV_CHANNELS,           \* those of the low voltages of each unit
  HV_CHANNELS,           \* those of the high voltages
  TEMP_COUNT,            \* cycles of ten rounds between temperatures, less one
  VOLTAGE_COUNT,         \* cycles between voltages, less one
  HIT_BUDGET,            \* hits handled in a cycle
  ADC_MAX_TRIES,         \* tries of Read_AD_Channel
  MaxFailures,           \* bound: failures of the hardware in a behaviour
  MaxRequests            \* bound: what other tasks and the TC interrupt do

ASSUME HealthAssumption ==
  /\ NUM_TEMP \in Nat \ {0}
  /\ NUM_CHANNELS \in Nat \ {0}
  /\ DPU_CHANNELS \in Seq(0 .. NUM_CHANNELS - 1)
  /\ LV_CHANNELS \in [SUs -> SUBSET (0 .. NUM_CHANNELS - 1)]
  /\ HV_CHANNELS \subseteq 0 .. NUM_CHANNELS - 1
  /\ TEMP_COUNT \in Nat /\ TEMP_COUNT >= NUM_SU - 1
  /\ VOLTAGE_COUNT \in Nat
  /\ HIT_BUDGET \in Nat /\ ADC_MAX_TRIES \in Nat /\ HIT_BUDGET < ADC_MAX_TRIES
  /\ MaxFailures \in Nat /\ MaxRequests \in Nat

HEALTH_COUNT == 9
NO_SU == NUM_SU
Channels == 0 .. NUM_CHANNELS - 1

VARIABLES
  health_mon_round, temp_meas_count, voltage_meas_count,
  in_limits,           \* the voltages of the telemetry that are within limits
  self_test_SU,        \* unit under self test, or NO_SU
  WD_RESET,            \* output to the watchdog, which a falling edge resets
  unserved,            \* history: rounds since that edge
  hit_budget_left,
  hit_trigger,         \* HIT_TRIGGER_FLAG: hits are handled
  confirm_hit_result,
  at,                  \* where Read_AD_Channel is, or "out"
  tries_left,
  result,              \* AD_execution_result
  value,               \* the reading: "zero", "normal" or "bad"
  taken,               \* the hit trigger task has taken the converter since the
                       \* channel was selected
  switched_off,        \* history: units switched off since the errors were cleared
  failures,            \* history: failures of the hardware
  late_hit,            \* history: a hit came after the last try of a reading
  requests             \* history: what other tasks and the TC interrupt have done

counterVars == <<health_mon_round, temp_meas_count, voltage_meas_count>>
watchdogVars == <<WD_RESET, unserved>>
hitVars == <<hit_budget_left, hit_trigger>>
readVars == <<confirm_hit_result, at, tries_left, result, value, taken, late_hit>>
unitVars == <<in_limits, self_test_SU, switched_off>>
vars == <<registerVars, work, counterVars, watchdogVars, hitVars, readVars, unitVars,
          failures, requests>>

HIGH == 1
LOW == 0

MaxUnserved == HEALTH_COUNT + 2  \* bound: rounds counted since the edge

----------------------------------------------------------------------------
(* Duties of the health task *)

Duty(op, n) == [op |-> op, at |-> n]

\* The mutant's counter never starts again.
MutantUpdatePeriodCounter(counter, full) == IF counter > 0 THEN counter - 1 ELSE counter
UpdatePeriodCounter(counter, full) == IF counter > 0 THEN counter - 1 ELSE full

HighVoltageCurrent(u) == <<Duty("HighVoltageCurrent", u)>>
LowVoltageCurrent == <<Duty("LowVoltageCurrent", 0)>>
MeasureVoltage(c) == <<Duty("Read_AD_Channel", 0), Duty("StoreVoltage", c)>>

\* The readings of the temperatures of a unit are not told apart.
Temperatures(u, n) ==
  [i \in 1 .. 2 * n |-> IF i % 2 = 1 THEN Duty("Read_AD_Channel", 0)
                                     ELSE Duty("StoreTemperature", u)]
MeasureTemperature(u) == Temperatures(u, NUM_TEMP)

Voltages(channels) ==
  [i \in 1 .. 2 * Len(channels) |->
     IF i % 2 = 1 THEN Duty("Read_AD_Channel", 0)
                  ELSE Duty("StoreVoltage", channels[i \div 2])]

Monitor_DPU_Voltage == Voltages(DPU_CHANNELS) \o <<Duty("Monitor_DPU_Voltage", 0)>>

SelfTest_SU(u) ==
  LowVoltageCurrent \o HighVoltageCurrent(u)
    \o Voltages([i \in 1 .. NUM_CHANNELS |-> i - 1])
    \o <<Duty("Monitor_SU_Voltage", u)>>
    \o MeasureTemperature(u)

InitHealthMonitoring == Monitor_DPU_Voltage \o SetMode(STAND_BY)

TemperatureFailure(u) ==
  <<Duty("SetSensorUnitOff", u)>> \o SetErrorStatus(SU_ERROR(u))
    \o Set_SU_Error(u, TEMPERATURE_ERROR)

\* What Monitor does in the current round, beside the checksum.
RoundDuties ==
  CASE health_mon_round = 0 -> HighVoltageCurrent(0) \o <<Duty("NewPeriod", 0)>>
    [] health_mon_round \in SUs \ {0} -> HighVoltageCurrent(health_mon_round)
    [] health_mon_round = 4 -> LowVoltageCurrent
    [] health_mon_round = 5 /\ voltage_meas_count < NUM_CHANNELS ->
         MeasureVoltage(voltage_meas_count)
    [] health_mon_round = 6 /\ self_test_SU # NO_SU -> <<Duty("EndSelfTest", 0)>>
    [] health_mon_round = 7 /\ self_test_SU # NO_SU -> SelfTest_SU(self_test_SU)
    [] health_mon_round = 8 -> <<Duty("SET_WD_RESET_HIGH", 0)>>
    [] health_mon_round = 9 ->
         (IF temp_meas_count < NUM_SU THEN MeasureTemperature(temp_meas_count) ELSE <<>>)
           \o <<Duty("SET_WD_RESET_LOW", 0)>>
    [] OTHER -> <<>>

----------------------------------------------------------------------------
(* Rounds *)

HandleHealthMonitoring ==
  /\ masked = Nobody
  /\ \A t \in Tasks : work[t] = <<>>
  /\ work' = [work EXCEPT !["health"] = RoundDuties]
  /\ health_mon_round' = UpdatePeriodCounter(health_mon_round, HEALTH_COUNT)
  /\ unserved' = IF unserved < MaxUnserved THEN unserved + 1 ELSE unserved
  /\ UNCHANGED <<registerVars, temp_meas_count, voltage_meas_count, WD_RESET, hitVars,
                 readVars, unitVars, failures, requests>>

\* The end of round 0; what else it does for a disabled hit trigger is in HitTrigger.
NewPeriod ==
  /\ Doing("health", "NewPeriod")
  /\ temp_meas_count' = UpdatePeriodCounter(temp_meas_count, TEMP_COUNT)
  /\ voltage_meas_count' = UpdatePeriodCounter(voltage_meas_count, VOLTAGE_COUNT)
  /\ hit_budget_left' = HIT_BUDGET
  /\ hit_trigger' = TRUE
  /\ Then("health", <<>>)
  /\ UNCHANGED <<registerVars, health_mon_round, watchdogVars, readVars, unitVars,
                 failures, requests>>

SetWatchdog(level) ==
  /\ WD_RESET' = level
  /\ unserved' = IF WD_RESET = HIGH /\ level = LOW THEN 0 ELSE unserved
  /\ Then("health", <<>>)
  /\ UNCHANGED <<registerVars, counterVars, hitVars, readVars, unitVars, failures, requests>>

\* For the mutant: the signal of the watchdog is not set high again.
MutantServeWatchdog ==
  \/ Doing("health", "SET_WD_RESET_HIGH") /\ SetWatchdog(WD_RESET)
  \/ Doing("health", "SET_WD_RESET_LOW") /\ SetWatchdog(LOW)
ServeWatchdog ==
  \/ Doing("health", "SET_WD_RESET_HIGH") /\ SetWatchdog(HIGH)
  \/ Doing("health", "SET_WD_RESET_LOW") /\ SetWatchdog(LOW)

----------------------------------------------------------------------------
(* Readings of the A/D converter *)

Reading(place) == Doing("health", "Read_AD_Channel") /\ at = place

Failure == failures < MaxFailures /\ failures' = failures + 1
NoFailure == UNCHANGED failures

readFrame == <<registerVars, counterVars, watchdogVars, hitVars, unitVars, requests>>

\* The start of the first try is that of Read_AD_Channel.
ClearHit ==
  /\ Reading("out") \/ Reading("clear")
  /\ confirm_hit_result' = 0
  /\ tries_left' = IF at = "out" THEN ADC_MAX_TRIES ELSE tries_left
  /\ at' = "select"
  /\ UNCHANGED <<readFrame, work, result, value, taken, late_hit, failures>>

SelectChannel ==
  /\ Reading("select")
  /\ taken' = FALSE
  /\ at' = "convert"
  /\ UNCHANGED <<readFrame, work, confirm_hit_result, tries_left, result, value, late_hit,
                 failures>>

\* A conversion that ends gives any reading if a hit has taken the converter.  A bad
\* reading of an undisturbed one, and one that does not end, are failures.
Convert_AD ==
  /\ Reading("convert")
  /\ \/ result' = "RESULT_OK" /\ value' = "normal" /\ NoFailure
     \/ result' = "RESULT_OK" /\ value' = "bad" /\ IF taken THEN NoFailure ELSE Failure
     \/ result' = "CONVERSION_ACTIVE" /\ value' = "zero" /\ Failure
  /\ at' = "decide"
  /\ UNCHANGED <<readFrame, work, confirm_hit_result, tries_left, taken, late_hit>>

\* For the mutant: a hit does not cause another try.
MutantTriesAfter(tries) == 0
TriesAfter(tries) == IF confirm_hit_result = 0 THEN 0 ELSE tries - 1

DecideRetry ==
  /\ Reading("decide")
  /\ tries_left' = TriesAfter(tries_left)
  /\ at' = IF tries_left' = 0 THEN "judge" ELSE "clear"
  /\ UNCHANGED <<readFrame, work, confirm_hit_result, result, value, taken, late_hit,
                 failures>>

\* For the mutant: a hit does not discard the reading.
MutantJudge == UNCHANGED <<result, value>> /\ Then("health", <<>>)
Judge ==
  IF confirm_hit_result # 0
  THEN result' = "HIT_OCCURRED" /\ value' = "zero" /\ Then("health", <<>>)
  ELSE /\ UNCHANGED <<result, value>>
       /\ Then("health", IF result = "CONVERSION_ACTIVE" THEN SetModeStatusError(ADC_ERROR)
                                                         ELSE <<>>)

EndReading ==
  /\ Reading("judge")
  /\ at' = "out"
  /\ Judge
  /\ UNCHANGED <<readFrame, confirm_hit_result, tries_left, taken, late_hit, failures>>

Read_AD_Channel == ClearHit \/ SelectChannel \/ Convert_AD \/ DecideRetry \/ EndReading

\* The hit trigger task, for a hit: with budget left it uses the converter.
HandleHitTrigger ==
  /\ masked = Nobody
  /\ hit_trigger
  /\ IF hit_budget_left = 0
     THEN hit_trigger' = FALSE /\ UNCHANGED <<hit_budget_left, readVars>>
     ELSE /\ hit_budget_left' = hit_budget_left - 1
          /\ confirm_hit_result' = 1
          /\ taken' = (taken \/ at # "out")
          /\ late_hit' = (late_hit \/ at = "judge")
          /\ UNCHANGED <<hit_trigger, at, tries_left, result, value>>
  /\ UNCHANGED <<registerVars, work, counterVars, watchdogVars, unitVars, failures, requests>>

----------------------------------------------------------------------------
(* Measurements and their failures *)

dutyFrame == <<registerVars, counterVars, watchdogVars, hitVars, requests>>

\* The locals of the reading are forgotten.
EndMeasurement ==
  /\ result' = "RESULT_OK" /\ value' = "normal" /\ taken' = FALSE
  /\ UNCHANGED <<confirm_hit_result, at, tries_left, late_hit, failures>>

StoreTemperature(u) ==
  /\ Then("health",
       (IF value = "bad" THEN TemperatureFailure(u) ELSE <<>>)
         \o IF result # "RESULT_OK"
            THEN SetSoftwareError(MEASUREMENT_ERROR) \o TemperatureFailure(u)
            ELSE <<>>)
  /\ EndMeasurement
  /\ UNCHANGED <<dutyFrame, unitVars>>

\* A failed measurement leaves the voltage of the telemetry as it was.
StoreVoltage(c) ==
  /\ IF result # "RESULT_OK"
     THEN UNCHANGED in_limits /\ Then("health", SetSoftwareError(MEASUREMENT_ERROR))
     ELSE /\ in_limits' = IF value = "normal" THEN in_limits \cup {c} ELSE in_limits \ {c}
          /\ Then("health", <<>>)
  /\ EndMeasurement
  /\ UNCHANGED <<dutyFrame, self_test_SU, switched_off>>

StoreResult ==
  \/ Doing("health", "StoreTemperature") /\ StoreTemperature(Head(work["health"]).at)
  \/ Doing("health", "StoreVoltage") /\ StoreVoltage(Head(work["health"]).at)

SetSensorUnitOff ==
  /\ Doing("health", "SetSensorUnitOff")
  /\ switched_off' = switched_off \cup {Head(work["health"]).at}
  /\ Then("health", <<>>)
  /\ UNCHANGED <<dutyFrame, readVars, in_limits, self_test_SU, failures>>

CheckFrame == UNCHANGED <<dutyFrame, readVars, unitVars>>

\* The hardware may show an overcurrent.
CheckHighVoltage ==
  /\ Doing("health", "HighVoltageCurrent")
  /\ LET u == Head(work["health"]).at IN
     \/ Then("health", <<>>) /\ NoFailure
     \/ /\ Failure
        /\ Then("health", SetErrorStatus(SU_ERROR(u)) \o Set_SU_Error(u, HV_SUPPLY_ERROR))
  /\ CheckFrame

CheckLowVoltage ==
  /\ Doing("health", "LowVoltageCurrent")
  /\ \/ Then("health", <<>>) /\ NoFailure
     \/ Then("health", <<Duty("LowVoltageFailure", 0)>>) /\ Failure
  /\ CheckFrame

\* One iteration of the loop that switches all units off.
LowVoltageFailure ==
  /\ Doing("health", "LowVoltageFailure")
  /\ LET u == Head(work["health"]).at IN
     Then("health",
       <<Duty("SetSensorUnitOff", u)>> \o Set_SU_Error(u, LV_SUPPLY_ERROR)
         \o IF u + 1 < NUM_SU THEN <<Duty("LowVoltageFailure", u + 1)>>
                              ELSE SetErrorStatus(OVERALL_SU_ERROR))
  /\ CheckFrame
  /\ NoFailure

\* A bit is set again for every voltage that is out of limits: once here.
ExceedsLimit(channels) == ~ (channels \subseteq in_limits)
ErrorIf(condition, ops) == IF condition THEN ops ELSE <<>>

Monitor_SU_Voltage(u) ==
  ErrorIf(ExceedsLimit(LV_CHANNELS[u]), Set_SU_Error(u, LV_LIMIT_ERROR))
    \o ErrorIf(ExceedsLimit(HV_CHANNELS), Set_SU_Error(u, HV_LIMIT_ERROR))

MonitorVoltages ==
  /\ \/ /\ Doing("health", "Monitor_DPU_Voltage")
        /\ Then("health", ErrorIf(ExceedsLimit({DPU_CHANNELS[i] : i \in DOMAIN DPU_CHANNELS}),
                                  SetModeStatusError(SUPPLY_ERROR)))
     \/ /\ Doing("health", "Monitor_SU_Voltage")
        /\ Then("health", Monitor_SU_Voltage(Head(work["health"]).at))
  /\ CheckFrame
  /\ NoFailure

\* Only if the state of the unit, of module SensorUnits, is self_test_e.
EndSelfTest ==
  /\ Doing("health", "EndSelfTest")
  /\ self_test_SU' \in {self_test_SU, NO_SU}
  /\ Then("health", <<>>)
  /\ UNCHANGED <<dutyFrame, readVars, in_limits, switched_off, failures>>

HealthDuty ==
  \/ NewPeriod \/ ServeWatchdog \/ Read_AD_Channel \/ StoreResult \/ SetSensorUnitOff
  \/ CheckHighVoltage \/ CheckLowVoltage \/ LowVoltageFailure \/ MonitorVoltages
  \/ EndSelfTest

----------------------------------------------------------------------------
(* The other tasks, and the specification *)

otherFrame == <<counterVars, watchdogVars, hitVars, readVars, in_limits>>

Request == requests < MaxRequests /\ requests' = requests + 1

\* A telecommand that changes status registers, or starts a self test.
Telecommand ==
  /\ Request
  /\ \/ \E ops \in Commands :
          /\ Begins("tc", ops)
          /\ switched_off' = IF ops = ERROR_STATUS_CLEAR THEN {} ELSE switched_off
          /\ UNCHANGED self_test_SU
     \/ /\ work["tc"] = <<>> /\ masked = Nobody
        /\ self_test_SU = NO_SU
        /\ self_test_SU' \in SUs
        /\ UNCHANGED <<registerVars, work, switched_off>>
  /\ UNCHANGED <<otherFrame, failures>>

\* The hit trigger task has mailed that the converter failed.
ConverterFailedMail ==
  /\ work["tc"] = <<>>
  /\ Begins("acquisition", SetModeStatusError(ADC_ERROR))
  /\ Failure
  /\ UNCHANGED <<otherFrame, self_test_SU, switched_off, requests>>

TC_Interrupt ==
  /\ Request
  /\ TC_InterruptError
  /\ UNCHANGED <<otherFrame, self_test_SU, switched_off, failures>>

Register(t) ==
  /\ RegisterStep(t)
  /\ UNCHANGED <<otherFrame, self_test_SU, switched_off, failures, requests>>

HealthStep == HandleHealthMonitoring \/ HealthDuty \/ Register("health")

Init ==
  /\ RegisterInit
  /\ work = [t \in Tasks |-> IF t = "health" THEN InitHealthMonitoring ELSE <<>>]
  /\ health_mon_round = HEALTH_COUNT
  /\ temp_meas_count = TEMP_COUNT /\ voltage_meas_count = VOLTAGE_COUNT
  /\ in_limits = {}
  /\ self_test_SU = NO_SU
  /\ WD_RESET = HIGH /\ unserved = 0
  /\ hit_budget_left = HIT_BUDGET /\ hit_trigger = TRUE
  /\ confirm_hit_result = 0 /\ at = "out" /\ tries_left = 0
  /\ result = "RESULT_OK" /\ value = "normal" /\ taken = FALSE
  /\ switched_off = {} /\ failures = 0 /\ late_hit = FALSE /\ requests = 0

Next ==
  \/ HealthStep
  \/ Register("tc")
  \/ Register("acquisition")
  \/ HandleHitTrigger
  \/ Telecommand
  \/ ConverterFailedMail
  \/ TC_Interrupt

\* The processor does not stop: some task goes on with its work.  That the health task,
\* of the lowest priority, has its turn follows from the hit budget and the priorities.
Fairness == WF_vars(HealthStep \/ Register("tc") \/ Register("acquisition"))

Spec == Init /\ [][Next]_vars /\ Fairness

----------------------------------------------------------------------------
(* Properties *)

Updates ==
  [op : {"update"}, register : Registers, drop : SUBSET Bits, put : SUBSET Bits,
   enable : BOOLEAN]
Zeros == [op : {"zero"}, register : Registers]
UnitDuties ==
  [op : {"StoreTemperature", "HighVoltageCurrent", "LowVoltageFailure",
         "SetSensorUnitOff", "Monitor_SU_Voltage"},
   at : SUs]
ChannelDuties == [op : {"StoreVoltage"}, at : Channels]
PlainDuties ==
  [op : {"Read_AD_Channel", "LowVoltageCurrent", "Monitor_DPU_Voltage", "EndSelfTest",
         "NewPeriod", "SET_WD_RESET_HIGH", "SET_WD_RESET_LOW"},
   at : {0}]
Duties == UnitDuties \cup ChannelDuties \cup PlainDuties
Operations == Updates \cup Zeros \cup Duties

\* The variables have the values that the functions of health.c give them.
TypeOK ==
  /\ RegisterTypeOK
  /\ work \in [Tasks -> Seq(Operations)]
  /\ health_mon_round \in 0 .. HEALTH_COUNT
  /\ temp_meas_count \in 0 .. TEMP_COUNT /\ voltage_meas_count \in 0 .. VOLTAGE_COUNT
  /\ in_limits \subseteq Channels /\ self_test_SU \in SUs \cup {NO_SU}
  /\ WD_RESET \in {LOW, HIGH} /\ unserved \in 0 .. MaxUnserved
  /\ hit_budget_left \in 0 .. HIT_BUDGET /\ hit_trigger \in BOOLEAN
  /\ confirm_hit_result \in {0, 1} /\ tries_left \in 0 .. ADC_MAX_TRIES
  /\ at \in {"out", "clear", "select", "convert", "decide", "judge"}
  /\ result \in {"RESULT_OK", "CONVERSION_ACTIVE", "HIT_OCCURRED"}
  /\ value \in {"zero", "normal", "bad"}
  /\ taken \in BOOLEAN /\ late_hit \in BOOLEAN
  /\ switched_off \subseteq SUs
  /\ failures \in 0 .. MaxFailures /\ requests \in 0 .. MaxRequests

\* Outside ERROR_STATUS_CLEAR, a unit with an error in its SU status has its bit in the
\* error status, and a unit that the health task has switched off since the errors were
\* cleared has an error in its SU status, or the task is about to set it (health.c
\* 401-470, 1317-1364 and 1911-1949, tc_hand.c 915-921).
FailuresAreReported ==
  work["tc"] = <<>> /\ masked = Nobody =>
    \A u \in SUs :
      /\ telemetry[SU_status(u)] # {} => SU_ERROR(u) \subseteq telemetry[error_status]
      /\ u \in switched_off =>
           \/ telemetry[SU_status(u)] # {}
           \/ \E i \in DOMAIN work["health"] :
                /\ work["health"][i].op = "update"
                /\ work["health"][i].register = SU_status(u)

\* A result that Read_AD_Channel gives as valid was converted while no hit took the
\* converter, at whatever points hits come (health.c 1988-2097, measure.c 155-167).
NoDisturbedResult == at = "out" /\ result = "RESULT_OK" => ~taken

\* As long as the hardware works, and no hit comes between the last try of a reading
\* and the test that follows it, no unit is switched off and no error is reported,
\* however many hits and commands come (health.c 811-2347).
NoFailureNoError ==
  failures = 0 /\ ~late_hit =>
    /\ switched_off = {}
    /\ telemetry[software_error] = {}
    /\ telemetry[mode_status] \cap (ADC_ERROR \cup SUPPLY_ERROR) = {}
    /\ \A u \in SUs : telemetry[SU_status(u)] = {}

\* A unit is switched off only after a failure of the hardware.  A hit alone discards a
\* reading only when it has corrupted all tries (health.c 2017-2020), which the hit
\* budget excludes.
OffOnlyForAFailure == failures = 0 => switched_off = {}

\* The watchdog sees a falling edge in every cycle of ten rounds, with one round of
\* margin (health.c 1094-1120: it is reset every 10 s and its time-out is 12.1 s).
WatchdogServed == unserved <= HEALTH_COUNT + 1

\* Every unit has its temperature measured again and again, in round 9, which also
\* serves the watchdog, whatever hits and commands come (health.c 811-1124).
DutiesRecur ==
  \A u \in SUs :
    []<>(Doing("health", "StoreTemperature") /\ Head(work["health"]).at = u)
=============================================================================
