------------------------- MODULE HealthMonitorProofs -------------------------
(***************************************************************************)
(* Theorems about HealthMonitor, for any numbers of sensor units, voltage  *)
(* channels, hits and failures.                                            *)
(***************************************************************************)
EXTENDS HealthMonitor, SequenceTheorems, TLAPS

USE DEF SUs, Channels

----------------------------------------------------------------------------
(* Sequences of operations *)

\* What Then does to the work of a task, for any set of operations.
LEMMA ThenKeeps ==
  ASSUME NEW S, NEW t \in Tasks, NEW ops \in Seq(S),
         work \in [Tasks -> Seq(Operations)], work[t] \in Seq(S), work[t] # <<>>, Then(t, ops)
  PROVE  /\ work' = [work EXCEPT ![t] = ops \o Tail(work[t])]
         /\ work'[t] = ops \o Tail(work[t])
         /\ work'[t] \in Seq(S)
         /\ \A h \in Tasks \ {t} : work'[h] = work[h]
<1>1. Tail(work[t]) \in Seq(S)
  OBVIOUS
<1>2. ops \o Tail(work[t]) \in Seq(S)
  BY <1>1
<1> QED
  BY <1>2 DEF Then

LEMMA ThenTyped ==
  ASSUME NEW t \in Tasks, NEW ops \in Seq(Operations),
         work \in [Tasks -> Seq(Operations)], work[t] # <<>>, Then(t, ops)
  PROVE  work' \in [Tasks -> Seq(Operations)]
<1>1. work[t] \in Seq(Operations)
  OBVIOUS
<1> QED
  BY <1>1, ThenKeeps

\* The operations on the registers are typed.
LEMMA RegistersTyped ==
  /\ error_status \in Registers /\ mode_status \in Registers /\ software_error \in Registers
  /\ \A u \in SUs : SU_status(u) \in Registers
BY DEF Registers

LEMMA UpdateTyped ==
  ASSUME NEW r \in Registers, NEW drop \in SUBSET Bits, NEW put \in SUBSET Bits,
         NEW enable \in BOOLEAN
  PROVE  <<Update(r, drop, put, enable)>> \in Seq(Updates)
BY DEF Update, Updates

LEMMA SettersTyped ==
  /\ \A bits \in SUBSET Bits : /\ SetErrorStatus(bits) \in Seq(Updates)
                               /\ SetSoftwareError(bits) \in Seq(Updates)
                               /\ SetModeStatusError(bits) \in Seq(Updates)
                               /\ SetMode(bits) \in Seq(Updates)
                               /\ \A u \in SUs : Set_SU_Error(u, bits) \in Seq(Updates)
  /\ Set_TC_Error \in Seq(Updates)
  /\ ClearModeStatusError \in Seq(Updates)
  /\ Clear_SU_Error \in Seq(Updates)
  /\ ClearErrorStatus \in Seq(Zeros) /\ ClearSoftwareError \in Seq(Zeros)
<1>1. ASSUME NEW bits \in SUBSET Bits
      PROVE  /\ SetErrorStatus(bits) \in Seq(Updates)
             /\ SetSoftwareError(bits) \in Seq(Updates)
             /\ SetModeStatusError(bits) \in Seq(Updates)
             /\ SetMode(bits) \in Seq(Updates)
  <2>1. /\ bits \ TC_ERROR \in SUBSET Bits
        /\ bits \ MODE_BITS_MASK \in SUBSET Bits
        /\ bits \cap MODE_BITS_MASK \in SUBSET Bits
        /\ {} \in SUBSET Bits
        /\ MODE_BITS_MASK \in SUBSET Bits
    <3>1. MODE_BITS_MASK \subseteq Bits
      BY DEF MODE_BITS_MASK, Bits
    <3> QED
      BY <3>1
  <2>2. SetErrorStatus(bits) \in Seq(Updates)
    BY <2>1, UpdateTyped, RegistersTyped DEF SetErrorStatus
  <2>3. SetSoftwareError(bits) \in Seq(Updates)
    BY <2>1, UpdateTyped, RegistersTyped DEF SetSoftwareError
  <2>4. SetModeStatusError(bits) \in Seq(Updates)
    BY <2>1, UpdateTyped, RegistersTyped DEF SetModeStatusError
  <2>5. SetMode(bits) \in Seq(Updates)
    BY <2>1, UpdateTyped, RegistersTyped DEF SetMode
  <2> QED
    BY <2>2, <2>3, <2>4, <2>5
<1>2. ASSUME NEW bits \in SUBSET Bits, NEW u \in SUs
      PROVE  Set_SU_Error(u, bits) \in Seq(Updates)
  <2>1. SU_ERROR(u) \in SUBSET Bits
    BY NumSUAssumption DEF SU_ERROR, Bits
  <2>2. SetErrorStatus(SU_ERROR(u)) \in Seq(Updates)
    BY <2>1, <1>1
  <2>3. <<Update(SU_status(u), {}, bits \ SUPPLY_VOLTAGE_MASK, FALSE)>> \in Seq(Updates)
    BY UpdateTyped, RegistersTyped
  <2>4. ASSUME NEW s \in Seq(Updates), NEW r \in Seq(Updates) PROVE s \o r \in Seq(Updates)
    OBVIOUS
  <2> QED
    BY <2>2, <2>3, <2>4 DEF Set_SU_Error
<1>3. Set_TC_Error \in Seq(Updates)
  <2>1. TC_ERROR \in SUBSET Bits /\ {} \in SUBSET Bits
    BY DEF TC_ERROR, Bits
  <2> QED
    BY <2>1, UpdateTyped, RegistersTyped DEF Set_TC_Error
<1>4. ClearModeStatusError \in Seq(Updates)
  <2>1. Bits \ MODE_BITS_MASK \in SUBSET Bits /\ {} \in SUBSET Bits
    OBVIOUS
  <2> QED
    BY <2>1, UpdateTyped, RegistersTyped DEF ClearModeStatusError
<1>5. Clear_SU_Error \in Seq(Updates)
  <2>1. \A i \in 1 .. NUM_SU : SU_status(i - 1) \in Registers
    BY NumSUAssumption, RegistersTyped
  <2>2. \A i \in 1 .. NUM_SU :
          Update(SU_status(i - 1), Bits \ SUPPLY_VOLTAGE_MASK, {}, i = NUM_SU) \in Updates
    BY <2>1 DEF Update, Updates
  <2> QED
    BY <2>2, NumSUAssumption DEF Clear_SU_Error
<1>6. ClearErrorStatus \in Seq(Zeros) /\ ClearSoftwareError \in Seq(Zeros)
  BY RegistersTyped DEF ClearErrorStatus, ClearSoftwareError, Zero, Zeros
<1> QED
  BY <1>1, <1>2, <1>3, <1>4, <1>5, <1>6

\* The duties of a round: checks, and in rounds 8 and 9 one of the watchdog at the end.
Checks ==
  [op : {"StoreTemperature", "HighVoltageCurrent", "Monitor_SU_Voltage"}, at : SUs]
    \cup ChannelDuties
    \cup [op : {"Read_AD_Channel", "LowVoltageCurrent", "Monitor_DPU_Voltage",
                "EndSelfTest", "NewPeriod"}, at : {0}]
WD_High == Duty("SET_WD_RESET_HIGH", 0)
WD_Low == Duty("SET_WD_RESET_LOW", 0)
Watchdog == {WD_High, WD_Low}

LEMMA ConcatKeeps ==
  ASSUME NEW S, NEW s \in Seq(S), NEW r \in Seq(S)
  PROVE  s \o r \in Seq(S)
OBVIOUS

LEMMA DutySets ==
  /\ Checks \subseteq Duties /\ Watchdog \subseteq Duties
  /\ Duties \subseteq Operations /\ Updates \subseteq Operations /\ Zeros \subseteq Operations
  /\ Checks \cap Watchdog = {} /\ Updates \cap Watchdog = {}
<1>1. Checks \subseteq Duties
  BY DEF Checks, Duties, UnitDuties, PlainDuties
<1>2. Watchdog \subseteq PlainDuties
  BY DEF Watchdog, WD_High, WD_Low, Duty, PlainDuties
<1>3. Checks \cap Watchdog = {}
  BY DEF Checks, ChannelDuties, Watchdog, WD_High, WD_Low, Duty
<1>4. Updates \cap Watchdog = {}
  BY DEF Updates, Watchdog, WD_High, WD_Low, Duty
<1> QED
  BY <1>1, <1>2, <1>3, <1>4 DEF Duties, Operations

LEMMA VoltagesTyped ==
  ASSUME NEW channels \in Seq(Channels)
  PROVE  Voltages(channels) \in Seq(Checks)
<1>1. ASSUME NEW i \in 1 .. 2 * Len(channels), i % 2 # 1
      PROVE  channels[i \div 2] \in Channels
  <2>1. Len(channels) \in Nat
    OBVIOUS
  <2>2. i \div 2 \in 1 .. Len(channels)
    BY <1>1, <2>1
  <2> QED
    BY <2>2, ElementOfSeq
<1>2. Duty("Read_AD_Channel", 0) \in Checks
  BY DEF Duty, Checks
<1>3. \A c \in Channels : Duty("StoreVoltage", c) \in Checks
  BY DEF Duty, Checks, ChannelDuties
<1>4. 2 * Len(channels) \in Nat
  OBVIOUS
<1>5. \A i \in 1 .. 2 * Len(channels) :
        (IF i % 2 = 1 THEN Duty("Read_AD_Channel", 0)
                      ELSE Duty("StoreVoltage", channels[i \div 2])) \in Checks
  BY <1>1, <1>2, <1>3
<1> QED
  BY <1>4, <1>5 DEF Voltages

LEMMA TemperaturesTyped ==
  ASSUME NEW u \in SUs
  PROVE  MeasureTemperature(u) \in Seq(Checks)
<1>1. Duty("Read_AD_Channel", 0) \in Checks
  BY DEF Duty, Checks
<1>2. Duty("StoreTemperature", u) \in Checks
  BY DEF Duty, Checks
<1>3. 2 * NUM_TEMP \in Nat
  BY HealthAssumption
<1> QED
  BY <1>1, <1>2, <1>3 DEF MeasureTemperature, Temperatures

LEMMA SingleChecks ==
  /\ \A u \in SUs : /\ HighVoltageCurrent(u) \in Seq(Checks)
                    /\ <<Duty("Monitor_SU_Voltage", u)>> \in Seq(Checks)
  /\ LowVoltageCurrent \in Seq(Checks)
  /\ <<Duty("NewPeriod", 0)>> \in Seq(Checks)
  /\ <<Duty("EndSelfTest", 0)>> \in Seq(Checks)
  /\ <<Duty("Monitor_DPU_Voltage", 0)>> \in Seq(Checks)
  /\ \A c \in Channels : MeasureVoltage(c) \in Seq(Checks)
<1>1. \A u \in SUs : Duty("HighVoltageCurrent", u) \in Checks
                     /\ Duty("Monitor_SU_Voltage", u) \in Checks
  BY DEF Duty, Checks
<1>2. \A op \in {"Read_AD_Channel", "LowVoltageCurrent", "Monitor_DPU_Voltage",
                 "EndSelfTest", "NewPeriod"} : Duty(op, 0) \in Checks
  BY DEF Duty, Checks
<1>3. \A c \in Channels : Duty("StoreVoltage", c) \in Checks
  BY DEF Duty, Checks, ChannelDuties
<1> QED
  BY <1>1, <1>2, <1>3 DEF HighVoltageCurrent, LowVoltageCurrent, MeasureVoltage

LEMMA SelfTestTyped ==
  ASSUME NEW u \in SUs
  PROVE  SelfTest_SU(u) \in Seq(Checks)
<1> DEFINE all == [i \in 1 .. NUM_CHANNELS |-> i - 1]
<1>1. all \in Seq(Channels)
  BY HealthAssumption
<1> HIDE DEF all
<1>2. Voltages(all) \in Seq(Checks)
  BY <1>1, VoltagesTyped
<1>3. LowVoltageCurrent \o HighVoltageCurrent(u) \in Seq(Checks)
  BY SingleChecks, ConcatKeeps
<1>4. LowVoltageCurrent \o HighVoltageCurrent(u) \o Voltages(all) \in Seq(Checks)
  BY <1>2, <1>3, ConcatKeeps
<1>5. LowVoltageCurrent \o HighVoltageCurrent(u) \o Voltages(all)
        \o <<Duty("Monitor_SU_Voltage", u)>> \in Seq(Checks)
  BY <1>4, SingleChecks, ConcatKeeps
<1>6. LowVoltageCurrent \o HighVoltageCurrent(u) \o Voltages(all)
        \o <<Duty("Monitor_SU_Voltage", u)>> \o MeasureTemperature(u) \in Seq(Checks)
  BY <1>5, TemperaturesTyped, ConcatKeeps
<1> QED
  BY <1>6 DEF SelfTest_SU, all

\* The counters, which all but NewPeriod and the rounds leave alone.
CountersOK ==
  /\ health_mon_round \in 0 .. HEALTH_COUNT
  /\ temp_meas_count \in 0 .. TEMP_COUNT /\ voltage_meas_count \in 0 .. VOLTAGE_COUNT
  /\ self_test_SU \in SUs \cup {NO_SU}

LEMMA RoundDutiesTyped ==
  ASSUME CountersOK
  PROVE  /\ health_mon_round = 8 => RoundDuties = <<WD_High>>
         /\ health_mon_round = 9 => \E s \in Seq(Checks) : RoundDuties = s \o <<WD_Low>>
         /\ health_mon_round \notin {8, 9} => RoundDuties \in Seq(Checks)
<1> USE NumSUAssumption, HealthAssumption DEF CountersOK, HEALTH_COUNT
<1>1. ASSUME health_mon_round = 8 PROVE RoundDuties = <<WD_High>>
  BY <1>1 DEF RoundDuties, WD_High
<1>2. ASSUME health_mon_round = 9
      PROVE  \E s \in Seq(Checks) : RoundDuties = s \o <<WD_Low>>
  <2>1. CASE temp_meas_count < NUM_SU
    <3>1. temp_meas_count \in SUs
      BY <2>1
    <3>2. RoundDuties = MeasureTemperature(temp_meas_count) \o <<WD_Low>>
      BY <1>2, <2>1, SMTT(60) DEF RoundDuties, WD_Low
    <3> QED
      BY <3>1, <3>2, TemperaturesTyped
  <2>2. CASE ~(temp_meas_count < NUM_SU)
    <3>1. RoundDuties = <<>> \o <<WD_Low>>
      BY <1>2, <2>2 DEF RoundDuties, WD_Low
    <3>2. <<>> \in Seq(Checks)
      OBVIOUS
    <3> QED
      BY <3>1, <3>2
  <2> QED
    BY <2>1, <2>2
<1>3. ASSUME health_mon_round \notin {8, 9} PROVE RoundDuties \in Seq(Checks)
  <2>1. CASE health_mon_round = 0
    <3>1. RoundDuties = HighVoltageCurrent(0) \o <<Duty("NewPeriod", 0)>>
      BY <2>1, SMTT(60) DEF RoundDuties
    <3>2. 0 \in SUs
      OBVIOUS
    <3> QED
      BY <3>1, <3>2, SingleChecks, ConcatKeeps
  <2>2. CASE health_mon_round \in SUs \ {0}
    <3>1. health_mon_round \in 1 .. 3 /\ health_mon_round \in SUs
      BY <2>2
    <3>2. health_mon_round \notin {0, 4, 5, 6, 7, 8, 9} /\ health_mon_round \in SUs \ {0}
      BY <2>2, <3>1
    <3> HIDE DEF SUs, CountersOK
    <3>3. RoundDuties = HighVoltageCurrent(health_mon_round)
      BY ONLY <3>2 DEF RoundDuties
    <3> QED
      BY <3>1, <3>3, SingleChecks
  <2>3. CASE health_mon_round = 4
    BY <2>3, SingleChecks DEF RoundDuties
  <2>4. CASE health_mon_round = 5
    <3>1. voltage_meas_count < NUM_CHANNELS => voltage_meas_count \in Channels
      OBVIOUS
    <3> QED
      BY <2>4, <3>1, SingleChecks, SMTT(60) DEF RoundDuties
  <2>5. CASE health_mon_round = 6
    BY <2>5, SingleChecks, SMTT(60) DEF RoundDuties
  <2>6. CASE health_mon_round = 7
    <3>1. self_test_SU # NO_SU => self_test_SU \in SUs
      OBVIOUS
    <3> QED
      BY <2>6, <3>1, SelfTestTyped, SMTT(60) DEF RoundDuties
  <2>7. CASE health_mon_round \in 1 .. 3 /\ health_mon_round \notin SUs
    <3>1. health_mon_round \notin {0, 4, 5, 6, 7, 8, 9} /\ health_mon_round \notin SUs \ {0}
      BY <2>7
    <3> HIDE DEF SUs, CountersOK
    <3>2. RoundDuties = <<>>
      BY ONLY <3>1 DEF RoundDuties
    <3> QED
      BY <3>2
  <2> QED
    BY <1>3, <2>1, <2>2, <2>3, <2>4, <2>5, <2>6, <2>7
<1> QED
  BY <1>1, <1>2, <1>3

----------------------------------------------------------------------------
(* What a step of the health task does with its work *)

Ordinary == Operations \ Watchdog

LEMMA OrdinarySets ==
  /\ Checks \subseteq Ordinary /\ Updates \subseteq Ordinary
  /\ \A u \in SUs : Duty("SetSensorUnitOff", u) \in Ordinary
                    /\ Duty("LowVoltageFailure", u) \in Ordinary
<1>1. \A u \in SUs : \A op \in {"SetSensorUnitOff", "LowVoltageFailure"} :
         Duty(op, u) \in UnitDuties /\ Duty(op, u) \notin Watchdog
  BY DEF Duty, UnitDuties, Watchdog, WD_High, WD_Low
<1> QED
  BY <1>1, DutySets DEF Ordinary, Duties, Operations

LEMMA HeadOf ==
  ASSUME TypeOK, NEW t \in Tasks, Runs(t)
  PROVE  /\ work \in [Tasks -> Seq(Operations)]
         /\ work[t] # <<>> /\ work[t] \in Seq(Operations)
         /\ Head(work[t]) \in Operations
<1>1. work \in [Tasks -> Seq(Operations)] /\ work[t] # <<>>
  BY DEF TypeOK, Runs
<1> QED
  BY <1>1

LEMMA HeadUnit ==
  ASSUME TypeOK,
         NEW op \in {"StoreTemperature", "HighVoltageCurrent", "LowVoltageFailure",
                     "SetSensorUnitOff", "Monitor_SU_Voltage"},
         Doing("health", op)
  PROVE  Head(work["health"]).at \in SUs
<1>1. Head(work["health"]) \in Operations /\ Head(work["health"]).op = op
  BY HeadOf DEF Doing, Tasks
<1> QED
  BY <1>1 DEF Operations, Updates, Zeros, Duties, UnitDuties, ChannelDuties, PlainDuties

LEMMA HeadChannel ==
  ASSUME TypeOK, Doing("health", "StoreVoltage")
  PROVE  Head(work["health"]).at \in Channels
<1>1. Head(work["health"]) \in Operations /\ Head(work["health"]).op = "StoreVoltage"
  BY HeadOf DEF Doing, Tasks
<1> QED
  BY <1>1 DEF Operations, Updates, Zeros, Duties, UnitDuties, ChannelDuties, PlainDuties

LEMMA HeadUpdate ==
  ASSUME TypeOK, NEW t \in Tasks, Doing(t, "update")
  PROVE  Head(work[t]) \in Updates
<1>1. Head(work[t]) \in Operations /\ Head(work[t]).op = "update"
  BY HeadOf DEF Doing
<1> QED
  BY <1>1 DEF Operations, Updates, Zeros, Duties, UnitDuties, ChannelDuties, PlainDuties

LEMMA HeadZero ==
  ASSUME TypeOK, NEW t \in Tasks, Doing(t, "zero")
  PROVE  Head(work[t]) \in Zeros
<1>1. Head(work[t]) \in Operations /\ Head(work[t]).op = "zero"
  BY HeadOf DEF Doing
<1> QED
  BY <1>1 DEF Operations, Updates, Zeros, Duties, UnitDuties, ChannelDuties, PlainDuties

\* The setters the duties call, as ordinary operations.
ErrorBits ==
  {ADC_ERROR, SUPPLY_ERROR, MEMORY_WRITE_ERROR, MEASUREMENT_ERROR, LV_LIMIT_ERROR,
   HV_LIMIT_ERROR, TEMPERATURE_ERROR, LV_SUPPLY_ERROR, HV_SUPPLY_ERROR,
   OVERALL_SU_ERROR, STAND_BY, ACQUISITION}

LEMMA ErrorBitsTyped ==
  /\ ErrorBits \subseteq SUBSET Bits
  /\ \A u \in SUs : SU_ERROR(u) \in SUBSET Bits
<1>1. \A u \in SUs : SU_ERROR(u) \in SUBSET Bits
  BY NumSUAssumption DEF SU_ERROR, Bits
<1>2. OVERALL_SU_ERROR \in SUBSET Bits
  BY <1>1 DEF OVERALL_SU_ERROR
<1>3. \A n \in 0 .. 7 : {n} \in SUBSET Bits
  BY DEF Bits
<1>4. \A bits \in ErrorBits : bits = OVERALL_SU_ERROR \/ \E n \in 0 .. 7 : bits = {n}
  BY DEF ErrorBits, ADC_ERROR, SUPPLY_ERROR, MEMORY_WRITE_ERROR, MEASUREMENT_ERROR,
         LV_LIMIT_ERROR, HV_LIMIT_ERROR, TEMPERATURE_ERROR, LV_SUPPLY_ERROR,
         HV_SUPPLY_ERROR, STAND_BY, ACQUISITION
<1> QED
  BY <1>1, <1>2, <1>3, <1>4

LEMMA SettersOrdinary ==
  ASSUME NEW bits \in ErrorBits
  PROVE  /\ SetErrorStatus(bits) \in Seq(Ordinary)
         /\ SetSoftwareError(bits) \in Seq(Ordinary)
         /\ SetModeStatusError(bits) \in Seq(Ordinary)
         /\ SetMode(bits) \in Seq(Ordinary)
         /\ \A u \in SUs : /\ Set_SU_Error(u, bits) \in Seq(Ordinary)
                           /\ SetErrorStatus(SU_ERROR(u)) \in Seq(Ordinary)
<1>1. ASSUME NEW s \in Seq(Updates) PROVE s \in Seq(Ordinary)
  BY OrdinarySets
<1>2. bits \in SUBSET Bits
  BY ErrorBitsTyped
<1>3. /\ SetErrorStatus(bits) \in Seq(Updates)
      /\ SetSoftwareError(bits) \in Seq(Updates)
      /\ SetModeStatusError(bits) \in Seq(Updates)
      /\ SetMode(bits) \in Seq(Updates)
      /\ \A u \in SUs : /\ Set_SU_Error(u, bits) \in Seq(Updates)
                        /\ SetErrorStatus(SU_ERROR(u)) \in Seq(Updates)
  BY <1>2, SettersTyped, ErrorBitsTyped
<1> QED
  BY <1>1, <1>3

LEMMA TemperatureFailureOrdinary ==
  ASSUME NEW u \in SUs
  PROVE  TemperatureFailure(u) \in Seq(Ordinary)
<1>1. <<Duty("SetSensorUnitOff", u)>> \in Seq(Ordinary)
  BY OrdinarySets
<1>2. TEMPERATURE_ERROR \in ErrorBits
  BY DEF ErrorBits
<1>3. SetErrorStatus(SU_ERROR(u)) \in Seq(Ordinary)
      /\ Set_SU_Error(u, TEMPERATURE_ERROR) \in Seq(Ordinary)
  BY <1>2, SettersOrdinary
<1>4. <<Duty("SetSensorUnitOff", u)>> \o SetErrorStatus(SU_ERROR(u)) \in Seq(Ordinary)
  BY <1>1, <1>3, ConcatKeeps
<1> QED
  BY <1>3, <1>4, ConcatKeeps DEF TemperatureFailure

\* A duty leaves the work alone, or replaces its head by ordinary operations.
DutyOps ==
  \/ UNCHANGED work
  \/ Runs("health") /\ \E ops \in Seq(Ordinary) : Then("health", ops)

LEMMA EmptyOrdinary == <<>> \in Seq(Ordinary)
OBVIOUS

LEMMA DutyStepOps ==
  ASSUME TypeOK, HealthDuty
  PROVE  DutyOps
<1> USE DEF DutyOps
<1>1. CASE NewPeriod \/ ServeWatchdog \/ SetSensorUnitOff \/ EndSelfTest
  BY <1>1, EmptyOrdinary
     DEF NewPeriod, ServeWatchdog, SetWatchdog, SetSensorUnitOff, EndSelfTest, Doing
<1>2. CASE Read_AD_Channel
  <2>1. CASE ClearHit \/ SelectChannel \/ Convert_AD \/ DecideRetry
    BY <2>1 DEF ClearHit, SelectChannel, Convert_AD, DecideRetry
  <2>2. CASE EndReading
    <3>1. Runs("health")
      BY <2>2 DEF EndReading, Reading, Doing
    <3>2. SetModeStatusError(ADC_ERROR) \in Seq(Ordinary)
      BY SettersOrdinary DEF ErrorBits
    <3>3. \E ops \in Seq(Ordinary) : Then("health", ops)
      BY <2>2, <3>2, EmptyOrdinary DEF EndReading, Judge
    <3> QED
      BY <3>1, <3>3
  <2> QED
    BY <1>2, <2>1, <2>2 DEF Read_AD_Channel
<1>3. CASE StoreResult
  <2> DEFINE n == Head(work["health"]).at
  <2>1. SetSoftwareError(MEASUREMENT_ERROR) \in Seq(Ordinary)
    BY SettersOrdinary DEF ErrorBits
  <2>2. CASE Doing("health", "StoreTemperature") /\ StoreTemperature(n)
    <3>1. n \in SUs
      BY <2>2, HeadUnit
    <3> DEFINE first == IF value = "bad" THEN TemperatureFailure(n) ELSE <<>>
               second == IF result # "RESULT_OK"
                         THEN SetSoftwareError(MEASUREMENT_ERROR) \o TemperatureFailure(n)
                         ELSE <<>>
    <3>2. TemperatureFailure(n) \in Seq(Ordinary)
      BY <3>1, TemperatureFailureOrdinary
    <3>3. first \in Seq(Ordinary)
      BY <3>2, EmptyOrdinary
    <3>4. second \in Seq(Ordinary)
      BY <3>2, <2>1, EmptyOrdinary, ConcatKeeps
    <3>5. Then("health", first \o second)
      BY <2>2 DEF StoreTemperature
    <3>6. first \o second \in Seq(Ordinary)
      BY <3>3, <3>4, ConcatKeeps
    <3> QED
      BY <2>2, <3>5, <3>6 DEF Doing
  <2>3. CASE Doing("health", "StoreVoltage") /\ StoreVoltage(n)
    BY <2>1, <2>3, EmptyOrdinary DEF StoreVoltage, Doing
  <2> QED
    BY <1>3, <2>2, <2>3 DEF StoreResult
<1>4. CASE CheckHighVoltage
  <2> DEFINE u == Head(work["health"]).at
  <2>1. u \in SUs
    BY <1>4, HeadUnit DEF CheckHighVoltage
  <2>2. SetErrorStatus(SU_ERROR(u)) \o Set_SU_Error(u, HV_SUPPLY_ERROR) \in Seq(Ordinary)
    BY <2>1, SettersOrdinary, ConcatKeeps DEF ErrorBits
  <2> QED
    BY <1>4, <2>2, EmptyOrdinary DEF CheckHighVoltage, Doing
<1>5. CASE CheckLowVoltage
  <2>1. 0 \in SUs
    BY NumSUAssumption
  <2>2. <<Duty("LowVoltageFailure", 0)>> \in Seq(Ordinary)
    BY <2>1, OrdinarySets
  <2> QED
    BY <1>5, <2>2, EmptyOrdinary DEF CheckLowVoltage, Doing
<1>6. CASE LowVoltageFailure
  <2> DEFINE u == Head(work["health"]).at
             rest == IF u + 1 < NUM_SU THEN <<Duty("LowVoltageFailure", u + 1)>>
                                       ELSE SetErrorStatus(OVERALL_SU_ERROR)
  <2>1. u \in SUs
    BY <1>6, HeadUnit DEF LowVoltageFailure
  <2>2. u + 1 < NUM_SU => u + 1 \in SUs
    BY <2>1, NumSUAssumption
  <2>3. rest \in Seq(Ordinary)
    <3>1. SetErrorStatus(OVERALL_SU_ERROR) \in Seq(Ordinary)
      BY SettersOrdinary DEF ErrorBits
    <3>2. u + 1 < NUM_SU => <<Duty("LowVoltageFailure", u + 1)>> \in Seq(Ordinary)
      BY <2>2, OrdinarySets
    <3> QED
      BY <3>1, <3>2
  <2>4. <<Duty("SetSensorUnitOff", u)>> \in Seq(Ordinary)
    BY <2>1, OrdinarySets
  <2>5. Set_SU_Error(u, LV_SUPPLY_ERROR) \in Seq(Ordinary)
    BY <2>1, SettersOrdinary DEF ErrorBits
  <2>6. <<Duty("SetSensorUnitOff", u)>> \o Set_SU_Error(u, LV_SUPPLY_ERROR)
          \in Seq(Ordinary)
    BY <2>4, <2>5, ConcatKeeps
  <2>7. <<Duty("SetSensorUnitOff", u)>> \o Set_SU_Error(u, LV_SUPPLY_ERROR) \o rest
          \in Seq(Ordinary)
    BY <2>3, <2>6, ConcatKeeps
  <2>8. Runs("health")
        /\ Then("health", <<Duty("SetSensorUnitOff", u)>> \o Set_SU_Error(u, LV_SUPPLY_ERROR)
                            \o rest)
    BY <1>6 DEF LowVoltageFailure, Doing
  <2> HIDE DEF rest
  <2> QED
    BY <2>7, <2>8
<1>7. CASE MonitorVoltages
  <2>1. SetModeStatusError(SUPPLY_ERROR) \in Seq(Ordinary)
    BY SettersOrdinary DEF ErrorBits
  <2>2. ASSUME NEW u \in SUs PROVE Monitor_SU_Voltage(u) \in Seq(Ordinary)
    <3>1. Set_SU_Error(u, LV_LIMIT_ERROR) \in Seq(Ordinary)
          /\ Set_SU_Error(u, HV_LIMIT_ERROR) \in Seq(Ordinary)
      BY SettersOrdinary DEF ErrorBits
    <3>2. \A b : ErrorIf(b, Set_SU_Error(u, LV_LIMIT_ERROR)) \in Seq(Ordinary)
                 /\ ErrorIf(b, Set_SU_Error(u, HV_LIMIT_ERROR)) \in Seq(Ordinary)
      BY <3>1, EmptyOrdinary DEF ErrorIf
    <3> QED
      BY <3>2, ConcatKeeps DEF Monitor_SU_Voltage
  <2>3. CASE Doing("health", "Monitor_DPU_Voltage")
    BY <1>7, <2>1, <2>3, EmptyOrdinary DEF MonitorVoltages, ErrorIf, Doing
  <2>4. CASE Doing("health", "Monitor_SU_Voltage")
    <3>1. Head(work["health"]).at \in SUs
      BY <2>4, HeadUnit
    <3>2. Then("health", Monitor_SU_Voltage(Head(work["health"]).at))
      BY <1>7, <2>4 DEF MonitorVoltages, Doing
    <3> QED
      BY <2>2, <2>4, <3>1, <3>2 DEF Doing
  <2> QED
    BY <1>7, <2>3, <2>4 DEF MonitorVoltages
<1> QED
  BY <1>1, <1>2, <1>3, <1>4, <1>5, <1>6, <1>7 DEF HealthDuty

----------------------------------------------------------------------------
(* Types *)

LEMMA DutyTyped ==
  ASSUME TypeOK, DutyOps
  PROVE  work' \in [Tasks -> Seq(Operations)]
<1>1. CASE UNCHANGED work
  BY <1>1 DEF TypeOK
<1>2. ASSUME NEW ops \in Seq(Ordinary), Runs("health"), Then("health", ops)
      PROVE  work' \in [Tasks -> Seq(Operations)]
  <2>1. ops \in Seq(Operations)
    BY DEF Ordinary
  <2> QED
    BY <1>2, <2>1, HeadOf, ThenTyped DEF Tasks
<1> QED
  BY <1>1, <1>2 DEF DutyOps

THEOREM TypeInit == Init => TypeOK
<1> SUFFICES ASSUME Init PROVE TypeOK
  OBVIOUS
<1> USE NumSUAssumption, HealthAssumption
<1>1. RegisterTypeOK
  <2>1. telemetry \in [Registers -> SUBSET Bits] /\ reported = telemetry
    BY DEF Init, RegisterInit
  <2>2. copy \in [Tasks -> (SUBSET Bits) \cup {NoCopy}] /\ masked \in Tasks \cup {Nobody}
    BY DEF Init, RegisterInit
  <2> QED
    BY <2>1, <2>2 DEF RegisterTypeOK
<1>2. InitHealthMonitoring \in Seq(Operations)
  <2>1. Voltages(DPU_CHANNELS) \in Seq(Checks)
    BY VoltagesTyped
  <2>2. Monitor_DPU_Voltage \in Seq(Checks)
    BY <2>1, SingleChecks, ConcatKeeps DEF Monitor_DPU_Voltage
  <2>3. Monitor_DPU_Voltage \in Seq(Ordinary)
    BY <2>2, OrdinarySets
  <2>4. SetMode(STAND_BY) \in Seq(Ordinary)
    BY SettersOrdinary DEF ErrorBits
  <2>5. InitHealthMonitoring \in Seq(Ordinary)
    BY <2>3, <2>4, ConcatKeeps DEF InitHealthMonitoring
  <2> QED
    BY <2>5 DEF Ordinary
<1>3. work \in [Tasks -> Seq(Operations)]
  BY <1>2 DEF Init
<1>4. /\ health_mon_round \in 0 .. HEALTH_COUNT
      /\ temp_meas_count \in 0 .. TEMP_COUNT /\ voltage_meas_count \in 0 .. VOLTAGE_COUNT
      /\ in_limits \subseteq Channels /\ self_test_SU \in SUs \cup {NO_SU}
      /\ WD_RESET \in {LOW, HIGH} /\ unserved \in 0 .. MaxUnserved
      /\ hit_budget_left \in 0 .. HIT_BUDGET /\ hit_trigger \in BOOLEAN
      /\ confirm_hit_result \in {0, 1} /\ tries_left \in 0 .. ADC_MAX_TRIES
  BY DEF Init, HEALTH_COUNT, NO_SU, MaxUnserved
<1>5. /\ at = "out" /\ result = "RESULT_OK" /\ value = "normal"
      /\ taken = FALSE /\ late_hit = FALSE /\ switched_off = {}
  BY DEF Init
<1>6. failures \in 0 .. MaxFailures /\ requests \in 0 .. MaxRequests
  BY DEF Init
<1> QED
  BY <1>1, <1>3, <1>4, <1>5, <1>6 DEF TypeOK

LEMMA BeginsTyped ==
  ASSUME TypeOK, NEW t \in Tasks, NEW ops \in Seq(Operations), Begins(t, ops)
  PROVE  work' \in [Tasks -> Seq(Operations)] /\ RegisterTypeOK'
BY DEF Begins, TypeOK, RegisterTypeOK, registerVars

LEMMA CommandsTyped == \A ops \in Commands : ops \in Seq(Operations)
<1>1. \A s \in Seq(Updates) : s \in Seq(Operations)
  BY DutySets
<1>2. \A s \in Seq(Zeros) : s \in Seq(Operations)
  BY DutySets
<1>3. ERROR_STATUS_CLEAR \in Seq(Operations)
  <2>1. ClearErrorStatus \o ClearSoftwareError \in Seq(Operations)
    BY <1>2, SettersTyped, ConcatKeeps
  <2>2. ClearErrorStatus \o ClearSoftwareError \o ClearModeStatusError \in Seq(Operations)
    BY <2>1, <1>1, SettersTyped, ConcatKeeps
  <2> QED
    BY <2>2, <1>1, SettersTyped, ConcatKeeps DEF ERROR_STATUS_CLEAR
<1>4. Set_TC_Error \in Seq(Operations)
  BY <1>1, SettersTyped
<1>5. \A bits \in ErrorBits : SetModeStatusError(bits) \in Seq(Operations)
                              /\ SetMode(bits) \in Seq(Operations)
  BY <1>1, SettersTyped, ErrorBitsTyped
<1>6. {MEMORY_WRITE_ERROR, STAND_BY, ACQUISITION} \subseteq ErrorBits
  BY DEF ErrorBits
<1>7. \A ops \in ModeCommands : ops \in Seq(Operations)
  BY <1>5, <1>6 DEF ModeCommands
<1> QED
  BY <1>3, <1>4, <1>5, <1>6, <1>7 DEF Commands

LEMMA RegisterStepTyped ==
  ASSUME TypeOK, NEW t \in Tasks, RegisterStep(t)
  PROVE  work' \in [Tasks -> Seq(Operations)] /\ RegisterTypeOK'
<1> USE DEF TypeOK, RegisterTypeOK
<1>0. <<>> \in Seq(Operations)
  OBVIOUS
<1>1. CASE Doing(t, "update") /\ copy[t] = NoCopy /\ BeginUpdate(t)
  <2>1. Head(work[t]).register \in Registers
    BY <1>1, HeadUpdate DEF Updates
  <2>2. telemetry[Head(work[t]).register] \in SUBSET Bits
    BY <2>1
  <2> QED
    BY <1>1, <2>2 DEF BeginUpdate
<1>2. CASE Doing(t, "update") /\ copy[t] # NoCopy /\ EndUpdate(t)
  <2> DEFINE update == Head(work[t])
  <2>1. update \in Updates
    BY <1>2, HeadUpdate
  <2>2. copy[t] \in SUBSET Bits
    <3>1. copy[t] \in (SUBSET Bits) \cup {NoCopy}
      BY DEF TypeOK, RegisterTypeOK
    <3> QED
      BY <1>2, <3>1
  <2>3. update.register \in Registers /\ update.put \in SUBSET Bits
    BY <2>1 DEF Updates
  <2>4. \A old \in SUBSET Bits : After(update, old) \in SUBSET Bits
    BY <2>3 DEF After
  <2>5. telemetry' \in [Registers -> SUBSET Bits]
    BY <1>2, <2>2, <2>3, <2>4 DEF EndUpdate
  <2>6. reported' \in [Registers -> SUBSET Bits]
    BY <1>2, <2>3, <2>4 DEF EndUpdate
  <2>7. copy' \in [Tasks -> (SUBSET Bits) \cup {NoCopy}] /\ masked' \in Tasks \cup {Nobody}
    <3>1. copy \in [Tasks -> (SUBSET Bits) \cup {NoCopy}] /\ masked \in Tasks \cup {Nobody}
      BY DEF TypeOK, RegisterTypeOK
    <3>2. copy' = [copy EXCEPT ![t] = NoCopy]
      BY <1>2 DEF EndUpdate
    <3>3. masked' = Nobody \/ masked' = masked
      BY <1>2 DEF EndUpdate
    <3> QED
      BY ONLY <3>1, <3>2, <3>3
  <2>8. Then(t, <<>>) /\ work[t] # <<>>
    BY <1>2 DEF EndUpdate, Doing, Runs
  <2> QED
    BY <2>5, <2>6, <2>7, <2>8, <1>0, ThenTyped
<1>3. CASE Doing(t, "zero") /\ StoreZero(t)
  <2>1. Head(work[t]).register \in Registers
    BY <1>3, HeadZero DEF Zeros
  <2>2. Then(t, <<>>) /\ work[t] # <<>>
    BY <1>3 DEF StoreZero, Doing, Runs
  <2>3. work' \in [Tasks -> Seq(Operations)]
    BY <2>2, <1>0, ThenTyped
  <2> QED
    BY <1>3, <2>1, <2>3 DEF StoreZero
<1> QED
  BY <1>1, <1>2, <1>3 DEF RegisterStep

\* The part of the types that a step seldom changes.
ValuesOK ==
  /\ in_limits \subseteq Channels
  /\ WD_RESET \in {LOW, HIGH} /\ unserved \in 0 .. MaxUnserved
  /\ hit_budget_left \in 0 .. HIT_BUDGET /\ hit_trigger \in BOOLEAN
  /\ switched_off \subseteq SUs
  /\ failures \in 0 .. MaxFailures /\ requests \in 0 .. MaxRequests

ReadOK ==
  /\ confirm_hit_result \in {0, 1} /\ tries_left \in 0 .. ADC_MAX_TRIES
  /\ at \in {"out", "clear", "select", "convert", "decide", "judge"}
  /\ result \in {"RESULT_OK", "CONVERSION_ACTIVE", "HIT_OCCURRED"}
  /\ value \in {"zero", "normal", "bad"}
  /\ taken \in BOOLEAN /\ late_hit \in BOOLEAN

LEMMA TypeParts ==
  TypeOK <=> /\ RegisterTypeOK /\ work \in [Tasks -> Seq(Operations)]
             /\ CountersOK /\ ValuesOK /\ ReadOK
BY DEF TypeOK, CountersOK, ValuesOK, ReadOK

LEMMA TypePartsNext ==
  /\ RegisterTypeOK' /\ work' \in [Tasks -> Seq(Operations)]
  /\ CountersOK' /\ ValuesOK' /\ ReadOK'
  => TypeOK'
BY DEF TypeOK, CountersOK, ValuesOK, ReadOK

LEMMA PeriodCounterTyped ==
  ASSUME NEW full \in Nat, NEW counter \in 0 .. full
  PROVE  UpdatePeriodCounter(counter, full) \in 0 .. full
BY DEF UpdatePeriodCounter

LEMMA FailureTyped ==
  ASSUME ValuesOK, Failure \/ NoFailure
  PROVE  failures' \in 0 .. MaxFailures
BY HealthAssumption DEF ValuesOK, Failure, NoFailure

\* Readings.  A hit costs budget and causes at most one more try; the tries are more
\* than the budget, so that the last one is undisturbed.  A hit after the converter has
\* been given the channel is seen by the test that follows.
ReadInv ==
  /\ at # "out" => work["health"] # <<>> /\ Head(work["health"]).op = "Read_AD_Channel"
  /\ at \in {"select", "convert", "decide"} =>
       tries_left >= hit_budget_left + 1 + confirm_hit_result
  /\ at = "clear" => tries_left >= hit_budget_left + 1
  /\ at = "judge" /\ confirm_hit_result # 0 => late_hit
  /\ result = "HIT_OCCURRED" => late_hit
  /\ at \in {"convert", "decide", "judge"} /\ taken => confirm_hit_result # 0
  /\ NoDisturbedResult

IInv == TypeOK /\ ReadInv

LEMMA ReadStep ==
  ASSUME IInv, Read_AD_Channel
  PROVE  ReadOK' /\ ReadInv'
<1>1. ReadOK /\ hit_budget_left \in 0 .. HIT_BUDGET /\ ReadInv
  BY TypeParts DEF IInv, ValuesOK
<1>2. UNCHANGED hit_budget_left
  BY DEF Read_AD_Channel, ClearHit, SelectChannel, Convert_AD, DecideRetry, EndReading,
         readFrame, hitVars
<1> USE HealthAssumption, <1>1, <1>2 DEF ReadOK, ReadInv, NoDisturbedResult
<1>3. CASE ClearHit
  <2>1. /\ at \in {"out", "clear"} /\ at' = "select" /\ confirm_hit_result' = 0
        /\ tries_left' = IF at = "out" THEN ADC_MAX_TRIES ELSE tries_left
        /\ UNCHANGED <<work, result, value, taken, late_hit>>
    BY <1>3 DEF ClearHit, Reading
  <2>2. work["health"] # <<>> /\ Head(work["health"]).op = "Read_AD_Channel"
    BY <1>3 DEF ClearHit, Reading, Doing, Runs
  <2> QED
    BY <2>1, <2>2
<1>4. CASE SelectChannel
  BY <1>4 DEF SelectChannel, Reading
<1>5. CASE Convert_AD
  <2>1. /\ at = "convert" /\ at' = "decide"
        /\ result' \in {"RESULT_OK", "CONVERSION_ACTIVE"}
        /\ value' \in {"zero", "normal", "bad"}
        /\ UNCHANGED <<work, confirm_hit_result, tries_left, taken, late_hit>>
    BY <1>5 DEF Convert_AD, Reading
  <2> QED
    BY <2>1
<1>6. CASE DecideRetry
  <2>1. /\ at = "decide" /\ tries_left' = TriesAfter(tries_left)
        /\ at' = IF tries_left' = 0 THEN "judge" ELSE "clear"
        /\ UNCHANGED <<work, confirm_hit_result, result, value, taken, late_hit>>
    BY <1>6 DEF DecideRetry, Reading
  <2>2. CASE confirm_hit_result = 0
    BY <2>1, <2>2 DEF TriesAfter
  <2>3. CASE confirm_hit_result = 1
    <3>1. tries_left' = tries_left - 1 /\ tries_left >= hit_budget_left + 2
      BY <2>1, <2>3 DEF TriesAfter
    <3> QED
      BY <2>1, <2>3, <3>1
  <2> QED
    BY <2>2, <2>3
<1>7. CASE EndReading
  <2>1. /\ at = "judge" /\ at' = "out"
        /\ UNCHANGED <<confirm_hit_result, tries_left, taken, late_hit>>
    BY <1>7 DEF EndReading, Reading
  <2>2. IF confirm_hit_result # 0 THEN result' = "HIT_OCCURRED" /\ value' = "zero"
                                  ELSE UNCHANGED <<result, value>>
    BY <1>7 DEF EndReading, Judge
  <2> QED
    BY <2>1, <2>2
<1> QED
  BY <1>3, <1>4, <1>5, <1>6, <1>7 DEF Read_AD_Channel

LEMMA ReadTyped ==
  ASSUME IInv, Read_AD_Channel
  PROVE  RegisterTypeOK' /\ CountersOK' /\ ValuesOK'
<1>1. RegisterTypeOK /\ CountersOK /\ ValuesOK
  BY TypeParts DEF IInv
<1>2. /\ UNCHANGED readFrame
      /\ Failure \/ NoFailure
  <2>1. CASE ClearHit \/ SelectChannel \/ DecideRetry \/ EndReading
    BY <2>1 DEF ClearHit, SelectChannel, DecideRetry, EndReading, NoFailure
  <2>2. CASE Convert_AD
    BY <2>2 DEF Convert_AD
  <2> QED
    BY <2>1, <2>2 DEF Read_AD_Channel
<1>3. failures' \in 0 .. MaxFailures
  BY <1>1, <1>2, FailureTyped
<1> QED
  BY <1>1, <1>2, <1>3
     DEF readFrame, registerVars, counterVars, watchdogVars, hitVars, unitVars,
         RegisterTypeOK, CountersOK, ValuesOK

\* While the health task is at another duty no reading is in progress.
LEMMA NotReading ==
  ASSUME ReadInv,
         \/ work["health"] = <<>>
         \/ Head(work["health"]).op # "Read_AD_Channel"
  PROVE  at = "out"
BY DEF ReadInv

LEMMA ReadInvKept ==
  ASSUME ReadInv, at = "out", UNCHANGED <<confirm_hit_result, at, late_hit>>,
         UNCHANGED <<result, taken>> \/ (result' = "RESULT_OK" /\ taken' = FALSE)
  PROVE  ReadInv'
BY DEF ReadInv, NoDisturbedResult

LEMMA ReadOKKept ==
  ASSUME ReadOK, UNCHANGED readVars \/ EndMeasurement
  PROVE  ReadOK'
BY DEF ReadOK, readVars, EndMeasurement

LEMMA RegistersKept ==
  ASSUME RegisterTypeOK, UNCHANGED registerVars
  PROVE  RegisterTypeOK'
BY DEF RegisterTypeOK, registerVars

LEMMA RoundStep ==
  ASSUME IInv, HandleHealthMonitoring
  PROVE  IInv'
<1>1. RegisterTypeOK /\ CountersOK /\ ValuesOK /\ ReadOK /\ ReadInv
      /\ work \in [Tasks -> Seq(Operations)]
  BY TypeParts DEF IInv
<1>2. work["health"] = <<>> /\ UNCHANGED <<registerVars, readVars>>
  BY DEF HandleHealthMonitoring, Tasks
<1>3. RoundDuties \in Seq(Operations)
  <2>1. \A s \in Seq(Checks) : s \in Seq(Operations)
    BY DutySets
  <2>2. <<WD_High>> \in Seq(Operations) /\ <<WD_Low>> \in Seq(Operations)
    BY DutySets DEF Watchdog
  <2> QED
    BY <1>1, <2>1, <2>2, RoundDutiesTyped, ConcatKeeps
<1>4. work' \in [Tasks -> Seq(Operations)]
  BY <1>1, <1>3 DEF HandleHealthMonitoring
<1>5. RegisterTypeOK' /\ ReadOK' /\ ReadInv'
  BY <1>1, <1>2, RegistersKept, ReadOKKept, NotReading, ReadInvKept DEF readVars
<1>6. CountersOK'
  <2>1. health_mon_round' \in 0 .. HEALTH_COUNT
    BY <1>1, PeriodCounterTyped DEF HandleHealthMonitoring, CountersOK, HEALTH_COUNT
  <2> QED
    BY <1>1, <2>1 DEF HandleHealthMonitoring, CountersOK, unitVars
<1>7. ValuesOK'
  <2>1. unserved' \in 0 .. MaxUnserved
    BY <1>1 DEF HandleHealthMonitoring, ValuesOK, MaxUnserved, HEALTH_COUNT
  <2> QED
    BY <1>1, <2>1 DEF HandleHealthMonitoring, ValuesOK, hitVars, unitVars
<1> QED
  BY <1>4, <1>5, <1>6, <1>7, TypePartsNext DEF IInv

\* Duties other than readings change, beside the work: counters and the hit budget, the
\* watchdog, the voltages and units, the locals of the reading, the failures.
LEMMA OtherDutyFrame ==
  ASSUME IInv, HealthDuty, ~Read_AD_Channel
  PROVE  /\ UNCHANGED registerVars
         /\ UNCHANGED readVars \/ EndMeasurement
         /\ Head(work["health"]).op # "Read_AD_Channel"
         /\ CountersOK' /\ ValuesOK'
<1>1. CountersOK /\ ValuesOK
  BY TypeParts DEF IInv
<1> USE DEF Doing
<1>2. CASE NewPeriod
  <2>1. temp_meas_count' \in 0 .. TEMP_COUNT /\ voltage_meas_count' \in 0 .. VOLTAGE_COUNT
    BY <1>1, <1>2, PeriodCounterTyped, HealthAssumption DEF NewPeriod, CountersOK
  <2>2. hit_budget_left' \in 0 .. HIT_BUDGET
    BY <1>2, HealthAssumption DEF NewPeriod
  <2> QED
    BY <1>1, <1>2, <2>1, <2>2 DEF NewPeriod, CountersOK, ValuesOK, watchdogVars, unitVars
<1>3. CASE ServeWatchdog
  <2>1. PICK level \in {LOW, HIGH} : SetWatchdog(level)
    BY <1>3 DEF ServeWatchdog
  <2>2. WD_RESET' \in {LOW, HIGH} /\ unserved' \in 0 .. MaxUnserved
    BY <1>1, <2>1 DEF SetWatchdog, ValuesOK, MaxUnserved, HEALTH_COUNT
  <2>3. Head(work["health"]).op # "Read_AD_Channel"
    BY <1>3 DEF ServeWatchdog
  <2> QED
    BY <1>1, <2>1, <2>2, <2>3
       DEF SetWatchdog, CountersOK, ValuesOK, counterVars, hitVars, unitVars
<1>4. CASE StoreResult
  <2> DEFINE n == Head(work["health"]).at
  <2>1. CASE Doing("health", "StoreTemperature") /\ StoreTemperature(n)
    BY <1>1, <2>1
       DEF StoreTemperature, EndMeasurement, dutyFrame, CountersOK, ValuesOK,
           counterVars, watchdogVars, hitVars, unitVars
  <2>2. CASE Doing("health", "StoreVoltage") /\ StoreVoltage(n)
    <3>1. n \in Channels
      BY <2>2, HeadChannel DEF IInv
    <3>2. in_limits' \subseteq Channels
      BY <1>1, <2>2, <3>1 DEF StoreVoltage, ValuesOK
    <3> QED
      BY <1>1, <2>2, <3>2
         DEF StoreVoltage, EndMeasurement, dutyFrame, CountersOK, ValuesOK,
             counterVars, watchdogVars, hitVars
  <2> QED
    BY <1>4, <2>1, <2>2 DEF StoreResult
<1>5. CASE SetSensorUnitOff
  <2>1. Head(work["health"]).at \in SUs
    BY <1>5, HeadUnit DEF SetSensorUnitOff, IInv
  <2>2. switched_off' \subseteq SUs
    BY <1>1, <1>5, <2>1 DEF SetSensorUnitOff, ValuesOK
  <2> QED
    BY <1>1, <1>5, <2>2
       DEF SetSensorUnitOff, dutyFrame, CountersOK, ValuesOK, counterVars, watchdogVars,
           hitVars
<1>6. CASE CheckHighVoltage \/ CheckLowVoltage \/ LowVoltageFailure \/ MonitorVoltages
  <2>1. CheckFrame /\ (Failure \/ NoFailure) /\ Head(work["health"]).op # "Read_AD_Channel"
    BY <1>6 DEF CheckHighVoltage, CheckLowVoltage, LowVoltageFailure, MonitorVoltages
  <2>2. failures' \in 0 .. MaxFailures
    BY <1>1, <2>1, FailureTyped
  <2> QED
    BY <1>1, <2>1, <2>2
       DEF CheckFrame, dutyFrame, CountersOK, ValuesOK, counterVars, watchdogVars, hitVars,
           unitVars
<1>7. CASE EndSelfTest
  BY <1>1, <1>7
     DEF EndSelfTest, dutyFrame, CountersOK, ValuesOK, counterVars, watchdogVars, hitVars
<1> QED
  BY <1>2, <1>3, <1>4, <1>5, <1>6, <1>7 DEF HealthDuty

LEMMA DutyStep ==
  ASSUME IInv, HealthDuty
  PROVE  IInv'
<1>1. RegisterTypeOK /\ ReadOK /\ ReadInv
  BY TypeParts DEF IInv
<1>2. work' \in [Tasks -> Seq(Operations)]
  BY DutyStepOps, DutyTyped DEF IInv
<1>3. CASE Read_AD_Channel
  BY <1>2, <1>3, ReadStep, ReadTyped, TypePartsNext DEF IInv
<1>4. CASE ~Read_AD_Channel
  <2>1. /\ UNCHANGED registerVars /\ CountersOK' /\ ValuesOK'
        /\ UNCHANGED readVars \/ EndMeasurement
        /\ Head(work["health"]).op # "Read_AD_Channel"
    BY <1>4, OtherDutyFrame
  <2>2. at = "out"
    BY <1>1, <2>1, NotReading
  <2>3. ReadInv'
    BY <1>1, <2>1, <2>2, ReadInvKept DEF readVars, EndMeasurement
  <2> QED
    BY <1>1, <1>2, <2>1, <2>3, RegistersKept, ReadOKKept, TypePartsNext DEF IInv
<1> QED
  BY <1>3, <1>4

\* What the other tasks do to the work of the health task: nothing.
LEMMA RegisterWork ==
  ASSUME TypeOK, NEW t \in Tasks, RegisterStep(t)
  PROVE  /\ work[t] # <<>> /\ Head(work[t]).op \in {"update", "zero"}
         /\ UNCHANGED work \/ Then(t, <<>>)
         /\ \A h \in Tasks \ {t} : work'[h] = work[h]
         /\ work'[t] = work[t] \/ work'[t] = Tail(work[t])
<1>1. work[t] # <<>> /\ Head(work[t]).op \in {"update", "zero"}
      /\ (UNCHANGED work \/ Then(t, <<>>))
  BY DEF RegisterStep, Doing, Runs, BeginUpdate, EndUpdate, StoreZero
<1>2. work \in [Tasks -> Seq(Operations)] /\ work[t] \in Seq(Operations)
  BY DEF TypeOK
<1>3. CASE UNCHANGED work
  BY <1>1, <1>3
<1>4. CASE Then(t, <<>>)
  <2>1. <<>> \in Seq(Operations)
    OBVIOUS
  <2>2. work'[t] = <<>> \o Tail(work[t]) /\ \A h \in Tasks \ {t} : work'[h] = work[h]
    BY <1>1, <1>2, <1>4, <2>1, ThenKeeps, ZenonT(60)
  <2>3. Tail(work[t]) \in Seq(Operations)
    BY <1>1, <1>2
  <2>4. work'[t] = Tail(work[t])
    BY <2>2, <2>3
  <2> QED
    BY <1>1, <2>2, <2>4
<1> QED
  BY <1>1, <1>3, <1>4

LEMMA RegisterTaskStep ==
  ASSUME IInv, NEW t \in Tasks, Register(t)
  PROVE  IInv'
<1>1. CountersOK /\ ValuesOK /\ ReadOK /\ ReadInv
  BY TypeParts DEF IInv
<1>2. RegisterStep(t) /\ UNCHANGED <<otherFrame, self_test_SU, switched_off, failures, requests>>
  BY DEF Register
<1>3. work' \in [Tasks -> Seq(Operations)] /\ RegisterTypeOK'
  BY <1>2, RegisterStepTyped DEF IInv
<1>4. CountersOK' /\ ValuesOK' /\ ReadOK'
  BY <1>1, <1>2
     DEF otherFrame, counterVars, watchdogVars, hitVars, readVars, CountersOK, ValuesOK, ReadOK
<1>5. ReadInv'
  <2>1. UNCHANGED readVars /\ UNCHANGED hit_budget_left
    BY <1>2 DEF otherFrame, hitVars
  <2>2. CASE t = "health"
    <3>1. at = "out"
      BY <1>1, <1>2, <2>2, RegisterWork, NotReading DEF IInv
    <3> QED
      BY <1>1, <2>1, <3>1, ReadInvKept DEF readVars
  <2>3. CASE t # "health"
    <3>1. UNCHANGED work["health"]
      BY <1>2, <2>3, RegisterWork DEF IInv, Tasks
    <3> QED
      BY <1>1, <2>1, <3>1 DEF ReadInv, NoDisturbedResult, readVars
  <2> QED
    BY <2>2, <2>3
<1> QED
  BY <1>3, <1>4, <1>5, TypePartsNext DEF IInv

LEMMA HitStep ==
  ASSUME IInv, HandleHitTrigger
  PROVE  IInv'
<1>1. /\ RegisterTypeOK /\ CountersOK /\ ValuesOK /\ ReadOK /\ ReadInv
      /\ work \in [Tasks -> Seq(Operations)]
  BY TypeParts DEF IInv
<1>2. UNCHANGED <<registerVars, work, counterVars, watchdogVars, unitVars, failures, requests>>
  BY DEF HandleHitTrigger
<1>3. RegisterTypeOK' /\ work' \in [Tasks -> Seq(Operations)] /\ CountersOK'
  BY <1>1, <1>2, RegistersKept DEF counterVars, unitVars, CountersOK
<1>4. /\ hit_budget_left' \in 0 .. HIT_BUDGET /\ hit_trigger' \in BOOLEAN
      /\ ReadOK' /\ ReadInv'
  <2>1. CASE hit_budget_left = 0
    BY <1>1, <1>2, <2>1
       DEF HandleHitTrigger, ValuesOK, readVars, ReadOK, ReadInv, NoDisturbedResult
  <2>2. CASE hit_budget_left # 0
    <3>1. /\ hit_budget_left' = hit_budget_left - 1 /\ confirm_hit_result' = 1
          /\ taken' = (taken \/ at # "out") /\ late_hit' = (late_hit \/ at = "judge")
          /\ UNCHANGED <<hit_trigger, at, tries_left, result, value>>
      BY <2>2 DEF HandleHitTrigger
    <3>2. hit_budget_left \in Nat /\ confirm_hit_result \in {0, 1} /\ tries_left \in Nat
      BY <1>1, HealthAssumption DEF ValuesOK, ReadOK
    <3>3. hit_budget_left' \in 0 .. HIT_BUDGET /\ hit_trigger' \in BOOLEAN /\ ReadOK'
      BY <1>1, <2>2, <3>1, HealthAssumption DEF ValuesOK, ReadOK
    <3>4. UNCHANGED work["health"]
      BY <1>2
    <3>5. /\ at # "out" => work'["health"] # <<>>
                           /\ Head(work'["health"]).op = "Read_AD_Channel"
          /\ NoDisturbedResult'
      BY <1>1, <3>1, <3>4 DEF ReadInv, NoDisturbedResult
    <3>6. /\ at \in {"select", "convert", "decide"} =>
               tries_left >= hit_budget_left' + 1 + confirm_hit_result'
          /\ at = "clear" => tries_left >= hit_budget_left' + 1
      BY <1>1, <2>2, <3>1, <3>2 DEF ReadInv, ValuesOK
    <3>7. confirm_hit_result' # 0
      BY <3>1
    <3>8. /\ at = "judge" => late_hit'
          /\ result = "HIT_OCCURRED" => late_hit'
      <4>1. result = "HIT_OCCURRED" => late_hit
        BY <1>1 DEF ReadInv
      <4> QED
        BY <3>1, <4>1, Zenon
    <3>9. ReadInv'
      BY <3>1, <3>5, <3>6, <3>7, <3>8 DEF ReadInv
    <3> QED
      BY <3>3, <3>9
  <2> QED
    BY <2>1, <2>2
<1>5. ValuesOK'
  BY <1>1, <1>2, <1>4 DEF ValuesOK, watchdogVars, unitVars
<1> QED
  BY <1>3, <1>4, <1>5, TypePartsNext DEF IInv

\* Requests of other tasks leave readings and registers alone, but for the interrupt.
LEMMA RequestStep ==
  ASSUME IInv, Telecommand \/ ConverterFailedMail \/ TC_Interrupt
  PROVE  IInv'
<1>1. /\ RegisterTypeOK /\ CountersOK /\ ValuesOK /\ ReadOK /\ ReadInv
      /\ work \in [Tasks -> Seq(Operations)]
  BY TypeParts DEF IInv
<1>2. UNCHANGED otherFrame
  BY DEF Telecommand, ConverterFailedMail, TC_Interrupt
<1>3. /\ work' \in [Tasks -> Seq(Operations)] /\ RegisterTypeOK'
      /\ UNCHANGED work["health"]
  <2>1. ASSUME NEW t \in {"tc", "acquisition"}, NEW ops \in Seq(Operations), Begins(t, ops)
        PROVE  /\ work' \in [Tasks -> Seq(Operations)] /\ RegisterTypeOK'
               /\ UNCHANGED work["health"]
    BY <1>1, <2>1, BeginsTyped DEF Begins, Tasks, IInv
  <2>2. CASE Telecommand
    <3>1. CASE \E ops \in Commands : Begins("tc", ops)
      BY <3>1, <2>1, CommandsTyped
    <3>2. CASE UNCHANGED <<registerVars, work>>
      BY <1>1, <3>2, RegistersKept
    <3> QED
      BY <2>2, <3>1, <3>2 DEF Telecommand
  <2>3. CASE ConverterFailedMail
    <3>1. SetModeStatusError(ADC_ERROR) \in Seq(Ordinary)
      BY SettersOrdinary DEF ErrorBits
    <3>2. SetModeStatusError(ADC_ERROR) \in Seq(Operations)
      BY <3>1 DEF Ordinary
    <3> QED
      BY <2>1, <2>3, <3>2 DEF ConverterFailedMail
  <2>4. CASE TC_Interrupt
    <3>1. TC_OR_PARITY_ERROR \in SUBSET Bits
      BY DEF TC_OR_PARITY_ERROR, Bits
    <3>2. TC_InterruptError
      BY <2>4 DEF TC_Interrupt
    <3>3. telemetry' \in [Registers -> SUBSET Bits] /\ reported' \in [Registers -> SUBSET Bits]
      BY <1>1, <3>1, <3>2, RegistersTyped DEF TC_InterruptError, RegisterTypeOK
    <3> QED
      BY <1>1, <3>2, <3>3 DEF TC_InterruptError, RegisterTypeOK
  <2> QED
    BY <2>2, <2>3, <2>4
<1>4. CountersOK'
  <2>1. self_test_SU' \in SUs \cup {NO_SU}
    BY <1>1 DEF Telecommand, ConverterFailedMail, TC_Interrupt, CountersOK
  <2> QED
    BY <1>1, <1>2, <2>1 DEF otherFrame, counterVars, CountersOK
<1>5. ValuesOK'
  <2>1. /\ failures' \in 0 .. MaxFailures
    BY <1>1, FailureTyped DEF Telecommand, ConverterFailedMail, TC_Interrupt, NoFailure
  <2>2. requests' \in 0 .. MaxRequests
    BY <1>1, HealthAssumption
       DEF Telecommand, ConverterFailedMail, TC_Interrupt, Request, ValuesOK
  <2>3. switched_off' \subseteq SUs
    BY <1>1 DEF Telecommand, ConverterFailedMail, TC_Interrupt, ValuesOK
  <2> QED
    BY <1>1, <1>2, <2>1, <2>2, <2>3 DEF otherFrame, watchdogVars, hitVars, ValuesOK
<1>6. ReadOK' /\ ReadInv'
  BY <1>1, <1>2, <1>3 DEF otherFrame, readVars, hitVars, ReadOK, ReadInv, NoDisturbedResult
<1> QED
  BY <1>3, <1>4, <1>5, <1>6, TypePartsNext DEF IInv

LEMMA StutterStep ==
  ASSUME IInv, UNCHANGED vars
  PROVE  IInv'
BY DEF IInv, ReadInv, NoDisturbedResult, TypeOK, RegisterTypeOK, vars, registerVars,
       counterVars, watchdogVars, hitVars, readVars, unitVars

THEOREM InvariantInit == Init => IInv
BY TypeInit DEF Init, IInv, ReadInv, NoDisturbedResult

THEOREM InvariantNext == IInv /\ [Next]_vars => IInv'
<1> SUFFICES ASSUME IInv, [Next]_vars PROVE IInv'
  OBVIOUS
<1>1. CASE HealthStep
  BY <1>1, RoundStep, DutyStep, RegisterTaskStep DEF HealthStep, Tasks
<1>2. CASE Register("tc") \/ Register("acquisition")
  BY <1>2, RegisterTaskStep DEF Tasks
<1>3. CASE HandleHitTrigger
  BY <1>3, HitStep
<1>4. CASE Telecommand \/ ConverterFailedMail \/ TC_Interrupt
  BY <1>4, RequestStep
<1>5. CASE UNCHANGED vars
  BY <1>5, StutterStep
<1> QED
  BY <1>1, <1>2, <1>3, <1>4, <1>5 DEF Next

\* The variables have their types in every behaviour.
THEOREM TypeCorrect == Spec => []TypeOK
<1>1. IInv => TypeOK
  BY DEF IInv
<1> QED
  BY <1>1, InvariantInit, InvariantNext, PTL DEF Spec

\* No hit makes Read_AD_Channel give a disturbed result, for any hit budget and any
\* number of tries above it.
THEOREM ResultsAreUndisturbed == Spec => []NoDisturbedResult
<1>1. IInv => NoDisturbedResult
  BY DEF IInv, ReadInv
<1> QED
  BY <1>1, InvariantInit, InvariantNext, PTL DEF Spec

\* Only a hit after the last try lets a reading be discarded: the tries are never used up.
DiscardedByLateHit == result = "HIT_OCCURRED" => late_hit

THEOREM OnlyLateHitsDiscard == Spec => []DiscardedByLateHit
<1>1. IInv => DiscardedByLateHit
  BY DEF IInv, ReadInv, DiscardedByLateHit
<1> QED
  BY <1>1, InvariantInit, InvariantNext, PTL DEF Spec

----------------------------------------------------------------------------
(* No update of a register is lost *)

\* A value that was read and not yet written belongs to the task that has disabled the
\* interrupts, and is still that of the register.
CopyInv ==
  /\ telemetry = reported
  /\ \A t \in Tasks : copy[t] # NoCopy =>
       /\ masked = t
       /\ work[t] # <<>> /\ Head(work[t]).op = "update"
       /\ copy[t] = telemetry[Head(work[t]).register]

\* A task that runs is the only one that may hold a copy.
LEMMA OthersHoldNone ==
  ASSUME CopyInv, NEW t \in Tasks, masked = Nobody \/ masked = t
  PROVE  \A h \in Tasks \ {t} : copy[h] = NoCopy
BY DEF CopyInv, Tasks, Nobody

LEMMA NoCopyKept ==
  ASSUME CopyInv, \A t \in Tasks : copy[t] = NoCopy,
         UNCHANGED copy, telemetry' = reported'
  PROVE  CopyInv'
BY DEF CopyInv

LEMMA UnmaskedHoldNone ==
  ASSUME CopyInv, masked = Nobody
  PROVE  \A t \in Tasks : copy[t] = NoCopy
BY DEF CopyInv, Tasks, Nobody

\* Duties are not updates: while one runs no task holds a copy.
LEMMA DutyIsNoUpdate ==
  ASSUME HealthDuty
  PROVE  Runs("health") /\ Head(work["health"]).op # "update"
BY DEF HealthDuty, NewPeriod, ServeWatchdog, Read_AD_Channel, ClearHit, SelectChannel,
       Convert_AD, DecideRetry, EndReading, Reading, StoreResult, SetSensorUnitOff,
       CheckHighVoltage, CheckLowVoltage, LowVoltageFailure, MonitorVoltages, EndSelfTest,
       Doing

LEMMA DutyRegisters ==
  ASSUME IInv, HealthDuty
  PROVE  UNCHANGED registerVars
<1>1. CASE Read_AD_Channel
  BY <1>1 DEF Read_AD_Channel, ClearHit, SelectChannel, Convert_AD, DecideRetry, EndReading,
              readFrame
<1>2. CASE ~Read_AD_Channel
  BY <1>2, OtherDutyFrame
<1> QED
  BY <1>1, <1>2

LEMMA CopyRegisterStep ==
  ASSUME IInv, CopyInv, NEW t \in Tasks, RegisterStep(t)
  PROVE  CopyInv'
<1> DEFINE update == Head(work[t])
<1>1. RegisterTypeOK /\ TypeOK
  BY TypeParts DEF IInv
<1>2. masked = Nobody \/ masked = t
  BY DEF RegisterStep, Doing, Runs
<1>3. \A h \in Tasks \ {t} : copy[h] = NoCopy
  BY <1>2, OthersHoldNone
<1>4. CASE Doing(t, "update") /\ copy[t] = NoCopy /\ BeginUpdate(t)
  <2>1. /\ masked' = t /\ copy' = [copy EXCEPT ![t] = telemetry[update.register]]
        /\ UNCHANGED <<telemetry, reported, work>>
    BY <1>4 DEF BeginUpdate
  <2>2. work[t] # <<>> /\ update.op = "update"
    BY <1>4 DEF Doing, Runs
  <2>3. copy \in [Tasks -> (SUBSET Bits) \cup {NoCopy}]
    BY <1>1 DEF RegisterTypeOK
  <2>4. copy'[t] = telemetry[update.register] /\ \A h \in Tasks \ {t} : copy'[h] = NoCopy
    BY <1>3, <2>1, <2>3
  <2> HIDE DEF update
  <2> QED
    BY <2>1, <2>2, <2>4 DEF CopyInv, update
<1>5. CASE Doing(t, "update") /\ copy[t] # NoCopy /\ EndUpdate(t)
  <2>1. copy[t] = telemetry[update.register] /\ telemetry = reported
    BY <1>5 DEF CopyInv
  <2>2. telemetry' = reported'
    BY <1>5, <2>1 DEF EndUpdate
  <2>3. copy' = [copy EXCEPT ![t] = NoCopy] /\ copy \in [Tasks -> (SUBSET Bits) \cup {NoCopy}]
    BY <1>1, <1>5 DEF EndUpdate, RegisterTypeOK
  <2>4. \A h \in Tasks : copy'[h] = NoCopy
    BY <1>3, <2>3
  <2> QED
    BY <2>2, <2>4 DEF CopyInv
<1>6. CASE Doing(t, "zero") /\ StoreZero(t)
  <2>1. copy[t] = NoCopy
    BY <1>6 DEF Doing, CopyInv
  <2>2. \A h \in Tasks : copy[h] = NoCopy
    BY <1>3, <2>1
  <2>3. telemetry' = reported' /\ UNCHANGED copy
    BY <1>6 DEF StoreZero, CopyInv
  <2> QED
    BY <2>2, <2>3, NoCopyKept
<1> QED
  BY <1>4, <1>5, <1>6 DEF RegisterStep

LEMMA CopyNext ==
  ASSUME IInv, CopyInv, [Next]_vars
  PROVE  CopyInv'
<1>1. ASSUME masked = Nobody, UNCHANGED copy, telemetry' = reported'
      PROVE  CopyInv'
  BY <1>1, UnmaskedHoldNone, NoCopyKept
<1>2. telemetry = reported
  BY DEF CopyInv
<1>3. CASE HandleHealthMonitoring
  BY <1>1, <1>2, <1>3 DEF HandleHealthMonitoring, registerVars
<1>4. CASE HealthDuty
  <2>1. Runs("health") /\ Head(work["health"]).op # "update"
    BY <1>4, DutyIsNoUpdate
  <2>2. copy["health"] = NoCopy
    BY <2>1 DEF CopyInv, Tasks
  <2>3. \A h \in Tasks : copy[h] = NoCopy
    <3>1. masked = Nobody \/ masked = "health"
      BY <2>1 DEF Runs
    <3> QED
      BY <2>2, <3>1, OthersHoldNone DEF Tasks
  <2>4. UNCHANGED registerVars
    BY <1>4, DutyRegisters
  <2> QED
    BY <1>2, <2>3, <2>4, NoCopyKept DEF registerVars
<1>5. CASE \E t \in Tasks : Register(t)
  BY <1>5, CopyRegisterStep DEF Register
<1>6. CASE HandleHitTrigger
  BY <1>1, <1>2, <1>6 DEF HandleHitTrigger, registerVars
<1>7. CASE Telecommand
  <2>1. masked = Nobody /\ UNCHANGED registerVars
    BY <1>7 DEF Telecommand, Begins
  <2> QED
    BY <1>1, <1>2, <2>1 DEF registerVars
<1>8. CASE ConverterFailedMail
  BY <1>1, <1>2, <1>8 DEF ConverterFailedMail, Begins, registerVars
<1>9. CASE TC_Interrupt
  BY <1>1, <1>2, <1>9 DEF TC_Interrupt, TC_InterruptError
<1>10. CASE UNCHANGED vars
  BY <1>10 DEF CopyInv, vars, registerVars
<1> QED
  BY <1>3, <1>4, <1>5, <1>6, <1>7, <1>8, <1>9, <1>10 DEF Next, HealthStep, Tasks

\* No read-modify-write of a status register, by any task or the interrupt service,
\* undoes another one.
THEOREM UpdatesAreKept == Spec => []NoUpdateLost
<1>1. Init => CopyInv
  BY DEF Init, RegisterInit, CopyInv
<1>2. IInv /\ CopyInv /\ [Next]_vars => CopyInv'
  BY CopyNext
<1>3. CopyInv => NoUpdateLost
  BY DEF CopyInv, NoUpdateLost
<1> QED
  BY <1>1, <1>2, <1>3, InvariantInit, InvariantNext, PTL DEF Spec

----------------------------------------------------------------------------
(* The watchdog is served *)

\* The duty that sets the signal is the last one of its round, after ordinary ones.
Pending(duty) == \E s \in Seq(Ordinary) : work["health"] = s \o <<duty>>

\* Rounds counted when the next round to start is n: the edge comes in round 9.
RoundsSince(n) == IF n = HEALTH_COUNT THEN HEALTH_COUNT ELSE 8 - n

\* The signal is high again from round 8 on, for the edge in round 9.
WatchdogInv ==
  \/ /\ work["health"] \in Seq(Ordinary)
     /\ unserved <= RoundsSince(health_mon_round)
     /\ health_mon_round # 8 => WD_RESET = HIGH
  \/ Pending(WD_High) /\ health_mon_round = 7 /\ unserved <= 1
  \/ Pending(WD_Low) /\ health_mon_round = 8 /\ unserved <= 10 /\ WD_RESET = HIGH

LEMMA PendingNotEmpty ==
  ASSUME NEW duty, Pending(duty)
  PROVE  work["health"] # <<>>
<1>1. PICK s \in Seq(Ordinary) : work["health"] = s \o <<duty>>
  BY DEF Pending
<1>2. Len(work["health"]) = Len(s) + 1 /\ Len(s) \in Nat
  BY <1>1
<1> QED
  BY <1>2

\* The head of the work is an ordinary operation, or the duty is all that is left.
LEMMA PendingHead ==
  ASSUME NEW duty, Pending(duty), NEW ops \in Seq(Ordinary), Then("health", ops),
         work \in [Tasks -> Seq(Operations)]
  PROVE  \/ Head(work["health"]) \in Ordinary /\ Pending(duty)'
         \/ work["health"] = <<duty>> /\ work'["health"] = ops
<1>1. PICK s \in Seq(Ordinary) : work["health"] = s \o <<duty>>
  BY DEF Pending
<1>2. work'["health"] = ops \o Tail(work["health"])
  BY DEF Then, Tasks
<1>3. CASE s = <<>>
  <2>1. work["health"] = <<duty>>
    BY <1>1, <1>3
  <2>2. ops \o Tail(<<duty>>) = ops
    OBVIOUS
  <2> QED
    BY <1>2, <2>1, <2>2
<1>4. CASE s # <<>>
  <2>1. Head(s \o <<duty>>) = Head(s) /\ Tail(s \o <<duty>>) = Tail(s) \o <<duty>>
    BY <1>4
  <2>2. Head(s) \in Ordinary /\ Tail(s) \in Seq(Ordinary)
    BY <1>4
  <2>3. ops \o (Tail(s) \o <<duty>>) = (ops \o Tail(s)) \o <<duty>>
    BY <2>2
  <2>4. ops \o Tail(s) \in Seq(Ordinary)
    BY <2>2, ConcatKeeps
  <2> QED
    BY <1>1, <1>2, <2>1, <2>2, <2>3, <2>4 DEF Pending
<1> QED
  BY <1>3, <1>4

LEMMA WatchdogIsNotOrdinary == WD_High \notin Ordinary /\ WD_Low \notin Ordinary
BY DEF Ordinary, Watchdog

LEMMA OrdinaryAfter ==
  ASSUME work["health"] \in Seq(Ordinary), work["health"] # <<>>,
         NEW ops \in Seq(Ordinary), Then("health", ops), work \in [Tasks -> Seq(Operations)]
  PROVE  work'["health"] \in Seq(Ordinary)
BY ThenKeeps DEF Tasks

\* Steps that are not those of the watchdog leave what is pending for it.
LEMMA WatchdogKept ==
  ASSUME IInv, WatchdogInv, UNCHANGED <<health_mon_round, watchdogVars>>,
         DutyOps, UNCHANGED work \/ Head(work["health"]) \notin Watchdog
  PROVE  WatchdogInv'
<1>1. work \in [Tasks -> Seq(Operations)]
  BY DEF IInv, TypeOK
<1>2. CASE UNCHANGED work
  BY <1>2 DEF WatchdogInv, Pending, watchdogVars, RoundsSince
<1>3. ASSUME NEW ops \in Seq(Ordinary), Runs("health"), Then("health", ops),
             Head(work["health"]) \notin Watchdog
      PROVE  WatchdogInv'
  <2>1. work["health"] # <<>>
    BY <1>3 DEF Runs
  <2>2. work["health"] \in Seq(Ordinary) => work'["health"] \in Seq(Ordinary)
    BY <1>1, <1>3, <2>1, OrdinaryAfter
  <2>3. \A duty \in Watchdog : Pending(duty) => Pending(duty)'
    <3>1. \A duty \in Watchdog : Head(<<duty>>) = duty
      OBVIOUS
    <3> QED
      BY <1>1, <1>3, <3>1, PendingHead
  <2> QED
    BY <2>2, <2>3 DEF WatchdogInv, Watchdog, watchdogVars, RoundsSince
<1> QED
  BY <1>2, <1>3 DEF DutyOps

LEMMA WatchdogElsewhere ==
  ASSUME WatchdogInv, UNCHANGED <<health_mon_round, watchdogVars, work["health"]>>
  PROVE  WatchdogInv'
BY DEF WatchdogInv, Pending, watchdogVars, RoundsSince

LEMMA WatchdogRound ==
  ASSUME IInv, WatchdogInv, HandleHealthMonitoring
  PROVE  WatchdogInv'
<1>1. CountersOK /\ unserved \in 0 .. MaxUnserved /\ work \in [Tasks -> Seq(Operations)]
  BY TypeParts DEF IInv, ValuesOK
<1>2. work["health"] = <<>> /\ work'["health"] = RoundDuties
  BY <1>1 DEF HandleHealthMonitoring, Tasks
<1>3. unserved <= RoundsSince(health_mon_round) /\ (health_mon_round # 8 => WD_RESET = HIGH)
  BY <1>2, PendingNotEmpty DEF WatchdogInv
<1>4. /\ health_mon_round' = IF health_mon_round > 0 THEN health_mon_round - 1 ELSE 9
      /\ unserved' = IF unserved < MaxUnserved THEN unserved + 1 ELSE unserved
      /\ WD_RESET' = WD_RESET
  BY DEF HandleHealthMonitoring, UpdatePeriodCounter, HEALTH_COUNT
<1>5. health_mon_round \in 0 .. 9 /\ unserved \in Nat /\ unserved' <= unserved + 1
  BY <1>1, <1>4 DEF CountersOK, HEALTH_COUNT
<1>6. \A s \in Seq(Checks) : s \in Seq(Ordinary)
  BY OrdinarySets
<1>7. CASE health_mon_round = 8
  <2>1. work'["health"] = <<>> \o <<WD_High>>
    BY <1>1, <1>2, <1>7, RoundDutiesTyped
  <2>2. Pending(WD_High)'
    BY <2>1, EmptyOrdinary DEF Pending
  <2>3. health_mon_round' = 7 /\ unserved' <= 1
    BY <1>3, <1>4, <1>5, <1>7 DEF RoundsSince, HEALTH_COUNT
  <2> QED
    BY <2>2, <2>3 DEF WatchdogInv
<1>8. CASE health_mon_round = 9
  <2>1. Pending(WD_Low)'
    BY <1>1, <1>2, <1>6, <1>8, RoundDutiesTyped DEF Pending
  <2>2. health_mon_round' = 8 /\ unserved' <= 10 /\ WD_RESET' = HIGH
    BY <1>3, <1>4, <1>5, <1>8 DEF RoundsSince, HEALTH_COUNT
  <2> QED
    BY <2>1, <2>2 DEF WatchdogInv
<1>9. CASE health_mon_round \notin {8, 9}
  <2>1. work'["health"] \in Seq(Ordinary)
    BY <1>1, <1>2, <1>6, <1>9, RoundDutiesTyped
  <2>2. unserved' <= RoundsSince(health_mon_round') /\ WD_RESET' = HIGH
    BY <1>3, <1>4, <1>5, <1>9 DEF RoundsSince, HEALTH_COUNT
  <2> QED
    BY <2>1, <2>2 DEF WatchdogInv, RoundsSince
<1> QED
  BY <1>7, <1>8, <1>9

LEMMA WatchdogServe ==
  ASSUME IInv, WatchdogInv, ServeWatchdog
  PROVE  WatchdogInv'
<1>1. /\ work \in [Tasks -> Seq(Operations)] /\ Head(work["health"]) \in Operations
      /\ work["health"] # <<>> /\ Then("health", <<>>)
      /\ UNCHANGED health_mon_round
  BY HeadOf DEF ServeWatchdog, SetWatchdog, Doing, IInv, Tasks, counterVars
<1>2. Head(work["health"]) \in PlainDuties
      /\ Head(work["health"]).op \in {"SET_WD_RESET_HIGH", "SET_WD_RESET_LOW"}
  BY <1>1 DEF ServeWatchdog, Doing, Operations, Updates, Zeros, Duties, UnitDuties,
              ChannelDuties
<1>3. Head(work["health"]) = [op |-> Head(work["health"]).op, at |-> 0]
  BY <1>2 DEF PlainDuties
<1>4. work["health"] \notin Seq(Ordinary)
  <2>1. Head(work["health"]) \in Watchdog
    BY <1>2, <1>3 DEF Watchdog, WD_High, WD_Low, Duty
  <2> QED
    BY <1>1, <2>1 DEF Ordinary
<1>5. \A duty \in Watchdog : Pending(duty) => work["health"] = <<duty>> /\ work'["health"] = <<>>
  <2>1. Head(work["health"]) \notin Ordinary
    BY <1>2, <1>3 DEF Ordinary, Watchdog, WD_High, WD_Low, Duty
  <2> QED
    BY <1>1, <2>1, EmptyOrdinary, PendingHead
<1>6. CASE Pending(WD_High) /\ health_mon_round = 7 /\ unserved <= 1
  <2>1. Head(work["health"]) = WD_High /\ work'["health"] = <<>>
    BY <1>5, <1>6 DEF Watchdog
  <2>2. SetWatchdog(HIGH)
    BY <2>1 DEF ServeWatchdog, Doing, WD_High, Duty
  <2>3. WD_RESET' = HIGH /\ unserved' = unserved
    BY <2>2 DEF SetWatchdog, HIGH, LOW
  <2> QED
    BY <1>1, <1>6, <2>1, <2>3, EmptyOrdinary DEF WatchdogInv, RoundsSince, HEALTH_COUNT
<1>7. CASE Pending(WD_Low) /\ health_mon_round = 8 /\ unserved <= 10 /\ WD_RESET = HIGH
  <2>1. Head(work["health"]) = WD_Low /\ work'["health"] = <<>>
    BY <1>5, <1>7 DEF Watchdog
  <2>2. SetWatchdog(LOW)
    BY <2>1 DEF ServeWatchdog, Doing, WD_Low, Duty
  <2>3. unserved' = 0
    BY <1>7, <2>2 DEF SetWatchdog
  <2> QED
    BY <1>1, <1>7, <2>1, <2>3, EmptyOrdinary DEF WatchdogInv, RoundsSince, HEALTH_COUNT
<1> QED
  BY <1>4, <1>6, <1>7 DEF WatchdogInv

\* The other duties leave the signal and the round alone.
LEMMA OtherDutiesWatchdog ==
  ASSUME IInv, HealthDuty, ~ServeWatchdog
  PROVE  /\ UNCHANGED <<health_mon_round, watchdogVars>>
         /\ Head(work["health"]) \notin Watchdog
<1>1. Head(work["health"]).op \notin {"SET_WD_RESET_HIGH", "SET_WD_RESET_LOW"}
  BY DEF HealthDuty, NewPeriod, Read_AD_Channel, ClearHit, SelectChannel,
         Convert_AD, DecideRetry, EndReading, Reading, StoreResult, SetSensorUnitOff,
         CheckHighVoltage, CheckLowVoltage, LowVoltageFailure, MonitorVoltages, EndSelfTest,
         Doing
<1>2. UNCHANGED <<health_mon_round, watchdogVars>>
  <2>1. CASE NewPeriod
    BY <2>1 DEF NewPeriod
  <2>2. CASE Read_AD_Channel
    BY <2>2 DEF Read_AD_Channel, ClearHit, SelectChannel, Convert_AD, DecideRetry, EndReading,
                readFrame, counterVars
  <2>3. CASE StoreResult \/ SetSensorUnitOff \/ EndSelfTest
    BY <2>3 DEF StoreResult, StoreTemperature, StoreVoltage, SetSensorUnitOff, EndSelfTest,
                dutyFrame, counterVars
  <2>4. CASE CheckHighVoltage \/ CheckLowVoltage \/ LowVoltageFailure \/ MonitorVoltages
    BY <2>4 DEF CheckHighVoltage, CheckLowVoltage, LowVoltageFailure, MonitorVoltages,
                CheckFrame, dutyFrame, counterVars
  <2> QED
    BY <2>1, <2>2, <2>3, <2>4 DEF HealthDuty
<1> QED
  BY <1>1, <1>2 DEF Watchdog, WD_High, WD_Low, Duty

\* The other tasks and interrupts leave the work of the health task and the watchdog alone.
OtherStep ==
  \/ Register("tc") \/ Register("acquisition") \/ HandleHitTrigger
  \/ Telecommand \/ ConverterFailedMail \/ TC_Interrupt

LEMMA OtherStepFrame ==
  ASSUME IInv, OtherStep
  PROVE  UNCHANGED <<work["health"], counterVars, watchdogVars, in_limits>>
<1>1. work \in [Tasks -> Seq(Operations)] /\ TypeOK
  BY DEF IInv, TypeOK
<1>2. ASSUME NEW t \in {"tc", "acquisition"}, Register(t)
      PROVE  UNCHANGED <<work["health"], counterVars, watchdogVars, in_limits>>
  BY <1>1, <1>2, RegisterWork DEF Register, otherFrame, Tasks
<1>3. CASE HandleHitTrigger
  BY <1>3 DEF HandleHitTrigger, unitVars
<1>4. ASSUME NEW t \in {"tc", "acquisition"}, NEW ops, Begins(t, ops)
      PROVE  UNCHANGED work["health"]
  BY <1>1, <1>4 DEF Begins, Tasks
<1>5. CASE Telecommand \/ ConverterFailedMail \/ TC_Interrupt
  <2>1. UNCHANGED otherFrame
    BY <1>5 DEF Telecommand, ConverterFailedMail, TC_Interrupt
  <2>2. UNCHANGED work["health"]
    BY <1>4, <1>5 DEF Telecommand, ConverterFailedMail, TC_Interrupt, TC_InterruptError
  <2> QED
    BY <2>1, <2>2 DEF otherFrame
<1> QED
  BY <1>2, <1>3, <1>5 DEF OtherStep

LEMMA HealthRegisterOps ==
  ASSUME IInv, Register("health")
  PROVE  /\ DutyOps /\ Head(work["health"]).op \in {"update", "zero"}
         /\ UNCHANGED <<otherFrame, self_test_SU, switched_off, failures, requests>>
<1>1. RegisterStep("health") /\ Runs("health")
  BY DEF Register, RegisterStep, Doing
<1> QED
  BY <1>1, RegisterWork, EmptyOrdinary DEF DutyOps, Register, IInv, Tasks

LEMMA WatchdogNext ==
  ASSUME IInv, WatchdogInv, [Next]_vars
  PROVE  WatchdogInv'
<1>1. CASE HandleHealthMonitoring
  BY <1>1, WatchdogRound
<1>2. CASE ServeWatchdog
  BY <1>2, WatchdogServe
<1>3. CASE HealthDuty /\ ~ServeWatchdog
  BY <1>3, DutyStepOps, OtherDutiesWatchdog, WatchdogKept DEF IInv
<1>4. CASE Register("health")
  <2>1. Head(work["health"]) \notin Watchdog
    BY <1>4, HealthRegisterOps DEF Watchdog, WD_High, WD_Low, Duty
  <2> QED
    BY <1>4, <2>1, HealthRegisterOps, WatchdogKept DEF otherFrame, counterVars
<1>5. CASE OtherStep
  BY <1>5, OtherStepFrame, WatchdogElsewhere DEF counterVars
<1>6. CASE UNCHANGED vars
  BY <1>6, WatchdogElsewhere DEF vars, counterVars
<1> QED
  BY <1>1, <1>2, <1>3, <1>4, <1>5, <1>6 DEF Next, HealthStep, OtherStep

\* In every cycle of ten rounds the watchdog sees a falling edge, however long the
\* duties of a round and the retries of its readings are.
THEOREM WatchdogIsServed == Spec => []WatchdogServed
<1>1. Init => WatchdogInv
  <2> SUFFICES ASSUME Init PROVE WatchdogInv
    OBVIOUS
  <2>1. work["health"] = InitHealthMonitoring
    BY DEF Init, Tasks
  <2>2. Voltages(DPU_CHANNELS) \in Seq(Checks)
    BY HealthAssumption, VoltagesTyped
  <2>3. Monitor_DPU_Voltage \in Seq(Checks)
    BY <2>2, SingleChecks, ConcatKeeps DEF Monitor_DPU_Voltage
  <2>4. Monitor_DPU_Voltage \in Seq(Ordinary) /\ SetMode(STAND_BY) \in Seq(Ordinary)
    BY <2>3, OrdinarySets, SettersOrdinary DEF ErrorBits
  <2>5. work["health"] \in Seq(Ordinary)
    BY <2>1, <2>4, ConcatKeeps DEF InitHealthMonitoring
  <2> QED
    BY <2>5 DEF Init, WatchdogInv, RoundsSince, HEALTH_COUNT
<1>2. IInv /\ WatchdogInv /\ [Next]_vars => WatchdogInv'
  BY WatchdogNext
<1>3. IInv /\ WatchdogInv => WatchdogServed
  <2> SUFFICES ASSUME IInv, WatchdogInv PROVE WatchdogServed
    OBVIOUS
  <2>1. health_mon_round \in 0 .. 9 /\ unserved \in Nat
    BY DEF IInv, TypeOK, HEALTH_COUNT
  <2> QED
    BY <2>1 DEF WatchdogInv, WatchdogServed, RoundsSince, HEALTH_COUNT
<1> QED
  BY <1>1, <1>2, <1>3, InvariantInit, InvariantNext, PTL DEF Spec

----------------------------------------------------------------------------
(* Nothing is reported as long as the hardware works *)

\* The duties that check voltages, and the channels they need.
Monitors == {"Monitor_DPU_Voltage", "Monitor_SU_Voltage"}
Needs(duty) ==
  IF duty.op = "Monitor_DPU_Voltage"
  THEN {DPU_CHANNELS[i] : i \in DOMAIN DPU_CHANNELS}
  ELSE LV_CHANNELS[duty.at] \cup HV_CHANNELS

\* Every voltage that a duty checks is within limits, or is measured before it.
Ready(ops, limits) ==
  \A i \in DOMAIN ops : ops[i].op \in Monitors =>
    \A c \in Needs(ops[i]) :
      c \in limits \/ \E j \in 1 .. i - 1 : ops[j] = Duty("StoreVoltage", c)

Simple == {op \in Operations : op.op \notin Monitors}

LEMMA ReadySimple ==
  ASSUME NEW ops \in Seq(Simple), NEW limits
  PROVE  Ready(ops, limits)
BY DEF Ready, Simple

LEMMA ReadyMonitor ==
  ASSUME NEW s \in Seq(Simple), NEW duty \in Operations, NEW limits,
         \A c \in Needs(duty) : \E j \in 1 .. Len(s) : s[j] = Duty("StoreVoltage", c)
  PROVE  Ready(s \o <<duty>>, limits)
<1> DEFINE w == s \o <<duty>>
<1>1. Len(s) \in Nat /\ DOMAIN w = 1 .. Len(s) + 1
  OBVIOUS
<1>2. \A i \in 1 .. Len(s) : w[i] = s[i] /\ w[i].op \notin Monitors
  BY DEF Simple
<1>3. w[Len(s) + 1] = duty
  BY <1>1
<1> HIDE DEF w
<1>4. Ready(w, limits)
  BY <1>1, <1>2, <1>3 DEF Ready
<1> QED
  BY <1>4 DEF w

LEMMA ReadyThenSimple ==
  ASSUME NEW s \in Seq(Operations), NEW r \in Seq(Simple), NEW limits, Ready(s, limits)
  PROVE  Ready(s \o r, limits)
<1> DEFINE w == s \o r
<1>1. Len(s) \in Nat /\ Len(r) \in Nat /\ DOMAIN w = 1 .. Len(s) + Len(r)
  OBVIOUS
<1>2. \A i \in 1 .. Len(s) : w[i] = s[i]
  OBVIOUS
<1>3. \A i \in Len(s) + 1 .. Len(s) + Len(r) : w[i] \in Simple
  BY <1>1
<1> HIDE DEF w
<1>4. Ready(w, limits)
  <2> SUFFICES ASSUME NEW i \in DOMAIN w, w[i].op \in Monitors, NEW c \in Needs(w[i])
               PROVE  c \in limits \/ \E j \in 1 .. i - 1 : w[j] = Duty("StoreVoltage", c)
    BY DEF Ready
  <2>1. i \in 1 .. Len(s)
    BY <1>1, <1>3 DEF Simple
  <2>2. c \in limits \/ \E j \in 1 .. i - 1 : s[j] = Duty("StoreVoltage", c)
    BY <1>2, <2>1 DEF Ready
  <2> QED
    BY <1>1, <1>2, <2>1, <2>2
<1> QED
  BY <1>4 DEF w

\* A step of the work keeps it ready if it stores what it has measured.
LEMMA ReadyTail ==
  ASSUME NEW w \in Seq(Operations), w # <<>>, NEW limits, NEW limits2, Ready(w, limits),
         limits \subseteq limits2,
         \A c : Head(w) = Duty("StoreVoltage", c) => c \in limits2
  PROVE  Ready(Tail(w), limits2)
<1> DEFINE r == Tail(w)
<1>1. Len(w) \in Nat /\ Len(w) > 0 /\ DOMAIN r = 1 .. Len(w) - 1
  OBVIOUS
<1>2. \A i \in 1 .. Len(w) - 1 : r[i] = w[i + 1]
  OBVIOUS
<1>3. Head(w) = w[1]
  BY <1>1
<1> HIDE DEF r
<1>4. Ready(r, limits2)
  <2> SUFFICES ASSUME NEW i \in DOMAIN r, r[i].op \in Monitors, NEW c \in Needs(r[i])
               PROVE  c \in limits2 \/ \E j \in 1 .. i - 1 : r[j] = Duty("StoreVoltage", c)
    BY DEF Ready
  <2>1. i + 1 \in DOMAIN w /\ r[i] = w[i + 1] /\ i \in 1 .. Len(w) - 1
    BY <1>1, <1>2
  <2>2. c \in limits \/ \E j \in 1 .. i : w[j] = Duty("StoreVoltage", c)
    BY <2>1 DEF Ready
  <2>3. ASSUME NEW j \in 1 .. i, w[j] = Duty("StoreVoltage", c)
        PROVE  c \in limits2 \/ \E k \in 1 .. i - 1 : r[k] = Duty("StoreVoltage", c)
    <3>1. CASE j = 1
      BY <1>3, <2>3, <3>1
    <3>2. CASE j # 1
      <4>1. j - 1 \in 1 .. i - 1 /\ r[j - 1] = w[j]
        BY <1>2, <2>1, <3>2
      <4> QED
        BY <2>3, <4>1
    <3> QED
      BY <3>1, <3>2
  <2> QED
    BY <2>2, <2>3
<1> QED
  BY <1>4 DEF r

LEMMA ReadyHead ==
  ASSUME NEW w \in Seq(Operations), w # <<>>, NEW limits, Ready(w, limits),
         Head(w).op \in Monitors
  PROVE  Needs(Head(w)) \subseteq limits
<1>1. 1 \in DOMAIN w /\ Head(w) = w[1]
  OBVIOUS
<1> QED
  BY <1>1 DEF Ready

\* Measurements and the checks of a round but for a self test check no voltages.
LEMMA SimpleSets ==
  /\ Updates \subseteq Simple /\ Watchdog \subseteq Simple
  /\ \A u \in SUs : /\ Duty("StoreTemperature", u) \in Simple
                    /\ Duty("HighVoltageCurrent", u) \in Simple
  /\ \A c \in Channels : Duty("StoreVoltage", c) \in Simple
  /\ \A op \in {"Read_AD_Channel", "LowVoltageCurrent", "EndSelfTest", "NewPeriod"} :
       Duty(op, 0) \in Simple
<1>1. Updates \subseteq Simple
  BY DutySets DEF Simple, Updates, Monitors
<1>2. Watchdog \subseteq Simple
  BY DutySets DEF Simple, Watchdog, WD_High, WD_Low, Duty, Monitors
<1>3. \A u \in SUs : /\ Duty("StoreTemperature", u) \in UnitDuties
                     /\ Duty("HighVoltageCurrent", u) \in UnitDuties
  BY DEF Duty, UnitDuties
<1>4. \A c \in Channels : Duty("StoreVoltage", c) \in ChannelDuties
  BY DEF Duty, ChannelDuties
<1>5. \A op \in {"Read_AD_Channel", "LowVoltageCurrent", "EndSelfTest", "NewPeriod"} :
        Duty(op, 0) \in PlainDuties
  BY DEF Duty, PlainDuties
<1>6. \A op, n : Duty(op, n).op = op
  BY DEF Duty
<1> QED
  BY <1>1, <1>2, <1>3, <1>4, <1>5, <1>6 DEF Simple, Operations, Duties, Monitors

LEMMA TemperaturesSimple ==
  ASSUME NEW u \in SUs
  PROVE  MeasureTemperature(u) \in Seq(Simple)
<1>1. 2 * NUM_TEMP \in Nat
  BY HealthAssumption
<1> QED
  BY <1>1, SimpleSets DEF MeasureTemperature, Temperatures

LEMMA VoltagesSimple ==
  ASSUME NEW channels \in Seq(Channels)
  PROVE  /\ Voltages(channels) \in Seq(Simple)
         /\ \A i \in DOMAIN channels : \E j \in 1 .. Len(Voltages(channels)) :
              Voltages(channels)[j] = Duty("StoreVoltage", channels[i])
<1>1. 2 * Len(channels) \in Nat /\ Len(channels) \in Nat /\ DOMAIN channels = 1 .. Len(channels)
  OBVIOUS
<1>2. ASSUME NEW i \in 1 .. 2 * Len(channels), i % 2 # 1
      PROVE  channels[i \div 2] \in Channels
  <2>1. i \div 2 \in 1 .. Len(channels)
    BY <1>1, <1>2
  <2> QED
    BY <2>1, ElementOfSeq
<1>3. \A i \in 1 .. 2 * Len(channels) :
        (IF i % 2 = 1 THEN Duty("Read_AD_Channel", 0)
                      ELSE Duty("StoreVoltage", channels[i \div 2])) \in Simple
  BY <1>2, SimpleSets
<1>4. Voltages(channels) \in Seq(Simple) /\ Len(Voltages(channels)) = 2 * Len(channels)
  BY <1>1, <1>3 DEF Voltages
<1>5. ASSUME NEW i \in 1 .. Len(channels)
      PROVE  /\ 2 * i \in 1 .. 2 * Len(channels)
             /\ Voltages(channels)[2 * i] = Duty("StoreVoltage", channels[i])
  <2>1. 2 * i \in 1 .. 2 * Len(channels) /\ (2 * i) % 2 = 0 /\ (2 * i) \div 2 = i
    BY <1>1
  <2> QED
    BY <2>1 DEF Voltages
<1> QED
  BY <1>1, <1>4, <1>5

LEMMA MonitorsTyped ==
  /\ Duty("Monitor_DPU_Voltage", 0) \in Operations
  /\ \A u \in SUs : Duty("Monitor_SU_Voltage", u) \in Operations
<1>1. Duty("Monitor_DPU_Voltage", 0) \in PlainDuties
  BY DEF Duty, PlainDuties
<1>2. \A u \in SUs : Duty("Monitor_SU_Voltage", u) \in UnitDuties
  BY DEF Duty, UnitDuties
<1> QED
  BY <1>1, <1>2 DEF Duties, Operations

\* The initial duties measure the voltages before they check them.
LEMMA InitReady ==
  ASSUME NEW limits
  PROVE  Ready(InitHealthMonitoring, limits)
<1> DEFINE s == Voltages(DPU_CHANNELS)
<1>1. s \in Seq(Simple)
  BY HealthAssumption, VoltagesSimple
<1>2. \A c \in Needs(Duty("Monitor_DPU_Voltage", 0)) :
        \E j \in 1 .. Len(s) : s[j] = Duty("StoreVoltage", c)
  BY HealthAssumption, VoltagesSimple DEF Needs, Duty
<1> HIDE DEF s
<1>3. Ready(s \o <<Duty("Monitor_DPU_Voltage", 0)>>, limits)
  BY <1>1, <1>2, MonitorsTyped, ReadyMonitor
<1>4. s \o <<Duty("Monitor_DPU_Voltage", 0)>> \in Seq(Operations)
  <2>1. s \in Seq(Operations)
    BY <1>1 DEF Simple
  <2> QED
    BY <2>1, MonitorsTyped
<1>5. SetMode(STAND_BY) \in Seq(Simple)
  <2>1. SetMode(STAND_BY) \in Seq(Updates)
    BY SettersTyped, ErrorBitsTyped DEF ErrorBits
  <2> QED
    BY <2>1, SimpleSets
<1> QED
  BY <1>3, <1>4, <1>5, ReadyThenSimple DEF InitHealthMonitoring, Monitor_DPU_Voltage, s

\* So do those of a self test.
LEMMA SelfTestReady ==
  ASSUME NEW u \in SUs, NEW limits
  PROVE  Ready(SelfTest_SU(u), limits)
<1> DEFINE all == [i \in 1 .. NUM_CHANNELS |-> i - 1]
           first == LowVoltageCurrent \o HighVoltageCurrent(u)
           v == Voltages(all)
           s == first \o v
<1>1. /\ all \in Seq(Channels) /\ DOMAIN all = 1 .. NUM_CHANNELS
      /\ \A c \in Channels : c + 1 \in DOMAIN all /\ all[c + 1] = c
  BY HealthAssumption
<1> HIDE DEF all
<1>2. /\ v \in Seq(Simple)
      /\ \A c \in Channels : \E j \in 1 .. Len(v) : v[j] = Duty("StoreVoltage", c)
  BY <1>1, VoltagesSimple
<1>3. first \in Seq(Simple)
  BY SimpleSets DEF LowVoltageCurrent, HighVoltageCurrent
<1> HIDE DEF first, v
<1>4. s \in Seq(Simple)
  BY <1>2, <1>3
<1>5. \A c \in Channels : \E j \in 1 .. Len(s) : s[j] = Duty("StoreVoltage", c)
  <2> SUFFICES ASSUME NEW c \in Channels
               PROVE  \E j \in 1 .. Len(s) : s[j] = Duty("StoreVoltage", c)
    OBVIOUS
  <2>1. PICK j \in 1 .. Len(v) : v[j] = Duty("StoreVoltage", c)
    BY <1>2
  <2>2. Len(first) + j \in 1 .. Len(s) /\ s[Len(first) + j] = v[j]
    BY <1>2, <1>3
  <2> QED
    BY <2>1, <2>2
<1> HIDE DEF s
<1>6. Needs(Duty("Monitor_SU_Voltage", u)) \subseteq Channels
  BY HealthAssumption DEF Needs, Duty
<1>7. Ready(s \o <<Duty("Monitor_SU_Voltage", u)>>, limits)
  BY <1>4, <1>5, <1>6, MonitorsTyped, ReadyMonitor
<1>8. s \o <<Duty("Monitor_SU_Voltage", u)>> \in Seq(Operations)
  <2>1. s \in Seq(Operations)
    BY <1>4 DEF Simple
  <2> QED
    BY <2>1, MonitorsTyped
<1>9. Ready(s \o <<Duty("Monitor_SU_Voltage", u)>> \o MeasureTemperature(u), limits)
  BY <1>7, <1>8, TemperaturesSimple, ReadyThenSimple
<1> QED
  BY <1>9 DEF SelfTest_SU, s, first, v, all

LEMMA RoundReady ==
  ASSUME CountersOK, NEW limits
  PROVE  Ready(RoundDuties, limits)
<1> USE NumSUAssumption, HealthAssumption DEF CountersOK, HEALTH_COUNT
<1>1. CASE health_mon_round = 7 /\ self_test_SU # NO_SU
  <2>1. RoundDuties = SelfTest_SU(self_test_SU) /\ self_test_SU \in SUs
    BY <1>1 DEF RoundDuties
  <2> QED
    BY <2>1, SelfTestReady
<1>2. CASE ~(health_mon_round = 7 /\ self_test_SU # NO_SU)
  <2>1. RoundDuties \in Seq(Simple)
    <3>1. CASE health_mon_round = 0
      <4>1. RoundDuties = HighVoltageCurrent(0) \o <<Duty("NewPeriod", 0)>> /\ 0 \in SUs
        BY <3>1, SMTT(60) DEF RoundDuties
      <4>2. HighVoltageCurrent(0) \in Seq(Simple) /\ <<Duty("NewPeriod", 0)>> \in Seq(Simple)
        BY <4>1, SimpleSets DEF HighVoltageCurrent
      <4> QED
        BY <4>1, <4>2, ConcatKeeps
    <3>2. CASE health_mon_round \in SUs \ {0}
      <4>1. health_mon_round \notin {0, 4, 5, 6, 7, 8, 9} /\ health_mon_round \in SUs
        BY <3>2
      <4> HIDE DEF SUs, CountersOK
      <4>2. RoundDuties = HighVoltageCurrent(health_mon_round)
        BY ONLY <3>2, <4>1 DEF RoundDuties
      <4> QED
        BY <4>1, <4>2, SimpleSets DEF HighVoltageCurrent
    <3>3. CASE health_mon_round = 4
      BY <3>3, SimpleSets DEF RoundDuties, LowVoltageCurrent
    <3>4. CASE health_mon_round = 5
      <4>1. voltage_meas_count < NUM_CHANNELS => voltage_meas_count \in Channels
        OBVIOUS
      <4>2. voltage_meas_count < NUM_CHANNELS => MeasureVoltage(voltage_meas_count) \in Seq(Simple)
        BY <4>1, SimpleSets DEF MeasureVoltage
      <4> QED
        BY <3>4, <4>2, SMTT(60) DEF RoundDuties
    <3>5. CASE health_mon_round = 6 \/ health_mon_round = 7
      <4>1. RoundDuties \in {<<Duty("EndSelfTest", 0)>>, <<>>}
        <5>1. health_mon_round \notin SUs \ {0}
          BY <3>5
        <5> HIDE DEF SUs, CountersOK
        <5> QED
          BY ONLY <1>2, <3>5, <5>1 DEF RoundDuties
      <4>2. <<Duty("EndSelfTest", 0)>> \in Seq(Simple) /\ <<>> \in Seq(Simple)
        BY SimpleSets
      <4> QED
        BY <4>1, <4>2
    <3>6. CASE health_mon_round = 8
      BY <3>6, SimpleSets, RoundDutiesTyped DEF Watchdog
    <3>7. CASE health_mon_round = 9
      <4>1. <<WD_Low>> \in Seq(Simple)
        BY SimpleSets DEF Watchdog
      <4>2. CASE temp_meas_count < NUM_SU
        <5>1. temp_meas_count \in SUs
          BY <4>2
        <5>2. RoundDuties = MeasureTemperature(temp_meas_count) \o <<WD_Low>>
          BY <3>7, <4>2, SMTT(60) DEF RoundDuties, WD_Low
        <5> QED
          BY <4>1, <5>1, <5>2, TemperaturesSimple, ConcatKeeps
      <4>3. CASE ~(temp_meas_count < NUM_SU)
        <5>1. RoundDuties = <<>> \o <<WD_Low>>
          BY <3>7, <4>3 DEF RoundDuties, WD_Low
        <5>2. <<>> \in Seq(Simple)
          OBVIOUS
        <5> QED
          BY <4>1, <5>1, <5>2, ConcatKeeps
      <4> QED
        BY <4>2, <4>3
    <3>8. CASE health_mon_round \in 1 .. 3 /\ health_mon_round \notin SUs
      <4>1. health_mon_round \notin {0, 4, 5, 6, 7, 8, 9} /\ health_mon_round \notin SUs \ {0}
        BY <3>8
      <4> HIDE DEF SUs, CountersOK
      <4>2. RoundDuties = <<>>
        BY ONLY <4>1 DEF RoundDuties
      <4> QED
        BY <4>2
    <3> QED
      BY <3>1, <3>2, <3>3, <3>4, <3>5, <3>6, <3>7, <3>8
  <2> QED
    BY <2>1, ReadySimple
<1> QED
  BY <1>1, <1>2

\* Updates that set no bit the property is about.
Harmless(update) ==
  /\ update.register = software_error => update.put = {}
  /\ update.register = mode_status => update.put \cap (ADC_ERROR \cup SUPPLY_ERROR) = {}
  /\ \A u \in SUs : update.register = SU_status(u) => update.put = {}
HarmlessUpdates == {update \in Updates : Harmless(update)}
Calm == HarmlessUpdates \cup Zeros \cup Checks \cup Watchdog

Quiet == failures = 0 /\ ~late_hit

\* A disturbed reading is not yet accepted, others are right.
QuietReading ==
  /\ at = "out" => result = "RESULT_OK" /\ value = "normal"
  /\ at \in {"decide", "judge"} => taken \/ (result = "RESULT_OK" /\ value = "normal")

NothingReported ==
  /\ telemetry[software_error] = {}
  /\ telemetry[mode_status] \cap (ADC_ERROR \cup SUPPLY_ERROR) = {}
  /\ \A u \in SUs : telemetry[SU_status(u)] = {}

CalmWork == \A t \in Tasks : work[t] \in Seq(Calm)

QuietInv ==
  Quiet =>
    /\ QuietReading /\ CalmWork
    /\ Ready(work["health"], in_limits)
    /\ switched_off = {}
    /\ NothingReported

\* Failures and late hits are counted for ever.
LEMMA QuietBack ==
  ASSUME IInv, [Next]_vars, Quiet'
  PROVE  Quiet /\ UNCHANGED failures
<1>1. failures \in Nat
  BY TypeParts DEF IInv, ValuesOK
<1>2. UNCHANGED failures \/ Failure
  <2>1. CASE HealthDuty
    BY <2>1
       DEF HealthDuty, NewPeriod, ServeWatchdog, SetWatchdog, Read_AD_Channel, ClearHit,
           SelectChannel, Convert_AD, DecideRetry, EndReading, StoreResult, StoreTemperature,
           StoreVoltage, EndMeasurement, SetSensorUnitOff, CheckHighVoltage, CheckLowVoltage,
           LowVoltageFailure, MonitorVoltages, EndSelfTest, NoFailure
  <2>2. CASE HandleHealthMonitoring \/ HandleHitTrigger \/ \E t \in Tasks : Register(t)
    BY <2>2 DEF HandleHealthMonitoring, HandleHitTrigger, Register
  <2>3. CASE Telecommand \/ ConverterFailedMail \/ TC_Interrupt
    BY <2>3 DEF Telecommand, ConverterFailedMail, TC_Interrupt
  <2>4. CASE UNCHANGED vars
    BY <2>4 DEF vars
  <2> QED
    BY <2>1, <2>2, <2>3, <2>4 DEF Next, HealthStep, Tasks
<1>3. UNCHANGED failures
  BY <1>1, <1>2 DEF Quiet, Failure
<1>4. ~late_hit
  <2>1. CASE HealthDuty
    BY <2>1
       DEF Quiet, HealthDuty, NewPeriod, ServeWatchdog, SetWatchdog, Read_AD_Channel, ClearHit,
           SelectChannel, Convert_AD, DecideRetry, EndReading, StoreResult, StoreTemperature,
           StoreVoltage, EndMeasurement, SetSensorUnitOff, CheckHighVoltage, CheckLowVoltage,
           LowVoltageFailure, MonitorVoltages, EndSelfTest, CheckFrame, readVars
  <2>2. CASE HandleHealthMonitoring \/ \E t \in Tasks : Register(t)
    BY <2>2 DEF Quiet, HandleHealthMonitoring, Register, otherFrame, readVars
  <2>3. CASE HandleHitTrigger
    <3>1. UNCHANGED late_hit \/ late_hit' = (late_hit \/ at = "judge")
      BY <2>3 DEF HandleHitTrigger, readVars
    <3> QED
      BY <3>1, Zenon DEF Quiet
  <2>4. CASE Telecommand \/ ConverterFailedMail \/ TC_Interrupt
    BY <2>4 DEF Quiet, Telecommand, ConverterFailedMail, TC_Interrupt, otherFrame, readVars
  <2>5. CASE UNCHANGED vars
    BY <2>5 DEF Quiet, vars, readVars
  <2> QED
    BY <2>1, <2>2, <2>3, <2>4, <2>5 DEF Next, HealthStep, Tasks
<1> QED
  BY <1>3, <1>4 DEF Quiet

\* The readings of a quiet system.
LEMMA QuietReadStep ==
  ASSUME IInv, Quiet, Quiet', UNCHANGED failures, QuietReading, Read_AD_Channel
  PROVE  /\ QuietReading'
         /\ UNCHANGED work \/ Then("health", <<>>)
         /\ UNCHANGED <<in_limits, switched_off>>
<1>0. ReadInv /\ ReadOK /\ failures = 0 /\ hit_budget_left \in Nat
  BY TypeParts, HealthAssumption DEF IInv, Quiet, ValuesOK
<1> USE <1>0 DEF QuietReading
<1>1. UNCHANGED <<in_limits, switched_off>>
  BY DEF Read_AD_Channel, ClearHit, SelectChannel, Convert_AD, DecideRetry, EndReading,
         readFrame, unitVars
<1>2. CASE ClearHit \/ SelectChannel
  BY <1>1, <1>2 DEF ClearHit, SelectChannel
<1>3. CASE Convert_AD
  <2>1. ~Failure
    BY DEF Failure
  <2>2. taken \/ (result' = "RESULT_OK" /\ value' = "normal")
    BY <1>3, <2>1 DEF Convert_AD
  <2> QED
    BY <1>1, <1>3, <2>2 DEF Convert_AD
<1>4. CASE DecideRetry
  <2>1. at = "decide" /\ UNCHANGED <<work, result, value, taken>>
    BY <1>4 DEF DecideRetry, Reading
  <2>2. at' \in {"judge", "clear"}
    BY <1>4 DEF DecideRetry
  <2> QED
    BY <1>1, <2>1, <2>2
<1>5. CASE EndReading
  <2>1. at = "judge" /\ at' = "out"
    BY <1>5 DEF EndReading, Reading
  <2>2. confirm_hit_result = 0 /\ ~taken
    BY <2>1 DEF Quiet, ReadInv
  <2>3. UNCHANGED <<result, value>> /\ result = "RESULT_OK" /\ value = "normal"
    BY <1>5, <2>1, <2>2 DEF EndReading, Judge
  <2>4. Then("health", <<>>)
    BY <1>5, <2>2, <2>3 DEF EndReading, Judge
  <2> QED
    BY <1>1, <2>1, <2>3, <2>4
<1> QED
  BY <1>2, <1>3, <1>4, <1>5 DEF Read_AD_Channel

\* Calm work has no duty that switches off.
LEMMA CalmHead ==
  ASSUME CalmWork, NEW t \in Tasks, work[t] # <<>>
  PROVE  /\ Head(work[t]) \in Calm
         /\ Head(work[t]).op \notin {"SetSensorUnitOff", "LowVoltageFailure"}
         /\ Head(work[t]).op = "update" => Harmless(Head(work[t]))
<1>1. Head(work[t]) \in Calm
  BY DEF CalmWork
<1> QED
  BY <1>1 DEF Calm, HarmlessUpdates, Updates, Zeros, Checks, ChannelDuties, Watchdog, WD_High, WD_Low,
              Duty

LEMMA EmptyConcat == <<>> \o <<>> = <<>>
OBVIOUS

\* The other duties of a quiet system are over at once.
LEMMA QuietDutyStep ==
  ASSUME IInv, Quiet, UNCHANGED failures, QuietInv, HealthDuty, ~Read_AD_Channel
  PROVE  /\ QuietReading'
         /\ Then("health", <<>>)
         /\ in_limits \subseteq in_limits'
         /\ \A c : Head(work["health"]) = Duty("StoreVoltage", c) => c \in in_limits'
         /\ UNCHANGED switched_off
<1>1. /\ QuietReading /\ CalmWork /\ Ready(work["health"], in_limits)
      /\ switched_off = {} /\ failures = 0
  BY DEF QuietInv, Quiet
<1>2. /\ work["health"] # <<>> /\ work["health"] \in Seq(Operations)
      /\ work \in [Tasks -> Seq(Operations)]
  BY DutyIsNoUpdate DEF IInv, TypeOK, Runs, Tasks
<1>3. at = "out" /\ result = "RESULT_OK" /\ value = "normal"
  BY <1>1, OtherDutyFrame, NotReading DEF IInv, QuietReading
<1>4. QuietReading'
  BY <1>3, OtherDutyFrame DEF QuietReading, readVars, EndMeasurement
<1>5. Head(work["health"]).op \notin {"SetSensorUnitOff", "LowVoltageFailure"}
  BY <1>1, <1>2, CalmHead DEF Tasks
<1>6. ~Failure
  BY <1>1 DEF Failure
<1>7. \A c : Duty("StoreVoltage", c).op = "StoreVoltage" /\ Duty("StoreVoltage", c).at = c
  BY DEF Duty
<1>8. CASE NewPeriod \/ ServeWatchdog \/ EndSelfTest
  BY <1>4, <1>7, <1>8
     DEF NewPeriod, ServeWatchdog, SetWatchdog, EndSelfTest, unitVars, Doing
<1>9. CASE StoreResult
  <2> DEFINE n == Head(work["health"]).at
  <2>1. CASE Doing("health", "StoreTemperature") /\ StoreTemperature(n)
    BY <1>3, <1>4, <1>7, <2>1, EmptyConcat DEF StoreTemperature, unitVars, Doing
  <2>2. CASE Doing("health", "StoreVoltage") /\ StoreVoltage(n)
    BY <1>3, <1>4, <1>7, <2>2 DEF StoreVoltage
  <2> QED
    BY <1>9, <2>1, <2>2 DEF StoreResult
<1>10. CASE SetSensorUnitOff \/ LowVoltageFailure
  BY <1>5, <1>10 DEF SetSensorUnitOff, LowVoltageFailure, Doing
<1>11. CASE CheckHighVoltage \/ CheckLowVoltage
  BY <1>4, <1>6, <1>7, <1>11 DEF CheckHighVoltage, CheckLowVoltage, CheckFrame, unitVars, Doing
<1>12. CASE MonitorVoltages
  <2>1. CheckFrame
    BY <1>12 DEF MonitorVoltages
  <2>2. Head(work["health"]).op \in Monitors
    BY <1>12 DEF MonitorVoltages, Doing, Monitors
  <2>3. Needs(Head(work["health"])) \subseteq in_limits
    BY <1>1, <1>2, <2>2, ReadyHead
  <2>4. CASE Doing("health", "Monitor_DPU_Voltage")
    <3>1. ~ExceedsLimit({DPU_CHANNELS[i] : i \in DOMAIN DPU_CHANNELS})
      BY <2>3, <2>4 DEF Needs, ExceedsLimit, Doing
    <3>2. Then("health", ErrorIf(ExceedsLimit({DPU_CHANNELS[i] : i \in DOMAIN DPU_CHANNELS}),
                                 SetModeStatusError(SUPPLY_ERROR)))
      BY <1>12, <2>4 DEF MonitorVoltages, Doing
    <3>3. Then("health", <<>>)
      BY <3>1, <3>2 DEF ErrorIf
    <3> QED
      BY <1>4, <1>7, <2>1, <2>2, <3>3 DEF CheckFrame, unitVars, Monitors
  <2>5. CASE Doing("health", "Monitor_SU_Voltage")
    <3> DEFINE u == Head(work["health"]).at
    <3>1. ~ExceedsLimit(LV_CHANNELS[u]) /\ ~ExceedsLimit(HV_CHANNELS)
      BY <2>3, <2>5 DEF Needs, ExceedsLimit, Doing
    <3>2. Monitor_SU_Voltage(u) = <<>> \o <<>>
      BY <3>1 DEF Monitor_SU_Voltage, ErrorIf
    <3>3. Then("health", Monitor_SU_Voltage(u))
      BY <1>12, <2>5 DEF MonitorVoltages, Doing
    <3>4. Then("health", <<>>)
      BY <3>2, <3>3, EmptyConcat
    <3> QED
      BY <1>4, <1>7, <2>1, <2>2, <3>4 DEF CheckFrame, unitVars, Monitors
  <2> QED
    BY <1>12, <2>4, <2>5 DEF MonitorVoltages
<1> QED
  BY <1>8, <1>9, <1>10, <1>11, <1>12 DEF HealthDuty

LEMMA CalmTail ==
  ASSUME CalmWork, NEW t \in Tasks, work[t] # <<>>,
         work'[t] = work[t] \/ work'[t] = Tail(work[t]),
         \A h \in Tasks \ {t} : work'[h] = work[h]
  PROVE  CalmWork'
<1>1. work[t] \in Seq(Calm)
  BY DEF CalmWork
<1>2. Tail(work[t]) \in Seq(Calm)
  BY <1>1
<1> QED
  BY <1>1, <1>2 DEF CalmWork

LEMMA SingletonKeeps == ASSUME NEW S, NEW x \in S PROVE <<x>> \in Seq(S)
OBVIOUS

\* The commands of the TC execution task are harmless.
LEMMA HarmlessCommands == \A ops \in Commands : ops \in Seq(Calm)
<1>1. \A s \in Seq(Zeros) : s \in Seq(Calm)
  BY DEF Calm
<1>2. \A s \in Seq(HarmlessUpdates) : s \in Seq(Calm)
  BY DEF Calm
<1>3. \A r, drop, enable : Harmless(Update(r, drop, {}, enable))
  BY DEF Harmless, Update
<1>4. ClearModeStatusError \in Seq(HarmlessUpdates)
  <2>1. Update(mode_status, Bits \ MODE_BITS_MASK, {}, TRUE) \in Updates
    BY RegistersTyped DEF Update, Updates
  <2>2. Update(mode_status, Bits \ MODE_BITS_MASK, {}, TRUE) \in HarmlessUpdates
    BY <1>3, <2>1 DEF HarmlessUpdates
  <2> QED
    BY <2>2, SingletonKeeps DEF ClearModeStatusError
<1>5. Clear_SU_Error \in Seq(HarmlessUpdates)
  <2>1. \A i \in 1 .. NUM_SU : SU_status(i - 1) \in Registers
    BY NumSUAssumption, RegistersTyped
  <2>2. \A i \in 1 .. NUM_SU :
          Update(SU_status(i - 1), Bits \ SUPPLY_VOLTAGE_MASK, {}, i = NUM_SU) \in Updates
    BY <2>1 DEF Update, Updates
  <2> QED
    BY <1>3, <2>2, NumSUAssumption DEF Clear_SU_Error, HarmlessUpdates
<1>6. ERROR_STATUS_CLEAR \in Seq(Calm)
  <2>1. ClearErrorStatus \o ClearSoftwareError \in Seq(Calm)
    BY <1>1, SettersTyped, ConcatKeeps
  <2>2. ClearErrorStatus \o ClearSoftwareError \o ClearModeStatusError \in Seq(Calm)
    BY <2>1, <1>2, <1>4, ConcatKeeps
  <2> QED
    BY <2>2, <1>2, <1>5, ConcatKeeps DEF ERROR_STATUS_CLEAR
<1>7. Set_TC_Error \in Seq(HarmlessUpdates)
  <2>1. Update(error_status, {}, TC_ERROR, TRUE) \in Updates
    BY RegistersTyped DEF Update, Updates, TC_ERROR, Bits
  <2>2. /\ error_status # software_error /\ error_status # mode_status
        /\ \A u \in SUs : error_status # SU_status(u)
    BY DEF error_status, software_error, mode_status, SU_status
  <2>3. Harmless(Update(error_status, {}, TC_ERROR, TRUE))
    BY <2>2 DEF Harmless, Update
  <2>4. Update(error_status, {}, TC_ERROR, TRUE) \in HarmlessUpdates
    BY <2>1, <2>3 DEF HarmlessUpdates
  <2> QED
    BY <2>4, SingletonKeeps DEF Set_TC_Error
<1>8. ASSUME NEW drop \in SUBSET Bits, NEW put \in SUBSET Bits,
             put \cap (ADC_ERROR \cup SUPPLY_ERROR) = {}
      PROVE  <<Update(mode_status, drop, put, TRUE)>> \in Seq(HarmlessUpdates)
  <2>1. Update(mode_status, drop, put, TRUE) \in Updates
    BY RegistersTyped DEF Update, Updates
  <2>2. mode_status # software_error /\ \A u \in SUs : mode_status # SU_status(u)
    BY DEF software_error, mode_status, SU_status
  <2>3. Harmless(Update(mode_status, drop, put, TRUE))
    BY <1>8, <2>2 DEF Harmless, Update
  <2>4. Update(mode_status, drop, put, TRUE) \in HarmlessUpdates
    BY <2>1, <2>3 DEF HarmlessUpdates
  <2> QED
    BY <2>4, SingletonKeeps
<1>9. SetModeStatusError(MEMORY_WRITE_ERROR) \in Seq(HarmlessUpdates)
  <2>1. /\ MEMORY_WRITE_ERROR \ MODE_BITS_MASK \in SUBSET Bits
        /\ (MEMORY_WRITE_ERROR \ MODE_BITS_MASK) \cap (ADC_ERROR \cup SUPPLY_ERROR) = {}
    BY DEF MEMORY_WRITE_ERROR, MODE_BITS_MASK, ADC_ERROR, SUPPLY_ERROR, Bits
  <2> QED
    BY <1>8, <2>1 DEF SetModeStatusError
<1>10. \A ops \in ModeCommands : ops \in Seq(HarmlessUpdates)
  <2>1. \A mode \in {STAND_BY, ACQUISITION} : SetMode(mode) \in Seq(HarmlessUpdates)
    <3>1. ASSUME NEW mode
          PROVE  /\ mode \cap MODE_BITS_MASK \in SUBSET Bits /\ MODE_BITS_MASK \in SUBSET Bits
                 /\ (mode \cap MODE_BITS_MASK) \cap (ADC_ERROR \cup SUPPLY_ERROR) = {}
      BY DEF MODE_BITS_MASK, ADC_ERROR, SUPPLY_ERROR, Bits
    <3> QED
      BY <1>8, <3>1 DEF SetMode
  <2> QED
    BY <2>1 DEF ModeCommands
<1> QED
  BY <1>2, <1>6, <1>7, <1>9, <1>10 DEF Commands

\* The initial duties and those of a round are calm.
LEMMA CalmRound ==
  ASSUME CountersOK
  PROVE  RoundDuties \in Seq(Calm)
<1>1. \A s \in Seq(Checks) : s \in Seq(Calm)
  BY DEF Calm
<1>2. <<WD_High>> \in Seq(Calm) /\ <<WD_Low>> \in Seq(Calm)
  BY DEF Calm, Watchdog
<1> QED
  BY <1>1, <1>2, RoundDutiesTyped, ConcatKeeps

LEMMA CalmInit == InitHealthMonitoring \in Seq(Calm)
<1>1. Monitor_DPU_Voltage \in Seq(Checks)
  <2>1. Voltages(DPU_CHANNELS) \in Seq(Checks)
    BY HealthAssumption, VoltagesTyped
  <2> QED
    BY <2>1, SingleChecks, ConcatKeeps DEF Monitor_DPU_Voltage
<1>2. SetMode(STAND_BY) \in Seq(Calm)
  <2> DEFINE put == STAND_BY \cap MODE_BITS_MASK
  <2>1. /\ put \in SUBSET Bits /\ MODE_BITS_MASK \in SUBSET Bits
        /\ put \cap (ADC_ERROR \cup SUPPLY_ERROR) = {}
    BY DEF MODE_BITS_MASK, ADC_ERROR, SUPPLY_ERROR, Bits
  <2> HIDE DEF put
  <2>2. mode_status # software_error /\ \A u \in SUs : mode_status # SU_status(u)
    BY DEF software_error, mode_status, SU_status
  <2>3. Harmless(Update(mode_status, MODE_BITS_MASK, put, TRUE))
    BY <2>1, <2>2 DEF Harmless, Update
  <2>4. Update(mode_status, MODE_BITS_MASK, put, TRUE) \in Updates
    BY <2>1, RegistersTyped DEF Update, Updates
  <2>5. Update(mode_status, MODE_BITS_MASK, put, TRUE) \in Calm
    BY <2>3, <2>4 DEF Calm, HarmlessUpdates
  <2> QED
    BY <2>5, SingletonKeeps DEF SetMode, put
<1>3. Monitor_DPU_Voltage \in Seq(Calm)
  BY <1>1 DEF Calm
<1> QED
  BY <1>2, <1>3, ConcatKeeps DEF InitHealthMonitoring

\* A harmless update, of a value that is that of the register, reports nothing.
LEMMA QuietRegisterStep ==
  ASSUME IInv, CopyInv, CalmWork, NothingReported, NEW t \in Tasks, RegisterStep(t)
  PROVE  NothingReported'
<1> DEFINE update == Head(work[t])
           r == update.register
<1>1. telemetry \in [Registers -> SUBSET Bits] /\ work[t] # <<>>
  BY DEF IInv, TypeOK, RegisterTypeOK, RegisterStep, Doing, Runs
<1>2. CASE BeginUpdate(t)
  BY <1>2 DEF BeginUpdate, NothingReported
<1>3. CASE Doing(t, "update") /\ copy[t] # NoCopy /\ EndUpdate(t)
  <2>1. Harmless(update)
    BY <1>1, <1>3, CalmHead DEF Doing
  <2>2. copy[t] = telemetry[r]
    BY <1>3 DEF CopyInv
  <2>3. telemetry' = [telemetry EXCEPT ![r] = (telemetry[r] \ update.drop) \cup update.put]
    BY <1>3, <2>2 DEF EndUpdate, After
  <2>4. ASSUME NEW q \in Registers
        PROVE  \/ telemetry'[q] = telemetry[q]
               \/ q = r /\ telemetry'[q] \subseteq telemetry[q] \cup update.put
    BY <1>1, <2>3
  <2>5. telemetry'[software_error] = {}
    BY <2>1, <2>4, RegistersTyped DEF Harmless, NothingReported
  <2>6. telemetry'[mode_status] \cap (ADC_ERROR \cup SUPPLY_ERROR) = {}
    BY <2>1, <2>4, RegistersTyped DEF Harmless, NothingReported
  <2>7. \A u \in SUs : telemetry'[SU_status(u)] = {}
    BY <2>1, <2>4, RegistersTyped DEF Harmless, NothingReported
  <2> QED
    BY <2>5, <2>6, <2>7 DEF NothingReported
<1>4. CASE StoreZero(t)
  <2>1. \A q \in Registers : telemetry'[q] \subseteq telemetry[q]
    BY <1>1, <1>4 DEF StoreZero
  <2> QED
    BY <2>1, RegistersTyped DEF NothingReported
<1> QED
  BY <1>2, <1>3, <1>4 DEF RegisterStep

LEMMA QuietNext ==
  ASSUME IInv, CopyInv, QuietInv, [Next]_vars
  PROVE  QuietInv'
<1> SUFFICES ASSUME Quiet'
             PROVE  /\ QuietReading' /\ CalmWork'
                    /\ Ready(work["health"], in_limits)'
                    /\ switched_off' = {}
                    /\ NothingReported'
  BY DEF QuietInv
<1>1. Quiet /\ UNCHANGED failures /\ failures = 0
  BY QuietBack DEF Quiet
<1>2. /\ QuietReading /\ CalmWork /\ Ready(work["health"], in_limits)
      /\ switched_off = {} /\ NothingReported
  BY <1>1 DEF QuietInv
<1>3. ~Failure
  BY <1>1 DEF Failure
<1>4. /\ work \in [Tasks -> Seq(Operations)] /\ work["health"] \in Seq(Operations)
      /\ CountersOK
  BY TypeParts DEF IInv, Tasks
<1>5. ASSUME UNCHANGED registerVars PROVE NothingReported'
  BY <1>2, <1>5 DEF NothingReported, registerVars
<1>6. ASSUME Then("health", <<>>), work["health"] # <<>>, in_limits \subseteq in_limits',
             \A c : Head(work["health"]) = Duty("StoreVoltage", c) => c \in in_limits'
      PROVE  CalmWork' /\ Ready(work["health"], in_limits)'
  <2>1. <<>> \o Tail(work["health"]) = Tail(work["health"])
    BY <1>4, <1>6
  <2>2. work' = [work EXCEPT !["health"] = Tail(work["health"])]
    BY <1>6, <2>1 DEF Then
  <2>3. work'["health"] = Tail(work["health"]) /\ \A h \in Tasks \ {"health"} : work'[h] = work[h]
    BY <1>4, <2>2 DEF Tasks
  <2>4. CalmWork'
    BY <1>2, <1>6, <2>3, CalmTail DEF Tasks
  <2>5. Ready(Tail(work["health"]), in_limits')
    BY <1>2, <1>4, <1>6, ReadyTail
  <2>6. Ready(work'["health"], in_limits')
    BY <2>3, <2>5
  <2> QED
    BY <2>4, <2>6 DEF Ready
<1>7. CASE HandleHealthMonitoring
  <2>1. RoundDuties \in Seq(Calm) /\ Ready(RoundDuties, in_limits)
    BY <1>4, CalmRound, RoundReady
  <2>2. work' = [work EXCEPT !["health"] = RoundDuties]
        /\ UNCHANGED <<registerVars, readVars, unitVars>>
    BY <1>7 DEF HandleHealthMonitoring
  <2>3. CalmWork'
    BY <1>2, <1>4, <2>1, <2>2 DEF CalmWork
  <2>4. work'["health"] = RoundDuties /\ UNCHANGED in_limits
    BY <1>4, <2>2 DEF Tasks, unitVars
  <2>5. Ready(work'["health"], in_limits')
    BY <2>1, <2>4
  <2> QED
    BY <1>2, <1>5, <2>2, <2>3, <2>5 DEF QuietReading, readVars, unitVars, Ready
<1>8. CASE HealthDuty
  <2>1. UNCHANGED registerVars
    BY <1>8, DutyRegisters
  <2>2. Runs("health") /\ work["health"] # <<>>
    BY <1>8, DutyIsNoUpdate DEF Runs
  <2>3. CASE Read_AD_Channel
    <3>1. /\ QuietReading' /\ UNCHANGED <<in_limits, switched_off>>
          /\ UNCHANGED work \/ Then("health", <<>>)
      BY <1>1, <1>2, <2>3, QuietReadStep
    <3>2. CASE UNCHANGED work
      BY <1>2, <1>5, <2>1, <3>1, <3>2 DEF CalmWork, Ready
    <3>3. CASE Then("health", <<>>)
      <4>1. Head(work["health"]).op = "Read_AD_Channel"
        BY <2>3 DEF Read_AD_Channel, ClearHit, SelectChannel, Convert_AD, DecideRetry,
                    EndReading, Reading, Doing
      <4>2. \A c : Head(work["health"]) # Duty("StoreVoltage", c)
        BY <4>1 DEF Duty
      <4> QED
        BY <1>2, <1>5, <1>6, <2>1, <2>2, <3>1, <3>3, <4>2
    <3> QED
      BY <3>1, <3>2, <3>3
  <2>4. CASE ~Read_AD_Channel
    BY <1>1, <1>2, <1>5, <1>6, <1>8, <2>1, <2>2, <2>4, QuietDutyStep
  <2> QED
    BY <2>3, <2>4
<1>9. ASSUME NEW t \in Tasks, Register(t)
      PROVE  /\ QuietReading' /\ CalmWork'
             /\ Ready(work["health"], in_limits)'
             /\ switched_off' = {}
             /\ NothingReported'
  <2>1. RegisterStep(t) /\ UNCHANGED <<readVars, in_limits, switched_off>>
    BY <1>9 DEF Register, otherFrame
  <2>2. /\ work[t] # <<>> /\ Head(work[t]).op \in {"update", "zero"}
        /\ work'[t] = work[t] \/ work'[t] = Tail(work[t])
        /\ \A h \in Tasks \ {t} : work'[h] = work[h]
    BY <2>1, RegisterWork DEF IInv
  <2>3. NothingReported'
    BY <1>2, <2>1, QuietRegisterStep
  <2>4. CalmWork'
    BY <1>2, <2>2, CalmTail
  <2>5. Ready(work'["health"], in_limits')
    <3>1. CASE work'["health"] = work["health"]
      BY <1>2, <2>1, <3>1
    <3>2. CASE work'["health"] # work["health"]
      <4>1. t = "health" /\ work'["health"] = Tail(work["health"])
        BY <2>2, <3>2 DEF Tasks
      <4>2. \A c : Head(work["health"]) # Duty("StoreVoltage", c)
        BY <2>2, <4>1 DEF Duty
      <4> QED
        BY <1>2, <1>4, <2>1, <2>2, <4>1, <4>2, ReadyTail
    <3> QED
      BY <3>1, <3>2
  <2> QED
    BY <1>2, <2>1, <2>3, <2>4, <2>5 DEF QuietReading, readVars, Ready
<1>10. CASE HandleHitTrigger
  <2>1. UNCHANGED <<registerVars, work, unitVars>>
    BY <1>10 DEF HandleHitTrigger
  <2>2. QuietReading'
    <3>1. UNCHANGED readVars \/ /\ UNCHANGED <<at, result, value>>
                                /\ taken' = (taken \/ at # "out")
      BY <1>10 DEF HandleHitTrigger
    <3>2. CASE UNCHANGED readVars
      BY <1>2, <3>2 DEF QuietReading, readVars
    <3>3. CASE UNCHANGED <<at, result, value>> /\ taken' = (taken \/ at # "out")
      <4>1. at # "out" => taken'
        BY <3>3, Zenon
      <4> QED
        BY <1>2, <3>3, <4>1 DEF QuietReading
    <3> QED
      BY <3>1, <3>2, <3>3
  <2> QED
    BY <1>2, <1>5, <2>1, <2>2 DEF CalmWork, Ready, unitVars
<1>11. CASE Telecommand
  <2>1. UNCHANGED readVars /\ UNCHANGED in_limits
    BY <1>11 DEF Telecommand, otherFrame
  <2>2. UNCHANGED registerVars /\ switched_off' = {}
    BY <1>2, <1>11 DEF Telecommand, Begins
  <2>3. CalmWork' /\ UNCHANGED work["health"]
    <3>1. CASE UNCHANGED work
      BY <1>2, <3>1 DEF CalmWork
    <3>2. CASE \E ops \in Commands : Begins("tc", ops)
      <4>1. PICK ops \in Commands : work' = [work EXCEPT !["tc"] = ops]
        BY <3>2 DEF Begins
      <4>2. ops \in Seq(Calm)
        BY HarmlessCommands
      <4> QED
        BY <1>2, <1>4, <4>1, <4>2 DEF CalmWork, Tasks
    <3> QED
      BY <1>11, <3>1, <3>2 DEF Telecommand
  <2> QED
    BY <1>2, <1>5, <2>1, <2>2, <2>3 DEF QuietReading, readVars, Ready
<1>12. CASE ConverterFailedMail
  BY <1>3, <1>12 DEF ConverterFailedMail
<1>13. CASE TC_Interrupt
  <2>1. /\ UNCHANGED <<readVars, in_limits, switched_off, work>>
        /\ telemetry' = [telemetry EXCEPT ![error_status] = @ \cup TC_OR_PARITY_ERROR]
    BY <1>13 DEF TC_Interrupt, TC_InterruptError, otherFrame
  <2>2. telemetry \in [Registers -> SUBSET Bits]
    BY DEF IInv, TypeOK, RegisterTypeOK
  <2>3. /\ error_status # software_error /\ error_status # mode_status
        /\ \A u \in SUs : error_status # SU_status(u)
    BY DEF error_status, software_error, mode_status, SU_status
  <2>4. NothingReported'
    BY <1>2, <2>1, <2>2, <2>3, RegistersTyped DEF NothingReported
  <2> QED
    BY <1>2, <2>1, <2>4 DEF QuietReading, readVars, CalmWork, Ready
<1>14. CASE UNCHANGED vars
  BY <1>2, <1>5, <1>14 DEF vars, readVars, unitVars, QuietReading, CalmWork, Ready
<1> QED
  BY <1>7, <1>8, <1>9, <1>10, <1>11, <1>12, <1>13, <1>14 DEF Next, HealthStep, Tasks

\* As long as the hardware works and no hit falls between the last try of a reading and
\* the test of its flag, hits and commands switch no unit off and report no error.
THEOREM WorkingSystemIsQuiet == Spec => []NoFailureNoError
<1>1. Init => CopyInv
  BY DEF Init, RegisterInit, CopyInv
<1>2. Init => QuietInv
  <2> SUFFICES ASSUME Init PROVE QuietInv
    OBVIOUS
  <2>1. work = [t \in Tasks |-> IF t = "health" THEN InitHealthMonitoring ELSE <<>>]
    BY DEF Init
  <2>2. CalmWork
    <3>1. <<>> \in Seq(Calm)
      OBVIOUS
    <3> QED
      BY <2>1, <3>1, CalmInit DEF CalmWork
  <2>3. work["health"] = InitHealthMonitoring
    BY <2>1 DEF Tasks
  <2>4. Ready(work["health"], in_limits)
    BY <2>3, InitReady
  <2>5. NothingReported
    BY RegistersTyped DEF Init, RegisterInit, NothingReported
  <2> QED
    BY <2>2, <2>4, <2>5 DEF Init, QuietInv, QuietReading
<1>3. IInv /\ CopyInv /\ [Next]_vars => CopyInv'
  BY CopyNext
<1>4. IInv /\ CopyInv /\ QuietInv /\ [Next]_vars => QuietInv'
  BY QuietNext
<1>5. QuietInv => NoFailureNoError
  BY DEF QuietInv, Quiet, NothingReported, NoFailureNoError
<1> QED
  BY <1>1, <1>2, <1>3, <1>4, <1>5, InvariantInit, InvariantNext, PTL DEF Spec

----------------------------------------------------------------------------
(* Failures are reported *)

Changes(op, u) == op.op = "update" /\ op.register = SU_status(u)
Reports(op, u) ==
  op.op = "update" /\ op.register = error_status /\ SU_ERROR(u) \subseteq op.put
Clears(op, u) ==
  Changes(op, u) /\ op.drop = Bits \ SUPPLY_VOLTAGE_MASK /\ op.put = {}

\* In the work of the health task: no status is cleared, an error of a unit is followed
\* at once, with the interrupts still disabled, by its bit of the error status, and a
\* unit that is switched off gets an error later on.
HealthOps(s) ==
  \A i \in DOMAIN s :
    /\ s[i].op # "zero"
    /\ s[i].op = "update" /\ s[i].register = error_status => s[i].drop = {}
    /\ \A u \in SUs : Changes(s[i], u) =>
         /\ s[i].drop = {} /\ s[i].put # {} /\ s[i].put \cap SUPPLY_VOLTAGE_MASK = {}
         /\ ~s[i].enable
         /\ i + 1 \in DOMAIN s /\ Reports(s[i + 1], u)
    /\ s[i].op = "SetSensorUnitOff" =>
         \E j \in DOMAIN s : j > i /\ Changes(s[j], s[i].at)

\* In the work of the TC execution task: the error status is cleared before those of
\* all units are.
TcOps(s) ==
  \A i \in DOMAIN s :
    /\ s[i].op = "zero" => s[i].register \in {error_status, software_error}
    /\ s[i].op = "zero" /\ s[i].register = error_status =>
         \A u \in SUs : \E j \in DOMAIN s : j > i /\ Clears(s[j], u)
    /\ s[i].op = "update" /\ s[i].register = error_status => s[i].drop = {}
    /\ \A u \in SUs : Changes(s[i], u) => Clears(s[i], u)

AcquisitionOps(s) ==
  \A i \in DOMAIN s : s[i].op = "update" /\ s[i].register = mode_status

LEMMA UnitRegisters ==
  ASSUME NEW u \in SUs
  PROVE  /\ SU_status(u) \in Registers
         /\ SU_status(u) \notin {error_status, mode_status, software_error}
         /\ \A v \in SUs : SU_status(u) = SU_status(v) => u = v
BY DEF Registers, SU_status, error_status, mode_status, software_error

LEMMA OtherRegisters ==
  /\ error_status # mode_status /\ error_status # software_error
  /\ mode_status # software_error
BY DEF error_status, mode_status, software_error

LEMMA HealthConcat ==
  ASSUME NEW s \in Seq(Operations), NEW r \in Seq(Operations), HealthOps(s), HealthOps(r)
  PROVE  HealthOps(s \o r)
<1> DEFINE q == s \o r
<1>1. /\ Len(q) = Len(s) + Len(r)
      /\ \A i \in 1 .. Len(s) : q[i] = s[i]
      /\ \A i \in 1 .. Len(r) : q[Len(s) + i] = r[i]
  OBVIOUS
<1>2. /\ Len(s) \in Nat /\ Len(r) \in Nat
      /\ DOMAIN s = 1 .. Len(s) /\ DOMAIN r = 1 .. Len(r) /\ DOMAIN q = 1 .. Len(q)
  OBVIOUS
<1> HIDE DEF q
<1>3. ASSUME NEW i \in DOMAIN q
      PROVE  /\ q[i].op # "zero"
             /\ q[i].op = "update" /\ q[i].register = error_status => q[i].drop = {}
             /\ \A u \in SUs : Changes(q[i], u) =>
                  /\ q[i].drop = {} /\ q[i].put # {}
                  /\ q[i].put \cap SUPPLY_VOLTAGE_MASK = {}
                  /\ ~q[i].enable
                  /\ i + 1 \in DOMAIN q /\ Reports(q[i + 1], u)
             /\ q[i].op = "SetSensorUnitOff" =>
                  \E j \in DOMAIN q : j > i /\ Changes(q[j], q[i].at)
  <2>1. CASE i \in DOMAIN s
    <3>1. q[i] = s[i] /\ \A j \in DOMAIN s : j \in DOMAIN q /\ q[j] = s[j]
      BY <2>1, <1>1, <1>2
    <3> QED
      BY <2>1, <3>1 DEF HealthOps
  <2>2. CASE i \notin DOMAIN s
    <3> DEFINE k == i - Len(s)
    <3>1. k \in DOMAIN r /\ i = Len(s) + k /\ q[i] = r[k]
      BY <2>2, <1>1, <1>2
    <3>2. \A j \in DOMAIN r : Len(s) + j \in DOMAIN q /\ q[Len(s) + j] = r[j]
      BY <1>1, <1>2
    <3>3. k + 1 \in DOMAIN r => i + 1 \in DOMAIN q /\ q[i + 1] = r[k + 1]
      <4>1. Len(s) + (k + 1) = i + 1
        BY <1>2, <3>1
      <4> QED
        BY <4>1, <3>2
    <3>4. \A j \in DOMAIN r : j > k => Len(s) + j > i
      BY <1>2, <3>1
    <3>5. /\ r[k].op # "zero"
          /\ r[k].op = "update" /\ r[k].register = error_status => r[k].drop = {}
          /\ \A u \in SUs : Changes(r[k], u) =>
               /\ r[k].drop = {} /\ r[k].put # {}
               /\ r[k].put \cap SUPPLY_VOLTAGE_MASK = {}
               /\ ~r[k].enable
               /\ k + 1 \in DOMAIN r /\ Reports(r[k + 1], u)
          /\ r[k].op = "SetSensorUnitOff" =>
               \E j \in DOMAIN r : j > k /\ Changes(r[j], r[k].at)
      BY <3>1 DEF HealthOps
    <3> HIDE DEF k
    <3>6. q[i].op = "SetSensorUnitOff" =>
            \E j \in DOMAIN q : j > i /\ Changes(q[j], q[i].at)
      BY <3>1, <3>2, <3>4, <3>5
    <3> QED
      BY <3>1, <3>3, <3>5, <3>6
  <2> QED
    BY <2>1, <2>2
<1> QED
  BY <1>3 DEF HealthOps, q

\* What is left of a sequence when its head is done.
LEMMA TailOf ==
  ASSUME NEW s \in Seq(Operations), s # <<>>
  PROVE  /\ Tail(s) \in Seq(Operations) /\ Head(s) = s[1]
         /\ 1 \in DOMAIN s /\ DOMAIN s \subseteq Nat \ {0}
         /\ \A i \in DOMAIN Tail(s) : i + 1 \in DOMAIN s /\ Tail(s)[i] = s[i + 1]
         /\ \A i \in DOMAIN s : i > 1 => i - 1 \in DOMAIN Tail(s) /\ Tail(s)[i - 1] = s[i]
         /\ \A i \in DOMAIN s : i # 1 => i > 1
<1>1. /\ Tail(s) \in Seq(Operations) /\ Head(s) = s[1] /\ Len(s) \in Nat \ {0}
      /\ DOMAIN s = 1 .. Len(s) /\ DOMAIN Tail(s) = 1 .. Len(s) - 1
      /\ \A i \in 1 .. Len(s) - 1 : Tail(s)[i] = s[i + 1]
  OBVIOUS
<1>2. \A i \in DOMAIN s : i > 1 =>
        i - 1 \in DOMAIN Tail(s) /\ (i - 1) + 1 = i
  BY <1>1
<1>3. \A i \in DOMAIN s : i > 1 => i - 1 \in DOMAIN Tail(s) /\ Tail(s)[i - 1] = s[i]
  BY <1>1, <1>2
<1>4. \A i \in DOMAIN Tail(s) : i + 1 \in DOMAIN s
  BY <1>1
<1>5. \A i \in DOMAIN s : i \in Nat \ {0} /\ (i # 1 => i > 1)
  BY <1>1
<1>6. 1 \in DOMAIN s
  BY <1>1
<1> QED
  BY <1>1, <1>3, <1>4, <1>5, <1>6

LEMMA HealthTail ==
  ASSUME NEW s \in Seq(Operations), s # <<>>, HealthOps(s)
  PROVE  HealthOps(Tail(s))
<1> DEFINE r == Tail(s)
<1>1. /\ \A i \in DOMAIN r : i + 1 \in DOMAIN s /\ r[i] = s[i + 1]
      /\ \A i \in DOMAIN s : i > 1 => i - 1 \in DOMAIN r /\ r[i - 1] = s[i]
      /\ DOMAIN r = 1 .. Len(s) - 1 /\ DOMAIN s = 1 .. Len(s) /\ Len(s) \in Nat
  BY TailOf
<1> HIDE DEF r
<1>2. ASSUME NEW i \in DOMAIN r
      PROVE  /\ r[i].op # "zero"
             /\ r[i].op = "update" /\ r[i].register = error_status => r[i].drop = {}
             /\ \A u \in SUs : Changes(r[i], u) =>
                  /\ r[i].drop = {} /\ r[i].put # {}
                  /\ r[i].put \cap SUPPLY_VOLTAGE_MASK = {}
                  /\ ~r[i].enable
                  /\ i + 1 \in DOMAIN r /\ Reports(r[i + 1], u)
             /\ r[i].op = "SetSensorUnitOff" =>
                  \E j \in DOMAIN r : j > i /\ Changes(r[j], r[i].at)
  <2> DEFINE k == i + 1
  <2>1. k \in DOMAIN s /\ r[i] = s[k]
    BY <1>1
  <2>2. /\ s[k].op # "zero"
        /\ s[k].op = "update" /\ s[k].register = error_status => s[k].drop = {}
        /\ \A u \in SUs : Changes(s[k], u) =>
             /\ s[k].drop = {} /\ s[k].put # {}
             /\ s[k].put \cap SUPPLY_VOLTAGE_MASK = {}
             /\ ~s[k].enable
             /\ k + 1 \in DOMAIN s /\ Reports(s[k + 1], u)
        /\ s[k].op = "SetSensorUnitOff" =>
             \E j \in DOMAIN s : j > k /\ Changes(s[j], s[k].at)
    BY <2>1 DEF HealthOps
  <2>3. k + 1 \in DOMAIN s => i + 1 \in DOMAIN r /\ r[i + 1] = s[k + 1]
    BY <1>1
  <2>4. \A j \in DOMAIN s : j > k => j - 1 \in DOMAIN r /\ j - 1 > i /\ r[j - 1] = s[j]
    BY <1>1
  <2> HIDE DEF k
  <2>5. r[i].op = "SetSensorUnitOff" =>
          \E j \in DOMAIN r : j > i /\ Changes(r[j], r[i].at)
    BY <2>1, <2>2, <2>4
  <2> QED
    BY <2>1, <2>2, <2>3, <2>5
<1> QED
  BY <1>2 DEF HealthOps, r

\* An update of the status of a unit stays pending when the head, another operation, is
\* replaced.
LEMMA ChangeStays ==
  ASSUME NEW s \in Seq(Operations), s # <<>>, NEW ops \in Seq(Operations), NEW u \in SUs,
         NEW i \in DOMAIN s, i > 1, Changes(s[i], u)
  PROVE  \E j \in DOMAIN (ops \o Tail(s)) : Changes((ops \o Tail(s))[j], u)
<1> DEFINE r == Tail(s)
           q == ops \o r
<1>1. i - 1 \in DOMAIN r /\ r[i - 1] = s[i] /\ r \in Seq(Operations)
  BY TailOf
<1> HIDE DEF r
<1>2. /\ DOMAIN q = 1 .. Len(ops) + Len(r) /\ DOMAIN r = 1 .. Len(r)
      /\ Len(ops) \in Nat /\ Len(r) \in Nat
      /\ \A j \in 1 .. Len(r) : q[Len(ops) + j] = r[j]
  BY <1>1
<1> HIDE DEF q
<1>3. Len(ops) + (i - 1) \in DOMAIN q /\ q[Len(ops) + (i - 1)] = s[i]
  BY <1>1, <1>2
<1>4. \E j \in DOMAIN q : Changes(q[j], u)
  BY <1>3
<1> QED
  BY <1>4 DEF q, r

\* Operations that need nothing to follow them.
Apart == {op \in Operations : /\ op.op \notin {"zero", "SetSensorUnitOff"}
                              /\ op.op = "update" => /\ op.drop = {} \/ op.register = mode_status
                                                     /\ \A u \in SUs : ~Changes(op, u)}

LEMMA ApartOps ==
  ASSUME NEW s \in Seq(Apart)
  PROVE  s \in Seq(Operations) /\ HealthOps(s)
<1>1. s \in Seq(Operations)
  BY DEF Apart
<1>2. \A i \in DOMAIN s : s[i] \in Apart
  OBVIOUS
<1> QED
  <2>1. \A i \in DOMAIN s :
          /\ s[i].op # "zero" /\ s[i].op # "SetSensorUnitOff"
          /\ s[i].op = "update" => \/ s[i].drop = {}
                                   \/ s[i].register = mode_status
          /\ \A u \in SUs : ~Changes(s[i], u)
    BY <1>2 DEF Apart, Changes
  <2> QED
    BY <1>1, <2>1, OtherRegisters DEF HealthOps

LEMMA ApartSets ==
  /\ Checks \subseteq Apart /\ Watchdog \subseteq Apart
  /\ \A u \in SUs : Duty("LowVoltageFailure", u) \in Apart
  /\ <<>> \in Seq(Apart)
<1>1. Checks \subseteq Apart
  <2>1. ASSUME NEW op \in Checks PROVE op \in Operations /\ op.op \notin {"zero", "SetSensorUnitOff", "update"}
    BY DutySets DEF Checks, ChannelDuties
  <2> QED
    BY <2>1 DEF Apart
<1>2. Watchdog \subseteq Apart
  <2>1. ASSUME NEW op \in Watchdog PROVE op \in Operations /\ op.op \notin {"zero", "SetSensorUnitOff", "update"}
    BY DutySets DEF Watchdog, WD_High, WD_Low, Duty
  <2> QED
    BY <2>1 DEF Apart
<1>3. ASSUME NEW u \in SUs PROVE Duty("LowVoltageFailure", u) \in Apart
  <2>1. Duty("LowVoltageFailure", u) \in Operations
    BY OrdinarySets DEF Ordinary
  <2>2. Duty("LowVoltageFailure", u).op = "LowVoltageFailure"
    BY DEF Duty
  <2> QED
    BY <2>1, <2>2 DEF Apart
<1> QED
  BY <1>1, <1>2, <1>3

\* The functions that set bits of the other registers.
LEMMA SettersApart ==
  ASSUME NEW bits \in SUBSET Bits
  PROVE  /\ SetErrorStatus(bits) \in Seq(Apart)
         /\ SetSoftwareError(bits) \in Seq(Apart)
         /\ SetModeStatusError(bits) \in Seq(Apart)
         /\ SetMode(bits) \in Seq(Apart)
<1>1. ASSUME NEW r \in {error_status, mode_status, software_error},
             NEW drop \in SUBSET Bits, NEW put \in SUBSET Bits,
             drop = {} \/ r = mode_status
      PROVE  <<Update(r, drop, put, TRUE)>> \in Seq(Apart)
  <2> DEFINE op == Update(r, drop, put, TRUE)
  <2>1. op \in Operations
    BY RegistersTyped, DutySets DEF Update, Updates
  <2>2. op.op = "update" /\ op.register = r /\ op.drop = drop
    BY DEF Update
  <2>3. \A u \in SUs : SU_status(u) # r
    BY UnitRegisters
  <2> HIDE DEF op
  <2>4. op \in Apart
    BY <1>1, <2>1, <2>2, <2>3 DEF Apart, Changes
  <2>5. <<op>> \in Seq(Apart)
    BY <2>4
  <2> QED
    BY <2>5 DEF op
<1>2. /\ bits \ TC_ERROR \in SUBSET Bits /\ bits \ MODE_BITS_MASK \in SUBSET Bits
      /\ bits \cap MODE_BITS_MASK \in SUBSET Bits /\ {} \in SUBSET Bits
      /\ MODE_BITS_MASK \in SUBSET Bits
  <2>1. MODE_BITS_MASK \subseteq Bits
    BY DEF MODE_BITS_MASK, Bits
  <2> QED
    BY <2>1
<1>3. SetErrorStatus(bits) \in Seq(Apart)
  BY <1>1, <1>2 DEF SetErrorStatus
<1>4. SetSoftwareError(bits) \in Seq(Apart)
  BY <1>1 DEF SetSoftwareError
<1>5. SetModeStatusError(bits) \in Seq(Apart)
  BY <1>1, <1>2 DEF SetModeStatusError
<1>6. SetMode(bits) \in Seq(Apart)
  BY <1>1, <1>2 DEF SetMode
<1> QED
  BY <1>3, <1>4, <1>5, <1>6

\* The errors that the duties set for a unit.
UnitErrors ==
  {LV_LIMIT_ERROR, HV_LIMIT_ERROR, TEMPERATURE_ERROR, LV_SUPPLY_ERROR, HV_SUPPLY_ERROR}

LEMMA SetUnitError ==
  ASSUME NEW u \in SUs, NEW error \in UnitErrors
  PROVE  /\ Set_SU_Error(u, error) \in Seq(Operations)
         /\ HealthOps(Set_SU_Error(u, error))
         /\ 1 \in DOMAIN Set_SU_Error(u, error) /\ Changes(Set_SU_Error(u, error)[1], u)
<1> DEFINE first == Update(SU_status(u), {}, error \ SUPPLY_VOLTAGE_MASK, FALSE)
           second == Update(error_status, {}, SU_ERROR(u) \ TC_ERROR, TRUE)
<1>1. /\ error \in SUBSET Bits
      /\ error \ SUPPLY_VOLTAGE_MASK # {}
      /\ (error \ SUPPLY_VOLTAGE_MASK) \cap SUPPLY_VOLTAGE_MASK = {}
  BY DEF UnitErrors, LV_LIMIT_ERROR, HV_LIMIT_ERROR, TEMPERATURE_ERROR, LV_SUPPLY_ERROR,
         HV_SUPPLY_ERROR, SUPPLY_VOLTAGE_MASK, Bits
<1>2. Set_SU_Error(u, error) = <<first>> \o <<second>>
  BY DEF Set_SU_Error, SetErrorStatus
<1>3. Set_SU_Error(u, error) \in Seq(Operations)
  <2>1. Set_SU_Error(u, error) \in Seq(Updates)
    BY <1>1, SettersTyped
  <2> QED
    BY <2>1, DutySets
<1>4. Changes(first, u) /\ first.drop = {} /\ first.put = error \ SUPPLY_VOLTAGE_MASK
      /\ ~first.enable
  BY DEF Update, Changes
<1>5. Reports(second, u) /\ second.drop = {}
  <2>1. SU_ERROR(u) \subseteq SU_ERROR(u) \ TC_ERROR
    BY DEF SU_ERROR, TC_ERROR
  <2> QED
    BY <2>1 DEF Update, Reports
<1>6. \A v \in SUs : Changes(first, v) => v = u
  BY UnitRegisters DEF Update, Changes
<1>7. \A v \in SUs : ~Changes(second, v)
  BY UnitRegisters DEF Update, Changes
<1>8. first.op = "update" /\ second.op = "update"
  BY DEF Update
<1> HIDE DEF first, second
<1> DEFINE s == <<first>> \o <<second>>
<1>9. DOMAIN s = {1, 2} /\ s[1] = first /\ s[2] = second
  <2>1. /\ <<first>> \in Seq({first, second}) /\ <<second>> \in Seq({first, second})
        /\ Len(<<first>>) = 1 /\ Len(<<second>>) = 1
        /\ <<first>>[1] = first /\ <<second>>[1] = second
    OBVIOUS
  <2>2. Len(s) = 2 /\ s[1] = <<first>>[1] /\ s[1 + 1] = <<second>>[1] /\ DOMAIN s = 1 .. 2
    BY <2>1
  <2> QED
    BY <2>1, <2>2
<1> HIDE DEF s
<1>10. HealthOps(s)
  <2>1. /\ s[1].op # "zero" /\ s[2].op # "zero"
        /\ s[1].op # "SetSensorUnitOff" /\ s[2].op # "SetSensorUnitOff"
        /\ s[1].drop = {} /\ s[2].drop = {}
        /\ s[1].put # {} /\ s[1].put \cap SUPPLY_VOLTAGE_MASK = {} /\ ~s[1].enable
        /\ \A v \in SUs : Changes(s[1], v) => Reports(s[2], v)
        /\ \A v \in SUs : ~Changes(s[2], v)
        /\ DOMAIN s = {1, 2}
    BY <1>1, <1>4, <1>5, <1>6, <1>7, <1>8, <1>9
  <2>2. \A v \in SUs : Changes(s[1], v) => 1 + 1 \in DOMAIN s /\ Reports(s[1 + 1], v)
    BY <2>1
  <2>3. \A i \in DOMAIN s : i = 1 \/ i = 2
    BY <2>1
  <2> QED
    BY <2>1, <2>2, <2>3 DEF HealthOps
<1>11. Set_SU_Error(u, error) = s
  BY <1>2 DEF s
<1>12. 1 \in DOMAIN s /\ Changes(s[1], u)
  BY <1>4, <1>9
<1> QED
  BY <1>3, <1>10, <1>11, <1>12

\* A unit is switched off before its error is set.
LEMMA OffFirst ==
  ASSUME NEW u \in SUs, NEW s \in Seq(Operations), HealthOps(s),
         NEW k \in DOMAIN s, Changes(s[k], u)
  PROVE  /\ <<Duty("SetSensorUnitOff", u)>> \o s \in Seq(Operations)
         /\ HealthOps(<<Duty("SetSensorUnitOff", u)>> \o s)
<1> DEFINE off == Duty("SetSensorUnitOff", u)
           q == <<off>> \o s
<1>1. off \in Operations /\ off.op = "SetSensorUnitOff" /\ off.at = u
  BY OrdinarySets DEF Ordinary, Duty
<1> HIDE DEF off
<1>2. /\ q \in Seq(Operations) /\ DOMAIN q = 1 .. Len(s) + 1 /\ q[1] = off
      /\ \A i \in DOMAIN s : i + 1 \in DOMAIN q /\ q[i + 1] = s[i]
      /\ DOMAIN s = 1 .. Len(s) /\ Len(s) \in Nat
  BY <1>1
<1> HIDE DEF q
<1>3. ASSUME NEW i \in DOMAIN q
      PROVE  /\ q[i].op # "zero"
             /\ q[i].op = "update" /\ q[i].register = error_status => q[i].drop = {}
             /\ \A v \in SUs : Changes(q[i], v) =>
                  /\ q[i].drop = {} /\ q[i].put # {}
                  /\ q[i].put \cap SUPPLY_VOLTAGE_MASK = {}
                  /\ ~q[i].enable
                  /\ i + 1 \in DOMAIN q /\ Reports(q[i + 1], v)
             /\ q[i].op = "SetSensorUnitOff" =>
                  \E j \in DOMAIN q : j > i /\ Changes(q[j], q[i].at)
  <2>1. CASE i = 1
    <3>1. k + 1 \in DOMAIN q /\ k + 1 > 1 /\ Changes(q[k + 1], u)
      BY <1>2
    <3> QED
      BY <2>1, <1>1, <1>2, <3>1 DEF Changes
  <2>2. CASE i # 1
    <3> DEFINE m == i - 1
    <3>1. m \in DOMAIN s /\ i = m + 1 /\ q[i] = s[m]
      BY <2>2, <1>2
    <3>2. /\ s[m].op # "zero"
          /\ s[m].op = "update" /\ s[m].register = error_status => s[m].drop = {}
          /\ \A v \in SUs : Changes(s[m], v) =>
               /\ s[m].drop = {} /\ s[m].put # {}
               /\ s[m].put \cap SUPPLY_VOLTAGE_MASK = {}
               /\ ~s[m].enable
               /\ m + 1 \in DOMAIN s /\ Reports(s[m + 1], v)
          /\ s[m].op = "SetSensorUnitOff" =>
               \E j \in DOMAIN s : j > m /\ Changes(s[j], s[m].at)
      BY <3>1 DEF HealthOps
    <3>3. m + 1 \in DOMAIN s => i + 1 \in DOMAIN q /\ q[i + 1] = s[m + 1]
      BY <1>2, <3>1
    <3>4. \A j \in DOMAIN s : j > m => j + 1 > i /\ j + 1 \in DOMAIN q /\ q[j + 1] = s[j]
      BY <1>2, <3>1
    <3> HIDE DEF m
    <3>5. q[i].op = "SetSensorUnitOff" =>
            \E j \in DOMAIN q : j > i /\ Changes(q[j], q[i].at)
      BY <3>1, <3>2, <3>4
    <3> QED
      BY <3>1, <3>2, <3>3, <3>5
  <2> QED
    BY <2>1, <2>2
<1>4. HealthOps(q)
  BY <1>3 DEF HealthOps
<1> QED
  BY <1>2, <1>4 DEF q, off

LEMMA TemperatureFailureOps ==
  ASSUME NEW u \in SUs
  PROVE  TemperatureFailure(u) \in Seq(Operations) /\ HealthOps(TemperatureFailure(u))
<1> DEFINE bit == SetErrorStatus(SU_ERROR(u))
           error == Set_SU_Error(u, TEMPERATURE_ERROR)
           off == <<Duty("SetSensorUnitOff", u)>>
<1>1. bit \in Seq(Operations) /\ HealthOps(bit) /\ Len(bit) = 1
  <2>1. bit \in Seq(Apart)
    BY ErrorBitsTyped, SettersApart
  <2> QED
    BY <2>1, ApartOps DEF SetErrorStatus
<1>2. /\ error \in Seq(Operations) /\ HealthOps(error)
      /\ 1 \in DOMAIN error /\ Changes(error[1], u)
  BY SetUnitError DEF UnitErrors
<1>3. off \in Seq(Operations)
  BY OrdinarySets DEF Ordinary
<1>4. TemperatureFailure(u) = (off \o bit) \o error
  BY DEF TemperatureFailure
<1> HIDE DEF off, bit, error
<1>5. (off \o bit) \o error = off \o (bit \o error)
  BY <1>1, <1>2, <1>3
<1>6. 2 \in DOMAIN (bit \o error) /\ (bit \o error)[2] = error[1]
      /\ bit \o error \in Seq(Operations)
  <2>0. bit \in Seq(Operations) /\ error \in Seq(Operations)
    BY <1>1, <1>2
  <2>1. bit \o error \in Seq(Operations) /\ Len(bit \o error) = Len(bit) + Len(error)
    BY ONLY <2>0
  <2>2. Len(error) \in Nat /\ 1 \in 1 .. Len(error)
    BY <1>2
  <2>3. \A i \in 1 .. Len(error) : (bit \o error)[Len(bit) + i] = error[i]
    BY ONLY <2>0
  <2>4. DOMAIN (bit \o error) = 1 .. 1 + Len(error)
    BY <1>1, <2>1
  <2>5. (bit \o error)[1 + 1] = error[1]
    BY <1>1, <2>2, <2>3
  <2> QED
    BY <2>1, <2>2, <2>4, <2>5
<1>7. HealthOps(bit \o error)
  BY <1>1, <1>2, HealthConcat
<1>8. off \o (bit \o error) \in Seq(Operations) /\ HealthOps(off \o (bit \o error))
  BY <1>2, <1>6, <1>7, OffFirst DEF off
<1> QED
  BY <1>4, <1>5, <1>8

\* A duty leaves the work alone, or puts such operations in the place of its head.
HealthDutyOps ==
  \/ UNCHANGED work
  \/ \E ops \in Seq(Operations) : HealthOps(ops) /\ Then("health", ops)

LEMMA EmptyOps == <<>> \in Seq(Operations) /\ HealthOps(<<>>)
BY ApartSets, ApartOps

LEMMA BothOps ==
  ASSUME NEW s, NEW r, s \in Seq(Operations) /\ HealthOps(s), r \in Seq(Operations) /\ HealthOps(r)
  PROVE  s \o r \in Seq(Operations) /\ HealthOps(s \o r)
BY HealthConcat, ConcatKeeps

LEMMA ReadingOps ==
  ASSUME Read_AD_Channel
  PROVE  HealthDutyOps
<1> USE DEF HealthDutyOps
<1>1. CASE ClearHit \/ SelectChannel \/ Convert_AD \/ DecideRetry
  BY <1>1 DEF ClearHit, SelectChannel, Convert_AD, DecideRetry
<1>2. CASE EndReading
  <2>1. ADC_ERROR \in SUBSET Bits
    BY DEF ADC_ERROR, Bits
  <2>2. SetModeStatusError(ADC_ERROR) \in Seq(Operations)
        /\ HealthOps(SetModeStatusError(ADC_ERROR))
    BY <2>1, SettersApart, ApartOps
  <2> QED
    BY <1>2, <2>2, EmptyOps DEF EndReading, Judge
<1> QED
  BY <1>1, <1>2 DEF Read_AD_Channel

LEMMA StoreOps ==
  ASSUME TypeOK, StoreResult
  PROVE  HealthDutyOps
<1> DEFINE n == Head(work["health"]).at
<1>1. SetSoftwareError(MEASUREMENT_ERROR) \in Seq(Operations)
      /\ HealthOps(SetSoftwareError(MEASUREMENT_ERROR))
  <2>1. MEASUREMENT_ERROR \in SUBSET Bits
    BY DEF MEASUREMENT_ERROR, Bits
  <2> QED
    BY <2>1, SettersApart, ApartOps
<1>2. CASE Doing("health", "StoreTemperature") /\ StoreTemperature(n)
  <2>1. n \in SUs
    BY <1>2, HeadUnit
  <2> DEFINE first == IF value = "bad" THEN TemperatureFailure(n) ELSE <<>>
             second == IF result # "RESULT_OK"
                       THEN SetSoftwareError(MEASUREMENT_ERROR) \o TemperatureFailure(n)
                       ELSE <<>>
  <2>2. TemperatureFailure(n) \in Seq(Operations) /\ HealthOps(TemperatureFailure(n))
    BY <2>1, TemperatureFailureOps
  <2>3. first \in Seq(Operations) /\ HealthOps(first)
    BY <2>2, EmptyOps
  <2>4. second \in Seq(Operations) /\ HealthOps(second)
    BY <2>2, <1>1, EmptyOps, BothOps
  <2>5. Then("health", first \o second)
    BY <1>2 DEF StoreTemperature
  <2> HIDE DEF first, second
  <2>6. first \o second \in Seq(Operations) /\ HealthOps(first \o second)
    BY <2>3, <2>4, BothOps
  <2> QED
    BY <2>5, <2>6 DEF HealthDutyOps
<1>3. CASE Doing("health", "StoreVoltage") /\ StoreVoltage(n)
  BY <1>1, <1>3, EmptyOps DEF StoreVoltage, HealthDutyOps
<1> QED
  BY <1>2, <1>3 DEF StoreResult

LEMMA CurrentOps ==
  ASSUME TypeOK, CheckHighVoltage \/ CheckLowVoltage \/ LowVoltageFailure
  PROVE  HealthDutyOps
<1> DEFINE u == Head(work["health"]).at
<1>1. CASE CheckHighVoltage
  <2>1. u \in SUs
    BY <1>1, HeadUnit DEF CheckHighVoltage
  <2>2. SetErrorStatus(SU_ERROR(u)) \in Seq(Operations)
        /\ HealthOps(SetErrorStatus(SU_ERROR(u)))
    BY <2>1, ErrorBitsTyped, SettersApart, ApartOps
  <2>3. Set_SU_Error(u, HV_SUPPLY_ERROR) \in Seq(Operations)
        /\ HealthOps(Set_SU_Error(u, HV_SUPPLY_ERROR))
    BY <2>1, SetUnitError DEF UnitErrors
  <2> DEFINE ops == SetErrorStatus(SU_ERROR(u)) \o Set_SU_Error(u, HV_SUPPLY_ERROR)
  <2>4. ops \in Seq(Operations) /\ HealthOps(ops)
    BY <2>2, <2>3, BothOps
  <2>5. Then("health", <<>>) \/ Then("health", ops)
    BY <1>1 DEF CheckHighVoltage
  <2> HIDE DEF ops
  <2> QED
    BY <2>4, <2>5, EmptyOps DEF HealthDutyOps
<1>2. CASE CheckLowVoltage
  <2>1. 0 \in SUs
    BY NumSUAssumption
  <2>2. <<Duty("LowVoltageFailure", 0)>> \in Seq(Apart)
    BY <2>1, ApartSets
  <2> QED
    BY <1>2, <2>2, EmptyOps, ApartOps DEF CheckLowVoltage, HealthDutyOps
<1>3. CASE LowVoltageFailure
  <2> DEFINE off == <<Duty("SetSensorUnitOff", u)>>
             error == Set_SU_Error(u, LV_SUPPLY_ERROR)
             rest == IF u + 1 < NUM_SU THEN <<Duty("LowVoltageFailure", u + 1)>>
                                       ELSE SetErrorStatus(OVERALL_SU_ERROR)
  <2>1. u \in SUs
    BY <1>3, HeadUnit DEF LowVoltageFailure
  <2>2. rest \in Seq(Operations) /\ HealthOps(rest)
    <3>1. SetErrorStatus(OVERALL_SU_ERROR) \in Seq(Apart)
      BY ErrorBitsTyped, SettersApart DEF ErrorBits
    <3>2. u + 1 < NUM_SU => <<Duty("LowVoltageFailure", u + 1)>> \in Seq(Apart)
      <4>1. u + 1 < NUM_SU => u + 1 \in SUs
        BY <2>1, NumSUAssumption
      <4> QED
        BY <4>1, ApartSets
    <3> QED
      BY <3>1, <3>2, ApartOps
  <2>3. off \in Seq(Operations)
    BY <2>1, OrdinarySets DEF Ordinary
  <2>4. /\ error \in Seq(Operations) /\ HealthOps(error)
        /\ 1 \in DOMAIN error /\ Changes(error[1], u)
    BY <2>1, SetUnitError DEF UnitErrors
  <2>5. Then("health", (off \o error) \o rest)
    BY <1>3 DEF LowVoltageFailure
  <2>6. off \o error \in Seq(Operations) /\ HealthOps(off \o error)
    BY <2>1, <2>4, OffFirst
  <2> HIDE DEF off, error, rest
  <2>7. (off \o error) \o rest \in Seq(Operations) /\ HealthOps((off \o error) \o rest)
    BY <2>2, <2>6, BothOps
  <2> QED
    BY <2>5, <2>7 DEF HealthDutyOps
<1> QED
  BY <1>1, <1>2, <1>3

LEMMA MonitorOps ==
  ASSUME TypeOK, MonitorVoltages
  PROVE  HealthDutyOps
<1> DEFINE u == Head(work["health"]).at
<1>1. CASE Doing("health", "Monitor_DPU_Voltage")
  <2>1. SUPPLY_ERROR \in SUBSET Bits
    BY DEF SUPPLY_ERROR, Bits
  <2>2. SetModeStatusError(SUPPLY_ERROR) \in Seq(Operations)
        /\ HealthOps(SetModeStatusError(SUPPLY_ERROR))
    BY <2>1, SettersApart, ApartOps
  <2> QED
    BY <1>1, <2>2, EmptyOps DEF MonitorVoltages, ErrorIf, Doing, HealthDutyOps
<1>2. CASE Doing("health", "Monitor_SU_Voltage")
  <2>1. u \in SUs
    BY <1>2, HeadUnit
  <2>2. Then("health", Monitor_SU_Voltage(u))
    BY <1>2 DEF MonitorVoltages, Doing
  <2>3. \A error \in {LV_LIMIT_ERROR, HV_LIMIT_ERROR} :
          Set_SU_Error(u, error) \in Seq(Operations) /\ HealthOps(Set_SU_Error(u, error))
    BY <2>1, SetUnitError DEF UnitErrors
  <2>4. \A error \in {LV_LIMIT_ERROR, HV_LIMIT_ERROR} : \A b :
          /\ ErrorIf(b, Set_SU_Error(u, error)) \in Seq(Operations)
          /\ HealthOps(ErrorIf(b, Set_SU_Error(u, error)))
    BY <2>3, EmptyOps DEF ErrorIf
  <2>5. Monitor_SU_Voltage(u) \in Seq(Operations) /\ HealthOps(Monitor_SU_Voltage(u))
    BY <2>4, BothOps DEF Monitor_SU_Voltage
  <2> QED
    BY <2>2, <2>5 DEF HealthDutyOps
<1> QED
  BY <1>1, <1>2 DEF MonitorVoltages

LEMMA DutyReports ==
  ASSUME TypeOK, HealthDuty
  PROVE  HealthDutyOps
<1>1. CASE NewPeriod \/ ServeWatchdog \/ SetSensorUnitOff \/ EndSelfTest
  BY <1>1, EmptyOps
     DEF NewPeriod, ServeWatchdog, SetWatchdog, SetSensorUnitOff, EndSelfTest, HealthDutyOps
<1> QED
  BY <1>1, ReadingOps, StoreOps, CurrentOps, MonitorOps DEF HealthDuty

\* A unit with an error has its bit in the error status, or the task that has set the
\* error is about to set the bit, or the error is about to be cleared.
Reported(u) ==
  telemetry[SU_status(u)] # {} =>
    \/ SU_ERROR(u) \subseteq telemetry[error_status]
    \/ /\ masked = "health" /\ work["health"] # <<>>
       /\ Reports(Head(work["health"]), u)
    \/ \E i \in DOMAIN work["tc"] : Clears(work["tc"][i], u)

OffHasError(u) ==
  u \in switched_off =>
    \/ telemetry[SU_status(u)] # {}
    \/ \E i \in DOMAIN work["health"] : Changes(work["health"][i], u)

\* What the tasks have to do, and that the TC execution task, of the highest priority,
\* has nothing to do while another one has disabled the interrupts.
ReportWork ==
  /\ HealthOps(work["health"])
  /\ TcOps(work["tc"])
  /\ AcquisitionOps(work["acquisition"])
  /\ masked \in {"health", "acquisition"} => work["tc"] = <<>>

\* The units are off the list while the TC execution task clears their errors.
ReportInv ==
  /\ ReportWork
  /\ switched_off # {} =>
       \A i \in DOMAIN work["tc"] : \A u \in SUs : ~Changes(work["tc"][i], u)
  /\ \A u \in SUs : /\ telemetry[SU_status(u)] \cap SUPPLY_VOLTAGE_MASK = {}
                    /\ Reported(u)
                    /\ OffHasError(u)

\* A step that only changes what some tasks have to do, and keeps what matters of it.
LEMMA ReportKept ==
  ASSUME ReportInv, ReportWork', UNCHANGED <<telemetry, switched_off>>,
         UNCHANGED masked, UNCHANGED work["tc"],
         \A u \in SUs :
           /\ masked = "health" /\ work["health"] # <<>> /\ Reports(Head(work["health"]), u)
              => work'["health"] # <<>> /\ Reports(Head(work'["health"]), u)
           /\ (\E i \in DOMAIN work["health"] : Changes(work["health"][i], u))
              => \E i \in DOMAIN work'["health"] : Changes(work'["health"][i], u)
  PROVE  ReportInv'
<1>1. ASSUME NEW u \in SUs
      PROVE  /\ telemetry'[SU_status(u)] \cap SUPPLY_VOLTAGE_MASK = {}
             /\ Reported(u)' /\ OffHasError(u)'
  <2>1. /\ telemetry[SU_status(u)] \cap SUPPLY_VOLTAGE_MASK = {}
        /\ Reported(u) /\ OffHasError(u)
    BY DEF ReportInv
  <2>2. Reported(u)'
    BY <2>1 DEF Reported
  <2>3. OffHasError(u)'
    BY <2>1 DEF OffHasError
  <2> QED
    BY <2>1, <2>2, <2>3
<1> QED
  BY <1>1 DEF ReportInv

LEMMA ReportStutter ==
  ASSUME ReportInv, UNCHANGED <<telemetry, switched_off, masked, work>>
  PROVE  ReportInv'
BY DEF ReportInv, ReportWork, Reported, OffHasError, HealthOps, TcOps, AcquisitionOps,
       Changes, Reports, Clears

\* The health task begins a round when no task has anything to do.
LEMMA ReportRound ==
  ASSUME IInv, ReportInv, HandleHealthMonitoring
  PROVE  ReportInv'
<1>1. /\ work \in [Tasks -> Seq(Operations)] /\ CountersOK
      /\ \A t \in Tasks : work[t] = <<>>
      /\ masked = Nobody /\ work' = [work EXCEPT !["health"] = RoundDuties]
      /\ UNCHANGED <<telemetry, switched_off, masked>>
  BY TypeParts DEF IInv, HandleHealthMonitoring, registerVars, unitVars
<1>2. HealthOps(RoundDuties)
  <2>1. \A s \in Seq(Checks) : s \in Seq(Apart)
    BY ApartSets
  <2>2. <<WD_High>> \in Seq(Apart) /\ <<WD_Low>> \in Seq(Apart)
    BY ApartSets DEF Watchdog
  <2>3. RoundDuties \in Seq(Apart)
    BY <1>1, <2>1, <2>2, RoundDutiesTyped, ConcatKeeps
  <2> QED
    BY <2>3, ApartOps
<1>3. /\ work'["health"] = RoundDuties
      /\ UNCHANGED work["tc"] /\ UNCHANGED work["acquisition"]
  BY <1>1 DEF Tasks
<1>4. ReportWork'
  BY <1>1, <1>2, <1>3 DEF ReportInv, ReportWork, Tasks, TcOps, AcquisitionOps
<1>5. work["health"] = <<>> /\ DOMAIN work["health"] = {}
  BY <1>1 DEF Tasks
<1> QED
  BY <1>1, <1>3, <1>4, <1>5, ReportKept

\* Nor has another task anything to do while the health task runs.
LEMMA HealthRuns ==
  ASSUME ReportWork, Runs("health")
  PROVE  work["tc"] = <<>> /\ (masked = Nobody \/ masked = "health")
BY DEF Runs, Above, ReportWork

LEMMA DutySwitches ==
  ASSUME HealthDuty
  PROVE  \/ UNCHANGED switched_off
         \/ /\ Head(work["health"]).op = "SetSensorUnitOff"
            /\ switched_off' = switched_off \cup {Head(work["health"]).at}
            /\ Then("health", <<>>)
BY DEF HealthDuty, NewPeriod, ServeWatchdog, SetWatchdog, Read_AD_Channel, ClearHit,
       SelectChannel, Convert_AD, DecideRetry, EndReading, readFrame, StoreResult,
       StoreTemperature, StoreVoltage, SetSensorUnitOff, CheckFrame, CheckHighVoltage,
       CheckLowVoltage, LowVoltageFailure, MonitorVoltages, EndSelfTest, unitVars, Doing

LEMMA ReportDuty ==
  ASSUME IInv, ReportInv, HealthDuty
  PROVE  ReportInv'
<1> DEFINE s == work["health"]
<1>1. /\ TypeOK /\ s # <<>> /\ s \in Seq(Operations) /\ Head(s).op # "update"
      /\ work \in [Tasks -> Seq(Operations)] /\ ReportWork /\ HealthOps(s)
  BY DutyIsNoUpdate, HeadOf DEF IInv, ReportInv, ReportWork, Tasks
<1>2. work["tc"] = <<>>
  BY <1>1, DutyIsNoUpdate, HealthRuns
<1>3. UNCHANGED <<telemetry, masked>>
  BY DutyRegisters DEF registerVars
<1>4. \/ UNCHANGED switched_off
      \/ /\ Head(s).op = "SetSensorUnitOff"
         /\ switched_off' = switched_off \cup {Head(s).at}
  BY DutySwitches
<1>5. ASSUME NEW ops \in Seq(Operations), HealthOps(ops), Then("health", ops)
      PROVE  ReportInv'
  <2>1. /\ work'["health"] = ops \o Tail(s)
        /\ UNCHANGED work["tc"] /\ UNCHANGED work["acquisition"]
    BY <1>1, <1>5, ThenKeeps DEF Tasks
  <2>2. HealthOps(work'["health"])
    <3>1. Tail(s) \in Seq(Operations) /\ HealthOps(Tail(s))
      BY <1>1, HealthTail
    <3>2. HealthOps(ops \o Tail(s))
      BY <1>5, <3>1, HealthConcat
    <3> QED
      BY <2>1, <3>2
  <2>3. ReportWork'
    BY <1>1, <1>3, <2>1, <2>2 DEF ReportWork, TcOps, AcquisitionOps
  <2>4. ASSUME NEW u \in SUs, NEW i \in DOMAIN s, Changes(s[i], u)
        PROVE  \E j \in DOMAIN work'["health"] : Changes(work'["health"][j], u)
    <3>1. i > 1
      BY <1>1, <2>4, TailOf DEF Changes
    <3> QED
      BY <1>1, <2>1, <2>4, <3>1, ChangeStays
  <2>5. ASSUME NEW u \in SUs
        PROVE  /\ telemetry'[SU_status(u)] \cap SUPPLY_VOLTAGE_MASK = {}
               /\ Reported(u)' /\ OffHasError(u)'
    <3>1. /\ telemetry[SU_status(u)] \cap SUPPLY_VOLTAGE_MASK = {}
          /\ Reported(u) /\ OffHasError(u)
      BY DEF ReportInv
    <3>2. Reported(u)'
      BY <1>1, <1>2, <1>3, <3>1 DEF Reported, Reports
    <3>3. u \in switched_off => OffHasError(u)'
      BY <1>3, <2>4, <3>1 DEF OffHasError
    <3>4. u \in switched_off' /\ u \notin switched_off => OffHasError(u)'
      <4>1. SUFFICES ASSUME u \in switched_off', u \notin switched_off
                     PROVE  OffHasError(u)'
        OBVIOUS
      <4>2. Head(s).op = "SetSensorUnitOff" /\ Head(s).at = u
        BY <1>4, <4>1
      <4>3. \E j \in DOMAIN s : j > 1 /\ Changes(s[j], u)
        BY <1>1, <4>2, TailOf DEF HealthOps
      <4> QED
        BY <2>4, <4>3 DEF OffHasError
    <3> QED
      BY <1>3, <3>1, <3>2, <3>3, <3>4 DEF OffHasError
  <2>6. switched_off' # {} =>
          \A i \in DOMAIN work'["tc"] : \A u \in SUs : ~Changes(work'["tc"][i], u)
    BY <1>2, <2>1
  <2> QED
    BY <2>3, <2>5, <2>6 DEF ReportInv
<1>6. CASE UNCHANGED work
  <2>1. UNCHANGED switched_off
    <3>1. CASE Then("health", <<>>)
      <4>1. work'["health"] = <<>> \o Tail(s) /\ Tail(s) \in Seq(Operations)
        BY <1>1, <3>1, EmptyOps, ThenKeeps, TailOf DEF Tasks
      <4>2. <<>> \o Tail(s) = Tail(s) /\ Len(Tail(s)) = Len(s) - 1 /\ Len(s) \in Nat
        BY <1>1, <4>1
      <4>3. Tail(s) = s
        BY <1>6, <4>1, <4>2
      <4>4. Len(s) = Len(s) - 1
        BY <4>2, <4>3
      <4> QED
        BY <4>2, <4>4
    <3> QED
      BY <3>1, DutySwitches
  <2> QED
    BY <1>3, <1>6, <2>1, ReportStutter
<1> QED
  BY <1>1, <1>5, <1>6, DutyReports DEF HealthDutyOps

\* An update that has begun.
LEMMA ReportBegin ==
  ASSUME IInv, ReportInv, NEW t \in Tasks, Runs(t), BeginUpdate(t), UNCHANGED switched_off
  PROVE  ReportInv'
<1>1. masked' = t /\ UNCHANGED <<telemetry, work>>
  BY DEF BeginUpdate
<1>2. masked \in Tasks => masked = t
  BY DEF Runs, Tasks, Nobody
<1>3. t \in {"health", "acquisition"} => work["tc"] = <<>>
  BY DEF Runs, Above, ReportInv, ReportWork
<1>4. ReportWork'
  BY <1>1, <1>3 DEF ReportInv, ReportWork, HealthOps, TcOps, AcquisitionOps, Changes,
                    Reports, Clears
<1>5. ASSUME NEW u \in SUs PROVE Reported(u)' /\ OffHasError(u)'
  <2>1. Reported(u) /\ OffHasError(u)
    BY DEF ReportInv
  <2>2. OffHasError(u)'
    BY <1>1, <2>1 DEF OffHasError, Changes
  <2>3. masked = "health" => masked' = "health"
    BY <1>1, <1>2 DEF Tasks
  <2>4. Reported(u)'
    BY <1>1, <2>1, <2>3 DEF Reported, Reports, Clears, Changes
  <2> QED
    BY <2>2, <2>4
<1> QED
  BY <1>1, <1>4, <1>5 DEF ReportInv, Changes

\* The write of an update: the value that was read is still that of the register.
LEMMA WriteOf ==
  ASSUME IInv, CopyInv, NEW t \in Tasks, Doing(t, "update"), copy[t] # NoCopy, EndUpdate(t)
  PROVE  LET update == Head(work[t]) IN
         /\ update \in Updates
         /\ telemetry \in [Registers -> SUBSET Bits]
         /\ \A r \in Registers : r # update.register => telemetry'[r] = telemetry[r]
         /\ telemetry'[update.register] = After(update, telemetry[update.register])
         /\ masked' = IF update.enable THEN Nobody ELSE masked
         /\ masked = t
         /\ work[t] # <<>> /\ work[t] \in Seq(Operations)
         /\ work'[t] = Tail(work[t])
         /\ \A h \in Tasks \ {t} : work'[h] = work[h]
<1> DEFINE update == Head(work[t])
<1>1. /\ TypeOK /\ RegisterTypeOK /\ update \in Updates
      /\ work \in [Tasks -> Seq(Operations)] /\ work[t] # <<>> /\ work[t] \in Seq(Operations)
  BY HeadUpdate, HeadOf, TypeParts DEF IInv, Doing
<1>2. copy[t] = telemetry[update.register] /\ masked = t
  BY DEF CopyInv
<1>3. telemetry \in [Registers -> SUBSET Bits] /\ update.register \in Registers
  BY <1>1 DEF RegisterTypeOK, Updates
<1>4. /\ telemetry' = [telemetry EXCEPT ![update.register] = After(update, copy[t])]
      /\ masked' = IF update.enable THEN Nobody ELSE masked
      /\ Then(t, <<>>)
  BY DEF EndUpdate
<1>5. work'[t] = Tail(work[t]) /\ \A h \in Tasks \ {t} : work'[h] = work[h]
  <2>1. work'[t] = <<>> \o Tail(work[t]) /\ \A h \in Tasks \ {t} : work'[h] = work[h]
    BY <1>1, <1>4, EmptyOps, ThenKeeps
  <2>2. Tail(work[t]) \in Seq(Operations)
    BY <1>1
  <2> QED
    BY <2>1, <2>2
<1> HIDE DEF update
<1>6. /\ \A r \in Registers : r # update.register => telemetry'[r] = telemetry[r]
      /\ telemetry'[update.register] = After(update, telemetry[update.register])
  BY <1>2, <1>3, <1>4
<1> QED
  BY <1>1, <1>2, <1>3, <1>4, <1>5, <1>6 DEF update

LEMMA ReportHealthWrite ==
  ASSUME IInv, CopyInv, ReportInv, Doing("health", "update"), copy["health"] # NoCopy,
         EndUpdate("health"), UNCHANGED switched_off
  PROVE  ReportInv'
<1> DEFINE s == work["health"]
           update == Head(s)
           r == update.register
<1>1. /\ update \in Updates /\ r \in Registers
      /\ telemetry \in [Registers -> SUBSET Bits]
      /\ \A q \in Registers : q # r => telemetry'[q] = telemetry[q]
      /\ telemetry'[r] = (telemetry[r] \ update.drop) \cup update.put
      /\ masked' = IF update.enable THEN Nobody ELSE "health"
      /\ masked = "health"
      /\ s # <<>> /\ s \in Seq(Operations) /\ work'["health"] = Tail(s)
      /\ UNCHANGED work["tc"] /\ UNCHANGED work["acquisition"]
  BY WriteOf DEF Tasks, Updates, After
<1>2. /\ ReportWork /\ HealthOps(s) /\ work["tc"] = <<>>
      /\ update.op = "update" /\ Head(s) = s[1] /\ 1 \in DOMAIN s
  BY <1>1, TailOf DEF ReportInv, ReportWork, Doing
<1>3. /\ r = error_status => update.drop = {}
      /\ \A u \in SUs : r = SU_status(u) =>
           /\ update.drop = {} /\ update.put # {} /\ update.put \cap SUPPLY_VOLTAGE_MASK = {}
           /\ ~update.enable
           /\ 2 \in DOMAIN s /\ Reports(s[2], u)
  <2>1. \A u \in SUs : r = SU_status(u) => Changes(s[1], u)
    BY <1>2 DEF Changes
  <2> QED
    BY <1>2, <2>1 DEF HealthOps
<1>4. ReportWork'
  BY <1>1, <1>2, HealthTail DEF ReportWork, TcOps, AcquisitionOps
<1>5. /\ 2 \in DOMAIN s => Tail(s) # <<>> /\ Head(Tail(s)) = s[2]
      /\ \A i \in DOMAIN s : i # 1 => i - 1 \in DOMAIN Tail(s) /\ Tail(s)[i - 1] = s[i]
  <2>1. /\ Tail(s) \in Seq(Operations) /\ Len(s) \in Nat /\ DOMAIN s = 1 .. Len(s)
        /\ DOMAIN Tail(s) = 1 .. Len(s) - 1
    BY <1>1
  <2>2. \A i \in DOMAIN s : i # 1 => i - 1 \in DOMAIN Tail(s) /\ Tail(s)[i - 1] = s[i]
    BY <1>1, TailOf
  <2>3. 2 \in DOMAIN s => 2 - 1 \in DOMAIN Tail(s) /\ Tail(s)[2 - 1] = s[2]
    BY <2>2
  <2>4. 2 \in DOMAIN s => Tail(s) # <<>>
    <3>1. DOMAIN Tail(s) # {} => Tail(s) # <<>>
      BY <2>1
    <3> QED
      BY <2>3, <3>1
  <2>5. Tail(s) # <<>> => Head(Tail(s)) = Tail(s)[1]
    BY <2>1
  <2> QED
    BY <2>2, <2>3, <2>4, <2>5
<1> HIDE DEF s, update, r
<1>6. telemetry[error_status] \subseteq telemetry'[error_status]
  <2>1. error_status \in Registers
    BY RegistersTyped
  <2> QED
    BY <1>1, <1>3, <2>1
<1>7. ASSUME NEW u \in SUs
      PROVE  /\ telemetry'[SU_status(u)] \cap SUPPLY_VOLTAGE_MASK = {}
             /\ Reported(u)' /\ OffHasError(u)'
  <2>1. /\ telemetry[SU_status(u)] \cap SUPPLY_VOLTAGE_MASK = {}
        /\ Reported(u) /\ OffHasError(u)
        /\ SU_status(u) \in Registers /\ SU_status(u) # error_status
    BY UnitRegisters DEF ReportInv
  <2>2. CASE r = SU_status(u)
    <3>1. /\ telemetry'[SU_status(u)] = telemetry[SU_status(u)] \cup update.put
          /\ update.put # {} /\ update.put \cap SUPPLY_VOLTAGE_MASK = {}
      BY <1>1, <1>3, <2>2
    <3>2. telemetry'[SU_status(u)] # {}
      BY <3>1
    <3>3. telemetry'[SU_status(u)] \cap SUPPLY_VOLTAGE_MASK = {}
      BY <2>1, <3>1
    <3>4. masked' = "health" /\ work'["health"] # <<>> /\ Reports(Head(work'["health"]), u)
      BY <1>1, <1>3, <1>5, <2>2
    <3> QED
      BY <3>2, <3>3, <3>4 DEF Reported, OffHasError
  <2>3. CASE r # SU_status(u)
    <3>1. telemetry'[SU_status(u)] = telemetry[SU_status(u)]
      BY <1>1, <2>1, <2>3
    <3>2. OffHasError(u)'
      <4>1. ASSUME NEW i \in DOMAIN s, Changes(s[i], u)
            PROVE  \E j \in DOMAIN work'["health"] : Changes(work'["health"][j], u)
        <5>1. i # 1
          BY <1>2, <2>3, <4>1 DEF Changes, r, update
        <5> QED
          BY <1>1, <1>5, <4>1, <5>1
      <4> QED
        BY <2>1, <3>1, <4>1 DEF OffHasError, s
    <3>3. Reported(u)'
      <4>1. SUFFICES ASSUME telemetry[SU_status(u)] # {}
                     PROVE  SU_ERROR(u) \subseteq telemetry'[error_status]
        BY <3>1 DEF Reported
      <4>2. \/ SU_ERROR(u) \subseteq telemetry[error_status]
            \/ Reports(update, u)
        BY <1>2, <2>1, <4>1 DEF Reported, s, update
      <4>3. Reports(update, u) => SU_ERROR(u) \subseteq telemetry'[error_status]
        BY <1>1 DEF Reports, r
      <4> QED
        BY <1>6, <4>2, <4>3
    <3> QED
      BY <2>1, <3>1, <3>2, <3>3
  <2> QED
    BY <2>2, <2>3
<1>8. work'["tc"] = <<>>
  BY <1>1, <1>2
<1> QED
  BY <1>4, <1>7, <1>8 DEF ReportInv

\* The acquisition task touches neither the error status nor those of the units.
LEMMA ReportAcquisitionWrite ==
  ASSUME IInv, CopyInv, ReportInv, Doing("acquisition", "update"),
         copy["acquisition"] # NoCopy, EndUpdate("acquisition"), UNCHANGED switched_off
  PROVE  ReportInv'
<1> DEFINE s == work["acquisition"]
           update == Head(s)
<1>1. /\ update.register \in Registers
      /\ \A q \in Registers : q # update.register => telemetry'[q] = telemetry[q]
      /\ masked' \in {Nobody, "acquisition"} /\ masked = "acquisition"
      /\ s # <<>> /\ s \in Seq(Operations) /\ work'["acquisition"] = Tail(s)
      /\ UNCHANGED work["tc"] /\ UNCHANGED work["health"]
  BY WriteOf DEF Tasks, Updates
<1>2. ReportWork /\ AcquisitionOps(s) /\ work["tc"] = <<>> /\ Head(s) = s[1] /\ 1 \in DOMAIN s
  BY <1>1, TailOf DEF ReportInv, ReportWork
<1>3. update.register = mode_status
  BY <1>2 DEF AcquisitionOps
<1>4. AcquisitionOps(Tail(s))
  BY <1>1, <1>2, TailOf DEF AcquisitionOps
<1>5. ReportWork'
  BY <1>1, <1>2, <1>4 DEF ReportWork, HealthOps, TcOps, Changes, Reports, Clears
<1>6. ASSUME NEW u \in SUs
      PROVE  /\ telemetry'[SU_status(u)] \cap SUPPLY_VOLTAGE_MASK = {}
             /\ Reported(u)' /\ OffHasError(u)'
  <2>1. telemetry'[SU_status(u)] = telemetry[SU_status(u)]
        /\ telemetry'[error_status] = telemetry[error_status]
    BY <1>1, <1>3, UnitRegisters, OtherRegisters, RegistersTyped
  <2>2. /\ telemetry[SU_status(u)] \cap SUPPLY_VOLTAGE_MASK = {}
        /\ Reported(u) /\ OffHasError(u)
    BY DEF ReportInv
  <2>3. Reported(u)'
    BY <1>1, <1>2, <2>1, <2>2 DEF Reported
  <2>4. OffHasError(u)'
    BY <1>1, <2>1, <2>2 DEF OffHasError
  <2> QED
    BY <2>1, <2>2, <2>3, <2>4
<1>7. work'["tc"] = <<>>
  BY <1>1, <1>2
<1> QED
  BY <1>5, <1>6, <1>7 DEF ReportInv

LEMMA TcTail ==
  ASSUME NEW s \in Seq(Operations), s # <<>>, TcOps(s)
  PROVE  TcOps(Tail(s))
<1> DEFINE r == Tail(s)
<1>1. /\ \A i \in DOMAIN r : i + 1 \in DOMAIN s /\ r[i] = s[i + 1]
      /\ \A i \in DOMAIN s : i > 1 => i - 1 \in DOMAIN r /\ r[i - 1] = s[i]
      /\ DOMAIN r = 1 .. Len(s) - 1 /\ DOMAIN s = 1 .. Len(s) /\ Len(s) \in Nat
  BY TailOf
<1> HIDE DEF r
<1>2. ASSUME NEW i \in DOMAIN r, r[i].op = "zero", r[i].register = error_status,
             NEW u \in SUs
      PROVE  \E j \in DOMAIN r : j > i /\ Clears(r[j], u)
  <2>1. PICK j \in DOMAIN s : j > i + 1 /\ Clears(s[j], u)
    BY <1>1, <1>2 DEF TcOps
  <2>2. j - 1 \in DOMAIN r /\ r[j - 1] = s[j] /\ j - 1 > i
    BY <1>1, <2>1
  <2> QED
    BY <2>1, <2>2
<1>3. TcOps(r)
  BY <1>1, <1>2 DEF TcOps
<1> QED
  BY <1>3 DEF r

\* The TC execution task writes a register: none of the others has anything pending
\* that the write could concern.
LEMMA ReportTcWrite ==
  ASSUME IInv, CopyInv, ReportInv, Doing("tc", "update"), copy["tc"] # NoCopy,
         EndUpdate("tc"), UNCHANGED switched_off
  PROVE  ReportInv'
<1> DEFINE s == work["tc"]
           update == Head(s)
           r == update.register
<1>1. /\ update \in Updates /\ r \in Registers
      /\ telemetry \in [Registers -> SUBSET Bits]
      /\ \A q \in Registers : q # r => telemetry'[q] = telemetry[q]
      /\ telemetry'[r] = (telemetry[r] \ update.drop) \cup update.put
      /\ masked' \in {Nobody, "tc"} /\ masked = "tc"
      /\ s # <<>> /\ s \in Seq(Operations) /\ work'["tc"] = Tail(s)
      /\ UNCHANGED work["health"] /\ UNCHANGED work["acquisition"]
  BY WriteOf DEF Tasks, Updates, After
<1>2. /\ ReportWork /\ TcOps(s) /\ update.op = "update"
      /\ Head(s) = s[1] /\ 1 \in DOMAIN s
      /\ \A i \in DOMAIN Tail(s) : i + 1 \in DOMAIN s /\ Tail(s)[i] = s[i + 1]
      /\ \A i \in DOMAIN s : i # 1 => i - 1 \in DOMAIN Tail(s) /\ Tail(s)[i - 1] = s[i]
  BY <1>1, TailOf DEF ReportInv, ReportWork, Doing
<1>3. /\ r = error_status => update.drop = {}
      /\ \A u \in SUs : r = SU_status(u) =>
           /\ update.drop = Bits \ SUPPLY_VOLTAGE_MASK /\ update.put = {}
           /\ switched_off = {}
  <2>1. \A u \in SUs : r = SU_status(u) => Changes(s[1], u)
    BY <1>2 DEF Changes
  <2> QED
    BY <1>2, <2>1 DEF TcOps, Clears, ReportInv
<1>4. ReportWork'
  <2>1. TcOps(work'["tc"])
    BY <1>1, <1>2, TcTail
  <2>2. HealthOps(work'["health"]) /\ AcquisitionOps(work'["acquisition"])
    BY <1>1, <1>2 DEF ReportWork
  <2>3. masked' \notin {"health", "acquisition"}
    BY <1>1 DEF Nobody
  <2> QED
    BY <2>1, <2>2, <2>3 DEF ReportWork
<1>5. switched_off' # {} =>
        \A i \in DOMAIN work'["tc"] : \A u \in SUs : ~Changes(work'["tc"][i], u)
  BY <1>1, <1>2 DEF ReportInv
<1> HIDE DEF s, update, r
<1>6. telemetry[error_status] \subseteq telemetry'[error_status]
  <2>1. error_status \in Registers
    BY RegistersTyped
  <2> QED
    BY <1>1, <1>3, <2>1
<1>7. ASSUME NEW u \in SUs
      PROVE  /\ telemetry'[SU_status(u)] \cap SUPPLY_VOLTAGE_MASK = {}
             /\ Reported(u)' /\ OffHasError(u)'
  <2>1. /\ telemetry[SU_status(u)] \cap SUPPLY_VOLTAGE_MASK = {}
        /\ Reported(u) /\ OffHasError(u)
        /\ SU_status(u) \in Registers /\ SU_status(u) # error_status
    BY UnitRegisters DEF ReportInv
  <2>2. CASE r = SU_status(u)
    <3>1. telemetry[SU_status(u)] \subseteq Bits
      BY <1>1, <2>1
    <3>2. telemetry'[SU_status(u)] = {} /\ switched_off' = {}
      BY <1>1, <1>3, <2>1, <2>2, <3>1
    <3> QED
      BY <3>2 DEF Reported, OffHasError
  <2>3. CASE r # SU_status(u)
    <3>1. telemetry'[SU_status(u)] = telemetry[SU_status(u)]
      BY <1>1, <2>1, <2>3
    <3>2. OffHasError(u)'
      BY <1>1, <2>1, <3>1 DEF OffHasError
    <3>3. ASSUME NEW i \in DOMAIN s, Clears(s[i], u)
          PROVE  \E j \in DOMAIN work'["tc"] : Clears(work'["tc"][j], u)
      <4>1. i # 1
        BY <1>2, <2>3, <3>3 DEF Clears, Changes, r, update
      <4>2. i - 1 \in DOMAIN work'["tc"] /\ work'["tc"][i - 1] = s[i]
        BY <1>1, <1>2, <4>1
      <4> QED
        BY <3>3, <4>2
    <3>4. Reported(u)'
      BY <1>1, <1>6, <2>1, <3>1, <3>3 DEF Reported, s
    <3> QED
      BY <2>1, <3>1, <3>2, <3>4
  <2> QED
    BY <2>2, <2>3
<1> QED
  BY <1>4, <1>5, <1>7 DEF ReportInv

\* Only the TC execution task stores a zero, and never in the status of a unit.
LEMMA ReportZero ==
  ASSUME IInv, ReportInv, NEW t \in Tasks, Doing(t, "zero"), StoreZero(t),
         UNCHANGED switched_off
  PROVE  ReportInv'
<1> DEFINE s == work["tc"]
           op == Head(s)
           r == op.register
<1>1. /\ TypeOK /\ RegisterTypeOK /\ ReportWork /\ work[t] # <<>> /\ work[t] \in Seq(Operations)
      /\ work \in [Tasks -> Seq(Operations)] /\ Head(work[t]).op = "zero"
  BY HeadOf, TypeParts DEF IInv, Doing, ReportInv
<1>2. t = "tc"
  <2>1. Head(work[t]) = work[t][1] /\ 1 \in DOMAIN work[t]
    BY <1>1, TailOf
  <2> QED
    BY <1>1, <2>1 DEF ReportWork, HealthOps, AcquisitionOps, Tasks
<1>3. /\ op.op = "zero" /\ TcOps(s) /\ s # <<>> /\ s \in Seq(Operations)
      /\ Head(s) = s[1] /\ 1 \in DOMAIN s
      /\ \A i \in DOMAIN Tail(s) : i + 1 \in DOMAIN s /\ Tail(s)[i] = s[i + 1]
      /\ \A i \in DOMAIN s : i # 1 => i - 1 \in DOMAIN Tail(s) /\ Tail(s)[i - 1] = s[i]
      /\ \A i \in DOMAIN s : i # 1 => i > 1
  BY <1>1, <1>2, TailOf DEF ReportWork
<1>4. /\ r \in {error_status, software_error}
      /\ r = error_status => \A u \in SUs : \E j \in DOMAIN s : j > 1 /\ Clears(s[j], u)
  BY <1>3 DEF TcOps
<1>5. work'["tc"] = Tail(s) /\ \A h \in Tasks \ {"tc"} : work'[h] = work[h]
  <2>1. Then("tc", <<>>)
    BY <1>2 DEF StoreZero
  <2>2. work'["tc"] = <<>> \o Tail(s) /\ \A h \in Tasks \ {"tc"} : work'[h] = work[h]
    BY <1>1, <1>3, <2>1, EmptyOps, ThenKeeps DEF Tasks
  <2>3. Tail(s) \in Seq(Operations)
    BY <1>3
  <2> QED
    BY <2>2, <2>3
<1>6. UNCHANGED work["health"] /\ UNCHANGED work["acquisition"] /\ UNCHANGED masked
  BY <1>5 DEF Tasks, StoreZero
<1>7. ReportWork'
  <2>1. TcOps(work'["tc"])
    BY <1>3, <1>5, TcTail
  <2>2. HealthOps(work'["health"]) /\ AcquisitionOps(work'["acquisition"])
    BY <1>1, <1>6 DEF ReportWork
  <2>3. masked' \notin {"health", "acquisition"}
    BY <1>2, <1>6 DEF Doing, Runs, Nobody
  <2> QED
    BY <2>1, <2>2, <2>3 DEF ReportWork
<1>8. switched_off' # {} =>
        \A i \in DOMAIN work'["tc"] : \A u \in SUs : ~Changes(work'["tc"][i], u)
  BY <1>3, <1>5 DEF ReportInv
<1>9. masked # "health"
  BY <1>2 DEF Doing, Runs, Nobody
<1>10. /\ telemetry \in [Registers -> SUBSET Bits] /\ r \in Registers
       /\ \A q \in Registers : q # r => telemetry'[q] = telemetry[q]
  <2>1. telemetry' = [telemetry EXCEPT ![r] = {}]
    BY <1>2 DEF StoreZero
  <2>2. telemetry \in [Registers -> SUBSET Bits] /\ r \in Registers
    BY <1>1, <1>4, RegistersTyped DEF RegisterTypeOK
  <2> HIDE DEF r
  <2> QED
    BY <2>1, <2>2
<1> HIDE DEF s, op, r
<1>11. ASSUME NEW u \in SUs
       PROVE  /\ telemetry'[SU_status(u)] \cap SUPPLY_VOLTAGE_MASK = {}
              /\ Reported(u)' /\ OffHasError(u)'
  <2>1. /\ telemetry[SU_status(u)] \cap SUPPLY_VOLTAGE_MASK = {}
        /\ Reported(u) /\ OffHasError(u)
        /\ SU_status(u) \in Registers /\ SU_status(u) # r
    BY <1>4, UnitRegisters DEF ReportInv
  <2>2. telemetry'[SU_status(u)] = telemetry[SU_status(u)]
    BY <1>10, <2>1
  <2>3. OffHasError(u)'
    BY <1>6, <2>1, <2>2 DEF OffHasError
  <2>4. ASSUME NEW i \in DOMAIN s, Clears(s[i], u)
        PROVE  \E j \in DOMAIN work'["tc"] : Clears(work'["tc"][j], u)
    <3>1. i # 1
      BY <1>3, <2>4 DEF Clears, Changes, op
    <3> QED
      BY <1>3, <1>5, <2>4, <3>1
  <2>5. CASE r = error_status
    <3>1. \E j \in DOMAIN s : Clears(s[j], u)
      BY <1>4, <2>5
    <3> QED
      BY <2>1, <2>2, <2>3, <2>4, <3>1 DEF Reported
  <2>6. CASE r # error_status
    <3>1. telemetry'[error_status] = telemetry[error_status]
      BY <1>10, <2>6, RegistersTyped
    <3>2. Reported(u)'
      BY <1>9, <2>1, <2>2, <2>4, <3>1 DEF Reported, s
    <3> QED
      BY <2>1, <2>2, <2>3, <3>2
  <2> QED
    BY <2>5, <2>6
<1> QED
  BY <1>7, <1>8, <1>11 DEF ReportInv

LEMMA ReportRegister ==
  ASSUME IInv, CopyInv, ReportInv, NEW t \in Tasks, Register(t)
  PROVE  ReportInv'
<1>1. RegisterStep(t) /\ UNCHANGED switched_off
  BY DEF Register
<1>2. CASE Doing(t, "update") /\ copy[t] = NoCopy /\ BeginUpdate(t)
  BY <1>1, <1>2, ReportBegin DEF Doing
<1>3. CASE Doing(t, "update") /\ copy[t] # NoCopy /\ EndUpdate(t)
  BY <1>1, <1>3, ReportHealthWrite, ReportAcquisitionWrite, ReportTcWrite DEF Tasks
<1>4. CASE Doing(t, "zero") /\ StoreZero(t)
  BY <1>1, <1>4, ReportZero
<1> QED
  BY <1>1, <1>2, <1>3, <1>4 DEF RegisterStep

LEMMA ClearOps ==
  TcOps(ERROR_STATUS_CLEAR)
<1> DEFINE q == ERROR_STATUS_CLEAR
           mode == Update(mode_status, Bits \ MODE_BITS_MASK, {}, TRUE)
           clear(i) == Update(SU_status(i - 1), Bits \ SUPPLY_VOLTAGE_MASK, {}, i = NUM_SU)
           rest == [i \in 1 .. NUM_SU |-> clear(i)]
<1>1. /\ q = <<Zero(error_status)>> \o <<Zero(software_error)>> \o <<mode>> \o rest
      /\ rest \in Seq(Operations) /\ Len(rest) = NUM_SU /\ NUM_SU \in Nat
      /\ \A i \in 1 .. NUM_SU : rest[i] = clear(i)
  <2>1. Clear_SU_Error \in Seq(Operations)
    BY SettersTyped, DutySets
  <2> QED
    BY <2>1, NumSUAssumption
       DEF ERROR_STATUS_CLEAR, ClearErrorStatus, ClearSoftwareError, ClearModeStatusError,
           Clear_SU_Error
<1>2. \A i \in 1 .. NUM_SU : Clears(clear(i), i - 1) /\ clear(i).op = "update"
                             /\ clear(i).register = SU_status(i - 1)
                             /\ clear(i).drop = Bits \ SUPPLY_VOLTAGE_MASK
                             /\ clear(i).put = {}
  BY DEF Clears, Changes, Update
<1>3. mode.op = "update" /\ mode.register = mode_status
  BY DEF Update
<1>4. Zero(error_status).op = "zero" /\ Zero(software_error).op = "zero"
      /\ Zero(error_status).register = error_status
      /\ Zero(software_error).register = software_error
  BY DEF Zero
<1> HIDE DEF q, mode, clear, rest
<1>5. /\ DOMAIN q = 1 .. NUM_SU + 3
      /\ q[1] = Zero(error_status) /\ q[2] = Zero(software_error) /\ q[3] = mode
      /\ \A i \in 1 .. NUM_SU : q[i + 3] = clear(i)
  <2> DEFINE p == <<Zero(error_status), Zero(software_error), mode>>
  <2>1. q = p \o rest
    BY <1>1
  <2>2. Len(p) = 3 /\ p[1] = Zero(error_status) /\ p[2] = Zero(software_error) /\ p[3] = mode
    OBVIOUS
  <2>3. p \in Seq({Zero(error_status), Zero(software_error), mode})
    OBVIOUS
  <2> HIDE DEF p
  <2>4. /\ Len(q) = 3 + NUM_SU /\ DOMAIN q = 1 .. Len(q)
        /\ \A i \in 1 .. 3 : q[i] = p[i]
        /\ \A i \in 1 .. NUM_SU : q[3 + i] = rest[i]
    BY <1>1, <2>1, <2>2, <2>3
  <2> QED
    BY <1>1, <2>2, <2>4
<1>6. \A i \in DOMAIN q : \/ i \in {1, 2, 3}
                          \/ i - 3 \in 1 .. NUM_SU /\ q[i] = clear(i - 3)
  <2>1. \A i \in DOMAIN q : i \in {1, 2, 3} \/ (i - 3 \in 1 .. NUM_SU /\ (i - 3) + 3 = i)
    BY <1>1, <1>5
  <2> QED
    BY <1>5, <2>1
<1>7. \A u \in SUs : u + 4 \in DOMAIN q /\ u + 4 > 1 /\ Clears(q[u + 4], u)
  <2>1. \A u \in SUs : u + 1 \in 1 .. NUM_SU /\ (u + 1) + 3 = u + 4 /\ (u + 1) - 1 = u
                       /\ u + 4 > 1 /\ u + 4 \in DOMAIN q
    BY <1>1, <1>5
  <2>2. \A u \in SUs : q[u + 4] = clear(u + 1) /\ Clears(clear(u + 1), u)
    BY <1>2, <1>5, <2>1
  <2> QED
    BY <2>1, <2>2
<1>8. ASSUME NEW i \in DOMAIN q
      PROVE  /\ q[i].op = "zero" => q[i].register \in {error_status, software_error}
             /\ q[i].op = "zero" /\ q[i].register = error_status => i = 1
             /\ q[i].op = "update" /\ q[i].register = error_status => q[i].drop = {}
             /\ \A u \in SUs : Changes(q[i], u) => Clears(q[i], u)
  <2>1. CASE i = 1
    BY <2>1, <1>4, <1>5 DEF Changes
  <2>2. CASE i = 2
    BY <2>2, <1>4, <1>5, OtherRegisters DEF Changes
  <2>3. CASE i = 3
    BY <2>3, <1>3, <1>5, OtherRegisters, UnitRegisters DEF Changes
  <2>4. CASE i - 3 \in 1 .. NUM_SU /\ q[i] = clear(i - 3)
    <3>1. (i - 3) - 1 \in SUs
      BY <1>1, <2>4
    <3>2. SU_status((i - 3) - 1) # error_status
      BY <3>1, UnitRegisters
    <3> QED
      BY <2>4, <1>2, <3>2 DEF Clears, Changes
  <2> QED
    BY <1>6, <2>1, <2>2, <2>3, <2>4
<1>9. TcOps(q)
  <2>1. ASSUME NEW i \in DOMAIN q, q[i].op = "zero", q[i].register = error_status,
               NEW u \in SUs
        PROVE  \E j \in DOMAIN q : j > i /\ Clears(q[j], u)
    BY <1>7, <1>8, <2>1
  <2> QED
    BY <1>8, <2>1 DEF TcOps
<1> QED
  BY <1>9 DEF q

\* The other commands change neither the status of a unit nor clear the error status.
LEMMA CommandOps ==
  ASSUME NEW ops \in Commands
  PROVE  /\ TcOps(ops)
         /\ ops # ERROR_STATUS_CLEAR => \A i \in DOMAIN ops : \A u \in SUs : ~Changes(ops[i], u)
<1>1. ASSUME NEW r \in {error_status, mode_status}, NEW drop, NEW put,
             drop = {} \/ r = mode_status, ops = <<Update(r, drop, put, TRUE)>>
      PROVE  TcOps(ops) /\ \A i \in DOMAIN ops : \A u \in SUs : ~Changes(ops[i], u)
  <2> DEFINE op == Update(r, drop, put, TRUE)
  <2>1. op.op = "update" /\ op.register = r /\ op.drop = drop
    BY DEF Update
  <2>2. \A u \in SUs : SU_status(u) # r
    BY UnitRegisters
  <2> HIDE DEF op
  <2>3. DOMAIN ops = {1} /\ ops[1] = op
    BY <1>1 DEF op
  <2>4. \A u \in SUs : ~Changes(op, u)
    BY <2>1, <2>2 DEF Changes
  <2>5. op.register = error_status => op.drop = {}
    BY <1>1, <2>1, OtherRegisters
  <2>6. TcOps(ops)
    BY <2>1, <2>3, <2>4, <2>5 DEF TcOps
  <2> QED
    BY <2>3, <2>4, <2>6
<1>2. CASE ops = ERROR_STATUS_CLEAR
  BY <1>2, ClearOps
<1>3. CASE ops = Set_TC_Error
  BY <1>1, <1>3 DEF Set_TC_Error
<1>4. CASE ops = SetModeStatusError(MEMORY_WRITE_ERROR)
  BY <1>1, <1>4 DEF SetModeStatusError
<1>5. CASE ops \in ModeCommands
  BY <1>1, <1>5 DEF ModeCommands, SetMode
<1> QED
  BY <1>2, <1>3, <1>4, <1>5 DEF Commands

LEMMA ReportTelecommand ==
  ASSUME IInv, ReportInv, Telecommand
  PROVE  ReportInv'
<1>1. work \in [Tasks -> Seq(Operations)] /\ work["tc"] = <<>> /\ masked = Nobody
      /\ UNCHANGED <<telemetry, masked>>
  BY TypeParts DEF IInv, Telecommand, Begins, registerVars
<1>2. CASE UNCHANGED <<work, switched_off>>
  BY <1>1, <1>2, ReportStutter
<1>3. ASSUME NEW ops \in Commands, Begins("tc", ops),
             switched_off' = IF ops = ERROR_STATUS_CLEAR THEN {} ELSE switched_off
      PROVE  ReportInv'
  <2>1. work'["tc"] = ops /\ UNCHANGED work["health"] /\ UNCHANGED work["acquisition"]
    BY <1>1, <1>3 DEF Begins, Tasks
  <2>2. TcOps(work'["tc"])
    BY <2>1, CommandOps
  <2>3. ReportWork'
    <3>1. HealthOps(work'["health"]) /\ AcquisitionOps(work'["acquisition"])
      BY <2>1 DEF ReportInv, ReportWork
    <3>2. masked' \notin {"health", "acquisition"}
      BY <1>1 DEF Nobody
    <3> QED
      BY <2>2, <3>1, <3>2 DEF ReportWork
  <2>4. switched_off' # {} =>
          \A i \in DOMAIN work'["tc"] : \A u \in SUs : ~Changes(work'["tc"][i], u)
    BY <1>3, <2>1, CommandOps
  <2>5. ASSUME NEW u \in SUs
        PROVE  /\ telemetry'[SU_status(u)] \cap SUPPLY_VOLTAGE_MASK = {}
               /\ Reported(u)' /\ OffHasError(u)'
    <3>1. /\ telemetry[SU_status(u)] \cap SUPPLY_VOLTAGE_MASK = {}
          /\ Reported(u) /\ OffHasError(u)
      BY DEF ReportInv
    <3>2. Reported(u)'
      BY <1>1, <3>1 DEF Reported, Nobody
    <3>3. OffHasError(u)'
      BY <1>1, <1>3, <2>1, <3>1 DEF OffHasError
    <3> QED
      BY <1>1, <3>1, <3>2, <3>3
  <2> QED
    BY <2>3, <2>4, <2>5 DEF ReportInv
<1> QED
  BY <1>2, <1>3 DEF Telecommand

LEMMA ReportMail ==
  ASSUME IInv, ReportInv, ConverterFailedMail
  PROVE  ReportInv'
<1> DEFINE ops == SetModeStatusError(ADC_ERROR)
<1>1. /\ work \in [Tasks -> Seq(Operations)]
      /\ work["tc"] = <<>> /\ masked = Nobody
      /\ work' = [work EXCEPT !["acquisition"] = ops]
      /\ UNCHANGED <<telemetry, masked, switched_off>>
  BY TypeParts DEF IInv, ConverterFailedMail, Begins, registerVars
<1>2. AcquisitionOps(ops)
  <2> DEFINE op == Update(mode_status, {}, ADC_ERROR \ MODE_BITS_MASK, TRUE)
  <2>1. op.op = "update" /\ op.register = mode_status
    BY DEF Update
  <2> HIDE DEF op
  <2>2. ops = <<op>>
    BY DEF op, SetModeStatusError
  <2> HIDE DEF ops
  <2> QED
    BY <2>1, <2>2 DEF AcquisitionOps
<1> HIDE DEF ops
<1>3. /\ work'["acquisition"] = ops
      /\ UNCHANGED work["tc"] /\ UNCHANGED work["health"]
  BY <1>1 DEF Tasks
<1>4. ReportWork'
  <2>1. HealthOps(work'["health"]) /\ TcOps(work'["tc"])
    BY <1>3 DEF ReportInv, ReportWork
  <2> QED
    BY <1>1, <1>2, <1>3, <2>1 DEF ReportWork
<1> QED
  BY <1>1, <1>3, <1>4, ReportKept

\* The interrupt service only adds bits to the error status.
LEMMA ReportInterrupt ==
  ASSUME IInv, ReportInv, TC_Interrupt
  PROVE  ReportInv'
<1>1. /\ telemetry \in [Registers -> SUBSET Bits]
      /\ telemetry' = [telemetry EXCEPT ![error_status] = @ \cup TC_OR_PARITY_ERROR]
      /\ UNCHANGED <<masked, work, switched_off>>
  BY TypeParts DEF IInv, RegisterTypeOK, TC_Interrupt, TC_InterruptError
<1>2. /\ telemetry[error_status] \subseteq telemetry'[error_status]
      /\ \A u \in SUs : telemetry'[SU_status(u)] = telemetry[SU_status(u)]
  BY <1>1, RegistersTyped, UnitRegisters
<1>3. ReportWork'
  <2>1. HealthOps(work'["health"]) /\ TcOps(work'["tc"]) /\ AcquisitionOps(work'["acquisition"])
    BY <1>1 DEF ReportInv, ReportWork
  <2> QED
    BY <1>1, <2>1 DEF ReportInv, ReportWork
<1>4. ASSUME NEW u \in SUs
      PROVE  /\ telemetry'[SU_status(u)] \cap SUPPLY_VOLTAGE_MASK = {}
             /\ Reported(u)' /\ OffHasError(u)'
  <2>1. /\ telemetry[SU_status(u)] \cap SUPPLY_VOLTAGE_MASK = {}
        /\ Reported(u) /\ OffHasError(u)
    BY DEF ReportInv
  <2>2. Reported(u)'
    BY <1>1, <1>2, <2>1 DEF Reported
  <2>3. OffHasError(u)'
    BY <1>1, <1>2, <2>1 DEF OffHasError
  <2> QED
    BY <1>2, <2>1, <2>2, <2>3
<1>5. switched_off' # {} =>
        \A i \in DOMAIN work'["tc"] : \A u \in SUs : ~Changes(work'["tc"][i], u)
  BY <1>1 DEF ReportInv
<1> QED
  BY <1>3, <1>4, <1>5 DEF ReportInv

LEMMA ReportInit ==
  ASSUME Init
  PROVE  ReportInv
<1>1. HealthOps(InitHealthMonitoring)
  <2>1. Monitor_DPU_Voltage \in Seq(Checks)
    BY VoltagesTyped, HealthAssumption, SingleChecks, ConcatKeeps DEF Monitor_DPU_Voltage
  <2>2. Monitor_DPU_Voltage \in Seq(Apart)
    BY <2>1, ApartSets
  <2>3. SetMode(STAND_BY) \in Seq(Apart)
    BY SettersApart, ErrorBitsTyped DEF ErrorBits
  <2> QED
    BY <2>2, <2>3, ConcatKeeps, ApartOps DEF InitHealthMonitoring
<1>2. /\ work["health"] = InitHealthMonitoring
      /\ work["tc"] = <<>> /\ work["acquisition"] = <<>>
      /\ masked = Nobody /\ switched_off = {}
  BY DEF Init, RegisterInit, Tasks
<1>3. \A u \in SUs : telemetry[SU_status(u)] = {}
  BY UnitRegisters DEF Init, RegisterInit
<1>4. ReportWork
  BY <1>1, <1>2 DEF ReportWork, TcOps, AcquisitionOps, Nobody
<1> QED
  BY <1>2, <1>3, <1>4 DEF ReportInv, Reported, OffHasError

LEMMA ReportNext ==
  ASSUME IInv, CopyInv, ReportInv, [Next]_vars
  PROVE  ReportInv'
<1>1. CASE HandleHitTrigger \/ UNCHANGED vars
  BY <1>1, ReportStutter DEF HandleHitTrigger, vars, registerVars, unitVars
<1> QED
  BY <1>1, ReportRound, ReportDuty, ReportRegister, ReportTelecommand, ReportMail,
     ReportInterrupt
     DEF Next, HealthStep, Tasks

\* A unit with an error in its status has its bit in the error status, and one that was
\* switched off has an error in its status or is about to get it, whatever tasks come
\* between the two writes that say so.
THEOREM FailuresAreSeen == Spec => []FailuresAreReported
<1>1. Init => CopyInv /\ ReportInv
  BY ReportInit DEF Init, RegisterInit, CopyInv
<1>2. IInv /\ CopyInv /\ ReportInv /\ [Next]_vars => CopyInv' /\ ReportInv'
  BY CopyNext, ReportNext
<1>3. ReportInv => FailuresAreReported
  <2>1. ASSUME ReportInv, work["tc"] = <<>>, masked = Nobody, NEW u \in SUs
        PROVE  /\ telemetry[SU_status(u)] # {} => SU_ERROR(u) \subseteq telemetry[error_status]
               /\ u \in switched_off =>
                    \/ telemetry[SU_status(u)] # {}
                    \/ \E i \in DOMAIN work["health"] :
                         /\ work["health"][i].op = "update"
                         /\ work["health"][i].register = SU_status(u)
    BY <2>1 DEF ReportInv, Reported, OffHasError, Changes, Nobody
  <2> QED
    BY <2>1 DEF FailuresAreReported
<1> QED
  BY <1>1, <1>2, <1>3, InvariantInit, InvariantNext, PTL DEF Spec
============================================================================
