-------------------------- MODULE HitTriggerProofs --------------------------
(***************************************************************************)
(* Theorems about HitTrigger, for any number of units, channel tests and   *)
(* particles, any hit budget and any size of the mailbox.                  *)
(***************************************************************************)
EXTENDS HitTrigger, TLAPS

----------------------------------------------------------------------------
(* Types *)

Mails == [unit : SUs, marked : BOOLEAN]
AcqType == [at : AcqPlaces, trigger_unit : Mails, state : States,
            amplitudes : SUBSET Hits, delays : Hits \cup {NO_HIT}]

LEMMA Queues ==
  ASSUME NEW S, NEW q \in Seq(S), NEW e \in S
  PROVE  /\ Append(q, e) \in Seq(S) /\ Len(Append(q, e)) = Len(q) + 1
         /\ Append(q, e) # <<>>
         /\ q # <<>> => Head(q) \in S /\ Tail(q) \in Seq(S) /\ Len(Tail(q)) = Len(q) - 1
<1>1. Append(q, e) \in Seq(S) /\ Len(Append(q, e)) = Len(q) + 1
  OBVIOUS
<1>2. Append(q, e) # <<>>
  <2>1. Len(q) + 1 # 0
    OBVIOUS
  <2>2. Len(<<>>) = 0
    OBVIOUS
  <2>. QED  BY <1>1, <2>1, <2>2
<1>3. ASSUME q # <<>>
      PROVE  Head(q) \in S /\ Tail(q) \in Seq(S) /\ Len(Tail(q)) = Len(q) - 1
  BY <1>3
<1>. QED  BY <1>1, <1>2, <1>3

LEMMA NoMailType == NoMail \in AcqType
BY ConstantsAssumption DEF NoMail, AcqType, Mails, AcqPlaces, SUs, States, NO_HIT

LEMMA TypeOKInit == Init => TypeOK
<1>. SUFFICES ASSUME Init PROVE TypeOK
  OBVIOUS
<1>1. acq \in AcqType
  BY NoMailType DEF Init
<1>2. health \in [at : HealthPlaces, test : 1 .. ChannelTests]
  BY ConstantsAssumption DEF Init, HealthPlaces
<1>3. SU_state \in [SUs -> States] /\ peak \in [SUs -> SUBSET Hits] /\ source \in SUs
  BY ConstantsAssumption DEF Init, States, SUs
<1>4. hits \in Seq(SUs) /\ Len(hits) <= MaxHits /\ hit_budget_left \in 0 .. hit_budget
  BY ConstantsAssumption DEF Init
<1>5. mailbox \in Seq(Mails) /\ Len(mailbox) <= MailboxSize
  BY ConstantsAssumption DEF Init
<1>. QED
  BY <1>1, <1>2, <1>3, <1>4, <1>5
  DEF Init, TypeOK, AcqType, Mails, InTest, TestPlaces

\* What the hardware does keeps its types.
HardwareTypes ==
  /\ line \in {"high", "low"}
  /\ source \in SUs
  /\ flag \in BOOLEAN /\ enabled \in BOOLEAN
  /\ peak \in [SUs -> SUBSET Hits]
  /\ counters \in Hits \cup {NO_HIT}

LEMMA EdgeTypes ==
  ASSUME HardwareTypes, NEW s \in SUs, NEW h \in Hits, Edge(s, h)
  PROVE  HardwareTypes'
BY DEF Edge, HardwareTypes

LEMMA SetTypes ==
  ASSUME HardwareTypes,
         \/ ResetDelayCounters
         \/ \E units \in SUBSET SUs : ResetPeakDetectors(units)
         \/ \E value \in BOOLEAN : SetTrigger(value) \/ SetFlag(value)
         \/ UNCHANGED hardware
  PROVE  HardwareTypes'
BY DEF ResetDelayCounters, ResetPeakDetectors, SetTrigger, SetFlag, HardwareTypes, hardware

\* The hit trigger task converts the peaks of a unit and mails it.
LEMMA HandleTypes ==
  ASSUME TypeOK, HandleHitTrigger
  PROVE  /\ HardwareTypes'
         /\ hit_budget_left' \in 0 .. hit_budget
         /\ ADC_result' \subseteq Hits
         /\ mailbox' \in Seq(Mails) /\ Len(mailbox') <= MailboxSize
         /\ mailbox' # <<>> \/ ~enabled'
         /\ SU_state' \in [SUs -> States]
         /\ UNCHANGED <<self_test_SU_number, mode>>
<1>. USE ConstantsAssumption DEF TypeOK
<1>1. CASE ExceedBudget
  BY <1>1 DEF ExceedBudget, HardwareTypes, triggerVars, unitVars, Mails
<1>2. CASE HandleWith(hit_budget_left)
  <2>. DEFINE trigger == IF self_test_SU_number # NO_SU THEN self_test_SU_number ELSE source
  <2>1. trigger \in SUs
    OBVIOUS
  <2>2. hit_budget_left' \in 0 .. hit_budget
    BY <1>2 DEF HandleWith
  <2>3. PICK mail \in Mails :
          mailbox' = IF Len(mailbox) < MailboxSize THEN Append(mailbox, mail) ELSE mailbox
    BY <1>2, <2>1 DEF HandleWith, Mails
  <2>4. ADC_result' \subseteq Hits
    BY <1>2, <2>1 DEF HandleWith
  <2>5. mailbox' \in Seq(Mails) /\ Len(mailbox') <= MailboxSize /\ mailbox' # <<>>
    <3>1. mailbox \in Seq(Mails)
      BY DEF Mails
    <3>2. CASE Len(mailbox) < MailboxSize
      BY <2>3, <3>1, <3>2, Queues
    <3>3. CASE ~ (Len(mailbox) < MailboxSize)
      BY <2>3, <3>1, <3>3
    <3>. QED  BY <3>2, <3>3
  <2>6. SU_state' \in [SUs -> States]
    BY <1>2, <2>1 DEF HandleWith, States
  <2>7. HardwareTypes'
    BY <1>2, SetTypes DEF HandleWith, HardwareTypes
  <2>. QED  BY <1>2, <2>2, <2>4, <2>5, <2>6, <2>7 DEF HandleWith
<1>. QED  BY <1>1, <1>2 DEF HandleHitTrigger

LEMMA TypeOKStep == TypeOK /\ [Next]_vars => TypeOK'
<1>. SUFFICES ASSUME TypeOK, [Next]_vars
              PROVE  TypeOK'
  OBVIOUS
<1>0. HardwareTypes
  BY DEF TypeOK, HardwareTypes
<1>. USE DEF TypeOK
<1>1. ASSUME NEW s \in SUs, Particle(s)
      PROVE  TypeOK'
  <2>1. Len(hits) + 1 \in Hits /\ hits' \in Seq(SUs) /\ Len(hits') <= MaxHits
    BY <1>1, ConstantsAssumption DEF Particle, Hits
  <2>2. HardwareTypes'
    BY <1>0, <1>1, <2>1, EdgeTypes DEF Particle
  <2>3. overlapped' \in BOOLEAN
    BY <1>1 DEF Particle, Overlaps, Unexpected, AcqIdle
  <2>. QED
    BY <1>1, <2>1, <2>2, <2>3
    DEF Particle, HardwareTypes, triggerVars, unitVars, healthVars, InTest
<1>2. CASE HandleHitTrigger
  BY <1>2, HandleTypes DEF HandleHitTrigger, HardwareTypes, Mails, healthVars, InTest
<1>3. CASE TelecommandTask
  <2>1. CASE StartAcquisition
    BY <2>1 DEF StartAcquisition, NextStatement, hardware, triggerVars, healthVars, InTest, States
  <2>2. CASE ClearFlag
    <3>1. HardwareTypes'
      BY <1>0, <2>2, SetTypes DEF ClearFlag
    <3>. QED
      BY <2>2, <3>1
      DEF ClearFlag, NextStatement, HardwareTypes, triggerVars, unitVars, healthVars, InTest,
          Overlaps
  <2>3. CASE ResetAndAcquire
    <3>1. HardwareTypes'
      BY <1>0, <2>3, SetTypes DEF ResetAndAcquire
    <3>2. overlapped' \in BOOLEAN
      BY <2>3 DEF ResetAndAcquire, Overlaps, AcqIdle
    <3>. QED
      BY <2>3, <3>1, <3>2
      DEF ResetAndAcquire, NextStatement, HardwareTypes, triggerVars, healthVars, InTest
  <2>4. CASE StopAcquisition
    BY <2>4 DEF StopAcquisition, hardware, triggerVars, healthVars, InTest, States
  <2>5. ASSUME NEW s \in SUs, StartSelfTest(s)
        PROVE  TypeOK'
    BY <2>5 DEF StartSelfTest, hardware, triggerVars, healthVars, InTest, States
  <2>. QED  BY <1>3, <2>1, <2>2, <2>3, <2>4, <2>5 DEF TelecommandTask
<1>4. CASE AcquisitionTask
  <2>. USE DEF AcqKeeps, unitVars, healthVars, InTest
  <2>0. acq \in AcqType /\ mailbox \in Seq(Mails)
    BY DEF AcqType, Mails
  <2>1. CASE WaitMail
    <3>1. Head(mailbox) \in Mails /\ Tail(mailbox) \in Seq(Mails) /\ Len(Tail(mailbox)) <= MailboxSize
      BY <2>0, <2>1, ConstantsAssumption, Queues DEF WaitMail
    <3>2. acq' \in AcqType
      BY <2>0, <2>1, <3>1 DEF WaitMail, AcqType, AcqPlaces
    <3>. QED  BY <2>1, <3>1, <3>2 DEF WaitMail, hardware, AcqType, Mails
  <2>2. CASE LookAtUnit
    <3>1. SU_state[acq.trigger_unit.unit] \in States
      BY <2>0 DEF AcqType, Mails
    <3>2. acq' \in AcqType
      BY <2>0, <2>2, <3>1 DEF LookAtUnit, AcqType, AcqPlaces
    <3>. QED  BY <2>2, <3>2 DEF LookAtUnit, hardware, AcqType, Mails
  <2>3. CASE CopyResults
    <3>1. acq' \in AcqType
      BY <2>0, <2>3 DEF CopyResults, AcqType, AcqPlaces
    <3>. QED  BY <2>3, <3>1 DEF CopyResults, hardware, AcqType, Mails
  <2>4. CASE ReadDelayCounters
    <3>1. acq' \in AcqType
      BY <2>0, <2>4 DEF ReadDelayCounters, AcqType, AcqPlaces
    <3>. QED  BY <2>4, <3>1 DEF ReadDelayCounters, hardware, AcqType, Mails
  <2>5. CASE RecordEvent
    <3>1. acq' = [NoMail EXCEPT !.at = "reset_peak", !.trigger_unit = acq.trigger_unit]
      BY <2>5 DEF RecordEvent
    <3>2. acq' \in AcqType
      BY <2>0, <3>1, NoMailType DEF AcqType, AcqPlaces
    <3>. QED  BY <2>5, <3>2 DEF RecordEvent, hardware, AcqType, Mails
  <2>6. CASE ResetPeakDetector
    <3>1. {acq.trigger_unit.unit} \subseteq SUs
      OBVIOUS
    <3>2. HardwareTypes'
      BY <1>0, <2>6, <3>1, SetTypes DEF ResetPeakDetector, ResetsPeak
    <3>3. acq' \in AcqType
      BY <2>0, <2>6 DEF ResetPeakDetector, ResetsPeak, AcqType, AcqPlaces
    <3>. QED
      BY <2>6, <3>2, <3>3 DEF ResetPeakDetector, ResetsPeak, HardwareTypes, AcqType, Mails
  <2>7. CASE EndAcquisition
    <3>1. HardwareTypes'
      BY <1>0, <2>7, SetTypes DEF EndAcquisition
    <3>2. acq' \in AcqType
      BY <2>7, NoMailType DEF EndAcquisition
    <3>. QED  BY <2>7, <3>1, <3>2 DEF EndAcquisition, HardwareTypes, AcqType, Mails
  <2>. QED  BY <1>4, <2>1, <2>2, <2>3, <2>4, <2>5, <2>6, <2>7 DEF AcquisitionTask
<1>5. CASE HealthMonitoringTask
  <2>. USE ConstantsAssumption
       DEF HealthKeeps, KeepUnits, OnlyHardware, At, Goto, InTest, TestPlaces, HealthPlaces
  <2>1. CASE WaitInterval
    BY <2>1 DEF WaitInterval, hardware
  <2>2. CASE SelfTest_SU
    BY <2>2, SMTT(60) DEF SelfTest_SU, EndRound, NextRound, hardware, States
  <2>3. CASE NoSelfTest
    BY <2>3, SMTT(60) DEF NoSelfTest, EndRound, NextRound, hardware
  <2>4. CASE SelfTestChannel
    <3>1. HardwareTypes'
      BY <1>0, <2>4, SetTypes DEF SelfTestChannel
    <3>. QED  BY <2>4, <3>1 DEF SelfTestChannel, ToBeTested, HardwareTypes
  <2>5. CASE PrepareTest
    <3>1. {self_test_SU_number} \subseteq SUs
      BY <2>5 DEF PrepareTest
    <3>2. HardwareTypes'
      BY <1>0, <2>5, <3>1, SetTypes DEF PrepareTest
    <3>. QED  BY <2>5, <3>2 DEF PrepareTest, HardwareTypes
  <2>6. CASE ClearTestFlag
    <3>1. HardwareTypes'
      BY <1>0, <2>6, SetTypes DEF ClearTestFlag
    <3>. QED  BY <2>6, <3>1 DEF ClearTestFlag, HardwareTypes
  <2>7. CASE ResetForTest
    <3>1. HardwareTypes'
      BY <1>0, <2>7, SetTypes DEF ResetForTest
    <3>. QED  BY <2>7, <3>1 DEF ResetForTest, ResetsForTest, HardwareTypes
  <2>8. CASE ExpectPulse
    BY <2>8 DEF ExpectPulse, hardware, States
  <2>9. CASE EnableForTest
    <3>1. HardwareTypes'
      BY <1>0, <2>9, SetTypes DEF EnableForTest
    <3>. QED  BY <2>9, <3>1 DEF EnableForTest, HardwareTypes
  <2>10. CASE TestPulse
    <3>1. self_test_SU_number \in SUs /\ PULSE \in Hits
      BY <2>10 DEF TestPulse, Hits
    <3>2. ASSUME Edge(self_test_SU_number, PULSE)
          PROVE  HardwareTypes'
      BY <1>0, <3>1, <3>2, EdgeTypes
    <3>3. ASSUME PeakOfPulse, flag' \in BOOLEAN, UNCHANGED <<line, source, enabled, counters>>
          PROVE  HardwareTypes'
      <4>1. peak' \in [SUs -> SUBSET Hits]
        BY <3>1, <3>3 DEF PeakOfPulse
      <4>. QED  BY <1>0, <3>3, <4>1 DEF HardwareTypes
    <3>4. HardwareTypes'
      BY <2>10, <3>2, <3>3 DEF TestPulse
    <3>. QED  BY <2>10, <3>4 DEF TestPulse, HardwareTypes
  <2>11. CASE EndPulse
    <3>1. HardwareTypes'
      BY <1>0, <2>11, SetTypes DEF EndPulse
    <3>. QED  BY <2>11, <3>1 DEF EndPulse, HardwareTypes
  <2>12. CASE JudgeTest
    <3>1. SU_state' \in [SUs -> States] /\ self_test_SU_number \in SUs
      BY <2>12 DEF JudgeTest, States
    <3>2. health' \in [at : HealthPlaces, test : 1 .. ChannelTests]
      BY <2>12 DEF JudgeTest
    <3>. QED  BY <2>12, <3>1, <3>2 DEF JudgeTest, hardware
  <2>13. CASE EnableAfterTests
    <3>1. HardwareTypes'
      BY <1>0, <2>13, SetTypes DEF EnableAfterTests
    <3>. QED  BY <2>13, <3>1 DEF EnableAfterTests, HardwareTypes
  <2>14. CASE PseudoTrigger
    <3>1. HardwareTypes'
      BY <1>0, <2>14, SetTypes DEF PseudoTrigger
    <3>. QED  BY <2>14, <3>1 DEF PseudoTrigger, HardwareTypes
  <2>15. CASE RestoreSettings
    BY <2>15 DEF RestoreSettings, EndRound, NextRound, hardware, States
  <2>16. CASE NewBudget
    BY <2>16 DEF NewBudget, NewPeriod, ContinueAt, EndRound, NextRound, hardware
  <2>17. CASE ResetAllPeaks
    <3>1. HardwareTypes'
      BY <1>0, <2>17, SetTypes DEF ResetAllPeaks
    <3>. QED
      BY <2>17, <3>1
      DEF ResetAllPeaks, InPeriodStart, NextStep, ContinueAt, EndRound, NextRound, HardwareTypes
  <2>18. CASE AllowHits
    <3>1. HardwareTypes'
      BY <1>0, <2>18, SetTypes DEF AllowHits
    <3>. QED
      BY <2>18, <3>1
      DEF AllowHits, InPeriodStart, NextStep, ContinueAt, EndRound, NextRound, HardwareTypes
  <2>19. CASE Rearm
    <3>1. HardwareTypes'
      BY <1>0, <2>19, SetTypes DEF Rearm
    <3>. QED
      BY <2>19, <3>1, SMTT(60)
      DEF Rearm, InPeriodStart, NextStep, ContinueAt, EndRound, NextRound, HardwareTypes
  <2>. QED
    BY <1>5, <2>1, <2>2, <2>3, <2>4, <2>5, <2>6, <2>7, <2>8, <2>9, <2>10, <2>11,
       <2>12, <2>13, <2>14, <2>15, <2>16, <2>17, <2>18, <2>19
    DEF HealthMonitoringTask
<1>6. CASE UNCHANGED vars
  BY <1>6 DEF vars, hardware, triggerVars, unitVars, healthVars, InTest
<1>. QED
  BY <1>1, <1>2, <1>3, <1>4, <1>5, <1>6 DEF Next

\* No unit number, place or budget leaves its range, and a channel test has a
\* unit under test.
THEOREM TypeCorrect == Spec => []TypeOK
<1>. QED  BY TypeOKInit, TypeOKStep, PTL DEF Spec

----------------------------------------------------------------------------
(* The line is never low and forgotten *)

\* In the three steps of START_ACQUISITION the mode is still standby.
StartsFromStandby == tc # "waiting" => mode = "STAND_BY"

\* The pseudo trigger is handled, or the trigger disabled, before the test ends.
PseudoTriggerKnown ==
  health.at = "restore" /\ tc = "waiting" /\ line = "low" => flag \/ ~AcqIdle \/ ~enabled

LineInv == LowLineIsKnown /\ StartsFromStandby /\ PseudoTriggerKnown

LEMMA LineInvInit == Init => LineInv
BY DEF Init, LineInv, LowLineIsKnown, StartsFromStandby, PseudoTriggerKnown

LEMMA LineInvStep == TypeOK /\ LineInv /\ [Next]_vars => LineInv'
<1>. SUFFICES ASSUME TypeOK, LineInv, [Next]_vars
              PROVE  LineInv'
  OBVIOUS
<1>. USE DEF LineInv, LowLineIsKnown, StartsFromStandby, PseudoTriggerKnown, AcqIdle, InTest
<1>1. ASSUME NEW s \in SUs, Particle(s)
      PROVE  LineInv'
  BY <1>1 DEF Particle, Edge, triggerVars, unitVars, healthVars
<1>2. CASE HandleHitTrigger
  <2>1. mailbox' # <<>> \/ ~enabled'
    BY <1>2, HandleTypes
  <2>2. UNCHANGED <<line, mode, tc, health, acq>>
    BY <1>2 DEF HandleHitTrigger, HandleWith, ExceedBudget, SetFlag, unitVars, healthVars
  <2>. QED  BY <2>1, <2>2
<1>3. CASE TelecommandTask
  <2>. USE DEF hardware, triggerVars, healthVars, unitVars, NextStatement
  <2>1. CASE StartAcquisition
    BY <2>1 DEF StartAcquisition
  <2>2. CASE ClearFlag
    BY <2>2 DEF ClearFlag, SetFlag
  <2>3. CASE ResetAndAcquire
    BY <2>3 DEF ResetAndAcquire, ResetDelayCounters
  <2>4. CASE StopAcquisition
    BY <2>4 DEF StopAcquisition
  <2>5. ASSUME NEW s \in SUs, StartSelfTest(s)
        PROVE  LineInv'
    BY <2>5 DEF StartSelfTest
  <2>. QED  BY <1>3, <2>1, <2>2, <2>3, <2>4, <2>5 DEF TelecommandTask
<1>4. CASE AcquisitionTask
  <2>1. CASE EndAcquisition
    BY <2>1 DEF EndAcquisition, ResetDelayCounters, AcqKeeps, unitVars
  <2>2. CASE ~EndAcquisition
    <3>1. acq'.at # "wait_mail"
      BY <1>4, <2>2
      DEF AcquisitionTask, WaitMail, LookAtUnit, CopyResults, ReadDelayCounters, RecordEvent,
          ResetPeakDetector, ResetsPeak, NoMail, TypeOK
    <3>2. UNCHANGED <<mode, tc>> /\ health' = health
      BY <1>4, <2>2
      DEF AcquisitionTask, WaitMail, LookAtUnit, CopyResults, ReadDelayCounters, RecordEvent,
          ResetPeakDetector, ResetsPeak, AcqKeeps, unitVars, healthVars
    <3>. QED  BY <3>1, <3>2
  <2>. QED  BY <2>1, <2>2
<1>5. CASE HealthMonitoringTask
  <2>. USE DEF HealthKeeps, OnlyHardware, At, Goto, MayRunHealth, MayRunAcq, TestPlaces, TypeOK
  <2>1. CASE WaitInterval
    BY <2>1 DEF WaitInterval, hardware
  <2>2. CASE SelfTest_SU
    BY <2>2 DEF SelfTest_SU, EndRound, hardware
  <2>3. CASE NoSelfTest
    BY <2>3 DEF NoSelfTest, EndRound, hardware
  <2>4. CASE SelfTestChannel \/ PrepareTest \/ ClearTestFlag \/ ResetForTest \/ ExpectPulse
             \/ EnableForTest \/ TestPulse \/ EndPulse
    <3>1. /\ health'.at \in {"prepare", "clear", "reset", "expect", "enable", "pulse",
                             "disable", "judge"}
          /\ UNCHANGED <<mode, tc>>
      <4>1. CASE SelfTestChannel
        BY <4>1 DEF SelfTestChannel
      <4>2. CASE PrepareTest \/ ClearTestFlag \/ ResetForTest
        BY <4>2 DEF PrepareTest, ClearTestFlag, ResetForTest, ResetsForTest
      <4>3. CASE ExpectPulse \/ EnableForTest
        BY <4>3 DEF ExpectPulse, EnableForTest
      <4>4. CASE TestPulse
        BY <4>4 DEF TestPulse
      <4>5. CASE EndPulse
        BY <4>5 DEF EndPulse
      <4>. QED  BY <2>4, <4>1, <4>2, <4>3, <4>4, <4>5
    <3>. QED  BY <3>1
  <2>5. CASE JudgeTest
    <3>1. health'.at \in {"prepare", "enable_last"} /\ UNCHANGED <<mode, tc>>
      BY <2>5 DEF JudgeTest
    <3>. QED  BY <3>1
  <2>6. CASE EnableAfterTests
    BY <2>6 DEF EnableAfterTests
  <2>7. CASE PseudoTrigger
    BY <2>7 DEF PseudoTrigger, SetFlag
  <2>8. CASE RestoreSettings
    BY <2>8 DEF RestoreSettings, EndRound, hardware
  <2>9. CASE NewBudget
    BY <2>9 DEF NewBudget, NewPeriod, ContinueAt, EndRound, hardware
  <2>10. CASE ResetAllPeaks
    BY <2>10 DEF ResetAllPeaks, InPeriodStart, NextStep, ContinueAt, EndRound, ResetPeakDetectors
  <2>11. CASE AllowHits
    BY <2>11 DEF AllowHits, InPeriodStart, NextStep, ContinueAt, EndRound, SetTrigger
  <2>12. CASE Rearm
    BY <2>12 DEF Rearm, InPeriodStart, NextStep, ContinueAt, EndRound, ResetDelayCounters
  <2>. QED
    BY <1>5, <2>1, <2>2, <2>3, <2>4, <2>5, <2>6, <2>7, <2>8, <2>9, <2>10, <2>11, <2>12
    DEF HealthMonitoringTask
<1>6. CASE UNCHANGED vars
  BY <1>6 DEF vars, hardware, triggerVars, unitVars, healthVars
<1>. QED
  BY <1>1, <1>2, <1>3, <1>4, <1>5, <1>6 DEF Next

\* In acquisition mode a trigger line that is low has a task that will raise it,
\* whatever particles, telecommands and self tests come at whatever moment:
\* the orders that START_ACQUISITION and round 0 of Monitor call vital are right.
THEOREM LowLineIsAlwaysKnown == Spec => []LowLineIsKnown
<1>1. Init => TypeOK /\ LineInv
  BY TypeOKInit, LineInvInit
<1>2. TypeOK /\ LineInv /\ [Next]_vars => (TypeOK /\ LineInv)'
  BY TypeOKStep, LineInvStep
<1>3. LineInv => LowLineIsKnown
  BY DEF LineInv
<1>. QED  BY <1>1, <1>2, <1>3, PTL DEF Spec

----------------------------------------------------------------------------
(* Disabled only with an empty budget *)

\* After the channel tests only an empty budget disables the trigger.
DisabledAfterTests ==
  health.at \in {"pseudo_trigger", "restore"} /\ ~enabled => hit_budget_left = 0

DisabledInv == DisabledIsExceeded /\ DisabledAfterTests

LEMMA DisabledInvInit == Init => DisabledInv
BY DEF Init, DisabledInv, DisabledIsExceeded, DisabledAfterTests

LEMMA DisabledInvStep == TypeOK /\ DisabledInv /\ [Next]_vars => DisabledInv'
<1>. SUFFICES ASSUME TypeOK, DisabledInv, [Next]_vars
              PROVE  DisabledInv'
  OBVIOUS
<1>. USE DEF DisabledInv, DisabledIsExceeded, DisabledAfterTests, InTest, TypeOK
<1>1. CASE UNCHANGED <<enabled, hit_budget_left, health>>
  BY <1>1
<1>2. ASSUME NEW s \in SUs, Particle(s)
      PROVE  DisabledInv'
  BY <1>1, <1>2 DEF Particle, Edge, triggerVars, healthVars
<1>3. CASE HandleHitTrigger
  <2>1. UNCHANGED health
    BY <1>3 DEF HandleHitTrigger, healthVars
  <2>2. CASE ExceedBudget
    BY <2>1, <2>2 DEF ExceedBudget, triggerVars
  <2>3. CASE HandleWith(hit_budget_left)
    <3>1. hit_budget_left > 0 /\ enabled' = enabled
      BY <2>3 DEF HandleWith, SetFlag
    <3>2. hit_budget_left # 0
      BY <3>1
    <3>. QED  BY <2>1, <3>1, <3>2
  <2>. QED  BY <1>3, <2>2, <2>3 DEF HandleHitTrigger
<1>4. CASE TelecommandTask
  <2>1. UNCHANGED <<enabled, hit_budget_left, health>>
    BY <1>4
    DEF TelecommandTask, StartAcquisition, ClearFlag, ResetAndAcquire, StopAcquisition,
        StartSelfTest, SetFlag, ResetDelayCounters, hardware, triggerVars, healthVars
  <2>. QED  BY <1>1, <2>1
<1>5. CASE AcquisitionTask
  <2>1. UNCHANGED <<enabled, hit_budget_left, health>>
    BY <1>5
    DEF AcquisitionTask, WaitMail, LookAtUnit, CopyResults, ReadDelayCounters, RecordEvent,
        ResetPeakDetector, ResetsPeak, ResetPeakDetectors, EndAcquisition, ResetDelayCounters,
        AcqKeeps, hardware, healthVars
  <2>. QED  BY <1>1, <2>1
<1>6. CASE HealthMonitoringTask
  <2>. USE DEF HealthKeeps, OnlyHardware, At, Goto, TestPlaces
  <2>1. CASE WaitInterval
    BY <2>1 DEF WaitInterval, hardware
  <2>2. CASE SelfTest_SU
    BY <2>2 DEF SelfTest_SU, EndRound, hardware
  <2>3. CASE NoSelfTest
    BY <2>3 DEF NoSelfTest, EndRound, hardware
  <2>4. ASSUME health'.at \in {"prepare", "clear", "reset", "expect", "enable", "pulse",
                               "disable", "judge", "enable_last"}
        PROVE  DisabledInv'
    BY <2>4
  <2>5. CASE SelfTestChannel
    BY <2>4, <2>5 DEF SelfTestChannel
  <2>6. CASE PrepareTest \/ ClearTestFlag \/ ResetForTest
    BY <2>4, <2>6 DEF PrepareTest, ClearTestFlag, ResetForTest, ResetsForTest
  <2>7. CASE ExpectPulse \/ EnableForTest
    BY <2>4, <2>7 DEF ExpectPulse, EnableForTest
  <2>8. CASE TestPulse
    BY <2>4, <2>8 DEF TestPulse
  <2>9. CASE EndPulse
    BY <2>4, <2>9 DEF EndPulse
  <2>10. CASE JudgeTest
    BY <2>4, <2>10 DEF JudgeTest
  <2>11. CASE EnableAfterTests
    BY <2>11 DEF EnableAfterTests, SetTrigger
  <2>12. CASE PseudoTrigger
    BY <2>12 DEF PseudoTrigger, SetFlag
  <2>13. CASE RestoreSettings
    BY <2>13 DEF RestoreSettings, EndRound, hardware
  <2>14. CASE NewBudget
    BY <2>14 DEF NewBudget, NewPeriod, ContinueAt, EndRound, hardware
  <2>15. CASE ResetAllPeaks
    BY <2>15 DEF ResetAllPeaks, InPeriodStart, NextStep, ContinueAt, EndRound, ResetPeakDetectors
  <2>16. CASE AllowHits
    BY <2>16 DEF AllowHits, InPeriodStart, NextStep, ContinueAt, EndRound, SetTrigger
  <2>17. CASE Rearm
    BY <2>17 DEF Rearm, InPeriodStart, NextStep, ContinueAt, EndRound, ResetDelayCounters
  <2>. QED
    BY <1>6, <2>1, <2>2, <2>3, <2>5, <2>6, <2>7, <2>8, <2>9, <2>10, <2>11, <2>12, <2>13,
       <2>14, <2>15, <2>16, <2>17
    DEF HealthMonitoringTask
<1>7. CASE UNCHANGED vars
  BY <1>1, <1>7 DEF vars, hardware, triggerVars, healthVars
<1>. QED
  BY <1>2, <1>3, <1>4, <1>5, <1>6, <1>7 DEF Next

\* Outside the channel tests the trigger is disabled only because the hit budget
\* was exceeded, and until round 0 gives a new one: the comment in Monitor that
\* takes a disabled trigger for an exceeded budget is right.
THEOREM DisabledIsAlwaysExceeded == Spec => []DisabledIsExceeded
<1>1. Init => TypeOK /\ DisabledInv
  BY TypeOKInit, DisabledInvInit
<1>2. TypeOK /\ DisabledInv /\ [Next]_vars => (TypeOK /\ DisabledInv)'
  BY TypeOKStep, DisabledInvStep
<1>3. DisabledInv => DisabledIsExceeded
  BY DEF DisabledInv
<1>. QED  BY <1>1, <1>2, <1>3, PTL DEF Spec
============================================================================
