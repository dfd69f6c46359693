----------------------------- MODULE HitTrigger -----------------------------
(***************************************************************************)
(* From the hit trigger to the event record: the trigger line of the       *)
(* sensor units, its interrupt flag and enable bit, the hit budget, the    *)
(* measuring hardware and the mailbox of the Acquisition task, shared by   *)
(*                                                                         *)
(*   Hit trigger task (priority 3)   HandleHitTrigger                      *)
(*   TC execution task (priority 2)  START_ACQUISITION, STOP_ACQUISITION   *)
(*   Acquisition task (priority 1)   HandleAcquisition                     *)
(*   Health task (priority 0)        rounds 7, 6 and 0 of Monitor          *)
(*                                                                         *)
(* A hit pulls the trigger line low.  The falling edge sets the flag if    *)
(* the trigger is enabled at that moment, and is lost otherwise; the line  *)
(* stays low until ResetDelayCounters.  The hit trigger task runs as soon  *)
(* as the flag is set, but one statement of another task can still follow  *)
(* the edge, which matters where that statement clears the flag.           *)
(*                                                                         *)
(* A step of a task is the code from one access of the shared variables to *)
(* the next.  All sensor units are switched on (switching is in module     *)
(* SensorUnits); a particle that comes while the line is low, and what is  *)
(* counted in the telemetry, are left out.                                 *)
(***************************************************************************)
EXTENDS Integers, Sequences

CONSTANTS
  NUM_SU,         \* number of sensor units
  hit_budget,     \* hits handled in a period of ten rounds
  ChannelTests,   \* calls of ExecuteChannelTest in a self test
  SoftwareTests,  \* those whose trigger is set by software (PLASMA_2_PLUS)
  MailboxSize,    \* mails the kernel keeps for the Acquisition task
  MaxHits         \* bound: particles in a behaviour

ASSUME ConstantsAssumption ==
  /\ NUM_SU \in Nat \ {0}
  /\ hit_budget \in Nat \ {0}
  /\ ChannelTests \in Nat \ {0}
  /\ SoftwareTests \subseteq 1 .. ChannelTests
  /\ MailboxSize \in Nat \ {0}
  /\ MaxHits \in Nat

VARIABLES
  hits,                 \* history: the sensor unit of each particle
  line,                 \* T2EX: "high", or "low" after a hit
  source,               \* TRIGGER_SOURCE: the unit that pulled the line
  flag,                 \* EXF2
  enabled,              \* HIT_TRIGGER_FLAG
  peak,                 \* the hits held by the peak detectors of each unit
  counters,             \* the hit that the delay counters have measured
  hit_budget_left,
  ADC_result,           \* the hits whose peaks have been converted
  mailbox,              \* ACQUISITION_MAILBOX
  acq,                  \* the Acquisition task: place, trigger_unit, state, record
  SU_state,
  self_test_SU_number,  \* unit under self test, or NO_SU
  mode,
  tc,                   \* the TC task: where it is
  health_mon_round,
  health,               \* the health task: where it is, channel test
  overlapped            \* history: a particle or START_ACQUISITION has come at a
                        \* moment when the code does not expect it

hardware == <<line, source, flag, enabled, peak, counters>>
triggerVars == <<hit_budget_left, ADC_result, mailbox>>
unitVars == <<SU_state, self_test_SU_number, mode>>
healthVars == <<health_mon_round, health>>
vars == <<hits, hardware, triggerVars, acq, unitVars, tc, healthVars, overlapped>>

SUs == 1 .. NUM_SU
NO_SU == 0

\* Hits are the particles, by number, and the test pulses.
PULSE == 0
NO_HIT == -1
Hits == {PULSE} \cup 1 .. MaxHits

States == {"on_e", "self_test_mon_e", "self_test_e", "self_test_trigger_e",
           "acquisition_e"}

AcqPlaces == {"wait_mail", "look", "copy_results", "read_counters", "record",
              "reset_peak", "reset_again", "reset_counters"}
TestPlaces == {"prepare", "clear", "reset", "expect", "enable", "pulse", "disable",
               "judge", "enable_last", "pseudo_trigger", "restore"}
HealthPlaces == TestPlaces \cup {"interval", "round", "reset_all", "allow", "rearm"}

NoMail == [at |-> "wait_mail", trigger_unit |-> [unit |-> 1, marked |-> FALSE],
           state |-> "on_e", amplitudes |-> {}, delays |-> NO_HIT]
AcqIdle == acq.at = "wait_mail" /\ mailbox = <<>>
InTest == health.at \in TestPlaces

\* An overlap is START_ACQUISITION while a hit is being handled or the trigger is
\* disabled, or a particle at a moment when the code does not expect it: while a unit is
\* under test, for which the hit is then taken; while the trigger is disabled; or
\* while the Acquisition task still resets the hardware after a trigger that did
\* not come from the line.
Unexpected == self_test_SU_number # NO_SU \/ ~enabled \/ ~AcqIdle
Overlaps(condition) == overlapped' = (overlapped \/ condition)

----------------------------------------------------------------------------
(* SU logic *)

\* Hit h of unit s when the line is high.
Edge(s, h) ==
  /\ line' = "low"
  /\ source' = s
  /\ flag' = (flag \/ enabled)
  /\ counters' = h
  /\ peak' = [peak EXCEPT ![s] = @ \cup {h}]
  /\ UNCHANGED enabled

\* Particles that come while the line is low are left out.
Particle(s) ==
  /\ line = "high"
  /\ Len(hits) < MaxHits
  /\ hits' = Append(hits, s)
  /\ Edge(s, Len(hits) + 1)
  /\ Overlaps(Unexpected)
  /\ UNCHANGED <<triggerVars, acq, unitVars, tc, healthVars>>

ResetDelayCounters ==
  /\ line' = "high"
  /\ counters' = NO_HIT
  /\ UNCHANGED <<source, flag, enabled, peak>>

ResetPeakDetectors(units) ==
  /\ peak' = [s \in SUs |-> IF s \in units THEN {} ELSE peak[s]]
  /\ UNCHANGED <<line, source, flag, enabled, counters>>

SetTrigger(on) ==
  /\ enabled' = on
  /\ UNCHANGED <<line, source, flag, peak, counters>>

SetFlag(value) ==
  /\ flag' = value
  /\ UNCHANGED <<line, source, enabled, peak, counters>>

----------------------------------------------------------------------------
(* Hit trigger task *)

\* A hit is handled if there is budget left: peaks are converted and the unit
\* is mailed, marked if there is nothing to be recorded.
HandleWith(left) ==
  LET testing == self_test_SU_number # NO_SU
      trigger == IF testing THEN self_test_SU_number ELSE source
      reset == testing /\ SU_state[trigger] = "self_test_e"
  IN /\ left > 0
     /\ hit_budget_left' = left - 1
     /\ SU_state' = IF testing /\ SU_state[trigger] = "self_test_trigger_e"
                      THEN [SU_state EXCEPT ![trigger] = "self_test_e"] ELSE SU_state
     /\ \E adc_error \in BOOLEAN :
          /\ ADC_result' = IF adc_error THEN {} ELSE peak[trigger]
          /\ mailbox' = IF Len(mailbox) < MailboxSize
               THEN Append(mailbox, [unit |-> trigger, marked |-> reset \/ adc_error])
               ELSE mailbox
     /\ SetFlag(FALSE)
     /\ UNCHANGED <<self_test_SU_number, mode>>

ExceedBudget ==
  /\ hit_budget_left = 0
  /\ flag' = FALSE
  /\ enabled' = FALSE
  /\ UNCHANGED <<line, source, peak, counters, triggerVars, unitVars>>

HandleHitTrigger ==
  /\ flag
  /\ HandleWith(hit_budget_left) \/ ExceedBudget
  /\ UNCHANGED <<hits, acq, tc, healthVars, overlapped>>

----------------------------------------------------------------------------
(* TC execution task *)

MayRunTC == ~flag

\* START_ACQUISITION in three steps: the units, the flag, and the line with the
\* mode.  "This statement must come after the above clear, because a reversed
\* order could create a deadlock situation."
MutantNextStatement == [units |-> "reset", reset |-> "clear", clear |-> "waiting"]
NextStatement == [units |-> "clear", clear |-> "reset", reset |-> "waiting"]

StartAcquisition ==
  /\ MayRunTC
  /\ tc = "waiting" /\ mode = "STAND_BY"
  /\ SU_state' = [s \in SUs |-> IF SU_state[s] = "on_e" THEN "acquisition_e" ELSE SU_state[s]]
  /\ tc' = NextStatement.units
  /\ UNCHANGED <<hits, hardware, triggerVars, acq, self_test_SU_number, mode>>
  /\ UNCHANGED <<healthVars, overlapped>>

ClearFlag ==
  /\ tc = "clear"
  /\ SetFlag(FALSE)
  /\ tc' = NextStatement.clear
  /\ Overlaps(flag)
  /\ UNCHANGED <<hits, triggerVars, acq, unitVars, healthVars>>

ResetAndAcquire ==
  /\ MayRunTC
  /\ tc = "reset"
  /\ ResetDelayCounters
  /\ mode' = "ACQUISITION"
  /\ tc' = NextStatement.reset
  /\ Overlaps(~AcqIdle \/ ~enabled)
  /\ UNCHANGED <<hits, triggerVars, acq, SU_state, self_test_SU_number, healthVars>>

StopAcquisition ==
  /\ MayRunTC
  /\ tc = "waiting" /\ mode = "ACQUISITION"
  /\ SU_state' = [s \in SUs |-> IF SU_state[s] = "acquisition_e" THEN "on_e" ELSE SU_state[s]]
  /\ mode' = "STAND_BY"
  /\ UNCHANGED <<hits, hardware, triggerVars, acq, self_test_SU_number, tc>>
  /\ UNCHANGED <<healthVars, overlapped>>

\* SWITCH_SU with SELF_TEST.
StartSelfTest(s) ==
  /\ MayRunTC
  /\ tc = "waiting" /\ mode # "ACQUISITION"
  /\ SU_state[s] = "on_e" /\ self_test_SU_number = NO_SU
  /\ self_test_SU_number' = s
  /\ SU_state' = [SU_state EXCEPT ![s] = "self_test_mon_e"]
  /\ UNCHANGED <<hits, hardware, triggerVars, acq, mode, tc, healthVars, overlapped>>

TelecommandTask ==
  \/ StartAcquisition \/ ClearFlag \/ ResetAndAcquire
  \/ StopAcquisition
  \/ \E s \in SUs : StartSelfTest(s)

----------------------------------------------------------------------------
(* Acquisition task *)

MayRunAcq == ~flag /\ tc = "waiting"
AcqKeeps == UNCHANGED <<hits, unitVars, tc, healthVars, overlapped, hit_budget_left, ADC_result>>

WaitMail ==
  /\ MayRunAcq
  /\ acq.at = "wait_mail" /\ mailbox # <<>>
  /\ acq' = [acq EXCEPT !.at = "look", !.trigger_unit = Head(mailbox)]
  /\ mailbox' = Tail(mailbox)
  /\ AcqKeeps /\ UNCHANGED hardware

\* The event is recorded only in two states, and if EVENT_FLAG says so.
LookAtUnit ==
  LET state == SU_state[acq.trigger_unit.unit]
  IN /\ MayRunAcq
     /\ acq.at = "look"
     /\ \/ /\ ~acq.trigger_unit.marked
           /\ state \in {"self_test_e", "acquisition_e"}
           /\ acq' = [acq EXCEPT !.at = "copy_results", !.state = state]
        \/ acq' = [acq EXCEPT !.at = "reset_peak"]
     /\ AcqKeeps /\ UNCHANGED <<hardware, mailbox>>

CopyResults ==
  /\ MayRunAcq
  /\ acq.at = "copy_results"
  /\ acq' = [acq EXCEPT !.at = "read_counters", !.amplitudes = ADC_result]
  /\ AcqKeeps /\ UNCHANGED <<hardware, mailbox>>

ReadDelayCounters ==
  /\ MayRunAcq
  /\ acq.at = "read_counters"
  /\ acq' = [acq EXCEPT !.at = "record", !.delays = counters]
  /\ AcqKeeps /\ UNCHANGED <<hardware, mailbox>>

\* ClassifyEvent and RecordEvent, see ScienceData.
RecordEvent ==
  /\ MayRunAcq
  /\ acq.at = "record"
  /\ acq' = [NoMail EXCEPT !.at = "reset_peak", !.trigger_unit = acq.trigger_unit]
  /\ AcqKeeps /\ UNCHANGED <<hardware, mailbox>>

\* WaitTimeout comes before each of the three resets.
ResetsPeak(units) ==
  /\ MayRunAcq
  /\ acq.at \in {"reset_peak", "reset_again"}
  /\ ResetPeakDetectors(units)
  /\ acq' = [acq EXCEPT !.at = IF @ = "reset_peak" THEN "reset_again" ELSE "reset_counters"]
  /\ AcqKeeps /\ UNCHANGED mailbox

MutantNoPeakReset == ResetsPeak({})
ResetPeakDetector == ResetsPeak({acq.trigger_unit.unit})

EndAcquisition ==
  /\ MayRunAcq
  /\ acq.at = "reset_counters"
  /\ ResetDelayCounters
  /\ acq' = NoMail
  /\ AcqKeeps /\ UNCHANGED mailbox

AcquisitionTask ==
  \/ WaitMail \/ LookAtUnit \/ CopyResults \/ ReadDelayCounters \/ RecordEvent
  \/ ResetPeakDetector \/ EndAcquisition

----------------------------------------------------------------------------
(* Health task *)

\* It runs while the Acquisition task waits for mail or for a reset.
MayRunHealth ==
  /\ MayRunAcq
  /\ AcqIdle \/ acq.at \in {"reset_peak", "reset_again", "reset_counters"}

At(place) == MayRunHealth /\ health.at = place
Goto(place) == health' = [health EXCEPT !.at = place]
HealthKeeps == UNCHANGED <<hits, ADC_result, mailbox, acq, mode, tc>>
KeepUnits == UNCHANGED <<SU_state, self_test_SU_number>>
OnlyHardware == UNCHANGED <<hit_budget_left, health_mon_round, overlapped>>

\* The rounds that matter here.
NextRound(round) == CASE round = 7 -> 6 [] round = 6 -> 0 [] round = 0 -> 7
EndRound == Goto("interval") /\ health_mon_round' = NextRound(health_mon_round)

\* A second passes, in which the Acquisition task, which needs 30 ms for a hit
\* and gets no more than a budget of them, is idle at least once.
WaitInterval ==
  /\ At("interval") /\ AcqIdle
  /\ Goto("round")
  /\ HealthKeeps /\ KeepUnits /\ OnlyHardware /\ UNCHANGED hardware

\* Round 7: a unit that is to be tested is measured (see SensorUnits).
SelfTest_SU ==
  /\ At("round") /\ health_mon_round = 7
  /\ SU_state' = IF self_test_SU_number = NO_SU THEN SU_state
                 ELSE [SU_state EXCEPT ![self_test_SU_number] = "self_test_e"]
  /\ EndRound
  /\ HealthKeeps
  /\ UNCHANGED <<hardware, self_test_SU_number, hit_budget_left, overlapped>>

\* Round 6: its channels are tested.
ToBeTested == self_test_SU_number # NO_SU /\ SU_state[self_test_SU_number] = "self_test_e"

NoSelfTest ==
  /\ At("round") /\ health_mon_round = 6 /\ ~ToBeTested
  /\ EndRound
  /\ HealthKeeps /\ KeepUnits
  /\ UNCHANGED <<hardware, hit_budget_left, overlapped>>

SelfTestChannel ==
  /\ At("round") /\ health_mon_round = 6 /\ ToBeTested
  /\ SetTrigger(FALSE)
  /\ health' = [at |-> "prepare", test |-> 1]
  /\ HealthKeeps /\ KeepUnits /\ OnlyHardware

\* ExecuteChannelTest.  It waits three times as the Acquisition task does, and
\* so until that is idle if it had one hit to handle.
PrepareTest ==
  /\ At("prepare")
  /\ AcqIdle \/ overlapped
  /\ ResetPeakDetectors({self_test_SU_number})
  /\ Goto("clear")
  /\ HealthKeeps /\ KeepUnits /\ OnlyHardware

ClearTestFlag ==
  /\ At("clear")
  /\ SetFlag(FALSE)
  /\ Goto("reset")
  /\ HealthKeeps /\ KeepUnits /\ OnlyHardware

ResetsForTest ==
  /\ At("reset")
  /\ Goto("expect")
  /\ HealthKeeps /\ KeepUnits /\ OnlyHardware

MutantNoReset == ResetsForTest /\ UNCHANGED hardware
ResetForTest == ResetsForTest /\ ResetDelayCounters

ExpectPulse ==
  /\ At("expect")
  /\ SU_state' = [SU_state EXCEPT ![self_test_SU_number] = "self_test_trigger_e"]
  /\ Goto("enable")
  /\ HealthKeeps /\ OnlyHardware /\ UNCHANGED <<hardware, self_test_SU_number>>

EnableForTest ==
  /\ At("enable")
  /\ SetTrigger(TRUE)
  /\ Goto("pulse")
  /\ HealthKeeps /\ KeepUnits /\ OnlyHardware

\* The pulse is seen by the peak detectors in any case.
PeakOfPulse == peak' = [peak EXCEPT ![self_test_SU_number] = @ \cup {PULSE}]

TestPulse ==
  /\ At("pulse")
  /\ \/ /\ health.test \in SoftwareTests
        /\ flag' = TRUE
        /\ PeakOfPulse
        /\ UNCHANGED <<line, source, enabled, counters>>
     \/ /\ health.test \notin SoftwareTests /\ line = "high"
        /\ Edge(self_test_SU_number, PULSE)
     \/ /\ health.test \notin SoftwareTests /\ line = "low"
        /\ PeakOfPulse
        /\ UNCHANGED <<line, source, flag, enabled, counters>>
  /\ Goto("disable")
  /\ HealthKeeps /\ KeepUnits /\ OnlyHardware

EndPulse ==
  /\ At("disable")
  /\ SetTrigger(FALSE)
  /\ Goto("judge")
  /\ HealthKeeps /\ KeepUnits /\ OnlyHardware

JudgeTest ==
  LET missed == SU_state[self_test_SU_number] = "self_test_trigger_e"
  IN /\ At("judge")
     /\ SU_state' = [SU_state EXCEPT ![self_test_SU_number] =
          IF missed THEN "self_test_e" ELSE @]
     /\ health' = IF health.test < ChannelTests
                    THEN [at |-> "prepare", test |-> health.test + 1]
                    ELSE [at |-> "enable_last", test |-> 1]
     /\ HealthKeeps
     /\ UNCHANGED <<hardware, hit_budget_left, self_test_SU_number, health_mon_round, overlapped>>

\* The end of SelfTestChannel, with a pseudo trigger.
EnableAfterTests ==
  /\ At("enable_last")
  /\ SetTrigger(TRUE)
  /\ Goto("pseudo_trigger")
  /\ HealthKeeps /\ KeepUnits /\ OnlyHardware

PseudoTrigger ==
  /\ At("pseudo_trigger")
  /\ SetFlag(TRUE)
  /\ Goto("restore")
  /\ HealthKeeps /\ KeepUnits /\ OnlyHardware

RestoreSettings ==
  /\ At("restore")
  /\ SU_state' = [SU_state EXCEPT ![self_test_SU_number] = "on_e"]
  /\ self_test_SU_number' = NO_SU
  /\ EndRound
  /\ HealthKeeps /\ UNCHANGED <<hardware, hit_budget_left, overlapped>>

\* Round 0: a new budget; if the trigger had been disabled all peaks are reset,
\* the trigger is enabled, and only then the line is raised: edges that come
\* before "are not remembered".
MutantNextStep == [reset_all |-> "rearm", rearm |-> "allow", allow |-> "interval"]
NextStep == [reset_all |-> "allow", allow |-> "rearm", rearm |-> "interval"]

ContinueAt(place) ==
  IF place = "interval" THEN EndRound ELSE Goto(place) /\ UNCHANGED health_mon_round

NewPeriod(budget, disabled) ==
  /\ At("round") /\ health_mon_round = 0
  /\ hit_budget_left' = budget
  /\ ContinueAt(IF disabled THEN "reset_all" ELSE "interval")
  /\ HealthKeeps /\ KeepUnits /\ UNCHANGED <<hardware, overlapped>>

MutantStaysDisabled == NewPeriod(hit_budget, FALSE)
NewBudget == NewPeriod(hit_budget, ~enabled)

InPeriodStart(place) ==
  /\ At(place)
  /\ ContinueAt(NextStep[place])
  /\ HealthKeeps /\ KeepUnits /\ UNCHANGED <<hit_budget_left, overlapped>>

ResetAllPeaks == InPeriodStart("reset_all") /\ ResetPeakDetectors(SUs)
AllowHits == InPeriodStart("allow") /\ SetTrigger(TRUE)
Rearm == InPeriodStart("rearm") /\ ResetDelayCounters

HealthMonitoringTask ==
  \/ WaitInterval \/ SelfTest_SU \/ NoSelfTest \/ SelfTestChannel
  \/ PrepareTest \/ ClearTestFlag \/ ResetForTest \/ ExpectPulse \/ EnableForTest
  \/ TestPulse \/ EndPulse \/ JudgeTest
  \/ EnableAfterTests \/ PseudoTrigger \/ RestoreSettings
  \/ NewBudget \/ ResetAllPeaks \/ AllowHits \/ Rearm

----------------------------------------------------------------------------
\* After Boot and InitHitTriggerTask.  A hit after Boot has reset the delay
\* counters and before the trigger is enabled has left the line low.
Init ==
  /\ hits = <<>>
  /\ line \in {"high", "low"}
  /\ source = 1
  /\ flag = FALSE
  /\ enabled = TRUE
  /\ peak = [s \in SUs |-> {}]
  /\ counters = NO_HIT
  /\ hit_budget_left = hit_budget
  /\ ADC_result = {}
  /\ mailbox = <<>>
  /\ acq = NoMail
  /\ SU_state = [s \in SUs |-> "on_e"]
  /\ self_test_SU_number = NO_SU
  /\ mode = "STAND_BY"
  /\ tc = "waiting"
  /\ health_mon_round = 7
  /\ health = [at |-> "interval", test |-> 1]
  /\ overlapped = FALSE

Next ==
  \/ \E s \in SUs : Particle(s)
  \/ HandleHitTrigger
  \/ TelecommandTask
  \/ AcquisitionTask
  \/ HealthMonitoringTask

Spec == Init /\ [][Next]_vars

\* A task that can run does so.  The tasks of lower priority are preempted again
\* and again, but the others wait most of the time.
FairSpec ==
  /\ Spec
  /\ WF_vars(HandleHitTrigger)
  /\ WF_vars(ClearFlag \/ ResetAndAcquire)
  /\ SF_vars(AcquisitionTask)
  /\ SF_vars(HealthMonitoringTask)

----------------------------------------------------------------------------
(* Properties *)

\* The variables keep their types, and no unit number of a mail is out of range.
TypeOK ==
  /\ hits \in Seq(SUs) /\ Len(hits) <= MaxHits
  /\ line \in {"high", "low"}
  /\ source \in SUs
  /\ flag \in BOOLEAN /\ enabled \in BOOLEAN
  /\ peak \in [SUs -> SUBSET Hits]
  /\ counters \in Hits \cup {NO_HIT}
  /\ hit_budget_left \in 0 .. hit_budget
  /\ ADC_result \subseteq Hits
  /\ mailbox \in Seq([unit : SUs, marked : BOOLEAN]) /\ Len(mailbox) <= MailboxSize
  /\ acq \in [at : AcqPlaces, trigger_unit : [unit : SUs, marked : BOOLEAN],
              state : States, amplitudes : SUBSET Hits, delays : Hits \cup {NO_HIT}]
  /\ SU_state \in [SUs -> States]
  /\ self_test_SU_number \in SUs \cup {NO_SU}
  /\ mode \in {"STAND_BY", "ACQUISITION"}
  /\ tc \in {"waiting", "clear", "reset"}
  /\ health_mon_round \in {7, 6, 0}
  /\ health \in [at : HealthPlaces, test : 1 .. ChannelTests]
  /\ InTest => self_test_SU_number \in SUs
  /\ overlapped \in BOOLEAN

\* The amplitudes and the delays of an event recorded in acquisition mode are
\* those of one hit, of the unit named in the record (HandleHitTrigger against
\* the resets of HandleAcquisition).
OneHitPerEvent ==
  ~overlapped /\ acq.at = "record" /\ acq.state = "acquisition_e" =>
    \E h \in DOMAIN hits :
      acq.amplitudes = {h} /\ acq.delays = h /\ acq.trigger_unit.unit = hits[h]

\* In acquisition mode a line that is low is known to some task that is going to
\* raise it, or no hit would ever be seen again ("deadlock situation",
\* START_ACQUISITION; the order in round 0 of Monitor).
LowLineIsKnown ==
  mode = "ACQUISITION" /\ line = "low" =>
    flag \/ ~AcqIdle \/ ~enabled \/ InTest \/ health.at = "rearm"

\* ... and does so.
LineReleased ==
  mode = "ACQUISITION" /\ line = "low" ~> mode # "ACQUISITION" \/ line = "high"

\* Outside the channel tests the trigger is disabled only because the budget was
\* exceeded, and until there is a new one (comment in round 0 of Monitor).
DisabledIsExceeded ==
  ~enabled => InTest \/ hit_budget_left = 0 \/ health.at \in {"reset_all", "allow"}

\* A unit that answers every test pulse is found to be in order (ExecuteChannelTest
\* reports no SELF_TEST_ERROR) unless the hit budget is used up.
PulsesAreSeen ==
  ~overlapped /\ health.at = "judge" /\ SU_state[self_test_SU_number] = "self_test_trigger_e" =>
    hit_budget_left = 0
============================================================================
