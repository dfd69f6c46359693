------------------------ MODULE HitTriggerQuietProofs ------------------------
(***************************************************************************)
(* Theorems about HitTrigger as long as nothing comes at a moment when the *)
(* code does not expect it: what is measured, tested and reset.            *)
(***************************************************************************)
EXTENDS HitTriggerProofs

Resets == {"reset_peak", "reset_again", "reset_counters"}
Testing == self_test_SU_number # NO_SU
Tested == SU_state[self_test_SU_number]

\* The state of the unit under test at each place of the test.
TestStates ==
  /\ health.at \in {"prepare", "clear", "reset", "expect",
                     "enable_last", "pseudo_trigger", "restore"} => Tested = "self_test_e"
  /\ health.at \in {"enable", "pulse"} => Tested = "self_test_trigger_e"
  /\ health.at \in {"disable", "judge"} => Tested \in {"self_test_e", "self_test_trigger_e"}

\* A test pulse comes when nothing else is under way.
PulseAlone ==
  /\ Testing /\ flag => health.at \in {"disable", "restore"}
  /\ health.at \in {"clear", "reset", "expect", "enable", "pulse"} => AcqIdle
  /\ health.at \in {"expect", "enable", "pulse"} => line = "high"
  /\ health.at = "pulse" => enabled
  /\ health.at = "disable" /\ flag => AcqIdle

\* A pulse is answered before the answer is judged, or the budget is used up.
PulseAnswered ==
  \/ ~ (health.at = "judge" \/ (health.at = "disable" /\ ~flag))
  \/ Tested # "self_test_trigger_e"
  \/ hit_budget_left = 0

\* There is one mail at a time; only that of the pseudo trigger, which is marked,
\* can come before the Acquisition task is done with the last one.
OneMail ==
  /\ flag => mailbox = <<>> /\ acq.at \in Resets \cup {"wait_mail"}
  /\ Len(mailbox) <= 1
  /\ mailbox # <<>> /\ acq.at # "wait_mail" =>
       mailbox[1].marked /\ acq.at \in Resets /\ health.at \in {"restore", "interval"}

\* The last particle, from its edge to the event record.
LastHit(s) == Len(hits) > 0 /\ hits[Len(hits)] = s
Measured(s) == LastHit(s) /\ ADC_result = {Len(hits)} /\ counters = Len(hits)

HitPending ==
  flag /\ ~Testing =>
    /\ AcqIdle /\ enabled /\ line = "low"
    /\ LastHit(source) /\ peak[source] = {Len(hits)} /\ counters = Len(hits)

Mailed(mail) ==
  \/ mail.marked \/ Measured(mail.unit)
  \/ SU_state[mail.unit] \in {"self_test_e", "self_test_trigger_e"}

HitInFlight ==
  /\ acq.at = "wait_mail" /\ mailbox # <<>> => Mailed(mailbox[1])
  /\ acq.at = "look" => Mailed(acq.trigger_unit)
  /\ acq.state = "acquisition_e" =>
       /\ acq.at = "copy_results" => Measured(acq.trigger_unit.unit)
       /\ acq.at \in {"read_counters", "record"} =>
            LastHit(acq.trigger_unit.unit) /\ acq.amplitudes = {Len(hits)}
       /\ acq.at = "read_counters" => counters = Len(hits)
       /\ acq.at = "record" => acq.delays = Len(hits)

\* Round 0 resets all peaks while the trigger is disabled and nothing is measured.
NewPeriodAlone ==
  /\ health.at \in {"reset_all", "allow"} => ~enabled /\ ~flag
  /\ health.at = "round" /\ ~enabled => AcqIdle
  /\ health.at = "reset_all" => AcqIdle

\* Whatever a peak detector holds is being handled, or will be reset before the
\* next hit is let in.
Accounted(s) ==
  \/ flag /\ ~Testing /\ source = s
  \/ mailbox # <<>> /\ mailbox[1].unit = s
  \/ acq.at \notin {"wait_mail", "reset_counters"} /\ acq.trigger_unit.unit = s
  \/ /\ s = self_test_SU_number
     /\ \/ health.at \in {"disable", "judge", "prepare", "enable_last", "pseudo_trigger"}
        \/ health.at = "restore" /\ flag
  \/ health.at = "reset_all"
  \/ /\ hit_budget_left = 0 /\ health.at # "allow"
     /\ ~enabled \/ (InTest /\ (health.at = "restore" => flag))
PeaksAccounted == \A s \in SUs : peak[s] # {} => Accounted(s)

Quiet == /\ TestStates /\ PulseAlone /\ PulseAnswered /\ OneMail
         /\ HitPending /\ HitInFlight /\ NewPeriodAlone /\ PeaksAccounted

QuietInv == ~overlapped => Quiet

LEMMA QuietInvInit == Init => QuietInv
BY ConstantsAssumption
DEF Init, QuietInv, Quiet, TestStates, PulseAlone, PulseAnswered, OneMail, HitPending,
    HitInFlight, NewPeriodAlone, PeaksAccounted, Testing, NO_SU, NoMail, Resets, AcqIdle

----------------------------------------------------------------------------
(* Steps *)

LEMMA UnitsAreNumbered == \A s \in SUs : s # NO_SU
BY ConstantsAssumption DEF SUs, NO_SU

LEMMA FirstMail ==
  ASSUME TypeOK, mailbox # <<>>
  PROVE  mailbox[1] \in Mails /\ Len(mailbox) >= 1 /\ Head(mailbox) = mailbox[1]
<1>1. mailbox \in Seq(Mails) /\ Len(mailbox) \in Nat
  BY DEF TypeOK, Mails
<1>2. Len(mailbox) # 0
  BY <1>1
<1>3. 1 \in 1 .. Len(mailbox)
  BY <1>1, <1>2
<1>. QED  BY <1>1, <1>3

\* A particle is expected when no unit is under test, the trigger is enabled and
\* the Acquisition task idle: then all peaks are clean.
LEMMA QuietParticle ==
  ASSUME TypeOK, TypeOK', Quiet, ~overlapped, ~overlapped', NEW s \in SUs, Particle(s)
  PROVE  Quiet'
<1>. USE DEF TypeOK
<1>1. ~Testing /\ enabled /\ AcqIdle /\ ~InTest
  <2>1. ~Unexpected
    BY DEF Particle, Overlaps
  <2>. QED  BY <2>1, UnitsAreNumbered DEF Unexpected, Testing
<1>2. line = "high" /\ ~flag
  BY <1>1 DEF Particle, Quiet, HitPending
<1>3. /\ UNCHANGED <<health, acq, mailbox, self_test_SU_number, SU_state>>
      /\ UNCHANGED <<hit_budget_left, enabled>>
      /\ flag' = TRUE /\ line' = "low" /\ source' = s
      /\ hits' = Append(hits, s) /\ counters' = Len(hits) + 1
      /\ peak' = [peak EXCEPT ![s] = @ \cup {Len(hits) + 1}]
  BY <1>1 DEF Particle, Edge, triggerVars, unitVars, healthVars
<1>4. LastHit(s)' /\ Len(hits') = Len(hits) + 1
  BY <1>3 DEF LastHit
<1>5. health.at \notin {"reset_all", "allow"}
  BY <1>1 DEF Quiet, NewPeriodAlone
<1>6. \A t \in SUs : peak[t] = {}
  BY <1>1, <1>2, <1>5
  DEF Quiet, PeaksAccounted, Accounted, AcqIdle, InTest, TestPlaces, Testing, NO_SU, SUs
<1>7. HitPending'
  BY <1>1, <1>3, <1>4, <1>6 DEF HitPending, AcqIdle
<1>8. PeaksAccounted'
  BY <1>1, <1>3, <1>6 DEF PeaksAccounted, Accounted, Testing
<1>9. (TestStates /\ PulseAlone /\ PulseAnswered)'
  BY <1>1, <1>3 DEF TestStates, PulseAlone, PulseAnswered, Testing, InTest, TestPlaces
<1>10. (OneMail /\ HitInFlight /\ NewPeriodAlone)'
  BY <1>1, <1>3, <1>5 DEF OneMail, HitInFlight, NewPeriodAlone, AcqIdle
<1>. QED  BY <1>7, <1>8, <1>9, <1>10 DEF Quiet

\* The hit trigger task converts the peaks of the last particle, or answers a pulse.
LEMMA QuietHandleWith ==
  ASSUME TypeOK, TypeOK', Quiet, ~overlapped, ~overlapped',
         HandleHitTrigger, HandleWith(hit_budget_left)
  PROVE  Quiet'
<1>. DEFINE trigger == IF Testing THEN self_test_SU_number ELSE source
<1>1. /\ flag /\ flag' = FALSE
      /\ UNCHANGED <<line, enabled, peak, counters, self_test_SU_number, hits, acq, health>>
      /\ hit_budget_left > 0 /\ hit_budget_left # 0
  BY DEF HandleHitTrigger, HandleWith, SetFlag, healthVars, TypeOK
<1>2. mailbox = <<>> /\ acq.at \in Resets \cup {"wait_mail"}
  BY <1>1 DEF Quiet, OneMail
<1>3. trigger \in SUs
  BY DEF Testing, TypeOK
<1>4. PICK adc_error \in BOOLEAN :
        /\ ADC_result' = IF adc_error THEN {} ELSE peak[trigger]
        /\ mailbox' = <<[unit |-> trigger,
                         marked |-> (Testing /\ SU_state[trigger] = "self_test_e") \/ adc_error]>>
  <2>1. Len(mailbox) < MailboxSize
    BY <1>2, ConstantsAssumption DEF TypeOK
  <2>2. \A mail : Append(mailbox, mail) = <<mail>>
    BY <1>2
  <2>. QED  BY <2>1, <2>2 DEF HandleWith, Testing
<1>5. /\ mailbox' # <<>> /\ Len(mailbox') = 1 /\ mailbox'[1].unit = trigger
      /\ mailbox'[1].marked <=> ((Testing /\ SU_state[trigger] = "self_test_e") \/ adc_error)
  BY <1>4
<1>6. Testing => health.at \in {"disable", "restore"}
  BY <1>1 DEF Quiet, PulseAlone
<1>7. SU_state' = IF Testing /\ SU_state[trigger] = "self_test_trigger_e"
                    THEN [SU_state EXCEPT ![trigger] = "self_test_e"] ELSE SU_state
  BY DEF HandleWith, Testing
<1>8. (TestStates /\ PulseAlone /\ PulseAnswered)'
  BY <1>1, <1>3, <1>6, <1>7, UnitsAreNumbered
  DEF Quiet, TestStates, PulseAlone, PulseAnswered, Tested, Testing, InTest, TestPlaces, AcqIdle,
      TypeOK
<1>9. HitPending' /\ NewPeriodAlone'
  <2>1. ~ (health.at = "round" /\ ~enabled) /\ health.at \notin {"reset_all", "allow"}
    BY <1>1, <1>6 DEF Quiet, HitPending, NewPeriodAlone
  <2>. QED  BY <1>1, <2>1 DEF HitPending, NewPeriodAlone
<1>10. OneMail'
  <2>1. acq.at # "wait_mail" => health.at = "restore" /\ Testing
    BY <1>1, <1>6 DEF Quiet, PulseAlone, HitPending, AcqIdle
  <2>2. health.at = "restore" /\ Testing => SU_state[trigger] = "self_test_e"
    BY DEF Quiet, TestStates, Tested
  <2>. QED  BY <1>1, <1>2, <1>5, <2>1, <2>2 DEF OneMail
<1>11. HitInFlight'
  <2>1. acq.at \notin {"look", "copy_results", "read_counters", "record"}
    BY <1>2 DEF Resets
  <2>2. CASE Testing
    <3>1. SU_state[trigger] \in {"self_test_e", "self_test_trigger_e"}
      BY <1>6, <2>2 DEF Quiet, TestStates, Tested
    <3>2. SU_state'[trigger] = "self_test_e"
      BY <1>3, <1>7, <2>2, <3>1 DEF TypeOK
    <3>. QED  BY <1>1, <1>5, <2>1, <3>2 DEF HitInFlight, Mailed
  <2>3. CASE ~Testing
    <3>1. LastHit(trigger) /\ peak[trigger] = {Len(hits)} /\ counters = Len(hits)
      BY <1>1, <2>3 DEF Quiet, HitPending
    <3>2. adc_error \/ ADC_result' = {Len(hits')}
      BY <1>1, <1>4, <3>1
    <3>3. Len(hits') > 0 /\ hits'[Len(hits')] = trigger /\ counters' = Len(hits')
      BY <1>1, <3>1 DEF LastHit
    <3>. QED  BY <1>1, <1>5, <2>1, <3>2, <3>3 DEF HitInFlight, Mailed, Measured, LastHit
  <2>. QED  BY <2>2, <2>3
<1>12. PeaksAccounted'
  <2>. SUFFICES ASSUME NEW s \in SUs, peak'[s] # {}
                PROVE  Accounted(s)'
    BY DEF PeaksAccounted
  <2>1. Accounted(s)
    BY <1>1 DEF Quiet, PeaksAccounted
  <2>. QED  BY <1>1, <1>2, <1>5, <1>6, <2>1, UnitsAreNumbered DEF Accounted, Testing
<1>. QED  BY <1>8, <1>9, <1>10, <1>11, <1>12 DEF Quiet

LEMMA QuietExceedBudget ==
  ASSUME TypeOK, TypeOK', Quiet, ~overlapped, ~overlapped', HandleHitTrigger, ExceedBudget
  PROVE  Quiet'
BY DEF HandleHitTrigger, ExceedBudget, TypeOK, SUs, NO_SU, InTest, TestPlaces, AcqIdle,
       triggerVars, unitVars, healthVars, Quiet, TestStates, Tested, PulseAlone, Testing,
       PulseAnswered, OneMail, Resets, HitPending, HitInFlight, Mailed, Measured, LastHit,
       NewPeriodAlone, PeaksAccounted, Accounted

\* A telecommand that changes nothing but states, not of a unit under test, and the
\* unit to be tested.
LEMMA QuietStates ==
  ASSUME TypeOK, TypeOK', Quiet, ~flag, ~InTest \/ UNCHANGED self_test_SU_number,
         \A s \in SUs : SU_state[s] \in {"self_test_e", "self_test_trigger_e"}
                          => SU_state'[s] = SU_state[s],
         UNCHANGED <<hits, hardware, triggerVars, acq, healthVars>>
  PROVE  Quiet'
<1>. USE DEF TypeOK, hardware, triggerVars, healthVars
<1>1. (OneMail /\ NewPeriodAlone /\ HitPending)'
  BY DEF Quiet, OneMail, NewPeriodAlone, HitPending, AcqIdle
<1>2. (TestStates /\ PulseAlone /\ PulseAnswered)'
  BY DEF Quiet, TestStates, PulseAlone, PulseAnswered, Tested, InTest, TestPlaces, AcqIdle, Testing
<1>3. PeaksAccounted'
  BY DEF Quiet, PeaksAccounted, Accounted, InTest, TestPlaces, Testing
<1>4. HitInFlight'
  <2>1. mailbox # <<>> => mailbox[1].unit \in SUs
    BY FirstMail DEF Mails
  <2>2. acq.trigger_unit.unit \in SUs
    OBVIOUS
  <2>3. \A mail : mail.unit \in SUs /\ Mailed(mail) => Mailed(mail)'
    BY DEF Mailed, Measured, LastHit
  <2>. QED  BY <2>1, <2>2, <2>3 DEF Quiet, HitInFlight, Measured, LastHit
<1>. QED  BY <1>1, <1>2, <1>3, <1>4 DEF Quiet

LEMMA QuietWaitMail ==
  ASSUME TypeOK, TypeOK', Quiet, ~overlapped, ~overlapped', WaitMail
  PROVE  Quiet'
<1>. USE DEF WaitMail, MayRunAcq, AcqKeeps, hardware, unitVars, healthVars
<1>1. /\ acq'.at = "look" /\ acq'.trigger_unit = mailbox[1]
      /\ mailbox' = <<>>
  <2>1. mailbox \in Seq(Mails) /\ Len(mailbox) <= 1 /\ mailbox # <<>>
    BY DEF Quiet, OneMail, TypeOK, Mails
  <2>2. Len(mailbox) >= 1 /\ Head(mailbox) = mailbox[1]
    BY <2>1, FirstMail
  <2>3. Tail(mailbox) = <<>>
    BY <2>1, <2>2
  <2>. QED  BY <2>2, <2>3 DEF TypeOK
<1>2. (TestStates /\ PulseAlone /\ PulseAnswered /\ HitPending /\ NewPeriodAlone)'
  BY <1>1 DEF Quiet, TestStates, Tested, PulseAlone, PulseAnswered, HitPending, NewPeriodAlone,
     AcqIdle, Testing, TypeOK
<1>3. OneMail'
  <2>1. ~flag' /\ mailbox' = <<>> /\ Len(mailbox') = 0
    BY <1>1
  <2>. QED  BY <2>1 DEF OneMail
<1>4. HitInFlight'
  <2>1. Mailed(mailbox[1])
    BY DEF Quiet, HitInFlight
  <2>. QED  BY <1>1, <2>1 DEF HitInFlight, Mailed, Measured, LastHit
<1>5. PeaksAccounted'
  BY <1>1 DEF Quiet, PeaksAccounted, Accounted, InTest, Testing, TypeOK
<1>. QED  BY <1>2, <1>3, <1>4, <1>5 DEF Quiet

LEMMA QuietLookAtUnit ==
  ASSUME TypeOK, TypeOK', Quiet, ~overlapped, ~overlapped', LookAtUnit
  PROVE  Quiet'
<1>. USE DEF TypeOK, LookAtUnit, MayRunAcq, AcqKeeps, hardware, unitVars, healthVars
<1>1. (TestStates /\ PulseAlone /\ PulseAnswered /\ HitPending /\ NewPeriodAlone)'
  BY DEF Quiet, TestStates, Tested, PulseAlone, PulseAnswered, HitPending, NewPeriodAlone,
     AcqIdle, Testing
<1>2. acq'.trigger_unit = acq.trigger_unit /\ acq'.at \in {"copy_results", "reset_peak"}
      /\ UNCHANGED <<mailbox, flag, peak, enabled, health, source>>
      /\ UNCHANGED <<self_test_SU_number, hit_budget_left>>
  OBVIOUS
<1>3. OneMail' /\ PeaksAccounted'
  BY <1>2 DEF Quiet, OneMail, Resets, PeaksAccounted, Accounted, InTest, Testing
<1>4. HitInFlight'
  BY ZenonT(60) DEF Quiet, HitInFlight, Mailed, Measured, LastHit
<1>. QED  BY <1>1, <1>3, <1>4 DEF Quiet

LEMMA QuietStartSelfTest ==
  ASSUME TypeOK, TypeOK', Quiet, NEW s \in SUs, StartSelfTest(s)
  PROVE  Quiet'
<1>1. ~InTest
  BY UnitsAreNumbered DEF StartSelfTest, TypeOK
<1>2. \A t \in SUs : SU_state[t] \in {"self_test_e", "self_test_trigger_e"}
                     => SU_state'[t] = SU_state[t]
  BY DEF StartSelfTest, TypeOK
<1>. QED  BY <1>1, <1>2, QuietStates DEF StartSelfTest, MayRunTC

\* A pulse finds the line high and the trigger enabled.
LEMMA QuietTestPulse ==
  ASSUME TypeOK, TypeOK', Quiet, ~overlapped, ~overlapped', TestPulse
  PROVE  Quiet'
<1>. USE DEF TypeOK, At, Goto, MayRunHealth, MayRunAcq, HealthKeeps, KeepUnits, OnlyHardware
<1>1. /\ health.at = "pulse" /\ health'.at = "disable"
      /\ Testing /\ ~flag /\ AcqIdle /\ line = "high" /\ enabled
      /\ UNCHANGED <<SU_state, self_test_SU_number, acq, mailbox, hits, hit_budget_left>>
  BY DEF TestPulse, Quiet, PulseAlone, InTest, TestPlaces, Testing, SUs, NO_SU
<1>2. flag' /\ UNCHANGED enabled
  BY <1>1 DEF TestPulse, Edge
<1>3. \A s \in SUs : s # self_test_SU_number => peak'[s] = peak[s]
  BY <1>1 DEF TestPulse, PeakOfPulse, Edge
<1>4. TestStates' /\ PulseAlone' /\ PulseAnswered' /\ NewPeriodAlone'
  BY <1>1, <1>2
  DEF Quiet, TestStates, Tested, PulseAlone, PulseAnswered, NewPeriodAlone, AcqIdle
<1>5. OneMail' /\ HitPending' /\ HitInFlight'
  BY <1>1, <1>2 DEF OneMail, HitPending, HitInFlight, AcqIdle, Testing
<1>6. PeaksAccounted'
  BY <1>1, <1>2, <1>3 DEF Quiet, PeaksAccounted, Accounted, InTest, TestPlaces, AcqIdle, Testing
<1>. QED  BY <1>4, <1>5, <1>6 DEF Quiet

\* The pseudo trigger lets the Acquisition task reset the unit that was tested.
LEMMA QuietPseudoTrigger ==
  ASSUME TypeOK, TypeOK', Quiet, ~overlapped, ~overlapped', PseudoTrigger
  PROVE  Quiet'
<1>. USE DEF TypeOK, At, Goto, MayRunHealth, MayRunAcq, HealthKeeps, KeepUnits, OnlyHardware
<1>1. /\ health.at = "pseudo_trigger" /\ health'.at = "restore"
      /\ Testing /\ flag' = TRUE
      /\ acq.at \in Resets \cup {"wait_mail"} /\ mailbox = <<>>
      /\ UNCHANGED <<SU_state, self_test_SU_number, acq, mailbox, hits, line, enabled, peak,
                     counters, source, ADC_result, hit_budget_left>>
  BY DEF PseudoTrigger, SetFlag, Quiet, OneMail, InTest, TestPlaces, Testing, SUs, NO_SU,
     AcqIdle, Resets
<1>2. (TestStates /\ PulseAlone /\ PulseAnswered /\ NewPeriodAlone)'
  BY <1>1 DEF Quiet, TestStates, Tested, PulseAlone, PulseAnswered, NewPeriodAlone
<1>3. (OneMail /\ HitPending /\ HitInFlight)'
  BY <1>1 DEF OneMail, HitPending, HitInFlight, Resets, Testing
<1>4. PeaksAccounted'
  BY <1>1 DEF Quiet, PeaksAccounted, Accounted, InTest, TestPlaces, Testing
<1>. QED  BY <1>2, <1>3, <1>4 DEF Quiet

\* With a new budget only a disabled trigger still leaves peaks to be reset.
LEMMA QuietNewBudget ==
  ASSUME TypeOK, TypeOK', Quiet, ~overlapped, ~overlapped', NewBudget
  PROVE  Quiet'
<1>. USE DEF TypeOK, At, Goto, MayRunHealth, MayRunAcq, HealthKeeps, KeepUnits, hardware
<1>1. /\ health.at = "round" /\ ~flag
      /\ health'.at = IF enabled THEN "interval" ELSE "reset_all"
      /\ UNCHANGED <<SU_state, self_test_SU_number, acq, mailbox, hits, flag, line, enabled, peak,
                     counters, source, ADC_result>>
  BY DEF NewBudget, NewPeriod, ContinueAt, EndRound
<1>2. (TestStates /\ PulseAlone /\ PulseAnswered /\ HitPending)'
  BY <1>1 DEF TestStates, PulseAlone, PulseAnswered, HitPending
<1>3. NewPeriodAlone'
  BY <1>1 DEF Quiet, NewPeriodAlone, AcqIdle
<1>4. (OneMail /\ HitInFlight)'
  BY <1>1 DEF Quiet, OneMail, HitInFlight, Mailed, Measured, LastHit
<1>5. PeaksAccounted'
  BY <1>1 DEF Quiet, PeaksAccounted, Accounted, InTest, TestPlaces, Testing
<1>. QED  BY <1>2, <1>3, <1>4, <1>5 DEF Quiet

\* When the trigger is enabled again all peaks but those being handled are clean.
LEMMA QuietAllowHits ==
  ASSUME TypeOK, TypeOK', Quiet, ~overlapped, ~overlapped', AllowHits
  PROVE  Quiet'
<1>. USE DEF TypeOK, At, Goto, MayRunHealth, MayRunAcq, HealthKeeps, KeepUnits
<1>1. /\ health.at = "allow" /\ health'.at = "rearm" /\ ~flag
      /\ UNCHANGED <<SU_state, self_test_SU_number, acq, mailbox, hits, flag, line, peak,
                     counters, source, ADC_result, hit_budget_left>>
  BY DEF AllowHits, InPeriodStart, NextStep, ContinueAt, EndRound, SetTrigger
<1>2. (TestStates /\ PulseAlone /\ PulseAnswered /\ HitPending /\ NewPeriodAlone)'
  BY <1>1 DEF TestStates, PulseAlone, PulseAnswered, HitPending, NewPeriodAlone
<1>3. (OneMail /\ HitInFlight)'
  BY <1>1 DEF Quiet, OneMail, HitInFlight, Mailed, Measured, LastHit
<1>4. PeaksAccounted'
  BY <1>1 DEF Quiet, PeaksAccounted, Accounted, InTest, TestPlaces, Testing
<1>. QED  BY <1>2, <1>3, <1>4 DEF Quiet

\* START_ACQUISITION, STOP_ACQUISITION and SELF_TEST.
LEMMA QuietTelecommand ==
  ASSUME TypeOK, TypeOK', Quiet, ~overlapped, ~overlapped', TelecommandTask
  PROVE  Quiet'
<1>. USE ConstantsAssumption
     DEF TypeOK, SUs, NO_SU, InTest, TestPlaces, AcqIdle, hardware, triggerVars, unitVars,
         healthVars, MayRunTC, Quiet, TestStates, Tested, PulseAlone, Testing,
         PulseAnswered, OneMail, Resets, HitPending, HitInFlight, Mailed, Measured,
         LastHit, NewPeriodAlone, PeaksAccounted, Accounted
<1>1. CASE StartAcquisition
  BY <1>1, QuietStates DEF StartAcquisition
<1>2. CASE ClearFlag
  BY <1>2, SMTT(60) DEF ClearFlag, SetFlag, Overlaps
<1>3. CASE ResetAndAcquire
  BY <1>3 DEF ResetAndAcquire, ResetDelayCounters, Overlaps
<1>4. CASE StopAcquisition
  BY <1>4, QuietStates DEF StopAcquisition
<1>5. ASSUME NEW s \in SUs, StartSelfTest(s)
      PROVE  Quiet'
  BY <1>5, QuietStartSelfTest
<1>. QED  BY <1>1, <1>2, <1>3, <1>4, <1>5 DEF TelecommandTask

\* The Acquisition task takes what belongs to the hit and leaves clean peaks.
LEMMA QuietAcquisition ==
  ASSUME TypeOK, TypeOK', Quiet, ~overlapped, ~overlapped', AcquisitionTask
  PROVE  Quiet'
<1>. USE ConstantsAssumption
     DEF TypeOK, SUs, NO_SU, InTest, TestPlaces, AcqIdle, hardware, unitVars, healthVars,
         MayRunAcq, AcqKeeps, Quiet, TestStates, Tested, PulseAlone, Testing,
         PulseAnswered, OneMail, Resets, HitPending, HitInFlight, Mailed, Measured,
         LastHit, NewPeriodAlone, PeaksAccounted, Accounted
<1>1. CASE WaitMail
  BY <1>1, QuietWaitMail
<1>2. CASE LookAtUnit
  BY <1>2, QuietLookAtUnit
<1>3. CASE CopyResults
  BY <1>3, SMTT(60) DEF CopyResults
<1>4. CASE ReadDelayCounters
  BY <1>4, SMTT(60) DEF ReadDelayCounters
<1>5. CASE RecordEvent
  BY <1>5, SMTT(60) DEF RecordEvent, NoMail
<1>6. CASE ResetPeakDetector
  BY <1>6, SMTT(60) DEF ResetPeakDetector, ResetsPeak, ResetPeakDetectors
<1>7. CASE EndAcquisition
  BY <1>7 DEF EndAcquisition, ResetDelayCounters, NoMail
<1>. QED  BY <1>1, <1>2, <1>3, <1>4, <1>5, <1>6, <1>7 DEF AcquisitionTask

\* The health task works on the hardware when nobody else does.
LEMMA QuietHealth ==
  ASSUME TypeOK, TypeOK', Quiet, ~overlapped, ~overlapped', HealthMonitoringTask
  PROVE  Quiet'
<1>. USE ConstantsAssumption
     DEF TypeOK, SUs, NO_SU, InTest, TestPlaces, AcqIdle, At, Goto, MayRunHealth,
         MayRunAcq, HealthKeeps, KeepUnits, OnlyHardware, hardware, Quiet, TestStates,
         Tested, PulseAlone, Testing, PulseAnswered, OneMail, Resets, HitPending,
         HitInFlight, Mailed, Measured, LastHit, NewPeriodAlone, PeaksAccounted, Accounted
<1>1. CASE WaitInterval
  BY <1>1 DEF WaitInterval
<1>2. CASE SelfTest_SU
  BY <1>2 DEF SelfTest_SU, EndRound
<1>3. CASE NoSelfTest
  BY <1>3, SMTT(60) DEF NoSelfTest, EndRound
<1>4. CASE SelfTestChannel
  BY <1>4 DEF SelfTestChannel, ToBeTested, SetTrigger
<1>5. CASE PrepareTest
  BY <1>5 DEF PrepareTest, ResetPeakDetectors
<1>6. CASE ClearTestFlag
  BY <1>6 DEF ClearTestFlag, SetFlag
<1>7. CASE ResetForTest
  BY <1>7 DEF ResetForTest, ResetsForTest, ResetDelayCounters
<1>8. CASE ExpectPulse
  BY <1>8 DEF ExpectPulse
<1>9. CASE EnableForTest
  BY <1>9 DEF EnableForTest, SetTrigger
<1>10. CASE TestPulse
  BY <1>10, QuietTestPulse
<1>11. CASE EndPulse
  BY <1>11 DEF EndPulse, SetTrigger
<1>12. CASE JudgeTest
  BY <1>12 DEF JudgeTest
<1>13. CASE EnableAfterTests
  BY <1>13 DEF EnableAfterTests, SetTrigger
<1>14. CASE PseudoTrigger
  BY <1>14, QuietPseudoTrigger
<1>15. CASE RestoreSettings
  BY <1>15, SMTT(60) DEF RestoreSettings, EndRound
<1>16. CASE NewBudget
  BY <1>16, QuietNewBudget
<1>17. CASE ResetAllPeaks
  BY <1>17, SMTT(60)
  DEF ResetAllPeaks, InPeriodStart, NextStep, ContinueAt, EndRound, ResetPeakDetectors
<1>18. CASE AllowHits
  BY <1>18, QuietAllowHits
<1>19. CASE Rearm
  BY <1>19, SMTT(60) DEF Rearm, InPeriodStart, NextStep, ContinueAt, EndRound, ResetDelayCounters
<1>. QED  BY <1>1, <1>2, <1>3, <1>4, <1>5, <1>6, <1>7, <1>8, <1>9, <1>10, <1>11, <1>12,
             <1>13, <1>14, <1>15, <1>16, <1>17, <1>18, <1>19 DEF HealthMonitoringTask

LEMMA QuietInvStep == TypeOK /\ TypeOK' /\ QuietInv /\ [Next]_vars => QuietInv'
<1>. SUFFICES ASSUME TypeOK, TypeOK', QuietInv, [Next]_vars, ~overlapped'
              PROVE  Quiet'
  BY DEF QuietInv
<1>1. ~overlapped
  BY DEF Next, vars, Particle, HandleHitTrigger, TelecommandTask, StartAcquisition, ClearFlag,
     ResetAndAcquire, StopAcquisition, StartSelfTest, Overlaps, AcquisitionTask, WaitMail,
     LookAtUnit, CopyResults, ReadDelayCounters, RecordEvent, ResetPeakDetector, ResetsPeak,
     EndAcquisition, AcqKeeps, HealthMonitoringTask, WaitInterval, SelfTest_SU, NoSelfTest,
     SelfTestChannel, PrepareTest, ClearTestFlag, ResetForTest, ResetsForTest, ExpectPulse,
     EnableForTest, TestPulse, EndPulse, JudgeTest, EnableAfterTests, PseudoTrigger,
     RestoreSettings, NewBudget, NewPeriod, ResetAllPeaks, AllowHits, Rearm, InPeriodStart,
     OnlyHardware
<1>2. Quiet
  BY <1>1 DEF QuietInv
<1>3. CASE \E s \in SUs : Particle(s)
  BY <1>1, <1>2, <1>3, QuietParticle
<1>4. CASE HandleHitTrigger
  BY <1>1, <1>2, <1>4, QuietHandleWith, QuietExceedBudget DEF HandleHitTrigger
<1>5. CASE TelecommandTask
  BY <1>1, <1>2, <1>5, QuietTelecommand
<1>6. CASE AcquisitionTask
  BY <1>1, <1>2, <1>6, QuietAcquisition
<1>7. CASE HealthMonitoringTask
  BY <1>1, <1>2, <1>7, QuietHealth
<1>8. CASE UNCHANGED vars
  BY <1>2, <1>8
  DEF vars, hardware, triggerVars, unitVars, healthVars, InTest, AcqIdle, Quiet, TestStates,
      Tested, PulseAlone, Testing, PulseAnswered, OneMail, HitPending, HitInFlight, Mailed,
      Measured, LastHit, NewPeriodAlone, PeaksAccounted, Accounted
<1>. QED  BY <1>3, <1>4, <1>5, <1>6, <1>7, <1>8 DEF Next

\* As long as nothing comes at a moment when the code does not expect it, every
\* hit, pulse and peak is accounted for (HandleHitTrigger, HandleAcquisition,
\* ExecuteChannelTest, round 0 of Monitor).
THEOREM AlwaysQuiet == Spec => [](TypeOK /\ QuietInv)
<1>1. Init => TypeOK /\ QuietInv
  BY TypeOKInit, QuietInvInit
<1>2. TypeOK /\ QuietInv /\ [Next]_vars => (TypeOK /\ QuietInv)'
  BY TypeOKStep, QuietInvStep
<1>. QED  BY <1>1, <1>2, PTL DEF Spec

----------------------------------------------------------------------------
\* Amplitudes and delays of an event recorded in acquisition mode are those of
\* one particle, which hit the unit named in the record (HandleHitTrigger and
\* HandleAcquisition against all that resets peaks and counters).
THEOREM EventIsOneHit == Spec => []OneHitPerEvent
<1>1. TypeOK /\ QuietInv => OneHitPerEvent
  <2>. SUFFICES ASSUME TypeOK, Quiet, acq.at = "record", acq.state = "acquisition_e"
                PROVE  \E i \in DOMAIN hits :
                         acq.amplitudes = {i} /\ acq.delays = i /\ acq.trigger_unit.unit = hits[i]
    BY DEF QuietInv, OneHitPerEvent
  <2>1. LastHit(acq.trigger_unit.unit) /\ acq.amplitudes = {Len(hits)} /\ acq.delays = Len(hits)
    BY DEF Quiet, HitInFlight
  <2>2. Len(hits) \in DOMAIN hits
    BY <2>1 DEF LastHit, TypeOK
  <2>. QED  BY <2>1, <2>2 DEF LastHit
<1>. QED  BY <1>1, AlwaysQuiet, PTL

\* A unit that answers every pulse fails no channel test while there is hit budget
\* (ExecuteChannelTest).
THEOREM AllPulsesAreSeen == Spec => []PulsesAreSeen
<1>1. QuietInv => PulsesAreSeen
  BY DEF QuietInv, Quiet, PulseAnswered, Tested, PulsesAreSeen
<1>. QED  BY <1>1, AlwaysQuiet, PTL
============================================================================
