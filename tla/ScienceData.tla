---------------------------- MODULE ScienceData ----------------------------
(***************************************************************************)
(* The Science Data File of the DPU: event_queue, science_data and the     *)
(* three activities that share them.                                       *)
(*                                                                         *)
(*   Acquisition task (priority 1)   GetFreeRecord, fill, RecordEvent      *)
(*   TC execution task (priority 2)  TM_READY mail: ClearEvents            *)
(*   TC and TM interrupt services    start and send the science telemetry  *)
(*                                                                         *)
(* A step of the model is a stretch of code that nothing relevant can      *)
(* interrupt: a section with the interrupt master disabled, an interrupt   *)
(* service, or a handler of the TC task (in state SC_TM_e the TC interrupt *)
(* service returns at once).  The Acquisition task can be preempted        *)
(* between its steps and only runs when the TC task has no mail.           *)
(*                                                                         *)
(* An event record is abstracted to two halves: "tag", the quality number  *)
(* and classification (bytes 0-1, written last when a record is filled,    *)
(* first when it is copied or sent) and "data", the rest.  Each half holds *)
(* the number of the hit it describes; 0 stands for quality number 0.      *)
(***************************************************************************)
EXTENDS Integers, Sequences, FiniteSets

CONSTANTS
  SUs,            \* sensor units
  Classes,        \* event classes (NUM_CLASSES)
  HitKinds,       \* the hits considered: sensor unit, class and quality number
  max_events,     \* records in the Science Data memory
  MAX_QUEUE_LENGTH,
  MaxCounter,     \* largest event_counter value (0xFF)
  MaxSU_hits,     \* largest SU_hits value (0xFFFF)
  MailboxSize,    \* mails the TC mailbox holds
  MaxHits,        \* bound: hits in a behaviour
  MaxReady,       \* bound: TM_READY mails pending at a time
  ResetClasses,   \* the reset classes that happen
  Overlap         \* the overlaps of acquisition and telemetry that happen

ASSUME ConstantsAssumption ==
  /\ HitKinds \subseteq [su : SUs, class : Classes, quality : Nat]
  /\ IsFiniteSet(SUs) /\ IsFiniteSet(Classes)
  /\ max_events \in Nat \ {0}
  /\ MAX_QUEUE_LENGTH \in 1 .. max_events - 1
  /\ MaxCounter \in Nat /\ MaxSU_hits \in Nat
  /\ MailboxSize \in Nat /\ MaxHits \in Nat /\ MaxReady \in Nat
  /\ ResetClasses \subseteq {"soft", "watchdog"}
  /\ Overlap \subseteq {"start_in_copy", "end_in_acquisition"}

VARIABLES
  hits,              \* history: the hits acquired, numbered from 1
  event_queue, event_queue_length,
  event,             \* science_data.event
  free_slot_index,
  event_counter,     \* science_data.event_counter
  counter_checksum,  \* science_data.counter_checksum, as the set of its 1 bits
  SU_hits,           \* telemetry_data.SU_hits
  TC_state,
  TM_enabled,        \* interrupt mask of the TM interrupt
  telemetry_pointer, telemetry_end_pointer,
  TC_mail,           \* mailbox of the TC execution task
  acq,               \* the Acquisition task: where it is, record pointer, record_index
  file,              \* history: the record halves sent since the telemetry started
  counted,           \* history: the hits counted since the counters were cleared
  delivered          \* history: the hits of the files that were sent to their end

queueVars == <<event_queue, event_queue_length>>
counterVars == <<event_counter, counter_checksum, SU_hits, counted>>
storeVars == <<event, free_slot_index, counterVars>>
tmVars == <<TC_state, TM_enabled, telemetry_pointer, telemetry_end_pointer,
            file, delivered>>
vars == <<hits, queueVars, storeVars, tmVars, TC_mail, acq>>

Slots == 0 .. max_events - 1
QueueSlots == 0 .. MAX_QUEUE_LENGTH - 1
HitNumbers == 0 .. Len(hits)
Cells == SUs \X Classes
Record == [tag : HitNumbers, data : HitNumbers]
\* The Acquisition task waiting for mail.
Idle == [at |-> "wait_mail", slot |-> 0, index |-> 0]
Copying == acq.at \in {"copy", "copy_rest"}
Mails == {"SEND_SCIENCE_DATA_FILE", "TM_READY"}

\* Bits of an unsigned char, and exclusive or of sets of bits.
HasBit(n, b) == (n \div 2^b) % 2 = 1
Bits(n) == {b \in 0 .. 7 : HasBit(n, b)}
Xor(A, B) == (A \ B) \cup (B \ A)

QualityNumber(r) == IF r.tag = 0 THEN 0 ELSE hits[r.tag].quality
CellOf(r) == <<hits[r.data].su, hits[r.tag].class>>

\* Index of the record that the next event is written to; a mutant (defined
\* before what it stands for, here and below) forgets that the queue may be full.
MutantGetFreeRecord == event_queue_length
GetFreeRecord ==
  IF event_queue_length < MAX_QUEUE_LENGTH
    THEN event_queue_length ELSE MAX_QUEUE_LENGTH - 1

\* Record i goes before record j in the search for the record to replace:
\* lowest quality number, then oldest, then lowest index.
ReplacedBefore(i, j) ==
  LET qi == QualityNumber(event[i])
      qj == QualityNumber(event[j])
  IN \/ qi < qj
     \/ qi = qj /\ event[i].data < event[j].data
     \/ qi = qj /\ event[i].data = event[j].data /\ i < j

FindMinQualityRecord ==
  CHOOSE i \in Slots : \A j \in Slots \ {i} : ReplacedBefore(i, j)

\* Counts the event of record r, each counter up to its maximum; "without" is
\* the checksum without the counter that changes.
Count(r, max, without) ==
  LET c == CellOf(r)
      n == event_counter[c]
  IN /\ SU_hits' = [SU_hits EXCEPT ![c[1]] = IF @ < MaxSU_hits THEN @ + 1 ELSE @]
     /\ IF n < max
          THEN /\ event_counter' = [event_counter EXCEPT ![c] = n + 1]
               /\ counter_checksum' = Xor(without, Bits(n + 1))
          ELSE UNCHANGED <<event_counter, counter_checksum>>
     /\ counted' = counted \cup {r.tag}

ChecksumWithout(c) == Xor(counter_checksum, Bits(event_counter[c]))
MutantMaximum(r) == Count(r, MaxCounter + 1, ChecksumWithout(CellOf(r)))
MutantChecksum(r) == Count(r, MaxCounter, counter_checksum)
IncrementCounters(r) == Count(r, MaxCounter, ChecksumWithout(CellOf(r)))

\* The number of elements of S, at most max.
CountUpTo(max, S) == IF Cardinality(S) < max THEN Cardinality(S) ELSE max

\* Clears the counters, moves the first len records of the event queue to the
\* Science Data memory and counts them, and sets the two lengths.
MoveEvents(len, free, left) ==
  LET queued(c) == {i \in 0 .. len - 1 : CellOf(event_queue[i]) = c}
      ofSU(s) == {i \in 0 .. len - 1 : hits[event_queue[i].data].su = s}
  IN /\ SU_hits' = [s \in SUs |-> CountUpTo(MaxSU_hits, ofSU(s))]
     /\ event_counter' = [c \in Cells |-> CountUpTo(MaxCounter, queued(c))]
     /\ event' = [i \in Slots |-> IF i < len THEN event_queue[i] ELSE event[i]]
     /\ free_slot_index' = free
     /\ event_queue_length' = left
     /\ counter_checksum' = {}
     /\ counted' = {event_queue[i].tag : i \in 0 .. len - 1}
     /\ UNCHANGED event_queue

MutantForgetEvents(len) == MoveEvents(len, 0, 0)
MutantKeepQueue(len) == MoveEvents(len, len, len)
ClearEvents(len) == MoveEvents(len, len, 0)

----------------------------------------------------------------------------
(* Acquisition task *)

\* It runs only when the TC execution task, of higher priority, waits.
TC_TaskWaits == TC_mail = <<>>

\* A hit is accepted: a record is taken from the queue and the measurements
\* are written to it.
StartAcquisition(k) ==
  /\ acq.at = "wait_mail" /\ TC_TaskWaits
  /\ Len(hits) < MaxHits
  /\ hits' = Append(hits, k)
  /\ acq' = [acq EXCEPT !.at = "classify", !.slot = GetFreeRecord]
  /\ event_queue' = [event_queue EXCEPT ![GetFreeRecord].data = Len(hits) + 1]
  /\ UNCHANGED <<event_queue_length, storeVars, tmVars, TC_mail>>

\* ClassifyEvent sets quality number and classification of the record.
Classify ==
  /\ acq.at = "classify" /\ TC_TaskWaits
  /\ event_queue' = [event_queue EXCEPT ![acq.slot].tag = Len(hits)]
  /\ acq' = [acq EXCEPT !.at = "record"]
  /\ UNCHANGED <<hits, event_queue_length, storeVars, tmVars, TC_mail>>

\* The record stays in the queue, or in its last element if that is full.
KeepRecord ==
  /\ event_queue_length' = IF event_queue_length < MAX_QUEUE_LENGTH
                             THEN event_queue_length + 1 ELSE event_queue_length
  /\ acq' = Idle
  /\ UNCHANGED storeVars

\* ... while the telemetry is in progress.
LeaveInQueue == TC_state = "SC_TM_e" /\ KeepRecord

\* A slot is chosen, reserved with quality number 0 if it was free, and the
\* event of the first record of the queue is counted.
Reserve(index) ==
  /\ IF free_slot_index < max_events
       THEN /\ event' = [event EXCEPT ![free_slot_index].tag = 0]
            /\ free_slot_index' = free_slot_index + 1
            /\ acq' = [acq EXCEPT !.at = "copy", !.index = free_slot_index]
       ELSE /\ acq' = [acq EXCEPT !.at = "copy", !.index = index]
            /\ UNCHANGED <<event, free_slot_index>>
  /\ IncrementCounters(event_queue[0])
  /\ UNCHANGED event_queue_length

CountAndReserve(index) == TC_state # "SC_TM_e" /\ Reserve(index)

\* RecordEvent up to the end of its (first) section without interrupts.
RecordEvent ==
  /\ acq.at = "record" /\ TC_TaskWaits
  /\ \/ LeaveInQueue
     \/ free_slot_index < max_events /\ CountAndReserve(free_slot_index)
     \/ /\ free_slot_index >= max_events /\ TC_state # "SC_TM_e"
        /\ acq' = [acq EXCEPT !.at = "find_min"]
        /\ UNCHANGED <<event_queue_length, storeVars>>
  /\ UNCHANGED <<hits, event_queue, tmVars, TC_mail>>

\* The search, made with interrupts enabled, and the section that follows it,
\* where the state of the telemetry is looked at again.
RecordEventFull ==
  /\ acq.at = "find_min" /\ TC_TaskWaits
  /\ LeaveInQueue \/ CountAndReserve(FindMinQualityRecord)
  /\ UNCHANGED <<hits, event_queue, tmVars, TC_mail>>

\* With interrupts enabled again, the first record of the queue is copied to
\* the chosen slot unless its quality number is lower; first half ...
CopyFirstHalf ==
  /\ acq.at = "copy" /\ TC_TaskWaits
  /\ IF QualityNumber(event_queue[0]) >= QualityNumber(event[acq.index])
       THEN /\ event' = [event EXCEPT ![acq.index].tag = event_queue[0].tag]
            /\ acq' = [acq EXCEPT !.at = "copy_rest"]
       ELSE /\ acq' = Idle
            /\ UNCHANGED event
  /\ UNCHANGED <<hits, queueVars, free_slot_index, counterVars, tmVars, TC_mail>>

\* ... and the rest of the record.
CopyRest ==
  /\ acq.at = "copy_rest" /\ TC_TaskWaits
  /\ event' = [event EXCEPT ![acq.index].data = event_queue[0].data]
  /\ acq' = Idle
  /\ UNCHANGED <<hits, queueVars, free_slot_index, counterVars, tmVars, TC_mail>>

----------------------------------------------------------------------------
(* Interrupt services and TC execution task *)

\* isr_send_message: a mail to a full mailbox is lost.
MailTo(mail) ==
  TC_mail' = IF Len(TC_mail) < MailboxSize THEN Append(TC_mail, mail) ELSE TC_mail

\* Unit 0 of the telemetry is the header of the file; record i is sent as
\* units 2i+1 and 2i+2.  The TC interrupt service sends the first unit.
StartTelemetry(enabled) ==
  /\ TC_state # "SC_TM_e"
  /\ Copying => "start_in_copy" \in Overlap
  /\ MailTo("SEND_SCIENCE_DATA_FILE")
  /\ telemetry_pointer' = 1
  /\ telemetry_end_pointer' = 2 * free_slot_index + 1
  /\ TC_state' = "SC_TM_e"
  /\ TM_enabled' = enabled
  /\ file' = <<>>
  /\ UNCHANGED <<hits, queueVars, storeVars, acq, delivered>>

MutantTM_Disabled == StartTelemetry(FALSE)
SendScienceDataFile == StartTelemetry(TRUE)

\* The half of a record that telemetry unit n carries.
Half(n) == IF n % 2 = 1 THEN event[(n - 1) \div 2].tag
                        ELSE event[(n - 1) \div 2].data

TM_Send ==
  /\ TM_enabled
  /\ telemetry_pointer < telemetry_end_pointer
  /\ file' = Append(file, Half(telemetry_pointer))
  /\ telemetry_pointer' = telemetry_pointer + 1
  /\ UNCHANGED <<TC_state, TM_enabled, telemetry_end_pointer, TC_mail, delivered>>

\* Nothing is left to be sent: the TC execution task is told so, once more at
\* every interrupt until it disables the interrupt.
ReadyFrom(end) ==
  /\ TM_enabled
  /\ telemetry_pointer >= end
  /\ (acq # Idle /\ event_queue_length > 0) => "end_in_acquisition" \in Overlap
  /\ Cardinality({n \in DOMAIN TC_mail : TC_mail[n] = "TM_READY"}) < MaxReady
  /\ MailTo("TM_READY")
  /\ UNCHANGED tmVars

TM_Ready == ReadyFrom(telemetry_end_pointer)

TM_InterruptService ==
  /\ TM_Send \/ TM_Ready
  /\ UNCHANGED <<hits, queueVars, storeVars, acq>>

\* One mail.  TM_READY in SC_TM_e ends the telemetry; the TC itself needs
\* nothing more from the task, and TM_READY in TC_handling_e is no command.
HandleTelecommand ==
  /\ TC_mail # <<>>
  /\ TC_mail' = Tail(TC_mail)
  /\ IF TC_state = "SC_TM_e" /\ Head(TC_mail) = "TM_READY"
       THEN /\ TM_enabled' = FALSE
            /\ ClearEvents(event_queue_length)
            /\ TC_state' = "TC_handling_e"
            /\ delivered' = delivered \cup {file[n] : n \in DOMAIN file}
            /\ UNCHANGED <<telemetry_pointer, telemetry_end_pointer, file>>
       ELSE UNCHANGED <<queueVars, storeVars, tmVars>>
  /\ UNCHANGED <<hits, acq>>

----------------------------------------------------------------------------
(* Resets *)

\* Boot: a soft or warm reset empties queue and Science Data memory, a
\* watchdog or checksum reset keeps them.  The tasks start afresh.
Boot(class) ==
  /\ IF class = "soft"
       THEN ClearEvents(0)
       ELSE UNCHANGED <<queueVars, storeVars>>
  /\ acq' = Idle
  /\ TC_state' = "TC_handling_e"
  /\ TM_enabled' = FALSE
  /\ TC_mail' = <<>>
  /\ UNCHANGED <<hits, telemetry_pointer, telemetry_end_pointer, file, delivered>>

----------------------------------------------------------------------------
\* After a power-up reset.
Init ==
  /\ hits = <<>>
  /\ event_queue = [i \in QueueSlots |-> [tag |-> 0, data |-> 0]]
  /\ event_queue_length = 0
  /\ event = [i \in Slots |-> [tag |-> 0, data |-> 0]]
  /\ free_slot_index = 0
  /\ event_counter = [c \in Cells |-> 0]
  /\ counter_checksum = {}
  /\ SU_hits = [s \in SUs |-> 0]
  /\ TC_state = "TC_handling_e"
  /\ TM_enabled = FALSE
  /\ telemetry_pointer = 0
  /\ telemetry_end_pointer = 0
  /\ TC_mail = <<>>
  /\ acq = Idle
  /\ file = <<>>
  /\ counted = {}
  /\ delivered = {}

AcquisitionTask ==
  \/ \E k \in HitKinds : StartAcquisition(k)
  \/ Classify
  \/ RecordEvent
  \/ RecordEventFull
  \/ CopyFirstHalf
  \/ CopyRest

Next ==
  \/ AcquisitionTask
  \/ SendScienceDataFile
  \/ TM_InterruptService
  \/ HandleTelecommand
  \/ \E class \in ResetClasses : Boot(class)

Spec == Init /\ [][Next]_vars

\* The TM interface requests words as long as its interrupt is enabled, and no
\* task that uses these data has a higher priority than the TC task.
FairSpec == Spec /\ WF_vars(TM_InterruptService) /\ WF_vars(HandleTelecommand)

----------------------------------------------------------------------------
(* Properties *)

\* The variables keep their types; indices stay inside the tables and the
\* telemetry pointer inside the file (GetFreeRecord, RecordEvent, ClearEvents).
TypeOK ==
  /\ hits \in Seq(HitKinds) /\ Len(hits) <= MaxHits
  /\ event_queue \in [QueueSlots -> Record]
  /\ event_queue_length \in 0 .. MAX_QUEUE_LENGTH
  /\ event \in [Slots -> Record]
  /\ free_slot_index \in 0 .. max_events
  /\ event_counter \in [Cells -> 0 .. MaxCounter]
  /\ counter_checksum \subseteq 0 .. 7
  /\ SU_hits \in [SUs -> 0 .. MaxSU_hits]
  /\ TC_state \in {"TC_handling_e", "SC_TM_e"}
  /\ TM_enabled \in BOOLEAN
  /\ telemetry_end_pointer \in 0 .. 2 * max_events + 1
  /\ telemetry_pointer \in 0 .. telemetry_end_pointer
  /\ telemetry_pointer = 0 => telemetry_end_pointer = 0
  /\ TC_mail \in Seq(Mails)
  /\ acq \in [at : {"wait_mail", "classify", "record", "find_min",
                    "copy", "copy_rest"},
              slot : QueueSlots, index : Slots]
  /\ file \in Seq(HitNumbers)
  /\ counted \subseteq HitNumbers /\ delivered \subseteq HitNumbers

\* While the science data file is being sent, the counters and the number of
\* records are frozen, and no record changes but the one whose copying the
\* telecommand found half done (RecordEvent tests TC_state in every section
\* without interrupts, also after the search).
FrozenWhileSending ==
  [][TC_state = "SC_TM_e" /\ TC_state' = "SC_TM_e" =>
       /\ UNCHANGED <<free_slot_index, event_counter, counter_checksum, SU_hits>>
       /\ \A i \in Slots : event'[i] = event[i] \/ (Copying /\ i = acq.index)]_vars

\* Events stay in the queue only while science telemetry is in progress
\* (LeaveInQueue in RecordEvent, emptied by ClearEvents).
QueueOnlyWhileSending == event_queue_length > 0 => TC_state = "SC_TM_e"

\* When RecordEvent stores an event, that event is in the first element of
\* the queue (comment in RecordEvent).
FirstOfQueueIsTheEvent == Copying => event_queue[0].tag = Len(hits)

\* Every record sent is one event, not halves of two.
RecordsSentWhole ==
  \A n \in DOMAIN file :
    n % 2 = 0 => file[n] = file[n - 1] /\ file[n] # 0

\* Exclusive or of all event counters.
ChecksumOfCounters ==
  {b \in 0 .. 7 : Cardinality({c \in Cells : HasBit(event_counter[c], b)}) % 2 = 1}

\* What checksum and counters disagree by.
ChecksumError == Xor(counter_checksum, ChecksumOfCounters)

\* Nothing but moving queued events to the memory makes checksum and counters
\* disagree (IncrementCounters, ClearEvents).
ChecksumFollowsCounters ==
  [][\/ ChecksumError' = ChecksumError
     \/ ChecksumError' = {}
     \/ /\ TC_state = "SC_TM_e" /\ TC_state' # "SC_TM_e"
        /\ event_queue_length > 0]_vars

\* Each counter holds the number of events counted since the last clearing, up
\* to its maximum.
CountersCount ==
  /\ \A c \in Cells : event_counter[c] =
       CountUpTo(MaxCounter, {h \in counted : <<hits[h].su, hits[h].class>> = c})
  /\ \A s \in SUs : SU_hits[s] =
       CountUpTo(MaxSU_hits, {h \in counted : hits[h].su = s})

\* What the file says of the hits is true (RecordEvent against the TM interrupt
\* service, IncrementCounters in RecordEvent and in ClearEvents).
FileIsTrue == RecordsSentWhole /\ CountersCount

\* A science telemetry that was started ends (TM interrupt service, TM_READY
\* mail, repeated while the mailbox is full).
TelemetryEnds == TC_state = "SC_TM_e" ~> TC_state = "TC_handling_e"
============================================================================
