------------------------- MODULE ScienceDataProofs -------------------------
(***************************************************************************)
(* Theorems about ScienceData, for every value of its constants.           *)
(***************************************************************************)
EXTENDS MCScienceData, FiniteSetTheorems, FunctionTheorems, SequenceTheorems,
        WellFoundedInduction, TLAPS

\* A saturating count stays between 0 and its maximum (IncrementCounters).
LEMMA CountUpToRange ==
  ASSUME NEW max \in Nat, NEW S, IsFiniteSet(S)
  PROVE  CountUpTo(max, S) \in 0 .. max
  BY FS_CardinalityType DEF CountUpTo

\* So does the count of some of the first len queue records (ClearEvents).
LEMMA CountOfQueuedRange ==
  ASSUME NEW max \in Nat, NEW len \in Nat, NEW S \in SUBSET (0 .. len - 1)
  PROVE  CountUpTo(max, S) \in 0 .. max
<1>1. IsFiniteSet(0 .. len - 1)
  BY FS_Interval
<1>2. IsFiniteSet(S)
  BY <1>1, FS_Subset
<1> QED
  BY <1>2, CountUpToRange

\* ClearEvents keeps the types of what it changes.
LEMMA ClearEventsType ==
  ASSUME TypeOK, ConstantsAssumption,
         NEW len \in 0 .. MAX_QUEUE_LENGTH, ClearEvents(len)
  PROVE  /\ event_queue' \in [QueueSlots -> Record]
         /\ event_queue_length' \in 0 .. MAX_QUEUE_LENGTH
         /\ event' \in [Slots -> Record]
         /\ free_slot_index' \in 0 .. max_events
         /\ event_counter' \in [Cells -> 0 .. MaxCounter]
         /\ counter_checksum' \subseteq 0 .. 7
         /\ SU_hits' \in [SUs -> 0 .. MaxSU_hits]
         /\ counted' \subseteq HitNumbers
<1>1. /\ MaxCounter \in Nat /\ MaxSU_hits \in Nat /\ len \in Nat
      /\ MAX_QUEUE_LENGTH \in 1 .. max_events - 1 /\ max_events \in Nat
  BY DEF ConstantsAssumption
<1>2. event_counter' \in [Cells -> 0 .. MaxCounter]
  <2> DEFINE queued(c) == {i \in 0 .. len - 1 : CellOf(event_queue[i]) = c}
  <2>1. event_counter' = [c \in Cells |-> CountUpTo(MaxCounter, queued(c))]
    BY DEF ClearEvents, MoveEvents
  <2>2. \A c \in Cells : queued(c) \in SUBSET (0 .. len - 1)
    OBVIOUS
  <2> HIDE DEF queued
  <2>3. \A c \in Cells : CountUpTo(MaxCounter, queued(c)) \in 0 .. MaxCounter
    BY <1>1, <2>2, CountOfQueuedRange
  <2> QED
    BY <2>1, <2>3
<1>3. SU_hits' \in [SUs -> 0 .. MaxSU_hits]
  <2> DEFINE ofSU(s) == {i \in 0 .. len - 1 : hits[event_queue[i].data].su = s}
  <2>1. SU_hits' = [s \in SUs |-> CountUpTo(MaxSU_hits, ofSU(s))]
    BY DEF ClearEvents, MoveEvents
  <2>2. \A s \in SUs : ofSU(s) \in SUBSET (0 .. len - 1)
    OBVIOUS
  <2> HIDE DEF ofSU
  <2>3. \A s \in SUs : CountUpTo(MaxSU_hits, ofSU(s)) \in 0 .. MaxSU_hits
    BY <1>1, <2>2, CountOfQueuedRange
  <2> QED
    BY <2>1, <2>3
<1>4. \A i \in 0 .. len - 1 : event_queue[i] \in Record
  BY <1>1 DEF TypeOK, QueueSlots
<1>5. /\ event_queue' \in [QueueSlots -> Record]
      /\ event_queue_length' \in 0 .. MAX_QUEUE_LENGTH
      /\ event' \in [Slots -> Record]
      /\ free_slot_index' \in 0 .. max_events
      /\ counter_checksum' \subseteq 0 .. 7
  BY <1>1, <1>4 DEF ClearEvents, MoveEvents, TypeOK, Slots
<1>6. counted' \subseteq HitNumbers
  BY <1>4 DEF ClearEvents, MoveEvents, Record
<1> QED
  BY <1>2, <1>3, <1>5, <1>6

\* IncrementCounters keeps the types of the counters.
LEMMA IncrementCountersType ==
  ASSUME TypeOK, ConstantsAssumption, NEW r \in Record, IncrementCounters(r)
  PROVE  /\ event_counter' \in [Cells -> 0 .. MaxCounter]
         /\ counter_checksum' \subseteq 0 .. 7
         /\ SU_hits' \in [SUs -> 0 .. MaxSU_hits]
         /\ counted' \subseteq HitNumbers
<1> DEFINE c == CellOf(r)
<1>1. Count(r, MaxCounter, ChecksumWithout(c))
  BY DEF IncrementCounters
<1>2. /\ event_counter \in [Cells -> 0 .. MaxCounter]
      /\ SU_hits \in [SUs -> 0 .. MaxSU_hits]
      /\ MaxCounter \in Nat /\ MaxSU_hits \in Nat
  BY DEF TypeOK, ConstantsAssumption
<1>3. SU_hits' \in [SUs -> 0 .. MaxSU_hits]
  <2>1. SU_hits' = [SU_hits EXCEPT ![c[1]] =
                      IF SU_hits[c[1]] < MaxSU_hits THEN SU_hits[c[1]] + 1
                                                    ELSE SU_hits[c[1]]]
    BY <1>1 DEF Count
  <2> DEFINE u == c[1]
  <2> HIDE DEF u, c
  <2>2. u \in SUs => SU_hits[u] \in 0 .. MaxSU_hits
    BY <1>2
  <2>3. u \in SUs => (IF SU_hits[u] < MaxSU_hits THEN SU_hits[u] + 1 ELSE SU_hits[u])
                       \in 0 .. MaxSU_hits
    BY <1>2, <2>2
  <2>4. SU_hits' = [SU_hits EXCEPT ![u] =
                      IF SU_hits[u] < MaxSU_hits THEN SU_hits[u] + 1 ELSE SU_hits[u]]
    BY <2>1 DEF u
  <2> QED
    BY <1>2, <2>3, <2>4, Zenon
<1>4. event_counter' \in [Cells -> 0 .. MaxCounter]
  <2>1. event_counter' = IF event_counter[c] < MaxCounter
                           THEN [event_counter EXCEPT ![c] = event_counter[c] + 1]
                           ELSE event_counter
    BY <1>1 DEF Count
  <2> HIDE DEF c
  <2>2. c \in Cells /\ event_counter[c] < MaxCounter
          => event_counter[c] + 1 \in 0 .. MaxCounter
    BY <1>2
  <2> QED
    BY <1>2, <2>1, <2>2, Zenon
<1>5. \A n : Bits(n) \subseteq 0 .. 7
  BY DEF Bits
<1>6. ChecksumWithout(c) \subseteq 0 .. 7
  BY <1>5 DEF ChecksumWithout, Xor, TypeOK
<1>7. counter_checksum' \subseteq 0 .. 7
  BY <1>1, <1>5, <1>6 DEF Count, Xor, TypeOK
<1>8. counted' \subseteq HitNumbers
  BY <1>1 DEF Count, Record, TypeOK
<1> QED
  BY <1>3, <1>4, <1>7, <1>8

\* The waiting Acquisition task has the type of the task's state.
LEMMA IdleType ==
  ASSUME ConstantsAssumption
  PROVE  Idle \in [at : {"wait_mail", "classify", "record", "find_min",
                         "copy", "copy_rest"},
                   slot : QueueSlots, index : Slots]
  BY DEF Idle, QueueSlots, Slots, ConstantsAssumption

\* A mail put into the mailbox or lost leaves mails in the mailbox.
LEMMA MailToType ==
  ASSUME TC_mail \in Seq(Mails), NEW m \in Mails, MailTo(m)
  PROVE  TC_mail' \in Seq(Mails)
  BY DEF MailTo

\* As long as no hit is acquired, the numbers of hits are the same.
LEMMA SameHits ==
  ASSUME hits' = hits
  PROVE  HitNumbers' = HitNumbers /\ Record' = Record
  BY DEF HitNumbers, Record

LEMMA SeqMonotone ==
  ASSUME NEW S, NEW T, S \subseteq T, NEW s \in Seq(S)
  PROVE  s \in Seq(T)
<1>1. PICK n \in Nat : s \in [1 .. n -> S]
  BY SeqDef
<1>2. s \in [1 .. n -> T]
  BY <1>1
<1> QED
  BY <1>2, SeqDef

\* Sections of RecordEvent that store or postpone the event keep types.
LEMMA StorageType ==
  ASSUME TypeOK, ConstantsAssumption, NEW index \in Slots,
         LeaveInQueue \/ CountAndReserve(index),
         UNCHANGED <<hits, event_queue, tmVars, TC_mail>>
  PROVE  TypeOK'
<1>1. CASE LeaveInQueue
  BY <1>1, IdleType, SameHits DEF LeaveInQueue, KeepRecord, TypeOK, tmVars, storeVars,
       counterVars, ConstantsAssumption
<1>2. CASE CountAndReserve(index)
  <2>1. event_queue[0] \in Record
    BY DEF TypeOK, QueueSlots, ConstantsAssumption
  <2>2. /\ event_counter' \in [Cells -> 0 .. MaxCounter]
        /\ counter_checksum' \subseteq 0 .. 7
        /\ SU_hits' \in [SUs -> 0 .. MaxSU_hits]
        /\ counted' \subseteq HitNumbers
    BY <1>2, <2>1, IncrementCountersType DEF CountAndReserve, Reserve
  <2>3. 0 \in HitNumbers
    BY DEF TypeOK, HitNumbers
  <2>4. /\ event' \in [Slots -> Record]
        /\ free_slot_index' \in 0 .. max_events
    <3>1. \A i \in Slots : [event[i] EXCEPT !.tag = 0] \in Record
      BY <2>3 DEF TypeOK, Record
    <3>2. [event EXCEPT ![free_slot_index].tag = 0] \in [Slots -> Record]
      BY <3>1 DEF TypeOK
    <3>3. free_slot_index < max_events => free_slot_index + 1 \in 0 .. max_events
      BY DEF TypeOK, ConstantsAssumption
    <3>4. CASE free_slot_index < max_events
      BY <1>2, <3>2, <3>3, <3>4 DEF CountAndReserve, Reserve
    <3>5. CASE ~(free_slot_index < max_events)
      BY <1>2, <3>5 DEF CountAndReserve, Reserve, TypeOK
    <3> QED
      BY <3>4, <3>5
  <2>5. /\ acq' \in [at : {"wait_mail", "classify", "record", "find_min",
                           "copy", "copy_rest"},
                     slot : QueueSlots, index : Slots]
    <3>1. free_slot_index < max_events => free_slot_index \in Slots
      BY DEF TypeOK, Slots
    <3> QED
      BY <1>2, <3>1 DEF CountAndReserve, Reserve, TypeOK
  <2> QED
    BY <1>2, <2>2, <2>4, <2>5, SameHits DEF CountAndReserve, Reserve, TypeOK, tmVars,
         Record, HitNumbers
<1> QED
  BY <1>1, <1>2

\* A nonempty set of natural numbers has a least element.
LEMMA LeastOfNaturals ==
  ASSUME NEW T \in SUBSET Nat, T # {}
  PROVE  \E m \in T : \A n \in T : m <= n
<1> DEFINE R == OpToRel(<, Nat)
<1>1. \A x, y \in Nat : x < y => <<x, y>> \in R
  BY DEF OpToRel
<1>2. IsWellFoundedOn(R, Nat)
  BY NatLessThanWellFounded
<1> HIDE DEF R
<1>3. PICK m \in T : \A n \in T : ~ (<<n, m>> \in R)
  BY <1>2, WFMin
<1>4. \A n \in T : ~ (n < m)
  BY <1>1, <1>3
<1>5. \A n \in T : m <= n
  BY <1>4
<1> QED
  BY <1>5

\* The search of a full memory returns one of its indices: the order it looks
\* for the first of has a first element (FindMinQualityRecord).
LEMMA FindMinIsSlot ==
  ASSUME TypeOK, ConstantsAssumption
  PROVE  /\ FindMinQualityRecord \in Slots
         /\ \A i \in Slots \ {FindMinQualityRecord} : ReplacedBefore(FindMinQualityRecord, i)
<1>1. /\ Slots # {} /\ Slots \subseteq Nat
      /\ \A i \in Slots : event[i].data \in Nat
  BY SMTT(60) DEF TypeOK, Slots, Record, HitNumbers, ConstantsAssumption
<1>2. \A i \in Slots : QualityNumber(event[i]) \in Nat
  <2>1. \A n \in HitNumbers \ {0} : hits[n].quality \in Nat
    BY DEF TypeOK, HitNumbers, ConstantsAssumption
  <2> QED
    BY <2>1 DEF QualityNumber, TypeOK, Record
<1> DEFINE Q(i) == QualityNumber(event[i])
           D(i) == event[i].data
<1> HIDE DEF Q, D
<1>3. \A i \in Slots : Q(i) \in Nat /\ D(i) \in Nat
  BY <1>1, <1>2 DEF Q, D
<1>4. PICK q \in {Q(i) : i \in Slots} : \A i \in Slots : q <= Q(i)
  <2> DEFINE T == {Q(i) : i \in Slots}
  <2>1. T \subseteq Nat /\ T # {}
    BY <1>1, <1>3
  <2>2. \A i \in Slots : Q(i) \in T
    OBVIOUS
  <2> HIDE DEF T
  <2>3. \E q \in T : \A n \in T : q <= n
    BY <2>1, LeastOfNaturals
  <2>4. \E q \in T : \A i \in Slots : q <= Q(i)
    BY <2>2, <2>3
  <2> QED
    BY <2>4 DEF T
<1>5. PICK d \in {D(i) : i \in {j \in Slots : Q(j) = q}} :
             \A i \in Slots : Q(i) = q => d <= D(i)
  <2> DEFINE T == {D(i) : i \in {j \in Slots : Q(j) = q}}
  <2>1. T \subseteq Nat /\ T # {}
    BY <1>3, <1>4
  <2>2. \A i \in Slots : Q(i) = q => D(i) \in T
    OBVIOUS
  <2> HIDE DEF T
  <2>3. \E d \in T : \A n \in T : d <= n
    BY <2>1, LeastOfNaturals
  <2>4. \E d \in T : \A i \in Slots : Q(i) = q => d <= D(i)
    BY <2>2, <2>3
  <2> QED
    BY <2>4 DEF T
<1>6. PICK m \in {i \in Slots : Q(i) = q /\ D(i) = d} :
             \A i \in Slots : Q(i) = q /\ D(i) = d => m <= i
  <2>1. /\ {i \in Slots : Q(i) = q /\ D(i) = d} \subseteq Nat
        /\ {i \in Slots : Q(i) = q /\ D(i) = d} # {}
    BY <1>1, <1>5
  <2>2. \E m \in {i \in Slots : Q(i) = q /\ D(i) = d} :
          \A i \in {j \in Slots : Q(j) = q /\ D(j) = d} : m <= i
    BY <2>1, LeastOfNaturals
  <2> QED
    BY <2>2
<1>7. \A i \in Slots \ {m} : ReplacedBefore(m, i)
  <2> SUFFICES ASSUME NEW i \in Slots \ {m}
               PROVE  \/ Q(m) < Q(i)
                      \/ Q(m) = Q(i) /\ D(m) < D(i)
                      \/ Q(m) = Q(i) /\ D(m) = D(i) /\ m < i
    BY DEF ReplacedBefore, Q, D
  <2> QED
    BY <1>1, <1>3, <1>4, <1>5, <1>6
<1> QED
  BY <1>6, <1>7 DEF FindMinQualityRecord

\* TypeOK is preserved by every step.
LEMMA TypeOKStep == TypeOK /\ [Next]_vars => TypeOK'
<1> SUFFICES ASSUME TypeOK, [Next]_vars
             PROVE  TypeOK'
  OBVIOUS
<1> USE ConstantsAssumption
<1>1. ASSUME NEW k \in HitKinds, StartAcquisition(k)
      PROVE  TypeOK'
  <2>1. /\ hits' \in Seq(HitKinds) /\ Len(hits') = Len(hits) + 1
        /\ Len(hits') <= MaxHits
    BY <1>1, SMTT(60) DEF StartAcquisition, TypeOK, ConstantsAssumption
  <2>4. /\ HitNumbers \subseteq HitNumbers'
        /\ Len(hits) + 1 \in HitNumbers'
    BY <2>1 DEF TypeOK, HitNumbers
  <2>2. GetFreeRecord \in QueueSlots
    BY DEF GetFreeRecord, TypeOK, QueueSlots, ConstantsAssumption
  <2>3. event_queue' \in [QueueSlots -> Record']
    BY <1>1, <2>2, <2>4, ZenonT(60) DEF StartAcquisition, TypeOK, Record
  <2>5. event' \in [Slots -> Record']
    BY <1>1, <2>4 DEF StartAcquisition, TypeOK, Record, storeVars
  <2>6. file' \in Seq(HitNumbers')
    BY <1>1, <2>4, SeqMonotone DEF StartAcquisition, TypeOK, tmVars
  <2> QED
    BY <1>1, <2>1, <2>2, <2>3, <2>4, <2>5, <2>6 DEF StartAcquisition, TypeOK,
         storeVars, tmVars, counterVars
<1>2. CASE Classify
  <2>1. Len(hits) \in HitNumbers
    BY DEF TypeOK, HitNumbers
  <2>2. event_queue' \in [QueueSlots -> Record]
    BY <1>2, <2>1, ZenonT(60) DEF Classify, TypeOK, Record
  <2> QED
    BY <1>2, <2>2, SameHits DEF Classify, TypeOK, storeVars, tmVars, counterVars
<1>3. CASE RecordEvent
  <2>1. CASE LeaveInQueue
    BY <1>3, <2>1, StorageType DEF RecordEvent, Slots, ConstantsAssumption
  <2>2. CASE free_slot_index < max_events /\ CountAndReserve(free_slot_index)
    <3>1. free_slot_index \in Slots
      BY <2>2 DEF TypeOK, Slots
    <3> QED
      BY <1>3, <2>2, <3>1, StorageType DEF RecordEvent
  <2>3. CASE acq' = [acq EXCEPT !.at = "find_min"]
             /\ UNCHANGED <<event_queue_length, storeVars>>
    BY <1>3, <2>3, SameHits DEF RecordEvent, TypeOK, storeVars, tmVars, counterVars
  <2> QED
    BY <1>3, <2>1, <2>2, <2>3 DEF RecordEvent
<1>4. CASE RecordEventFull
  <2>1. CASE LeaveInQueue
    BY <1>4, <2>1, StorageType DEF RecordEventFull, Slots, ConstantsAssumption
  <2>2. CASE CountAndReserve(FindMinQualityRecord)
    BY <1>4, <2>2, StorageType, FindMinIsSlot DEF RecordEventFull
  <2> QED
    BY <1>4, <2>1, <2>2 DEF RecordEventFull
<1>5. CASE CopyFirstHalf
  <2>2. event_queue[0] \in Record
    BY DEF TypeOK, QueueSlots, ConstantsAssumption
  <2>1. event' \in [Slots -> Record]
    <3>1. \A i \in Slots : [event[i] EXCEPT !.tag = event_queue[0].tag] \in Record
      BY <2>2 DEF TypeOK, Record
    <3> QED
      BY <1>5, <3>1, ZenonT(60) DEF CopyFirstHalf, TypeOK
  <2> QED
    BY <1>5, <2>1, IdleType, SameHits DEF CopyFirstHalf, TypeOK, queueVars, tmVars, counterVars
<1>6. CASE CopyRest
  <2>2. event_queue[0] \in Record
    BY DEF TypeOK, QueueSlots, ConstantsAssumption
  <2>1. event' \in [Slots -> Record]
    BY <1>6, <2>2 DEF CopyRest, TypeOK, Record
  <2> QED
    BY <1>6, <2>1, IdleType, SameHits DEF CopyRest, TypeOK, queueVars, tmVars, counterVars
<1>7. CASE SendScienceDataFile
  <2>1. TC_mail' \in Seq(Mails)
    BY <1>7, MailToType DEF SendScienceDataFile, StartTelemetry, TypeOK, Mails
  <2> QED
    BY <1>7, <2>1, SameHits DEF SendScienceDataFile, StartTelemetry, TypeOK, queueVars,
         storeVars, counterVars, ConstantsAssumption
<1>8. CASE TM_InterruptService
  <2>1. CASE TM_Send
    <3>1. (telemetry_pointer - 1) \div 2 \in Slots
      BY <2>1 DEF TM_Send, TypeOK, Slots, ConstantsAssumption
    <3>2. Half(telemetry_pointer) \in HitNumbers
      BY <3>1 DEF Half, TypeOK, Record
    <3>3. file' \in Seq(HitNumbers)
      BY <2>1, <3>2 DEF TM_Send, TypeOK
    <3> QED
      BY <1>8, <2>1, <3>3, SameHits DEF TM_InterruptService, TM_Send, TypeOK, queueVars,
           storeVars, counterVars
  <2>2. CASE TM_Ready
    <3>1. TC_mail' \in Seq(Mails)
      BY <2>2, MailToType DEF TM_Ready, ReadyFrom, TypeOK, Mails
    <3> QED
      BY <1>8, <2>2, <3>1, SameHits DEF TM_InterruptService, TM_Ready, ReadyFrom, TypeOK,
           queueVars, storeVars, counterVars, tmVars
  <2> QED
    BY <1>8, <2>1, <2>2 DEF TM_InterruptService
<1>9. CASE HandleTelecommand
  <2>1. TC_mail' \in Seq(Mails)
    BY <1>9 DEF HandleTelecommand, TypeOK
  <2>2. CASE TC_state = "SC_TM_e" /\ Head(TC_mail) = "TM_READY"
    <3>1. {file[n] : n \in DOMAIN file} \subseteq HitNumbers
      BY DEF TypeOK
    <3> QED
      BY <1>9, <2>1, <2>2, <3>1, ClearEventsType, SameHits DEF HandleTelecommand, TypeOK
  <2>3. CASE ~(TC_state = "SC_TM_e" /\ Head(TC_mail) = "TM_READY")
    BY <1>9, <2>1, <2>3, SameHits DEF HandleTelecommand, TypeOK, queueVars, storeVars,
         counterVars, tmVars
  <2> QED
    BY <2>2, <2>3
<1>10. ASSUME NEW class \in ResetClasses, Boot(class)
       PROVE  TypeOK'
  <2>1. CASE class = "soft"
    <3>1. 0 \in 0 .. MAX_QUEUE_LENGTH /\ <<>> \in Seq(Mails)
      BY DEF ConstantsAssumption
    <3> QED
      BY <1>10, <2>1, <3>1, ClearEventsType, IdleType, SameHits DEF Boot, TypeOK
  <2>2. CASE class # "soft"
    <3>1. <<>> \in Seq(Mails)
      OBVIOUS
    <3> QED
      BY <1>10, <2>2, <3>1, IdleType, SameHits
         DEF Boot, TypeOK, queueVars, storeVars, counterVars
  <2> QED
    BY <2>1, <2>2
<1>11. CASE UNCHANGED vars
  BY <1>11, SameHits DEF vars, TypeOK, queueVars, storeVars, counterVars, tmVars
<1> QED
  BY <1>1, <1>2, <1>3, <1>4, <1>5, <1>6, <1>7, <1>8, <1>9, <1>10, <1>11
     DEF Next, AcquisitionTask

\* All variables keep their types, and in particular every index stays inside
\* its table, for every size of the queue and of the Science Data memory.
THEOREM TypeCorrect == Spec => []TypeOK
<1>1. Init => TypeOK
  <2> SUFFICES ASSUME Init
               PROVE  TypeOK
    OBVIOUS
  <2>1. /\ hits \in Seq(HitKinds) /\ Len(hits) = 0 /\ 0 \in HitNumbers
        /\ TC_mail \in Seq(Mails) /\ file \in Seq(HitNumbers)
    BY DEF Init, HitNumbers
  <2>2. /\ event_queue \in [QueueSlots -> Record]
        /\ event \in [Slots -> Record]
    BY <2>1 DEF Init, Record
  <2>3. /\ event_counter \in [Cells -> 0 .. MaxCounter]
        /\ SU_hits \in [SUs -> 0 .. MaxSU_hits]
        /\ telemetry_end_pointer \in 0 .. 2 * max_events + 1
        /\ free_slot_index \in 0 .. max_events
        /\ event_queue_length \in 0 .. MAX_QUEUE_LENGTH
        /\ Len(hits) <= MaxHits
    BY <2>1, ConstantsAssumption DEF Init, ConstantsAssumption
  <2>4. /\ counter_checksum \subseteq 0 .. 7
        /\ counted \subseteq HitNumbers /\ delivered \subseteq HitNumbers
        /\ TC_state \in {"TC_handling_e", "SC_TM_e"} /\ TM_enabled \in BOOLEAN
    BY Zenon DEF Init
  <2>7. telemetry_pointer \in 0 .. telemetry_end_pointer
    BY DEF Init
  <2>5. acq \in [at : {"wait_mail", "classify", "record", "find_min",
                      "copy", "copy_rest"},
                slot : QueueSlots, index : Slots]
    BY ConstantsAssumption, IdleType DEF Init
  <2>6. telemetry_pointer = 0 => telemetry_end_pointer = 0
    BY DEF Init
  <2> QED
    BY <2>1, <2>2, <2>3, <2>4, <2>5, <2>6, <2>7 DEF TypeOK
<1> QED
  BY <1>1, TypeOKStep, PTL DEF Spec

----------------------------------------------------------------------------
\* Events are left in the queue only while science telemetry is in progress, if
\* no reset keeps the queue: RecordEvent looks at TC_state again after the
\* search, and the telemetry ends together with the emptying of the queue.
THEOREM QueueOnly == "watchdog" \notin ResetClasses =>
                       (Spec => []QueueOnlyWhileSending)
<1> SUFFICES ASSUME "watchdog" \notin ResetClasses
             PROVE  Spec => []QueueOnlyWhileSending
  OBVIOUS
<1>1. Init => QueueOnlyWhileSending
  BY DEF Init, QueueOnlyWhileSending
<1>2. QueueOnlyWhileSending /\ [Next]_vars => QueueOnlyWhileSending'
  <2> SUFFICES ASSUME QueueOnlyWhileSending, [Next]_vars
               PROVE  QueueOnlyWhileSending'
    OBVIOUS
  <2> USE DEF QueueOnlyWhileSending
  <2>1. ASSUME NEW k \in HitKinds, StartAcquisition(k)
        PROVE  QueueOnlyWhileSending'
    BY <2>1 DEF StartAcquisition, tmVars
  <2>2. CASE Classify
    BY <2>2 DEF Classify, tmVars
  <2>3. CASE RecordEvent
    BY <2>3 DEF RecordEvent, LeaveInQueue, CountAndReserve, Reserve, tmVars
  <2>4. CASE RecordEventFull
    BY <2>4 DEF RecordEventFull, LeaveInQueue, CountAndReserve, Reserve, tmVars
  <2>5. CASE CopyFirstHalf
    BY <2>5 DEF CopyFirstHalf, tmVars, queueVars
  <2>6. CASE CopyRest
    BY <2>6 DEF CopyRest, tmVars, queueVars
  <2>7. CASE SendScienceDataFile
    BY <2>7 DEF SendScienceDataFile, StartTelemetry
  <2>8. CASE TM_InterruptService
    BY <2>8 DEF TM_InterruptService, TM_Send, TM_Ready, ReadyFrom, tmVars, queueVars
  <2>9. CASE HandleTelecommand
    BY <2>9 DEF HandleTelecommand, ClearEvents, MoveEvents, tmVars, queueVars
  <2>10. ASSUME NEW class \in ResetClasses, Boot(class)
         PROVE  QueueOnlyWhileSending'
    BY <2>10, ConstantsAssumption DEF Boot, ClearEvents, MoveEvents, ConstantsAssumption
  <2>11. CASE UNCHANGED vars
    BY <2>11 DEF vars, queueVars, tmVars
  <2> QED
    BY <2>1, <2>2, <2>3, <2>4, <2>5, <2>6, <2>7, <2>8, <2>9, <2>10, <2>11
       DEF Next, AcquisitionTask
<1> QED
  BY <1>1, <1>2, PTL DEF Spec

\* While the file is being sent, no step changes its counters, the number of
\* its records or any record but the one whose copying had begun before.
THEOREM FrozenFile == Spec => FrozenWhileSending
<1> DEFINE Frozen ==
      TC_state = "SC_TM_e" /\ TC_state' = "SC_TM_e" =>
        /\ UNCHANGED <<free_slot_index, event_counter, counter_checksum, SU_hits>>
        /\ \A i \in Slots : event'[i] = event[i] \/ (Copying /\ i = acq.index)
<1>1. TypeOK /\ [Next]_vars => [Frozen]_vars
  <2> SUFFICES ASSUME TypeOK, Next, TC_state = "SC_TM_e", TC_state' = "SC_TM_e"
               PROVE  /\ UNCHANGED <<free_slot_index, event_counter,
                                      counter_checksum, SU_hits>>
                      /\ \A i \in Slots : \/ event'[i] = event[i]
                                          \/ Copying /\ i = acq.index
    OBVIOUS
  <2> USE DEF storeVars, counterVars
  <2>1. ASSUME NEW k \in HitKinds, StartAcquisition(k)
        PROVE  UNCHANGED storeVars
    BY <2>1 DEF StartAcquisition
  <2>2. CASE Classify
    BY <2>2 DEF Classify
  <2>3. CASE RecordEvent \/ RecordEventFull
    BY <2>3 DEF RecordEvent, RecordEventFull, LeaveInQueue, KeepRecord, CountAndReserve
  <2>4. CASE CopyFirstHalf \/ CopyRest
    BY <2>4 DEF CopyFirstHalf, CopyRest, Copying, TypeOK
  <2>5. CASE SendScienceDataFile
    BY <2>5 DEF SendScienceDataFile, StartTelemetry
  <2>6. CASE TM_InterruptService
    BY <2>6 DEF TM_InterruptService
  <2>7. CASE HandleTelecommand
    BY <2>7 DEF HandleTelecommand
  <2>8. ASSUME NEW class \in ResetClasses, Boot(class)
        PROVE  FALSE
    BY <2>8 DEF Boot
  <2> QED
    BY <2>1, <2>2, <2>3, <2>4, <2>5, <2>6, <2>7, <2>8 DEF Next, AcquisitionTask
<1> QED
  BY <1>1, TypeCorrect, PTL DEF Spec, FrozenWhileSending

----------------------------------------------------------------------------
\* Why the stored event is the acquired one when the telemetry does not end on
\* an acquisition with events in the queue: the record taken is the first one
\* unless events wait before it, and as long as they do no TM_READY mail is
\* pending that could empty the queue.
AcquisitionInv ==
  /\ acq.at \in {"classify", "record"} /\ event_queue_length = 0 => acq.slot = 0
  /\ acq.at = "record" => event_queue[acq.slot].tag = Len(hits)
  /\ acq.at \in {"find_min", "copy", "copy_rest"} => event_queue[0].tag = Len(hits)
  /\ TC_state = "SC_TM_e" /\ (\E n \in DOMAIN TC_mail : TC_mail[n] = "TM_READY")
       => acq = Idle \/ event_queue_length = 0

LEMMA AcquisitionStep ==
  ASSUME "watchdog" \notin ResetClasses, "end_in_acquisition" \notin Overlap,
         TypeOK, QueueOnlyWhileSending, AcquisitionInv, [Next]_vars
  PROVE  AcquisitionInv'
<1> USE DEF QueueOnlyWhileSending
<1>1. ASSUME NEW k \in HitKinds, StartAcquisition(k)
      PROVE  AcquisitionInv'
  <2>1. GetFreeRecord \in QueueSlots /\ (event_queue_length = 0 => GetFreeRecord = 0)
    BY ConstantsAssumption DEF GetFreeRecord, TypeOK, QueueSlots, ConstantsAssumption
  <2> QED
    BY <1>1, <2>1 DEF StartAcquisition, AcquisitionInv, TypeOK, tmVars, TC_TaskWaits, Idle
<1>2. CASE Classify
  <2>1. event_queue'[acq.slot].tag = Len(hits)
    BY <1>2 DEF Classify, TypeOK, Record
  <2> QED
    BY <1>2, <2>1 DEF Classify, AcquisitionInv, TypeOK, tmVars, TC_TaskWaits
<1>12. ASSUME LeaveInQueue, UNCHANGED <<hits, event_queue, tmVars, TC_mail>>
       PROVE  AcquisitionInv'
  BY <1>12 DEF LeaveInQueue, KeepRecord, AcquisitionInv, Idle
<1>13. ASSUME NEW i, CountAndReserve(i), event_queue[0].tag = Len(hits),
              UNCHANGED <<hits, event_queue, tmVars, TC_mail>>
       PROVE  AcquisitionInv'
  <2>1. acq'.at = "copy"
    BY <1>13 DEF CountAndReserve, Reserve, TypeOK
  <2>2. TC_state' # "SC_TM_e"
    BY <1>13 DEF CountAndReserve, tmVars
  <2> QED
    BY <1>13, <2>1, <2>2 DEF AcquisitionInv
<1>3. CASE RecordEvent
  <2>1. TC_state # "SC_TM_e" => event_queue[0].tag = Len(hits)
    BY <1>3 DEF RecordEvent, AcquisitionInv, TypeOK
  <2>2. CASE LeaveInQueue
    BY <1>3, <1>12, <2>2 DEF RecordEvent
  <2>3. CASE CountAndReserve(free_slot_index)
    BY <1>3, <1>13, <2>1, <2>3 DEF RecordEvent, CountAndReserve
  <2>4. CASE /\ TC_state # "SC_TM_e"
             /\ acq' = [acq EXCEPT !.at = "find_min"]
    <3>1. acq'.at = "find_min"
      BY <2>4 DEF TypeOK
    <3> QED
      BY <1>3, <2>1, <2>4, <3>1 DEF RecordEvent, AcquisitionInv, tmVars
  <2> QED
    BY <1>3, <2>2, <2>3, <2>4 DEF RecordEvent
<1>4. CASE RecordEventFull
  BY <1>4, <1>12, <1>13 DEF RecordEventFull, AcquisitionInv
<1>5. CASE CopyFirstHalf
  BY <1>5 DEF CopyFirstHalf, AcquisitionInv, TypeOK, tmVars, queueVars, TC_TaskWaits, Idle
<1>6. CASE CopyRest
  BY <1>6 DEF CopyRest, AcquisitionInv, TypeOK, tmVars, queueVars, TC_TaskWaits, Idle
<1>7. CASE SendScienceDataFile
  BY <1>7 DEF SendScienceDataFile, StartTelemetry, AcquisitionInv, queueVars, TypeOK
<1>8. CASE TM_InterruptService
  <2>1. CASE TM_Send
    BY <1>8, <2>1 DEF TM_InterruptService, TM_Send, AcquisitionInv, queueVars
  <2>2. CASE TM_Ready
    <3>1. acq = Idle \/ event_queue_length = 0
      BY <2>2 DEF TM_Ready, ReadyFrom, TypeOK
    <3> QED
      BY <1>8, <2>2, <3>1 DEF TM_InterruptService, TM_Ready, ReadyFrom,
         AcquisitionInv, queueVars, tmVars
  <2> QED
    BY <1>8, <2>1, <2>2 DEF TM_InterruptService
<1>9. CASE HandleTelecommand
  <2>1. \A n \in DOMAIN TC_mail' : \E i \in DOMAIN TC_mail : TC_mail'[n] = TC_mail[i]
    BY <1>9 DEF HandleTelecommand, TypeOK
  <2>2. CASE TC_state = "SC_TM_e" /\ Head(TC_mail) = "TM_READY"
    <3>1. \E n \in DOMAIN TC_mail : TC_mail[n] = "TM_READY"
      BY <1>9, <2>2 DEF HandleTelecommand, TypeOK
    <3>2. acq = Idle \/ event_queue_length = 0
      BY <2>2, <3>1 DEF AcquisitionInv
    <3> QED
      BY <1>9, <2>2, <3>2 DEF HandleTelecommand, ClearEvents, MoveEvents,
         AcquisitionInv, Idle
  <2>3. CASE ~(TC_state = "SC_TM_e" /\ Head(TC_mail) = "TM_READY")
    BY <1>9, <2>1, <2>3 DEF HandleTelecommand, AcquisitionInv, queueVars, tmVars
  <2> QED
    BY <2>2, <2>3
<1>10. ASSUME NEW class \in ResetClasses, Boot(class)
       PROVE  AcquisitionInv'
  BY <1>10 DEF Boot, AcquisitionInv, Idle
<1>11. CASE UNCHANGED vars
  BY <1>11 DEF vars, AcquisitionInv, queueVars, tmVars
<1> QED
  BY <1>1, <1>2, <1>3, <1>4, <1>5, <1>6, <1>7, <1>8, <1>9, <1>10, <1>11
     DEF Next, AcquisitionTask

\* RecordEvent stores the event that was acquired, not an older one, unless the
\* telemetry ends on an acquisition or a reset keeps the queue.
THEOREM FirstOfQueue ==
  "watchdog" \notin ResetClasses /\ "end_in_acquisition" \notin Overlap
    => (Spec => []FirstOfQueueIsTheEvent)
<1> SUFFICES ASSUME "watchdog" \notin ResetClasses,
                    "end_in_acquisition" \notin Overlap
             PROVE  Spec => []FirstOfQueueIsTheEvent
  OBVIOUS
<1>1. Init => AcquisitionInv
  BY DEF Init, AcquisitionInv, Idle
<1>2. TypeOK /\ QueueOnlyWhileSending /\ AcquisitionInv /\ [Next]_vars
        => AcquisitionInv'
  BY AcquisitionStep
<1>3. AcquisitionInv => FirstOfQueueIsTheEvent
  BY DEF AcquisitionInv, FirstOfQueueIsTheEvent, Copying
<1>4. Spec => []QueueOnlyWhileSending
  BY QueueOnly
<1> QED
  BY <1>1, <1>2, <1>3, <1>4, TypeCorrect, PTL DEF Spec

----------------------------------------------------------------------------
\* If A and B differ in nothing but possibly c, their sizes have the same
\* parity exactly if they do not differ in c either.
LEMMA OneCellChanges ==
  ASSUME NEW A, NEW B, NEW c, IsFiniteSet(A), IsFiniteSet(B), A \ {c} = B \ {c}
  PROVE  ((Cardinality(A) % 2 = 1) <=> (Cardinality(B) % 2 = 1)) <=> (c \in A <=> c \in B)
<1>1. /\ Cardinality(A) \in Nat /\ Cardinality(B) \in Nat
      /\ Cardinality(A \ {c}) = IF c \in A THEN Cardinality(A) - 1 ELSE Cardinality(A)
      /\ Cardinality(B \ {c}) = IF c \in B THEN Cardinality(B) - 1 ELSE Cardinality(B)
  BY FS_CardinalityType, FS_RemoveElement
<1>6. Cardinality(A \ {c}) = Cardinality(B \ {c})
  BY Zenon
<1>5. \A m \in Nat : m % 2 = 1 <=> ~ ((m + 1) % 2 = 1)
  OBVIOUS
<1>2. CASE c \in A <=> c \in B
  BY <1>1, <1>2
<1>3. CASE c \in A /\ c \notin B
  <2>1. Cardinality(A) = Cardinality(B) + 1
    BY <1>1, <1>3, <1>6
  <2> QED
    BY <1>1, <1>3, <1>5, <2>1
<1>4. CASE c \notin A /\ c \in B
  <2>1. Cardinality(B) = Cardinality(A) + 1
    BY <1>1, <1>4, <1>6
  <2> QED
    BY <1>1, <1>4, <1>5, <2>1
<1> QED
  BY <1>2, <1>3, <1>4

LEMMA CellsFinite ==
  ASSUME ConstantsAssumption
  PROVE  IsFiniteSet(Cells) /\ \A S \in SUBSET Cells : IsFiniteSet(S)
<1>1. IsFiniteSet(Cells)
  BY FS_Product DEF Cells, ConstantsAssumption
<1> QED
  BY <1>1, FS_Subset

\* Counting an event flips the same bits of the checksum and of the exclusive
\* or of the counters (IncrementCounters).
LEMMA CountKeepsError ==
  ASSUME TypeOK, ConstantsAssumption, NEW r, CellOf(r) \in Cells, IncrementCounters(r)
  PROVE  ChecksumError' = ChecksumError
<1> DEFINE c == CellOf(r)
           n == event_counter[c]
<1>1. CASE n < MaxCounter
  <2> DEFINE Ones(b) == {d \in Cells : HasBit(event_counter[d], b)}
             Ones2(b) == {d \in Cells : HasBit(event_counter'[d], b)}
  <2>1. /\ event_counter' = [event_counter EXCEPT ![c] = n + 1]
        /\ counter_checksum' = Xor(Xor(counter_checksum, Bits(n)), Bits(n + 1))
    BY <1>1 DEF IncrementCounters, Count, ChecksumWithout
  <2>2. event_counter'[c] = n + 1 /\ \A d \in Cells \ {c} : event_counter'[d] = event_counter[d]
    BY <2>1 DEF TypeOK
  <2> HIDE DEF c, n
  <2>3. \A b \in 0 .. 7 :
          ((Cardinality(Ones(b)) % 2 = 1) <=> (Cardinality(Ones2(b)) % 2 = 1))
            <=> (HasBit(n, b) <=> HasBit(n + 1, b))
    <3> SUFFICES ASSUME NEW b \in 0 .. 7
                 PROVE  ((Cardinality(Ones(b)) % 2 = 1) <=> (Cardinality(Ones2(b)) % 2 = 1))
                          <=> (HasBit(n, b) <=> HasBit(n + 1, b))
      OBVIOUS
    <3>1. IsFiniteSet(Ones(b)) /\ IsFiniteSet(Ones2(b))
      BY CellsFinite
    <3>2. Ones(b) \ {c} = Ones2(b) \ {c}
      BY <2>2
    <3>3. (c \in Ones(b) <=> HasBit(n, b)) /\ (c \in Ones2(b) <=> HasBit(n + 1, b))
      BY <2>2 DEF n, c
    <3> HIDE DEF Ones, Ones2
    <3> QED
      BY <3>1, <3>2, <3>3, OneCellChanges
  <2>4. /\ ChecksumOfCounters = {b \in 0 .. 7 : Cardinality(Ones(b)) % 2 = 1}
        /\ ChecksumOfCounters' = {b \in 0 .. 7 : Cardinality(Ones2(b)) % 2 = 1}
    BY DEF ChecksumOfCounters
  <2> HIDE DEF Ones, Ones2
  <2>5. counter_checksum \subseteq 0 .. 7
    BY DEF TypeOK
  <2>6. counter_checksum' \subseteq 0 .. 7 /\ ChecksumOfCounters \subseteq 0 .. 7
        /\ ChecksumOfCounters' \subseteq 0 .. 7
    BY <2>1, <2>4, <2>5 DEF Xor, Bits
  <2>7. \A b \in 0 .. 7 : /\ b \in Bits(n) <=> HasBit(n, b)
                          /\ b \in Bits(n + 1) <=> HasBit(n + 1, b)
    BY DEF Bits
  <2>8. \A b \in 0 .. 7 :
          /\ (b \in ChecksumOfCounters <=> b \in ChecksumOfCounters')
               <=> (HasBit(n, b) <=> HasBit(n + 1, b))
          /\ (b \in counter_checksum <=> b \in counter_checksum')
               <=> (HasBit(n, b) <=> HasBit(n + 1, b))
    BY <2>1, <2>3, <2>4, <2>7 DEF Xor
  <2>9. \A b \in 0 .. 7 :
          b \in Xor(counter_checksum, ChecksumOfCounters)
            <=> b \in Xor(counter_checksum', ChecksumOfCounters')
    BY <2>8 DEF Xor
  <2>10. /\ Xor(counter_checksum, ChecksumOfCounters) \subseteq 0 .. 7
         /\ Xor(counter_checksum', ChecksumOfCounters') \subseteq 0 .. 7
    BY <2>5, <2>6 DEF Xor
  <2>11. Xor(counter_checksum, ChecksumOfCounters)
           = Xor(counter_checksum', ChecksumOfCounters')
    BY <2>9, <2>10
  <2> QED
    BY <2>11 DEF ChecksumError
<1>2. CASE ~(n < MaxCounter)
  BY <1>2 DEF IncrementCounters, Count, ChecksumError, ChecksumOfCounters
<1> QED
  BY <1>1, <1>2

\* Zero has no bits.
LEMMA ZeroHasNoBits == \A b \in 0 .. 7 : ~ HasBit(0, b)
<1>1. ASSUME NEW b \in {0, 1, 2, 3, 4, 5, 6, 7}
      PROVE  0 \div 2^b = 0
  <2>0. 2^0 = 1 /\ 2^1 = 2 /\ 2^2 = 4 /\ 2^3 = 8
    OBVIOUS
  <2>1. 2^4 = 16 /\ 2^5 = 32 /\ 2^6 = 64 /\ 2^7 = 128
    OBVIOUS
  <2>2. CASE b = 0
    BY <2>0, <2>2
  <2>3. CASE b = 1
    BY <2>0, <2>3
  <2>4. CASE b = 2
    BY <2>0, <2>4
  <2>5. CASE b = 3
    BY <2>0, <2>5
  <2>6. CASE b = 4
    BY <2>1, <2>6
  <2>7. CASE b = 5
    BY <2>1, <2>7
  <2>8. CASE b = 6
    BY <2>1, <2>8
  <2>9. CASE b = 7
    BY <2>1, <2>9
  <2> QED
    BY <2>2, <2>3, <2>4, <2>5, <2>6, <2>7, <2>8, <2>9
<1>2. ~ (0 % 2 = 1)
  OBVIOUS
<1>3. \A b \in 0 .. 7 : b \in {0, 1, 2, 3, 4, 5, 6, 7}
  OBVIOUS
<1>4. \A b \in 0 .. 7 : 0 \div 2^b = 0
  BY <1>1, <1>3, Zenon
<1> QED
  BY <1>2, <1>4, Zenon DEF HasBit

\* Clearing without queued events leaves counters and checksum that agree.
LEMMA ClearedChecksum ==
  ASSUME ConstantsAssumption, ClearEvents(0)
  PROVE  ChecksumError' = {}
<1>1. \A c \in Cells : event_counter'[c] = 0
  <2>1. 0 .. 0 - 1 = {}
    OBVIOUS
  <2>2. CountUpTo(MaxCounter, {}) = 0
    BY FS_EmptySet DEF CountUpTo, ConstantsAssumption
  <2>3. \A c \in Cells : {i \in 0 .. 0 - 1 : CellOf(event_queue[i]) = c} = {}
    BY <2>1
  <2> QED
    BY <2>2, <2>3 DEF ClearEvents, MoveEvents
<1>2. counter_checksum' = {}
  BY DEF ClearEvents, MoveEvents
<1>3. \A b \in 0 .. 7 : {c \in Cells : HasBit(event_counter'[c], b)} = {}
  BY <1>1, ZeroHasNoBits
<1>4. Cardinality({}) = 0
  BY FS_EmptySet
<1>6. ~ (0 % 2 = 1)
  OBVIOUS
<1>5. ChecksumOfCounters' = {}
  <2>1. \A b \in 0 .. 7 : ~ (Cardinality({c \in Cells : HasBit(event_counter'[c], b)}) % 2 = 1)
    BY <1>3, <1>4, <1>6, Zenon
  <2> QED
    BY <2>1, Zenon DEF ChecksumOfCounters
<1> QED
  BY <1>2, <1>5 DEF ChecksumError, Xor

\* The first record of the queue describes a hit when it is counted, whatever
\* happened to the telemetry: it is either the record of the acquisition or
\* older than that.
FirstIsHit ==
  /\ acq.at # "wait_mail" => Len(hits) > 0
  /\ event_queue_length > 0 \/ acq.at \notin {"wait_mail", "classify"}
       => event_queue[0].tag # 0 /\ event_queue[0].data # 0
  /\ acq.at = "classify" => /\ event_queue[0].data # 0
                            /\ acq.slot # 0 => event_queue[0].tag # 0

LEMMA FirstIsHitStep == TypeOK /\ FirstIsHit /\ [Next]_vars => FirstIsHit'
<1> SUFFICES ASSUME TypeOK, FirstIsHit, [Next]_vars
             PROVE  FirstIsHit'
  OBVIOUS
<1>a. /\ ConstantsAssumption /\ 0 \in QueueSlots /\ Len(hits) \in Nat
      /\ event_queue_length \in Nat
      /\ \A i \in QueueSlots : event_queue[i] \in Record /\ i \in Nat
  BY ConstantsAssumption DEF QueueSlots, ConstantsAssumption, TypeOK
<1>1. ASSUME NEW k \in HitKinds, StartAcquisition(k)
      PROVE  FirstIsHit'
  <2>1. /\ GetFreeRecord \in QueueSlots
        /\ GetFreeRecord # 0 => event_queue_length > 0
    BY <1>a DEF GetFreeRecord, QueueSlots, ConstantsAssumption, TypeOK
  <2>2. /\ acq'.at = "classify" /\ acq'.slot = GetFreeRecord
        /\ event_queue_length' = event_queue_length
        /\ Len(hits') = Len(hits) + 1 /\ acq.at = "wait_mail"
    BY <1>1 DEF StartAcquisition, TypeOK
  <2>3. /\ event_queue'[0].tag = event_queue[0].tag
        /\ event_queue'[0].data = IF GetFreeRecord = 0 THEN Len(hits) + 1
                                                       ELSE event_queue[0].data
    BY <1>1, <1>a, <2>1 DEF StartAcquisition, TypeOK, Record
  <2> QED
    BY <1>a, <2>1, <2>2, <2>3 DEF FirstIsHit
<1>2. CASE Classify
  <2>1. /\ acq'.at = "record" /\ acq'.slot = acq.slot /\ acq.slot \in QueueSlots
        /\ event_queue_length' = event_queue_length /\ hits' = hits
        /\ acq.at = "classify"
    BY <1>2 DEF Classify, TypeOK
  <2>2. /\ event_queue'[0].data = event_queue[0].data
        /\ event_queue'[0].tag = IF acq.slot = 0 THEN Len(hits) ELSE event_queue[0].tag
    BY <1>2, <1>a, <2>1 DEF Classify, TypeOK, Record
  <2> QED
    BY <1>a, <2>1, <2>2 DEF FirstIsHit
<1>3. CASE RecordEvent \/ RecordEventFull
  <2>1. acq.at \in {"record", "find_min"} /\ UNCHANGED <<hits, event_queue>>
    BY <1>3 DEF RecordEvent, RecordEventFull
  <2>2. acq'.at \in {"wait_mail", "find_min", "copy"}
    <3>1. LeaveInQueue => acq'.at = "wait_mail"
      BY DEF LeaveInQueue, KeepRecord, Idle
    <3>2. \A i : CountAndReserve(i) => acq'.at = "copy"
      BY DEF CountAndReserve, Reserve, TypeOK
    <3>3. acq' = [acq EXCEPT !.at = "find_min"] => acq'.at = "find_min"
      BY DEF TypeOK
    <3> QED
      BY <1>3, <3>1, <3>2, <3>3 DEF RecordEvent, RecordEventFull
  <2> QED
    BY <2>1, <2>2 DEF FirstIsHit
<1>5. CASE CopyFirstHalf \/ CopyRest
  BY <1>5 DEF CopyFirstHalf, CopyRest, FirstIsHit, TypeOK, queueVars, Idle
<1>7. CASE SendScienceDataFile
  BY <1>7 DEF SendScienceDataFile, StartTelemetry, FirstIsHit, queueVars
<1>8. CASE TM_InterruptService
  BY <1>8 DEF TM_InterruptService, FirstIsHit, queueVars
<1>9. CASE HandleTelecommand
  <2>1. UNCHANGED <<hits, acq, event_queue>> /\ event_queue_length' \in {event_queue_length, 0}
    BY <1>9 DEF HandleTelecommand, ClearEvents, MoveEvents, queueVars
  <2> QED
    BY <2>1 DEF FirstIsHit
<1>10. ASSUME NEW class \in ResetClasses, Boot(class)
       PROVE  FirstIsHit'
  <2>1. /\ UNCHANGED <<hits, event_queue>> /\ event_queue_length' \in {event_queue_length, 0}
        /\ acq' = Idle
    BY <1>10 DEF Boot, ClearEvents, MoveEvents, queueVars
  <2> QED
    BY <2>1 DEF FirstIsHit, Idle
<1>11. CASE UNCHANGED vars
  BY <1>11 DEF vars, FirstIsHit, queueVars
<1> QED
  BY <1>1, <1>2, <1>3, <1>5, <1>7, <1>8, <1>9, <1>10, <1>11 DEF Next, AcquisitionTask

\* The cell of a record that describes hits is one of the counters.
LEMMA CellOfHits ==
  ASSUME TypeOK, ConstantsAssumption, NEW r \in Record, r.tag # 0, r.data # 0
  PROVE  CellOf(r) \in Cells
<1>1. Len(hits) \in Nat /\ \A h \in 1 .. Len(hits) : hits[h] \in HitKinds
  BY DEF TypeOK
<1>3. r.tag \in HitNumbers /\ r.data \in HitNumbers
  BY DEF Record
<1>2. hits[r.tag] \in HitKinds /\ hits[r.data] \in HitKinds
  BY <1>1, <1>3 DEF HitNumbers
<1> QED
  BY <1>2 DEF CellOf, Cells, ConstantsAssumption

\* Whatever is interrupted, reset or searched for: counting an event never makes
\* checksum and counters disagree, nor does any other step than the one that
\* moves queued events to the memory when the telemetry ends.
THEOREM ChecksumFollows == Spec => ChecksumFollowsCounters
<1> DEFINE Follows == \/ ChecksumError' = ChecksumError
                      \/ ChecksumError' = {}
                      \/ /\ TC_state = "SC_TM_e" /\ TC_state' # "SC_TM_e"
                         /\ event_queue_length > 0
<1>1. Init => FirstIsHit
  BY DEF Init, FirstIsHit, Idle
<1>2. TypeOK /\ FirstIsHit /\ [Next]_vars => Follows
  <2> SUFFICES ASSUME TypeOK, FirstIsHit, [Next]_vars
               PROVE  Follows
    OBVIOUS
  <2> USE ConstantsAssumption
  <2>1. ASSUME UNCHANGED <<event_counter, counter_checksum>>
        PROVE  ChecksumError' = ChecksumError
    BY <2>1 DEF ChecksumError, ChecksumOfCounters
  <2>2. ASSUME NEW k \in HitKinds, StartAcquisition(k)
        PROVE  Follows
    BY <2>1, <2>2 DEF StartAcquisition, storeVars, counterVars
  <2>3. CASE Classify
    BY <2>1, <2>3 DEF Classify, storeVars, counterVars
  <2>4. CASE RecordEvent \/ RecordEventFull
    <3>1. acq.at \in {"record", "find_min"}
      BY <2>4 DEF RecordEvent, RecordEventFull
    <3>2. CellOf(event_queue[0]) \in Cells
      <4>1. event_queue[0] \in Record
        BY DEF TypeOK, QueueSlots, ConstantsAssumption
      <4>2. event_queue[0].tag # 0 /\ event_queue[0].data # 0
        BY <3>1 DEF FirstIsHit
      <4> QED
        BY <4>1, <4>2, CellOfHits
    <3>3. \/ UNCHANGED <<event_counter, counter_checksum>>
          \/ IncrementCounters(event_queue[0])
      BY <2>4 DEF RecordEvent, RecordEventFull, LeaveInQueue, KeepRecord,
                  CountAndReserve, Reserve, storeVars, counterVars
    <3> QED
      BY <2>1, <3>2, <3>3, CountKeepsError
  <2>5. CASE CopyFirstHalf \/ CopyRest
    BY <2>1, <2>5 DEF CopyFirstHalf, CopyRest, counterVars
  <2>6. CASE SendScienceDataFile
    BY <2>1, <2>6 DEF SendScienceDataFile, StartTelemetry, storeVars, counterVars
  <2>7. CASE TM_InterruptService
    BY <2>1, <2>7 DEF TM_InterruptService, storeVars, counterVars
  <2>8. CASE HandleTelecommand
    <3>1. CASE TC_state = "SC_TM_e" /\ Head(TC_mail) = "TM_READY"
      <4>1. ClearEvents(event_queue_length) /\ TC_state' # "SC_TM_e"
        BY <2>8, <3>1 DEF HandleTelecommand
      <4>2. CASE event_queue_length > 0
        BY <3>1, <4>1, <4>2
      <4>3. CASE ~(event_queue_length > 0)
        <5>1. event_queue_length = 0
          BY <4>3 DEF TypeOK, ConstantsAssumption
        <5> QED
          BY <4>1, <5>1, ClearedChecksum
      <4> QED
        BY <4>2, <4>3
    <3>2. CASE ~(TC_state = "SC_TM_e" /\ Head(TC_mail) = "TM_READY")
      BY <2>1, <2>8, <3>2 DEF HandleTelecommand, storeVars, counterVars
    <3> QED
      BY <3>1, <3>2
  <2>9. ASSUME NEW class \in ResetClasses, Boot(class)
        PROVE  Follows
    BY <2>1, <2>9, ClearedChecksum DEF Boot, storeVars, counterVars
  <2>10. CASE UNCHANGED vars
    BY <2>1, <2>10 DEF vars, storeVars, counterVars
  <2> QED
    BY <2>2, <2>3, <2>4, <2>5, <2>6, <2>7, <2>8, <2>9, <2>10 DEF Next, AcquisitionTask
<1>3. TypeOK /\ FirstIsHit /\ [Next]_vars => [Follows]_vars
  BY <1>2
<1> QED
  BY <1>1, <1>3, FirstIsHitStep, TypeCorrect, PTL DEF Spec, ChecksumFollowsCounters

----------------------------------------------------------------------------
(* What queue and memory hold, when telemetry starts and ends between the  *)
(* acquisitions and no reset keeps the queue.                              *)

Calm == "watchdog" \notin ResetClasses /\ Overlap = {}

\* A hit is accepted and not yet stored or left in the queue.
Pending == acq.at \in {"classify", "record", "find_min"}
Whole(r) == r.tag = r.data /\ r.tag # 0

\* Records of the queue hold one hit each, the oldest first; the record of the
\* acquisition comes after all that stay, and is alone in the queue when it is
\* to be stored.
QueueInv ==
  /\ acq.at \in {"classify", "record"} => acq.slot = GetFreeRecord
  /\ acq.at = "classify" => event_queue[acq.slot].data = Len(hits)
  /\ acq.at = "record" => event_queue[acq.slot].tag = Len(hits)
                          /\ event_queue[acq.slot].data = Len(hits)
  /\ acq.at \in {"find_min", "copy", "copy_rest"} =>
       /\ event_queue_length = 0
       /\ event_queue[0].tag = Len(hits) /\ event_queue[0].data = Len(hits)
  /\ acq.at # "wait_mail" => Len(hits) > 0
  /\ Copying => TC_state # "SC_TM_e"
  /\ \A i \in 0 .. Waiting - 1 :
       /\ Whole(event_queue[i])
       /\ Pending => event_queue[i].tag # Len(hits)
       /\ \A j \in 0 .. i - 1 : event_queue[j].tag < event_queue[i].tag

\* The records that stay in the queue come before the one of the acquisition.
LEMMA WaitingIs ==
  ASSUME ConstantsAssumption, TypeOK, QueueInv
  PROVE  /\ GetFreeRecord \in QueueSlots /\ GetFreeRecord <= event_queue_length
         /\ Waiting = IF acq.at \in {"classify", "record"} THEN GetFreeRecord
                                                           ELSE event_queue_length
  BY DEF GetFreeRecord, Waiting, QueueInv, QueueSlots, TypeOK, ConstantsAssumption

LEMMA QueueStep ==
  ASSUME Calm, ConstantsAssumption, TypeOK, QueueOnlyWhileSending, AcquisitionInv,
         QueueInv, [Next]_vars
  PROVE  QueueInv'
<1>a. /\ 0 \in QueueSlots /\ Len(hits) \in Nat /\ event_queue_length \in Nat
      /\ \A i \in QueueSlots : /\ event_queue[i] \in Record /\ i \in Nat
                               /\ event_queue[i].tag \in 0 .. Len(hits)
                               /\ event_queue[i].data \in 0 .. Len(hits)
  <2>1. Len(hits) \in Nat /\ event_queue_length \in Nat
        /\ \A i \in QueueSlots : event_queue[i] \in Record
    BY DEF TypeOK, ConstantsAssumption
  <2>2. 0 \in QueueSlots /\ \A i \in QueueSlots : i \in Nat
    BY DEF QueueSlots, ConstantsAssumption
  <2> QED
    BY <2>1, <2>2 DEF Record, HitNumbers
<1>b. /\ GetFreeRecord \in QueueSlots /\ GetFreeRecord <= event_queue_length
      /\ Waiting = IF acq.at \in {"classify", "record"} THEN GetFreeRecord
                                                        ELSE event_queue_length
  BY WaitingIs
<1>c. \A i \in 0 .. Waiting - 1 : i \in QueueSlots
  BY <1>a, <1>b DEF QueueSlots, TypeOK, ConstantsAssumption
<1>1. ASSUME NEW k \in HitKinds, StartAcquisition(k)
      PROVE  QueueInv'
  <2>1. /\ acq'.at = "classify" /\ acq'.slot = GetFreeRecord
        /\ event_queue_length' = event_queue_length
        /\ Len(hits') = Len(hits) + 1 /\ acq.at = "wait_mail"
    BY <1>1 DEF StartAcquisition, TypeOK
  <2>2. /\ event_queue'[GetFreeRecord].data = Len(hits) + 1
        /\ \A i \in QueueSlots : event_queue'[i].tag = event_queue[i].tag
        /\ \A i \in QueueSlots \ {GetFreeRecord} : event_queue'[i] = event_queue[i]
    BY <1>1, <1>a, <1>b DEF StartAcquisition, TypeOK, Record
  <2>3. GetFreeRecord' = GetFreeRecord /\ Waiting' = GetFreeRecord
    <3>1. GetFreeRecord' = GetFreeRecord
      BY <2>1 DEF GetFreeRecord
    <3>2. Waiting' = GetFreeRecord
      BY <1>a, <1>b, <2>1 DEF Waiting
    <3> QED
      BY <3>1, <3>2
  <2>4. \A i \in 0 .. Waiting' - 1 :
          i \in 0 .. Waiting - 1 /\ i \in QueueSlots \ {GetFreeRecord}
    BY <1>a, <1>b, <1>c, <2>1, <2>3
  <2>5. \A i \in 0 .. Waiting' - 1 :
          /\ Whole(event_queue'[i])
          /\ event_queue'[i].tag # Len(hits')
          /\ \A j \in 0 .. i - 1 : event_queue'[j].tag < event_queue'[i].tag
    <3> TAKE i \in 0 .. Waiting' - 1
    <3>1. /\ i \in 0 .. Waiting - 1 /\ i \in QueueSlots \ {GetFreeRecord}
          /\ event_queue'[i] = event_queue[i]
      BY <2>2, <2>4
    <3>2. \A j \in 0 .. i - 1 : j \in 0 .. Waiting' - 1
      BY <1>a, <1>b, <2>3
    <3>3. \A j \in 0 .. i - 1 : event_queue'[j] = event_queue[j]
      BY <2>2, <2>4, <3>2
    <3> QED
      BY <1>a, <2>1, <3>1, <3>3 DEF QueueInv, Whole
  <2> QED
    BY <1>a, <2>1, <2>2, <2>3, <2>5 DEF QueueInv, Copying
<1>2. CASE Classify
  <2>1. /\ acq'.at = "record" /\ acq'.slot = acq.slot /\ acq.slot = GetFreeRecord
        /\ event_queue_length' = event_queue_length /\ hits' = hits
        /\ acq.at = "classify" /\ TC_state' = TC_state
    BY <1>2 DEF Classify, TypeOK, QueueInv, tmVars
  <2>2. /\ event_queue'[acq.slot].data = event_queue[acq.slot].data
        /\ event_queue'[acq.slot].tag = Len(hits)
        /\ \A i \in QueueSlots \ {acq.slot} : event_queue'[i] = event_queue[i]
    BY <1>2, <1>a, <1>b, <2>1 DEF Classify, TypeOK, Record
  <2>3. GetFreeRecord' = GetFreeRecord /\ Waiting' = Waiting /\ Waiting = GetFreeRecord
    <3>1. GetFreeRecord' = GetFreeRecord
      BY <2>1 DEF GetFreeRecord
    <3>2. Waiting' = Waiting
      BY <2>1 DEF Waiting
    <3>3. Waiting = GetFreeRecord
      BY <1>b, <2>1
    <3> QED
      BY <3>1, <3>2, <3>3
  <2>4. \A i \in 0 .. Waiting - 1 : event_queue'[i] = event_queue[i]
    BY <1>a, <1>b, <1>c, <2>1, <2>2, <2>3
  <2>5. \A i \in 0 .. Waiting - 1 : \A j \in 0 .. i - 1 : j \in 0 .. Waiting - 1
    BY <1>a, <1>b, <2>3
  <2>6. Pending /\ Pending'
    BY <2>1 DEF Pending
  <2> QED
    BY <1>a, <2>1, <2>2, <2>3, <2>4, <2>5, <2>6 DEF QueueInv, Copying, Whole
<1>3. ASSUME LeaveInQueue, UNCHANGED <<hits, event_queue, tmVars, TC_mail>>,
             acq.at \in {"record", "find_min"}
      PROVE  QueueInv'
  <2>1. /\ acq'.at = "wait_mail"
        /\ event_queue_length' = IF event_queue_length < MAX_QUEUE_LENGTH
                                   THEN event_queue_length + 1 ELSE event_queue_length
    BY <1>3 DEF LeaveInQueue, KeepRecord, Idle
  <2>2. Waiting' = event_queue_length'
    BY <2>1 DEF Waiting
  <2>3. /\ Waiting' = Waiting + 1 /\ Waiting \in QueueSlots
        /\ event_queue[Waiting].tag = Len(hits) /\ event_queue[Waiting].data = Len(hits)
    BY <1>3, <1>a, <1>b, <2>1, <2>2
       DEF QueueInv, GetFreeRecord, TypeOK, ConstantsAssumption, QueueSlots
  <2>4. Len(hits) > 0
    BY <1>3 DEF QueueInv
  <2>5. \A i \in 0 .. Waiting' - 1 :
          /\ Whole(event_queue[i])
          /\ \A j \in 0 .. i - 1 : event_queue[j].tag < event_queue[i].tag
    <3>1. \A i \in 0 .. Waiting - 1 : event_queue[i].tag < Len(hits)
      BY <1>3, <1>a, <1>c DEF QueueInv, Pending
    <3>2. \A i \in 0 .. Waiting' - 1 : i \in 0 .. Waiting - 1 \/ i = Waiting
      BY <1>a, <2>3
    <3> QED
      BY <1>a, <2>3, <2>4, <3>1, <3>2 DEF QueueInv, Whole
  <2> QED
    BY <1>3, <2>1, <2>5 DEF QueueInv, Copying, Pending
<1>4. ASSUME UNCHANGED <<hits, event_queue, tmVars>>,
             event_queue_length = 0, event_queue_length' = 0,
             event_queue[0].tag = Len(hits), event_queue[0].data = Len(hits),
             acq.at # "wait_mail",
             acq'.at \in {"find_min", "copy", "copy_rest", "wait_mail"},
             acq'.at \in {"copy", "copy_rest"} => TC_state # "SC_TM_e"
      PROVE  QueueInv'
  <2>1. Waiting' = 0
    BY <1>4 DEF Waiting
  <2> QED
    BY <1>4, <2>1 DEF QueueInv, Copying, tmVars
<1>5. ASSUME NEW i, CountAndReserve(i), UNCHANGED <<hits, event_queue, tmVars, TC_mail>>,
             acq.at \in {"record", "find_min"}
      PROVE  QueueInv'
  <2>1. acq'.at = "copy" /\ TC_state # "SC_TM_e" /\ event_queue_length' = event_queue_length
    BY <1>5 DEF CountAndReserve, Reserve, TypeOK
  <2>2. event_queue_length = 0
    BY <1>a, <2>1 DEF QueueOnlyWhileSending
  <2>3. event_queue[0].tag = Len(hits) /\ event_queue[0].data = Len(hits)
    BY <1>5, <2>2 DEF QueueInv, GetFreeRecord, ConstantsAssumption
  <2> QED
    BY <1>4, <1>5, <2>1, <2>2, <2>3
<1>6. CASE RecordEvent
  <2>1. CASE /\ TC_state # "SC_TM_e"
             /\ acq' = [acq EXCEPT !.at = "find_min"]
             /\ UNCHANGED event_queue_length
    <3>1. acq'.at = "find_min"
      BY <2>1 DEF TypeOK
    <3>2. event_queue_length = 0
      BY <1>a, <2>1 DEF QueueOnlyWhileSending
    <3>3. event_queue[0].tag = Len(hits) /\ event_queue[0].data = Len(hits)
      BY <1>6, <3>2 DEF RecordEvent, QueueInv, GetFreeRecord, ConstantsAssumption
    <3> QED
      BY <1>4, <1>6, <2>1, <3>1, <3>2, <3>3 DEF RecordEvent
  <2> QED
    BY <1>3, <1>5, <1>6, <2>1 DEF RecordEvent
<1>7. CASE RecordEventFull
  BY <1>3, <1>5, <1>7 DEF RecordEventFull
<1>8. CASE CopyFirstHalf \/ CopyRest
  <2>1. /\ acq'.at \in {"copy_rest", "wait_mail"} /\ Copying
        /\ UNCHANGED <<hits, event_queue, tmVars, event_queue_length>>
    BY <1>8 DEF CopyFirstHalf, CopyRest, Idle, TypeOK, queueVars, Copying
  <2> QED
    BY <1>4, <2>1 DEF QueueInv, Copying
<1>9. CASE SendScienceDataFile
  <2>1. UNCHANGED <<hits, queueVars, acq>> /\ ~Copying
    BY <1>9 DEF SendScienceDataFile, StartTelemetry, Calm
  <2>2. Waiting' = Waiting /\ GetFreeRecord' = GetFreeRecord
    BY <2>1 DEF Waiting, GetFreeRecord, queueVars
  <2> QED
    BY <2>1, <2>2 DEF QueueInv, Copying, Pending, queueVars
<1>10. ASSUME UNCHANGED <<hits, queueVars, acq, TC_state>>
       PROVE  QueueInv'
  <2>2. Waiting' = Waiting /\ GetFreeRecord' = GetFreeRecord
    BY <1>10 DEF Waiting, GetFreeRecord, queueVars
  <2> QED
    BY <1>10, <2>2 DEF QueueInv, Copying, Pending, queueVars
<1>11. CASE TM_InterruptService
  BY <1>10, <1>11 DEF TM_InterruptService, TM_Send, TM_Ready, ReadyFrom, tmVars
<1>12. CASE HandleTelecommand
  <2>1. CASE TC_state = "SC_TM_e" /\ Head(TC_mail) = "TM_READY"
    <3>1. \E n \in DOMAIN TC_mail : TC_mail[n] = "TM_READY"
      BY <1>12, <2>1 DEF HandleTelecommand, TypeOK
    <3>2. acq = Idle \/ event_queue_length = 0
      BY <2>1, <3>1 DEF AcquisitionInv
    <3>3. /\ UNCHANGED <<hits, acq, event_queue>> /\ event_queue_length' = 0
          /\ TC_state' # "SC_TM_e"
      BY <1>12, <2>1 DEF HandleTelecommand, ClearEvents, MoveEvents
    <3>4. CASE acq = Idle
      <4>1. acq'.at = "wait_mail" /\ Waiting' = 0
        BY <3>3, <3>4 DEF Waiting, Idle
      <4> QED
        BY <3>3, <4>1 DEF QueueInv, Copying
    <3>5. CASE event_queue_length = 0
      <4>1. Waiting' = Waiting /\ GetFreeRecord' = GetFreeRecord
        BY <3>3, <3>5 DEF Waiting, GetFreeRecord
      <4> QED
        BY <3>3, <3>5, <4>1 DEF QueueInv, Copying, Pending
    <3> QED
      BY <3>2, <3>4, <3>5
  <2>2. CASE ~(TC_state = "SC_TM_e" /\ Head(TC_mail) = "TM_READY")
    BY <1>10, <1>12, <2>2 DEF HandleTelecommand, tmVars
  <2> QED
    BY <2>1, <2>2
<1>13. ASSUME NEW class \in ResetClasses, Boot(class)
       PROVE  QueueInv'
  <2>1. class = "soft"
    BY DEF Calm, ConstantsAssumption
  <2>2. acq'.at = "wait_mail" /\ event_queue_length' = 0
    BY <1>13, <2>1 DEF Boot, ClearEvents, MoveEvents, Idle
  <2>3. Waiting' = 0
    BY <2>2 DEF Waiting
  <2> QED
    BY <2>2, <2>3 DEF QueueInv, Copying
<1>14. CASE UNCHANGED vars
  BY <1>10, <1>14 DEF vars, tmVars
<1> QED
  BY <1>1, <1>2, <1>6, <1>7, <1>8, <1>9, <1>11, <1>12, <1>13, <1>14
     DEF Next, AcquisitionTask

LEMMA QualityType ==
  ASSUME ConstantsAssumption, TypeOK, NEW r \in Record
  PROVE  QualityNumber(r) \in Nat
<1>1. Len(hits) \in Nat /\ \A h \in 1 .. Len(hits) : hits[h] \in HitKinds
  BY DEF TypeOK
<1>2. r.tag \in 0 .. Len(hits)
  BY DEF Record, HitNumbers
<1>3. r.tag # 0 => hits[r.tag] \in HitKinds
  BY <1>1, <1>2
<1> QED
  BY <1>3 DEF QualityNumber, ConstantsAssumption

\* Slots of the Science Data memory that nothing is being copied to.
Settled == {i \in 0 .. free_slot_index - 1 : ~(Copying /\ i = acq.index)}

\* Each of them holds one hit, no two of them the same and none the hit that
\* is being acquired; the slot of a copy is empty or holds such a hit until the
\* copying begins.
SlotsInv ==
  /\ Copying => acq.index < free_slot_index
  /\ \A i \in Settled :
       /\ Whole(event[i])
       /\ Pending \/ Copying => event[i].tag # Len(hits)
       /\ \A j \in Settled : event[j].tag = event[i].tag => i = j
  /\ acq.at = "copy" =>
       \/ event[acq.index].tag = 0
       \/ /\ Whole(event[acq.index])
          /\ \A j \in Settled : event[j].tag # event[acq.index].tag
  /\ acq.at = "copy_rest" => event[acq.index].tag = Len(hits)

LEMMA SlotsStep ==
  ASSUME Calm, ConstantsAssumption, TypeOK, QueueOnlyWhileSending, AcquisitionInv,
         QueueInv, SlotsInv, [Next]_vars
  PROVE  SlotsInv'
<1>a. /\ 0 \in QueueSlots /\ Len(hits) \in Nat /\ free_slot_index \in 0 .. max_events
      /\ \A i \in Slots : /\ event[i] \in Record /\ i \in Nat
                          /\ event[i].tag \in 0 .. Len(hits)
                          /\ event[i].data \in 0 .. Len(hits)
      /\ acq.index \in Slots
  <2>1. Len(hits) \in Nat /\ free_slot_index \in 0 .. max_events /\ acq.index \in Slots
        /\ \A i \in Slots : event[i] \in Record
    BY DEF TypeOK
  <2>2. 0 \in QueueSlots /\ \A i \in Slots : i \in Nat
    BY DEF QueueSlots, Slots, ConstantsAssumption
  <2> QED
    BY <2>1, <2>2 DEF Record, HitNumbers
<1>b. \A i \in 0 .. free_slot_index - 1 : i \in Slots
  BY <1>a DEF Slots, ConstantsAssumption
<1>1. ASSUME NEW k \in HitKinds, StartAcquisition(k)
      PROVE  SlotsInv'
  <2>1. /\ acq'.at = "classify" /\ acq.at = "wait_mail"
        /\ UNCHANGED <<event, free_slot_index>>
        /\ Len(hits') = Len(hits) + 1
    BY <1>1 DEF StartAcquisition, TypeOK, storeVars
  <2>2. Settled' = Settled /\ Settled = 0 .. free_slot_index - 1 /\ ~Copying'
    BY <2>1 DEF Settled, Copying
  <2>3. \A i \in Settled : event[i].tag # Len(hits')
    BY <1>a, <1>b, <2>1, <2>2
  <2> QED
    BY <2>1, <2>2, <2>3 DEF SlotsInv
<1>2. ASSUME UNCHANGED <<hits, event, free_slot_index>>, ~Copying, ~Copying',
             Pending' => Pending
      PROVE  SlotsInv'
  <2>1. Settled' = Settled
    BY <1>2 DEF Settled
  <2> QED
    BY <1>2, <2>1 DEF SlotsInv, Copying
<1>3. ASSUME NEW i \in Slots, CountAndReserve(i), UNCHANGED <<hits, event_queue, tmVars>>,
             acq.at \in {"record", "find_min"}
      PROVE  SlotsInv'
  <2>1. acq'.at = "copy" /\ Pending /\ ~Copying /\ Copying' /\ ~Pending'
    BY <1>3 DEF CountAndReserve, Reserve, TypeOK, Pending, Copying
  <2>2. Settled = 0 .. free_slot_index - 1
    BY <2>1 DEF Settled
  <2>3. CASE free_slot_index < max_events
    <3>1. free_slot_index \in Slots
      BY <1>a, <2>3 DEF Slots
    <3>2. /\ acq'.index = free_slot_index /\ free_slot_index' = free_slot_index + 1
          /\ event'[free_slot_index].tag = 0
          /\ \A j \in Slots \ {free_slot_index} : event'[j] = event[j]
      <4>1. /\ acq' = [acq EXCEPT !.at = "copy", !.index = free_slot_index]
            /\ free_slot_index' = free_slot_index + 1
            /\ event' = [event EXCEPT ![free_slot_index].tag = 0]
        BY <1>3, <2>3 DEF CountAndReserve, Reserve
      <4>2. acq'.index = free_slot_index
        BY <4>1 DEF TypeOK
      <4>3. [event[free_slot_index] EXCEPT !.tag = 0].tag = 0
        BY <1>a, <3>1 DEF Record
      <4>4. DOMAIN event = Slots
        BY DEF TypeOK
      <4>5. /\ event'[free_slot_index] = [event[free_slot_index] EXCEPT !.tag = 0]
            /\ \A j \in Slots \ {free_slot_index} : event'[j] = event[j]
        BY <3>1, <4>1, <4>4
      <4> QED
        BY <4>1, <4>2, <4>3, <4>5
    <3>3. Settled' = Settled
      BY <1>a, <2>1, <2>2, <3>2 DEF Settled
    <3>4. \A j \in Settled : event'[j] = event[j]
      BY <1>a, <1>b, <2>2, <3>2
    <3> QED
      BY <1>3, <1>a, <2>1, <3>2, <3>3, <3>4 DEF SlotsInv, Whole
  <2>4. CASE ~(free_slot_index < max_events)
    <3>1. acq'.index = i /\ UNCHANGED <<event, free_slot_index>>
      BY <1>3, <2>4 DEF CountAndReserve, Reserve, TypeOK
    <3>2. Settled' = Settled \ {i} /\ i \in Settled /\ i < free_slot_index
      BY <1>a, <2>1, <2>2, <2>4, <3>1 DEF Settled, Slots, ConstantsAssumption
    <3> QED
      BY <1>3, <2>1, <3>1, <3>2 DEF SlotsInv, Whole
  <2> QED
    BY <2>3, <2>4
<1>4. CASE RecordEvent
  <2>1. CASE LeaveInQueue
    BY <1>2, <1>4, <2>1 DEF RecordEvent, LeaveInQueue, KeepRecord, storeVars, Idle,
                            Copying, Pending
  <2>2. CASE free_slot_index < max_events /\ CountAndReserve(free_slot_index)
    <3>1. free_slot_index \in Slots
      BY <1>a, <2>2 DEF Slots
    <3> QED
      BY <1>3, <1>4, <2>2, <3>1 DEF RecordEvent
  <2>3. CASE acq' = [acq EXCEPT !.at = "find_min"] /\ UNCHANGED storeVars
    <3>1. acq'.at = "find_min"
      BY <2>3 DEF TypeOK
    <3> QED
      BY <1>2, <1>4, <2>3, <3>1 DEF RecordEvent, storeVars, Copying, Pending
  <2> QED
    BY <1>4, <2>1, <2>2, <2>3 DEF RecordEvent
<1>5. CASE RecordEventFull
  <2>1. CASE LeaveInQueue
    BY <1>2, <1>5, <2>1 DEF RecordEventFull, LeaveInQueue, KeepRecord, storeVars, Idle,
                            Copying, Pending
  <2>2. CASE CountAndReserve(FindMinQualityRecord)
    BY <1>3, <1>5, <2>2, FindMinIsSlot DEF RecordEventFull
  <2> QED
    BY <1>5, <2>1, <2>2 DEF RecordEventFull
<1>6. CASE CopyFirstHalf
  <2>1. Copying /\ ~Pending /\ acq.at = "copy" /\ UNCHANGED <<hits, free_slot_index>>
    BY <1>6 DEF CopyFirstHalf, Copying, Pending
  <2>2. CASE QualityNumber(event_queue[0]) >= QualityNumber(event[acq.index])
    <3>1. /\ acq'.at = "copy_rest" /\ acq'.index = acq.index
          /\ event'[acq.index].tag = event_queue[0].tag
          /\ \A j \in Slots \ {acq.index} : event'[j] = event[j]
      <4>1. /\ event' = [event EXCEPT ![acq.index].tag = event_queue[0].tag]
            /\ acq' = [acq EXCEPT !.at = "copy_rest"]
        BY <1>6, <2>2 DEF CopyFirstHalf
      <4>2. acq'.at = "copy_rest" /\ acq'.index = acq.index
        BY <4>1 DEF TypeOK
      <4>3. [event[acq.index] EXCEPT !.tag = event_queue[0].tag].tag = event_queue[0].tag
        BY <1>a DEF Record
      <4>4. DOMAIN event = Slots
        BY DEF TypeOK
      <4>5. /\ event'[acq.index] = [event[acq.index] EXCEPT !.tag = event_queue[0].tag]
            /\ \A j \in Slots \ {acq.index} : event'[j] = event[j]
        BY <1>a, <4>1, <4>4
      <4> QED
        BY <4>2, <4>3, <4>5
    <3>2. Settled' = Settled /\ ~Pending' /\ Copying'
      BY <2>1, <3>1 DEF Settled, Copying, Pending
    <3>3. \A j \in Settled : event'[j] = event[j]
      BY <1>b, <2>1, <3>1 DEF Settled
    <3>4. event_queue[0].tag = Len(hits)
      BY <2>1 DEF QueueInv
    <3> QED
      BY <2>1, <3>1, <3>2, <3>3, <3>4 DEF SlotsInv, Whole
  <2>3. CASE ~(QualityNumber(event_queue[0]) >= QualityNumber(event[acq.index]))
    <3>1. event_queue[0] \in Record
      BY <1>a DEF TypeOK
    <3>2. event[acq.index].tag # 0
      BY <1>a, <2>3, <3>1, QualityType DEF QualityNumber
    <3>3. ~Copying' /\ ~Pending' /\ acq'.at = "wait_mail" /\ UNCHANGED event
      BY <1>6, <2>3 DEF CopyFirstHalf, Idle, Copying, Pending
    <3>4. Settled' = Settled \cup {acq.index}
      BY <1>a, <2>1, <3>3 DEF Settled, SlotsInv, Slots, ConstantsAssumption
    <3> QED
      BY <2>1, <3>2, <3>3, <3>4 DEF SlotsInv, Whole
  <2> QED
    BY <2>2, <2>3
<1>7. CASE CopyRest
  <2>1. /\ Copying /\ ~Pending /\ acq.at = "copy_rest" /\ UNCHANGED <<hits, free_slot_index>>
        /\ acq'.at = "wait_mail" /\ ~Copying' /\ ~Pending'
    BY <1>7 DEF CopyRest, Copying, Pending, Idle
  <2>2. /\ event'[acq.index].tag = event[acq.index].tag
        /\ event'[acq.index].data = event_queue[0].data
        /\ \A j \in Slots \ {acq.index} : event'[j] = event[j]
    BY <1>7, <1>a DEF CopyRest, TypeOK, Record
  <2>3. Settled' = Settled \cup {acq.index}
    BY <1>a, <2>1 DEF Settled, SlotsInv, Slots, ConstantsAssumption
  <2>4. \A j \in Settled : event'[j] = event[j] /\ j # acq.index
    BY <1>b, <2>1, <2>2 DEF Settled
  <2>5. event_queue[0].data = Len(hits) /\ Len(hits) # 0
    BY <1>a, <2>1 DEF QueueInv
  <2>6. /\ event'[acq.index].tag = Len(hits) /\ event'[acq.index].data = Len(hits)
        /\ \A j \in Settled : event[j].tag # Len(hits)
    BY <2>1, <2>2, <2>5 DEF SlotsInv
  <2> QED
    BY <2>1, <2>3, <2>4, <2>5, <2>6 DEF SlotsInv, Whole
<1>8. CASE Classify
  <2>1. acq.at = "classify" /\ acq'.at = "record" /\ UNCHANGED <<hits, storeVars>>
    BY <1>8 DEF Classify, TypeOK
  <2> QED
    BY <1>2, <2>1 DEF Copying, Pending, storeVars
<1>9. ASSUME UNCHANGED <<hits, storeVars, acq>>
      PROVE  SlotsInv'
  <2>1. Settled' = Settled
    BY <1>9 DEF Settled, Copying, storeVars
  <2> QED
    BY <1>9, <2>1 DEF SlotsInv, Copying, Pending, storeVars
<1>10. CASE SendScienceDataFile
  BY <1>9, <1>10 DEF SendScienceDataFile, StartTelemetry
<1>11. CASE TM_InterruptService
  BY <1>9, <1>11 DEF TM_InterruptService
<1>12. CASE HandleTelecommand
  <2>1. CASE TC_state = "SC_TM_e" /\ Head(TC_mail) = "TM_READY"
    <3>1. \E n \in DOMAIN TC_mail : TC_mail[n] = "TM_READY"
      BY <1>12, <2>1 DEF HandleTelecommand, TypeOK
    <3>2. acq = Idle \/ event_queue_length = 0
      BY <2>1, <3>1 DEF AcquisitionInv
    <3>3. /\ UNCHANGED <<hits, acq>> /\ free_slot_index' = event_queue_length /\ ~Copying
          /\ event' = [i \in Slots |-> IF i < event_queue_length THEN event_queue[i]
                                                                 ELSE event[i]]
      BY <1>12, <2>1 DEF HandleTelecommand, ClearEvents, MoveEvents, QueueInv
    <3>4. Settled' = 0 .. event_queue_length - 1 /\ ~Copying'
      BY <3>3 DEF Settled, Copying
    <3>5. CASE event_queue_length = 0
      <4>1. Settled' = {}
        BY <3>4, <3>5
      <4> QED
        BY <3>4, <4>1 DEF SlotsInv, Copying
    <3>6. CASE acq = Idle
      <4>1. Waiting = event_queue_length /\ ~Pending'
        BY <3>3, <3>6 DEF Waiting, Idle, Pending
      <4>2. \A i \in Settled' : event'[i] = event_queue[i]
        BY <3>3, <3>4 DEF TypeOK, Slots, ConstantsAssumption
      <4>3. \A i \in Settled' : /\ Whole(event_queue[i]) /\ i \in Int
                                /\ event_queue[i].tag \in Int
                                /\ \A j \in 0 .. i - 1 : event_queue[j].tag < event_queue[i].tag
        <5>1. \A i \in QueueSlots : event_queue[i] \in Record
          BY DEF TypeOK
        <5>2. \A i \in QueueSlots : event_queue[i].tag \in Int
          BY <1>a, <5>1 DEF Record, HitNumbers
        <5>3. \A i \in 0 .. event_queue_length - 1 : i \in QueueSlots /\ i \in Int
          BY DEF TypeOK, QueueSlots, ConstantsAssumption
        <5> QED
          BY <3>4, <4>1, <5>2, <5>3 DEF QueueInv
      <4>4. \A i, j \in Settled' : j \in 0 .. i - 1 \/ i \in 0 .. j - 1 \/ i = j
        BY <3>4, <4>3
      <4>5. \A i, j \in Settled' : event_queue[j].tag = event_queue[i].tag => i = j
        BY <4>3, <4>4
      <4> QED
        BY <3>4, <4>1, <4>2, <4>3, <4>5 DEF SlotsInv, Copying, Whole
    <3> QED
      BY <3>2, <3>5, <3>6
  <2>2. CASE ~(TC_state = "SC_TM_e" /\ Head(TC_mail) = "TM_READY")
    BY <1>9, <1>12, <2>2 DEF HandleTelecommand
  <2> QED
    BY <2>1, <2>2
<1>13. ASSUME NEW class \in ResetClasses, Boot(class)
       PROVE  SlotsInv'
  <2>1. class = "soft"
    BY DEF Calm, ConstantsAssumption
  <2>2. acq'.at = "wait_mail" /\ free_slot_index' = 0
    BY <1>13, <2>1 DEF Boot, ClearEvents, MoveEvents, Idle
  <2>3. Settled' = {}
    BY <2>2 DEF Settled
  <2> QED
    BY <2>2, <2>3 DEF SlotsInv, Copying
<1>14. CASE UNCHANGED vars
  BY <1>9, <1>14 DEF vars
<1> QED
  BY <1>1, <1>4, <1>5, <1>6, <1>7, <1>8, <1>10, <1>11, <1>12, <1>13, <1>14
     DEF Next, AcquisitionTask

----------------------------------------------------------------------------
\* Counting one more, up to a maximum (IncrementCounters).
LEMMA CountUpToAdd ==
  ASSUME NEW max \in Nat, NEW S, IsFiniteSet(S), NEW x, x \notin S
  PROVE  CountUpTo(max, S \cup {x}) = IF CountUpTo(max, S) < max
                                        THEN CountUpTo(max, S) + 1 ELSE CountUpTo(max, S)
<1>1. Cardinality(S \cup {x}) = Cardinality(S) + 1 /\ Cardinality(S) \in Nat
  BY FS_AddElement, FS_CardinalityType
<1> QED
  BY <1>1 DEF CountUpTo

\* A function that takes each value once: as many arguments as values.
LEMMA AsManyValues ==
  ASSUME NEW I, IsFiniteSet(I), NEW T, NEW g \in [I -> T],
         \A i, j \in I : g[i] = g[j] => i = j,
         \A t \in T : \E i \in I : g[i] = t
  PROVE  IsFiniteSet(T) /\ Cardinality(T) = Cardinality(I)
<1>1. g \in Bijection(I, T)
  BY Fun_IsBij, Zenon
<1>2. ExistsBijection(I, T)
  BY <1>1 DEF ExistsBijection
<1> QED
  BY <1>2, FS_Bijection

\* The counters hold the numbers of the hits counted, and the hit that is being
\* acquired is not yet one of them.
CountedInv ==
  /\ counted \subseteq 1 .. Len(hits)
  /\ Pending => Len(hits) \notin counted
  /\ CountersCount

\* Counting the first record of the queue adds its hit to those counted.
LEMMA CountOne ==
  ASSUME ConstantsAssumption, TypeOK, CountedInv, hits' = hits,
         Len(hits) \in 1 .. Len(hits), Len(hits) \notin counted,
         IncrementCounters(event_queue[0]),
         event_queue[0].tag = Len(hits), event_queue[0].data = Len(hits)
  PROVE  counted' = counted \cup {Len(hits)} /\ CountersCount'
<1> DEFINE n == Len(hits)
           c == <<hits[n].su, hits[n].class>>
           In(d) == {h \in counted : <<hits[h].su, hits[h].class>> = d}
           In2(d) == {h \in counted' : <<hits[h].su, hits[h].class>> = d}
           Of(s) == {h \in counted : hits[h].su = s}
           Of2(s) == {h \in counted' : hits[h].su = s}
<1>1. /\ CellOf(event_queue[0]) = c
      /\ counted' = counted \cup {n}
      /\ SU_hits' = [SU_hits EXCEPT ![c[1]] = IF @ < MaxSU_hits THEN @ + 1 ELSE @]
      /\ event_counter' = IF event_counter[c] < MaxCounter
                            THEN [event_counter EXCEPT ![c] = event_counter[c] + 1]
                            ELSE event_counter
  BY DEF IncrementCounters, Count, CellOf
<1>2. IsFiniteSet(counted)
  <2>1. IsFiniteSet(1 .. Len(hits))
    BY FS_Interval DEF TypeOK
  <2> QED
    BY <2>1, FS_Subset DEF CountedInv
<1>3. MaxCounter \in Nat /\ MaxSU_hits \in Nat
  BY DEF ConstantsAssumption
<1>4. /\ \A d \in Cells : event_counter[d] = CountUpTo(MaxCounter, In(d))
      /\ \A s \in SUs : SU_hits[s] = CountUpTo(MaxSU_hits, Of(s))
  BY DEF CountedInv, CountersCount
<1>5. c \in Cells /\ c[1] = hits[n].su /\ c[1] \in SUs
  BY DEF TypeOK, ConstantsAssumption, Cells
<1>6. \A d \in Cells : event_counter'[d] = CountUpTo(MaxCounter, In2(d))
  <2> TAKE d \in Cells
  <2>1. CASE d = c
    <3>1. In2(d) = In(d) \cup {n} /\ n \notin In(d)
      BY <1>1, <2>1
    <3>2. IsFiniteSet(In(d))
      BY <1>2, FS_Subset
    <3>3. CountUpTo(MaxCounter, In(d) \cup {n}) =
            IF CountUpTo(MaxCounter, In(d)) < MaxCounter
              THEN CountUpTo(MaxCounter, In(d)) + 1 ELSE CountUpTo(MaxCounter, In(d))
      <4> HIDE DEF In, n
      <4> QED
        BY <1>3, <3>1, <3>2, CountUpToAdd
    <3>4. event_counter'[d] = IF event_counter[d] < MaxCounter THEN event_counter[d] + 1
                                                               ELSE event_counter[d]
      <4> HIDE DEF c
      <4> QED
        BY <1>1, <1>5, <2>1 DEF TypeOK
    <3> HIDE DEF In, In2
    <3> QED
      BY <1>4, <3>1, <3>3, <3>4
  <2>2. CASE d # c
    <3>1. In2(d) = In(d)
      BY <1>1, <2>2
    <3>2. event_counter'[d] = event_counter[d]
      <4> HIDE DEF c
      <4> QED
        BY <1>1, <1>5, <2>2 DEF TypeOK
    <3> HIDE DEF In, In2
    <3> QED
      BY <1>4, <3>1, <3>2
  <2> QED
    BY <2>1, <2>2
<1>7. \A s \in SUs : SU_hits'[s] = CountUpTo(MaxSU_hits, Of2(s))
  <2> TAKE s \in SUs
  <2>1. CASE s = c[1]
    <3>1. Of2(s) = Of(s) \cup {n} /\ n \notin Of(s)
      BY <1>1, <2>1
    <3>2. IsFiniteSet(Of(s))
      BY <1>2, FS_Subset
    <3>3. CountUpTo(MaxSU_hits, Of(s) \cup {n}) =
            IF CountUpTo(MaxSU_hits, Of(s)) < MaxSU_hits
              THEN CountUpTo(MaxSU_hits, Of(s)) + 1 ELSE CountUpTo(MaxSU_hits, Of(s))
      <4> HIDE DEF Of, n
      <4> QED
        BY <1>3, <3>1, <3>2, CountUpToAdd
    <3>4. SU_hits'[s] = IF SU_hits[s] < MaxSU_hits THEN SU_hits[s] + 1 ELSE SU_hits[s]
      <4> HIDE DEF c
      <4> QED
        BY <1>1, <1>5, <2>1 DEF TypeOK
    <3> HIDE DEF Of, Of2
    <3> QED
      BY <1>4, <3>1, <3>3, <3>4
  <2>2. CASE s # c[1]
    <3>1. Of2(s) = Of(s)
      BY <1>1, <1>5, <2>2
    <3>2. SU_hits'[s] = SU_hits[s]
      <4> HIDE DEF c
      <4> QED
        BY <1>1, <1>5, <2>2 DEF TypeOK
    <3> HIDE DEF Of, Of2
    <3> QED
      BY <1>4, <3>1, <3>2
  <2> QED
    BY <2>1, <2>2
<1> QED
  BY <1>1, <1>6, <1>7 DEF CountersCount

\* Moving whole records of different hits to the memory counts those hits.
LEMMA CountMoved ==
  ASSUME ConstantsAssumption, TypeOK, hits' = hits, NEW len \in 0 .. MAX_QUEUE_LENGTH,
         ClearEvents(len),
         \A i \in 0 .. len - 1 : Whole(event_queue[i]),
         \A i, j \in 0 .. len - 1 : event_queue[i].tag = event_queue[j].tag => i = j
  PROVE  counted' = {event_queue[i].tag : i \in 0 .. len - 1} /\ CountersCount'
<1> DEFINE queued(c) == {i \in 0 .. len - 1 : CellOf(event_queue[i]) = c}
           ofSU(s) == {i \in 0 .. len - 1 : hits[event_queue[i].data].su = s}
           In2(d) == {h \in counted' : <<hits[h].su, hits[h].class>> = d}
           Of2(s) == {h \in counted' : hits[h].su = s}
<1>1. /\ event_counter' = [c \in Cells |-> CountUpTo(MaxCounter, queued(c))]
      /\ SU_hits' = [s \in SUs |-> CountUpTo(MaxSU_hits, ofSU(s))]
      /\ counted' = {event_queue[i].tag : i \in 0 .. len - 1}
  BY DEF ClearEvents, MoveEvents
<1>2. \A i \in 0 .. len - 1 :
        /\ event_queue[i].data = event_queue[i].tag
        /\ CellOf(event_queue[i]) = <<hits[event_queue[i].tag].su, hits[event_queue[i].tag].class>>
  BY DEF Whole, CellOf
<1>3. \A S \in SUBSET (0 .. len - 1) :
        Cardinality({event_queue[i].tag : i \in S}) = Cardinality(S)
  <2> TAKE S \in SUBSET (0 .. len - 1)
  <2>1. IsFiniteSet(0 .. len - 1)
    BY FS_Interval, ConstantsAssumption
  <2>2. IsFiniteSet(S)
    BY <2>1, FS_Subset
  <2>3. \A i, j \in S : event_queue[i].tag = event_queue[j].tag => i = j
    OBVIOUS
  <2> DEFINE T == {event_queue[i].tag : i \in S}
             g == [i \in S |-> event_queue[i].tag]
  <2>4. /\ g \in [S -> T] /\ (\A i, j \in S : g[i] = g[j] => i = j)
        /\ \A t \in T : \E i \in S : g[i] = t
    BY <2>3
  <2> HIDE DEF T, g
  <2>5. Cardinality(T) = Cardinality(S)
    BY <2>2, <2>4, AsManyValues, ZenonT(30)
  <2> QED
    BY <2>5 DEF T
<1>4. \A d \in Cells : event_counter'[d] = CountUpTo(MaxCounter, In2(d))
  <2> TAKE d \in Cells
  <2>1. In2(d) = {event_queue[i].tag : i \in queued(d)}
    BY <1>1, <1>2
  <2>2. queued(d) \in SUBSET (0 .. len - 1)
    OBVIOUS
  <2>3. event_counter'[d] = CountUpTo(MaxCounter, queued(d))
    BY <1>1
  <2> HIDE DEF queued, In2
  <2>4. Cardinality(In2(d)) = Cardinality(queued(d))
    BY <1>3, <2>1, <2>2
  <2> QED
    BY <2>3, <2>4 DEF CountUpTo
<1>5. \A s \in SUs : SU_hits'[s] = CountUpTo(MaxSU_hits, Of2(s))
  <2> TAKE s \in SUs
  <2>1. Of2(s) = {event_queue[i].tag : i \in ofSU(s)}
    BY <1>1, <1>2
  <2>2. ofSU(s) \in SUBSET (0 .. len - 1)
    OBVIOUS
  <2>3. SU_hits'[s] = CountUpTo(MaxSU_hits, ofSU(s))
    BY <1>1
  <2> HIDE DEF ofSU, Of2
  <2>4. Cardinality(Of2(s)) = Cardinality(ofSU(s))
    BY <1>3, <2>1, <2>2
  <2> QED
    BY <2>3, <2>4 DEF CountUpTo
<1>6. CountersCount'
  <2>1. \A d : {h \in counted : <<hits[h].su, hits[h].class>> = d}' = In2(d)
    OBVIOUS
  <2>2. \A s : {h \in counted : hits[h].su = s}' = Of2(s)
    OBVIOUS
  <2> HIDE DEF In2, Of2
  <2> QED
    BY <1>4, <1>5, <2>1, <2>2 DEF CountersCount
<1> QED
  BY <1>1, <1>6

LEMMA CountedStep ==
  ASSUME Calm, ConstantsAssumption, TypeOK, QueueOnlyWhileSending, AcquisitionInv,
         QueueInv, CountedInv, [Next]_vars
  PROVE  CountedInv'
<1>a. Len(hits) \in Nat
  BY DEF TypeOK
<1>1. ASSUME NEW k \in HitKinds, StartAcquisition(k)
      PROVE  CountedInv'
  <2>1. /\ UNCHANGED counterVars /\ Len(hits') = Len(hits) + 1
        /\ \A h \in counted : hits'[h] = hits[h]
    BY <1>1, <1>a DEF StartAcquisition, storeVars, CountedInv, TypeOK
  <2>2. /\ \A d : {h \in counted : <<hits[h].su, hits[h].class>> = d}
                    = {h \in counted : <<hits'[h].su, hits'[h].class>> = d}
        /\ \A s : {h \in counted : hits[h].su = s} = {h \in counted : hits'[h].su = s}
    BY <2>1
  <2>3. CountersCount'
    BY <2>1, <2>2 DEF CountedInv, CountersCount, counterVars
  <2> QED
    BY <1>a, <2>1, <2>3 DEF CountedInv, counterVars
<1>2. ASSUME UNCHANGED <<hits, counterVars>>, Pending' => Pending
      PROVE  CountedInv'
  BY <1>2 DEF CountedInv, CountersCount, counterVars
<1>3. ASSUME NEW i, CountAndReserve(i), UNCHANGED <<hits, event_queue, tmVars>>,
             acq.at \in {"record", "find_min"}
      PROVE  CountedInv'
  <2>1. ~Pending'
    BY <1>3 DEF CountAndReserve, Reserve, TypeOK, Pending
  <2>2. event_queue_length = 0
    BY <1>3 DEF CountAndReserve, QueueOnlyWhileSending, TypeOK, ConstantsAssumption
  <2>3. event_queue[0].tag = Len(hits) /\ event_queue[0].data = Len(hits)
    BY <1>3, <2>2 DEF QueueInv, GetFreeRecord, ConstantsAssumption
  <2>4. Len(hits) \in 1 .. Len(hits) /\ Len(hits) \notin counted
    BY <1>3, <1>a DEF QueueInv, CountedInv, Pending
  <2>5. counted' = counted \cup {Len(hits)} /\ CountersCount'
    BY <1>3, <2>3, <2>4, CountOne DEF CountAndReserve, Reserve
  <2> QED
    BY <1>3, <2>1, <2>4, <2>5 DEF CountedInv
<1>4. CASE RecordEvent \/ RecordEventFull
  <2>1. /\ acq.at \in {"record", "find_min"} /\ Pending
        /\ UNCHANGED <<hits, event_queue, tmVars>>
    BY <1>4 DEF RecordEvent, RecordEventFull, Pending
  <2>2. CASE \E i : CountAndReserve(i)
    BY <1>3, <2>1, <2>2
  <2>3. CASE UNCHANGED storeVars
    BY <1>2, <2>1, <2>3 DEF storeVars
  <2> QED
    BY <1>4, <2>2, <2>3 DEF RecordEvent, RecordEventFull, LeaveInQueue, KeepRecord
<1>5. CASE Classify
  BY <1>2, <1>5 DEF Classify, Pending, storeVars
<1>6. CASE CopyFirstHalf \/ CopyRest
  BY <1>2, <1>6 DEF CopyFirstHalf, CopyRest, Pending, Idle, TypeOK
<1>7. CASE SendScienceDataFile
  BY <1>2, <1>7 DEF SendScienceDataFile, StartTelemetry, Pending, storeVars
<1>8. CASE TM_InterruptService
  BY <1>2, <1>8 DEF TM_InterruptService, Pending, storeVars
<1>9. CASE HandleTelecommand
  <2>1. CASE TC_state = "SC_TM_e" /\ Head(TC_mail) = "TM_READY"
    <3>1. \E n \in DOMAIN TC_mail : TC_mail[n] = "TM_READY"
      BY <1>9, <2>1 DEF HandleTelecommand, TypeOK
    <3>2. acq = Idle \/ event_queue_length = 0
      BY <2>1, <3>1 DEF AcquisitionInv
    <3>3. /\ UNCHANGED <<hits, acq>> /\ ClearEvents(event_queue_length)
          /\ event_queue_length \in 0 .. MAX_QUEUE_LENGTH
      BY <1>9, <2>1 DEF HandleTelecommand, TypeOK
    <3>4. event_queue_length = 0 \/ (Waiting = event_queue_length /\ ~Pending')
      BY <3>2, <3>3 DEF Waiting, Idle, Pending
    <3>5. \A i \in 0 .. event_queue_length - 1 :
            /\ i \in Int /\ Waiting = event_queue_length /\ ~Pending'
            /\ event_queue[i].tag \in 0 .. Len(hits)
      <4>1. \A i \in 0 .. event_queue_length - 1 : event_queue[i] \in Record
        BY <3>3 DEF TypeOK, QueueSlots, ConstantsAssumption
      <4> QED
        BY <3>3, <3>4, <4>1 DEF Record, HitNumbers
    <3>6. \A i \in 0 .. event_queue_length - 1 :
            /\ Whole(event_queue[i])
            /\ \A j \in 0 .. i - 1 : event_queue[j].tag < event_queue[i].tag
      BY <3>5 DEF QueueInv
    <3>7. \A i, j \in 0 .. event_queue_length - 1 : j \in 0 .. i - 1 \/ i \in 0 .. j - 1 \/ i = j
      BY <3>5
    <3>8. \A i, j \in 0 .. event_queue_length - 1 :
            event_queue[i].tag = event_queue[j].tag => i = j
      BY <1>a, <3>5, <3>6, <3>7
    <3>9. counted' = {event_queue[i].tag : i \in 0 .. event_queue_length - 1} /\ CountersCount'
      BY <3>3, <3>6, <3>8, CountMoved
    <3>10. \A i \in 0 .. event_queue_length - 1 : event_queue[i].tag \in 1 .. Len(hits)
      BY <1>a, <3>5, <3>6 DEF Whole
    <3> QED
      BY <3>3, <3>5, <3>9, <3>10 DEF CountedInv
  <2>2. CASE ~(TC_state = "SC_TM_e" /\ Head(TC_mail) = "TM_READY")
    BY <1>2, <1>9, <2>2 DEF HandleTelecommand, Pending, storeVars
  <2> QED
    BY <2>1, <2>2
<1>10. ASSUME NEW class \in ResetClasses, Boot(class)
       PROVE  CountedInv'
  <2>1. class = "soft"
    BY DEF Calm, ConstantsAssumption
  <2>2. ~Pending' /\ ClearEvents(0) /\ hits' = hits
    BY <1>10, <2>1 DEF Boot, Idle, Pending
  <2>3. 0 \in 0 .. MAX_QUEUE_LENGTH /\ 0 .. 0 - 1 = {}
    BY DEF ConstantsAssumption
  <2>4. counted' = {event_queue[i].tag : i \in 0 .. 0 - 1} /\ CountersCount'
    BY <2>2, <2>3, CountMoved
  <2> QED
    BY <2>2, <2>3, <2>4 DEF CountedInv
<1>11. CASE UNCHANGED vars
  BY <1>2, <1>11 DEF vars, Pending, storeVars
<1> QED
  BY <1>1, <1>4, <1>5, <1>6, <1>7, <1>8, <1>9, <1>10, <1>11 DEF Next, AcquisitionTask

\* While the file is being sent, its units so far are the halves of the records
\* as they are; no record that was sent is torn, then or later.
FileInv ==
  /\ TM_enabled <=> TC_state = "SC_TM_e"
  /\ TC_state = "SC_TM_e" =>
       /\ telemetry_end_pointer = 2 * free_slot_index + 1
       /\ telemetry_pointer = Len(file) + 1
       /\ \A n \in 1 .. Len(file) : file[n] = Half(n)
  /\ RecordsSentWhole

LEMMA FileStep ==
  ASSUME Calm, ConstantsAssumption, TypeOK, QueueInv, SlotsInv, FileInv, [Next]_vars
  PROVE  FileInv'
<1>a. file \in Seq(HitNumbers) /\ Len(file) \in Nat /\ DOMAIN file = 1 .. Len(file)
  BY DEF TypeOK
<1>1. ASSUME UNCHANGED tmVars, TC_state # "SC_TM_e" \/ UNCHANGED <<event, free_slot_index>>
      PROVE  FileInv'
  <2>1. CASE TC_state # "SC_TM_e"
    BY <1>1, <2>1 DEF FileInv, tmVars, RecordsSentWhole
  <2>2. CASE UNCHANGED <<event, free_slot_index>>
    BY <1>1, <2>2 DEF FileInv, tmVars, RecordsSentWhole, Half
  <2> QED
    BY <1>1, <2>1, <2>2
<1>2. CASE AcquisitionTask
  <2>1. UNCHANGED tmVars
    BY <1>2 DEF AcquisitionTask, StartAcquisition, Classify, RecordEvent, RecordEventFull,
                CopyFirstHalf, CopyRest
  <2>2. CASE CopyFirstHalf \/ CopyRest
    BY <1>1, <2>1, <2>2 DEF CopyFirstHalf, CopyRest, Copying, QueueInv
  <2>3. CASE RecordEvent \/ RecordEventFull
    BY <1>1, <2>1, <2>3 DEF RecordEvent, RecordEventFull, LeaveInQueue, KeepRecord,
                            CountAndReserve, storeVars
  <2>4. CASE Classify \/ \E k \in HitKinds : StartAcquisition(k)
    BY <1>1, <2>1, <2>4 DEF Classify, StartAcquisition, storeVars
  <2> QED
    BY <1>2, <2>2, <2>3, <2>4 DEF AcquisitionTask
<1>3. CASE SendScienceDataFile
  BY <1>3 DEF SendScienceDataFile, StartTelemetry, FileInv, RecordsSentWhole, storeVars
<1>4. CASE TM_InterruptService /\ TM_Send
  <2> DEFINE m == telemetry_pointer
  <2>1. /\ file' = Append(file, Half(m)) /\ telemetry_pointer' = m + 1
        /\ UNCHANGED <<TC_state, TM_enabled, telemetry_end_pointer, event, free_slot_index>>
        /\ TC_state = "SC_TM_e" /\ m = Len(file) + 1 /\ m < 2 * free_slot_index + 1
        /\ \A n \in 1 .. Len(file) : file[n] = Half(n)
    BY <1>4 DEF TM_InterruptService, TM_Send, FileInv, storeVars
  <2>2. /\ Len(file') = m /\ file'[m] = Half(m) /\ DOMAIN file' = 1 .. m
        /\ \A n \in 1 .. Len(file) : file'[n] = file[n]
    BY <1>a, <2>1
  <2>3. \A n : Half(n)' = Half(n)
    BY <2>1 DEF Half
  <2>4. \A n \in 1 .. m : file'[n] = Half(n)
    BY <1>a, <2>1, <2>2
  <2>5. \A n \in 1 .. m - 1 : n % 2 = 0 => file'[n] = file'[n - 1] /\ file'[n] # 0
    <3> TAKE n \in 1 .. m - 1
    <3> HAVE n % 2 = 0
    <3>1. n \in 1 .. Len(file) /\ n \in Int /\ n # 1
      BY <1>a, <2>1
    <3>2. n - 1 \in 1 .. Len(file)
      BY <1>a, <3>1
    <3>3. file[n] = file[n - 1] /\ file[n] # 0
      BY <1>a, <3>1 DEF FileInv, RecordsSentWhole
    <3> QED
      BY <2>2, <3>1, <3>2, <3>3
  <2>6. m % 2 = 0 => file'[m] = file'[m - 1] /\ file'[m] # 0
    <3> SUFFICES ASSUME m % 2 = 0
                 PROVE  file'[m] = file'[m - 1] /\ file'[m] # 0
      OBVIOUS
    <3> DEFINE i == (m - 1) \div 2
    <3>1. m \in Nat /\ free_slot_index \in Nat
      BY <1>a, <2>1 DEF TypeOK
    <3>2. /\ (m - 1) % 2 = 1 /\ (m - 2) \div 2 = i /\ i \in 0 .. free_slot_index - 1
          /\ m - 1 \in 1 .. m /\ (m - 1) - 1 = m - 2
      BY <2>1, <3>1
    <3>3. Whole(event[i])
      BY <2>1, <3>2 DEF SlotsInv, Settled, QueueInv
    <3>4. Half(m) = event[i].data /\ Half(m - 1) = event[i].tag
      BY <3>2 DEF Half
    <3> QED
      BY <2>2, <2>4, <3>2, <3>3, <3>4 DEF Whole
  <2>7. RecordsSentWhole'
    <3>1. \A n \in 1 .. m : n \in 1 .. m - 1 \/ n = m
      BY <1>a, <2>1
    <3> QED
      BY <2>2, <2>5, <2>6, <3>1 DEF RecordsSentWhole
  <2> QED
    BY <1>a, <2>1, <2>2, <2>3, <2>4, <2>7 DEF FileInv
<1>5. CASE TM_InterruptService /\ TM_Ready
  BY <1>1, <1>5 DEF TM_InterruptService, TM_Ready, ReadyFrom, storeVars
<1>6. CASE HandleTelecommand
  <2>1. CASE TC_state = "SC_TM_e" /\ Head(TC_mail) = "TM_READY"
    <3>1. TM_enabled' = FALSE /\ TC_state' = "TC_handling_e" /\ file' = file
      BY <1>6, <2>1 DEF HandleTelecommand
    <3> QED
      BY <3>1 DEF FileInv, RecordsSentWhole
  <2>2. CASE ~(TC_state = "SC_TM_e" /\ Head(TC_mail) = "TM_READY")
    BY <1>1, <1>6, <2>2 DEF HandleTelecommand, storeVars
  <2> QED
    BY <2>1, <2>2
<1>7. ASSUME NEW class \in ResetClasses, Boot(class)
      PROVE  FileInv'
  BY <1>7 DEF Boot, FileInv, RecordsSentWhole
<1>8. CASE UNCHANGED vars
  BY <1>1, <1>8 DEF vars, storeVars
<1> QED
  BY <1>2, <1>3, <1>4, <1>5, <1>6, <1>7, <1>8 DEF Next, TM_InterruptService

\* What holds in every state of a calm behaviour.
StoreInv == TypeOK /\ QueueOnlyWhileSending /\ AcquisitionInv
              /\ QueueInv /\ SlotsInv /\ CountedInv /\ FileInv

LEMMA StoreInit == Init => AcquisitionInv /\ QueueInv /\ SlotsInv /\ CountedInv /\ FileInv
<1> SUFFICES ASSUME Init
             PROVE  AcquisitionInv /\ QueueInv /\ SlotsInv /\ CountedInv /\ FileInv
  OBVIOUS
<1>1. /\ acq.at = "wait_mail" /\ TC_state = "TC_handling_e" /\ TM_enabled = FALSE
      /\ event_queue_length = 0 /\ free_slot_index = 0 /\ file = <<>> /\ counted = {}
  BY DEF Init, Idle
<1>2. Waiting = 0 /\ Settled = {}
  BY <1>1 DEF Waiting, Settled
<1>3. CountersCount
  <2>1. CountUpTo(MaxCounter, {}) = 0 /\ CountUpTo(MaxSU_hits, {}) = 0
    BY FS_EmptySet, ConstantsAssumption DEF CountUpTo, ConstantsAssumption
  <2>2. /\ \A d : {h \in counted : <<hits[h].su, hits[h].class>> = d} = {}
        /\ \A s : {h \in counted : hits[h].su = s} = {}
    BY <1>1
  <2> QED
    BY <2>1, <2>2 DEF CountersCount, Init
<1>4. AcquisitionInv
  BY DEF Init, AcquisitionInv, Idle
<1> QED
  BY <1>1, <1>2, <1>3, <1>4 DEF QueueInv, SlotsInv, CountedInv, FileInv, RecordsSentWhole,
     Copying, Pending

LEMMA StoreInvariant == Calm => (Spec => []StoreInv)
<1> SUFFICES ASSUME Calm
             PROVE  Spec => []StoreInv
  OBVIOUS
<1>1. "watchdog" \notin ResetClasses /\ "end_in_acquisition" \notin Overlap
  BY DEF Calm
<1>2. Spec => []QueueOnlyWhileSending
  BY <1>1, QueueOnly
<1> DEFINE I == AcquisitionInv /\ QueueInv /\ SlotsInv /\ CountedInv /\ FileInv
<1>3. TypeOK /\ QueueOnlyWhileSending /\ I /\ [Next]_vars => I'
  BY <1>1, ConstantsAssumption, AcquisitionStep, QueueStep, SlotsStep, CountedStep, FileStep
<1>4. Init => I
  BY StoreInit
<1>5. TypeOK /\ QueueOnlyWhileSending /\ I => StoreInv
  BY DEF StoreInv
<1> HIDE DEF I
<1> QED
  BY <1>2, <1>3, <1>4, <1>5, TypeCorrect, PTL DEF Spec

\* Every record that is sent is one event and every counter is the number of
\* the events counted, when telemetry starts and ends between the acquisitions
\* and no reset keeps the queue, for every size of queue and memory, any number
\* of hits and any TM_READY mails.
THEOREM TrueFile == Calm => (Spec => []FileIsTrue)
<1> SUFFICES ASSUME Calm
             PROVE  Spec => []FileIsTrue
  OBVIOUS
<1>1. StoreInv => FileIsTrue
  BY DEF StoreInv, FileIsTrue, FileInv, CountedInv
<1> QED
  BY <1>1, StoreInvariant, PTL

----------------------------------------------------------------------------
(* ScienceData implements EventStore. *)

\* A calm telemetry, and the TC execution task handles a TM_READY mail before
\* the next TM interrupt finds that nothing is left to be sent.
OneReadyMail == Calm /\ MaxReady <= 1

ReadyMails == {n \in DOMAIN TC_mail : TC_mail[n] = "TM_READY"}

\* A pending TM_READY mail says that the file is sent to its end.
ReadyInv ==
  /\ \A m, n \in ReadyMails : m = n
  /\ ReadyMails # {} => TC_state = "SC_TM_e" /\ telemetry_pointer >= telemetry_end_pointer

LEMMA ReadyStep ==
  ASSUME OneReadyMail, ConstantsAssumption, TypeOK, FileInv, ReadyInv, [Next]_vars
  PROVE  ReadyInv'
<1>a. TC_mail \in Seq(Mails) /\ DOMAIN TC_mail = 1 .. Len(TC_mail) /\ Len(TC_mail) \in Nat
  BY DEF TypeOK
<1>1. ASSUME UNCHANGED <<TC_mail, TC_state, telemetry_pointer, telemetry_end_pointer>>
      PROVE  ReadyInv'
  BY <1>1 DEF ReadyInv, ReadyMails
<1>2. CASE AcquisitionTask
  BY <1>1, <1>2 DEF AcquisitionTask, StartAcquisition, Classify, RecordEvent,
     RecordEventFull, CopyFirstHalf, CopyRest, tmVars
<1>3. CASE SendScienceDataFile
  <2>1. ReadyMails = {}
    BY <1>3 DEF SendScienceDataFile, StartTelemetry, ReadyInv
  <2>2. ReadyMails' = {}
    BY <1>3, <1>a, <2>1 DEF SendScienceDataFile, StartTelemetry, MailTo, ReadyMails
  <2> QED
    BY <2>2 DEF ReadyInv
<1>4. CASE TM_InterruptService /\ TM_Send
  <2>1. ReadyMails = {}
    BY <1>4 DEF TM_Send, ReadyInv, TypeOK
  <2>2. ReadyMails' = {}
    BY <1>4, <2>1 DEF TM_Send, ReadyMails
  <2> QED
    BY <2>2 DEF ReadyInv
<1>5. CASE TM_InterruptService /\ TM_Ready
  <2>1. ReadyMails = {}
    <3>1. IsFiniteSet(1 .. Len(TC_mail))
      BY <1>a, FS_Interval
    <3>2. IsFiniteSet(ReadyMails)
      BY <1>a, <3>1, FS_Subset DEF ReadyMails
    <3>3. Cardinality(ReadyMails) < 1 /\ Cardinality(ReadyMails) \in Nat
      BY <1>5, <3>2, FS_CardinalityType
         DEF TM_Ready, ReadyFrom, ReadyMails, OneReadyMail, ConstantsAssumption
    <3> QED
      BY <3>2, <3>3, FS_EmptySet
  <2>2. \A m \in ReadyMails' : m = Len(TC_mail) + 1
    BY <1>5, <1>a, <2>1 DEF TM_Ready, ReadyFrom, MailTo, ReadyMails
  <2>3. /\ TC_state' = "SC_TM_e" /\ telemetry_pointer >= telemetry_end_pointer
        /\ UNCHANGED <<telemetry_pointer, telemetry_end_pointer>>
    BY <1>5 DEF TM_Ready, ReadyFrom, FileInv, tmVars
  <2> QED
    BY <2>2, <2>3 DEF ReadyInv
<1>6. CASE HandleTelecommand
  <2>1. /\ TC_mail # <<>> /\ TC_mail' = Tail(TC_mail)
        /\ DOMAIN TC_mail' = 1 .. Len(TC_mail) - 1
        /\ \A n \in 1 .. Len(TC_mail) - 1 : TC_mail'[n] = TC_mail[n + 1]
    BY <1>6, <1>a DEF HandleTelecommand
  <2>2. \A n \in ReadyMails' : n + 1 \in ReadyMails /\ n \in Nat /\ n > 0
    BY <1>a, <2>1 DEF ReadyMails
  <2>3. CASE ReadyMails' = {}
    BY <2>3 DEF ReadyInv
  <2>4. CASE ReadyMails' # {}
    <3>1. \A m, n \in ReadyMails' : m = n
      BY <2>2 DEF ReadyInv
    <3>2. Head(TC_mail) # "TM_READY"
      <4>1. Head(TC_mail) = "TM_READY" => 1 \in ReadyMails
        BY <1>a, <2>1 DEF ReadyMails
      <4> QED
        BY <2>2, <2>4, <4>1 DEF ReadyInv
    <3> QED
      BY <1>6, <2>2, <2>4, <3>1, <3>2 DEF HandleTelecommand, ReadyInv, tmVars
  <2> QED
    BY <2>3, <2>4
<1>7. ASSUME NEW class \in ResetClasses, Boot(class)
      PROVE  ReadyInv'
  <2>1. ReadyMails' = {}
    BY <1>7 DEF Boot, ReadyMails
  <2> QED
    BY <2>1 DEF ReadyInv
<1>8. CASE UNCHANGED vars
  BY <1>1, <1>8 DEF vars, tmVars
<1> QED
  BY <1>2, <1>3, <1>4, <1>5, <1>6, <1>7, <1>8 DEF Next, TM_InterruptService

\* Outside a copy the store keeps the hits of the slots, one in each.
LEMMA KeptIs ==
  ASSUME ConstantsAssumption, TypeOK, SlotsInv, ~Copying
  PROVE  /\ Kept = {event[i].tag : i \in 0 .. free_slot_index - 1}
         /\ IsFiniteSet(Kept) /\ Cardinality(Kept) = free_slot_index
         /\ Settled = 0 .. free_slot_index - 1
<1> DEFINE I == 0 .. free_slot_index - 1
           T == {event[i].tag : i \in I}
           g == [i \in I |-> event[i].tag]
<1>1. Settled = I
  BY DEF Settled
<1>2. Kept = T
  BY DEF Kept, KeptIn, Copying
<1>3. free_slot_index \in Nat
  BY DEF TypeOK, ConstantsAssumption
<1>4. IsFiniteSet(I) /\ Cardinality(I) = free_slot_index
  BY <1>3, FS_Interval
<1>5. \A i, j \in I : event[i].tag = event[j].tag => i = j
  BY <1>1 DEF SlotsInv
<1>6. /\ g \in [I -> T] /\ (\A i, j \in I : g[i] = g[j] => i = j)
      /\ \A t \in T : \E i \in I : g[i] = t
  BY <1>5
<1>7. IsFiniteSet(T) /\ Cardinality(T) = Cardinality(I)
  <2> HIDE DEF I, T, g
  <2> QED
    BY <1>4, <1>6, AsManyValues, ZenonT(30)
<1> QED
  BY <1>1, <1>2, <1>4, <1>7

\* In a full memory the search finds the record of the hit that gives way.
LEMMA WorstIsFound ==
  ASSUME ConstantsAssumption, TypeOK, SlotsInv, ~Copying, free_slot_index = max_events
  PROVE  /\ FindMinQualityRecord \in Slots
         /\ Abstract!Worst(Kept) = event[FindMinQualityRecord].tag
<1> DEFINE m == FindMinQualityRecord
           w == event[m].tag
           P(h) == \A g \in Kept \ {h} : \/ hits[h].quality < hits[g].quality
                                         \/ hits[h].quality = hits[g].quality /\ h < g
<1>1. m \in Slots /\ \A i \in Slots \ {m} : ReplacedBefore(m, i)
  BY FindMinIsSlot
<1>2. Slots = 0 .. free_slot_index - 1 /\ Slots = Settled
  BY KeptIs DEF Slots
<1>3. Kept = {event[i].tag : i \in Slots}
  BY <1>2, KeptIs
<1>4. \A i \in Slots : /\ event[i].data = event[i].tag /\ event[i].tag \in Nat
                       /\ QualityNumber(event[i]) = hits[event[i].tag].quality
                       /\ hits[event[i].tag].quality \in Nat
  <2> TAKE i \in Slots
  <2>1. event[i] \in Record /\ Whole(event[i])
    BY <1>2 DEF TypeOK, SlotsInv
  <2>2. event[i].tag \in Nat
    BY <2>1 DEF Record, HitNumbers, TypeOK
  <2> QED
    BY <2>1, <2>2, QualityType DEF Whole, QualityNumber
<1>5. \A i, j \in Slots : event[i].tag = event[j].tag => i = j
  BY <1>2 DEF SlotsInv
<1>6. w \in Kept
  BY <1>1, <1>3
<1>7. P(w)
  <2> SUFFICES ASSUME NEW g \in Kept \ {w}
               PROVE  \/ hits[w].quality < hits[g].quality
                      \/ hits[w].quality = hits[g].quality /\ w < g
    OBVIOUS
  <2>1. PICK i \in Slots : g = event[i].tag
    BY <1>3
  <2>2. i \in Slots \ {m}
    BY <2>1
  <2>3. ReplacedBefore(m, i) /\ event[m].tag # event[i].tag
    BY <1>1, <2>1, <2>2
  <2> HIDE DEF m
  <2> QED
    BY <1>1, <1>4, <2>1, <2>3 DEF ReplacedBefore
<1>8. \A h \in Kept : hits[h].quality \in Nat /\ h \in Nat
  BY <1>3, <1>4
<1>9. \A h \in Kept : P(h) => h = w
  <2> HIDE DEF w
  <2> QED
    BY <1>6, <1>7, <1>8
<1>10. Abstract!Worst(Kept) = CHOOSE h \in Kept : P(h)
  BY DEF Abstract!Worst, Abstract!Quality
<1> HIDE DEF P, w, m
<1>11. (CHOOSE h \in Kept : P(h)) = w
  BY <1>6, <1>7, <1>9
<1> QED
  BY <1>1, <1>10, <1>11 DEF w, m

\* A step that changes none of the variables of the store is no step of it.
LEMMA StutterStep ==
  ASSUME UNCHANGED <<hits, delivered, PendingHit, Kept, Backlog, Sending>>
  PROVE  [Abstract!Next]_(Abstract!vars)
  BY DEF Abstract!vars

\* What the backlog depends on.
LEMMA SameBacklog ==
  ASSUME Waiting' = Waiting,
         \A i \in 1 .. Waiting : event_queue'[i - 1].tag = event_queue[i - 1].tag
  PROVE  Backlog' = Backlog
  BY DEF Backlog

\* A hit that is accepted (StartAcquisition) is one that the store accepts.
LEMMA AcceptStep ==
  ASSUME ConstantsAssumption, TypeOK, QueueInv, NEW k \in HitKinds, StartAcquisition(k)
  PROVE  Abstract!Accept(k)
<1>1. /\ acq.at = "wait_mail" /\ acq'.at = "classify" /\ acq'.slot = GetFreeRecord
      /\ hits' = Append(hits, k) /\ Len(hits) < MaxHits
      /\ UNCHANGED <<event_queue_length, event, free_slot_index, TC_state, delivered>>
  BY DEF StartAcquisition, TypeOK, storeVars, tmVars
<1>2. Len(hits) \in Nat /\ Len(hits') = Len(hits) + 1
  BY <1>1 DEF TypeOK
<1>3. PendingHit = 0 /\ PendingHit' = Len(hits) + 1
  BY <1>1, <1>2 DEF PendingHit
<1>4. Kept' = Kept /\ Sending' = Sending
  BY <1>1 DEF Kept, KeptIn, Sending
<1>5. /\ Waiting = event_queue_length /\ GetFreeRecord \in Nat
      /\ Waiting \in 0 .. MAX_QUEUE_LENGTH
  BY <1>1, WaitingIs DEF Waiting, TypeOK, QueueSlots, ConstantsAssumption
<1>6. Waiting' = GetFreeRecord
  <2>1. GetFreeRecord <= event_queue_length /\ event_queue_length \in Nat
    BY WaitingIs DEF TypeOK, ConstantsAssumption
  <2> QED
    BY <1>1, <1>5, <2>1 DEF Waiting
<1>7. \A i \in QueueSlots : event_queue'[i].tag = event_queue[i].tag
  <2>1. event_queue' = [event_queue EXCEPT ![GetFreeRecord].data = Len(hits) + 1]
    BY DEF StartAcquisition
  <2>2. \A i \in QueueSlots : [event_queue[i] EXCEPT !.data = Len(hits) + 1].tag = event_queue[i].tag
    BY DEF TypeOK, Record
  <2>3. \A i \in QueueSlots : event_queue'[i] = IF i = GetFreeRecord
            THEN [event_queue[i] EXCEPT !.data = Len(hits) + 1] ELSE event_queue[i]
    BY <2>1 DEF TypeOK
  <2> QED
    BY <2>2, <2>3
<1>8. MAX_QUEUE_LENGTH \in Nat /\ MAX_QUEUE_LENGTH >= 1
  BY DEF ConstantsAssumption
<1>9. /\ DOMAIN Backlog = 1 .. Waiting /\ Len(Backlog) = Waiting
      /\ \A i \in 1 .. Waiting : i - 1 \in QueueSlots /\ Backlog[i] = event_queue[i - 1].tag
      /\ Backlog \in Seq(HitNumbers)
  <2>1. \A i \in 1 .. Waiting : i - 1 \in QueueSlots
    BY <1>5, <1>8 DEF QueueSlots
  <2>2. \A i \in 1 .. Waiting : event_queue[i - 1].tag \in HitNumbers
    BY <2>1 DEF TypeOK, Record
  <2>3. Backlog \in [1 .. Waiting -> HitNumbers]
    BY <2>2 DEF Backlog
  <2>4. Waiting \in Nat
    BY <1>5, <1>8
  <2>5. Backlog \in Seq(HitNumbers) /\ Len(Backlog) = Waiting
    BY <2>3, <2>4
  <2> QED
    BY <2>1, <2>5 DEF Backlog
<1>10. Backlog' = IF Len(Backlog) = MAX_QUEUE_LENGTH
                    THEN SubSeq(Backlog, 1, MAX_QUEUE_LENGTH - 1) ELSE Backlog
  <2>1. CASE Waiting = MAX_QUEUE_LENGTH
    <3>1. GetFreeRecord = MAX_QUEUE_LENGTH - 1
      BY <1>5, <1>8, <2>1 DEF GetFreeRecord
    <3>2. Backlog' = [i \in 1 .. MAX_QUEUE_LENGTH - 1 |-> Backlog[i]]
      <4>1. Backlog' = [i \in 1 .. MAX_QUEUE_LENGTH - 1 |-> event_queue'[i - 1].tag]
        BY <1>6, <3>1 DEF Backlog
      <4>2. \A i \in 1 .. MAX_QUEUE_LENGTH - 1 : event_queue'[i - 1].tag = Backlog[i]
        BY <1>7, <1>8, <1>9, <2>1
      <4> QED
        BY <4>1, <4>2
    <3>3. SubSeq(Backlog, 1, MAX_QUEUE_LENGTH - 1)
            = [i \in 1 .. MAX_QUEUE_LENGTH - 1 |-> Backlog[i]]
      <4> DEFINE s == SubSeq(Backlog, 1, MAX_QUEUE_LENGTH - 1)
                 t == [i \in 1 .. MAX_QUEUE_LENGTH - 1 |-> Backlog[i]]
      <4>1. \A i \in 1 .. MAX_QUEUE_LENGTH - 1 : Backlog[i] \in HitNumbers
        BY <1>8, <1>9, <2>1
      <4>2. /\ s \in Seq(HitNumbers) /\ Len(s) = MAX_QUEUE_LENGTH - 1
            /\ \A i \in 1 .. MAX_QUEUE_LENGTH - 1 : s[i] = Backlog[i]
        BY <1>8, <4>1, SubSeqProperties
      <4>3. t \in Seq(HitNumbers) /\ Len(t) = MAX_QUEUE_LENGTH - 1
        <5>1. t \in [1 .. MAX_QUEUE_LENGTH - 1 -> HitNumbers]
          BY <4>1
        <5> QED
          BY <1>8, <5>1
      <4>4. \A i \in 1 .. Len(s) : s[i] = t[i]
        BY <4>2
      <4> HIDE DEF s, t
      <4>5. s = t
        BY <4>2, <4>3, <4>4, SeqEqual
      <4> QED
        BY <4>5 DEF s, t
    <3> QED
      BY <1>9, <2>1, <3>2, <3>3
  <2>2. CASE Waiting # MAX_QUEUE_LENGTH
    <3>1. GetFreeRecord = Waiting
      BY <1>5, <1>8, <2>2 DEF GetFreeRecord
    <3> QED
      BY <1>6, <1>7, <1>9, <2>2, <3>1, SameBacklog
  <2> QED
    BY <2>1, <2>2
<1> QED
  BY <1>1, <1>3, <1>4, <1>10 DEF Abstract!Accept

\* An event left in the queue is a hit that the store postpones.
LEMMA PostponeStep ==
  ASSUME ConstantsAssumption, TypeOK, QueueInv, ~Copying, LeaveInQueue,
         acq.at \in {"record", "find_min"},
         UNCHANGED <<hits, event_queue, tmVars, TC_mail>>
  PROVE  Abstract!Postpone
<1>1. /\ acq'.at = "wait_mail" /\ TC_state = "SC_TM_e"
      /\ UNCHANGED <<hits, event_queue, event, free_slot_index, delivered, TC_state>>
      /\ event_queue_length' = IF event_queue_length < MAX_QUEUE_LENGTH
                                 THEN event_queue_length + 1 ELSE event_queue_length
  BY DEF LeaveInQueue, KeepRecord, Idle, storeVars, tmVars
<1>2. PendingHit = Len(hits) /\ PendingHit # 0 /\ PendingHit' = 0
  BY <1>1 DEF PendingHit, QueueInv, TypeOK
<1>3. Kept' = Kept /\ Sending' = Sending /\ Sending
  BY <1>1 DEF Kept, KeptIn, Sending, Copying
<1>4. /\ GetFreeRecord \in QueueSlots
      /\ Waiting = IF acq.at = "record" THEN GetFreeRecord ELSE event_queue_length
  BY WaitingIs
<1>5. /\ Waiting' = Waiting + 1 /\ Waiting \in Nat /\ Waiting \in QueueSlots
      /\ event_queue[Waiting].tag = Len(hits)
  <2>1. Waiting' = event_queue_length'
    BY <1>1 DEF Waiting
  <2> QED
    BY <1>1, <1>4, <2>1 DEF QueueInv, GetFreeRecord, TypeOK, ConstantsAssumption, QueueSlots
<1>6. /\ Backlog \in Seq(HitNumbers) /\ Len(Backlog) = Waiting
      /\ \A i \in 1 .. Waiting : Backlog[i] = event_queue[i - 1].tag
  <2>1. \A i \in 1 .. Waiting : i - 1 \in QueueSlots
    BY <1>5 DEF QueueSlots, ConstantsAssumption
  <2>2. \A i \in 1 .. Waiting : event_queue[i - 1].tag \in HitNumbers
    BY <2>1 DEF TypeOK, Record
  <2>3. Backlog \in [1 .. Waiting -> HitNumbers]
    BY <2>2 DEF Backlog
  <2> QED
    BY <1>5, <2>3 DEF Backlog
<1>7. Backlog' = Append(Backlog, Len(hits))
  <2> DEFINE t == [i \in 1 .. Waiting + 1 |-> event_queue[i - 1].tag]
  <2>1. Backlog' = t
    BY <1>1, <1>5 DEF Backlog
  <2>2. Len(hits) \in HitNumbers /\ (Waiting + 1) - 1 = Waiting
    BY <1>5 DEF HitNumbers, TypeOK
  <2>3. /\ Append(Backlog, Len(hits)) \in Seq(HitNumbers)
        /\ Len(Append(Backlog, Len(hits))) = Waiting + 1
        /\ \A i \in 1 .. Waiting : Append(Backlog, Len(hits))[i] = Backlog[i]
        /\ Append(Backlog, Len(hits))[Waiting + 1] = Len(hits)
    BY <1>6, <2>2, AppendProperties
  <2>4. \A i \in 1 .. Waiting + 1 : i \in 1 .. Waiting \/ i = Waiting + 1
    BY <1>5
  <2>5. \A i \in 1 .. Waiting + 1 : t[i] = Append(Backlog, Len(hits))[i]
    BY <1>5, <1>6, <2>2, <2>3, <2>4
  <2>6. t \in Seq(HitNumbers) /\ Len(t) = Waiting + 1
    <3>1. \A i \in 1 .. Waiting + 1 : event_queue[i - 1].tag \in HitNumbers
      BY <2>3, <2>4, <2>5, <1>6
    <3>2. t \in [1 .. Waiting + 1 -> HitNumbers]
      BY <3>1
    <3> QED
      BY <1>5, <3>2
  <2> HIDE DEF t
  <2>7. t = Append(Backlog, Len(hits))
    BY <2>3, <2>5, <2>6, SeqEqual
  <2> QED
    BY <2>1, <2>7
<1> QED
  BY <1>1, <1>2, <1>3, <1>7 DEF Abstract!Postpone

\* EventStore counts as ScienceData does.
LEMMA SameCardinality == \A S : Abstract!Cardinality(S) = Cardinality(S)
  BY DEF Abstract!Cardinality, Cardinality

\* An event that gets a slot, its own or that of the worst one if it is not
\* worse itself, is kept by the store; otherwise the store keeps what it has.
LEMMA KeepStep ==
  ASSUME ConstantsAssumption, TypeOK, QueueInv, SlotsInv, ~Copying,
         NEW index \in Slots, CountAndReserve(index),
         free_slot_index = max_events => index = FindMinQualityRecord,
         acq.at \in {"record", "find_min"}, event_queue[0].tag = Len(hits),
         event_queue_length = 0,
         UNCHANGED <<hits, event_queue, tmVars, TC_mail>>
  PROVE  Abstract!Keep
<1>1. /\ acq'.at = "copy" /\ TC_state # "SC_TM_e"
      /\ UNCHANGED <<hits, event_queue, event_queue_length, delivered, TC_state>>
  BY DEF CountAndReserve, Reserve, TypeOK, tmVars
<1>2. PendingHit = Len(hits) /\ PendingHit # 0 /\ PendingHit' = 0
  BY <1>1 DEF PendingHit, QueueInv, TypeOK
<1>3. Sending' = Sending /\ ~Sending
  BY <1>1 DEF Sending
<1>4. Backlog' = Backlog
  <2>1. Waiting = 0 /\ Waiting' = 0
    <3>1. GetFreeRecord = 0
      BY DEF GetFreeRecord, ConstantsAssumption
    <3>2. Waiting = 0
      BY <3>1, WaitingIs
    <3>3. Waiting' = 0
      BY <1>1 DEF Waiting
    <3> QED
      BY <3>2, <3>3
  <2> QED
    BY <1>1, <2>1, SameBacklog
<1>5. /\ Kept = {event[i].tag : i \in 0 .. free_slot_index - 1}
      /\ Cardinality(Kept) = free_slot_index /\ Settled = 0 .. free_slot_index - 1
  BY KeptIs
<1>6. /\ free_slot_index \in 0 .. max_events /\ max_events \in Nat
      /\ Slots = 0 .. max_events - 1
      /\ \A i \in Slots : event[i] \in Record
      /\ event_queue[0] \in Record /\ DOMAIN event = Slots
  BY DEF TypeOK, Slots, ConstantsAssumption, QueueSlots
<1>7. QualityNumber(event_queue[0]) = hits[Len(hits)].quality
      /\ QualityNumber(event_queue[0]) \in Nat
  BY <1>2, <1>6, QualityType DEF QualityNumber
<1>11. /\ PendingHit # 0 /\ ~Sending /\ PendingHit' = 0
       /\ UNCHANGED <<hits, Backlog, Sending, delivered>>
  BY <1>1, <1>2, <1>3, <1>4
<1> DEFINE Q(r) == QualityNumber(r)
           In(i) == /\ acq'.at = "copy" /\ i = acq'.index
                    /\ Q(event_queue[0]) >= Q(event'[i])
           K(i) == IF In(i) THEN event_queue[0].tag ELSE event'[i].tag
<1>8. Kept' = {K(i) : i \in 0 .. free_slot_index' - 1}
  <2>1. \A i : KeptIn(i)' = K(i)
    BY <1>1 DEF KeptIn, QualityNumber
  <2> HIDE DEF K
  <2> QED
    BY <2>1 DEF Kept
<1>9. CASE free_slot_index < max_events
  <2> DEFINE f == free_slot_index
  <2>1. /\ acq' = [acq EXCEPT !.at = "copy", !.index = f] /\ free_slot_index' = f + 1
        /\ event' = [event EXCEPT ![f].tag = 0]
    BY <1>9 DEF CountAndReserve, Reserve
  <2>2. acq'.index = f
    BY <2>1 DEF TypeOK
  <2>3. f \in Slots
    BY <1>6, <1>9
  <2>4. /\ event'[f] = [event[f] EXCEPT !.tag = 0]
        /\ \A i \in Slots \ {f} : event'[i] = event[i]
    BY <1>6, <2>1, <2>3
  <2>5. Q(event'[f]) = 0
    <3>1. [event[f] EXCEPT !.tag = 0].tag = 0
      BY <1>6, <2>3 DEF Record
    <3> QED
      BY <2>4, <3>1 DEF QualityNumber
  <2>6. K(f) = Len(hits)
    BY <1>1, <1>7, <2>2, <2>5
  <2>7. \A i \in 0 .. f - 1 : K(i) = event[i].tag
    BY <1>6, <1>9, <2>2, <2>4
  <2> HIDE DEF K
  <2>8. Kept' = Kept \cup {Len(hits)}
    <3>1. \A i : i \in 0 .. f <=> i \in 0 .. f - 1 \/ i = f
      BY <1>6
    <3>2. (f + 1) - 1 = f
      BY <1>6
    <3>3. Kept' = {K(i) : i \in 0 .. f}
      BY <1>8, <2>1, <3>2
    <3> QED
      BY <1>5, <2>6, <2>7, <3>1, <3>3
  <2> QED
    <3>1. Cardinality(Kept) < max_events /\ Kept' = Kept \cup {PendingHit}
      BY <1>2, <1>5, <1>9, <2>8
    <3> QED
      BY SameCardinality, <1>11, <3>1 DEF Abstract!Keep
<1>10. CASE ~(free_slot_index < max_events)
  <2> DEFINE m == FindMinQualityRecord
             w == event[m].tag
  <2>1. free_slot_index = max_events /\ index = m /\ Slots = 0 .. free_slot_index - 1
    BY <1>6, <1>10
  <2>2. m \in Slots /\ Abstract!Worst(Kept) = w
    BY <2>1, WorstIsFound
  <2>3. acq'.index = m /\ event' = event /\ free_slot_index' = free_slot_index
    BY <1>10, <2>1 DEF CountAndReserve, Reserve, TypeOK
  <2> HIDE DEF m
  <2>4. \A i \in Slots : /\ Whole(event[i])
                         /\ \A j \in Slots : event[j].tag = event[i].tag => i = j
    BY <1>5, <2>1 DEF SlotsInv
  <2>5. Q(event[m]) = hits[w].quality
    BY <2>2, <2>4 DEF QualityNumber, Whole
  <2>6. \A i \in Slots \ {m} : K(i) = event[i].tag
    BY <2>3
  <2>7. K(m) = IF hits[Len(hits)].quality >= hits[w].quality THEN Len(hits) ELSE w
    BY <1>1, <1>7, <2>3, <2>5
  <2> HIDE DEF K
  <2>8. Kept = {event[i].tag : i \in Slots} /\ Kept' = {K(i) : i \in Slots}
    BY <1>5, <1>8, <2>1, <2>3
  <2>11. Cardinality(Kept) >= max_events
    BY <1>5, <1>6, <2>1
  <2>12. /\ Abstract!Quality(PendingHit) = hits[Len(hits)].quality /\ PendingHit = Len(hits)
         /\ Abstract!Quality(Abstract!Worst(Kept)) = hits[w].quality
         /\ Abstract!Worst(Kept) = w
    BY <1>2, <2>2 DEF Abstract!Quality
  <2>9. CASE hits[Len(hits)].quality >= hits[w].quality
    <3>1. Kept' = (Kept \ {w}) \cup {Len(hits)}
      BY <2>2, <2>4, <2>6, <2>7, <2>8, <2>9
    <3> QED
      BY SameCardinality, <1>11, <2>11, <2>12, <2>9, <3>1 DEF Abstract!Keep
  <2>10. CASE ~(hits[Len(hits)].quality >= hits[w].quality)
    <3>1. Kept' = Kept
      BY <2>2, <2>6, <2>7, <2>8, <2>10
    <3> QED
      BY SameCardinality, <1>11, <2>11, <2>12, <2>10, <3>1 DEF Abstract!Keep
  <2> QED
    BY <2>9, <2>10
<1> QED
  BY <1>9, <1>10

\* The copy that follows changes nothing that the store knows of.
LEMMA CopyStep ==
  ASSUME ConstantsAssumption, TypeOK, QueueInv, SlotsInv, CopyFirstHalf \/ CopyRest
  PROVE  UNCHANGED <<hits, delivered, PendingHit, Kept, Backlog, Sending>>
<1>1. /\ UNCHANGED <<hits, delivered, event_queue, event_queue_length, free_slot_index, TC_state>>
      /\ acq.at \in {"copy", "copy_rest"} /\ acq'.at \in {"copy_rest", "wait_mail"}
      /\ acq.index \in Slots
  BY DEF CopyFirstHalf, CopyRest, queueVars, tmVars, Idle, TypeOK
<1>2. PendingHit' = PendingHit /\ Sending' = Sending
  BY <1>1 DEF PendingHit, Sending
<1>3. Backlog' = Backlog
  <2>1. Waiting' = Waiting
    BY <1>1 DEF Waiting
  <2> QED
    BY <1>1, <2>1, SameBacklog
<1>4. \A i \in Slots : KeptIn(i)' = KeptIn(i)
  <2> TAKE i \in Slots
  <2>1. KeptIn(i)' = event'[i].tag
    BY <1>1 DEF KeptIn
  <2>2. event[i] \in Record /\ event[acq.index] \in Record
    BY <1>1 DEF TypeOK
  <2>3. CASE CopyRest
    <3>1. event' = [event EXCEPT ![acq.index].data = event_queue[0].data] /\ acq.at = "copy_rest"
      BY <2>3 DEF CopyRest
    <3>2. event'[i].tag = event[i].tag
      <4>1. event'[i] = IF i = acq.index THEN [event[i] EXCEPT !.data = event_queue[0].data]
                                         ELSE event[i]
        BY <3>1 DEF TypeOK
      <4>2. [event[i] EXCEPT !.data = event_queue[0].data].tag = event[i].tag
        BY <2>2 DEF Record
      <4> QED
        BY <4>1, <4>2
    <3> QED
      BY <2>1, <3>1, <3>2 DEF KeptIn
  <2>4. CASE CopyFirstHalf /\ QualityNumber(event_queue[0]) >= QualityNumber(event[acq.index])
    <3>1. event' = [event EXCEPT ![acq.index].tag = event_queue[0].tag] /\ acq.at = "copy"
      BY <2>4 DEF CopyFirstHalf
    <3>2. event'[i].tag = IF i = acq.index THEN event_queue[0].tag ELSE event[i].tag
      <4>1. event'[i] = IF i = acq.index THEN [event[i] EXCEPT !.tag = event_queue[0].tag]
                                         ELSE event[i]
        BY <3>1 DEF TypeOK
      <4>2. [event[i] EXCEPT !.tag = event_queue[0].tag].tag = event_queue[0].tag
        BY <2>2 DEF Record
      <4> QED
        BY <4>1, <4>2
    <3> QED
      BY <2>1, <2>4, <3>1, <3>2 DEF KeptIn
  <2>5. CASE /\ CopyFirstHalf
             /\ ~(QualityNumber(event_queue[0]) >= QualityNumber(event[acq.index]))
    <3>1. event' = event
      BY <2>5 DEF CopyFirstHalf
    <3> QED
      BY <2>1, <2>5, <3>1 DEF KeptIn
  <2> QED
    BY <2>3, <2>4, <2>5
<1>5. Kept' = Kept
  <2>1. \A i \in 0 .. free_slot_index - 1 : i \in Slots
    BY DEF TypeOK, Slots, ConstantsAssumption
  <2>2. \A i \in 0 .. free_slot_index - 1 : KeptIn(i)' = KeptIn(i)
    BY <1>4, <2>1
  <2> QED
    BY <1>1, <2>2 DEF Kept
<1> QED
  BY <1>1, <1>2, <1>3, <1>5

\* When the telemetry ends, what the store keeps is delivered and what waited
\* is kept.
LEMMA EndStep ==
  ASSUME ConstantsAssumption, TypeOK, AcquisitionInv, QueueInv, SlotsInv, FileInv, ReadyInv,
         HandleTelecommand, TC_state = "SC_TM_e", Head(TC_mail) = "TM_READY"
  PROVE  Abstract!EndSending
<1>1. /\ UNCHANGED <<hits, acq, event_queue>> /\ TC_state' = "TC_handling_e"
      /\ event' = [i \in Slots |-> IF i < event_queue_length THEN event_queue[i]
                                                             ELSE event[i]]
      /\ free_slot_index' = event_queue_length /\ event_queue_length' = 0
      /\ delivered' = delivered \cup {file[n] : n \in DOMAIN file}
      /\ ~Copying /\ acq.at \notin {"copy", "copy_rest"}
  BY DEF HandleTelecommand, ClearEvents, MoveEvents, QueueInv, Copying
<1>2. 1 \in ReadyMails
  BY DEF HandleTelecommand, ReadyMails, TypeOK
<1>3. acq = Idle \/ event_queue_length = 0
  BY <1>2 DEF AcquisitionInv, ReadyMails
<1>4. Waiting = event_queue_length /\ Waiting' = 0 /\ event_queue_length \in Nat
  <2>1. event_queue_length \in Nat /\ acq.slot \in Nat /\ acq'.slot \in Nat
    BY <1>1 DEF TypeOK, QueueSlots, ConstantsAssumption
  <2> QED
    BY <1>1, <1>3, <2>1 DEF Waiting, Idle
<1>5. PendingHit' = PendingHit /\ Sending /\ ~Sending'
  BY <1>1 DEF PendingHit, Sending
<1>6. Backlog' = <<>>
  <2>1. Backlog' = [i \in 1 .. 0 |-> event_queue'[i - 1].tag]
    BY <1>4 DEF Backlog
  <2> QED
    BY <2>1
<1>7. Kept' = {Backlog[i] : i \in DOMAIN Backlog}
  <2>1. \A i \in 0 .. event_queue_length - 1 : i \in Slots
    BY DEF TypeOK, Slots, ConstantsAssumption
  <2>2. \A i \in 0 .. event_queue_length - 1 : KeptIn(i)' = event_queue[i].tag
    <3> TAKE i \in 0 .. event_queue_length - 1
    <3>1. event'[i] = event_queue[i]
      BY <1>1, <1>4, <2>1
    <3>2. KeptIn(i)' = event'[i].tag
      BY <1>1 DEF KeptIn
    <3> QED
      BY <3>1, <3>2
  <2>3. Kept' = {event_queue[i].tag : i \in 0 .. event_queue_length - 1}
    BY <1>1, <2>2 DEF Kept
  <2>4. /\ DOMAIN Backlog = 1 .. event_queue_length
        /\ \A i \in 1 .. event_queue_length : Backlog[i] = event_queue[i - 1].tag
    BY <1>4 DEF Backlog
  <2>5. /\ \A i \in 1 .. event_queue_length : i - 1 \in 0 .. event_queue_length - 1
        /\ \A i \in 0 .. event_queue_length - 1 :
             i + 1 \in 1 .. event_queue_length /\ (i + 1) - 1 = i
    BY <1>4
  <2>6. \A i \in 0 .. event_queue_length - 1 : Backlog[i + 1] = event_queue[i].tag
    BY <2>4, <2>5
  <2> QED
    BY <2>3, <2>4, <2>5, <2>6
<1>8. {file[n] : n \in DOMAIN file} = Kept
  <2> DEFINE f == free_slot_index
  <2>1. Kept = {event[i].tag : i \in 0 .. f - 1} /\ Settled = 0 .. f - 1 /\ f \in Nat
    BY <1>1, KeptIs DEF TypeOK, ConstantsAssumption
  <2>2. Len(file) = 2 * f /\ DOMAIN file = 1 .. 2 * f
    BY <1>2, <2>1 DEF ReadyInv, FileInv, TypeOK
  <2>3. \A n \in 1 .. 2 * f : file[n] = Half(n)
    BY <2>2 DEF FileInv
  <2>4. \A i \in 0 .. f - 1 : event[i].data = event[i].tag
    BY <2>1 DEF SlotsInv, Whole
  <2>5. \A n \in 1 .. 2 * f : \E i \in 0 .. f - 1 : file[n] = event[i].tag
    <3> TAKE n \in 1 .. 2 * f
    <3>1. (n - 1) \div 2 \in 0 .. f - 1
      BY <2>1
    <3> QED
      BY <2>3, <2>4, <3>1 DEF Half
  <2>6. \A i \in 0 .. f - 1 : \E n \in 1 .. 2 * f : file[n] = event[i].tag
    <3> TAKE i \in 0 .. f - 1
    <3>1. /\ 2 * i + 1 \in 1 .. 2 * f /\ (2 * i + 1) % 2 = 1
          /\ ((2 * i + 1) - 1) \div 2 = i
      BY <2>1
    <3>2. file[2 * i + 1] = event[i].tag
      BY <2>3, <3>1 DEF Half
    <3> QED
      BY <3>1, <3>2
  <2> HIDE DEF f
  <2>7. {file[n] : n \in DOMAIN file} \subseteq Kept
    BY <2>1, <2>2, <2>5
  <2>8. Kept \subseteq {file[n] : n \in DOMAIN file}
    BY <2>1, <2>2, <2>6
  <2> QED
    BY <2>7, <2>8
<1> QED
  BY <1>1, <1>5, <1>6, <1>7, <1>8 DEF Abstract!EndSending

\* A soft reset empties the store.
LEMMA ResetStep ==
  ASSUME ConstantsAssumption, Boot("soft")
  PROVE  Abstract!Reset
<1>1. /\ UNCHANGED <<hits, delivered>> /\ TC_state' = "TC_handling_e"
      /\ acq'.at = "wait_mail" /\ event_queue_length' = 0 /\ free_slot_index' = 0
  BY DEF Boot, ClearEvents, MoveEvents, Idle
<1>2. PendingHit' = 0 /\ ~Sending' /\ Waiting' = 0
  BY <1>1 DEF PendingHit, Sending, Waiting
<1>3. Kept' = {}
  BY <1>1 DEF Kept
<1>4. Backlog' = <<>>
  <2>1. Backlog' = [i \in 1 .. 0 |-> event_queue'[i - 1].tag]
    BY <1>2 DEF Backlog
  <2> QED
    BY <2>1
<1> QED
  BY <1>1, <1>2, <1>3, <1>4 DEF Abstract!Reset

\* Every step does what EventStore does, or nothing that it knows of.
LEMMA StoreStep ==
  ASSUME OneReadyMail, ConstantsAssumption, StoreInv, ReadyInv, [Next]_vars
  PROVE  [Abstract!Next]_(Abstract!vars)
<1> USE DEF StoreInv
<1>1. ASSUME NEW k \in HitKinds, StartAcquisition(k)
      PROVE  [Abstract!Next]_(Abstract!vars)
  BY <1>1, AcceptStep DEF Abstract!Next
<1>2. CASE Classify
  <2>1. /\ acq.at = "classify" /\ acq'.at = "record" /\ acq'.slot = acq.slot
        /\ UNCHANGED <<hits, event_queue_length, event, free_slot_index, TC_state, delivered>>
        /\ \A i \in QueueSlots \ {acq.slot} : event_queue'[i] = event_queue[i]
    BY <1>2 DEF Classify, TypeOK, storeVars, tmVars
  <2>2. PendingHit' = PendingHit /\ Sending' = Sending /\ Waiting' = Waiting
    BY <2>1 DEF PendingHit, Sending, Waiting
  <2>3. Kept' = Kept
    BY <2>1 DEF Kept, KeptIn
  <2>4. \A i \in 1 .. Waiting : i - 1 \in QueueSlots \ {acq.slot}
    <3>1. Waiting = acq.slot /\ acq.slot \in QueueSlots
      BY <2>1, WaitingIs DEF QueueInv
    <3> QED
      BY <3>1 DEF QueueSlots, ConstantsAssumption
  <2>5. Backlog' = Backlog
    BY <2>1, <2>2, <2>4, SameBacklog
  <2> QED
    BY <2>1, <2>2, <2>3, <2>5, StutterStep
<1>3. ASSUME NEW i \in Slots, CountAndReserve(i),
             free_slot_index = max_events => i = FindMinQualityRecord,
             acq.at \in {"record", "find_min"},
             UNCHANGED <<hits, event_queue, tmVars, TC_mail>>
      PROVE  [Abstract!Next]_(Abstract!vars)
  <2>1. ~Copying /\ event_queue_length = 0
    BY <1>3 DEF Copying, CountAndReserve, QueueOnlyWhileSending, TypeOK, ConstantsAssumption
  <2>2. event_queue[0].tag = Len(hits)
    BY <1>3, <2>1 DEF QueueInv, GetFreeRecord, ConstantsAssumption
  <2>3. Abstract!Keep
    BY <1>3, <2>1, <2>2, KeepStep
  <2> QED
    BY <2>3 DEF Abstract!Next
<1>4. ASSUME LeaveInQueue, acq.at \in {"record", "find_min"},
             UNCHANGED <<hits, event_queue, tmVars, TC_mail>>
      PROVE  [Abstract!Next]_(Abstract!vars)
  <2>1. ~Copying
    BY <1>4 DEF Copying
  <2> QED
    BY <1>4, <2>1, PostponeStep DEF Abstract!Next
<1>5. CASE RecordEvent
  <2>1. CASE free_slot_index < max_events /\ CountAndReserve(free_slot_index)
    <3>1. free_slot_index \in Slots /\ free_slot_index # max_events
      BY <2>1 DEF TypeOK, Slots, ConstantsAssumption
    <3> QED
      BY <1>3, <1>5, <2>1, <3>1 DEF RecordEvent
  <2>2. CASE /\ acq' = [acq EXCEPT !.at = "find_min"]
             /\ TC_state # "SC_TM_e"
             /\ UNCHANGED <<event_queue_length, storeVars>>
    <3>1. /\ acq.at = "record" /\ acq'.at = "find_min" /\ event_queue_length = 0
          /\ UNCHANGED <<hits, event_queue, event_queue_length, event, free_slot_index,
                         TC_state, delivered>>
      BY <1>5, <2>2 DEF RecordEvent, TypeOK, storeVars, tmVars, QueueOnlyWhileSending,
                        ConstantsAssumption
    <3>2. PendingHit' = PendingHit /\ Sending' = Sending /\ Kept' = Kept
      BY <3>1 DEF PendingHit, Sending, Kept, KeptIn
    <3>3. Waiting = 0 /\ Waiting' = 0
      <4>1. acq.slot \in Nat
        BY DEF TypeOK, QueueSlots
      <4> QED
        BY <3>1, <4>1 DEF Waiting
    <3>4. Backlog' = Backlog
      BY <3>1, <3>3, SameBacklog
    <3> QED
      BY <3>1, <3>2, <3>4, StutterStep
  <2> QED
    BY <1>4, <1>5, <2>1, <2>2 DEF RecordEvent
<1>6. CASE RecordEventFull
  BY <1>3, <1>4, <1>6, FindMinIsSlot DEF RecordEventFull
<1>7. CASE CopyFirstHalf \/ CopyRest
  BY <1>7, CopyStep, StutterStep
<1>8. ASSUME UNCHANGED <<hits, queueVars, event, free_slot_index, acq, delivered>>
      PROVE  UNCHANGED <<hits, delivered, PendingHit, Kept, Backlog>>
  BY <1>8 DEF PendingHit, Kept, KeptIn, QualityNumber, Backlog, Waiting, queueVars
<1>9. CASE SendScienceDataFile
  <2>1. Sending' /\ ~Sending
    BY <1>9 DEF SendScienceDataFile, StartTelemetry, Sending
  <2>2. UNCHANGED <<hits, delivered, PendingHit, Kept, Backlog>>
    BY <1>8, <1>9 DEF SendScienceDataFile, StartTelemetry, storeVars
  <2> QED
    BY <2>1, <2>2 DEF Abstract!Next, Abstract!StartSending
<1>10. CASE TM_InterruptService
  <2>1. UNCHANGED <<hits, delivered, PendingHit, Kept, Backlog>>
    BY <1>8, <1>10 DEF TM_InterruptService, TM_Send, TM_Ready, ReadyFrom, tmVars, storeVars
  <2>2. Sending' = Sending
    BY <1>10 DEF TM_InterruptService, TM_Send, TM_Ready, ReadyFrom, tmVars, Sending
  <2> QED
    BY <2>1, <2>2, StutterStep
<1>11. CASE HandleTelecommand
  <2>1. CASE TC_state = "SC_TM_e" /\ Head(TC_mail) = "TM_READY"
    BY <1>11, <2>1, EndStep DEF Abstract!Next
  <2>2. CASE ~(TC_state = "SC_TM_e" /\ Head(TC_mail) = "TM_READY")
    <3>1. UNCHANGED <<hits, delivered, PendingHit, Kept, Backlog>>
      BY <1>8, <1>11, <2>2 DEF HandleTelecommand, tmVars, storeVars
    <3>2. Sending' = Sending
      BY <1>11, <2>2 DEF HandleTelecommand, tmVars, Sending
    <3> QED
      BY <3>1, <3>2, StutterStep
  <2> QED
    BY <2>1, <2>2
<1>12. ASSUME NEW class \in ResetClasses, Boot(class)
       PROVE  [Abstract!Next]_(Abstract!vars)
  <2>1. class = "soft"
    BY DEF OneReadyMail, Calm, ConstantsAssumption
  <2> QED
    BY <1>12, <2>1, ResetStep DEF Abstract!Next
<1>13. CASE UNCHANGED vars
  <2>1. UNCHANGED <<hits, delivered, PendingHit, Kept, Backlog>> /\ Sending' = Sending
    BY <1>8, <1>13 DEF vars, storeVars, tmVars, Sending
  <2> QED
    BY <2>1, StutterStep
<1> QED
  BY <1>1, <1>2, <1>5, <1>6, <1>7, <1>9, <1>10, <1>11, <1>12, <1>13
     DEF Next, AcquisitionTask

\* Queue, slots, counters, mailbox and telemetry together do what EventStore
\* says, for every size of queue and memory, every set of hits and any number
\* of them: no hit is lost but the one that gives way, none is doubled, and what
\* is cleared at the end of a telemetry has been sent.
THEOREM Implementation == OneReadyMail => (Spec => ImplementsEventStore)
<1> SUFFICES ASSUME OneReadyMail
             PROVE  Spec => ImplementsEventStore
  OBVIOUS
<1>1. Init => Abstract!Init
  <2> SUFFICES ASSUME Init
               PROVE  Abstract!Init
    OBVIOUS
  <2>1. PendingHit = 0 /\ Kept = {} /\ ~Sending /\ Waiting = 0
    BY DEF Init, PendingHit, Kept, Sending, Waiting, Idle
  <2>2. Backlog = <<>>
    BY <2>1 DEF Backlog
  <2> QED
    BY <2>1, <2>2 DEF Init, Abstract!Init
<1>2. Init => ReadyInv
  BY DEF Init, ReadyInv, ReadyMails
<1>3. StoreInv /\ ReadyInv /\ [Next]_vars => ReadyInv'
  BY ReadyStep, ConstantsAssumption DEF StoreInv
<1>4. StoreInv /\ ReadyInv /\ [Next]_vars => [Abstract!Next]_(Abstract!vars)
  BY StoreStep, ConstantsAssumption
<1>5. Spec => []StoreInv
  BY StoreInvariant DEF OneReadyMail
<1> QED
  BY <1>1, <1>2, <1>3, <1>4, <1>5, PTL DEF Spec, ImplementsEventStore, Abstract!Spec
============================================================================
