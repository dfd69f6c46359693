--------------------------- MODULE MCScienceData ---------------------------
(***************************************************************************)
(* Properties of ScienceData that TLC checks, and a small instance of it.  *)
(***************************************************************************)
EXTENDS ScienceData

\* Hits of two sensor units, two classes and two quality numbers.
PoorHit == [su |-> 1, class |-> 0, quality |-> 1]
GoodHit == [su |-> 2, class |-> 1, quality |-> 2]
TwoHitKinds == {PoorHit, GoodHit}

----------------------------------------------------------------------------
(* Refinement of EventStore *)

\* Records of the queue that hold an event: the newest of a full queue is
\* given up as soon as the next hit is being written over it.
Waiting == IF acq.at \in {"classify", "record"} /\ acq.slot < event_queue_length
             THEN acq.slot ELSE event_queue_length

\* The hit of slot i, once a copy to that slot has been decided.
KeptIn(i) ==
  IF /\ acq.at = "copy" /\ i = acq.index
     /\ QualityNumber(event_queue[0]) >= QualityNumber(event[i])
    THEN event_queue[0].tag ELSE event[i].tag

PendingHit == IF acq.at \in {"classify", "record", "find_min"} THEN Len(hits) ELSE 0
Kept == {KeptIn(i) : i \in 0 .. free_slot_index - 1}
Backlog == [i \in 1 .. Waiting |-> event_queue[i - 1].tag]
Sending == TC_state = "SC_TM_e"

Abstract == INSTANCE EventStore WITH
  Capacity <- max_events, BacklogSize <- MAX_QUEUE_LENGTH,
  pending <- PendingHit, kept <- Kept, backlog <- Backlog, sending <- Sending

\* As long as neither end of a telemetry falls on the copy or the record of
\* an acquisition and no reset keeps old data, the queue, the slots and the
\* telemetry do together what EventStore says: no hit is lost or doubled, and
\* nothing is cleared that was not sent (RecordEvent, ClearEvents, the TC and
\* TM interrupt services).
ImplementsEventStore == Abstract!Spec
============================================================================
