----------------------------- MODULE EventStore -----------------------------
(***************************************************************************)
(* What the science data handling promises, seen from outside: every hit   *)
(* accepted is kept, kept waiting while a science data file is being sent, *)
(* or gives way to a better one; a file that was sent to its end has       *)
(* delivered exactly what was kept, and only then is that forgotten.       *)
(***************************************************************************)
EXTENDS Integers, Sequences, FiniteSets

CONSTANTS
  HitKinds,     \* the hits considered
  Capacity,     \* hits kept at most
  BacklogSize,  \* hits that can wait while a file is being sent
  MaxHits       \* bound: hits in a behaviour

VARIABLES
  hits,       \* the hits so far, numbered from 1
  pending,    \* number of the hit being handled, 0 for none
  kept,       \* numbers of the hits kept
  backlog,    \* numbers of the hits that arrived while the file was sent
  sending,    \* a file is being sent
  delivered   \* numbers of the hits delivered

vars == <<hits, pending, kept, backlog, sending, delivered>>

Quality(h) == hits[h].quality

\* The hit that gives way first: lowest quality number, then oldest.
Worst(S) ==
  CHOOSE h \in S : \A g \in S \ {h} :
    Quality(h) < Quality(g) \/ (Quality(h) = Quality(g) /\ h < g)

\* A hit is accepted; the newest hit of a full backlog gives way to it.
Accept(k) ==
  /\ pending = 0 /\ Len(hits) < MaxHits
  /\ hits' = Append(hits, k)
  /\ pending' = Len(hits) + 1
  /\ backlog' = IF Len(backlog) = BacklogSize
                  THEN SubSeq(backlog, 1, BacklogSize - 1) ELSE backlog
  /\ UNCHANGED <<kept, sending, delivered>>

\* Whether a full memory lets the hit in depends on its quality number.
Keep ==
  /\ pending # 0 /\ ~sending
  /\ pending' = 0
  /\ \/ Cardinality(kept) < Capacity /\ kept' = kept \cup {pending}
     \/ /\ Cardinality(kept) >= Capacity
        /\ kept' = IF Quality(pending) >= Quality(Worst(kept))
                     THEN (kept \ {Worst(kept)}) \cup {pending} ELSE kept
  /\ UNCHANGED <<hits, backlog, sending, delivered>>

Postpone ==
  /\ pending # 0 /\ sending
  /\ pending' = 0
  /\ backlog' = Append(backlog, pending)
  /\ UNCHANGED <<hits, kept, sending, delivered>>

StartSending ==
  /\ ~sending
  /\ sending' = TRUE
  /\ UNCHANGED <<hits, pending, kept, backlog, delivered>>

EndSending ==
  /\ sending
  /\ sending' = FALSE
  /\ delivered' = delivered \cup kept
  /\ kept' = {backlog[i] : i \in DOMAIN backlog}
  /\ backlog' = <<>>
  /\ UNCHANGED <<hits, pending>>

\* A soft reset: nothing is kept.
Reset ==
  /\ pending' = 0 /\ kept' = {} /\ backlog' = <<>> /\ sending' = FALSE
  /\ UNCHANGED <<hits, delivered>>

Init ==
  /\ hits = <<>> /\ pending = 0 /\ kept = {} /\ backlog = <<>>
  /\ sending = FALSE /\ delivered = {}

Next ==
  \/ \E k \in HitKinds : Accept(k)
  \/ Keep \/ Postpone
  \/ StartSending \/ EndSending
  \/ Reset

Spec == Init /\ [][Next]_vars
============================================================================
