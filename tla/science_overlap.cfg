\* Telemetry starts and ends anywhere in an acquisition, and TM_READY may be
\* mailed twice.
SPECIFICATION FairSpec
CONSTANTS
  SUs = {1, 2}
  Classes = {0, 1}
  HitKinds <- TwoHitKinds
  max_events = 2
  MAX_QUEUE_LENGTH = 1
  MaxCounter = 2
  MaxSU_hits = 3
  MailboxSize = 2
  MaxHits = 3
  MaxReady = 2
  ResetClasses = {"soft"}
  Overlap = {"start_in_copy", "end_in_acquisition"}
INVARIANT TypeOK
INVARIANT QueueOnlyWhileSending
PROPERTY FrozenWhileSending
PROPERTY TelemetryEnds
