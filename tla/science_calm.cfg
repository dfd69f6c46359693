\* The promise of the science data handling, when telemetry does not start or
\* end on an acquisition that is half done.
SPECIFICATION Spec
CONSTANTS
  SUs = {1, 2}
  Classes = {0, 1}
  HitKinds <- TwoHitKinds
  max_events = 3
  MAX_QUEUE_LENGTH = 2
  MaxCounter = 2
  MaxSU_hits = 2
  MailboxSize = 2
  MaxHits = 4
  MaxReady = 1
  ResetClasses = {"soft"}
  Overlap = {}
INVARIANT FirstOfQueueIsTheEvent
INVARIANT FileIsTrue
PROPERTY ImplementsEventStore
PROPERTY ChecksumFollowsCounters
