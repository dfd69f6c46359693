\* The telemetry ends between GetFreeRecord and RecordEvent.
SPECIFICATION Spec
CONSTANTS
  SUs = {1, 2}
  Classes = {0, 1}
  HitKinds <- TwoHitKinds
  max_events = 3
  MAX_QUEUE_LENGTH = 2
  MaxCounter = 2
  MaxSU_hits = 3
  MailboxSize = 2
  MaxHits = 4
  MaxReady = 1
  ResetClasses = {}
  Overlap = {"end_in_acquisition"}
INVARIANT FirstOfQueueIsTheEvent
