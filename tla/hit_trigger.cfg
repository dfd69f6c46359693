\* Particles and telecommands at any time, with two channel tests.
SPECIFICATION FairSpec
CONSTANTS
  NUM_SU = 2
  hit_budget = 2
  ChannelTests = 2
  SoftwareTests = {2}
  MailboxSize = 2
  MaxHits = 2
INVARIANT OneHitPerEvent
INVARIANT LowLineIsKnown
INVARIANT DisabledIsExceeded
INVARIANT PulsesAreSeen
PROPERTY LineReleased
