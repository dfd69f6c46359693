\* The life of the sensor units when no telecommand comes for a unit that the
\* health task is working on.
SPECIFICATION FairSpec
CONSTANTS
  NUM_SU = 3
  HEALTH_COUNT = 9
  ChannelTests = 2
  Overlap = {}
INVARIANT OnlyNumberedInTest
PROPERTY ImplementsUnitLifecycle
PROPERTY MonitoredFirst
PROPERTY SelfTestEnds
