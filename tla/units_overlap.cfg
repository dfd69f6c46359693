\* What holds with telecommands at any point of the health task.
SPECIFICATION FairSpec
CONSTANTS
  NUM_SU = 2
  HEALTH_COUNT = 9
  ChannelTests = 2
  Overlap = {"off_in_switching", "off_in_self_test", "test_in_self_test"}
INVARIANT PoweredNotOff
INVARIANT AcquisitionModeUnits
PROPERTY SwitchingEnds
PROPERTY NumberFreed
