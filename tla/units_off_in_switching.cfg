\* A unit is switched off while Update_SU_State waits.
SPECIFICATION Spec
CONSTANTS
  NUM_SU = 1
  HEALTH_COUNT = 9
  ChannelTests = 2
  Overlap = {"off_in_switching"}
PROPERTY LeavesOffByTC
