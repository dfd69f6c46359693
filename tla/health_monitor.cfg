SPECIFICATION Spec
CONSTANTS
  NUM_SU = 2
  NUM_TEMP = 1
  NUM_CHANNELS = 1
  DPU_CHANNELS <- MC_DPU_CHANNELS
  LV_CHANNELS <- MC_LV_CHANNELS
  HV_CHANNELS <- MC_HV_CHANNELS
  TEMP_COUNT = 1
  VOLTAGE_COUNT = 1
  HIT_BUDGET = 1
  ADC_MAX_TRIES = 2
  MaxFailures = 1
  MaxRequests = 1
INVARIANTS
  NoUpdateLost
  FailuresAreReported
  NoDisturbedResult
  NoFailureNoError
  WatchdogServed
PROPERTIES
  DutiesRecur
