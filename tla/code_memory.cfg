SPECIFICATION Spec
CONSTANTS
  Bits <- MCBits
  CHECK_COUNT = 2
  CHECK_SIZE = 2
  CODE_MEMORY_END = 4
  BEGIN_SRAM1 = 2
  MEM_BUFFER_SIZE = 2
  Program <- MCProgram
  MaxPatches = 2
  MaxUpsets = 1
INVARIANTS
  ReferenceFollowsCode
  NoFalseAlarm
  DataInitialised
PROPERTIES
  CorruptionFound
