\* Telecommands at any time; a memory block of one word.
SPECIFICATION FairSpec
CONSTANTS
  Telecommands = {"SEND_STATUS_REGISTER", "SEND_SCIENCE_DATA_FILE", "READ_DATA_MEMORY_MSB", "READ_DATA_MEMORY_LSB", "WRITE_CODE_MEMORY_MSB", "WRITE_CODE_MEMORY_LSB", "SET_TIME_BYTE_3", "SOFT_RESET", "0xFFFF"}
  MailboxSize = 2
  BlockWords = 1
  TelemetryWords = 1
INVARIANT TypeOK
INVARIANT DeafIsSending
INVARIANT SendingHasState
INVARIANT IgnoredIsDone
INVARIANT EndsWhenSent
PROPERTY TelemetryEnds
PROPERTY WriteEnds
