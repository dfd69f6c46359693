SPECIFICATION Spec
CONSTANTS
  SUs = {1}
  Amplitudes = {255, 256}
  CounterBytes = {1, 16}
  InitialSettings <- MCInitialSettings
  CommandValues = {0}
  MaxCommands = 2
INVARIANTS
  RecordOfOneSetting
  SelfTestOutranks
