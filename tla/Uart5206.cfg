CONSTANTS
  Chars = {a, b}
  NUL = NUL
  IAC = IAC
  Modes = {TRUE, FALSE}
  Masks <- MCMasks
  Commands <- MCCommands
SPECIFICATION FairSpec
INVARIANTS
  TypeOK
  StatusIsTruthful
PROPERTIES
  ImplementsFifo
  TransmitterDrains
  ReceiverInterrupts
