CONSTANTS
  Chars = {a}
  NUL = NUL
  IAC = IAC
  Modes = {TRUE, FALSE}
  Masks <- MCMasks
  Commands <- MCCommands
SPECIFICATION FairSpec
PROPERTIES InterruptIsWithdrawn
