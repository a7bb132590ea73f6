CONSTANTS
  Byte = 4
  ByteBits = 2
  Addresses <- MCAddresses
  Operand <- MCOperand
  Sizes <- MCSizes
  Immediates <- MCImmediates
  LongData <- MCLongData
  Displacements <- MCDisplacements
  InitialCores <- MCInitialCores
  MaxSteps = 2
SPECIFICATION Spec
INVARIANTS
  TypeOK
  MultiwordIsExact
  FlagsDescribeDestination
  ConditionFollowsComparison
  ShiftIsExact
  BlockMoveAgrees
PROPERTY OnlyDestinationChanges
CHECK_DEADLOCK FALSE
