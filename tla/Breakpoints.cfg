SPECIFICATION Spec
CONSTANTS
  Addresses = {100, 102}
  Program <- MCProgram
  ILLEGAL = 0
  MAX_BREAKPOINTS = 2
  MaxNesting = 1
INVARIANT OldWordIsSaved
