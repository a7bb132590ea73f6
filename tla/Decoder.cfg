SPECIFICATION Spec
CONSTANT Words <- MCWords
INVARIANTS
  DecodingIsDetermined
  FindsTheMostSpecific
CHECK_DEADLOCK FALSE
