SPECIFICATION Spec
CONSTANT Words <- MCRegisterWords
INVARIANT FormatsDecode
CHECK_DEADLOCK FALSE
