SPECIFICATION Spec
CONSTANTS
  Inputs = {9, 12}
  MaxLevel = 2
  DeviceVectors = {10}
  Autovectored = {9}
  Code = {100, 102}
  Wild = {104}
  Stack = {4, 8, 12, 16}
  InitialSP = 20
  BadSP = 0
  Handler <- MCHandler
  Device <- MCDevice
  GuestSR <- MCGuestSR
  Routes <- MCRoutes
  MaxTrace = 1
  MaxEvents = 3
INVARIANTS
  TypeOK
  InterruptsNestUpwards
  PostedAreTheLevelsPending
PROPERTIES
  ImplementsContexts
  DeliversPendingInputs
