CONSTANTS
  Inputs <- MCInputs
  MaxLevel = 2
  IcrValues <- MCIcrValues
  DeviceVectors <- MCDeviceVectors
  ResetIcr <- MCResetIcr
SPECIFICATION Spec
INVARIANTS
  TypeOK
  CountsMatchPending
  PostedMatchesPending
  NothingDeliverableInExecute
PROPERTY ImplementsController
