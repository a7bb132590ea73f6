CONSTANTS
  Inputs <- MCInputs
  MaxLevel = 2
  IcrValues <- MCIcrValues
  DeviceVectors <- MCDeviceVectors
  ResetIcr <- MCResetIcr
SPECIFICATION RawSpec
PROPERTY WithdrawnOnlyWhenNonePending
