CONSTANTS
  CounterWrap = 4
  CycleWrap = 10
  Rates = {0, 1, 3}
  Values = {0, 2}
  Costs = {0, 1, 4}
SPECIFICATION Spec
INVARIANTS
  TypeOK
  TickIsNear
PROPERTIES
  KeepsTime
