SPECIFICATION DagSpec
CONSTANTS
  MicroKernels <- CarriedKernels
  Machine <- MCTarget
  SlotsOf <- MCSlotsOf
  MaxEvents = 30
  MaxWord = 1000
INVARIANT CarriedValuesOrdered
CHECK_DEADLOCK FALSE
