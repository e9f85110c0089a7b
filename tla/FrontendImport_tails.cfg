SPECIFICATION ImportSpec
CONSTANTS
  MaxInt = 40
  Staging = 1000
  AccBytes = 40
  Nothing = Nothing
INVARIANT TailsProved
CHECK_DEADLOCK FALSE
