SPECIFICATION FairSpec
CONSTANTS
  Participants = {p1, p2}
  MaxPhases = 2
PROPERTIES Releases
CHECK_DEADLOCK FALSE
