SPECIFICATION FrontendSpec
CONSTANTS
  t1 = t1 t2 = t2 idA = idA idB = idB None = None
  Threads <- MCThreads
  Ids <- MCIds
  Digest <- MCDigest
  MaxEntries = 1
  MaxCalls = 3
  MaxUses = 2
  MaxInt = 40
  Staging = 1000
  AccBytes = 40
  Nothing = Nothing
INVARIANTS CacheSound HandlesSound ImportSound
PROPERTIES OwnArtifact Answered
CHECK_DEADLOCK FALSE
