SPECIFICATION MappingSpec
CONSTANTS
  dram = dram sram = sram reg = reg None = None
  Capacity <- MCCapacity
  Reach <- MCReach
  Sees <- MCSees
  Setups <- MCSetups
  k1 = k1 k2 = k2 k3 = k3 Absent = Absent
  Sessions <- MCSessions
  Digest <- MCDigest
  Times = {0, 1, 2}
  Rates = {5}
  MaxSessions = 2
  LayoutFiles <- MCLayoutFiles
  Contexts <- MCContexts
  Limits <- MCLimits
  Strangers <- MCStrangers
  RuleCases <- MCRuleCases
  Operations <- MCOperations
  MaxPatternNodes = 3
  MaxAssignments = 10
  NoPort = NoPort NoPattern = NoPattern NoMap = NoMap
  Asks <- MCAsks
  MaxAsks = 2
  MaxInt = 100
  VersionModulus = 8
  Tasks <- MCTasks
  MaxDescriptors = 3
  Evaluations <- MCEvaluations
  NodeCapacity <- MCNodeCapacity
  MaxBytes = 15
  MaxDouble = 1995
INVARIANTS CoverSound Exhaustive SessionSound LayoutSound TablesSound SelectionSound InstantiateSound CompileSound EvaluateSound
PROPERTIES RecordsStay
CHECK_DEADLOCK FALSE
