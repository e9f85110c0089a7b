SPECIFICATION MachineSpec
CONSTANTS
  dram = dram sram = sram buf = buf reg = reg core = core dma = dma other = other
  tiled = tiled None = None
  Memory <- MCMemory
  Link <- MCLink
  Attached <- MCAttached
  Visible <- MCVisible
  Requests <- MCRequests
  Documents <- MCDocuments
  MaxLoads = 2
  Missing = Missing Bad = Bad
  MicroKernels <- MCMicroKernels
  Machine <- MCTarget
  SlotsOf <- MCSlotsOf
  MaxEvents = 30
  MaxWord = 1000
  Kernels <- MCKernels
  Buffers <- MCBuffers
  Providers <- MCProviders
  VariantSets <- MCVariantSets
  WordMax = 31
  IntMax = 15
  MaxDescriptors = 4
  DestAddress = 24
  Threads = {t1, t2}
  shapeA = shapeA shapeB = shapeB third = third swiglu = swiglu rope = rope
  CacheKeys = {shapeA, shapeB, third}
  Symbol <- MCSymbol
  Values = {x, y}
  Variants = {v1, empty}
  Unnamed = empty
  NoCode = NoCode
  Failed = Failed
  MaxSizes = {0, 2}
  MaxCalls = 2
  MaxOps = 4
SYMMETRY Symmetry
CHECK_DEADLOCK FALSE
INVARIANTS RoutesLegal Exhaustive CheapestFirst LoadSound DagSound AnalysisSound CallSound MemorySound KernelsSound
PROPERTIES EvictsOldest
