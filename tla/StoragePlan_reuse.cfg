SPECIFICATION Spec
CONSTANTS
  sram = sram l2 = l2 dram = dram vec = vec mat = mat dma = dma dma2 = dma2 sync = sync ghost = ghost unit = unit
  NoOwner = NoOwner
  Memories <- MCMemories
  Resources <- MCResources
  Width <- MCWidth
  Capacity <- MCCapacity
  Sync <- sync
  MoveCycles = 2 WaitCycles = 1 BarrierCycles = 1 ConvertCycles = 2
  Plans <- MCPlans
  Streams = {}
  Lists = {}
INVARIANT SharedNeverOverlaps
