SPECIFICATION FairSpec
CONSTANTS
  w1 = w1
  w2 = w2
  Workers <- MCWorkers
  Caller = caller
  Free = free
  Jobs <- FittingJobs
  MaxInt = 10
  MaxCalls = 2
  MaxSpurious = 1
INVARIANTS ExactlyOnce FrameAlive
PROPERTIES Returns ShutsDown ForkJoinSpec
