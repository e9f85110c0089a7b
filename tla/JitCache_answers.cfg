SPECIFICATION JitSpec
CONSTANTS
  Threads = {t1, t2}
  shapeA = shapeA shapeB = shapeB third = third swiglu = swiglu rope = rope
  CacheKeys = {shapeA, shapeB, third}
  Symbol <- MCSymbol
  Values = {x, y}
  Variants = {v1, empty}
  Unnamed = empty
  NoCode = NoCode
  Failed = Failed
  MaxSizes = {0, 1, 2}
  MaxCalls = 2
  MaxOps = 5
INVARIANT Answers
CHECK_DEADLOCK FALSE
