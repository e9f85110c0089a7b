SPECIFICATION BindingSpec
CONSTANTS
  Setups <- MCSetups
  Memories <- MCMemories
  Links <- MCLinks
  MaxEdits = 2
  Studies <- MCStudies
  Id <- MCId
  AnalyzeKernel <- MCAnalyzeKernel
  Answers <- MCAnswers
  DrawsPerPoint = 2
  MaxExtent = 1000
INVARIANTS BindingSound VerifiedSound TuningSound BoundSound
CHECK_DEADLOCK FALSE
