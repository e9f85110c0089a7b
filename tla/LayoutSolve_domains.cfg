SPECIFICATION SpecLayout
CONSTANTS
  LayoutFiles <- MCDomainFiles
  Contexts <- MCContexts
  Limits <- MCLimits
  Strangers <- MCStrangers
  RuleCases <- MCRuleCases
  Operations <- MCOperations
  MaxPatternNodes = 3
  MaxAssignments = 10
  NoPort = NoPort NoPattern = NoPattern NoMap = NoMap
INVARIANTS VerifyMatchesSolve
