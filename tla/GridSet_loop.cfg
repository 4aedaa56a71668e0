CONSTANTS
  DimsChoices <- UpTo3
  Stencils <- Stars
SPECIFICATION GridSpec
INVARIANTS LoopVarIsPoint SlotsMatchIndex EdgeReadsMatch
CHECK_DEADLOCK FALSE
