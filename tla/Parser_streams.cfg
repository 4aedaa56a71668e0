SPECIFICATION Spec
CONSTANTS
  Streams <- MCStreams
  Names = {"f", "x"}
  Intrinsics = {"f"}
  MaxTokens = 7
INVARIANTS ScopesCoverPending AcceptedScopesClosed
CHECK_DEADLOCK FALSE
PROPERTY ParserTerminates
