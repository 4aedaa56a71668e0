SPECIFICATION Spec
CHECK_DEADLOCK FALSE
CONSTANTS
  Programs <- MCPrograms
  VarLen <- MCVarLen
  SetLen <- MCSetLen
  BlockSize = 2
  SignBit = 8
  Limit = 64
INVARIANTS
  DoneMatchesSequential
  LaunchCoversDomain
  ArgumentsCoverBody
PROPERTY
  Terminates
