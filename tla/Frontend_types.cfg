SPECIFICATION Spec
CONSTANTS
  MaxClones = 8
  Programs <- MCPrograms
  Intrinsics <- intrinsics
  TypeCheck <- TypeCheckElement
  GenerateIR <- EmitElement
INVARIANTS
  EmittedTypesAgree
  AcceptedProgramsEmit
  InstanceMatchesCall
  ClonesKeepBodies
  FoldKeepsValue
  TempsAssignedBeforeRead
CHECK_DEADLOCK FALSE
