SPECIFICATION Spec
CONSTANTS
  Undef = Undef
  Programs <- MCPrograms
  Funcs <- MCFuncs
  Kernels <- MCKernels
  Graphs <- MCGraphs
  FieldsOf <- MCFieldsOf
  EdgeSets = {"E", "F"}
  Runs = 2
INVARIANTS
  StagesKeepMeaning
  RunComputesMeaning
  StorageCoversValues
  AccessesInBounds
  WorkspacesClean
