CONSTANTS
  Shapes <- All
  MaxBefore = 1
SPECIFICATION Spec
INVARIANTS BoxIsLattice NeighborsLinked
CHECK_DEADLOCK FALSE
