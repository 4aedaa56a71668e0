CONSTANTS
  edges = edges
  alpha = alpha
  ext = ext
  o1 = o1
  o2 = o2
  grid = grid
  Args = {edges, alpha}
  Globals = {ext}
  Objs = {o1, o2, grid}
  IndexedArg = edges
  Dims = {edges, ext}
  Misfit = {grid}
  Lookup <- Maybe
  MaxVersion = 1
  None = None
SPECIFICATION Spec
SYMMETRY FitSymmetry
INVARIANTS RunUsesBoundObjects RunFreshUnlessChanged RunMemoryFits RunNeverSeesMisfit
CHECK_DEADLOCK FALSE
