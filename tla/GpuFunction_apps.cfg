CONSTANTS
  res = res
  inp = inp
  scl = scl
  sext = sext
  text = text
  tmp = tmp
  Results = {res}
  Inputs = {inp}
  ByValue = {scl}
  SetExterns = {}
  TensorExterns = {text}
  Temps = {tmp}
  Rank <- PushOrder
  Objs = {o1, o2, o3, o4}
  Grids = {}
  Misfits = {}
  Disciplined = TRUE
  MaxClock = 2
  None = None
  Garbage = Garbage
SPECIFICATION Spec
SYMMETRY ObjSymmetry
PROPERTIES ImplementsFunctionSpec
CHECK_DEADLOCK FALSE
