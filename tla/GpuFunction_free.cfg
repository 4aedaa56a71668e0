CONSTANTS
  res = res
  inp = inp
  scl = scl
  sext = sext
  text = text
  tmp = tmp
  Results = {res}
  Inputs = {}
  ByValue = {}
  SetExterns = {sext}
  TensorExterns = {text}
  Temps = {tmp}
  Rank <- PushOrder
  Objs = {o1, o2, o3}
  Grids = {res, sext}
  Misfits = {o3}
  Disciplined = FALSE
  MaxClock = 2
  None = None
  Garbage = Garbage
SPECIFICATION Spec
SYMMETRY ObjSymmetry
INVARIANTS CopiesAgree
PROPERTIES RunSafeRoundTrip
CHECK_DEADLOCK FALSE
