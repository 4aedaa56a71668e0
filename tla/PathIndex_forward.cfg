CONSTANTS
  v = v
  u = u
  e = e
  f = f
  Exprs <- Symmetric
  VertexSets = {v, u}
  Size <- VSize
  EdgeSets = {e, f}
  EndpointSets <- Ends
  MaxEdges <- TwoAndOne
  Names = {"V", "E", "F"}
  Asks <- Roots
  None = None
SPECIFICATION BuilderSpec
INVARIANTS MemoIsRelation LinksTransposed
CHECK_DEADLOCK FALSE
