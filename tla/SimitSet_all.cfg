CONSTANTS
  V = V
  E = E
  P = P
  x = x
  y = y
  Sets = {V, E, P}
  Fields = {x, y}
  Declared <- VectorsAndScalars
  Values = {0, 1}
  EndpointSets <- LinksTwoPoints
  Width <- Widths
  CapacityIncrement = 2
  MaxCapacity = 4
  MaxElements <- Elements
  Removable = {P}
  BadRefs = {}
  Junk = Junk
SPECIFICATION Spec
INVARIANTS TypeOK AllocationCovers EdgesStayInside FreshSlotsAreZero
PROPERTIES WritesInBounds ImplementsSetSpec
CHECK_DEADLOCK FALSE
