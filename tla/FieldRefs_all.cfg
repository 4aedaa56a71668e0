CONSTANTS
  x = x
  m = m
  points = points
  edges = edges
  Fields = {x, m}
  Sets = {points, edges}
  SetOf <- OneEach
  Refs = {r1, r2, r3}
  Uses <- AllUses
  MaxGrowths = 1
  Wild = Wild
SYMMETRY RefSymmetry
SPECIFICATION Spec
INVARIANTS UntouchedRegisteredExactly UntouchedRefsCurrent
CHECK_DEADLOCK FALSE
