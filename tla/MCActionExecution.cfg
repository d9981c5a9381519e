CONSTANTS
  Slots = {s1, s2}
  Keys = {k1}
  a = a
  a2 = a2
  b = b
  c = c
  Prints <- MCPrints
  Multi <- MCMulti
  Bare <- MCBare
  None = None
  MaxDispatches = 3
SPECIFICATION ExecutionSpec
SYMMETRY Symmetry
INVARIANTS
  ExecutionTypeOK
  RepeatNeedsDisturbance
  PlansAreOnRecord
