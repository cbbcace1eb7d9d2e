\* Two keys share a map that is pruned above one entry.
SPECIFICATION Spec
CONSTANTS
  k1 = k1  k2 = k2  c1 = c1  c2 = c2  none = none
  Key = {k1, k2}
  Client = {c1, c2}
  NoKey = none
  Limit = 2
  Window = 2
  MaxEntries = 1
  Watched = k1
  MaxGranted = 6
  MaxForgotten = 1
SYMMETRY MCSymmetry
INVARIANTS TypeOK GuessBudget
PROPERTIES KeepsPromise
