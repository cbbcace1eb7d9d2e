\* Two orders and their returns, created by repeated and contradictory calls, while
\* an order is delivered or sent back.
SPECIFICATION Spec
CONSTANTS
  r1 = r1  r2 = r2  s1 = s1  k1 = k1  k2 = k2  k3 = k3  o1 = o1  o2 = o2
  b1 = b1  b2 = b2  h1 = h1  h2 = h2  e1 = e1  none = none
  Request = {r1, r2}
  Source = {s1}
  Key = {k1, k2, k3}
  KeyLength <- MCKeyLength
  Order = {o1, o2}
  Body = {b1, b2}
  Handover = {h1, h2}
  Eta = {e1}
  None = none
  Calls <- CreateCalls
  SeedPaths <- CreateSeed
  SeedOrder = o1  SeedBody = b1  SeedHandover = h1  SeedSource = s1  SeedKey = k1
  MaxEvents = 10
  Faults = TRUE
SYMMETRY MCSymmetry
INVARIANTS DirectionKept CreatesConverge
PROPERTIES TerminalFinal ImplementsLedger
