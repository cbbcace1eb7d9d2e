\* A shipment out for delivery, everything that can happen to it at once, and every call answered.
SPECIFICATION FairSpec
CONSTANTS
  r1 = r1  r2 = r2  s1 = s1  k1 = k1  k2 = k2  k3 = k3  o1 = o1  o2 = o2
  b1 = b1  b2 = b2  h1 = h1  h2 = h2  e1 = e1  none = none
  Request = {r1, r2}
  Source = {s1}
  Key = {k1, k2, k3}
  KeyLength <- MCKeyLength
  Order = {o1, o2}
  Body = {b1, b2}
  Handover = {h1, h2}
  Eta = {e1}
  None = none
  Calls <- RoundCalls
  SeedPaths <- RoundSeed
  SeedOrder = o1  SeedBody = b1  SeedHandover = h1  SeedSource = s1  SeedKey = k1
  MaxEvents = 10
  Faults = TRUE
INVARIANTS TypeOK RequestsInOrder DeliveredSettled AuditTrail VersionCountsChanges CallbacksCurrent RepeatsAgree
PROPERTIES ImplementsLedger EveryCallAnswered
