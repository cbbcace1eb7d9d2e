\* Three requests of one account at a time, four uploads, four overlaps or faults.
SPECIFICATION Spec
CONSTANTS
  n1 = n1  n2 = n2  n3 = n3  n4 = n4  c1 = c1  c2 = c2  c3 = c3  none = none
  Client = {c1, c2, c3}
  Name = {n1, n2, n3, n4}
  NoName = none
  MaxDisturbances = 4
SYMMETRY MCSymmetry
INVARIANTS TypeOK NamedFileExists LeftoversBounded
