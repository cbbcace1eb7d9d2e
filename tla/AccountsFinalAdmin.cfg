\* Two administrators disable each other.
SPECIFICATION Spec
CONSTANTS
  u1 = u1  u2 = u2  b1 = b1  b2 = b2  none = none
  User = {u1, u2}
  Browser = {b1, b2}
  NoUser = none
  Initial <- TwoAdmins
  Offered = {"status"}
  MaxVersion = 4
SYMMETRY MCSymmetry
INVARIANTS FinalAdminKept
