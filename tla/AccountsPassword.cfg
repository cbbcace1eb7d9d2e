\* Two requests change the password of one account.
SPECIFICATION Spec
CONSTANTS
  u1 = u1  u2 = u2  b1 = b1  b2 = b2  none = none
  User = {u1}
  Browser = {b1, b2}
  NoUser = none
  Initial <- TwoAdmins
  Offered = {"password"}
  MaxVersion = 5
SYMMETRY MCSymmetry
INVARIANTS EveryChangeEndsSessions
