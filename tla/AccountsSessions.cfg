\* Log-ins, log-outs and password changes race with administrators who create, disable, enable and re-assign accounts.
SPECIFICATION Spec
CONSTANTS
  u1 = u1  u2 = u2  b1 = b1  b2 = b2  none = none
  User = {u1, u2}
  Browser = {b1, b2}
  NoUser = none
  Initial <- OneAdmin
  Offered = {"logout", "password", "create", "status", "role"}
  MaxVersion = 4
SYMMETRY MCSymmetry
INVARIANTS TypeOK SessionsInvalidated
PROPERTIES OnlyOvertakenComeBack NewSessionWorks
