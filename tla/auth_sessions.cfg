SPECIFICATION Spec
CONSTANTS
  Login = {l1, l2}
  Pair = {p1, p2, p3}
  Handler = {h1, h2}
  MaxRoles = 0
  None = None
SYMMETRY AuthSymmetry
INVARIANTS SessionIsOwn RevokedStaysOut KeepsSession
CHECK_DEADLOCK FALSE
