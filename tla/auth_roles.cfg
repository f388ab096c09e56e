SPECIFICATION Spec
CONSTANTS
  Login = {l1}
  Pair = {p1, p2}
  Handler = {h1, h2}
  MaxRoles = 1
  None = None
SYMMETRY AuthSymmetry
INVARIANTS TypeOK 
CHECK_DEADLOCK FALSE
