SPECIFICATION Spec
CONSTANTS
  Key = {k1}
  Call = {c1, c2, c3}
  Limit = 2
  Window = 1
  MaxTime = 3
  MaxCount = 4
  MaxId = 2
  None = None
SYMMETRY RateSymmetry
INVARIANTS TypeOK GrantsMatchCount BurstBound
PROPERTIES NoFalseDenial
