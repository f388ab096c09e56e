SPECIFICATION SyncSpec
CONSTANTS
  Workflow = {w1, w2}
  Def = {d1}
  N8nId = {n1, n2, n3}
  Call = {c1, c2}
  MaxVersion = 3
  Faults = TRUE
  None = None
  Blank = Blank
SYMMETRY SyncSymmetry
INVARIANTS SyncTypeOK MappingIsOwn
 
