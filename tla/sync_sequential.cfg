SPECIFICATION SyncSpec
CONSTANTS
  Workflow = {w1, w2}
  Def = {d1, d2}
  N8nId = {n1, n2, n3, n4}
  Call = {c1}
  MaxVersion = 3
  Faults = FALSE
  None = None
  Blank = Blank
SYMMETRY SyncSymmetry
INVARIANTS SyncedIsCurrent NoOrphan
