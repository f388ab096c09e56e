SPECIFICATION Spec
CONSTANTS
  Workflow = {w1}
  Def = {d1}
  N8nId = {n1}
  Call = {c1}
  MaxVersion = 2
  Faults = FALSE
  Execution = {e1}
  XCall = {x1}
  None = None
  Blank = Blank
SYMMETRY ExecSymmetry
PROPERTIES CancelsOnlyActive
