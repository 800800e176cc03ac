SPECIFICATION Spec
CONSTANTS
  Apps = {a1, a2}
  Viewports = {v1, v2, v3}
  None = None
  MaxDeeds = 5
SYMMETRY Symmetry
INVARIANT ClosedWithParent
CHECK_DEADLOCK FALSE
