SPECIFICATION Spec
CONSTANTS
  m1 = m1
  m2 = m2
  Modems = {m1, m2}
  MaxManagers = 1
  MaxListings = 1
  MaxDials = 1
  States = {"registered"}
  Failures = {}
SYMMETRY Symmetry
INVARIANTS
  ManagerModemsTracked
