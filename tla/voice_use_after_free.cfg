SPECIFICATION Spec
CONSTANTS
  c1 = c1
  Calls = {c1}
  MaxStarts = 1
  MaxDials = 1
  Failures = {}
INVARIANT ModemUsedWhileThere
