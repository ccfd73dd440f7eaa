SPECIFICATION Spec
CONSTANTS
  c1 = c1
  c2 = c2
  NoCall = NoCall
  Calls = {c1, c2}
  Failures = {}
  Traffic = {"INVITE", "CLOSED", "RELEASED"}
INVARIANTS
  AnswersOwnCall
