SPECIFICATION Spec
CONSTANTS
  c1 = c1
  c2 = c2
  Calls = {c1, c2}
  MaxStarts = 2
  MaxDials = 1
  Failures = {"context", "command", "thread", "channel", "config", "list", "dial"}
SYMMETRY Symmetry
INVARIANTS
  TypeOK
  ListedCallsAreHeld
  AnswersFindModem
  ServiceHasItsThread
  WatchedThreadLives
  ListFollowsModemManager
