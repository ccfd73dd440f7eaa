SPECIFICATION FairSpec
CONSTANTS
  m1 = m1
  m2 = m2
  Modems = {m1, m2}
  MaxManagers = 2
  MaxListings = 1
  MaxDials = 1
  States = {"searching", "registered", "connected"}
  Failures = {"bus", "manager", "command"}
INVARIANTS
  TypeOK
  CounterCountsOperations
  OverlapOnlyWhilePinned
  VoiceOnlyWhileRegistered
PROPERTIES
  ExitCompletes
  RegisteredModemServed
