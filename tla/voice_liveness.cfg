SPECIFICATION FairSpec
CONSTANTS
  c1 = c1
  Calls = {c1}
  MaxStarts = 2
  MaxDials = 1
  Failures = {"context", "command", "thread", "channel", "config", "list", "dial", "reorder"}
PROPERTIES
  RemovedModemIsFreed
  ReadyThreadIsServed
