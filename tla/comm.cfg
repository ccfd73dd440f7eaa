SPECIFICATION FairSpec
CONSTANTS
  Size = 3
  Capacity = 9
  MaxPending = 2
  MaxSent = 3
  Failures = {"setup", "alloc", "write", "read"}
INVARIANTS
  TypeOK
  StreamOfCommands
  WritesDoNotWait
PROPERTIES
  ImplementsFifo
  CommandsArrive
  ToldThreadIsJoined
