SPECIFICATION Spec
CONSTANTS
  c1 = c1
  c2 = c2
  NoCall = NoCall
  Calls = {c1, c2}
  Failures = {"stack", "config", "register", "thread", "audio", "number", "mm", "answer", "alloc", "exit"}
  Traffic = {"INVITE", "CLOSED", "RELEASED"}
SYMMETRY Symmetry
INVARIANTS
  TypeOK
  OneAudioThread
  OnlyCurrentInviteKept
  NoStaleCallData
  PortIsOfOwnCall
  ChannelsBounded
PROPERTIES
  MMCallCreatedOnce
  EndedByOwnEvent
  ImplementsCallSession
