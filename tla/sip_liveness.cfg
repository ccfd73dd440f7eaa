SPECIFICATION FairSpec
CONSTANTS
  c1 = c1
  c2 = c2
  NoCall = NoCall
  Calls = {c1, c2}
  Failures = {"register", "audio", "answer"}
  Traffic = {"INVITE", "ACK", "RELEASED"}
PROPERTIES
  ShutdownCompletes
  ReleasedCallEnds
  AcceptedCallIsDialled
  DialledCallIsAnswered
