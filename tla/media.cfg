SPECIFICATION FairSpec
CONSTANTS
  Ports = {0, 4001, 65534, 65536}
  Payloads = {0, 96}
  Chunk = 4
  MaxReads = 3
  TsModulus = 8
  Failures = {"state", "rtp", "open", "tty", "read"}
INVARIANTS
  TypeOK
  PcmuIsFound
  AddressBelongsToPort
  SentWasRead
  SerialHasSession
PROPERTY ExitIsObeyed
