SPECIFICATION Spec
CONSTANTS
  Ports = {4000}
  Payloads = {0, 96}
  Chunk = 1
  MaxReads = 1
  TsModulus = 2
  Failures = {}
INVARIANT PayloadZeroIsGood
