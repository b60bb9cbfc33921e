SPECIFICATION Spec
CONSTANTS
  SignedMax = 2
  ChainedMax = 2
  MaxChained = 2
  MaxPackets = 7
  MaxStale = 3
  NoHash = NoHash
INVARIANT
  TablesSuffice
