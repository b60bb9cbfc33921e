SPECIFICATION FairSpec
CONSTANTS
  SignedMax = 2
  ChainedMax = 2
  MaxChained = 2
  MaxPackets = 7
  MaxStale = 3
  NoHash = NoHash
INVARIANTS IInv NoFalseRejection DigestReady DigestsConsumed MissingOnlyBeyondCapacity TruncationDetected
PROPERTIES TablesOnDemand SessionEnds
