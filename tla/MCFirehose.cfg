SPECIFICATION Spec
CONSTANTS
  Runs <- AllRuns
  HostPayload = 2
  ChunkMax = 2
  MaxLogs = 1
  MaxFail = 1
  MaxGone = 1
INVARIANTS ResponseMatches NoDesync FlashComplete SessionAsPrepared
PROPERTIES RunEnds ImplementsFlashRun
