SPECIFICATION Spec
CONSTANTS
  Sessions <- AllSessions
  EHOSTDL = 13
  Regions <- TwoRegions
  Transports = {"usb", "qud"}
  Kinds = {"edl", "crashed", "firehose", "dead"}
  MaxLate = 1
  MaxBad = 1
  MaxGone = 1
INVARIANTS NothingStray UploadSucceeds DumpSound
PROPERTIES HandsOverToProgrammer RunReturns
