SPECIFICATION Spec
CONSTANTS
  Backends = {"usb", "qud", "auto"}
  ChunkArgs = {0, 2, 3}
  DefaultChunk = 4
  MaxPkt = 2
  MsgLens = {1, 2, 4}
  XmlLen = 5
  RawLens = {2, 4}
  WriteLens = {1, 4, 6}
  MaxMsgs = 2
  MaxWrites = 2
  MaxCut = 2
  MaxRace = 1
INVARIANTS NoPhantom ChunksFramed
PROPERTIES ReadsStream
CHECK_DEADLOCK FALSE
