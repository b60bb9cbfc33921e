SPECIFICATION Spec
CONSTANTS
  Sectors = 3
  Payload = 2
  Requests <- Some
  Refusable = {"read", "getstorageinfo", "program", "finish"}
  MaxReqs = 4
  MaxRefuse = 2
  MaxLate = 2
  MaxTimeouts = 1
  MaxGone = 1
INVARIANTS ReadFaithful AcceptedWriteFaithful ResponseConsumed
