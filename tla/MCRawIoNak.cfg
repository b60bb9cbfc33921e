SPECIFICATION Spec
CONSTANTS
  Sectors = 3
  Payload = 2
  Requests <- Some
  Refusable = {"program", "finish"}
  MaxReqs = 3
  MaxRefuse = 1
  MaxLate = 0
  MaxTimeouts = 0
  MaxGone = 0
INVARIANTS WriteFaithful
