SPECIFICATION Spec
CONSTANTS
  Runs <- AllRuns
  Devices <- AllDevices
  Transports = {"usb", "qud"}
  Retries = 3
  MaxLate = 2
  MaxBad = 1
  MaxGone = 1
INVARIANTS CommandsSucceed IdentityMatches
PROPERTIES ResetIsReal PowerOnlyToProgrammer
