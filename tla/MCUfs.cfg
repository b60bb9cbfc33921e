SPECIFICATION Spec
CONSTANTS
  Inputs <- AllInputs
  MaxTries = 2
  MaxLate = 6
  MaxFail = 2
  MaxGone = 1
INVARIANTS AppliedIsFile CommittedValidated SuccessMeansApplied ProvisionSucceeds
