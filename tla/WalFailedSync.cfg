\* An append that fails after its record was written.
SPECIFICATION Spec
CONSTANTS
  MaxStatements = 2
  MaxCrashes = 1
  MaxErrors = 1
  MaxVersion = 1
  CheckpointLimit = 3
  Faults = {"recordDespiteError"}
INVARIANTS AppliedOnce
