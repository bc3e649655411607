\* A second interruption of the checkpoint swap.
SPECIFICATION Spec
CONSTANTS
  MaxStatements = 1
  MaxCrashes = 2
  MaxErrors = 1
  MaxVersion = 1
  CheckpointLimit = 2
  Faults = {"swapOverOld"}
INVARIANTS PromisedServed
