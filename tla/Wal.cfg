\* Crashes, failing file operations and files changed from outside.
SPECIFICATION FairSpec
CONSTANTS
  MaxStatements = 2
  MaxCrashes = 2
  MaxErrors = 2
  MaxVersion = 2
  CheckpointLimit = 2
  Faults = {"externalEdit"}
INVARIANTS TypeOK PromisedServed AppliedOnce IdleIsDurable
PROPERTIES ImplementsStore RefusalJustified Settles
