\* Three slots besides the shell's.
CONSTANTS
  Slots = {s1, s2, s3}
SPECIFICATION FairExternalSpec
INVARIANTS
  ExternalTypeOK
  ChildrenAwaited
  ChildRunsWhatWasFound
  NothingLeftBehind
  WaitFailsOnlyIfStolen
PROPERTIES
  CommandReturns
