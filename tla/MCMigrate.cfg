CONSTANTS
  Nil = Nil
  Runs = {1, 2, 3}
  Builds = {"old", "new", "edited"}
  Last = 3
  Size <- MCSize
  Checksums = {"text", "edited text"}
  Checksum <- MCChecksum
SPECIFICATION FairSpec
INVARIANTS TypeOK EffectsAreRecorded ReturnedIsCurrent
PROPERTIES ImplementsSchema EveryRunEnds
\* Every run has returned or failed in the end.
CHECK_DEADLOCK FALSE
