SPECIFICATION StoreSpec
CONSTANTS
  None = None
  Callers = {c1, c2}
  Ids <- MCIds
  Texts <- MCTexts
  Brains <- MCBrains
  InitialStores <- MCStores
  Faults = TRUE
SYMMETRY CallersAlike
INVARIANTS
  RegisteredIsStored
  SavedIsListed
  OldBoundaryNotServed
PROPERTIES
  SnapshotsAreImmutable
