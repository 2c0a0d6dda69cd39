SPECIFICATION FixSpec
CONSTANTS
  Appliers = {a1, a2}
  Order <- MCOrder
  Strict <- MCStrict
  Bases <- MCBases
  Empty = ""
  Huge = {"huge"}
  Links = {"link"}
  Rejected = {"sandbox"}
  InitialDisk <- MCDisk
  DryRun = FALSE
  UndoAfter = TRUE
  MaxEdits = 1
  Faults = TRUE
  None = None
INVARIANTS
  OnlyFixes
  UndoRestores
PROPERTIES
  OverwritesAreChecked
CHECK_DEADLOCK FALSE
