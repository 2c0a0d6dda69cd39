SPECIFICATION FairRuntimeSpec
CONSTANTS
  TurnOptions <- MCTurnOptions
  Proposals <- MCProposals
  MaxIterations = 4
  MaxToolCalls = 6
  MaxFilesModified = 1
  Forensic = FALSE
  Turns = {u1, u2}
INVARIANTS
  MutatingToolsApproved
  FilesNearlyCapped
PROPERTIES
  NoToolAfterCancel
  TurnsEnd
CHECK_DEADLOCK FALSE
