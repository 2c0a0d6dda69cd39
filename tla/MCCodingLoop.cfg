SPECIFICATION FairLoopSpec
CONSTANTS
  Options <- MCOptions
  Proposals <- MCProposals
  MaxIterations = 5
  MaxToolCalls = 3
  MaxFilesModified = 2
  NoVerification = NoVerification
  Forensic = FALSE
INVARIANTS
  MutationsAreApproved
  LimitsHold
  ReasonMatchesState
  CompletedIsVerified
PROPERTIES
  Terminates
