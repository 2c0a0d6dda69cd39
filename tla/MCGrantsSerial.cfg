SPECIFICATION Spec
CONSTANTS
  NoToken = NoToken
  NoPlan = NoPlan
  None = None
  Callers = {c1, c2}
  Tokens <- MCTokens
  Roots = {"here", "elsewhere"}
  Root = "here"
  Actions <- MCActions
  Paths <- MCPaths
  Plans <- MCPlans
  Ttls = {0, 1}
  Orders <- MCOrders
  Requests <- MCRequests
  InitialFile <- MCForeignFile
  MaxGrants = 2
  MaxTime = 2
  MaxCalls = 6
  Serialized = TRUE
  RenameReplaces = FALSE
  Faults = TRUE
INVARIANTS
  TypeOK
  AcceptedIsGranted
  SingleUse
PROPERTIES
  Retained
  LedgerSpec
CHECK_DEADLOCK FALSE
