SPECIFICATION Spec
CONSTANTS
  NoToken = NoToken
  NoPlan = NoPlan
  None = None
  Callers = {c1, c2}
  Tokens <- MCTokens
  Roots = {"here", "elsewhere"}
  Root = "here"
  Actions <- MCActions
  Paths <- MCPaths
  Plans <- MCPlans
  Ttls = {0, 1}
  Orders <- MCOrders
  Requests <- MCRequests
  InitialFile <- MCForeignFile
  MaxGrants = 2
  MaxTime = 1
  MaxCalls = 4
  Serialized = FALSE
  RenameReplaces = TRUE
  Faults = FALSE
INVARIANTS
  ReuseRejected
CHECK_DEADLOCK FALSE
