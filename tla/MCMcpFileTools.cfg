SPECIFICATION MCPSpec
CONSTANTS
  NoToken = NoToken
  NoPlan = NoPlan
  NoArg = NoArg
  None = None
  Chars = {"a", "b", "lf"}
  Callers = {c1, c2}
  Tokens <- McpTokens
  Roots = {"here"}
  Root = "here"
  Actions <- McpActions
  Paths <- McpPaths
  Plans <- McpPlans
  PlanOf <- McpPlanOf
  Files <- McpPaths
  Ops <- McpOps
  InitialDisk <- McpDisk
  Ttls = {0}
  Orders = {}
  Requests = {}
  InitialFile <- McpNoFile
  MaxGrants = 2
  MaxTime = 1
  MaxCalls = 3
  MaxEdits = 1
  Serialized = FALSE
  RenameReplaces = FALSE
  Faults = TRUE
  ForensicMode = FALSE
INVARIANTS
  AdmittedMatchesApproval
PROPERTIES
  WritesAreApproved
CHECK_DEADLOCK FALSE
