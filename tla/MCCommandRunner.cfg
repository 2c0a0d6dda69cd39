SPECIFICATION FairRunnerSpec
CONSTANTS
  None = None
  Malformed = Malformed
  Invalid = Invalid
  InvalidClosed = InvalidClosed
  Torn = Torn
  Types <- MCTypes
  Commands <- MCCommands
  Targets <- MCTargets
  Destructive = {"rmRf"}
  Escaping = {"catOutside"}
  Stubborn = {"hangs"}
  Pack <- MCPack
  Default <- MCDefault
  Repos <- MCRepos
  Overlays <- MCOverlays
  Requests <- MCRequests
  Callers = {c1, c2}
  MaxCalls = 2
  MaxEdits = 1
INVARIANTS
  DenialsHold
  RepoRulesOutrank
  AnswersAreLogged
  ChainLinks
PROPERTIES
  CallsEnd
  ImplementsAuditLog
CHECK_DEADLOCK FALSE
