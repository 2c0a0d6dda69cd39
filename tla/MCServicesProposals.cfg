SPECIFICATION Spec
CONSTANTS
  Absent = Absent
  a = a
  b = b
  x = x
  y = y
  z = z
  Callers = {a}
  TwinKeys = {x, y}
  MaxTwins = 3
  MaxTrees = 2
  SortedFiles <- MCFiles
  Unreported = {y}
  MaxListed = 2
  Contents = {1}
  MaxGraphs = 3
  MaxEdits = 2
  MaxAsks <- MCMaxAsks
  MaxFailures <- MCMaxFailures
  MaxTurns = 2
  MaxChars = 5
  Sizes <- MCSizes
  Structures = {x, y}
  MaxBuilds = 3
  MaxChanges = 2
  MaxRequests = 3
  Records <- MCRecords
  Statuses = {"draft", "approved", "rejected"}
  MaxTransitions = 5
  UserNames <- MCNames
  Passwords = {1, 2}
  Roles = {"viewer", "member", "owner"}
  Lifetime = 0
  MaxLogins = 4
  MaxTime = 1
  Roots = {x, y, z}
  Enclosing <- MCInside
  MaxVisits = 3
  Drafts <- MCDrafts
  Adrs <- MCAdrs
  Phrases = {"why", "how"}
  BrainHits <- MCBrainHits
  MaxAppends = 3
  MaxDeaths = 2
  MaxBrainHits = 2
  MaxMemory = 2
  Facts <- MCFacts
  MaxBrains = 4
  ProposalKinds <- MCKinds
  Plain = {"adr-0001"}
  Strays = {}
  ProjectAnswers = {1, 2}
  Decisions = {"approved", "rejected"}
  MaxReviews = 4
  EditChars <- MCChars
  EditTexts <- MCTexts
  EditArguments <- MCArguments
INVARIANTS
  NeverAutoApproved
CHECK_DEADLOCK FALSE
