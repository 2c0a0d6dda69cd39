SPECIFICATION EvidenceSpec
CONSTANTS
  Clients = {c1, c2}
  Files <- MCFiles
  Stamped = {"change.json"}
  Altered = Altered
  Absent = Absent
  MaxOps = 2
  MaxTrees = 1
  MaxAlterations = 1
  MaxTime = 1
INVARIANTS
  VerifiedMeansIntact
  ProofQuotesChecked
  ProofsChain
SYMMETRY MCSymmetry
CHECK_DEADLOCK FALSE
