---------------------------- MODULE GrantLedger ----------------------------
(***************************************************************************)
(* What approval grants promise, with no file and no interleaving: a human *)
(* (or a trusted host) issues grants, and a token admits at most one       *)
(* operation, the one its grant names.  ApprovalGrants, which reads and    *)
(* writes grants.json, is shown to implement LedgerSpec when its calls do  *)
(* not overlap.                                                            *)
(***************************************************************************)
EXTENDS Integers, Sequences, FiniteSets

CONSTANTS
  Tokens,         \* random tokens (the issuer never draws one twice)
  Roots, Root,    \* project roots, and the root of this store
  Actions, Paths, Plans,
  NoToken,        \* a token that is missing or lacks the agt_ prefix
  NoPlan          \* a plan hash that is missing or shorter than 8

Request == [token: Tokens \cup {NoToken}, action: Actions, resources: SUBSET Paths,
            plan: Plans \cup {NoPlan}, consume: BOOLEAN]

Grant == [token: Tokens, root: Roots, action: Actions, resources: SUBSET Paths,
          plan: Plans, expires: Nat, consumed: BOOLEAN]

\* A request, the time it was checked, and whether its token had been accepted
\* before the request was made.
Claim == [req: Request, at: Nat, reuse: BOOLEAN]

ASSUME LedgerAssumption ==
  /\ Root \in Roots
  /\ NoToken \notin Tokens
  /\ NoPlan \notin Plans

VARIABLES
  granted,   \* the grants issueApprovalGrant has returned
  accepted,  \* the claims consumeApprovalGrant has accepted
  uses       \* how often a token was accepted and marked consumed

ledgerVars == <<granted, accepted, uses>>

\* normalizeResources: spellings are normalised, duplicates and "" dropped.
Normalized(resources) == resources \ {<<>>}

\* resourceCovers: the same path, or a directory above it.
Covers(dir, path) ==
  \/ dir = path
  \/ /\ Len(dir) < Len(path)
     /\ \A i \in 1..Len(dir) : dir[i] = path[i]

\* The grant names this operation: token, root, action and plan agree, every
\* resource is covered, and the grant had not expired when it was checked.
Backs(grant, cl) ==
  /\ grant.token = cl.req.token
  /\ grant.root = Root
  /\ grant.action = cl.req.action
  /\ grant.plan = cl.req.plan
  /\ \A path \in Normalized(cl.req.resources) : \E g \in grant.resources : Covers(g, path)
  /\ cl.at <= grant.expires

LedgerInit ==
  /\ granted = {}
  /\ accepted = {}
  /\ uses = [t \in Tokens |-> 0]

Grants(g) ==
  /\ g.root = Root
  /\ \A h \in granted : h.token # g.token
  /\ granted' = granted \cup {g}
  /\ UNCHANGED <<accepted, uses>>

\* An accepted request that spends its token.
Spends(cl) ==
  /\ \E g \in granted : Backs(g, cl)
  /\ uses[cl.req.token] = 0
  /\ accepted' = accepted \cup {cl}
  /\ uses' = [uses EXCEPT ![cl.req.token] = 1]
  /\ UNCHANGED granted

\* An accepted request that only looks (consume: false).
Looks(cl) ==
  /\ \E g \in granted : Backs(g, cl)
  /\ accepted' = accepted \cup {cl}
  /\ UNCHANGED <<granted, uses>>

\* The new grant or claim is read off the next state: Grant and Claim are infinite.
LedgerNext ==
  \/ \E g \in granted' : Grants(g)
  \/ \E cl \in accepted' : Spends(cl) \/ Looks(cl)

LedgerSpec == LedgerInit /\ [][LedgerNext]_ledgerVars
=============================================================================
