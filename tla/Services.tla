------------------------------ MODULE Services ------------------------------
(***************************************************************************)
(* The services that keep state and share nothing but the repository they  *)
(* work in, side by side.  Each behaviour is one of one service: subject   *)
(* says of which, and the other variables stand for that service's own.    *)
(* For "edit" they are the text that edit_file reads and what it is asked. *)
(***************************************************************************)
EXTENDS Naturals, Sequences, FiniteSets, TLC

CONSTANTS
  Callers, Absent,
  TwinKeys, MaxTwins, MaxTrees,                                         \* twin
  SortedFiles, Unreported, MaxListed, Contents, MaxGraphs, MaxEdits,    \* graph
  MaxAsks, MaxFailures, MaxTurns, MaxChars, Sizes,                      \* chat
  Structures, MaxBuilds, MaxChanges, MaxRequests,                       \* session
  Records, Statuses, MaxTransitions,                                    \* knowledge
  UserNames, Passwords, Roles, Lifetime, MaxLogins, MaxTime,            \* identity
  Roots, Enclosing, MaxVisits,                                          \* workspace
  Drafts, Adrs, Phrases, BrainHits,
  MaxAppends, MaxDeaths, MaxBrainHits, MaxMemory,                       \* ledger
  Facts, MaxBrains,                                                     \* brain
  ProposalKinds, Plain, Strays, ProjectAnswers, Decisions, MaxReviews,  \* proposals
  EditChars, EditTexts, EditArguments                                   \* edit

VARIABLES subject, disk, calls, world, past, spent

vars == <<subject, disk, calls, world, past, spent>>

Twin == INSTANCE TwinCache WITH MaxCalls <- MaxTwins, snapshot <- disk, tree <- world, begun <- spent
Graph == INSTANCE GraphIndex WITH MaxCalls <- MaxGraphs, index <- disk, files <- world, head <- past
Chat == INSTANCE ChatService WITH Askers <- Callers, service <- world, asks <- calls
Session == INSTANCE BrainSession WITH Requests <- Callers, store <- disk, memory <- past, project <- world
Knowledge == INSTANCE KnowledgeRecords WITH MaxCalls <- MaxTransitions, records <- disk, begun <- spent
Identity == INSTANCE TeamIdentity WITH
  MaxCalls <- MaxLogins, users <- disk, sessions <- past, clock <- world, begun <- spent
Spaces == INSTANCE Workspaces WITH MaxCalls <- MaxVisits, workspace <- disk, joined <- past, begun <- spent
Ledger == INSTANCE Ledgers WITH ledgers <- disk, written <- past
Brain == INSTANCE BrainKnowledge WITH MaxBuilds <- MaxBrains, brains <- disk
Proposals == INSTANCE BrainProposals WITH
  MaxCalls <- MaxReviews, reviews <- disk, docs <- world, kept <- past, begun <- spent
Text == INSTANCE EditText WITH Chars <- EditChars, NoArg <- Absent

---------------------------------------------------------------------------
\* Lists are of what they list, and the lack of a value is none of the values.
ASSUME BoundsAreNaturals == MaxTrees \in Nat
ASSUME NamesAreListed ==
  /\ UserNames \in Seq(Identity!Usernames)
  /\ Roles \subseteq {"viewer", "member", "admin", "owner"}
  /\ Lifetime \in Nat
ASSUME RecordsAreListed == Records \in Seq(Knowledge!Ids) /\ Records # <<>> /\ Absent \notin Knowledge!Ids
ASSUME ProposalsAreListed ==
  /\ ProposalKinds \in Seq(Proposals!Proposed) /\ ProposalKinds # <<>>
  /\ Absent \notin Decisions /\ Absent \notin Proposals!Docs /\ Absent \notin Proposals!Reviewings
ASSUME ChatAssumption ==
  MaxTurns \in Nat \ {0} /\ Absent \notin Chat!Sessions /\ Absent \notin Chat!AskRecords
ASSUME EditsAreArguments == EditTexts \subseteq Text!Texts /\ EditArguments \subseteq Text!EditArgs

Unused(variable) == variable = Absent

ServicesInit ==
  \/ subject = "twin" /\ Twin!TwinInit /\ Unused(past)
  \/ subject = "graph" /\ Graph!GraphInit
  \/ subject = "chat" /\ Chat!ChatInit /\ Unused(past)
  \/ subject = "session" /\ Session!SessionInit
  \/ subject = "knowledge" /\ Knowledge!KnowledgeInit /\ Unused(world) /\ Unused(past)
  \/ subject = "identity" /\ Identity!IdentityInit
  \/ subject = "workspace" /\ Spaces!WorkspaceInit /\ Unused(world)
  \/ subject = "ledger" /\ Ledger!LedgerInit /\ Unused(world)
  \/ subject = "brain" /\ Brain!BrainInit /\ Unused(calls) /\ Unused(world) /\ Unused(past) /\ Unused(spent)
  \/ subject = "proposals" /\ Proposals!ProposalInit
  \/ subject = "edit" /\ Unused(disk) /\ Unused(calls) /\ Unused(world) /\ Unused(past) /\ Unused(spent)

\* edit_file is called on some text.
AskedToEdit == Unused(disk) /\ disk' \in EditTexts /\ calls' \in EditArguments

ServicesNext ==
  /\ UNCHANGED subject
  /\ \/ subject = "twin" /\ Twin!TwinNext /\ UNCHANGED past
     \/ subject = "graph" /\ Graph!GraphNext
     \/ subject = "chat" /\ Chat!ChatNext /\ UNCHANGED past
     \/ subject = "session" /\ Session!SessionNext
     \/ subject = "knowledge" /\ Knowledge!KnowledgeNext /\ UNCHANGED <<world, past>>
     \/ subject = "identity" /\ Identity!IdentityNext
     \/ subject = "workspace" /\ Spaces!WorkspaceNext /\ UNCHANGED world
     \/ subject = "ledger" /\ Ledger!LedgerNext /\ UNCHANGED world
     \/ subject = "brain" /\ Brain!BrainNext /\ UNCHANGED <<calls, world, past, spent>>
     \/ subject = "proposals" /\ Proposals!ProposalNext
     \/ subject = "edit" /\ AskedToEdit /\ UNCHANGED <<world, past, spent>>

ServicesSpec == ServicesInit /\ [][ServicesNext]_vars

---------------------------------------------------------------------------
\* What a cache answers is what it was asked for, while calls overlap, fail and race with
\* the files: updateTwin a fresh twin or one stored for the same files, graphUpdate the
\* files but for one that changed under an earlier build, and the MCP server a brain that
\* the store knows.
CachesAreSound ==
  /\ subject = "twin" => Twin!TwinFreshOrKeyed
  /\ subject = "graph" => Graph!UpdatesCatchUp
  /\ subject = "session" => Session!BrainIsStored

\* A conversation is sent, bounded, logged and kept as it was held: the model gets the
\* conversation and then the question, once, and a serial chat's files agree at rest.
ConversationHolds ==
  subject = "chat" =>
    /\ Chat!ModelSeesConversation /\ Chat!MemoryBounded
    /\ Chat!AskedIsAudited /\ Chat!FilesAgreeAtRest

\* What a record says was earned, whatever overlaps: approved knowledge and what is
\* answered of it, a session and what it authorizes, a membership, a proposal's review.
RecordsAreEarned ==
  /\ subject = "knowledge" => Knowledge!HistoryIsACourse /\ Knowledge!AuthorityIsApproved
  /\ subject = "identity" => Identity!SessionsAreEarned /\ Identity!AuthorizedIsCurrent
  /\ subject = "workspace" => Spaces!AddedAreMembers
  /\ subject = "proposals" =>
       Proposals!StatusesAreDecided /\ Proposals!ReviewsStand /\ Proposals!FilesTellReviews

\* What was appended to a ledger is read back, decided and remembered, but for what deaths
\* have torn; a brain's claims tell one possible past, and its answers agree.
LedgersAreKept ==
  /\ subject = "ledger" => Ledger!LossesAreBounded /\ Ledger!DecisionsAreTold /\ Ledger!MemoryIsTheLedgers
  /\ subject = "brain" => Brain!HistoryIsHonest /\ Brain!AnswersAgree /\ Brain!DeltasTell

EditAsked == subject = "edit" /\ disk # Absent

\* An edit of a range leaves the lines before and after it as they were, but for how they end.
RangesAreKept == EditAsked => Text!RangeKeepsTheRest(disk, calls)

\* An edit of oldContent changes the first place where it occurs, and nothing else.
ReplacesAreLocal == EditAsked => Text!ReplaceIsUndoable(disk, calls)

\* What a project is initialized with is not approved until it has been reviewed.
NeverAutoApproved == subject = "proposals" => Proposals!NeverAutoApproved
=============================================================================
