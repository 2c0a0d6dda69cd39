--------------------------- MODULE BrainProposals ---------------------------
(***************************************************************************)
(* Proposals of the repository brain: runProjectInit, reviewProposal,      *)
(* listProposals and writeBrainProductSnapshot of                          *)
(* src/core/brain-product/init.ts.                                         *)
(*                                                                         *)
(* A proposal's status is kept twice: in reviews.json, which is read whole *)
(* and written back whole, and in a line of its markdown file.  Calls      *)
(* overlap at every await, fail and die half way, and a project may be     *)
(* initialized again.                                                      *)
(***************************************************************************)
EXTENDS Naturals, Sequences, FiniteSets

CONSTANTS
  Callers,
  ProposalKinds,   \* the kinds of proposals, in the order they are written
  Plain,           \* those whose text has no line "Status: **...**", as adr-0001
  Strays,          \* ids that a review may name though no proposal has them
  ProjectAnswers,  \* what a project may be initialized with
  Decisions,       \* of the four decisions, those of the instance
  Absent,
  MaxCalls

VARIABLES
  reviews,      \* reviews.json: the decision on each id, or Absent
  docs,         \* the markdown file of each kind, or Absent
  calls,        \* what each caller's call is at, or Absent
  kept,         \* init.json and latest.json, and what has been decided (history)
  begun         \* how many calls have begun

proposalVars == <<reviews, docs, calls, kept, begun>>

Proposed == {ProposalKinds[i] : i \in DOMAIN ProposalKinds}
Ids == Proposed \cup Strays

\* reviews.json, a markdown file, and a reviewProposal under way.
Reviews == [Ids -> {Absent} \cup Decisions]
Docs == [of : ProjectAnswers, line : {Absent, "proposed"} \cup Decisions]
Reviewings ==
  [at : {"load", "write", "match", "read", "rewrite"}, id : Ids, decision : Decisions,
   held : {Absent} \cup Reviews, draft : {Absent} \cup Docs, overtaken : BOOLEAN]

\* decided: the decisions that were ever asked for.  standing: the last one on each id that
\* was written and not overtaken.  apart: the kinds whose two statuses may differ, as they
\* were initialized after a review, reviewed by overlapping calls, by one that died or before
\* one that could not read, and no review of them has ended since by itself.  unread: those whose text was written since
\* the last review of them.
ProposalInit ==
  /\ reviews = [i \in Ids |-> Absent]
  /\ docs = [k \in Proposed |-> Absent]
  /\ calls = [c \in Callers |-> Absent]
  /\ kept = [init |-> Absent, latest |-> Absent, decided |-> {},
             standing |-> [i \in Ids |-> Absent], apart |-> {}, unread |-> {}]
  /\ begun = 0

At(c, step) == calls[c] # Absent /\ calls[c].at = step
Goto(c, step) == calls' = [calls EXCEPT ![c].at = step]
Leave(c) == calls' = [calls EXCEPT ![c] = Absent]

Begin(c, call) ==
  /\ calls[c] = Absent /\ begun < MaxCalls
  /\ begun' = begun + 1
  /\ calls' = [calls EXCEPT ![c] = call]
  /\ UNCHANGED <<reviews, docs>>

\* Other calls that are between reading reviews.json and the last write of their review.
Reviewing(c, k) ==
  \E d \in Callers \ {c} : calls[d] # Absent /\ calls[d].at \in {"write", "match", "read", "rewrite"} /\ calls[d].id = k

---------------------------------------------------------------------------
\* runProjectInit: a file for each kind, in place of the one there is, then init.json.
BeginInit(c) ==
  \E answers \in ProjectAnswers : Begin(c, [at |-> "draft", answers |-> answers, next |-> 1]) /\ UNCHANGED kept

Draft(kind, answers) == [of |-> answers, line |-> IF kind \in Plain THEN Absent ELSE "proposed"]

WriteDraft(c) ==
  LET kind == ProposalKinds[calls[c].next] IN
  /\ At(c, "draft")
  /\ docs' = [docs EXCEPT ![kind] = Draft(kind, calls[c].answers)]
  /\ kept' = [kept EXCEPT !.unread = @ \cup {kind},
                          !.apart = IF reviews[kind] # Absent \/ Reviewing(c, kind) THEN @ \cup {kind} ELSE @]
  /\ calls' = [calls EXCEPT ![c].next = @ + 1,
                            ![c].at = IF calls[c].next = Len(ProposalKinds) THEN "meta" ELSE @]
  /\ UNCHANGED <<reviews, begun>>

WriteMeta(c) ==
  /\ At(c, "meta")
  /\ kept' = [kept EXCEPT !.init = calls[c].answers]
  /\ Leave(c)
  /\ UNCHANGED <<reviews, docs, begun>>

---------------------------------------------------------------------------
\* reviewProposal; overtaken (history): what this call read of reviews.json is not what it
\* holds, as it was written since or could not be read.
BeginReview(c) ==
  \E id \in Ids, decision \in Decisions :
    /\ Begin(c, [at |-> "load", id |-> id, decision |-> decision, held |-> Absent, draft |-> Absent,
                 overtaken |-> FALSE])
    /\ kept' = [kept EXCEPT !.decided = @ \cup {<<id, decision>>}]

\* loadReviews: a file that is broken, or cannot be read, has no reviews.
Loaded == {reviews, [i \in Ids |-> Absent]}

LoadReviews(c) ==
  /\ At(c, "load")
  /\ \E found \in Loaded :
       calls' = [calls EXCEPT ![c].at = "write", ![c].held = found, ![c].overtaken = found # reviews]
  /\ UNCHANGED <<reviews, docs, kept, begun>>

Overtaken(c) ==
  [d \in Callers |-> IF d # c /\ calls[d] # Absent /\ calls[d].at = "write"
                     THEN [calls[d] EXCEPT !.overtaken = TRUE] ELSE calls[d]]

\* The item takes the place of the one on the same id; the others are those that were read.
Reviewed(held, id, decision) == [held EXCEPT ![id] = decision]

WriteReviews(c) ==
  LET id == calls[c].id
      written == Reviewed(calls[c].held, id, calls[c].decision)
      changed == {i \in Ids : i # id /\ written[i] # reviews[i]}
  IN /\ At(c, "write")
     /\ reviews' = written
     /\ kept' = [kept EXCEPT !.unread = @ \ {id},
          !.standing = IF calls[c].overtaken THEN written ELSE Reviewed(@, id, calls[c].decision),
          !.apart = @ \cup changed \cup (IF Reviewing(c, id) THEN {id} ELSE {})]
     /\ calls' = [Overtaken(c) EXCEPT ![c].at = "match"]
     /\ UNCHANGED <<docs, begun>>

\* listProposals tells whether there is a file of that id.
Match(c) ==
  /\ At(c, "match")
  /\ IF calls[c].id \in Proposed /\ docs[calls[c].id] # Absent THEN Goto(c, "read") ELSE Leave(c)
  /\ UNCHANGED <<reviews, docs, kept, begun>>

\* Its line of status is replaced, or one is put before its text.
Marked(doc, decision) == [doc EXCEPT !.line = decision]

ReadDoc(c) ==
  /\ At(c, "read")
  /\ calls' = [calls EXCEPT ![c].at = "rewrite", ![c].draft = Marked(docs[calls[c].id], calls[c].decision)]
  /\ UNCHANGED <<reviews, docs, kept, begun>>

Rewrite(c) ==
  /\ At(c, "rewrite")
  /\ docs' = [docs EXCEPT ![calls[c].id] = calls[c].draft]
  /\ kept' = IF reviews[calls[c].id] = calls[c].decision /\ ~Reviewing(c, calls[c].id)
              THEN [kept EXCEPT !.apart = @ \ {calls[c].id}] ELSE kept
  /\ Leave(c)
  /\ UNCHANGED <<reviews, begun>>

---------------------------------------------------------------------------
\* listProposals, for the command that prints it and for writeBrainProductSnapshot
BeginList(c) ==
  \E purpose \in {"print", "snapshot"} :
    /\ Begin(c, [at |-> "dir", purpose |-> purpose, found |-> {}, told |-> Absent])
    /\ UNCHANGED kept

ReadDir(c) ==
  LET found == {k \in Proposed : docs[k] # Absent} IN
  /\ At(c, "dir")
  /\ calls' = [calls EXCEPT ![c].at = "tell", ![c].found = found]
  /\ UNCHANGED <<reviews, docs, kept, begun>>

StatusOf(review) == IF review = Absent THEN "proposed" ELSE review

\* The reviews are read once; the texts that are read afterwards do not change a status.
Tell(c) ==
  /\ At(c, "tell")
  /\ \E reviewed \in Loaded :
       calls' = [calls EXCEPT ![c].told = [k \in calls[c].found |-> StatusOf(reviewed[k])],
                              ![c].at = IF calls[c].purpose = "snapshot" THEN "keep" ELSE "answer"]
  /\ UNCHANGED <<reviews, docs, kept, begun>>

\* The snapshot under its own name, and then as the latest
Keep(c) ==
  /\ At(c, "keep")
  /\ kept' = [kept EXCEPT !.latest = calls[c].told]
  /\ Goto(c, "answer")
  /\ UNCHANGED <<reviews, docs, begun>>

Answer(c) ==
  /\ At(c, "answer")
  /\ Leave(c)
  /\ UNCHANGED <<reviews, docs, kept, begun>>

\* A file operation fails, or the process dies.
Abort(c) ==
  /\ calls[c] # Absent
  /\ kept' = IF calls[c].at \in {"match", "read", "rewrite"} THEN [kept EXCEPT !.apart = @ \cup {calls[c].id}] ELSE kept
  /\ Leave(c)
  /\ UNCHANGED <<reviews, docs, begun>>

ProposalNext ==
  \E c \in Callers :
    \/ BeginInit(c) \/ WriteDraft(c) \/ WriteMeta(c)
    \/ BeginReview(c) \/ LoadReviews(c) \/ WriteReviews(c) \/ Match(c) \/ ReadDoc(c) \/ Rewrite(c)
    \/ BeginList(c) \/ ReadDir(c) \/ Tell(c) \/ Keep(c) \/ Answer(c) \/ Abort(c)

ProposalSpec == ProposalInit /\ [][ProposalNext]_proposalVars

---------------------------------------------------------------------------
\* "never auto-approved": whatever overlaps and dies, a status that reviews.json keeps,
\* that a list tells or that the latest snapshot has was asked for by a review of that very
\* proposal, or is "proposed".
IsDecided(id, status) == status = "proposed" \/ <<id, status>> \in kept.decided
StatusesAreDecided ==
  /\ \A i \in Ids : reviews[i] # Absent => <<i, reviews[i]>> \in kept.decided
  /\ kept.latest # Absent => \A k \in DOMAIN kept.latest : IsDecided(k, kept.latest[k])
  /\ \A c \in Callers : At(c, "answer") => \A k \in DOMAIN calls[c].told : IsDecided(k, calls[c].told[k])

\* A decision that was written stands, until another on the same proposal, unless a review
\* wrote back reviews that it had read before another wrote, or could not read: then what
\* it wrote stands.
ReviewsStand == \A i \in Ids : kept.standing[i] # Absent => reviews[i] = kept.standing[i]

\* "Keep proposal markdown status in sync with the review decision": outside of a review of
\* it, a proposal's file tells the status that reviews.json has, unless the project was
\* initialized after the review, reviews overlapped, one died before its last write or could
\* not read the others; a later review that no other overlaps mends it.
Marking(c, k) == calls[c] # Absent /\ calls[c].at \in {"match", "read", "rewrite"} /\ calls[c].id = k
FilesTellReviews ==
  \A k \in Proposed \ kept.apart :
    docs[k] # Absent /\ (\A c \in Callers : ~Marking(c, k)) =>
      IF reviews[k] = Absent THEN docs[k].line \in {Absent, "proposed"} ELSE docs[k].line = reviews[k]

\* "Generate draft proposal artifacts - never auto-approved": a text that was written since
\* the last review of its proposal is not told to be approved.
NeverAutoApproved == \A k \in kept.unread : reviews[k] # "approved"
=============================================================================
