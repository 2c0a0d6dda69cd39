-------------------------- MODULE KnowledgeRecords --------------------------
(***************************************************************************)
(* Governed knowledge: createKnowledgeRecord, transitionKnowledge,         *)
(* listKnowledge and retrieveAuthoritative of src/knowledge/store.ts over  *)
(* a storage provider whose get and set are atomic.                        *)
(*                                                                         *)
(* A transition reads the record, checks it, and writes it back an await   *)
(* later; a listing reads one record after the other.                      *)
(***************************************************************************)
EXTENDS Naturals, Sequences, FiniteSets

CONSTANTS
  Callers,
  Records,      \* ids, in the order of their names
  Absent,
  Statuses,     \* of those of KnowledgeStatus, the ones of the instance
  MaxCalls

VARIABLES
  records,      \* the stored records, or Absent
  calls,        \* what each caller's call is at, or Absent
  begun         \* how many calls have begun

knowledgeVars == <<records, calls, begun>>

Ids == {Records[i] : i \in DOMAIN Records}
Approvable == {"draft", "proposed", "pending-review"}

KnowledgeInit ==
  /\ records = [i \in Ids |-> Absent]
  /\ calls = [c \in Callers |-> Absent]
  /\ begun = 0

At(c, step) == calls[c] # Absent /\ calls[c].at = step
Approved(rs) == {i \in Ids : rs[i] # Absent /\ rs[i].status = "approved"}

\* The calls under way learn which records are approved by now (history).
Noted(rs, cs) ==
  [c \in Callers |-> IF cs[c] = Absent THEN Absent
                     ELSE [cs[c] EXCEPT !.approvedOnce = @ \cup Approved(rs),
                                        !.approvedThroughout = @ \cap Approved(rs)]]

Begin(c, kind, id, to) ==
  /\ calls[c] = Absent /\ begun < MaxCalls
  /\ begun' = begun + 1
  /\ calls' = [calls EXCEPT ![c] =
       [at |-> kind, id |-> id, to |-> to, next |-> 1, draft |-> Absent, listed |-> <<>>,
        approvedOnce |-> Approved(records), approvedThroughout |-> Approved(records)]]
  /\ UNCHANGED records

BeginCreate(c) ==
  \E i \in Ids, s \in Statuses : records[i] = Absent /\ Begin(c, "create", i, s)
BeginTransition(c) == \E i \in Ids, s \in Statuses : Begin(c, "read", i, s)
BeginRetrieve(c) == Begin(c, "list", Records[1], "approved")

\* createKnowledgeRecord, in any status, under an id that is new.
Create(c) ==
  LET to == calls[c].to
      written == [records EXCEPT ![calls[c].id] =
                   [status |-> to, version |-> 1, history |-> <<[from |-> Absent, to |-> to]>>]]
  IN /\ At(c, "create") /\ records[calls[c].id] = Absent
     /\ records' = written
     /\ calls' = [Noted(written, calls) EXCEPT ![c] = Absent]
     /\ UNCHANGED begun

MayMove(from, to) == to # "approved" \/ from \in Approvable

\* transitionKnowledge, up to the write: an unknown record and a forbidden approval throw.
Read(c) ==
  LET old == records[calls[c].id] to == calls[c].to IN
  /\ At(c, "read")
  /\ calls' = [calls EXCEPT ![c] =
       IF old = Absent \/ ~MayMove(old.status, to) THEN Absent
       ELSE [@ EXCEPT !.at = "write", !.draft =
              [status |-> to, version |-> old.version + 1,
               history |-> Append(old.history, [from |-> old.status, to |-> to])]]]
  /\ UNCHANGED <<records, begun>>

\* A slip that a run must notice: the entry is added to the history of by then.
Write_Merged(c) ==
  LET draft == calls[c].draft
      written == [records EXCEPT ![calls[c].id] = [draft EXCEPT
                   !.history = Append(records[calls[c].id].history, draft.history[Len(draft.history)])]]
  IN /\ At(c, "write")
     /\ records' = written
     /\ calls' = [Noted(written, calls) EXCEPT ![c] = Absent]
     /\ UNCHANGED begun

Write(c) ==
  LET written == [records EXCEPT ![calls[c].id] = calls[c].draft]
  IN /\ At(c, "write")
     /\ records' = written
     /\ calls' = [Noted(written, calls) EXCEPT ![c] = Absent]
     /\ UNCHANGED begun

\* listKnowledge, one record at a time.
List(c) ==
  LET i == Records[calls[c].next] IN
  /\ At(c, "list")
  /\ calls' = [calls EXCEPT ![c].next = @ + 1,
       ![c].at = IF calls[c].next = Len(Records) THEN "answer" ELSE @,
       ![c].listed = IF records[i] = Absent THEN @ ELSE Append(@, [id |-> i, record |-> records[i]])]
  /\ UNCHANGED <<records, begun>>

Authoritative(record) == record.status = "approved"

\* retrieveAuthoritative: the first approved match, or an abstention.
Retrieved(listed) ==
  LET found == {n \in DOMAIN listed : Authoritative(listed[n].record)} IN
  IF found = {} THEN Absent ELSE listed[CHOOSE n \in found : \A m \in found : n <= m].id

Answer(c) ==
  /\ At(c, "answer")
  /\ calls' = [calls EXCEPT ![c] = Absent]
  /\ UNCHANGED <<records, begun>>

KnowledgeNext ==
  \E c \in Callers :
    \/ BeginCreate(c) \/ BeginTransition(c) \/ BeginRetrieve(c)
    \/ Create(c) \/ Read(c) \/ Write(c) \/ List(c) \/ Answer(c)

KnowledgeSpec == KnowledgeInit /\ [][KnowledgeNext]_knowledgeVars

---------------------------------------------------------------------------
\* However transitions overlap (the later write then drops the earlier one), a stored
\* record tells one possible course of its status: each entry starts where the one before
\* ended, the last one is its status, the version counts them, and nothing was approved
\* from a status that must not be.
HistoryIsACourse ==
  \A i \in Ids : records[i] # Absent =>
    LET h == records[i].history IN
    /\ records[i].version = Len(h) /\ records[i].status = h[Len(h)].to
    /\ \A e \in 2..Len(h) :
         h[e].from = h[e - 1].to /\ (h[e].to = "approved" => h[e].from \in Approvable)

\* An authoritative answer is a record that was approved at some time during the call,
\* and it is only withheld if no record stayed approved all along.
AuthorityIsApproved ==
  \A c \in Callers : At(c, "answer") =>
    IF Retrieved(calls[c].listed) = Absent THEN calls[c].approvedThroughout = {}
    ELSE Retrieved(calls[c].listed) \in calls[c].approvedOnce
=============================================================================
