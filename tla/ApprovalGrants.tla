-------------------------- MODULE ApprovalGrants --------------------------
(***************************************************************************)
(* The approval grants of src/product/approval/session.ts.                 *)
(*                                                                         *)
(* A grant is a token bound to an action, a plan hash, some resources and  *)
(* an expiry time.  All grants of a project live in one JSON array,        *)
(* .agentdoctor/approvals/grants.json; issueApprovalGrant and              *)
(* consumeApprovalGrant read the whole array, await, and write a whole     *)
(* array back, and nothing orders two calls that overlap: the MCP server   *)
(* answers requests concurrently and the CLI is another process.  A call   *)
(* is three steps here: Begin (the synchronous checks of the arguments),   *)
(* a load step (readFile has resolved, and everything up to the next       *)
(* await), and the save (the rename of atomicWriteTextFile).               *)
(***************************************************************************)
EXTENDS GrantLedger

CONSTANTS
  Callers,        \* concurrent callers of the two functions
  Ttls,
  Orders,         \* what issuers ask for
  Requests,       \* what consumers ask for
  InitialFile,    \* grants.json at the start, e.g. copied from another root
  MaxGrants,      \* grants.slice(-200)
  MaxTime,        \* bound on the clock
  MaxCalls,       \* bound on the calls begun
  None,
  Serialized,     \* TRUE: a call begins only when no other is in flight
  RenameReplaces, \* FALSE: replaceFile may have to remove the target first
  Faults          \* TRUE: reads and writes may fail, processes may crash

Order == [action: Actions, resources: SUBSET Paths, plan: Plans \cup {NoPlan}, ttl: Ttls]

TokensOf(grants) == {grants[i].token : i \in DOMAIN grants}

DistinctTokens(grants) ==
  \A i, j \in DOMAIN grants : grants[i].token = grants[j].token => i = j

ASSUME BoundsAssumption ==
  /\ MaxGrants \in Nat \ {0}
  /\ MaxTime \in Nat
  /\ MaxCalls \in Nat
  /\ Ttls \subseteq Nat
ASSUME SwitchAssumption ==
  Serialized \in BOOLEAN /\ RenameReplaces \in BOOLEAN /\ Faults \in BOOLEAN
ASSUME InputAssumption ==
  /\ Orders \subseteq Order
  /\ Requests \subseteq Request
  /\ None \notin Grant
  /\ None \notin Claim
\* A store only ever holds what an issuer wrote; at the start, of other roots.
ASSUME InitialFileAssumption ==
  /\ InitialFile \in Seq(Grant)
  /\ Len(InitialFile) <= MaxGrants
  /\ DistinctTokens(InitialFile)
  /\ \A i \in DOMAIN InitialFile : InitialFile[i].root # Root

VARIABLES
  file,      \* the array in grants.json (a missing file loads as the empty array)
  now,       \* Date.now()
  pc,        \* where each caller's call stands
  order,     \* the grant a caller is issuing, or None
  claim,     \* the request a caller presents, with the time it was checked, or None
  buf,       \* the array a caller is about to write
  minted,    \* tokens drawn so far
  calls      \* calls begun

\* granted, accepted and uses, the variables of GrantLedger, are history here.

vars == <<file, now, pc, order, claim, buf, minted, granted, accepted, uses, calls>>

---------------------------------------------------------------------------
Bare(path) == path \in {<<"*">>, <<"**">>}

LastOf_First(grants, n) == IF Len(grants) <= n THEN grants ELSE SubSeq(grants, 1, n)

\* grants.slice(-200)
LastOf(grants, n) ==
  IF Len(grants) <= n THEN grants
  ELSE [i \in 1..n |-> grants[Len(grants) - n + i]]

\* grants.findIndex(g => g.token === token)
IsFirst(grants, i, token) ==
  /\ i \in DOMAIN grants
  /\ grants[i].token = token
  /\ \A j \in 1..(i - 1) : grants[j].token # token

\* Slips that a run must notice: one of the checks below is missing.
Admits_Spent(grant, r) ==
  /\ ~(grant.expires < now) /\ grant.root = Root
  /\ grant.action = r.action /\ grant.plan = r.plan
Admits_Expired(grant, r) ==
  /\ ~grant.consumed /\ grant.root = Root
  /\ grant.action = r.action /\ grant.plan = r.plan
Admits_AnyPlan(grant, r) ==
  /\ ~grant.consumed /\ ~(grant.expires < now) /\ grant.root = Root
  /\ grant.action = r.action

\* The checks of consumeApprovalGrant once the grant is found.
Admits(grant, r) ==
  /\ ~grant.consumed
  /\ ~(grant.expires < now)
  /\ grant.root = Root
  /\ grant.action = r.action
  /\ grant.plan = r.plan
  /\ \A path \in Normalized(r.resources) :
       \E g \in grant.resources : Covers(g, path)

\* The argument checks both functions make before they touch the file.
ValidOrder(o) ==
  /\ Normalized(o.resources) # {}
  /\ \A path \in Normalized(o.resources) : ~Bare(path)
  /\ o.plan # NoPlan

ValidRequest(r) ==
  /\ r.token # NoToken
  /\ Normalized(r.resources) # {}
  /\ r.plan # NoPlan

\* A slip that a run must notice: the grant lacks its consumed flag.
NewGrant_NoFlag(o, token) ==
  [token |-> token, root |-> Root, action |-> o.action,
   resources |-> Normalized(o.resources), plan |-> o.plan, expires |-> now + o.ttl]

NewGrant(o, token) ==
  [token |-> token, root |-> Root, action |-> o.action,
   resources |-> Normalized(o.resources), plan |-> o.plan,
   expires |-> now + o.ttl, consumed |-> FALSE]

\* loadGrants: whatever goes wrong, the result is the empty array.
Loadable == {file} \cup (IF Faults THEN {<<>>} ELSE {})

MayBegin(c) ==
  /\ pc[c] = "idle"
  /\ calls < MaxCalls
  /\ Serialized => \A d \in Callers : pc[d] = "idle"

---------------------------------------------------------------------------
Init ==
  /\ file = InitialFile
  /\ now = 0
  /\ pc = [c \in Callers |-> "idle"]
  /\ order = [c \in Callers |-> None]
  /\ claim = [c \in Callers |-> None]
  /\ buf = [c \in Callers |-> <<>>]
  /\ minted = TokensOf(InitialFile)
  /\ granted = {}
  /\ accepted = {}
  /\ uses = [t \in Tokens |-> 0]
  /\ calls = 0

\* issueApprovalGrant up to its first await; a rejected order changes nothing.
BeginIssue(c, o) ==
  /\ MayBegin(c)
  /\ ValidOrder(o)
  /\ \E t \in Tokens \ minted :
       /\ order' = [order EXCEPT ![c] = NewGrant(o, t)]
       /\ minted' = minted \cup {t}
  /\ pc' = [pc EXCEPT ![c] = "issue"]
  /\ calls' = calls + 1
  /\ UNCHANGED <<file, now, claim, buf, granted, accepted, uses>>

\* loadGrants, push, slice.
LoadIssue(c) ==
  /\ pc[c] = "issue"
  /\ \E grants \in Loadable :
       buf' = [buf EXCEPT ![c] = LastOf(Append(grants, order[c]), MaxGrants)]
  /\ pc' = [pc EXCEPT ![c] = "push"]
  /\ UNCHANGED <<file, now, order, claim, minted, granted, accepted, uses, calls>>

\* consumeApprovalGrant up to its first await; a rejected request changes nothing.
BeginConsume(c, r) ==
  /\ MayBegin(c)
  /\ ValidRequest(r)
  /\ claim' = [claim EXCEPT ![c] = [req |-> r, at |-> now, reuse |-> uses[r.token] > 0]]
  /\ pc' = [pc EXCEPT ![c] = "consume"]
  /\ calls' = calls + 1
  /\ UNCHANGED <<file, now, order, buf, minted, granted, accepted, uses>>

\* loadGrants found no grant that admits the request.
Refuse(c) ==
  /\ pc[c] = "consume"
  /\ \E grants \in Loadable :
       ~\E i \in DOMAIN grants :
          IsFirst(grants, i, claim[c].req.token) /\ Admits(grants[i], claim[c].req)
  /\ pc' = [pc EXCEPT ![c] = "idle"]
  /\ claim' = [claim EXCEPT ![c] = None]
  /\ UNCHANGED <<file, now, order, buf, minted, granted, accepted, uses, calls>>

\* loadGrants found one; it is marked consumed in the loaded array.
Admit(c) ==
  /\ pc[c] = "consume"
  /\ claim[c].req.consume
  /\ \E grants \in Loadable : \E i \in DOMAIN grants :
       /\ IsFirst(grants, i, claim[c].req.token)
       /\ Admits(grants[i], claim[c].req)
       /\ buf' = [buf EXCEPT ![c] = [grants EXCEPT ![i].consumed = TRUE]]
  /\ claim' = [claim EXCEPT ![c].at = now]
  /\ pc' = [pc EXCEPT ![c] = "spend"]
  /\ UNCHANGED <<file, now, order, minted, granted, accepted, uses, calls>>

\* consume: false accepts without marking the grant.
Peek(c) ==
  /\ pc[c] = "consume"
  /\ ~claim[c].req.consume
  /\ \E grants \in Loadable : \E i \in DOMAIN grants :
       /\ IsFirst(grants, i, claim[c].req.token)
       /\ Admits(grants[i], claim[c].req)
  /\ claim' = [claim EXCEPT ![c].at = now]
  /\ accepted' = accepted \cup {claim'[c]}
  /\ pc' = [pc EXCEPT ![c] = "admitted"]
  /\ UNCHANGED <<file, now, order, buf, minted, granted, uses, calls>>

\* The file now holds the caller's array: the call returns what it promised.
Saved(c) ==
  /\ file' = buf[c]
  /\ buf' = [buf EXCEPT ![c] = <<>>]
  /\ \/ /\ order[c] # None
        /\ granted' = granted \cup {order[c]}
        /\ order' = [order EXCEPT ![c] = None]
        /\ pc' = [pc EXCEPT ![c] = "idle"]
        /\ UNCHANGED <<claim, accepted, uses>>
     \/ /\ order[c] = None
        /\ accepted' = accepted \cup {claim[c]}
        /\ uses' = [uses EXCEPT ![claim[c].req.token] = @ + 1]
        /\ pc' = [pc EXCEPT ![c] = "admitted"]
        /\ UNCHANGED <<order, claim, granted>>
  /\ UNCHANGED <<now, minted, calls>>

\* atomicWriteTextFile where rename replaces the target.
Save(c) ==
  /\ pc[c] \in {"push", "spend"}
  /\ Saved(c)

\* replaceFile after rename failed: rm the target, ...
Unlink(c) ==
  /\ ~RenameReplaces
  /\ pc[c] \in {"push", "spend"}
  /\ file' = <<>>
  /\ pc' = [pc EXCEPT ![c] = "unlinked"]
  /\ UNCHANGED <<now, order, claim, buf, minted, granted, accepted, uses, calls>>

\* ... then rename again.
Rename(c) ==
  /\ pc[c] = "unlinked"
  /\ Saved(c)

\* A write throws, or the process dies: the call ends without its promise.
Abort(c) ==
  /\ Faults
  /\ pc[c] # "idle"
  /\ pc' = [pc EXCEPT ![c] = "idle"]
  /\ order' = [order EXCEPT ![c] = None]
  /\ claim' = [claim EXCEPT ![c] = None]
  /\ buf' = [buf EXCEPT ![c] = <<>>]
  /\ UNCHANGED <<file, now, minted, granted, accepted, uses, calls>>

\* The caller is done with what the grant admitted.
Return(c) ==
  /\ pc[c] = "admitted"
  /\ pc' = [pc EXCEPT ![c] = "idle"]
  /\ claim' = [claim EXCEPT ![c] = None]
  /\ UNCHANGED <<file, now, order, buf, minted, granted, accepted, uses, calls>>

Tick ==
  /\ now < MaxTime
  /\ now' = now + 1
  /\ UNCHANGED <<file, pc, order, claim, buf, minted, granted, accepted, uses, calls>>

StoreStep(c) ==
  \/ \E o \in Orders : BeginIssue(c, o)
  \/ LoadIssue(c)
  \/ \E r \in Requests : BeginConsume(c, r)
  \/ Refuse(c)
  \/ Admit(c)
  \/ Peek(c)
  \/ Save(c)
  \/ Unlink(c)
  \/ Rename(c)
  \/ Abort(c)

Next ==
  \/ \E c \in Callers : StoreStep(c) \/ Return(c)
  \/ Tick

Spec == Init /\ [][Next]_vars

---------------------------------------------------------------------------
TypeOK ==
  /\ file \in Seq(Grant)
  /\ now \in Nat
  /\ pc \in [Callers -> {"idle", "issue", "push", "consume", "spend", "unlinked", "admitted"}]
  /\ order \in [Callers -> Grant \cup {None}]
  /\ claim \in [Callers -> Claim \cup {None}]
  /\ buf \in [Callers -> Seq(Grant)]
  /\ minted \subseteq Tokens
  /\ granted \subseteq Grant
  /\ accepted \subseteq Claim
  /\ uses \in [Tokens -> Nat]
  /\ calls \in Nat

\* Whatever calls overlap, fail or crash, a request is only ever accepted
\* against a grant this store really issued for that action, plan and path,
\* and that had not expired when it was checked (consumeApprovalGrant).
AcceptedIsGranted ==
  \A cl \in accepted : \E grant \in granted : Backs(grant, cl)

\* A token is accepted at most once (the consumed flag of consumeApprovalGrant).
SingleUse == \A t \in Tokens : uses[t] <= 1

\* A consume that begins after another consume of the token was accepted is
\* refused: "rejects consumed reuse" of approval-session-security.test.ts.
ReuseRejected == \A c \in Callers : pc[c] = "admitted" => ~claim[c].reuse

Kept(grant) == \E j \in DOMAIN file' : file'[j].token = grant.token

\* grants.slice(-200): a save drops no grant but the oldest of a full file, unless
\* loadGrants could not read the file (or it is being replaced), when all are
\* gone; and an issue that saved has put its own grant there.
Retained ==
  [][/\ \/ \A i \in DOMAIN file : i > 1 \/ Len(file) < MaxGrants => Kept(file[i])
        \/ \A i \in DOMAIN file : ~Kept(file[i])
     /\ \A c \in Callers : Save(c) /\ pc[c] = "push" => Kept(order[c])]_vars

---------------------------------------------------------------------------
(* The instance of MCGrantsReuse.cfg and of MCGrantsSerial.cfg.             *)

SrcDir == <<"src">>
FileA == <<"src", "a">>
FileB == <<"b">>

MCTokens == {"t1", "t2", "t3"}
MCPaths == {<<>>, <<"*">>, SrcDir, FileA, FileB}
MCActions == {"file_edit", "file_create"}
MCPlans == {"planA", "planB"}

MCOrders ==
  {[action |-> "file_edit", resources |-> {SrcDir}, plan |-> "planA", ttl |-> 0],
   [action |-> "file_edit", resources |-> {FileB}, plan |-> "planB", ttl |-> 1],
   [action |-> "file_edit", resources |-> {<<"*">>}, plan |-> "planA", ttl |-> 1]}

RequestFor(t, act, path, plan) ==
  [token |-> t, action |-> act, resources |-> {path}, plan |-> plan, consume |-> TRUE]

MCRequests ==
  {RequestFor(t, "file_edit", FileA, "planA") : t \in {"t1", "t2"}}
  \cup {RequestFor("t2", "file_edit", FileB, "planB"),
        RequestFor("t1", "file_create", FileA, "planA"),
        RequestFor("t1", "file_edit", FileB, "planA"),
        RequestFor("t1", "file_edit", <<>>, "planA")}
  \cup {[RequestFor("t1", "file_edit", FileA, "planA") EXCEPT !.consume = FALSE]}
  \cup {RequestFor("t3", "file_edit", FileA, "planA")}

\* A grants.json copied from another checkout.
MCForeignFile ==
  <<[token |-> "t3", root |-> "elsewhere", action |-> "file_edit", resources |-> {FileA},
     plan |-> "planA", expires |-> 5, consumed |-> FALSE]>>
=============================================================================
