----------------------- MODULE ApprovalGrants_proofs -----------------------
(***************************************************************************)
(* Proofs about ApprovalGrants, for every set of callers, tokens, orders,  *)
(* requests and every bound: what is accepted was granted, however the     *)
(* calls overlap, fail or crash.  Then about McpFileTools, for every set   *)
(* of calls and files: what passes the gate of file_create and file_edit   *)
(* was approved, and nothing else is written.  That argument has one link  *)
(* more at each end: the claim a call presents names the plan of its job,  *)
(* and the plan of a grant is that of a call somebody approved.            *)
(***************************************************************************)
EXTENDS McpFileTools, SequenceTheorems, TLAPS

---------------------------------------------------------------------------
(* Sequences of grants.                                                    *)

LEMMA LastOfType ==
  ASSUME NEW S, NEW s \in Seq(S), NEW n \in Nat
  PROVE  LastOf(s, n) \in Seq(S)
<1>1. CASE Len(s) <= n
  BY <1>1 DEF LastOf
<1>2. CASE ~(Len(s) <= n)
  <2>1. LastOf(s, n) = [i \in 1..n |-> s[Len(s) - n + i]]
    BY <1>2 DEF LastOf
  <2>2. \A i \in 1..n : s[Len(s) - n + i] \in S
    BY <1>2
  <2> QED
    BY <2>1, <2>2
<1> QED
  BY <1>1, <1>2

\* slice keeps only entries of the array, and distinct ones.
LEMMA LastOfEntries ==
  ASSUME NEW S, NEW s \in Seq(S), NEW n \in Nat
  PROVE  /\ Len(LastOf(s, n)) <= n
         /\ \A i \in DOMAIN LastOf(s, n) :
              \E j \in DOMAIN s : LastOf(s, n)[i] = s[j]
         /\ \E k \in Int : \A i \in DOMAIN LastOf(s, n) :
              i + k \in DOMAIN s /\ LastOf(s, n)[i] = s[i + k]
<1>1. CASE Len(s) <= n
  <2>1. LastOf(s, n) = s
    BY <1>1 DEF LastOf
  <2>2. \A i \in DOMAIN LastOf(s, n) : i + 0 \in DOMAIN s /\ LastOf(s, n)[i] = s[i + 0]
    BY <2>1
  <2>3. \E k \in Int : \A i \in DOMAIN LastOf(s, n) :
          i + k \in DOMAIN s /\ LastOf(s, n)[i] = s[i + k]
    <3>1. 0 \in Int
      OBVIOUS
    <3> QED
      BY <2>2, <3>1, Zenon
  <2> QED
    BY <1>1, <2>1, <2>3
<1>2. CASE ~(Len(s) <= n)
  <2>1. LastOf(s, n) = [i \in 1..n |-> s[Len(s) - n + i]]
    BY <1>2 DEF LastOf
  <2>2. Len(LastOf(s, n)) = n /\ DOMAIN LastOf(s, n) = 1..n
    BY <2>1, LastOfType
  <2>3. \A i \in 1..n : i + (Len(s) - n) \in 1..Len(s)
                       /\ LastOf(s, n)[i] = s[i + (Len(s) - n)]
    BY <1>2, <2>1, <2>2
  <2>4. Len(s) - n \in Int
    OBVIOUS
  <2>5. \A i \in DOMAIN LastOf(s, n) :
          i + (Len(s) - n) \in DOMAIN s /\ LastOf(s, n)[i] = s[i + (Len(s) - n)]
    BY <2>2, <2>3
  <2>6. \E k \in Int : \A i \in DOMAIN LastOf(s, n) :
          i + k \in DOMAIN s /\ LastOf(s, n)[i] = s[i + k]
    BY <2>4, <2>5, Zenon
  <2> QED
    BY <2>2, <2>5, <2>6
<1> QED
  BY <1>1, <1>2

---------------------------------------------------------------------------
(* The steps of the store for any orders and requests: a module built on   *)
(* it has inputs of its own.                                               *)

AnyStep(c) ==
  \/ \E o \in Order : BeginIssue(c, o)
  \/ \E r \in Request : BeginConsume(c, r)
  \/ LoadIssue(c) \/ Refuse(c) \/ Admit(c) \/ Peek(c)
  \/ Save(c) \/ Unlink(c) \/ Rename(c) \/ Abort(c) \/ Return(c)

AnyNext == (\E c \in Callers : AnyStep(c)) \/ Tick

LEMMA NextIsAny == [Next]_vars => [AnyNext]_vars
BY InputAssumption DEF Next, StoreStep, AnyNext, AnyStep

---------------------------------------------------------------------------
(* Type correctness.                                                       *)

LEMMA GrantTyping ==
  ASSUME TypeOK, NEW o \in Order, NEW t \in Tokens, ValidOrder(o)
  PROVE  /\ NewGrant(o, t) \in Grant
         /\ ~NewGrant(o, t).consumed
         /\ NewGrant(o, t).root = Root
         /\ NewGrant(o, t).token = t
<1>1. /\ o.action \in Actions
      /\ o.resources \in SUBSET Paths
      /\ o.plan \in Plans
      /\ o.ttl \in Nat
  BY InputAssumption, BoundsAssumption DEF Order, ValidOrder
<1>2. o.resources \ {<<>>} \in SUBSET Paths
  BY <1>1
<1>3. now + o.ttl \in Nat
  BY <1>1 DEF TypeOK
<1> QED
  BY <1>1, <1>2, <1>3, LedgerAssumption DEF NewGrant, Grant, Normalized

\* TypeOK needs to know, where a call stands, whether it issues or consumes.
PcOK ==
  \A c \in Callers :
    /\ pc[c] \in {"issue", "push"} => order[c] # None
    /\ pc[c] \in {"consume", "spend", "admitted"} => order[c] = None /\ claim[c] # None
    /\ pc[c] = "unlinked" => order[c] # None \/ claim[c] # None
    /\ pc[c] = "idle" => order[c] = None
    /\ pc[c] \notin {"push", "spend", "unlinked"} => buf[c] = <<>>
    /\ order[c] # None => ~order[c].consumed /\ order[c].root = Root

Typed == TypeOK /\ PcOK

LEMMA TypedInit == Init => Typed
<1> SUFFICES ASSUME Init
             PROVE  Typed
  OBVIOUS
<1>1. TokensOf(InitialFile) \subseteq Tokens
  <2>1. \A i \in DOMAIN InitialFile : InitialFile[i] \in Grant
    BY InitialFileAssumption
  <2> QED
    BY <2>1 DEF TokensOf, Grant
<1>2. TypeOK
  BY <1>1, InitialFileAssumption DEF Init, TypeOK
<1>3. PcOK
  BY DEF Init, PcOK
<1> QED
  BY <1>2, <1>3 DEF Typed

LEMMA TypedAny == Typed /\ [AnyNext]_vars => Typed'
<1> SUFFICES ASSUME Typed, [AnyNext]_vars
             PROVE  Typed'
  OBVIOUS
<1> USE DEF Typed, TypeOK, PcOK
<1>1. ASSUME NEW c \in Callers, NEW o \in Order, BeginIssue(c, o)
      PROVE  Typed'
  <2>1. PICK t \in Tokens : order' = [order EXCEPT ![c] = NewGrant(o, t)] /\ minted' = minted \cup {t}
    BY <1>1, Zenon DEF BeginIssue
  <2>2. NewGrant(o, t) \in Grant /\ ~NewGrant(o, t).consumed /\ NewGrant(o, t).root = Root
    BY <1>1, GrantTyping, InputAssumption DEF BeginIssue
  <2>3. TypeOK'
    BY <1>1, <2>1, <2>2 DEF BeginIssue, MayBegin
  <2>4. PcOK'
    BY <1>1, <2>1, <2>2, InputAssumption DEF BeginIssue, MayBegin
  <2> QED
    BY <2>3, <2>4
<1>2. ASSUME NEW c \in Callers, LoadIssue(c)
      PROVE  Typed'
  <2>1. PICK grants \in Loadable :
          buf' = [buf EXCEPT ![c] = LastOf(Append(grants, order[c]), MaxGrants)]
    BY <1>2 DEF LoadIssue
  <2>2. /\ grants \in Seq(Grant)
        /\ order[c] \in Grant
        /\ MaxGrants \in Nat
    <3>1. grants \in Seq(Grant)
      BY EmptySeq DEF Loadable
    <3>2. order[c] \in Grant
      BY <1>2 DEF LoadIssue
    <3> QED
      BY <3>1, <3>2, BoundsAssumption
  <2>3. LastOf(Append(grants, order[c]), MaxGrants) \in Seq(Grant)
    <3>1. Append(grants, order[c]) \in Seq(Grant)
      BY <2>2
    <3> QED
      BY <2>2, <3>1, LastOfType
  <2> QED
    BY <1>2, <2>1, <2>3 DEF LoadIssue
<1>3. ASSUME NEW c \in Callers, NEW r \in Request, BeginConsume(c, r)
      PROVE  Typed'
  <2>1. [req |-> r, at |-> now, reuse |-> uses[r.token] > 0] \in Claim
    BY <1>3, InputAssumption DEF Claim, Request, BeginConsume, ValidRequest
  <2> QED
    BY <1>3, <2>1, InputAssumption DEF BeginConsume, MayBegin
<1>4. ASSUME NEW c \in Callers, Refuse(c)
      PROVE  Typed'
  BY <1>4 DEF Refuse
<1>5. ASSUME NEW c \in Callers, Admit(c)
      PROVE  Typed'
  <2>0. PICK grants \in Loadable : \E i \in DOMAIN grants :
          buf' = [buf EXCEPT ![c] = [grants EXCEPT ![i].consumed = TRUE]]
    BY <1>5 DEF Admit
  <2>1. PICK i \in DOMAIN grants :
          buf' = [buf EXCEPT ![c] = [grants EXCEPT ![i].consumed = TRUE]]
    BY <2>0
  <2>2. grants \in Seq(Grant)
    BY DEF Loadable
  <2>3. [grants[i] EXCEPT !.consumed = TRUE] \in Grant
    <3>1. grants[i] \in Grant
      BY <2>2
    <3> QED
      BY <3>1 DEF Grant
  <2>4. [grants EXCEPT ![i].consumed = TRUE] \in Seq(Grant)
    BY <2>2, <2>3
  <2>5. claim[c] \in Claim
    BY <1>5 DEF Admit
  <2>6. [claim[c] EXCEPT !.at = now] \in Claim
    BY <2>5 DEF Claim
  <2> QED
    BY <1>5, <2>1, <2>4, <2>5, <2>6, InputAssumption DEF Admit
<1>6. ASSUME NEW c \in Callers, Peek(c)
      PROVE  Typed'
  <2>1. claim[c] \in Claim
    BY <1>6 DEF Peek
  <2>2. [claim[c] EXCEPT !.at = now] \in Claim
    BY <2>1 DEF Claim
  <2> QED
    BY <1>6, <2>1, <2>2, InputAssumption DEF Peek
<1>7. ASSUME NEW c \in Callers, Saved(c), pc[c] \in {"push", "spend", "unlinked"}
      PROVE  Typed'
  <2>1. CASE order[c] # None
    <3>1. order[c] \in Grant
      BY <2>1
    <3>0. /\ file' = buf[c] /\ buf' = [buf EXCEPT ![c] = <<>>]
          /\ granted' = granted \cup {order[c]}
          /\ order' = [order EXCEPT ![c] = None]
          /\ pc' = [pc EXCEPT ![c] = "idle"]
          /\ UNCHANGED <<claim, accepted, uses, now, minted, calls>>
      BY <1>7, <2>1 DEF Saved
    <3>2. TypeOK'
      BY <3>0, <3>1
    <3>3. PcOK'
      BY <1>7, <2>1, <3>1 DEF Saved
    <3> QED
      BY <3>2, <3>3
  <2>2. CASE order[c] = None
    <3>1. claim[c] \in Claim
      BY <1>7, <2>2
    <3>0. /\ file' = buf[c] /\ buf' = [buf EXCEPT ![c] = <<>>]
          /\ accepted' = accepted \cup {claim[c]}
          /\ uses' = [uses EXCEPT ![claim[c].req.token] = @ + 1]
          /\ pc' = [pc EXCEPT ![c] = "admitted"]
          /\ UNCHANGED <<order, claim, granted, now, minted, calls>>
      BY <1>7, <2>2 DEF Saved
    <3>4. uses' \in [Tokens -> Nat]
      <4> DEFINE token == claim[c].req.token
      <4>1. uses' = [t \in Tokens |-> IF t = token THEN uses[token] + 1 ELSE uses[t]]
        BY <3>0
      <4>2. \A t \in Tokens : uses[t] \in Nat
        OBVIOUS
      <4>3. \A t \in Tokens :
              (IF t = token THEN uses[token] + 1 ELSE uses[t]) \in Nat
        BY <4>2
      <4> QED
        BY <4>1, <4>3
    <3>2. TypeOK'
      BY <3>0, <3>1, <3>4
    <3>3. PcOK'
      BY <1>7, <2>2, <3>1 DEF Saved
    <3> QED
      BY <3>2, <3>3
  <2> QED
    BY <2>1, <2>2
<1>8. ASSUME NEW c \in Callers, Unlink(c)
      PROVE  Typed'
  BY <1>8 DEF Unlink
<1>9. ASSUME NEW c \in Callers, Abort(c)
      PROVE  Typed'
  BY <1>9 DEF Abort
<1>10. ASSUME NEW c \in Callers, Return(c)
       PROVE  Typed'
  BY <1>10 DEF Return
<1>11. CASE Tick
  BY <1>11 DEF Tick
<1>12. CASE UNCHANGED vars
  BY <1>12 DEF vars
<1> QED
  BY <1>1, <1>2, <1>3, <1>4, <1>5, <1>6, <1>7, <1>8, <1>9, <1>10, <1>11, <1>12
     DEF AnyNext, AnyStep, Save, Rename

LEMMA TypedNext == Typed /\ [Next]_vars => Typed'
BY TypedAny, NextIsAny

\* Every variable keeps the shape the code gives it (the ApprovalGrant records
\* of grants.json, the calls of issueApprovalGrant and consumeApprovalGrant).
THEOREM TypeCorrect == Spec => []TypeOK
<1>1. Typed => TypeOK
  BY DEF Typed
<1> QED
  BY <1>1, TypedInit, TypedNext, PTL DEF Spec

---------------------------------------------------------------------------
(* What is accepted was granted.  The invariant says it of the file and of *)
(* every array a call is about to write: but for the consumed flag, their  *)
(* entries for this root are grants that were returned, or the one the     *)
(* call itself is issuing.                                                 *)

Unspent(grant) == [grant EXCEPT !.consumed = FALSE]

FileIssued ==
  \A i \in DOMAIN file : file[i].root = Root => Unspent(file[i]) \in granted

BufIssued ==
  \A c \in Callers : \A i \in DOMAIN buf[c] :
    buf[c][i].root = Root => Unspent(buf[c][i]) \in granted \cup {order[c]}

SpendBacked ==
  \A c \in Callers : pc[c] \in {"spend", "unlinked"} /\ order[c] = None =>
    \E grant \in granted : Backs(grant, claim[c])

GrantInv == FileIssued /\ BufIssued /\ SpendBacked /\ AcceptedIsGranted

LEMMA UnspentType ==
  ASSUME NEW grant \in Grant
  PROVE  Unspent(grant) \in Grant
BY DEF Unspent, Grant

LEMMA AdmitsBacks ==
  ASSUME TypeOK, NEW grant \in Grant, NEW cl \in Claim,
         Admits(grant, cl.req), grant.token = cl.req.token
  PROVE  /\ grant.root = Root
         /\ Unspent(grant) \in Grant
         /\ Backs(Unspent(grant), [cl EXCEPT !.at = now])
<1> DEFINE new == [cl EXCEPT !.at = now]
<1>1. /\ grant.expires \in Nat /\ now \in Nat
      /\ now <= grant.expires
  BY DEF TypeOK, Admits, Grant
<1>2. new.req = cl.req /\ new.at = now
  BY DEF Claim
<1>3. /\ Unspent(grant) \in Grant
      /\ Unspent(grant).token = grant.token
      /\ Unspent(grant).root = grant.root
      /\ Unspent(grant).action = grant.action
      /\ Unspent(grant).plan = grant.plan
      /\ Unspent(grant).resources = grant.resources
      /\ Unspent(grant).expires = grant.expires
  BY DEF Unspent, Grant
<1> HIDE DEF new
<1>4. Backs(Unspent(grant), new)
  BY <1>1, <1>2, <1>3 DEF Admits, Backs
<1> QED
  BY <1>3, <1>4 DEF Admits, new

\* A grant that a loaded array admits was returned by issueApprovalGrant.
LEMMA LoadedIsGranted ==
  ASSUME Typed, FileIssued, NEW grants \in Loadable, NEW i \in DOMAIN grants,
         grants[i].root = Root
  PROVE  grants[i] \in Grant /\ Unspent(grants[i]) \in granted
<1>1. grants = file
  BY DEF Loadable
<1> QED
  BY <1>1 DEF FileIssued, Typed, TypeOK

LEMMA GrantInvInit == Init => GrantInv
BY InitialFileAssumption
   DEF Init, GrantInv, FileIssued, BufIssued, SpendBacked, AcceptedIsGranted

LEMMA GrantInvAny == Typed /\ GrantInv /\ [AnyNext]_vars => GrantInv'
<1> SUFFICES ASSUME Typed, GrantInv, [AnyNext]_vars
             PROVE  GrantInv'
  OBVIOUS
<1> USE DEF GrantInv
<1> USE DEF Typed, PcOK
<1>1. ASSUME NEW c \in Callers, NEW o \in Order, BeginIssue(c, o)
      PROVE  GrantInv'
  <2>1. /\ order' = [order EXCEPT ![c] = order'[c]]
        /\ pc' = [pc EXCEPT ![c] = "issue"]
        /\ UNCHANGED <<file, claim, buf, granted, accepted>>
        /\ buf[c] = <<>>
    BY <1>1 DEF BeginIssue, MayBegin, TypeOK
  <2>2. BufIssued'
    BY <2>1 DEF BufIssued, TypeOK
  <2>3. SpendBacked'
    BY <2>1 DEF SpendBacked, TypeOK
  <2> QED
    BY <2>1, <2>2, <2>3 DEF FileIssued, AcceptedIsGranted
<1>2. ASSUME NEW c \in Callers, LoadIssue(c)
      PROVE  GrantInv'
  <2>1. PICK grants \in Loadable :
          buf' = [buf EXCEPT ![c] = LastOf(Append(grants, order[c]), MaxGrants)]
    BY <1>2 DEF LoadIssue
  <2>2. /\ grants \in Seq(Grant)
        /\ order[c] \in Grant
        /\ order[c] = Unspent(order[c])
        /\ Append(grants, order[c]) \in Seq(Grant)
        /\ MaxGrants \in Nat
    <3>1. grants \in Seq(Grant)
      BY EmptySeq DEF Loadable, TypeOK
    <3>2. order[c] \in Grant /\ ~order[c].consumed
      BY <1>2 DEF LoadIssue, TypeOK
    <3>3. order[c] = Unspent(order[c])
      BY <3>2 DEF Unspent, Grant
    <3> QED
      BY <3>1, <3>2, <3>3, BoundsAssumption
  <2>3. \A i \in DOMAIN Append(grants, order[c]) :
          Append(grants, order[c])[i].root = Root =>
            Unspent(Append(grants, order[c])[i]) \in granted \cup {order[c]}
    <3>1. \A i \in DOMAIN grants : grants[i].root = Root => Unspent(grants[i]) \in granted
      BY LoadedIsGranted
    <3>2. ASSUME NEW i \in DOMAIN Append(grants, order[c]),
                 Append(grants, order[c])[i].root = Root
          PROVE  Unspent(Append(grants, order[c])[i]) \in granted \cup {order[c]}
      <4>1. i \in 1..(Len(grants) + 1)
        BY <2>2, <3>2, AppendProperties
      <4>2. CASE i = Len(grants) + 1
        BY <2>2, <4>2, AppendProperties
      <4>3. CASE i # Len(grants) + 1
        <5>1. i \in 1..Len(grants)
          BY <2>2, <4>1, <4>3
        <5>2. Append(grants, order[c])[i] = grants[i]
          BY <2>2, <5>1, AppendProperties
        <5>3. i \in DOMAIN grants
          BY <2>2, <5>1
        <5> QED
          BY <3>1, <3>2, <5>2, <5>3
      <4> QED
        BY <4>2, <4>3
    <3> QED
      BY <3>2
  <2>4. \A i \in DOMAIN LastOf(Append(grants, order[c]), MaxGrants) :
          LastOf(Append(grants, order[c]), MaxGrants)[i].root = Root =>
            Unspent(LastOf(Append(grants, order[c]), MaxGrants)[i]) \in granted \cup {order[c]}
    <3> DEFINE pushed == Append(grants, order[c])
    <3>1. \A i \in DOMAIN LastOf(pushed, MaxGrants) :
            \E j \in DOMAIN pushed : LastOf(pushed, MaxGrants)[i] = pushed[j]
      <4> HIDE DEF pushed
      <4>1. pushed \in Seq(Grant)
        BY <2>2 DEF pushed
      <4> QED
        BY <2>2, <4>1, LastOfEntries
    <3> QED
      BY <2>3, <3>1
  <2>5. /\ pc' = [pc EXCEPT ![c] = "push"]
        /\ UNCHANGED <<file, order, claim, granted, accepted>>
    BY <1>2 DEF LoadIssue
  <2>6. BufIssued'
    <3>1. \A d \in Callers : buf'[d] = IF d = c THEN LastOf(Append(grants, order[c]), MaxGrants)
                                               ELSE buf[d]
      BY <2>1 DEF TypeOK
    <3> QED
      BY <2>4, <2>5, <3>1 DEF BufIssued
  <2>7. SpendBacked'
    BY <2>5 DEF SpendBacked, TypeOK
  <2> QED
    BY <2>5, <2>6, <2>7 DEF FileIssued, AcceptedIsGranted
<1>3. ASSUME NEW c \in Callers, NEW r \in Request, BeginConsume(c, r)
      PROVE  GrantInv'
  <2>1. /\ claim' = [claim EXCEPT ![c] = claim'[c]]
        /\ pc' = [pc EXCEPT ![c] = "consume"]
        /\ UNCHANGED <<file, order, buf, granted, accepted>>
    BY <1>3 DEF BeginConsume, TypeOK
  <2>2. SpendBacked'
    BY <2>1 DEF SpendBacked, TypeOK
  <2> QED
    BY <2>1, <2>2 DEF FileIssued, BufIssued, AcceptedIsGranted
<1>4. ASSUME NEW c \in Callers, Refuse(c)
      PROVE  GrantInv'
  <2>1. /\ claim' = [claim EXCEPT ![c] = None]
        /\ pc' = [pc EXCEPT ![c] = "idle"]
        /\ UNCHANGED <<file, order, buf, granted, accepted>>
    BY <1>4 DEF Refuse
  <2>2. SpendBacked'
    BY <2>1 DEF SpendBacked, TypeOK
  <2> QED
    BY <2>1, <2>2 DEF FileIssued, BufIssued, AcceptedIsGranted
<1>5. ASSUME NEW c \in Callers, Admit(c)
      PROVE  GrantInv'
  <2>1. PICK grants \in Loadable : \E i \in DOMAIN grants :
          /\ IsFirst(grants, i, claim[c].req.token)
          /\ Admits(grants[i], claim[c].req)
          /\ buf' = [buf EXCEPT ![c] = [grants EXCEPT ![i].consumed = TRUE]]
    BY <1>5 DEF Admit
  <2>2. PICK i \in DOMAIN grants :
          /\ IsFirst(grants, i, claim[c].req.token)
          /\ Admits(grants[i], claim[c].req)
          /\ buf' = [buf EXCEPT ![c] = [grants EXCEPT ![i].consumed = TRUE]]
    BY <2>1
  <2>3. /\ claim' = [claim EXCEPT ![c].at = now]
        /\ pc' = [pc EXCEPT ![c] = "spend"]
        /\ UNCHANGED <<file, order, granted, accepted>>
        /\ claim[c] \in Claim
    BY <1>5 DEF Admit, TypeOK
  <2>4. grants[i].root = Root
    BY <2>2 DEF Admits
  <2>5. grants[i] \in Grant /\ Unspent(grants[i]) \in granted
    BY <2>4, LoadedIsGranted
  <2>6. Backs(Unspent(grants[i]), [claim[c] EXCEPT !.at = now])
    BY <2>2, <2>3, <2>5, AdmitsBacks DEF IsFirst
  <2>7. SpendBacked'
    <3>1. claim'[c] = [claim[c] EXCEPT !.at = now]
      BY <2>3 DEF TypeOK
    <3>2. \E grant \in granted : Backs(grant, claim'[c])
      BY <2>5, <2>6, <3>1
    <3>3. \A d \in Callers : d # c => pc'[d] = pc[d] /\ claim'[d] = claim[d]
      BY <2>3 DEF TypeOK
    <3> QED
      BY <2>3, <3>2, <3>3 DEF SpendBacked
  <2>8. BufIssued'
    <3> DEFINE spent == [grants EXCEPT ![i].consumed = TRUE]
    <3>1. grants \in Seq(Grant)
      BY EmptySeq DEF Loadable, TypeOK
    <3>2. \A j \in DOMAIN grants : grants[j].root = Root => Unspent(grants[j]) \in granted
      BY LoadedIsGranted
    <3>3. DOMAIN spent = DOMAIN grants
      OBVIOUS
    <3>4. \A j \in DOMAIN grants :
            spent[j].root = grants[j].root /\ Unspent(spent[j]) = Unspent(grants[j])
      <4>1. ASSUME NEW j \in DOMAIN grants
            PROVE  \/ spent[j] = grants[j]
                   \/ spent[j] = [grants[j] EXCEPT !.consumed = TRUE]
        BY <3>1
      <4>2. ASSUME NEW g \in Grant
            PROVE  /\ [g EXCEPT !.consumed = TRUE].root = g.root
                   /\ Unspent([g EXCEPT !.consumed = TRUE]) = Unspent(g)
        BY DEF Unspent, Grant
      <4>3. \A j \in DOMAIN grants : grants[j] \in Grant
        BY <3>1
      <4> QED
        BY <4>1, <4>2, <4>3
    <3>5. \A d \in Callers : buf'[d] = IF d = c THEN spent ELSE buf[d]
      BY <2>2 DEF TypeOK
    <3> HIDE DEF spent
    <3> QED
      BY <2>3, <3>2, <3>3, <3>4, <3>5 DEF BufIssued
  <2> QED
    BY <2>3, <2>7, <2>8 DEF FileIssued, AcceptedIsGranted
<1>6. ASSUME NEW c \in Callers, Peek(c)
      PROVE  GrantInv'
  <2>1. PICK grants \in Loadable : \E i \in DOMAIN grants :
          /\ IsFirst(grants, i, claim[c].req.token)
          /\ Admits(grants[i], claim[c].req)
    BY <1>6 DEF Peek
  <2>2. PICK i \in DOMAIN grants :
          /\ IsFirst(grants, i, claim[c].req.token)
          /\ Admits(grants[i], claim[c].req)
    BY <2>1
  <2>3. /\ claim' = [claim EXCEPT ![c].at = now]
        /\ accepted' = accepted \cup {claim'[c]}
        /\ pc' = [pc EXCEPT ![c] = "admitted"]
        /\ UNCHANGED <<file, order, buf, granted>>
        /\ claim[c] \in Claim
    BY <1>6 DEF Peek, TypeOK
  <2>4. grants[i].root = Root
    BY <2>2 DEF Admits
  <2>5. grants[i] \in Grant /\ Unspent(grants[i]) \in granted
    BY <2>4, LoadedIsGranted
  <2>6. Backs(Unspent(grants[i]), [claim[c] EXCEPT !.at = now])
    BY <2>2, <2>3, <2>5, AdmitsBacks DEF IsFirst
  <2>7. claim'[c] = [claim[c] EXCEPT !.at = now]
    BY <2>3 DEF TypeOK
  <2>8. AcceptedIsGranted'
    BY <2>3, <2>5, <2>6, <2>7 DEF AcceptedIsGranted
  <2>9. SpendBacked'
    BY <2>3 DEF SpendBacked, TypeOK
  <2> QED
    BY <2>3, <2>8, <2>9 DEF FileIssued, BufIssued
<1>7. ASSUME NEW c \in Callers, Saved(c), pc[c] \in {"push", "spend", "unlinked"}
      PROVE  GrantInv'
  <2>1. /\ file' = buf[c]
        /\ buf' = [buf EXCEPT ![c] = <<>>]
        /\ buf[c] \in Seq(Grant)
    BY <1>7 DEF Saved, TypeOK
  <2>2. CASE order[c] # None
    <3>1. /\ granted' = granted \cup {order[c]}
          /\ order' = [order EXCEPT ![c] = None]
          /\ pc' = [pc EXCEPT ![c] = "idle"]
          /\ UNCHANGED <<claim, accepted>>
      BY <1>7, <2>2 DEF Saved
    <3>2. FileIssued'
      BY <2>1, <3>1 DEF FileIssued, BufIssued
    <3>3. BufIssued'
      BY <2>1, <3>1 DEF BufIssued, TypeOK
    <3>4. SpendBacked'
      BY <3>1 DEF SpendBacked, TypeOK
    <3> QED
      BY <3>1, <3>2, <3>3, <3>4 DEF AcceptedIsGranted
  <2>3. CASE order[c] = None
    <3>1. /\ accepted' = accepted \cup {claim[c]}
          /\ pc' = [pc EXCEPT ![c] = "admitted"]
          /\ UNCHANGED <<order, claim, granted>>
      BY <1>7, <2>3 DEF Saved
    <3>2. \A i \in DOMAIN buf[c] : Unspent(buf[c][i]) \in Grant
      <4>1. \A i \in DOMAIN buf[c] : buf[c][i] \in Grant
        BY <2>1
      <4> QED
        BY <4>1, UnspentType
    <3>3. FileIssued'
      BY <2>1, <2>3, <3>1, <3>2, InputAssumption DEF FileIssued, BufIssued
    <3>4. BufIssued'
      BY <2>1, <3>1 DEF BufIssued, TypeOK
    <3>5. SpendBacked'
      BY <3>1 DEF SpendBacked, TypeOK
    <3>6. AcceptedIsGranted'
      BY <1>7, <2>3, <3>1 DEF SpendBacked, AcceptedIsGranted
    <3> QED
      BY <3>3, <3>4, <3>5, <3>6
  <2> QED
    BY <2>2, <2>3
<1>8. ASSUME NEW c \in Callers, Unlink(c)
      PROVE  GrantInv'
  <2>1. /\ file' = <<>>
        /\ pc' = [pc EXCEPT ![c] = "unlinked"]
        /\ UNCHANGED <<order, claim, buf, granted, accepted>>
        /\ pc[c] \in {"push", "spend"}
    BY <1>8 DEF Unlink
  <2>2. SpendBacked'
    BY <2>1 DEF SpendBacked, TypeOK
  <2> QED
    BY <2>1, <2>2 DEF FileIssued, BufIssued, AcceptedIsGranted
<1>9. ASSUME NEW c \in Callers, Abort(c)
      PROVE  GrantInv'
  <2>1. /\ pc' = [pc EXCEPT ![c] = "idle"]
        /\ order' = [order EXCEPT ![c] = None]
        /\ claim' = [claim EXCEPT ![c] = None]
        /\ buf' = [buf EXCEPT ![c] = <<>>]
        /\ UNCHANGED <<file, granted, accepted>>
    BY <1>9 DEF Abort
  <2>2. BufIssued'
    BY <2>1 DEF BufIssued, TypeOK
  <2>3. SpendBacked'
    BY <2>1 DEF SpendBacked, TypeOK
  <2> QED
    BY <2>1, <2>2, <2>3 DEF FileIssued, AcceptedIsGranted
<1>10. ASSUME NEW c \in Callers, Return(c)
       PROVE  GrantInv'
  <2>1. /\ pc' = [pc EXCEPT ![c] = "idle"]
        /\ claim' = [claim EXCEPT ![c] = None]
        /\ UNCHANGED <<file, order, buf, granted, accepted>>
    BY <1>10 DEF Return
  <2>2. SpendBacked'
    BY <2>1 DEF SpendBacked, TypeOK
  <2> QED
    BY <2>1, <2>2 DEF FileIssued, BufIssued, AcceptedIsGranted
<1>11. CASE Tick
  BY <1>11 DEF Tick, FileIssued, BufIssued, SpendBacked, AcceptedIsGranted
<1>12. CASE UNCHANGED vars
  BY <1>12 DEF vars, FileIssued, BufIssued, SpendBacked, AcceptedIsGranted
<1> QED
  BY <1>1, <1>2, <1>3, <1>4, <1>5, <1>6, <1>7, <1>8, <1>9, <1>10, <1>11, <1>12
     DEF AnyNext, AnyStep, Save, Rename

LEMMA GrantInvNext == Typed /\ GrantInv /\ [Next]_vars => GrantInv'
BY GrantInvAny, NextIsAny

\* However calls overlap, fail or crash, consumeApprovalGrant accepts a request
\* only against a grant that issueApprovalGrant returned for this root with the
\* same token, action and plan hash, covering every resource, not yet expired
\* when it was checked.
THEOREM AcceptedWasGranted == Spec => []AcceptedIsGranted
<1>1. Typed /\ GrantInv => AcceptedIsGranted
  BY DEF GrantInv
<1> QED
  BY <1>1, TypedInit, TypedNext, GrantInvInit, GrantInvNext, PTL DEF Spec

---------------------------------------------------------------------------
(* Calls that do not overlap.  A store then never lists a spent grant as   *)
(* unspent, so a token is spent once, and every step of the store is a     *)
(* step of the ledger.                                                     *)

Good(s) ==
  /\ Len(s) <= MaxGrants
  /\ DistinctTokens(s)
  /\ \A i \in DOMAIN s : s[i].token \in minted /\ (uses[s[i].token] > 0 => s[i].consumed)

\* The grant a call is issuing is new to the file and to the ledger.
Fresh(grant) ==
  /\ grant.token \in minted /\ uses[grant.token] = 0
  /\ \A i \in DOMAIN file : file[i].token # grant.token
  /\ \A g \in granted : g.token # grant.token

\* The array of a call that spends a token has it marked consumed.
Marks(s, token) ==
  /\ token \in minted /\ uses[token] = 0
  /\ \A i \in DOMAIN s : s[i].token = token => s[i].consumed

Pushes(s, grant) ==
  \E grants \in {file, <<>>} : s = LastOf(Append(grants, grant), MaxGrants)

SameTokens(s) ==
  DOMAIN s = DOMAIN file /\ \A i \in DOMAIN file : s[i].token = file[i].token

Serial(c) ==
  /\ Good(buf[c])
  /\ order[c] # None => Fresh(order[c])
  /\ pc[c] = "push" => Pushes(buf[c], order[c])
  /\ pc[c] = "spend" => SameTokens(buf[c])
  /\ pc[c] = "unlinked" => file = <<>>
  /\ pc[c] \in {"spend", "unlinked"} /\ order[c] = None => Marks(buf[c], claim[c].req.token)

Alone == \A c, d \in Callers : pc[c] # "idle" /\ pc[d] # "idle" => c = d

Counted ==
  /\ \A g \in granted : g.token \in minted
  /\ \A t \in Tokens : uses[t] <= 1 /\ (t \notin minted => uses[t] = 0)

SerialInv ==
  /\ Alone
  /\ \A c \in Callers : Serial(c)
  /\ Good(file)
  /\ Counted

Quiet(c) == pc[c] = "idle" /\ order[c] = None /\ buf[c] = <<>>

LEMMA EmptyGood == Good(<<>>) /\ Good(<<>>)'
BY EmptySeq, BoundsAssumption DEF Good, DistinctTokens

LEMMA QuietSerial ==
  ASSUME NEW c \in Callers
  PROVE  (Quiet(c) => Serial(c)) /\ (Quiet(c)' => Serial(c)')
BY EmptyGood, Zenon DEF Quiet, Serial

LEMMA OthersQuiet ==
  ASSUME Typed, Alone, NEW c \in Callers, pc[c] # "idle"
  PROVE  \A d \in Callers : d # c => Quiet(d)
BY DEF Alone, Typed, PcOK, Quiet

\* An action of c, while every other caller is idle.
LEMMA SerialStep ==
  ASSUME NEW c \in Callers, \A d \in Callers : d # c => Quiet(d)',
         Serial(c)', Good(file)', Counted'
  PROVE  SerialInv'
<1>1. Alone'
  BY DEF Alone, Quiet
<1>2. ASSUME NEW d \in Callers
      PROVE  Serial(d)'
  BY QuietSerial
<1> QED
  BY <1>1, <1>2 DEF SerialInv

LEMMA SerialInit == Init => SerialInv
<1> SUFFICES ASSUME Init
             PROVE  SerialInv
  OBVIOUS
<1>1. \A c \in Callers : Quiet(c)
  BY DEF Init, Quiet
<1>2. \A c \in Callers : Serial(c)
  BY <1>1, QuietSerial
<1>3. Good(file)
  <2>1. \A i \in DOMAIN InitialFile : InitialFile[i].token \in Tokens /\ InitialFile[i].token \in minted
    <3>1. \A i \in DOMAIN InitialFile : InitialFile[i] \in Grant
      BY InitialFileAssumption
    <3> QED
      BY <3>1 DEF Init, TokensOf, Grant
  <2> QED
    BY <2>1, InitialFileAssumption DEF Init, Good
<1>4. Counted
  BY DEF Init, Counted
<1> QED
  BY <1>1, <1>2, <1>3, <1>4 DEF SerialInv, Alone, Quiet

LEMMA PushedGood ==
  ASSUME Typed, Good(file), NEW grants \in {file, <<>>}, NEW grant \in Grant, Fresh(grant)
  PROVE  Good(LastOf(Append(grants, grant), MaxGrants))
<1> DEFINE all == Append(grants, grant)
           last == LastOf(all, MaxGrants)
<1>0. grants \in Seq(Grant)
  BY EmptySeq DEF Typed, TypeOK
<1>1. grants \in Seq(Grant) /\ all \in Seq(Grant)
  BY <1>0
<1>2. /\ DistinctTokens(grants)
      /\ \A i \in DOMAIN grants :
           /\ grants[i].token \in minted /\ (uses[grants[i].token] > 0 => grants[i].consumed)
           /\ grants[i].token # grant.token
  BY EmptyGood, EmptySeq DEF Good, Fresh
<1>3. \A i \in DOMAIN all :
        \/ i \in DOMAIN grants /\ all[i] = grants[i]
        \/ i = Len(grants) + 1 /\ all[i] = grant
  BY <1>1
<1>4. DistinctTokens(all)
  BY <1>2, <1>3 DEF DistinctTokens
<1>5. \A i \in DOMAIN all :
        all[i].token \in minted /\ (uses[all[i].token] > 0 => all[i].consumed)
  BY <1>2, <1>3 DEF Fresh
<1>6. /\ Len(last) <= MaxGrants
      /\ \A i \in DOMAIN last : \E j \in DOMAIN all : last[i] = all[j]
      /\ \E k \in Int : \A i \in DOMAIN last : i + k \in DOMAIN all /\ last[i] = all[i + k]
  BY <1>1, LastOfEntries, BoundsAssumption
<1>7. DOMAIN last \subseteq Int
  <2>1. last \in Seq(Grant)
    BY <1>1, LastOfType, BoundsAssumption
  <2> QED
    BY <2>1
<1> HIDE DEF all, last
<1>8. DistinctTokens(last)
  <2>1. PICK k \in Int : \A i \in DOMAIN last : i + k \in DOMAIN all /\ last[i] = all[i + k]
    BY <1>6
  <2>2. ASSUME NEW i \in DOMAIN last, NEW j \in DOMAIN last, last[i].token = last[j].token
        PROVE  i = j
    <3>1. i + k = j + k
      BY <1>4, <2>1, <2>2 DEF DistinctTokens
    <3> QED
      BY <1>7, <3>1
  <2> QED
    BY <2>2 DEF DistinctTokens
<1>9. Good(last)
  BY <1>5, <1>6, <1>8 DEF Good
<1> QED
  BY <1>9 DEF last, all

LEMMA MarkedGood ==
  ASSUME Typed, Good(file), NEW i \in DOMAIN file, ~file[i].consumed
  PROVE  LET s == [file EXCEPT ![i].consumed = TRUE] IN
         Good(s) /\ SameTokens(s) /\ Marks(s, file[i].token)
<1> DEFINE s == [file EXCEPT ![i].consumed = TRUE]
<1>1. file \in Seq(Grant) /\ uses \in [Tokens -> Nat]
  BY DEF Typed, TypeOK
<1>2. ASSUME NEW j \in DOMAIN file
      PROVE  /\ s[j].token = file[j].token
             /\ file[j].consumed => s[j].consumed
             /\ j = i => s[j].consumed
  <2>1. file[j] \in Grant
    BY <1>1
  <2>2. s[j] = IF j = i THEN [file[j] EXCEPT !.consumed = TRUE] ELSE file[j]
    BY <1>1
  <2> QED
    BY <2>1, <2>2 DEF Grant
<1>3. DOMAIN s = DOMAIN file
  OBVIOUS
<1>4. Len(s) = Len(file)
  BY <1>1
<1>5. file[i].token \in Tokens
  <2>1. file[i] \in Grant
    BY <1>1
  <2> QED
    BY <2>1 DEF Grant
<1>6. uses[file[i].token] = 0 /\ file[i].token \in minted
  BY <1>1, <1>5 DEF Good
<1> HIDE DEF s
<1>7. Good(s)
  BY <1>2, <1>3, <1>4 DEF Good, DistinctTokens
<1>8. SameTokens(s)
  BY <1>2, <1>3 DEF SameTokens
<1>9. Marks(s, file[i].token)
  BY <1>2, <1>3, <1>6 DEF Marks, Good, DistinctTokens
<1> QED
  BY <1>7, <1>8, <1>9 DEF s

\* What loadGrants admits is an unconsumed entry of the file, with the request's token.
LEMMA AdmittedEntry ==
  ASSUME Typed, NEW c \in Callers, Admit(c)
  PROVE  \E i \in DOMAIN file :
           /\ file[i].token = claim[c].req.token /\ ~file[i].consumed
           /\ buf' = [buf EXCEPT ![c] = [file EXCEPT ![i].consumed = TRUE]]
<1>1. PICK grants \in Loadable : \E i \in DOMAIN grants :
        /\ IsFirst(grants, i, claim[c].req.token)
        /\ Admits(grants[i], claim[c].req)
        /\ buf' = [buf EXCEPT ![c] = [grants EXCEPT ![i].consumed = TRUE]]
  BY DEF Admit
<1>2. grants = file
  BY <1>1, EmptySeq DEF Loadable
<1> QED
  BY <1>1, <1>2 DEF IsFirst, Admits

LEMMA SerialNext == Serialized /\ Typed /\ SerialInv /\ [Next]_vars => SerialInv'
<1> SUFFICES ASSUME Serialized, Typed, SerialInv, [Next]_vars
             PROVE  SerialInv'
  OBVIOUS
<1>0. /\ Alone /\ Good(file) /\ Counted /\ \A c \in Callers : Serial(c)
      /\ order \in [Callers -> Grant \cup {None}]
      /\ pc \in [Callers -> {"idle", "issue", "push", "consume", "spend", "unlinked", "admitted"}]
      /\ buf \in [Callers -> Seq(Grant)] /\ claim \in [Callers -> Claim \cup {None}]
      /\ uses \in [Tokens -> Nat] /\ minted \subseteq Tokens
  BY DEF SerialInv, Typed, TypeOK
<1>1. ASSUME NEW c \in Callers, NEW o \in Orders, BeginIssue(c, o)
      PROVE  SerialInv'
  <2>1. PICK t \in Tokens \ minted :
          order' = [order EXCEPT ![c] = NewGrant(o, t)] /\ minted' = minted \cup {t}
    BY <1>1 DEF BeginIssue
  <2>2. /\ \A d \in Callers : Quiet(d)
        /\ pc' = [pc EXCEPT ![c] = "issue"]
        /\ UNCHANGED <<file, buf, granted, uses>>
    BY <1>1 DEF BeginIssue, MayBegin, Typed, PcOK, Quiet
  <2>3. \A d \in Callers : d # c => Quiet(d)'
    BY <1>0, <2>1, <2>2 DEF Quiet
  <2>4. NewGrant(o, t).token = t
    BY DEF NewGrant
  <2>5. Fresh(order[c])'
    BY <1>0, <2>1, <2>2, <2>4 DEF Fresh, Good, Counted
  <2>6. Serial(c)'
    <3>1. buf'[c] = <<>> /\ pc'[c] = "issue"
      BY <1>0, <2>2 DEF Quiet
    <3> QED
      BY <2>5, <3>1, EmptyGood DEF Serial
  <2>7. Good(file)' /\ Counted'
    BY <1>0, <2>1, <2>2 DEF Good, Counted
  <2> QED
    BY <2>3, <2>6, <2>7, SerialStep
<1>2. ASSUME NEW c \in Callers, LoadIssue(c)
      PROVE  SerialInv'
  <2>1. PICK grants \in {file, <<>>} :
          buf' = [buf EXCEPT ![c] = LastOf(Append(grants, order[c]), MaxGrants)]
    BY <1>2 DEF LoadIssue, Loadable
  <2>2. /\ pc[c] = "issue" /\ pc' = [pc EXCEPT ![c] = "push"]
        /\ UNCHANGED <<file, order, claim, minted, granted, uses>>
    BY <1>2 DEF LoadIssue
  <2>3. \A d \in Callers : d # c => Quiet(d)'
    BY <1>0, <2>1, <2>2, OthersQuiet DEF Quiet
  <2>4. order[c] # None /\ order[c] \in Grant /\ Fresh(order[c])
    BY <1>0, <2>2 DEF Typed, PcOK, Serial
  <2>5. Good(LastOf(Append(grants, order[c]), MaxGrants))
    BY <1>0, <2>4, PushedGood
  <2>6. buf'[c] = LastOf(Append(grants, order[c]), MaxGrants) /\ pc'[c] = "push"
    BY <1>0, <2>1, <2>2
  <2>7. Serial(c)'
    <3>1. Good(buf[c])'
      BY <2>2, <2>5, <2>6 DEF Good
    <3>2. Fresh(order[c])'
      BY <2>2, <2>4 DEF Fresh
    <3>3. Pushes(buf[c], order[c])'
      BY <2>2, <2>6 DEF Pushes
    <3> QED
      BY <2>6, <3>1, <3>2, <3>3 DEF Serial
  <2>8. Good(file)' /\ Counted'
    BY <1>0, <2>2 DEF Good, Counted
  <2> QED
    BY <2>3, <2>7, <2>8, SerialStep
<1>3. ASSUME NEW c \in Callers, NEW r \in Requests, BeginConsume(c, r)
      PROVE  SerialInv'
  <2>1. /\ \A d \in Callers : Quiet(d)
        /\ pc' = [pc EXCEPT ![c] = "consume"]
        /\ UNCHANGED <<file, order, buf, minted, granted, uses>>
    BY <1>3 DEF BeginConsume, MayBegin, Typed, PcOK, Quiet
  <2>2. \A d \in Callers : d # c => Quiet(d)'
    BY <1>0, <2>1 DEF Quiet
  <2>3. Serial(c)'
    <3>1. buf'[c] = <<>> /\ pc'[c] = "consume" /\ order'[c] = None
      BY <1>0, <2>1 DEF Quiet
    <3> QED
      BY <3>1, EmptyGood DEF Serial
  <2>4. Good(file)' /\ Counted'
    BY <1>0, <2>1 DEF Good, Counted
  <2> QED
    BY <2>2, <2>3, <2>4, SerialStep
<1>4. ASSUME NEW c \in Callers, Admit(c)
      PROVE  SerialInv'
  <2>1. PICK i \in DOMAIN file :
          /\ file[i].token = claim[c].req.token /\ ~file[i].consumed
          /\ buf' = [buf EXCEPT ![c] = [file EXCEPT ![i].consumed = TRUE]]
    BY <1>4, AdmittedEntry
  <2>2. /\ pc[c] = "consume" /\ pc' = [pc EXCEPT ![c] = "spend"]
        /\ claim' = [claim EXCEPT ![c].at = now]
        /\ UNCHANGED <<file, order, minted, granted, uses>>
    BY <1>4 DEF Admit
  <2>3. \A d \in Callers : d # c => Quiet(d)'
    BY <1>0, <2>1, <2>2, OthersQuiet DEF Quiet
  <2> DEFINE marked == [file EXCEPT ![i].consumed = TRUE]
  <2>4. Good(marked) /\ SameTokens(marked) /\ Marks(marked, claim[c].req.token)
    BY <1>0, <2>1, MarkedGood
  <2>5. buf'[c] = marked /\ pc'[c] = "spend" /\ order'[c] = None
    BY <1>0, <2>1, <2>2 DEF Typed, PcOK
  <2>6. claim'[c].req = claim[c].req
    <3>1. claim[c] \in Claim
      BY <1>0, <2>2 DEF Typed, PcOK
    <3> QED
      BY <1>0, <2>2, <3>1 DEF Claim
  <2> HIDE DEF marked
  <2>7. Serial(c)'
    <3>1. Good(buf[c])' /\ SameTokens(buf[c])'
      BY <2>2, <2>4, <2>5 DEF Good, SameTokens
    <3>2. Marks(buf[c], claim[c].req.token)'
      BY <2>2, <2>4, <2>5, <2>6 DEF Marks
    <3> QED
      BY <2>5, <3>1, <3>2 DEF Serial
  <2>8. Good(file)' /\ Counted'
    BY <1>0, <2>2 DEF Good, Counted
  <2> QED
    BY <2>3, <2>7, <2>8, SerialStep
<1>5. ASSUME NEW c \in Callers, Peek(c)
      PROVE  SerialInv'
  <2>1. /\ pc[c] = "consume" /\ pc' = [pc EXCEPT ![c] = "admitted"]
        /\ UNCHANGED <<file, order, buf, minted, granted, uses>>
    BY <1>5 DEF Peek
  <2>2. \A d \in Callers : d # c => Quiet(d)'
    BY <1>0, <2>1, OthersQuiet DEF Quiet
  <2>3. Serial(c)'
    <3>1. buf'[c] = <<>> /\ pc'[c] = "admitted" /\ order'[c] = None
      BY <1>0, <2>1 DEF Typed, PcOK
    <3> QED
      BY <3>1, EmptyGood DEF Serial
  <2>4. Good(file)' /\ Counted'
    BY <1>0, <2>1 DEF Good, Counted
  <2> QED
    BY <2>2, <2>3, <2>4, SerialStep
<1>6. ASSUME NEW c \in Callers, Saved(c), pc[c] \in {"push", "spend", "unlinked"}
      PROVE  SerialInv'
  <2>1. /\ file' = buf[c] /\ buf' = [buf EXCEPT ![c] = <<>>] /\ minted' = minted
        /\ Good(buf[c])
    BY <1>0, <1>6 DEF Saved, Serial
  <2>2. CASE order[c] # None
    <3>1. /\ granted' = granted \cup {order[c]}
          /\ order' = [order EXCEPT ![c] = None] /\ pc' = [pc EXCEPT ![c] = "idle"]
          /\ uses' = uses
      BY <1>6, <2>2 DEF Saved
    <3>2. \A d \in Callers : Quiet(d)'
      BY <1>0, <1>6, <2>1, <3>1, OthersQuiet DEF Quiet
    <3>3. Fresh(order[c])
      BY <1>0, <2>2 DEF Serial
    <3>4. Good(file)' /\ Counted'
      BY <1>0, <2>1, <3>1, <3>3 DEF Good, Counted, Fresh
    <3> QED
      BY <3>2, <3>4, QuietSerial, SerialStep
  <2>3. CASE order[c] = None
    <3>1. /\ order' = order /\ granted' = granted /\ claim' = claim
          /\ uses' = [uses EXCEPT ![claim[c].req.token] = @ + 1]
          /\ pc' = [pc EXCEPT ![c] = "admitted"]
      BY <1>6, <2>3 DEF Saved
    <3>2. \A d \in Callers : d # c => Quiet(d)'
      BY <1>0, <1>6, <2>1, <3>1, OthersQuiet DEF Quiet
    <3>3. Serial(c)'
      <4>1. buf'[c] = <<>> /\ pc'[c] = "admitted" /\ order'[c] = None
        BY <1>0, <2>1, <2>3, <3>1
      <4> QED
        BY <4>1, EmptyGood DEF Serial
    <3>4. Marks(buf[c], claim[c].req.token)
      BY <1>0, <1>6, <2>3 DEF Serial, Typed, PcOK
    <3>5. \A t \in Tokens : uses'[t] = IF t = claim[c].req.token THEN 1 ELSE uses[t]
      BY <1>0, <3>1, <3>4 DEF Marks
    <3>6. \A i \in DOMAIN buf[c] : buf[c][i].token \in Tokens
      BY <1>0, <2>1 DEF Good
    <3>7. Good(file)'
      BY <2>1, <3>4, <3>5, <3>6 DEF Good, Marks
    <3>8. Counted'
      BY <1>0, <2>1, <3>1, <3>4, <3>5 DEF Counted, Marks
    <3> QED
      BY <3>2, <3>3, <3>7, <3>8, SerialStep
  <2> QED
    BY <2>2, <2>3
<1>7. ASSUME NEW c \in Callers, Unlink(c)
      PROVE  SerialInv'
  <2>1. /\ pc[c] \in {"push", "spend"} /\ pc' = [pc EXCEPT ![c] = "unlinked"]
        /\ file' = <<>>
        /\ UNCHANGED <<order, claim, buf, minted, granted, uses>>
    BY <1>7 DEF Unlink
  <2>2. \A d \in Callers : d # c => Quiet(d)'
    BY <1>0, <2>1, OthersQuiet DEF Quiet
  <2>3. Serial(c)'
    <3>1. pc'[c] = "unlinked"
      BY <1>0, <2>1
    <3>2. Good(buf[c])'
      BY <1>0, <2>1 DEF Serial, Good
    <3>3. order'[c] # None => Fresh(order[c])'
      BY <1>0, <2>1, EmptySeq DEF Serial, Fresh
    <3>4. order'[c] = None => Marks(buf[c], claim[c].req.token)'
      BY <1>0, <2>1 DEF Serial, Marks, Typed, PcOK
    <3> QED
      BY <2>1, <3>1, <3>2, <3>3, <3>4 DEF Serial
  <2>4. Good(file)' /\ Counted'
    BY <1>0, <2>1, EmptyGood DEF Counted
  <2> QED
    BY <2>2, <2>3, <2>4, SerialStep
<1>8. ASSUME NEW c \in Callers, Refuse(c) \/ Abort(c) \/ Return(c)
      PROVE  SerialInv'
  <2>1. /\ pc[c] # "idle" /\ pc' = [pc EXCEPT ![c] = "idle"]
        /\ UNCHANGED <<file, minted, granted, uses>>
        /\ order' = [order EXCEPT ![c] = None] \/ (order[c] = None /\ order' = order)
        /\ buf' = [buf EXCEPT ![c] = <<>>] \/ (buf[c] = <<>> /\ buf' = buf)
    <3>1. CASE Refuse(c)
      BY <3>1 DEF Refuse, Typed, PcOK
    <3>2. CASE Abort(c)
      BY <3>2 DEF Abort
    <3>3. CASE Return(c)
      BY <3>3 DEF Return, Typed, PcOK
    <3> QED
      BY <1>8, <3>1, <3>2, <3>3
  <2>2. \A d \in Callers : Quiet(d)'
    BY <1>0, <2>1, OthersQuiet DEF Quiet
  <2>3. Good(file)' /\ Counted'
    BY <1>0, <2>1 DEF Good, Counted
  <2> QED
    BY <2>2, <2>3, QuietSerial, SerialStep
<1>9. CASE UNCHANGED <<file, pc, order, claim, buf, minted, granted, uses>>
  <2>1. Good(file)' /\ Counted' /\ Alone'
    BY <1>0, <1>9 DEF Good, Counted, Alone
  <2>2. ASSUME NEW c \in Callers
        PROVE  Serial(c)'
    <3>1. Good(buf[c])' /\ (order'[c] # None => Fresh(order[c])')
      BY <1>0, <1>9 DEF Serial, Good, Fresh
    <3>2. /\ pc'[c] = "push" => Pushes(buf[c], order[c])'
          /\ pc'[c] = "spend" => SameTokens(buf[c])'
          /\ pc'[c] \in {"spend", "unlinked"} /\ order'[c] = None
               => Marks(buf[c], claim[c].req.token)'
      BY <1>0, <1>9 DEF Serial, Pushes, SameTokens, Marks
    <3> QED
      BY <1>0, <1>9, <3>1, <3>2 DEF Serial
  <2> QED
    BY <2>1, <2>2 DEF SerialInv
<1> QED
  BY <1>1, <1>2, <1>3, <1>4, <1>5, <1>6, <1>7, <1>8, <1>9
     DEF Next, StoreStep, Save, Rename, Tick, vars

\* When no two calls overlap, consumeApprovalGrant accepts a token at most once:
\* the consumed flag is on disk before the call returns, and no later save of the
\* array, failed read, crash or replaced file brings the grant back unspent.
THEOREM SingleUseSerial == Serialized => (Spec => []SingleUse)
<1>1. SerialInv => SingleUse
  BY DEF SerialInv, Counted, SingleUse
<1>2. CASE Serialized
  BY <1>1, <1>2, TypedInit, TypedNext, SerialInit, SerialNext, PTL DEF Spec
<1> QED
  BY <1>2

---------------------------------------------------------------------------
(* The store implements the ledger.                                        *)

LEMMA LedgerStep ==
  Serialized /\ Typed /\ GrantInv /\ SerialInv /\ [Next]_vars => [LedgerNext]_ledgerVars
<1> SUFFICES ASSUME Serialized, Typed, GrantInv, SerialInv, [Next]_vars
             PROVE  LedgerNext \/ UNCHANGED ledgerVars
  BY DEF ledgerVars
<1>0. GrantInv'
  BY GrantInvNext
<1>1. ASSUME NEW c \in Callers, Peek(c)
      PROVE  LedgerNext
  <2>1. accepted' = accepted \cup {claim'[c]} /\ UNCHANGED <<granted, uses>>
    BY <1>1 DEF Peek
  <2>2. claim'[c] \in accepted' /\ \E g \in granted : Backs(g, claim'[c])
    BY <1>0, <2>1 DEF GrantInv, AcceptedIsGranted
  <2>3. Looks(claim'[c])
    BY <2>1, <2>2 DEF Looks
  <2> QED
    BY <2>2, <2>3 DEF LedgerNext
<1>2. ASSUME NEW c \in Callers, Saved(c), pc[c] \in {"push", "spend", "unlinked"}
      PROVE  LedgerNext
  <2>1. CASE order[c] # None
    <3>1. granted' = granted \cup {order[c]} /\ UNCHANGED <<accepted, uses>>
      BY <1>2, <2>1 DEF Saved
    <3>2. order[c].root = Root /\ Fresh(order[c])
      BY <2>1 DEF Typed, PcOK, SerialInv, Serial
    <3>3. Grants(order[c])
      BY <3>1, <3>2 DEF Grants, Fresh
    <3> QED
      BY <3>1, <3>3 DEF LedgerNext
  <2>2. CASE order[c] = None
    <3> DEFINE token == claim[c].req.token
    <3>1. /\ accepted' = accepted \cup {claim[c]} /\ granted' = granted
          /\ uses' = [uses EXCEPT ![token] = uses[token] + 1]
      BY <1>2, <2>2 DEF Saved
    <3>2. Marks(buf[c], token)
      BY <1>2, <2>2 DEF SerialInv, Serial, Typed, PcOK
    <3>3. \E g \in granted : Backs(g, claim[c])
      BY <1>2, <2>2 DEF GrantInv, SpendBacked, Typed, PcOK
    <3>4. uses[token] = 0 /\ uses' = [uses EXCEPT ![token] = 1]
      BY <3>1, <3>2 DEF Marks
    <3>5. Spends(claim[c])
      BY <3>1, <3>3, <3>4 DEF Spends
    <3> QED
      BY <3>1, <3>5 DEF LedgerNext
  <2> QED
    BY <2>1, <2>2
<1>3. ASSUME NEW c \in Callers, NEW o \in Orders, BeginIssue(c, o)
      PROVE  UNCHANGED ledgerVars
  BY <1>3 DEF BeginIssue, ledgerVars
<1>4. ASSUME NEW c \in Callers, NEW r \in Requests, BeginConsume(c, r)
      PROVE  UNCHANGED ledgerVars
  BY <1>4 DEF BeginConsume, ledgerVars
<1>5. ASSUME NEW c \in Callers,
             LoadIssue(c) \/ Refuse(c) \/ Admit(c) \/ Unlink(c) \/ Abort(c) \/ Return(c)
      PROVE  UNCHANGED ledgerVars
  BY <1>5 DEF LoadIssue, Refuse, Admit, Unlink, Abort, Return, ledgerVars
<1>6. CASE Tick \/ UNCHANGED vars
  BY <1>6 DEF Tick, vars, ledgerVars
<1> QED
  BY <1>1, <1>2, <1>3, <1>4, <1>5, <1>6 DEF Next, StoreStep, Save, Rename

\* When no two calls overlap, grants.json with its loads, saves, failures and
\* crashes implements the ledger of GrantLedger: a token admits at most one
\* operation, and one that a returned grant of this root names.
THEOREM StoreImplementsLedger == Serialized => (Spec => LedgerSpec)
<1>1. Init => LedgerInit
  BY DEF Init, LedgerInit
<1>2. CASE Serialized
  BY <1>1, <1>2, TypedInit, TypedNext, GrantInvInit, GrantInvNext, SerialInit, SerialNext,
     LedgerStep, PTL DEF Spec, LedgerSpec
<1> QED
  BY <1>2

---------------------------------------------------------------------------
(* What a save may drop.                                                   *)

\* grants.slice(-n) after a push keeps the pushed entry, and all but the first of a
\* full array.
LEMMA LastOfKeeps ==
  ASSUME NEW S, NEW s \in Seq(S), NEW x \in S, NEW n \in Nat \ {0}, Len(s) <= n
  PROVE  LET last == LastOf(Append(s, x), n) IN
         /\ \E j \in DOMAIN last : last[j] = x
         /\ \A i \in DOMAIN s : i > 1 \/ Len(s) < n => \E j \in DOMAIN last : last[j] = s[i]
<1> DEFINE all == Append(s, x)
           last == LastOf(all, n)
<1>1. /\ all \in Seq(S) /\ Len(all) = Len(s) + 1 /\ all[Len(s) + 1] = x
      /\ \A i \in DOMAIN s : all[i] = s[i]
      /\ DOMAIN all = 1..(Len(s) + 1) /\ DOMAIN s = 1..Len(s) /\ Len(s) \in Nat
  OBVIOUS
<1> HIDE DEF all
<1>2. CASE Len(s) < n
  <2>1. last = all
    BY <1>1, <1>2 DEF LastOf
  <2> HIDE DEF last
  <2>2. Len(s) + 1 \in DOMAIN last /\ last[Len(s) + 1] = x
    BY <1>1, <2>1
  <2>3. ASSUME NEW i \in DOMAIN s
        PROVE  i \in DOMAIN last /\ last[i] = s[i]
    BY <1>1, <2>1
  <2>4. /\ \E j \in DOMAIN last : last[j] = x
        /\ \A i \in DOMAIN s : i > 1 \/ Len(s) < n => \E j \in DOMAIN last : last[j] = s[i]
    BY <2>2, <2>3, Zenon
  <2> QED
    BY <2>4 DEF last, all
<1>3. CASE Len(s) = n
  <2>1. n \in Int /\ Len(all) = n + 1 /\ ~(Len(all) <= n) /\ Len(all) - n = 1
    BY <1>1, <1>3
  <2>2. last = [i \in 1..n |-> all[1 + i]]
    BY <2>1 DEF LastOf
  <2> HIDE DEF last
  <2>3. n \in DOMAIN last /\ last[n] = x
    BY <1>1, <1>3, <2>2
  <2>4. ASSUME NEW i \in DOMAIN s, i > 1
        PROVE  i - 1 \in DOMAIN last /\ last[i - 1] = s[i]
    BY <1>1, <1>3, <2>2, <2>4
  <2>5. /\ \E j \in DOMAIN last : last[j] = x
        /\ \A i \in DOMAIN s : i > 1 \/ Len(s) < n => \E j \in DOMAIN last : last[j] = s[i]
    BY <1>3, <2>3, <2>4
  <2> QED
    BY <2>5 DEF last, all
<1>4. Len(s) < n \/ Len(s) = n
  BY LenProperties
<1> QED
  BY <1>2, <1>3, <1>4, Zenon

RetainStep ==
  /\ \/ \A i \in DOMAIN file : i > 1 \/ Len(file) < MaxGrants => Kept(file[i])
     \/ \A i \in DOMAIN file : ~Kept(file[i])
  /\ \A c \in Callers : Save(c) /\ pc[c] = "push" => Kept(order[c])

LEMMA RetainNext == Serialized /\ Typed /\ SerialInv /\ [Next]_vars => [RetainStep]_vars
<1> SUFFICES ASSUME Serialized, Typed, SerialInv, [Next]_vars
             PROVE  RetainStep
  OBVIOUS
<1>0. file \in Seq(Grant) /\ Good(file) /\ \A c \in Callers : Serial(c)
  BY DEF SerialInv, Typed, TypeOK
<1>1. ASSUME NEW c \in Callers, Saved(c), pc[c] = "push"
      PROVE  RetainStep
  <2>1. file' = buf[c] /\ order[c] \in Grant /\ Fresh(order[c]) /\ Pushes(buf[c], order[c])
    BY <1>0, <1>1 DEF Saved, Serial, Typed, TypeOK, PcOK
  <2>2. PICK grants \in {file, <<>>} : file' = LastOf(Append(grants, order[c]), MaxGrants)
    BY <2>1 DEF Pushes
  <2>3. grants \in Seq(Grant) /\ Len(grants) <= MaxGrants
    BY <1>0, EmptySeq, EmptyGood DEF Good
  <2>4. /\ \E j \in DOMAIN file' : file'[j] = order[c]
        /\ \A i \in DOMAIN grants :
             i > 1 \/ Len(grants) < MaxGrants => \E j \in DOMAIN file' : file'[j] = grants[i]
    BY <2>1, <2>2, <2>3, LastOfKeeps, BoundsAssumption
  <2>5. Kept(order[c])
    BY <2>4 DEF Kept
  <2>6. \A d \in Callers : Save(d) /\ pc[d] = "push" => d = c
    BY <1>1 DEF SerialInv, Alone
  <2>7. CASE grants = file
    BY <2>4, <2>5, <2>6, <2>7 DEF RetainStep, Kept
  <2>8. CASE grants = <<>>
    <3> DEFINE one == Append(<<>>, order[c])
    <3>1. file' = LastOf(one, MaxGrants)
      BY <2>2, <2>8
    <3>2. one \in Seq(Grant) /\ MaxGrants \in Nat /\ \A j \in DOMAIN one : one[j] = order[c]
      BY <2>1, BoundsAssumption
    <3> HIDE DEF one
    <3>3. \A i \in DOMAIN file' : \E j \in DOMAIN one : file'[i] = one[j]
      BY <3>1, <3>2, LastOfEntries
    <3>4. \A i \in DOMAIN file' : file'[i] = order[c]
      BY <3>2, <3>3
    <3>5. \A i \in DOMAIN file : ~Kept(file[i])
      BY <2>1, <3>4 DEF Kept, Fresh
    <3> QED
      BY <2>5, <2>6, <3>5 DEF RetainStep
  <2> QED
    BY <2>7, <2>8
<1>2. ASSUME NEW c \in Callers, Saved(c), pc[c] \in {"spend", "unlinked"}
      PROVE  RetainStep
  <2>1. \A d \in Callers : ~(pc[d] = "push")
    BY <1>2 DEF SerialInv, Alone
  <2>2. CASE pc[c] = "spend"
    <3>1. file' = buf[c] /\ SameTokens(buf[c])
      BY <1>0, <1>2, <2>2 DEF Saved, Serial
    <3> QED
      BY <2>1, <3>1 DEF RetainStep, Kept, SameTokens
  <2>3. CASE pc[c] = "unlinked"
    <3>1. file = <<>>
      BY <1>0, <2>3 DEF Serial
    <3> QED
      BY <2>1, <3>1, EmptySeq DEF RetainStep
  <2> QED
    BY <1>2, <2>2, <2>3
<1>3. ASSUME NEW c \in Callers, Unlink(c)
      PROVE  RetainStep
  <2>1. file' = <<>> /\ pc' = [pc EXCEPT ![c] = "unlinked"] /\ pc[c] # "unlinked"
    BY <1>3 DEF Unlink
  <2>2. \A i \in DOMAIN file : ~Kept(file[i])
    BY <2>1, EmptySeq DEF Kept
  <2>3. ASSUME NEW d \in Callers, Save(d), pc[d] = "push"
        PROVE  FALSE
    <3>1. d = c
      BY <1>3, <2>3 DEF Unlink, SerialInv, Alone
    <3>2. pc' = [pc EXCEPT ![c] = "idle"] \/ pc' = [pc EXCEPT ![c] = "admitted"]
      BY <2>3, <3>1 DEF Save, Saved
    <3> QED
      BY <2>1, <3>2 DEF Typed, TypeOK
  <2> QED
    BY <2>2, <2>3 DEF RetainStep
<1>4. CASE UNCHANGED file /\ \A c \in Callers : ~(Save(c) /\ pc[c] = "push")
  BY <1>4 DEF RetainStep, Kept
<1>5. ASSUME UNCHANGED file, NEW c \in Callers, Saved(c), pc[c] = "push"
      PROVE  RetainStep
  BY <1>1, <1>5
<1>6. ASSUME UNCHANGED file
      PROVE  RetainStep
  BY <1>4, <1>5, <1>6 DEF Save
<1>7. ASSUME NEW c \in Callers,
             \/ \E o \in Orders : BeginIssue(c, o)
             \/ \E r \in Requests : BeginConsume(c, r)
             \/ LoadIssue(c) \/ Refuse(c) \/ Admit(c) \/ Peek(c) \/ Abort(c) \/ Return(c)
      PROVE  UNCHANGED file
  BY <1>7 DEF BeginIssue, BeginConsume, LoadIssue, Refuse, Admit, Peek, Abort, Return
<1>8. Tick \/ UNCHANGED vars => UNCHANGED file
  BY DEF Tick, vars
<1> QED
  BY <1>1, <1>2, <1>3, <1>6, <1>7, <1>8 DEF Next, StoreStep, Save, Rename

\* When no two calls overlap, a save drops no grant but the oldest of a full file
\* (slice(-200)), or all of them when loadGrants could not read the file or
\* replaceFile removed it first; a saved issue is in the file.
THEOREM RetainedSerial == Serialized => (Spec => Retained)
<1>1. CASE Serialized
  <2>1. Spec => [][RetainStep]_vars
    BY <1>1, TypedInit, TypedNext, SerialInit, SerialNext, RetainNext, PTL DEF Spec
  <2> QED
    BY <2>1 DEF Retained, RetainStep
<1> QED
  BY <1>1

---------------------------------------------------------------------------
(* The tools behind the gate.                                              *)

Approved(grant) == \E op \in approved : grant.plan = PlanFor(op)

\* What a job's call holds: the claim is the job's own, and its grant was returned.
Gated(c) ==
  job[c] # None =>
    /\ DOMAIN job[c] = {"op", "step", "before", "after"}
    /\ job[c].op \in Ops
    /\ order[c] = None
    /\ pc[c] \in {"consume", "spend", "unlinked", "admitted"}
    /\ claim[c] # None /\ claim[c].req.plan = PlanFor(job[c].op)
    /\ pc[c] = "admitted" => \E grant \in granted : Backs(grant, claim[c])

\* What a job is about to write: the text of its call, or an edit of a file that was there.
Prepared(c) ==
  job[c] # None /\ job[c].step = "write" =>
    \/ job[c].op.tool = "file_create" /\ job[c].after = job[c].op.content
    \/ /\ job[c].op.tool = "file_edit" /\ job[c].before # None
       /\ Edited(job[c].op, job[c].before).ok
       /\ job[c].after = Edited(job[c].op, job[c].before).text

ToolInv ==
  /\ approved \subseteq Ops
  /\ DOMAIN job = Callers
  /\ edits \in Nat
  /\ \A grant \in granted : Approved(grant)
  /\ \A c \in Callers : order[c] # None => Approved(order[c])
  /\ \A c \in Callers : Gated(c) /\ Prepared(c)

StoreInv == Typed /\ GrantInv

---------------------------------------------------------------------------
LEMMA RequestType ==
  ASSUME NEW op \in Ops, NEW t \in Tokens
  PROVE  RequestOf(op, t) \in Request /\ RequestOf(op, t).plan = PlanFor(op)
BY ToolAssumption DEF RequestOf, Request

LEMMA StoreSteps == MCPNext => AnyNext \/ UNCHANGED vars
<1> SUFFICES ASSUME MCPNext
             PROVE  AnyNext \/ UNCHANGED vars
  OBVIOUS
<1>1. ASSUME NEW c \in Callers, NEW op \in Ops, NEW t \in Tokens, CallTool(c, op, t)
      PROVE  AnyNext
  BY <1>1, RequestType DEF CallTool, AnyNext, AnyStep
<1>2. ASSUME NEW c \in Callers, NEW op \in Ops, NEW ttl \in Ttls, ApproveCall(c, op, ttl)
      PROVE  AnyNext
  <2>1. [action |-> op.tool, resources |-> {op.path}, plan |-> PlanFor(op), ttl |-> ttl] \in Order
    BY ToolAssumption DEF Order
  <2> QED
    BY <1>2, <2>1 DEF ApproveCall, AnyNext, AnyStep
<1>3. ASSUME NEW c \in Callers, StoreStepOf(c) \/ GateClosed(c)
      PROVE  AnyNext
  BY <1>3 DEF StoreStepOf, GateClosed, AnyNext, AnyStep
<1>4. ASSUME NEW c \in Callers, CreateRefused(c) \/ EditRefused(c) \/ WriteFile(c)
      PROVE  AnyNext
  BY <1>4 DEF CreateRefused, EditRefused, WriteFile, Answer, AnyNext, AnyStep
<1>5. ASSUME NEW c \in Callers, CreateCheck(c) \/ EditRead(c)
      PROVE  UNCHANGED vars
  BY <1>5 DEF CreateCheck, EditRead
<1>6. CASE ExternalWrite
  BY <1>6 DEF ExternalWrite
<1> QED
  BY <1>1, <1>2, <1>3, <1>4, <1>5, <1>6 DEF MCPNext, AnyNext

LEMMA StoreInvNext == StoreInv /\ [MCPNext]_mcpVars => StoreInv'
<1>1. [MCPNext]_mcpVars => [AnyNext]_vars
  BY StoreSteps DEF mcpVars
<1> QED
  BY <1>1, TypedAny, GrantInvAny DEF StoreInv

LEMMA JobStep ==
  ASSUME NEW j, DOMAIN j = {"op", "step", "before", "after"}, NEW before, NEW after
  PROVE  /\ LET k == [j EXCEPT !.step = "write", !.after = after] IN
              /\ DOMAIN k = DOMAIN j /\ k.op = j.op /\ k.step = "write" /\ k.after = after
         /\ LET k == [j EXCEPT !.step = "write", !.before = before, !.after = after] IN
              /\ DOMAIN k = DOMAIN j /\ k.op = j.op /\ k.step = "write" /\ k.before = before /\ k.after = after
OBVIOUS

LEMMA DiskOrEdits ==
  [MCPNext]_mcpVars =>
    ExternalWrite \/ (edits' = edits /\ (disk' = disk \/ \E c \in Callers : WriteFile(c)))
BY DEF MCPNext, CallTool, ApproveCall, StoreStepOf, GateClosed, CreateRefused, CreateCheck,
       EditRead, EditRefused, WriteFile, mcpVars, toolVars

LEMMA ToolInvInit == MCPInit => ToolInv
BY DEF MCPInit, Init, ToolInv, Gated, Prepared

---------------------------------------------------------------------------
LEMMA ToolInvNext == StoreInv /\ ToolInv /\ [MCPNext]_mcpVars => ToolInv'
<1> SUFFICES ASSUME StoreInv, ToolInv, [MCPNext]_mcpVars
             PROVE  ToolInv'
  OBVIOUS
<1>0. /\ order \in [Callers -> Grant \cup {None}] /\ claim \in [Callers -> Claim \cup {None}]
      /\ pc \in [Callers -> {"idle", "issue", "push", "consume", "spend", "unlinked", "admitted"}]
      /\ DOMAIN job = Callers /\ edits' \in Nat
      /\ Typed /\ PcOK /\ SpendBacked
  <2>1. edits' \in Nat
    BY DiskOrEdits DEF ExternalWrite, ToolInv
  <2> QED
    BY <2>1 DEF StoreInv, Typed, TypeOK, ToolInv, GrantInv
\* Only the job of c changes, and what the store holds of the others stays.
<1> DEFINE Frame(c) ==
      /\ granted \subseteq granted' /\ DOMAIN job' = Callers /\ edits' \in Nat
      /\ \A d \in Callers : d # c =>
           /\ job'[d] = job[d] /\ order'[d] = order[d]
           /\ pc'[d] = pc[d] /\ claim'[d] = claim[d]
<1>1. ASSUME NEW c \in Callers, Frame(c)
      PROVE  \A d \in Callers : d # c => Gated(d)' /\ Prepared(d)'
  BY <1>1 DEF ToolInv, Gated, Prepared
<1> HIDE DEF Frame
<1>2. ASSUME NEW c \in Callers, NEW op \in Ops, NEW t \in Tokens, CallTool(c, op, t)
      PROVE  ToolInv'
  <2>1. /\ job' = [job EXCEPT ![c] = Job(op, "gate")]
        /\ claim' = [claim EXCEPT ![c] = [req |-> RequestOf(op, t), at |-> now,
                                           reuse |-> uses[RequestOf(op, t).token] > 0]]
        /\ pc' = [pc EXCEPT ![c] = "consume"] /\ pc[c] = "idle"
        /\ UNCHANGED <<order, granted, approved>>
    BY <1>2 DEF CallTool, BeginConsume, MayBegin
  <2>2. Frame(c)
    BY <1>0, <2>1 DEF Frame
  <2>3. /\ job'[c] = Job(op, "gate") /\ pc'[c] = "consume" /\ order'[c] = None
        /\ claim'[c].req = RequestOf(op, t)
    BY <1>0, <2>1 DEF PcOK
  <2>4. claim'[c] # None
    <3>1. claim' \in [Callers -> Claim \cup {None}] /\ PcOK'
      BY StoreInvNext DEF StoreInv, Typed, TypeOK
    <3> QED
      BY <2>3, <3>1 DEF PcOK
  <2>5. Gated(c)' /\ Prepared(c)'
    BY <2>3, <2>4, RequestType DEF Gated, Prepared, Job
  <2> QED
    BY <1>1, <2>1, <2>2, <2>5 DEF ToolInv, Frame, Approved
<1>3. ASSUME NEW c \in Callers, NEW op \in Ops, NEW ttl \in Ttls, ApproveCall(c, op, ttl)
      PROVE  ToolInv'
  <2>1. PICK t \in Tokens :
          order' = [order EXCEPT ![c] =
            NewGrant([action |-> op.tool, resources |-> {op.path},
                      plan |-> PlanFor(op), ttl |-> ttl], t)]
    BY <1>3 DEF ApproveCall, BeginIssue
  <2>2. /\ approved' = approved \cup {op} /\ pc' = [pc EXCEPT ![c] = "issue"] /\ pc[c] = "idle"
        /\ UNCHANGED <<job, claim, granted>>
    BY <1>3 DEF ApproveCall, BeginIssue, MayBegin
  <2>3. Frame(c)
    BY <1>0, <2>1, <2>2 DEF Frame
  <2>4. order'[c].plan = PlanFor(op)
    BY <1>0, <2>1 DEF NewGrant
  <2>5. job'[c] = None
    BY <2>2 DEF ToolInv, Gated
  <2>6. Gated(c)' /\ Prepared(c)'
    BY <2>5 DEF Gated, Prepared
  <2>7. \A d \in Callers : order'[d] # None => Approved(order[d])'
    BY <2>2, <2>3, <2>4 DEF Frame, ToolInv, Approved
  <2> QED
    BY <1>1, <2>2, <2>3, <2>6, <2>7 DEF ToolInv, Frame, Approved
<1>4. ASSUME NEW c \in Callers, StoreStepOf(c)
      PROVE  ToolInv'
  <2>1. job' = job /\ approved' = approved
    BY <1>4 DEF StoreStepOf, toolVars
  <2>2. CASE LoadIssue(c) \/ Unlink(c)
    <3>1. /\ UNCHANGED <<order, claim, granted>>
          /\ \/ pc[c] = "issue" /\ pc' = [pc EXCEPT ![c] = "push"]
             \/ pc[c] \in {"push", "spend"} /\ pc' = [pc EXCEPT ![c] = "unlinked"]
      BY <2>2 DEF LoadIssue, Unlink
    <3>2. Frame(c)
      BY <1>0, <2>1, <3>1 DEF Frame
    <3>3. Gated(c)' /\ Prepared(c)'
      BY <1>0, <2>1, <3>1 DEF ToolInv, Gated, Prepared, PcOK
    <3> QED
      BY <1>1, <2>1, <3>1, <3>2, <3>3 DEF ToolInv, Frame, Approved
  <2>3. CASE Admit(c)
    <3>1. /\ pc' = [pc EXCEPT ![c] = "spend"] /\ pc[c] = "consume"
          /\ claim' = [claim EXCEPT ![c].at = now]
          /\ UNCHANGED <<order, granted>>
      BY <2>3 DEF Admit
    <3>2. Frame(c)
      BY <1>0, <2>1, <3>1 DEF Frame
    <3>3. claim[c] # None /\ claim[c] \in Claim /\ order[c] = None
      BY <1>0, <3>1 DEF PcOK
    <3>4. claim'[c] \in Claim /\ claim'[c].req = claim[c].req
      <4>1. now \in Nat
        BY <1>0 DEF Typed, TypeOK
      <4> QED
        BY <1>0, <3>1, <3>3, <4>1 DEF Claim
    <3>5. Gated(c)' /\ Prepared(c)'
      BY <1>0, <2>1, <3>1, <3>4, InputAssumption DEF ToolInv, Gated, Prepared
    <3> QED
      BY <1>1, <2>1, <3>1, <3>2, <3>5 DEF ToolInv, Frame, Approved
  <2>4. CASE Saved(c) /\ pc[c] \in {"push", "spend", "unlinked"}
    <3>1. CASE order[c] # None
      <4>1. /\ granted' = granted \cup {order[c]} /\ claim' = claim
            /\ order' = [order EXCEPT ![c] = None] /\ pc' = [pc EXCEPT ![c] = "idle"]
        BY <2>4, <3>1 DEF Saved
      <4>2. Frame(c)
        BY <1>0, <2>1, <4>1 DEF Frame
      <4>3. Gated(c)' /\ Prepared(c)'
        BY <2>1, <3>1 DEF ToolInv, Gated, Prepared
      <4>4. \A grant \in granted' : Approved(grant)'
        BY <2>1, <3>1, <4>1 DEF ToolInv, Approved
      <4>5. \A d \in Callers : order'[d] # None => Approved(order[d])'
        BY <1>0, <2>1, <4>1 DEF ToolInv, Approved
      <4> QED
        BY <1>1, <2>1, <4>2, <4>3, <4>4, <4>5 DEF ToolInv, Frame
    <3>2. CASE order[c] = None
      <4>1. /\ pc' = [pc EXCEPT ![c] = "admitted"]
            /\ UNCHANGED <<order, claim, granted>>
        BY <2>4, <3>2 DEF Saved
      <4>2. Frame(c)
        BY <1>0, <2>1, <4>1 DEF Frame
      <4>3. \E grant \in granted : Backs(grant, claim[c])
        BY <1>0, <2>4, <3>2 DEF SpendBacked, PcOK
      <4>4. Gated(c)' /\ Prepared(c)'
        BY <1>0, <2>1, <4>1, <4>3 DEF ToolInv, Gated, Prepared
      <4> QED
        BY <1>1, <2>1, <4>1, <4>2, <4>4 DEF ToolInv, Frame, Approved
    <3> QED
      BY <3>1, <3>2
  <2> QED
    BY <1>4, <2>2, <2>3, <2>4 DEF StoreStepOf, Save, Rename
<1>5. ASSUME NEW c \in Callers,
             \/ GateClosed(c)
             \/ Answer(c) /\ UNCHANGED approved
      PROVE  ToolInv'
  <2>1. /\ job' = [job EXCEPT ![c] = None] /\ UNCHANGED <<granted, approved>>
        /\ \A d \in Callers : d # c =>
             order'[d] = order[d] /\ pc'[d] = pc[d] /\ claim'[d] = claim[d]
        /\ order'[c] \in {order[c], None}
    <3>1. CASE Refuse(c) /\ job' = [job EXCEPT ![c] = None] /\ UNCHANGED approved
      BY <1>0, <3>1 DEF Refuse
    <3>2. CASE Abort(c) /\ job' = [job EXCEPT ![c] = None] /\ UNCHANGED approved
      BY <1>0, <3>2 DEF Abort
    <3>3. CASE Answer(c) /\ UNCHANGED approved
      BY <1>0, <3>3 DEF Answer, Return
    <3> QED
      BY <1>5, <3>1, <3>2, <3>3 DEF GateClosed
  <2>2. Frame(c) /\ job'[c] = None
    BY <1>0, <2>1 DEF Frame
  <2>3. Gated(c)' /\ Prepared(c)'
    BY <2>2 DEF Gated, Prepared
  <2>4. \A d \in Callers : order'[d] # None => Approved(order[d])'
    BY <2>1 DEF ToolInv, Approved
  <2> QED
    BY <1>1, <2>1, <2>2, <2>3, <2>4 DEF ToolInv, Frame, Approved
<1>6. ASSUME NEW c \in Callers, CreateCheck(c) \/ EditRead(c)
      PROVE  ToolInv'
  <2>1. UNCHANGED <<vars, approved>>
    BY <1>6 DEF CreateCheck, EditRead
  <2>2. UNCHANGED <<order, claim, granted, pc>>
    BY <2>1 DEF vars
  <2> DEFINE j == job[c]
  <2>3. j # None /\ DOMAIN j = {"op", "step", "before", "after"}
    BY <1>6 DEF CreateCheck, EditRead, At, ToolInv, Gated
  <2>4. \E k : /\ job' = [job EXCEPT ![c] = k]
               /\ DOMAIN k = DOMAIN j /\ k.op = j.op /\ k.step = "write"
               /\ \/ k.op.tool = "file_create" /\ k.after = k.op.content
                  \/ /\ k.op.tool = "file_edit" /\ k.before # None
                     /\ Edited(k.op, k.before).ok /\ k.after = Edited(k.op, k.before).text
    <3>1. CASE CreateCheck(c)
      <4> DEFINE k == [j EXCEPT !.step = "write", !.after = j.op.content]
      <4>1. job' = [job EXCEPT ![c] = k] /\ j.op.tool = "file_create"
        BY <3>1 DEF CreateCheck, At
      <4>2. /\ DOMAIN k = DOMAIN j /\ k.op = j.op /\ k.step = "write"
            /\ k.after = j.op.content
        BY <2>3, JobStep
      <4> HIDE DEF k
      <4> QED
        BY <4>1, <4>2
    <3>2. CASE EditRead(c)
      <4> DEFINE before == disk[j.op.path]
                 text == Edited(j.op, before).text
                 k == [j EXCEPT !.step = "write", !.before = before, !.after = text]
      <4>1. /\ job' = [job EXCEPT ![c] = k] /\ j.op.tool = "file_edit" /\ before # None
            /\ Edited(j.op, before).ok
        BY <3>2 DEF EditRead, At
      <4> HIDE DEF before, text
      <4>2. DOMAIN k = DOMAIN j /\ k.op = j.op /\ k.step = "write" /\ k.before = before /\ k.after = text
        BY <2>3, JobStep
      <4> HIDE DEF k
      <4>3. k.after = Edited(k.op, k.before).text
        BY <4>2 DEF text
      <4> QED
        BY <4>1, <4>2, <4>3
    <3> QED
      BY <1>6, <3>1, <3>2
  <2>5. PICK k : /\ job' = [job EXCEPT ![c] = k]
                 /\ DOMAIN k = DOMAIN j /\ k.op = j.op /\ k.step = "write"
                 /\ \/ k.op.tool = "file_create" /\ k.after = k.op.content
                    \/ /\ k.op.tool = "file_edit" /\ k.before # None
                       /\ Edited(k.op, k.before).ok /\ k.after = Edited(k.op, k.before).text
    BY <2>4
  <2>6. Frame(c) /\ job'[c] = k
    BY <1>0, <2>2, <2>5 DEF Frame
  <2>8. Gated(c)'
    <3>1. Gated(c)
      BY DEF ToolInv
    <3> QED
      BY <2>2, <2>3, <2>5, <2>6, <3>1 DEF Gated
  <2>9. Prepared(c)'
    BY <2>5, <2>6 DEF Prepared
  <2> QED
    BY <1>1, <2>1, <2>2, <2>6, <2>8, <2>9 DEF ToolInv, Frame, Approved
<1>7. CASE ExternalWrite \/ UNCHANGED mcpVars \/ (Tick /\ UNCHANGED toolVars)
  <2>1. UNCHANGED <<order, claim, granted, pc, job, approved>>
    BY <1>7 DEF ExternalWrite, mcpVars, vars, Tick, toolVars
  <2>2. \A c \in Callers : Gated(c)' /\ Prepared(c)'
    BY <2>1 DEF ToolInv, Gated, Prepared
  <2> QED
    BY <1>0, <2>1, <2>2 DEF ToolInv, Approved
<1>8. ASSUME NEW c \in Callers, CreateRefused(c) \/ EditRefused(c) \/ WriteFile(c)
      PROVE  Answer(c) /\ UNCHANGED approved
  BY <1>8 DEF CreateRefused, EditRefused, WriteFile
<1> QED
  BY <1>2, <1>3, <1>4, <1>5, <1>6, <1>7, <1>8 DEF MCPNext

---------------------------------------------------------------------------
LEMMA GateHolds == StoreInv /\ ToolInv => AdmittedMatchesApproval
<1> SUFFICES ASSUME StoreInv, ToolInv, NEW c \in Callers, job[c] # None, pc[c] = "admitted"
             PROVE  \E op \in approved : /\ op.tool = job[c].op.tool
                                         /\ op.path = job[c].op.path
                                         /\ op.content = job[c].op.content
  BY DEF AdmittedMatchesApproval
<1>1. PICK grant \in granted : Backs(grant, claim[c])
  BY DEF ToolInv, Gated
<1>2. PICK op \in approved : grant.plan = PlanFor(op)
  BY DEF ToolInv, Approved
<1>3. PlanFor(op) = PlanFor(job[c].op)
  BY <1>1, <1>2 DEF Backs, ToolInv, Gated
<1>4. op \in Ops /\ job[c].op \in Ops
  BY DEF ToolInv, Gated
<1> QED
  BY <1>3, <1>4, ToolAssumption

LEMMA ToolInvariant == MCPSpec => [](StoreInv /\ ToolInv)
<1>1. MCPInit => StoreInv
  BY TypedInit, GrantInvInit DEF MCPInit, StoreInv
<1> QED
  BY <1>1, ToolInvInit, StoreInvNext, ToolInvNext, PTL DEF MCPSpec

\* However calls overlap, fail or crash, a file_create or file_edit that got past
\* consumeApprovalGrant is, tool, path and content, a call that a human or a trusted
\* host approved (hashFileWritePlan being free of collisions).
THEOREM AdmittedMatchesApprovalAlways == MCPSpec => []AdmittedMatchesApproval
BY ToolInvariant, GateHolds, PTL

WriteStep ==
  \A f \in Files : disk'[f] # disk[f] /\ edits' = edits =>
    \E c \in Callers, op \in approved :
      /\ pc[c] = "admitted" /\ pc'[c] = "idle"
      /\ op.tool = job[c].op.tool /\ op.path = f /\ op.content = job[c].op.content
      /\ \/ op.tool = "file_create" /\ disk'[f] = op.content
         \/ /\ op.tool = "file_edit" /\ job[c].before # None
            /\ Edited(job[c].op, job[c].before).ok
            /\ disk'[f] = Edited(job[c].op, job[c].before).text

LEMMA WriteStepNext == StoreInv /\ ToolInv /\ [MCPNext]_mcpVars => [WriteStep]_mcpVars
<1> SUFFICES ASSUME StoreInv, ToolInv, [MCPNext]_mcpVars,
                    NEW f \in Files, disk'[f] # disk[f], edits' = edits
             PROVE  \E c \in Callers, op \in approved :
                      /\ pc[c] = "admitted" /\ pc'[c] = "idle"
                      /\ op.tool = job[c].op.tool /\ op.path = f
                      /\ op.content = job[c].op.content
                      /\ \/ op.tool = "file_create" /\ disk'[f] = op.content
                         \/ /\ op.tool = "file_edit" /\ job[c].before # None
                            /\ Edited(job[c].op, job[c].before).ok
                            /\ disk'[f] = Edited(job[c].op, job[c].before).text
  BY DEF WriteStep
<1>1. ASSUME NEW c \in Callers, WriteFile(c)
      PROVE  \E op \in approved :
               /\ pc[c] = "admitted" /\ pc'[c] = "idle"
               /\ op.tool = job[c].op.tool /\ op.path = f
               /\ op.content = job[c].op.content
               /\ \/ op.tool = "file_create" /\ disk'[f] = op.content
                  \/ /\ op.tool = "file_edit" /\ job[c].before # None
                     /\ Edited(job[c].op, job[c].before).ok
                     /\ disk'[f] = Edited(job[c].op, job[c].before).text
  <2>1. /\ pc[c] = "admitted" /\ job[c] # None /\ job[c].step = "write"
        /\ disk' = [disk EXCEPT ![job[c].op.path] = job[c].after]
        /\ pc' = [pc EXCEPT ![c] = "idle"]
    BY <1>1 DEF WriteFile, Answer, Return
  <2>2. pc'[c] = "idle"
    BY <2>1 DEF StoreInv, Typed, TypeOK
  <2>3. f = job[c].op.path
    BY <2>1
  <2>4. PICK op \in approved : /\ op.tool = job[c].op.tool
                               /\ op.path = job[c].op.path
                               /\ op.content = job[c].op.content
    BY <2>1, GateHolds DEF AdmittedMatchesApproval
  <2>5. disk'[f] = job[c].after
    BY <2>1, <2>3
  <2> QED
    BY <2>1, <2>2, <2>3, <2>4, <2>5 DEF ToolInv, Prepared
<1>2. ~ExternalWrite
  BY DEF ExternalWrite, ToolInv
<1>3. disk' = disk \/ \E c \in Callers : WriteFile(c)
  BY <1>2, DiskOrEdits
<1> QED
  BY <1>1, <1>3

\* The tools change no file but in a WriteFile step of an admitted call, whose tool,
\* path and content somebody approved; a file_create writes just that content, and a
\* file_edit what its content and oldContent make of the text it had read.
THEOREM WritesAreApprovedAlways == MCPSpec => WritesAreApproved
<1>1. MCPSpec => [][WriteStep]_mcpVars
  BY ToolInvariant, WriteStepNext, PTL DEF MCPSpec
<1> QED
  BY <1>1 DEF WritesAreApproved, WriteStep
=============================================================================
