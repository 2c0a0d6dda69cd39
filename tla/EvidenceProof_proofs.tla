------------------------ MODULE EvidenceProof_proofs ------------------------
(***************************************************************************)
(* The four invariants of EvidenceProof, for any number of calls, files,   *)
(* alterations and versions of the project.  What a call has read so far   *)
(* still holds as long as nobody touched the bundle: the invariant says so *)
(* at every step of a call (CallInv), and of every proof that one left     *)
(* behind (ProofInv).                                                      *)
(***************************************************************************)
EXTENDS EvidenceProof, TLAPS

Steps == {"idle", "graph", "write", "manifest", "inspect", "list", "hash", "answer",
          "engineer", "seal", "previous", "store"}

Integrities == {"HASH_INTEGRITY_VERIFIED", "HASH_INTEGRITY_FAILED", "NOT_CHECKED"}
States == {"EVIDENCE_PRODUCED", "ENGINEERING_CHECKS_PASSED", "ENGINEERING_CHECKS_FAILED",
           "INSUFFICIENT_EVIDENCE", "INTEGRITY_VERIFIED"}

Proof ==
  [artifacts: Listing \cup {Absent}, manifestHash: Listing \cup {Absent},
   integrity: Integrities, checks: Checks, state: States, parent: Nat \cup {Absent},
   time: 0..MaxTime, seen: Nat, disturbed: BOOLEAN]

TypeOK ==
  /\ tree \in 0..MaxTrees
  /\ bundle \in Listing
  /\ manifest \in Listing \cup {Absent}
  /\ proofs \in Seq(Proof)
  /\ clock \in 0..MaxTime
  /\ step \in [Clients -> Steps]
  /\ op \in [Clients -> Call \cup {Absent}]
  /\ ops \in 0..MaxOps
  /\ alterations \in Nat
  /\ \A c \in Clients : step[c] # "idle" => op[c] \in Call

\* The first n files of the bundle are the ones the manifest lists.
Agrees(n) == \A i \in 1..n : bundle[Files[i]] = manifest[Files[i]]

\* The latest of the first n proofs is p.
LatestOf(p, n) ==
  n > 0 => p \in 1..n /\ \A q \in 1..n : proofs[q].time <= proofs[p].time

\* What a call has found out, if nobody touched the bundle since it began.
ListedInv(c) ==
  /\ step[c] \in {"list", "hash", "engineer", "seal", "previous", "store"}
  /\ op[c].kind \notin {"check", "proof"}
  /\ ~op[c].disturbed
  => op[c].listed = manifest /\ manifest # Absent

HashInv(c) ==
  step[c] = "hash" =>
    /\ op[c].checking # Absent
    /\ op[c].matches <= op[c].next - 1
    /\ ~op[c].disturbed =>
         /\ op[c].checking = manifest
         /\ op[c].matches = op[c].next - 1 <=> Agrees(op[c].next - 1)

HashedInv(c) ==
  step[c] \in {"answer", "engineer", "seal", "previous", "store"} /\ ~op[c].disturbed =>
    /\ op[c].checking = manifest
    /\ op[c].matches = Len(Files) <=> Intact

SealedInv(c) ==
  step[c] \in {"previous", "store"} /\ ~op[c].disturbed => op[c].sealed = manifest

BeginInv(c) ==
  /\ step[c] \in {"graph", "write", "manifest", "inspect", "list"} => op[c].matches = 0
  /\ step[c] \in {"graph", "manifest", "inspect", "list"} => op[c].next = 1
  /\ step[c] \in {"engineer", "seal", "previous", "store"} =>
       op[c].kind \notin {"check", "proof"}

LinkInv(c) ==
  step[c] = "store" => op[c].seen <= Len(proofs) /\ LatestOf(op[c].parent, op[c].seen)

CallInv(c) ==
  ListedInv(c) /\ HashInv(c) /\ HashedInv(c) /\ SealedInv(c) /\ BeginInv(c) /\ LinkInv(c)

ProofInv ==
  \A p \in 1..Len(proofs) :
    /\ ~proofs[p].disturbed => /\ proofs[p].manifestHash = proofs[p].artifacts
                               /\ proofs[p].integrity # "NOT_CHECKED"
    /\ proofs[p].state = DeriveState(proofs[p].integrity, proofs[p].checks)
    /\ proofs[p].seen <= p - 1
    /\ LatestOf(proofs[p].parent, proofs[p].seen)

Inv == TypeOK /\ ProofInv /\ \A c \in Clients : CallInv(c)

---------------------------------------------------------------------------
(* Facts about the constants and the records.                              *)

LEMMA FileFacts ==
  /\ Len(Files) \in Nat \ {0} /\ DOMAIN Files = 1..Len(Files)
  /\ \A i \in 1..Len(Files) : Files[i] \in Names
  /\ \A n \in Names : \E i \in 1..Len(Files) : n = Files[i]
<1>1. Files # <<>> /\ Files \in Seq(Names)
  BY EvidenceAssumption
<1>2. Len(Files) \in Nat /\ DOMAIN Files = 1..Len(Files)
  BY <1>1
<1>3. Len(Files) # 0
  BY <1>1
<1> QED
  BY <1>2, <1>3 DEF Names

LEMMA Bounds == MaxOps \in Nat /\ MaxTrees \in Nat /\ MaxAlterations \in Nat /\ MaxTime \in Nat
BY EvidenceAssumption

LEMMA AbsentFacts == Absent \notin Listing /\ Absent \notin Call
BY EvidenceAssumption

\* The bundle is intact when all of its files agree with the manifest.
LEMMA IntactAgrees ==
  ASSUME manifest # Absent
  PROVE  Intact <=> Agrees(Len(Files))
BY FileFacts DEF Intact, Agrees

LEMMA AgreesNext ==
  ASSUME NEW i \in 1..Len(Files)
  PROVE  Agrees(i) <=> Agrees(i - 1) /\ bundle[Files[i]] = manifest[Files[i]]
<1>1. i \in Nat \ {0}
  BY FileFacts
<1>2. \A j : j \in 1..i <=> j \in 1..(i - 1) \/ j = i
  BY <1>1
<1> QED
  BY <1>2 DEF Agrees

LEMMA NewOpType ==
  ASSUME TypeOK, ops < MaxOps, NEW kind \in {"change", "build", "check", "proof"},
         NEW target \in Nat \cup {Absent}
  PROVE  /\ NewOp(kind, target) \in Call
         /\ NewOp(kind, target).kind = kind
         /\ NewOp(kind, target).next = 1 /\ NewOp(kind, target).matches = 0
<1>1. ops + 1 \in 1..MaxOps /\ 0 \in 0..MaxTrees /\ 0 \in 0..MaxTime
  BY Bounds DEF TypeOK
<1>2. 1 \in DOMAIN Files
  BY FileFacts
<1> QED
  BY <1>1, <1>2 DEF NewOp, Call, Checks

LEMMA TextOfType ==
  ASSUME NEW o \in Call, NEW n
  PROVE  TextOf(o, n) \in Text
<1>1. o.run \in 0..MaxOps /\ o.drafted \in 0..MaxTrees /\ o.graphed \in 0..MaxTrees
      /\ 0 \in 0..MaxOps
  BY Bounds DEF Call
<1> QED
  BY <1>1 DEF TextOf, Text

LEMMA DisturbedCall ==
  ASSUME NEW o \in Call
  PROVE  LET new == [o EXCEPT !.disturbed = TRUE]
         IN /\ new \in Call /\ new.disturbed
            /\ new.kind = o.kind /\ new.next = o.next /\ new.matches = o.matches
            /\ new.checking = o.checking /\ new.parent = o.parent /\ new.seen = o.seen
BY DEF Call

---------------------------------------------------------------------------
(* A step of one call keeps what the others have found out, and a change   *)
(* of the bundle marks them.                                               *)

Grows == proofs' = proofs \/ \E p \in Proof : proofs' = Append(proofs, p)

LEMMA GrownProofs ==
  ASSUME TypeOK, Grows
  PROVE  /\ proofs' \in Seq(Proof) /\ Len(proofs) <= Len(proofs')
         /\ \A p \in 1..Len(proofs) : proofs'[p] = proofs[p]
<1>1. proofs \in Seq(Proof)
  BY DEF TypeOK
<1> QED
  BY <1>1 DEF Grows

LEMMA LatestStays ==
  ASSUME TypeOK, Grows, NEW p, NEW n \in 0..Len(proofs), LatestOf(p, n)
  PROVE  LatestOf(p, n)'
<1>1. Len(proofs) \in Nat
  BY DEF TypeOK
<1>2. \A q \in 1..n : proofs'[q] = proofs[q]
  BY <1>1, GrownProofs
<1> QED
  BY <1>2 DEF LatestOf

LEMMA OtherKeeps ==
  ASSUME TypeOK, NEW d \in Clients, CallInv(d), Grows, UNCHANGED <<bundle, manifest>>,
         op'[d] = op[d], step'[d] = step[d]
  PROVE  CallInv(d)'
<1>1. LinkInv(d)'
  <2> SUFFICES ASSUME step[d] = "store"
               PROVE  op[d].seen <= Len(proofs') /\ LatestOf(op[d].parent, op[d].seen)'
    BY DEF LinkInv, LatestOf
  <2>1. op[d].seen \in Nat /\ Len(proofs) \in Nat /\ Len(proofs') \in Nat
    <3>1. op[d] \in Call
      BY DEF TypeOK
    <3>2. proofs \in Seq(Proof) /\ proofs' \in Seq(Proof)
      BY GrownProofs DEF TypeOK
    <3> QED
      BY <3>1, <3>2 DEF Call
  <2>2. op[d].seen <= Len(proofs) /\ LatestOf(op[d].parent, op[d].seen)
    BY DEF CallInv, LinkInv
  <2>3. op[d].seen <= Len(proofs')
    BY <2>1, <2>2, GrownProofs
  <2>4. LatestOf(op[d].parent, op[d].seen)'
    <3> DEFINE n == op[d].seen
               p == op[d].parent
    <3>1. n \in 0..Len(proofs) /\ LatestOf(p, n)
      BY <2>1, <2>2
    <3>2. \A q \in 1..n : proofs'[q] = proofs[q]
      BY <2>1, <3>1, GrownProofs
    <3> QED
      BY <3>1, <3>2 DEF LatestOf
  <2> QED
    BY <2>3, <2>4
<1> QED
  BY <1>1 DEF CallInv, ListedInv, HashInv, HashedInv, SealedInv, BeginInv, Intact, Agrees

LEMMA OtherMarked ==
  ASSUME TypeOK, NEW d \in Clients, CallInv(d), UNCHANGED proofs,
         step'[d] = step[d], op' = Disturbing(op) \/ op'[d] = Disturbing(op)[d]
  PROVE  (step'[d] # "idle" => op'[d] \in Call) /\ CallInv(d)'
<1>1. CASE step[d] = "idle"
  BY <1>1 DEF CallInv, ListedInv, HashInv, HashedInv, SealedInv, BeginInv, LinkInv
<1>2. CASE step[d] # "idle"
  <2>1. op[d] \in Call /\ op[d] # Absent
    BY <1>2, AbsentFacts DEF TypeOK
  <2>2. op'[d] = [op[d] EXCEPT !.disturbed = TRUE]
    BY <2>1 DEF Disturbing
  <2>3. /\ op'[d] \in Call /\ op'[d].disturbed
        /\ op'[d].kind = op[d].kind /\ op'[d].next = op[d].next
        /\ op'[d].matches = op[d].matches /\ op'[d].checking = op[d].checking
        /\ op'[d].parent = op[d].parent /\ op'[d].seen = op[d].seen
    BY <2>1, <2>2, DisturbedCall
  <2>4. ListedInv(d)' /\ HashedInv(d)' /\ SealedInv(d)'
    BY <2>3 DEF ListedInv, HashedInv, SealedInv
  <2>5. HashInv(d)' /\ BeginInv(d)'
    BY <2>3 DEF CallInv, HashInv, BeginInv
  <2>6. LinkInv(d)'
    BY <2>3 DEF CallInv, LinkInv, LatestOf
  <2> QED
    BY <2>3, <2>4, <2>5, <2>6 DEF CallInv
<1> QED
  BY <1>1, <1>2

LEMMA IdleKnowsNothing ==
  ASSUME NEW c \in Clients, step[c] = "idle"
  PROVE  CallInv(c)
BY DEF CallInv, ListedInv, HashInv, HashedInv, SealedInv, BeginInv, LinkInv

\* A step of one call that leaves the bundle and the proofs alone.
Own(c, s, o) ==
  /\ step' = [step EXCEPT ![c] = s]
  /\ op' = [op EXCEPT ![c] = o]
  /\ UNCHANGED <<bundle, manifest, alterations>>
  /\ tree' \in 0..MaxTrees /\ clock' \in 0..MaxTime /\ ops' \in 0..MaxOps

LEMMA OwnType ==
  ASSUME TypeOK, NEW c \in Clients, NEW s \in Steps, NEW o \in Call \cup {Absent},
         s # "idle" => o \in Call, Own(c, s, o), Grows
  PROVE  TypeOK' /\ step'[c] = s /\ op'[c] = o
<1>1. step' \in [Clients -> Steps] /\ step'[c] = s
  BY DEF TypeOK, Own
<1>2. op' \in [Clients -> Call \cup {Absent}] /\ op'[c] = o
  BY DEF TypeOK, Own
<1>3. \A d \in Clients : step'[d] # "idle" => op'[d] \in Call
  <2> SUFFICES ASSUME NEW d \in Clients, step'[d] # "idle"
               PROVE  op'[d] \in Call
    OBVIOUS
  <2>1. CASE d = c
    BY <1>1, <1>2, <2>1
  <2>2. CASE d # c
    BY <2>2 DEF TypeOK, Own
  <2> QED
    BY <2>1, <2>2
<1>4. /\ bundle' \in Listing /\ manifest' \in Listing \cup {Absent} /\ alterations' \in Nat
      /\ tree' \in 0..MaxTrees /\ clock' \in 0..MaxTime /\ ops' \in 0..MaxOps
  BY DEF TypeOK, Own
<1>5. proofs' \in Seq(Proof)
  BY GrownProofs
<1> QED
  BY <1>1, <1>2, <1>3, <1>4, <1>5 DEF TypeOK

LEMMA OwnStep ==
  ASSUME Inv, NEW c \in Clients, NEW s \in Steps, NEW o \in Call \cup {Absent},
         s # "idle" => o \in Call, Own(c, s, o), Grows, ProofInv', CallInv(c)'
  PROVE  Inv'
<1>1. TypeOK'
  BY OwnType DEF Inv
<1>2. \A d \in Clients : CallInv(d)'
  <2> SUFFICES ASSUME NEW d \in Clients, d # c
               PROVE  CallInv(d)'
    OBVIOUS
  <2>1. op'[d] = op[d] /\ step'[d] = step[d] /\ UNCHANGED <<bundle, manifest>>
    BY DEF Inv, TypeOK, Own
  <2> QED
    BY <2>1, OtherKeeps DEF Inv
<1> QED
  BY <1>1, <1>2 DEF Inv

LEMMA SameProofs ==
  ASSUME ProofInv, UNCHANGED proofs
  PROVE  ProofInv'
BY DEF ProofInv, LatestOf

\* The call ends, or dies.
LEMMA LeaveStep ==
  ASSUME Inv, NEW c \in Clients, NEW from, Leave(c, from), Grows, ProofInv',
         UNCHANGED <<tree, bundle, manifest, clock, ops, alterations>>
  PROVE  Inv'
<1>1. Own(c, "idle", Absent)
  BY DEF Own, Leave, Go, Inv, TypeOK
<1>2. step'[c] = "idle"
  BY <1>1, OwnType DEF Inv, Steps
<1>3. CallInv(c)'
  BY <1>2 DEF CallInv, ListedInv, HashInv, HashedInv, SealedInv, BeginInv, LinkInv
<1> QED
  BY <1>1, <1>3, OwnStep DEF Steps

---------------------------------------------------------------------------
(* The steps of a call.                                                    *)

LEMMA BeginStep ==
  ASSUME Inv, NEW c \in Clients,
         BeginChange(c) \/ BeginBuild(c) \/ BeginCheck(c) \/ BeginProof(c)
  PROVE  Inv'
<1>1. Grows /\ UNCHANGED proofs
  BY DEF Grows, BeginChange, BeginBuild, BeginCheck, BeginProof, Begin
<1>2. PICK s \in {"graph", "inspect", "list"}, o \in Call :
        Own(c, s, o) /\ o.next = 1 /\ o.matches = 0 /\ (s = "list" => o.kind \in {"check", "proof"})
  <2>1. CASE BeginChange(c)
    <3> DEFINE o == [NewOp("change", Absent) EXCEPT !.drafted = tree']
    <3>1. /\ tree' \in 0..MaxTrees /\ ops' \in 0..MaxOps /\ clock' \in 0..MaxTime
          /\ ops < MaxOps
      BY <2>1, Bounds DEF BeginChange, Inv, TypeOK
    <3>2. NewOp("change", Absent) \in Call /\ NewOp("change", Absent).next = 1
          /\ NewOp("change", Absent).matches = 0
      BY <3>1, NewOpType DEF Inv
    <3>3. o \in Call /\ o.next = 1 /\ o.matches = 0
      BY <3>1, <3>2 DEF Call
    <3> HIDE DEF o
    <3>4. Own(c, "graph", o)
      BY <2>1, <3>1 DEF BeginChange, Go, Own, o
    <3> QED
      BY <3>3, <3>4
  <2>2. ASSUME NEW kind \in {"build", "check", "proof"}, NEW s \in {"inspect", "list"},
               NEW target \in Nat \cup {Absent}, Begin(c, kind, s, target),
               s = "list" => kind \in {"check", "proof"}
        PROVE  \E o \in Call : Own(c, s, o) /\ o.next = 1 /\ o.matches = 0
                               /\ (s = "list" => o.kind \in {"check", "proof"})
    <3>1. /\ tree' \in 0..MaxTrees /\ ops' \in 0..MaxOps /\ clock' \in 0..MaxTime
          /\ ops < MaxOps
      BY <2>2, Bounds DEF Begin, Inv, TypeOK
    <3>2. NewOp(kind, target) \in Call /\ NewOp(kind, target).next = 1
          /\ NewOp(kind, target).matches = 0 /\ NewOp(kind, target).kind = kind
      BY <3>1, NewOpType DEF Inv
    <3>3. Own(c, s, NewOp(kind, target))
      BY <2>2, <3>1 DEF Begin, Go, Own
    <3> QED
      BY <2>2, <3>2, <3>3
  <2>3. CASE BeginBuild(c)
    BY <2>2, <2>3 DEF BeginBuild
  <2>4. CASE BeginCheck(c)
    BY <2>2, <2>4 DEF BeginCheck
  <2>5. CASE BeginProof(c)
    <3>1. PICK p \in DOMAIN proofs : Begin(c, "proof", "list", p)
      BY <2>5 DEF BeginProof
    <3>2. p \in Nat
      BY DEF Inv, TypeOK
    <3> QED
      BY <2>2, <3>1, <3>2
  <2> QED
    BY <2>1, <2>3, <2>4, <2>5
<1>3. step'[c] = s /\ op'[c] = o
  BY <1>1, <1>2, OwnType DEF Inv, Steps
<1>4. CallInv(c)'
  BY <1>2, <1>3 DEF CallInv, ListedInv, HashInv, HashedInv, SealedInv, BeginInv, LinkInv
<1>5. ProofInv'
  BY <1>1, SameProofs DEF Inv
<1> QED
  BY <1>1, <1>2, <1>4, <1>5, OwnStep DEF Steps

LEMMA GraphStep ==
  ASSUME Inv, NEW c \in Clients, Graph(c)
  PROVE  Inv'
<1> DEFINE o == [op[c] EXCEPT !.graphed = tree']
<1>1. Grows /\ ProofInv'
  BY SameProofs DEF Inv, Grows, Graph
<1>2. step[c] = "graph" /\ op[c] \in Call
  BY DEF Graph, Go, Inv, TypeOK
<1>3. tree' \in 0..MaxTrees
  BY Bounds DEF Graph, Inv, TypeOK
<1>4. o \in Call /\ o.matches = op[c].matches
  BY <1>2, <1>3 DEF Call
<1> HIDE DEF o
<1>5. Own(c, "write", o)
  BY <1>3 DEF Graph, Go, Own, Inv, TypeOK, o
<1>6. step'[c] = "write" /\ op'[c] = o
  BY <1>1, <1>4, <1>5, OwnType DEF Inv, Steps
<1>7. CallInv(c)'
  BY <1>2, <1>4, <1>6
     DEF Inv, CallInv, ListedInv, HashInv, HashedInv, SealedInv, BeginInv, LinkInv
<1> QED
  BY <1>1, <1>4, <1>5, <1>7, OwnStep DEF Steps

\* A file of the bundle, or the manifest, is written: the other calls are marked.
LEMMA WriterStep ==
  ASSUME Inv, NEW c \in Clients, NEW s \in {"write", "manifest", "inspect"}, NEW o \in Call,
         step' = [step EXCEPT ![c] = s], op' = [Disturbing(op) EXCEPT ![c] = o],
         o.matches = 0, s \in {"manifest", "inspect"} => o.next = 1,
         bundle' \in Listing, manifest' \in Listing \cup {Absent},
         UNCHANGED <<tree, proofs, clock, ops, alterations>>
  PROVE  Inv'
<1>1. step'[c] = s /\ op'[c] = o
  BY DEF Inv, TypeOK, Disturbing
<1>2. CallInv(c)'
  BY <1>1 DEF CallInv, ListedInv, HashInv, HashedInv, SealedInv, BeginInv, LinkInv
<1>3. ASSUME NEW d \in Clients, d # c
      PROVE  (step'[d] # "idle" => op'[d] \in Call) /\ CallInv(d)'
  <2>1. step'[d] = step[d] /\ op'[d] = Disturbing(op)[d]
    BY <1>3 DEF Inv, TypeOK, Disturbing
  <2> QED
    BY <2>1, OtherMarked DEF Inv
<1>4. step' \in [Clients -> Steps]
  BY DEF Inv, TypeOK, Steps
<1>5. op' \in [Clients -> Call \cup {Absent}]
  <2>1. ASSUME NEW d \in Clients
        PROVE  Disturbing(op)[d] \in Call \cup {Absent}
    BY DisturbedCall DEF Disturbing, Inv, TypeOK
  <2>2. Disturbing(op) \in [Clients -> Call \cup {Absent}]
    BY <2>1 DEF Disturbing
  <2> QED
    BY <2>2
<1>6. \A d \in Clients : step'[d] # "idle" => op'[d] \in Call
  BY <1>1, <1>3
<1>7. TypeOK'
  BY <1>4, <1>5, <1>6 DEF Inv, TypeOK
<1> QED
  BY <1>2, <1>3, <1>7, SameProofs DEF Inv

LEMMA WriteStep ==
  ASSUME Inv, NEW c \in Clients, WriteEvidence(c)
  PROVE  Inv'
<1> DEFINE last == op[c].next = Len(Files)
           o == [op[c] EXCEPT !.next = IF last THEN 1 ELSE @ + 1]
           s == IF last THEN "manifest" ELSE "write"
<1>1. step[c] = "write" /\ op[c] \in Call
  BY DEF WriteEvidence, Go, Inv, TypeOK
<1>2. op[c].next \in DOMAIN Files /\ op[c].matches = 0
  BY <1>1 DEF Call, Inv, CallInv, BeginInv
<1>3. (IF last THEN 1 ELSE op[c].next + 1) \in DOMAIN Files
  BY <1>2, FileFacts
<1>4. o \in Call /\ o.matches = 0 /\ (last => o.next = 1)
  <2>1. o \in Call
    BY <1>1, <1>3, SMTT(60) DEF Call
  <2>2. o.matches = op[c].matches
    BY <1>1 DEF Call
  <2>3. o.next = IF last THEN 1 ELSE op[c].next + 1
    BY <1>1 DEF Call
  <2> QED
    BY <1>2, <2>1, <2>2, <2>3
<1>5. bundle' \in Listing
  <2>1. TextOf(op[c], Files[op[c].next]) \in Text
    BY <1>1, TextOfType
  <2>2. bundle' = [bundle EXCEPT ![Files[op[c].next]] = TextOf(op[c], Files[op[c].next])]
    BY DEF WriteEvidence
  <2>3. bundle \in [Names -> Text \cup {Absent}]
    BY DEF Inv, TypeOK, Listing
  <2> QED
    BY <2>1, <2>2, <2>3 DEF Listing
<1>6. /\ step' = [step EXCEPT ![c] = s] /\ op' = [Disturbing(op) EXCEPT ![c] = o]
      /\ UNCHANGED <<tree, manifest, proofs, clock, ops, alterations>>
  BY DEF WriteEvidence, Go
<1>7. manifest' \in Listing \cup {Absent}
  BY <1>6 DEF Inv, TypeOK
<1>8. s \in {"write", "manifest", "inspect"} /\ (s \in {"manifest", "inspect"} => o.next = 1)
  BY <1>4
<1> HIDE DEF o, s
<1> QED
  BY <1>4, <1>5, <1>6, <1>7, <1>8, WriterStep

LEMMA ManifestStep ==
  ASSUME Inv, NEW c \in Clients, WriteManifest(c)
  PROVE  Inv'
<1>1. step[c] = "manifest" /\ op[c] \in Call
  BY DEF WriteManifest, Go, Inv, TypeOK
<1>2. op[c].next = 1 /\ op[c].matches = 0
  BY <1>1 DEF Inv, CallInv, BeginInv
<1>3. manifest' \in Listing
  <2>1. \A n \in Names : TextOf(op[c], n) \in Text
    BY <1>1, TextOfType
  <2> QED
    BY <2>1 DEF WriteManifest, Listing
<1>4. /\ step' = [step EXCEPT ![c] = "inspect"] /\ op' = [Disturbing(op) EXCEPT ![c] = op[c]]
      /\ UNCHANGED <<tree, bundle, proofs, clock, ops, alterations>>
  BY DEF WriteManifest, Go
<1>5. bundle' \in Listing
  BY <1>4 DEF Inv, TypeOK
<1> QED
  BY <1>1, <1>2, <1>3, <1>4, <1>5, WriterStep

LEMMA InspectStep ==
  ASSUME Inv, NEW c \in Clients, Inspect(c)
  PROVE  Inv'
<1>1. Grows /\ ProofInv' /\ UNCHANGED <<tree, bundle, manifest, clock, ops, alterations>>
  BY SameProofs DEF Inv, Grows, Inspect
<1>2. CASE manifest = Absent
  BY <1>1, <1>2, LeaveStep DEF Inspect
<1>3. CASE manifest # Absent
  <2> DEFINE o == [op[c] EXCEPT !.listed = manifest]
  <2>1. step[c] = "inspect" /\ op[c] \in Call
    BY <1>3 DEF Inspect, Go, Inv, TypeOK
  <2>2. op[c].matches = 0 /\ op[c].next = 1
    BY <2>1 DEF Inv, CallInv, BeginInv
  <2>3. o \in Call /\ o.matches = 0 /\ o.next = 1 /\ o.listed = manifest
    BY <2>1, <2>2 DEF Call, Inv, TypeOK
  <2> HIDE DEF o
  <2>4. Own(c, "list", o)
    BY <1>1, <1>3 DEF Inspect, Go, Own, Inv, TypeOK, o
  <2>5. step'[c] = "list" /\ op'[c] = o
    BY <1>1, <2>3, <2>4, OwnType DEF Inv, Steps
  <2>6. CallInv(c)'
    BY <1>1, <1>3, <2>3, <2>5
       DEF CallInv, ListedInv, HashInv, HashedInv, SealedInv, BeginInv, LinkInv
  <2> QED
    BY <1>1, <2>3, <2>4, <2>6, OwnStep DEF Steps
<1> QED
  BY <1>2, <1>3

\* Where a call goes once its hash check is over.
LEMMA AfterSteps ==
  ASSUME NEW o
  PROVE  /\ After(o) \in {"answer", "engineer"}
         /\ After(o) = "engineer" => o.kind \notin {"check", "proof"}
BY DEF After

LEMMA ListStep ==
  ASSUME Inv, NEW c \in Clients, List(c)
  PROVE  Inv'
<1> DEFINE o == [op[c] EXCEPT !.checking = manifest]
           s == IF manifest = Absent THEN After(op[c]) ELSE "hash"
<1>1. Grows /\ ProofInv' /\ UNCHANGED <<tree, bundle, manifest, clock, ops, alterations>>
  BY SameProofs DEF Inv, Grows, List
<1>2. step[c] = "list" /\ op[c] \in Call
  BY DEF List, Go, Inv, TypeOK
<1>3. op[c].matches = 0 /\ op[c].next = 1
  BY <1>2 DEF Inv, CallInv, BeginInv
<1>4. /\ o \in Call /\ o.matches = 0 /\ o.next = 1 /\ o.checking = manifest
      /\ o.kind = op[c].kind /\ o.disturbed = op[c].disturbed /\ o.listed = op[c].listed
  BY <1>2, <1>3 DEF Call, Inv, TypeOK
<1>5. s \in {"hash", "answer", "engineer"} /\ (s = "engineer" => o.kind \notin {"check", "proof"})
      /\ (s = "hash" <=> manifest # Absent)
  BY <1>4, AfterSteps
<1>6. step' = [step EXCEPT ![c] = s] /\ op' = [op EXCEPT ![c] = o]
  BY DEF List, Go
<1> HIDE DEF o, s
<1>7. Own(c, s, o)
  BY <1>1, <1>6 DEF Own, Inv, TypeOK
<1>8. step'[c] = s /\ op'[c] = o
  BY <1>1, <1>4, <1>5, <1>7, OwnType DEF Inv, Steps
<1>9. CallInv(c)'
  <2>1. ListedInv(c)'
    BY <1>1, <1>2, <1>4, <1>8 DEF Inv, CallInv, ListedInv
  <2>2. HashInv(c)'
    <3>1. Agrees(0)'
      BY DEF Agrees
    <3> QED
      BY <1>1, <1>4, <1>5, <1>8, <3>1 DEF HashInv
  <2>3. HashedInv(c)'
    BY <1>1, <1>4, <1>5, <1>8, FileFacts DEF HashedInv, Intact
  <2> QED
    BY <1>4, <1>5, <1>8, <2>1, <2>2, <2>3 DEF CallInv, SealedInv, BeginInv, LinkInv
<1> QED
  BY <1>1, <1>4, <1>5, <1>7, <1>9, OwnStep DEF Steps

LEMMA HashStep ==
  ASSUME Inv, NEW c \in Clients, Hash(c)
  PROVE  Inv'
<1> DEFINE i == op[c].next
           last == i = Len(Files)
           hit == bundle[Files[i]] = op[c].checking[Files[i]]
           o == [op[c] EXCEPT !.next = IF last THEN 1 ELSE @ + 1,
                              !.matches = IF hit THEN @ + 1 ELSE @]
           s == IF last THEN After(op[c]) ELSE "hash"
<1>1. Grows /\ ProofInv' /\ UNCHANGED <<tree, bundle, manifest, clock, ops, alterations>>
  BY SameProofs DEF Inv, Grows, Hash
<1>2. step[c] = "hash" /\ op[c] \in Call
  BY DEF Hash, Go, Inv, TypeOK
<1>3. i \in 1..Len(Files) /\ Len(Files) \in Nat /\ op[c].matches \in Nat
  BY <1>2, FileFacts DEF Call
<1>4. /\ op[c].checking # Absent /\ op[c].matches <= i - 1
      /\ ~op[c].disturbed => /\ op[c].checking = manifest
                             /\ op[c].matches = i - 1 <=> Agrees(i - 1)
  BY <1>2 DEF Inv, CallInv, HashInv
<1>5. (IF last THEN 1 ELSE i + 1) \in DOMAIN Files
      /\ (IF hit THEN op[c].matches + 1 ELSE op[c].matches) \in Nat
  BY <1>3, FileFacts
<1>6. /\ o \in Call
      /\ o.next = (IF last THEN 1 ELSE i + 1)
      /\ o.matches = (IF hit THEN op[c].matches + 1 ELSE op[c].matches)
      /\ o.kind = op[c].kind /\ o.disturbed = op[c].disturbed /\ o.listed = op[c].listed
      /\ o.checking = op[c].checking
  BY <1>2, <1>5 DEF Call
<1>7. o.matches <= i /\ (~o.disturbed => (o.matches = i <=> Agrees(i)))
  <2>1. o.matches <= i
    BY <1>3, <1>4, <1>6
  <2>2. ASSUME ~o.disturbed
        PROVE  o.matches = i <=> Agrees(i)
    <3>1. Agrees(i) <=> Agrees(i - 1) /\ bundle[Files[i]] = manifest[Files[i]]
      BY <1>3, AgreesNext
    <3>2. hit <=> bundle[Files[i]] = manifest[Files[i]]
      BY <1>4, <1>6, <2>2
    <3>3. op[c].matches = i - 1 <=> Agrees(i - 1)
      BY <1>4, <1>6, <2>2
    <3>4. o.matches = i <=> hit /\ op[c].matches = i - 1
      BY <1>3, <1>4, <1>6
    <3> QED
      BY <3>1, <3>2, <3>3, <3>4
  <2> QED
    BY <2>1, <2>2
<1>8. s \in {"hash", "answer", "engineer"} /\ (s = "engineer" => o.kind \notin {"check", "proof"})
      /\ (s = "hash" <=> ~last)
  BY <1>6, AfterSteps
<1>9. step' = [step EXCEPT ![c] = s]
  BY DEF Hash, Go
<1>10. op' = [op EXCEPT ![c] = o]
  BY DEF Hash
<1> HIDE DEF o, s, hit
<1>11. Own(c, s, o)
  BY <1>1, <1>9, <1>10 DEF Own, Inv, TypeOK
<1>12. step'[c] = s /\ op'[c] = o
  BY <1>1, <1>6, <1>8, <1>11, OwnType DEF Inv, Steps
<1>13. CallInv(c)'
  <2>1. ListedInv(c)'
    BY <1>1, <1>2, <1>6, <1>12 DEF Inv, CallInv, ListedInv
  <2>2. \A n : Agrees(n)' <=> Agrees(n)
    BY <1>1 DEF Agrees
  <2>3. HashInv(c)'
    <3>1. CASE last
      BY <1>8, <1>12, <3>1 DEF HashInv
    <3>2. CASE ~last
      <4>1. o.next - 1 = i
        BY <1>3, <1>6, <3>2
      <4> QED
        BY <1>1, <1>4, <1>6, <1>7, <1>12, <2>2, <4>1 DEF HashInv
    <3> QED
      BY <3>1, <3>2
  <2>4. HashedInv(c)'
    <3>1. CASE ~last
      BY <1>8, <1>12, <3>1 DEF HashedInv
    <3>2. CASE last /\ ~o.disturbed
      <4>1. manifest # Absent /\ o.checking = manifest
        BY <1>4, <1>6, <3>2
      <4>2. o.matches = Len(Files) <=> Intact
        BY <1>7, <3>2, <4>1, IntactAgrees
      <4>3. Intact' <=> Intact
        BY <1>1 DEF Intact
      <4> QED
        BY <1>1, <1>12, <4>1, <4>2, <4>3 DEF HashedInv
    <3>3. CASE o.disturbed
      BY <1>12, <3>3 DEF HashedInv
    <3> QED
      BY <3>1, <3>2, <3>3
  <2> QED
    BY <1>6, <1>8, <1>12, <2>1, <2>3, <2>4 DEF CallInv, SealedInv, BeginInv, LinkInv
<1> QED
  BY <1>1, <1>6, <1>8, <1>11, <1>13, OwnStep DEF Steps

LEMMA EngineerStep ==
  ASSUME Inv, NEW c \in Clients, Engineer(c)
  PROVE  Inv'
<1>1. Grows /\ ProofInv' /\ UNCHANGED <<tree, bundle, manifest, clock, ops, alterations>>
  BY SameProofs DEF Inv, Grows, Engineer
<1>2. PICK checks \in Checks : op' = [op EXCEPT ![c].checks = checks]
  BY DEF Engineer
<1> DEFINE o == [op[c] EXCEPT !.checks = checks]
<1>3. step[c] = "engineer" /\ op[c] \in Call
  BY DEF Engineer, Go, Inv, TypeOK
<1>4. /\ o \in Call /\ o.kind = op[c].kind /\ o.disturbed = op[c].disturbed
      /\ o.listed = op[c].listed /\ o.checking = op[c].checking /\ o.matches = op[c].matches
  BY <1>3 DEF Call
<1>5. step' = [step EXCEPT ![c] = "seal"] /\ op' = [op EXCEPT ![c] = o]
  BY <1>2 DEF Engineer, Go
<1> HIDE DEF o
<1>6. Own(c, "seal", o)
  BY <1>1, <1>5 DEF Own, Inv, TypeOK
<1>7. step'[c] = "seal" /\ op'[c] = o
  BY <1>1, <1>4, <1>6, OwnType DEF Inv, Steps
<1>8. ListedInv(c)' /\ HashedInv(c)' /\ BeginInv(c)'
  BY <1>1, <1>3, <1>4, <1>7
     DEF Inv, CallInv, ListedInv, HashedInv, BeginInv, Intact
<1>9. CallInv(c)'
  BY <1>7, <1>8 DEF CallInv, HashInv, SealedInv, LinkInv
<1> QED
  BY <1>1, <1>4, <1>6, <1>9, OwnStep DEF Steps

LEMMA SealStep ==
  ASSUME Inv, NEW c \in Clients, Seal(c)
  PROVE  Inv'
<1> DEFINE o == [op[c] EXCEPT !.sealed = manifest]
<1>1. Grows /\ ProofInv' /\ UNCHANGED <<tree, bundle, manifest, clock, ops, alterations>>
  BY SameProofs DEF Inv, Grows, Seal
<1>2. step[c] = "seal" /\ op[c] \in Call
  BY DEF Seal, Go, Inv, TypeOK
<1>3. /\ o \in Call /\ o.kind = op[c].kind /\ o.disturbed = op[c].disturbed
      /\ o.listed = op[c].listed /\ o.checking = op[c].checking /\ o.matches = op[c].matches
      /\ o.sealed = manifest
  BY <1>2 DEF Call, Inv, TypeOK
<1>4. step' = [step EXCEPT ![c] = "previous"] /\ op' = [op EXCEPT ![c] = o]
  BY DEF Seal, Go
<1> HIDE DEF o
<1>5. Own(c, "previous", o)
  BY <1>1, <1>4 DEF Own, Inv, TypeOK
<1>6. step'[c] = "previous" /\ op'[c] = o
  BY <1>1, <1>3, <1>5, OwnType DEF Inv, Steps
<1>7. ListedInv(c)' /\ HashedInv(c)' /\ BeginInv(c)'
  BY <1>1, <1>2, <1>3, <1>6
     DEF Inv, CallInv, ListedInv, HashedInv, BeginInv, Intact
<1>8. CallInv(c)'
  BY <1>1, <1>3, <1>6, <1>7 DEF CallInv, HashInv, SealedInv, LinkInv
<1> QED
  BY <1>1, <1>3, <1>5, <1>8, OwnStep DEF Steps

LEMMA LatestType ==
  ASSUME TypeOK, NEW p \in Latest
  PROVE  p \in Nat \cup {Absent} /\ LatestOf(p, Len(proofs))
<1>1. Len(proofs) \in Nat /\ DOMAIN proofs = 1..Len(proofs)
  BY DEF TypeOK
<1>2. CASE proofs = <<>>
  <2>1. Len(proofs) = 0
    BY <1>2
  <2> QED
    BY <1>2, <2>1 DEF Latest, LatestOf
<1>3. CASE proofs # <<>>
  BY <1>1, <1>3 DEF Latest, LatestOf
<1> QED
  BY <1>2, <1>3

LEMMA PreviousStep ==
  ASSUME Inv, NEW c \in Clients, Previous(c)
  PROVE  Inv'
<1>1. Grows /\ ProofInv' /\ UNCHANGED <<tree, bundle, manifest, proofs, ops, alterations>>
  BY SameProofs DEF Inv, Grows, Previous
<1>2. PICK p \in Latest :
        op' = [op EXCEPT ![c].parent = p, ![c].time = clock', ![c].seen = Len(proofs)]
  BY DEF Previous
<1> DEFINE o == [op[c] EXCEPT !.parent = p, !.time = clock', !.seen = Len(proofs)]
<1>3. step[c] = "previous" /\ op[c] \in Call
  BY DEF Previous, Go, Inv, TypeOK
<1>4. /\ clock' \in 0..MaxTime /\ Len(proofs) \in Nat
      /\ p \in Nat \cup {Absent} /\ LatestOf(p, Len(proofs))
  BY LatestType, Bounds DEF Previous, Inv, TypeOK
<1>5. /\ o \in Call /\ o.kind = op[c].kind /\ o.disturbed = op[c].disturbed
      /\ o.listed = op[c].listed /\ o.checking = op[c].checking /\ o.matches = op[c].matches
      /\ o.sealed = op[c].sealed /\ o.parent = p /\ o.seen = Len(proofs)
  BY <1>3, <1>4 DEF Call
<1>6. step' = [step EXCEPT ![c] = "store"] /\ op' = [op EXCEPT ![c] = o]
  BY <1>2 DEF Previous, Go
<1> HIDE DEF o
<1>7. Own(c, "store", o)
  BY <1>1, <1>4, <1>6 DEF Own, Inv, TypeOK
<1>8. step'[c] = "store" /\ op'[c] = o
  BY <1>1, <1>5, <1>7, OwnType DEF Inv, Steps
<1>9. ListedInv(c)' /\ HashedInv(c)' /\ BeginInv(c)' /\ SealedInv(c)'
  BY <1>1, <1>3, <1>5, <1>8
     DEF Inv, CallInv, ListedInv, HashedInv, BeginInv, SealedInv, Intact
<1>10. LinkInv(c)'
  BY <1>1, <1>4, <1>5, <1>8 DEF LinkInv, LatestOf
<1>11. CallInv(c)'
  BY <1>8, <1>9, <1>10 DEF CallInv, HashInv
<1> QED
  BY <1>1, <1>5, <1>7, <1>11, OwnStep DEF Steps

LEMMA IntegrityValues ==
  ASSUME NEW o
  PROVE  /\ Integrity(o) \in Integrities
         /\ o.checking # Absent => Integrity(o) # "NOT_CHECKED"
         /\ Integrity(o) = "HASH_INTEGRITY_VERIFIED" <=> Status(o) = "verified"
BY DEF Integrity, Integrities

LEMMA StateValues ==
  ASSUME NEW integrity, NEW checks \in Checks
  PROVE  /\ DeriveState(integrity, checks) \in States
         /\ integrity # "HASH_INTEGRITY_VERIFIED"
            => DeriveState(integrity, checks) = "EVIDENCE_PRODUCED"
BY DEF DeriveState, Checks, States

\* The proof a call leaves says what the call knew.
LEMMA ProofOfType ==
  ASSUME NEW o \in Call
  PROVE  /\ ProofOf(o) \in Proof
         /\ ProofOf(o).disturbed = o.disturbed
         /\ ProofOf(o).artifacts = o.listed /\ ProofOf(o).manifestHash = o.sealed
         /\ ProofOf(o).integrity = Integrity(o)
         /\ ProofOf(o).state = DeriveState(ProofOf(o).integrity, ProofOf(o).checks)
         /\ ProofOf(o).parent = o.parent /\ ProofOf(o).seen = o.seen
<1>1. o.checks \in Checks /\ Integrity(o) \in Integrities
  BY IntegrityValues DEF Call
<1>2. DeriveState(Integrity(o), o.checks) \in States
  BY <1>1, StateValues
<1> QED
  BY <1>1, <1>2 DEF ProofOf, Proof, Call

LEMMA StoreStep ==
  ASSUME Inv, NEW c \in Clients, Store(c)
  PROVE  Inv'
<1> DEFINE new == ProofOf(op[c])
<1>1. step[c] = "store" /\ op[c] \in Call
  BY DEF Store, Leave, Go, Inv, TypeOK
<1>2. /\ Leave(c, "store") /\ proofs' = Append(proofs, new)
      /\ UNCHANGED <<tree, bundle, manifest, clock, ops, alterations>>
  BY DEF Store
<1>3. new \in Proof
  BY <1>1, ProofOfType
<1>4. Grows
  BY <1>2, <1>3 DEF Grows
<1>5. /\ proofs \in Seq(Proof) /\ Len(proofs) \in Nat
      /\ Len(proofs') = Len(proofs) + 1 /\ proofs'[Len(proofs) + 1] = new
  BY <1>2, <1>3 DEF Inv, TypeOK
<1>6. /\ new.disturbed = op[c].disturbed
      /\ new.artifacts = op[c].listed /\ new.manifestHash = op[c].sealed
      /\ new.integrity = Integrity(op[c])
      /\ new.state = DeriveState(new.integrity, new.checks)
      /\ new.parent = op[c].parent /\ new.seen = op[c].seen
  BY <1>1, ProofOfType
<1> HIDE DEF new
<1>7. \A p \in 1..Len(proofs) : proofs'[p] = proofs[p]
  BY <1>4, GrownProofs DEF Inv
<1>8. ~new.disturbed => new.manifestHash = new.artifacts /\ new.integrity # "NOT_CHECKED"
  <2> SUFFICES ASSUME ~op[c].disturbed
               PROVE  op[c].sealed = op[c].listed /\ Integrity(op[c]) # "NOT_CHECKED"
    BY <1>6
  <2>1. op[c].listed = manifest /\ manifest # Absent
    BY <1>1 DEF Inv, CallInv, ListedInv, BeginInv
  <2>2. op[c].sealed = manifest /\ op[c].checking = manifest
    BY <1>1 DEF Inv, CallInv, HashedInv, SealedInv
  <2> QED
    BY <2>1, <2>2, IntegrityValues
<1>9. op[c].seen \in 0..Len(proofs) /\ LatestOf(op[c].parent, op[c].seen)
  BY <1>1, <1>5 DEF Inv, CallInv, LinkInv, Call
<1>10. op[c].seen > 0 => /\ op[c].parent \in 1..op[c].seen
                         /\ \A q \in 1..op[c].seen : proofs'[q].time <= proofs'[op[c].parent].time
  BY <1>5, <1>7, <1>9 DEF LatestOf
<1>11. ASSUME NEW p \in 1..Len(proofs')
       PROVE  /\ ~proofs'[p].disturbed => /\ proofs'[p].manifestHash = proofs'[p].artifacts
                                          /\ proofs'[p].integrity # "NOT_CHECKED"
              /\ proofs'[p].state = DeriveState(proofs'[p].integrity, proofs'[p].checks)
              /\ proofs'[p].seen <= p - 1
              /\ proofs'[p].seen > 0 =>
                   /\ proofs'[p].parent \in 1..proofs'[p].seen
                   /\ \A q \in 1..proofs'[p].seen : proofs'[q].time <= proofs'[proofs'[p].parent].time
  <2>1. CASE p = Len(proofs) + 1
    <3>1. proofs'[p] = new
      BY <1>5, <2>1
    <3>2. new.seen <= p - 1
      BY <1>5, <1>6, <1>9, <2>1
    <3> QED
      BY <1>6, <1>8, <1>9, <1>10, <3>1, <3>2
  <2>2. CASE p # Len(proofs) + 1
    <3>1. p \in 1..Len(proofs)
      BY <1>5, <2>2
    <3>2. proofs'[p] = proofs[p] /\ proofs[p] \in Proof
      BY <1>5, <1>7, <3>1
    <3>3. /\ ~proofs[p].disturbed => /\ proofs[p].manifestHash = proofs[p].artifacts
                                     /\ proofs[p].integrity # "NOT_CHECKED"
          /\ proofs[p].state = DeriveState(proofs[p].integrity, proofs[p].checks)
          /\ proofs[p].seen <= p - 1
          /\ LatestOf(proofs[p].parent, proofs[p].seen)
      BY <3>1 DEF Inv, ProofInv
    <3>4. proofs[p].seen \in 0..Len(proofs)
      <4>1. proofs[p].seen \in Nat
        BY <3>2 DEF Proof
      <4> QED
        BY <1>5, <3>1, <3>3, <4>1
    <3>5. ASSUME proofs[p].seen > 0
          PROVE  /\ proofs[p].parent \in 1..proofs[p].seen
                 /\ \A q \in 1..proofs[p].seen : proofs'[q].time <= proofs'[proofs[p].parent].time
      <4>1. /\ proofs[p].parent \in 1..proofs[p].seen
            /\ \A q \in 1..proofs[p].seen : proofs[q].time <= proofs[proofs[p].parent].time
        BY <3>3, <3>5 DEF LatestOf
      <4>2. proofs[p].parent \in 1..Len(proofs)
        BY <1>5, <3>4, <4>1
      <4>3. \A q \in 1..proofs[p].seen : q \in 1..Len(proofs)
        BY <1>5, <3>4
      <4>4. /\ proofs'[proofs[p].parent] = proofs[proofs[p].parent]
            /\ \A q \in 1..proofs[p].seen : proofs'[q] = proofs[q]
        BY <1>7, <4>2, <4>3
      <4> QED
        BY <4>1, <4>4
    <3> QED
      <4>1. proofs'[p] = proofs[p]
        BY <3>2
      <4> QED
        BY <3>2, <3>3, <3>5, <4>1
  <2> QED
    BY <2>1, <2>2
<1>12. ProofInv'
  BY <1>11 DEF ProofInv, LatestOf
<1> QED
  BY <1>2, <1>4, <1>12, LeaveStep

LEMMA AlterStep ==
  ASSUME Inv, Alter
  PROVE  Inv'
<1>1. UNCHANGED <<tree, proofs, clock, step, ops>> /\ op' = Disturbing(op)
  BY DEF Alter
<1>2. bundle' \in Listing
  <2>1. bundle \in [Names -> Text \cup {Absent}]
    BY DEF Inv, TypeOK, Listing
  <2>2. ASSUME NEW n \in Names, NEW text \in {Altered, Absent},
               bundle' = [bundle EXCEPT ![n] = text]
        PROVE  bundle' \in Listing
    <3>1. text \in Text \cup {Absent}
      BY DEF Text
    <3> QED
      BY <2>1, <2>2, <3>1 DEF Listing
  <2> QED
    BY <2>2 DEF Alter, Inv, TypeOK
<1>3. manifest' \in Listing \cup {Absent} /\ alterations' \in Nat
  BY DEF Alter, Inv, TypeOK
<1>4. \A d \in Clients : (step'[d] # "idle" => op'[d] \in Call) /\ CallInv(d)'
  BY <1>1, OtherMarked DEF Inv
<1>5. op' \in [Clients -> Call \cup {Absent}]
  <2>1. ASSUME NEW d \in Clients
        PROVE  Disturbing(op)[d] \in Call \cup {Absent}
    BY DisturbedCall DEF Disturbing, Inv, TypeOK
  <2> QED
    BY <1>1, <2>1 DEF Disturbing
<1>6. TypeOK'
  BY <1>1, <1>2, <1>3, <1>4, <1>5 DEF Inv, TypeOK
<1> QED
  BY <1>1, <1>4, <1>6, SameProofs DEF Inv

---------------------------------------------------------------------------
LEMMA InvInit == EvidenceInit => Inv
<1> SUFFICES ASSUME EvidenceInit
             PROVE  Inv
  OBVIOUS
<1>1. 0 \in 0..MaxTrees /\ 0 \in 0..MaxTime /\ 0 \in 0..MaxOps
  BY Bounds
<1>2. Earlier \in Listing
  BY <1>1 DEF Earlier, Listing, Text
<1>3. EarlierProof \in Proof
  BY <1>1, <1>2 DEF EarlierProof, Proof, Checks, Integrities, States
<1>4. [n \in Names |-> Absent] \in Listing
  BY DEF Listing
<1>5. bundle \in Listing /\ manifest \in Listing \cup {Absent}
  BY <1>2, <1>4 DEF EvidenceInit
<1>6. proofs \in Seq(Proof) /\ ProofInv
  <2>1. CASE proofs = <<>>
    BY <2>1 DEF ProofInv
  <2>2. CASE proofs = <<EarlierProof>>
    <3>1. proofs \in Seq(Proof) /\ Len(proofs) = 1 /\ proofs[1] = EarlierProof
      BY <1>3, <2>2
    <3>2. ASSUME NEW p \in 1..Len(proofs)
          PROVE  proofs[p] = EarlierProof /\ p = 1
      BY <3>1, <3>2
    <3>3. /\ EarlierProof.manifestHash = EarlierProof.artifacts
          /\ EarlierProof.integrity # "NOT_CHECKED" /\ EarlierProof.seen = 0
          /\ EarlierProof.state = DeriveState(EarlierProof.integrity, EarlierProof.checks)
      BY DEF EarlierProof, DeriveState
    <3> QED
      BY <3>1, <3>2, <3>3 DEF ProofInv, LatestOf
  <2> QED
    BY <2>1, <2>2 DEF EvidenceInit
<1>7. TypeOK
  BY <1>1, <1>5, <1>6 DEF EvidenceInit, TypeOK, Steps
<1>8. \A c \in Clients : CallInv(c)
  BY IdleKnowsNothing DEF EvidenceInit
<1> QED
  BY <1>6, <1>7, <1>8 DEF Inv

LEMMA InvNext == Inv /\ [EvidenceNext]_evidenceVars => Inv'
<1> SUFFICES ASSUME Inv, [EvidenceNext]_evidenceVars
             PROVE  Inv'
  OBVIOUS
<1>1. ASSUME NEW c \in Clients, Answer(c) \/ Die(c)
      PROVE  Inv'
  <2>1. Grows /\ ProofInv' /\ UNCHANGED <<tree, bundle, manifest, clock, ops, alterations>>
    BY <1>1, SameProofs DEF Inv, Grows, Answer, Die
  <2>2. PICK from : Leave(c, from)
    BY <1>1 DEF Answer, Die
  <2> QED
    BY <2>1, <2>2, LeaveStep
<1>2. CASE UNCHANGED evidenceVars
  BY <1>2 DEF evidenceVars, Inv, TypeOK, ProofInv, LatestOf, CallInv, ListedInv, HashInv,
              HashedInv, SealedInv, BeginInv, LinkInv, Agrees, Intact
<1> QED
  BY <1>1, <1>2, BeginStep, GraphStep, WriteStep, ManifestStep, InspectStep, ListStep,
     HashStep, EngineerStep, SealStep, PreviousStep, StoreStep, AlterStep DEF EvidenceNext

LEMMA EvidenceInvariant == EvidenceSpec => []Inv
BY InvInit, InvNext, PTL DEF EvidenceSpec

\* VerifiedMeansIntact: verifyEvidence and verifyProof notice every alteration made before
\* they began and every rewrite that died half way, and report nothing else.
THEOREM VerifiedMeansIntactAlways == EvidenceSpec => []VerifiedMeansIntact
<1>1. Inv => VerifiedMeansIntact
  <2> SUFFICES ASSUME Inv, NEW c \in Clients, step[c] = "answer", ~op[c].disturbed
               PROVE  (Status(op[c]) = "verified") = Intact
    BY DEF VerifiedMeansIntact
  <2>1. op[c].matches = Len(Files) <=> Intact
    BY DEF Inv, CallInv, HashedInv
  <2>2. Status(op[c]) = "verified" <=> op[c].matches = Len(Files)
    BY DEF Status
  <2> QED
    BY <2>1, <2>2 DEF Intact
<1> QED
  BY <1>1, EvidenceInvariant, PTL

\* ProofQuotesChecked: the three readings of the manifest that go into a proof
\* (buildProofFromEvidence) are of one text, unless the bundle was rewritten between them.
THEOREM ProofQuotesCheckedAlways == EvidenceSpec => []ProofQuotesChecked
<1>1. Inv => ProofQuotesChecked
  <2> SUFFICES ASSUME Inv
               PROVE  ProofQuotesChecked
    OBVIOUS
  <2>1. DOMAIN proofs = 1..Len(proofs)
    BY DEF Inv, TypeOK
  <2> QED
    BY <2>1 DEF Inv, ProofInv, ProofQuotesChecked
<1> QED
  BY <1>1, EvidenceInvariant, PTL

\* ProofsChain: a proof whose builder saw all the earlier ones names the last of them
\* (findLatestProofForChange), when their time stamps tell it apart.
THEOREM ProofsChainAlways == EvidenceSpec => []ProofsChain
<1>1. Inv => ProofsChain
  <2> SUFFICES ASSUME Inv, NEW p \in DOMAIN proofs, p > 1, proofs[p].seen = p - 1,
                      \A q \in 1..(p - 2) : proofs[q].time < proofs[p - 1].time
               PROVE  proofs[p].parent = p - 1
    BY DEF ProofsChain
  <2>1. Len(proofs) \in Nat /\ p \in 1..Len(proofs) /\ p - 1 \in 1..Len(proofs)
    BY DEF Inv, TypeOK
  <2>2. LatestOf(proofs[p].parent, p - 1)
    BY <2>1 DEF Inv, ProofInv
  <2> DEFINE l == proofs[p].parent
  <2>3. l \in 1..(p - 1) /\ proofs[p - 1].time <= proofs[l].time
    BY <2>1, <2>2 DEF LatestOf
  <2>4. \A q \in 1..Len(proofs) : proofs[q].time \in Nat
    <3>1. proofs \in Seq(Proof)
      BY DEF Inv, TypeOK
    <3>2. \A q \in 1..Len(proofs) : proofs[q] \in Proof
      BY <3>1
    <3> QED
      BY <3>2, Bounds DEF Proof
  <2>5. ~(l \in 1..(p - 2))
    BY <2>1, <2>3, <2>4
  <2> QED
    BY <2>1, <2>3, <2>5
<1> QED
  BY <1>1, EvidenceInvariant, PTL
=============================================================================
