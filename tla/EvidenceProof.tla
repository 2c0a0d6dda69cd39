---------------------------- MODULE EvidenceProof ----------------------------
(***************************************************************************)
(* The evidence bundle of one change and the proofs built from it:         *)
(* verifyChange, inspectEvidence and verifyEvidence of                     *)
(* src/assurance/change.ts, buildProofFromEvidence, resolveProofId and     *)
(* verifyProof of src/assurance/proof.ts.                                  *)
(*                                                                         *)
(* Every file is written by atomicWriteTextFile and read whole, so a step  *)
(* is one file.  Calls overlap and die, the project changes meanwhile, and *)
(* someone alters the evidence.  A hash stands for the text it is of, a    *)
(* text for the run whose time stamp it carries and the project it is of.  *)
(***************************************************************************)
EXTENDS Naturals, Sequences, FiniteSets, TLC

CONSTANTS
  Clients,
  Files,        \* the evidence files, in the order they are written
  Stamped,      \* those that carry a time stamp
  Altered,      \* a text no run wrote
  Absent,       \* no file, no manifest, no proof
  MaxOps, MaxTrees, MaxAlterations, MaxTime

Names == {Files[i] : i \in DOMAIN Files}
Text == [stamp: 0..MaxOps, tree: 0..MaxTrees] \cup {Altered}
Listing == [Names -> Text \cup {Absent}]
Checks == {"NOT_RUN", "PASSED", "FAILED", "INSUFFICIENT_EVIDENCE"}

\* What a call knows: drafted and graphed are the versions of the project its two
\* analyses saw, listed the manifest its proof quotes, checking the one its hash check
\* reads, sealed the one whose own hash it takes; disturbed (history) is whether the
\* bundle changed since it began.
Call ==
  [kind: {"change", "build", "check", "proof"}, run: 1..MaxOps, drafted: 0..MaxTrees,
   graphed: 0..MaxTrees, listed: Listing \cup {Absent}, checking: Listing \cup {Absent},
   next: DOMAIN Files, matches: Nat, checks: Checks, sealed: Listing \cup {Absent},
   parent: Nat \cup {Absent}, time: 0..MaxTime, seen: Nat, target: Nat \cup {Absent},
   disturbed: BOOLEAN]

ASSUME EvidenceAssumption ==
  /\ Files # <<>> /\ Files \in Seq(Names)
  /\ {MaxOps, MaxTrees, MaxAlterations, MaxTime} \subseteq Nat
  /\ Absent \notin Listing \cup Call

VARIABLES
  tree,         \* the version of the project
  bundle,       \* the evidence directory
  manifest,     \* manifest.json
  proofs,       \* the proofs directory, in the order the files appeared
  clock,
  step, op,     \* what a client is at, and what its call knows
  ops, alterations

evidenceVars == <<tree, bundle, manifest, proofs, clock, step, op, ops, alterations>>

NewOp(kind, target) ==
  [kind |-> kind, run |-> ops + 1, drafted |-> 0, graphed |-> 0,
   listed |-> Absent, checking |-> Absent, next |-> 1, matches |-> 0,
   checks |-> "NOT_RUN", sealed |-> Absent, parent |-> Absent, time |-> 0, seen |-> 0,
   target |-> target, disturbed |-> FALSE]

\* What a first run left, when it was at the project's first version.
Earlier == [n \in Names |-> [stamp |-> 0, tree |-> 0]]

EarlierProof ==
  [artifacts |-> Earlier, manifestHash |-> Earlier, integrity |-> "HASH_INTEGRITY_VERIFIED",
   checks |-> "PASSED", state |-> "ENGINEERING_CHECKS_PASSED", parent |-> Absent, time |-> 0,
   seen |-> 0, disturbed |-> FALSE]

EvidenceInit ==
  /\ tree = 0
  /\ \/ bundle = [n \in Names |-> Absent] /\ manifest = Absent /\ proofs = <<>>
     \/ bundle = Earlier /\ manifest = Earlier /\ proofs = <<EarlierProof>>
  /\ clock = 0
  /\ step = [c \in Clients |-> "idle"]
  /\ op = [c \in Clients |-> Absent]
  /\ ops = 0 /\ alterations = 0

Go(c, from, to) == step[c] = from /\ step' = [step EXCEPT ![c] = to]

\* The bundle changes under the calls of the others.
Disturbing(ops_) ==
  [d \in Clients |-> IF ops_[d] = Absent THEN Absent ELSE [ops_[d] EXCEPT !.disturbed = TRUE]]

Leave(c, from) ==
  /\ Go(c, from, "idle")
  /\ op' = [op EXCEPT ![c] = Absent]

\* verifyChange; analyzeChange has looked at the project, which has changed meanwhile or
\* not.
BeginChange(c) ==
  /\ ops < MaxOps /\ ops' = ops + 1
  /\ Go(c, "idle", "graph")
  /\ tree' \in tree..MaxTrees
  /\ op' = [op EXCEPT ![c] = [NewOp("change", Absent) EXCEPT !.drafted = tree']]
  /\ UNCHANGED <<bundle, manifest, proofs, clock, alterations>>

\* The graph is built a second time, for the evidence.
Graph(c) ==
  /\ Go(c, "graph", "write")
  /\ tree' \in tree..MaxTrees
  /\ op' = [op EXCEPT ![c].graphed = tree']
  /\ UNCHANGED <<bundle, manifest, proofs, clock, ops, alterations>>

TextOf(o, n) ==
  IF n \in Stamped THEN [stamp |-> o.run, tree |-> o.drafted] ELSE [stamp |-> 0, tree |-> o.graphed]

\* One evidence file.
WriteEvidence(c) ==
  LET n == Files[op[c].next] last == op[c].next = Len(Files) IN
  /\ Go(c, "write", IF last THEN "manifest" ELSE "write")
  /\ bundle' = [bundle EXCEPT ![n] = TextOf(op[c], n)]
  /\ op' = [Disturbing(op) EXCEPT ![c] = [op[c] EXCEPT !.next = IF last THEN 1 ELSE @ + 1]]
  /\ UNCHANGED <<tree, manifest, proofs, clock, ops, alterations>>

\* The manifest lists the hashes of what this call wrote; then it builds the proof.
WriteManifest(c) ==
  /\ Go(c, "manifest", "inspect")
  /\ manifest' = [n \in Names |-> TextOf(op[c], n)]
  /\ op' = [Disturbing(op) EXCEPT ![c] = op[c]]
  /\ UNCHANGED <<tree, bundle, proofs, clock, ops, alterations>>

\* buildProofFromEvidence, verifyEvidence, and verifyProof of a proof or, given the
\* change's id, of its latest one.
Begin(c, kind, first, target) ==
  /\ ops < MaxOps /\ ops' = ops + 1
  /\ Go(c, "idle", first)
  /\ op' = [op EXCEPT ![c] = NewOp(kind, target)]
  /\ UNCHANGED <<tree, bundle, manifest, proofs, clock, alterations>>

BeginBuild(c) == Begin(c, "build", "inspect", Absent)
BeginCheck(c) == Begin(c, "check", "list", Absent)
BeginProof(c) == \E p \in DOMAIN proofs : Begin(c, "proof", "list", p)

\* inspectEvidence; without a manifest buildProofFromEvidence throws.
Inspect(c) ==
  /\ IF manifest = Absent
     THEN Leave(c, "inspect")
     ELSE Go(c, "inspect", "list") /\ op' = [op EXCEPT ![c].listed = manifest]
  /\ UNCHANGED <<tree, bundle, manifest, proofs, clock, ops, alterations>>

\* verifyEvidence inspects again; without a manifest it fails.
After(o) == IF o.kind \in {"check", "proof"} THEN "answer" ELSE "engineer"

List(c) ==
  /\ Go(c, "list", IF manifest = Absent THEN After(op[c]) ELSE "hash")
  /\ op' = [op EXCEPT ![c].checking = manifest]
  /\ UNCHANGED <<tree, bundle, manifest, proofs, clock, ops, alterations>>

\* A slip that a run must notice: a file that is not there is skipped.
Hash_SkipsMissing(c) ==
  LET n == Files[op[c].next] last == op[c].next = Len(Files) IN
  /\ Go(c, "hash", IF last THEN After(op[c]) ELSE "hash")
  /\ op' = [op EXCEPT ![c].next = IF last THEN 1 ELSE @ + 1,
       ![c].matches = IF bundle[n] \in {Absent, op[c].checking[n]} THEN @ + 1 ELSE @]
  /\ UNCHANGED <<tree, bundle, manifest, proofs, clock, ops, alterations>>

\* One file of the list is hashed.
Hash(c) ==
  LET n == Files[op[c].next] last == op[c].next = Len(Files) IN
  /\ Go(c, "hash", IF last THEN After(op[c]) ELSE "hash")
  /\ op' = [op EXCEPT ![c].next = IF last THEN 1 ELSE @ + 1,
       ![c].matches = IF bundle[n] = op[c].checking[n] THEN @ + 1 ELSE @]
  /\ UNCHANGED <<tree, bundle, manifest, proofs, clock, ops, alterations>>

Status(o) ==
  IF o.matches = Len(Files) THEN "verified" ELSE IF o.matches > 0 THEN "partial" ELSE "failed"

Integrity(o) ==
  IF Status(o) = "verified" THEN "HASH_INTEGRITY_VERIFIED"
  ELSE IF o.checking # Absent \/ o.kind = "proof" THEN "HASH_INTEGRITY_FAILED"
  ELSE "NOT_CHECKED"

\* deriveVerificationState
DeriveState(integrity, checks) ==
  IF integrity # "HASH_INTEGRITY_VERIFIED" THEN "EVIDENCE_PRODUCED"
  ELSE CASE checks = "PASSED" -> "ENGINEERING_CHECKS_PASSED"
         [] checks = "FAILED" -> "ENGINEERING_CHECKS_FAILED"
         [] checks = "INSUFFICIENT_EVIDENCE" -> "INSUFFICIENT_EVIDENCE"
         [] OTHER -> "INTEGRITY_VERIFIED"

\* runEngineeringChecks, when the hashes matched: no contract, or what the contract
\* and the policy say.
Engineer(c) ==
  /\ Go(c, "engineer", "seal")
  /\ \E checks \in Checks :
       /\ (checks = "NOT_RUN") = (Status(op[c]) # "verified")
       /\ op' = [op EXCEPT ![c].checks = checks]
  /\ UNCHANGED <<tree, bundle, manifest, proofs, clock, ops, alterations>>

\* The manifest is read a third time, for its own hash.
Seal(c) ==
  /\ Go(c, "seal", "previous")
  /\ op' = [op EXCEPT ![c].sealed = manifest]
  /\ UNCHANGED <<tree, bundle, manifest, proofs, clock, ops, alterations>>

\* A slip that a run must notice: the first proof by name is taken.
Latest_First == IF proofs = <<>> THEN {Absent} ELSE {1}

\* findLatestProofForChange: of proofs of one millisecond, the first by its random name.
Latest ==
  IF proofs = <<>> THEN {Absent}
  ELSE {p \in DOMAIN proofs : \A q \in DOMAIN proofs : proofs[q].time <= proofs[p].time}

Previous(c) ==
  /\ Go(c, "previous", "store")
  /\ clock' \in clock..MaxTime
  /\ \E p \in Latest :
       op' = [op EXCEPT ![c].parent = p, ![c].time = clock', ![c].seen = Len(proofs)]
  /\ UNCHANGED <<tree, bundle, manifest, proofs, ops, alterations>>

\* A slip that a run must notice: the proof is of the manifest of an earlier proof.
ProofOf_Inherited(o) ==
  [artifacts |-> IF o.parent = Absent THEN o.listed ELSE proofs[o.parent].artifacts, manifestHash |-> o.sealed, integrity |-> Integrity(o),
   checks |-> o.checks, state |-> DeriveState(Integrity(o), o.checks),
   parent |-> o.parent, time |-> o.time, seen |-> o.seen, disturbed |-> o.disturbed]

ProofOf(o) ==
  [artifacts |-> o.listed, manifestHash |-> o.sealed, integrity |-> Integrity(o),
   checks |-> o.checks, state |-> DeriveState(Integrity(o), o.checks),
   parent |-> o.parent, time |-> o.time, seen |-> o.seen, disturbed |-> o.disturbed]

Store(c) ==
  /\ Leave(c, "store")
  /\ proofs' = Append(proofs, ProofOf(op[c]))
  /\ UNCHANGED <<tree, bundle, manifest, clock, ops, alterations>>

\* verifyEvidence and verifyProof return.
Answer(c) ==
  /\ Leave(c, "answer")
  /\ UNCHANGED <<tree, bundle, manifest, proofs, clock, ops, alterations>>

\* The process dies.
Die(c) ==
  /\ step[c] \notin {"idle", "answer"}
  /\ Leave(c, step[c])
  /\ UNCHANGED <<tree, bundle, manifest, proofs, clock, ops, alterations>>

\* Someone alters or removes a file of the bundle, or its manifest.
Alter ==
  /\ alterations < MaxAlterations /\ alterations' = alterations + 1
  /\ \/ /\ \E n \in Names, text \in {Altered, Absent} : bundle' = [bundle EXCEPT ![n] = text]
        /\ UNCHANGED manifest
     \/ manifest' = Absent /\ UNCHANGED bundle
  /\ op' = Disturbing(op)
  /\ UNCHANGED <<tree, proofs, clock, step, ops>>

EvidenceNext ==
  \/ \E c \in Clients :
       \/ BeginChange(c) \/ BeginBuild(c) \/ BeginCheck(c) \/ BeginProof(c)
       \/ Graph(c) \/ WriteEvidence(c) \/ WriteManifest(c)
       \/ Inspect(c) \/ List(c) \/ Hash(c) \/ Engineer(c) \/ Seal(c) \/ Previous(c) \/ Store(c)
       \/ Answer(c) \/ Die(c)
  \/ Alter

EvidenceSpec == EvidenceInit /\ [][EvidenceNext]_evidenceVars

---------------------------------------------------------------------------
Intact == manifest # Absent /\ \A n \in Names : bundle[n] = manifest[n]

\* Nobody having touched the bundle since the call began, verifyEvidence and
\* verifyProof answer "verified" exactly when every file is the one the manifest
\* lists: an altered or missing file, and a rewrite that died half way, are noticed.
VerifiedMeansIntact ==
  \A c \in Clients : step[c] = "answer" /\ ~op[c].disturbed => (Status(op[c]) = "verified") = Intact

\* A proof quotes the hashes of the manifest it was checked against and whose own hash
\* it carries, unless the bundle was rewritten while it was built (buildProofFromEvidence
\* reads the manifest three times).
ProofQuotesChecked ==
  \A p \in DOMAIN proofs : ~proofs[p].disturbed =>
    /\ proofs[p].manifestHash = proofs[p].artifacts
    /\ proofs[p].integrity # "NOT_CHECKED"

\* Two proofs built one after the other, at different times, are linked: previousProofHash
\* of the second is the hash of the first, unless an overlapping build stored an earlier
\* time stamp later.
ProofsChain ==
  \A p \in DOMAIN proofs : p > 1 /\ proofs[p].seen = p - 1
    /\ (\A q \in 1..(p - 2) : proofs[q].time < proofs[p - 1].time)
    => proofs[p].parent = p - 1

---------------------------------------------------------------------------
(* The instance of MCEvidenceProof.cfg.                                             *)

MCFiles == <<"change.json", "graph-impact.json">>
MCSymmetry == Permutations(Clients)
=============================================================================
