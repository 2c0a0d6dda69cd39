------------------------ MODULE CommandRunner_proofs ------------------------
(***************************************************************************)
(* Proofs about CommandRunner, for every set of callers, requests, policy  *)
(* files and every bound: what is executed was allowed by the policies its *)
(* call read, and the audit log is a chain that implements AuditLog.       *)
(***************************************************************************)
EXTENDS CommandRunner, SequenceTheorems, WellFoundedInduction, TLAPS

---------------------------------------------------------------------------
(* Policies.                                                               *)

PolicyFiles == Document \cup {None, Malformed, Invalid, InvalidClosed}

\* The first match of a list of rules is one of them, and there is one only.
LEMMA FirstMatchUnique ==
  ASSUME NEW rules \in Seq(Rule), NEW action, NEW i \in FirstMatch(rules, action)
  PROVE  /\ i \in DOMAIN rules /\ rules[i] \in Rule
         /\ RuleMatches(rules[i], action)
         /\ FirstMatch(rules, action) = {i}
         /\ (CHOOSE j \in FirstMatch(rules, action) : TRUE) = i
<1>1. \A j \in FirstMatch(rules, action) : j = i
  BY DEF FirstMatch
<1>2. FirstMatch(rules, action) = {i}
  BY <1>1
<1>3. (CHOOSE j \in FirstMatch(rules, action) : TRUE) \in FirstMatch(rules, action)
  OBVIOUS
<1> QED
  BY <1>2, <1>3 DEF FirstMatch

\* A list of rules of which one matches has a first match.
LEMMA FirstMatchExists ==
  ASSUME NEW rules \in Seq(Rule), NEW action, NEW i \in DOMAIN rules,
         RuleMatches(rules[i], action)
  PROVE  FirstMatch(rules, action) # {}
<1> DEFINE Matches == {j \in DOMAIN rules : RuleMatches(rules[j], action)}
<1>1. Matches \subseteq Nat /\ Matches # {}
  OBVIOUS
<1>2. PICK j \in Matches : \A k \in Matches : ~(<<k, j>> \in OpToRel(<, Nat))
  BY <1>1, NatLessThanWellFounded, WFMin, Zenon
<1>3. \A k \in Matches : ~(k < j)
  BY <1>1, <1>2 DEF OpToRel
<1>4. j \in DOMAIN rules /\ RuleMatches(rules[j], action)
  OBVIOUS
<1>5. DOMAIN rules = 1..Len(rules) /\ Len(rules) \in Nat
  BY LenProperties
<1>6. ASSUME NEW k \in 1..(j - 1) PROVE ~RuleMatches(rules[k], action)
  <2>1. k \in DOMAIN rules /\ k < j
    BY <1>4, <1>5
  <2> QED
    BY <1>3, <2>1
<1> HIDE DEF Matches
<1>7. j \in FirstMatch(rules, action)
  BY <1>4, <1>6 DEF FirstMatch
<1> QED
  BY <1>7

LEMMA OverlayDocument ==
  ASSUME NEW top \in Document, NEW below \in Document
  PROVE  Overlay(top, below) \in Document
BY DEF Overlay, Document

LEMMA DenyAllDocument ==
  /\ DenyAll \in Document
  /\ \A action \in Action : Decision(DenyAll, action) = "block"
<1>1. DenyAll.rules \in Seq(Rule)
  BY DEF DenyAll, BlocksAll, Rule, Decisions
<1>2. DenyAll \in Document
  BY <1>1 DEF DenyAll, Document, Decisions
<1>3. ASSUME NEW action \in Action
      PROVE  Decision(DenyAll, action) = "block"
  <2>1. DOMAIN DenyAll.rules = {1} /\ DenyAll.rules[1] = BlocksAll("block")
    BY DEF DenyAll
  <2>2. RuleMatches(DenyAll.rules[1], action)
    BY <2>1 DEF RuleMatches, BlocksAll, Action
  <2>3. 1 \in FirstMatch(DenyAll.rules, action)
    BY <2>1, <2>2 DEF FirstMatch
  <2>4. (CHOOSE j \in FirstMatch(DenyAll.rules, action) : TRUE) = 1
    BY <1>1, <2>3, FirstMatchUnique
  <2>5. DenyAll.rules[1].decision = "block"
    BY <2>1 DEF BlocksAll
  <2>6. DenyAll.rules[CHOOSE j \in FirstMatch(DenyAll.rules, action) : TRUE].decision = "block"
    BY <2>4, <2>5, Zenon
  <2> QED
    BY <2>3, <2>6, Zenon DEF Decision
<1> QED
  BY <1>2, <1>3

\* Whatever the two files hold, what is enforced is a policy document.
LEMMA LoadedDocument ==
  ASSUME NEW file \in PolicyFiles, NEW over \in PolicyFiles, NEW closed \in BOOLEAN
  PROVE  /\ Compose(file).policy \in Document
         /\ Loaded(Compose(file), over, closed) \in Document
<1>1. Compose(file).policy \in Document
  BY PolicyAssumption, OverlayDocument, DenyAllDocument DEF Compose, IsRepoDocument, PolicyFiles
<1>2. over # None => WithOverlay(Compose(file), over, closed) \in Document
  BY <1>1, OverlayDocument, DenyAllDocument
     DEF WithOverlay, IsOverlayDocument, IsRepoDocument, PolicyFiles
<1> QED
  BY <1>1, <1>2, PolicyAssumption DEF Loaded

LEMMA DecisionType ==
  ASSUME NEW policy \in Document, NEW action \in Action
  PROVE  Evaluate(policy, action) \in Decisions \cup {"other", "throws"}
<1>1. policy.rules \in Seq(Rule) /\ policy.default \in Decisions \cup {"other"}
  BY DEF Document
<1>2. ASSUME NEW i \in FirstMatch(policy.rules, action)
      PROVE  Decision(policy, action) \in Decisions \cup {"other", "throws"}
  <2>1. (CHOOSE j \in FirstMatch(policy.rules, action) : TRUE) = i /\ policy.rules[i] \in Rule
    BY <1>1, FirstMatchUnique
  <2> QED
    BY <2>1, <1>2 DEF Decision, Rule
<1>3. CASE FirstMatch(policy.rules, action) = {}
  BY <1>1, <1>3 DEF Decision, Evaluate, Decisions
<1> QED
  BY <1>2, <1>3 DEF Evaluate, Decisions

\* The first match among rules put on top of others is the first of the top ones,
\* if any of these matches.
LEMMA FirstMatchOnTop ==
  ASSUME NEW top \in Seq(Rule), NEW below \in Seq(Rule), NEW action,
         NEW i \in FirstMatch(top, action)
  PROVE  /\ i \in FirstMatch(top \o below, action)
         /\ (top \o below)[i] = top[i]
<1>1. /\ i \in 1..Len(top)
      /\ \A j \in 1..Len(top) : (top \o below)[j] = top[j]
      /\ DOMAIN (top \o below) = 1..(Len(top) + Len(below))
  BY DEF FirstMatch
<1> QED
  BY <1>1 DEF FirstMatch

\* And else the first of those below.
LEMMA FirstMatchBelow ==
  ASSUME NEW top \in Seq(Rule), NEW below \in Seq(Rule), NEW action,
         FirstMatch(top, action) = {}, NEW i \in FirstMatch(below, action)
  PROVE  /\ Len(top) + i \in FirstMatch(top \o below, action)
         /\ (top \o below)[Len(top) + i] = below[i]
<1>1. /\ i \in 1..Len(below)
      /\ \A j \in 1..Len(top) : (top \o below)[j] = top[j]
      /\ \A j \in 1..Len(below) : (top \o below)[Len(top) + j] = below[j]
      /\ DOMAIN (top \o below) = 1..(Len(top) + Len(below))
      /\ Len(top) \in Nat /\ Len(below) \in Nat
  BY DEF FirstMatch
<1>0. \A j \in DOMAIN top : ~RuleMatches(top[j], action)
  BY FirstMatchExists
<1>2. \A j \in 1..(Len(top) + i - 1) : ~RuleMatches((top \o below)[j], action)
  <2> SUFFICES ASSUME NEW j \in 1..(Len(top) + i - 1)
               PROVE  ~RuleMatches((top \o below)[j], action)
    OBVIOUS
  <2>1. CASE j <= Len(top)
    BY <1>0, <1>1, <2>1
  <2>2. CASE j > Len(top)
    <3>1. j - Len(top) \in 1..(i - 1) /\ j - Len(top) \in 1..Len(below)
          /\ Len(top) + (j - Len(top)) = j
      BY <1>1, <2>2
    <3>2. ~RuleMatches(below[j - Len(top)], action)
      BY <3>1 DEF FirstMatch
    <3> QED
      BY <1>1, <3>1, <3>2
  <2> QED
    BY <1>1, <2>1, <2>2
<1>3. RuleMatches((top \o below)[Len(top) + i], action)
  BY <1>1 DEF FirstMatch
<1> DEFINE both == top \o below
<1>4. Len(top) + i \in DOMAIN both
  BY <1>1
<1> HIDE DEF both
<1>5. Len(top) + i \in FirstMatch(both, action)
  BY <1>2, <1>3, <1>4 DEF FirstMatch, both
<1> QED
  BY <1>1, <1>5 DEF both

\* A rule that matches decides: the first, whatever lies below its document.
LEMMA TopDecides ==
  ASSUME NEW top \in Document, NEW below \in Document, NEW action,
         NEW i \in FirstMatch(top.rules, action)
  PROVE  /\ i \in FirstMatch(Overlay(top, below).rules, action)
         /\ Overlay(top, below).rules[i] = top.rules[i]
<1>1. top.rules \in Seq(Rule) /\ below.rules \in Seq(Rule)
  BY DEF Document
<1>2. Overlay(top, below).rules = top.rules \o below.rules
  BY DEF Overlay
<1>3. /\ i \in FirstMatch(top.rules \o below.rules, action)
      /\ (top.rules \o below.rules)[i] = top.rules[i]
  BY <1>1, FirstMatchOnTop
<1> QED
  BY <1>2, <1>3, Zenon

LEMMA FirstDecides ==
  ASSUME NEW policy \in Document, NEW action, NEW i \in FirstMatch(policy.rules, action)
  PROVE  Decision(policy, action) = policy.rules[i].decision
<1>1. policy.rules \in Seq(Rule)
  BY DEF Document
<1>2. (CHOOSE j \in FirstMatch(policy.rules, action) : TRUE) = i
  BY <1>1, FirstMatchUnique
<1> QED
  BY <1>2, Zenon DEF Decision

LEMMA FirstOfFile ==
  ASSUME NEW file \in PolicyFiles, IsRepoDocument(file), NEW action
  PROVE  /\ file \in Document
         /\ FirstMatch(file.rules, action) = {} => FirstOf(file, action) = "none"
         /\ \A i \in FirstMatch(file.rules, action) :
              FirstOf(file, action) = file.rules[i].decision /\ FirstOf(file, action) # "none"
<1>1. file \in Document /\ file.rules \in Seq(Rule)
  BY DEF PolicyFiles, IsRepoDocument, Document
<1>2. ASSUME NEW i \in FirstMatch(file.rules, action)
      PROVE  FirstOf(file, action) = file.rules[i].decision /\ FirstOf(file, action) # "none"
  <2>1. (CHOOSE j \in FirstMatch(file.rules, action) : TRUE) = i /\ file.rules[i] \in Rule
    BY <1>1, FirstMatchUnique
  <2>2. FirstOf(file, action) = file.rules[i].decision
    BY <2>1, Zenon DEF FirstOf
  <2>3. file.rules[i].decision # "none"
    BY <2>1 DEF Rule, Decisions
  <2> QED
    BY <2>2, <2>3
<1> QED
  BY <1>1, <1>2 DEF FirstOf

\* What a rule of policy.json decides stands, if no rule of the overlay matches:
\* the action is allowed only if that rule allows it.
LEMMA RepoDecides ==
  ASSUME NEW file \in PolicyFiles, NEW over \in PolicyFiles, NEW closed \in BOOLEAN,
         NEW action \in Action, FirstOf(over, action) = "none",
         Evaluate(Loaded(Compose(file), over, closed), action) = "allow"
  PROVE  FirstOf(file, action) \in {"none", "allow"}
<1> DEFINE both == Overlay(file, Pack)
<1>1. CASE ~IsRepoDocument(file)
  BY <1>1 DEF FirstOf
<1>2. CASE IsRepoDocument(file) /\ FirstMatch(file.rules, action) = {}
  BY <1>2, FirstOfFile
<1>3. ASSUME IsRepoDocument(file), NEW i \in FirstMatch(file.rules, action)
      PROVE  FirstOf(file, action) = "allow"
  <2>1. file \in Document /\ FirstOf(file, action) = file.rules[i].decision
    BY <1>3, FirstOfFile
  <2>2. Compose(file) = [policy |-> both, fromRepo |-> TRUE, failed |-> FALSE]
    BY <1>3 DEF Compose, IsRepoDocument
  <2>3. both \in Document /\ i \in FirstMatch(both.rules, action) /\ both.rules[i] = file.rules[i]
    BY <1>3, <2>1, PolicyAssumption, OverlayDocument, TopDecides
  <2>4. Decision(Loaded(Compose(file), over, closed), action) = "allow"
    BY DEF Evaluate
  <2>5. CASE Loaded(Compose(file), over, closed) = both
    BY <2>1, <2>3, <2>4, <2>5, FirstDecides
  <2>6. CASE Loaded(Compose(file), over, closed) = DenyAll
    BY <2>4, <2>6, DenyAllDocument
  <2>7. CASE IsOverlayDocument(over) /\ Loaded(Compose(file), over, closed) = Overlay(over, both)
    <3>1. over \in Document /\ FirstMatch(over.rules, action) = {}
      BY <2>7, FirstOfFile DEF IsOverlayDocument
    <3>2. over.rules \in Seq(Rule) /\ both.rules \in Seq(Rule)
      BY <2>3, <3>1 DEF Document
    <3>3. /\ Len(over.rules) + i \in FirstMatch(over.rules \o both.rules, action)
          /\ (over.rules \o both.rules)[Len(over.rules) + i] = both.rules[i]
      BY <2>3, <3>1, <3>2, FirstMatchBelow
    <3>4. Overlay(over, both) \in Document
      BY <2>3, <3>1, OverlayDocument
    <3>5. Overlay(over, both).rules = over.rules \o both.rules
      BY Zenon DEF Overlay
    <3>6. /\ Len(over.rules) + i \in FirstMatch(Overlay(over, both).rules, action)
          /\ Overlay(over, both).rules[Len(over.rules) + i] = both.rules[i]
      BY <3>3, <3>5
    <3>7. Decision(Overlay(over, both), action) = both.rules[i].decision
      BY <3>4, <3>6, FirstDecides
    <3> QED
      BY <2>1, <2>3, <2>4, <2>7, <3>7
  <2> QED
    BY <2>2, <2>5, <2>6, <2>7 DEF Loaded, WithOverlay
<1> QED
  BY <1>1, <1>2, <1>3

\* A policy.json that is no policy lets nothing through.
LEMMA BrokenBlocks ==
  ASSUME NEW file \in {Malformed, Invalid, InvalidClosed}, NEW over, NEW closed,
         NEW action \in Action
  PROVE  Evaluate(Loaded(Compose(file), over, closed), action) = "block"
<1>1. Loaded(Compose(file), over, closed) = DenyAll
  BY PolicyAssumption DEF Loaded, Compose, IsRepoDocument
<1> QED
  BY <1>1, DenyAllDocument DEF Evaluate

---------------------------------------------------------------------------
(* Type correctness.                                                       *)

Places == {"idle", "compose", "overlay", "seed", "decide", "running", "audit", "append"}

Call == [id: 1..MaxCalls, req: Requests, repo: PolicyFiles, overlay: PolicyFiles,
         verdict: Decisions \cup {"other", "throws", "none"},
         status: Recorded \cup {"none"}, previous: 1..MaxCalls \cup {None},
         seen: Nat, timedOut: BOOLEAN]

\* A caller that is not idle has a call.
CallsTyped ==
  /\ pc \in [Callers -> Places]
  /\ call \in [Callers -> Call \cup {None}]
  /\ \A c \in Callers : pc[c] # "idle" => call[c] \in Call
  /\ \A c \in Callers : pc[c] \in {"audit", "append"} => call[c].status \in Recorded

TypeInv ==
  /\ CallsTyped
  /\ repo \in PolicyFiles /\ overlay \in PolicyFiles
  /\ log \in Seq(Line \cup {Torn}) /\ whole \in BOOLEAN
  /\ ran \subseteq Call
  /\ answered \subseteq [id: 1..MaxCalls, status: Recorded \cup {"not-executed"}]
  /\ calls \in 0..MaxCalls /\ edits \in Nat

\* What a call learns keeps it a call.
LEMMA LearnType ==
  ASSUME NEW k \in Call
  PROVE  /\ \A f \in PolicyFiles : [k EXCEPT !.repo = f] \in Call
         /\ \A f \in PolicyFiles, v \in Decisions \cup {"other", "throws"} :
              [k EXCEPT !.overlay = f, !.verdict = v] \in Call
         /\ \A s \in Recorded : [k EXCEPT !.status = s] \in Call /\ [k EXCEPT !.status = s].status = s
         /\ [k EXCEPT !.timedOut = TRUE] \in Call
BY DEF Call

LEMMA LearnHash ==
  ASSUME NEW k \in Call, NEW p \in 1..MaxCalls \cup {None}, NEW n \in Nat
  PROVE  /\ [k EXCEPT !.previous = p, !.seen = n] \in Call
         /\ [k EXCEPT !.previous = p, !.seen = n].status = k.status
BY DEF Call

\* A caller goes on with a call, or returns.
LEMMA MoveType ==
  ASSUME CallsTyped, NEW c \in Callers, NEW to \in Places, NEW k \in Call \cup {None},
         k \in Call \/ to = "idle", to \in {"audit", "append"} => k.status \in Recorded,
         pc' = [pc EXCEPT ![c] = to], call' = [call EXCEPT ![c] = k]
  PROVE  CallsTyped'
BY DEF CallsTyped

LEMMA ActionOfRequest ==
  ASSUME NEW r \in Requests
  PROVE  /\ ActionOf(r) \in Action /\ ActionOf(r).type = "shell"
         /\ ActionOf(r).command = r.command /\ r.closed \in BOOLEAN
BY RunnerAssumption, PolicyAssumption DEF ActionOf, Action, Request

LEMMA VerdictType ==
  ASSUME NEW c \in Callers, call[c] \in Call, NEW over \in PolicyFiles
  PROVE  Verdict(c, over) \in Decisions \cup {"other", "throws"}
<1>1. call[c].req \in Requests /\ call[c].repo \in PolicyFiles
  BY DEF Call
<1> QED
  BY <1>1, ActionOfRequest, LoadedDocument, DecisionType DEF Verdict

LEMMA TypeInit == RunnerInit => TypeInv
BY RunnerAssumption DEF RunnerInit, TypeInv, CallsTyped, PolicyFiles, Places

LEMMA TypeStep == TypeInv /\ [RunnerNext]_runnerVars => TypeInv'
<1> SUFFICES ASSUME TypeInv, [RunnerNext]_runnerVars
             PROVE  TypeInv'
  OBVIOUS
<1> USE DEF TypeInv, At, Files, Audit
<1>0. \A c \in Callers : pc[c] # "idle" => call[c] \in Call
  BY DEF CallsTyped
<1>1. ASSUME NEW c \in Callers, NEW r \in Requests, Begin(c, r)
      PROVE  TypeInv'
  <2>1. NewCall(r) \in Call
    BY <1>1, RunnerAssumption DEF Begin, NewCall, Call, PolicyFiles
  <2>2. CallsTyped'
    BY <1>1, <2>1, MoveType DEF Begin, Places
  <2> QED
    BY <1>1, <2>2, RunnerAssumption DEF Begin
<1>2. ASSUME NEW c \in Callers, ReadRepo(c)
      PROVE  TypeInv'
  <2>1. call[c] \in Call /\ [call[c] EXCEPT !.repo = repo] \in Call
    BY <1>0, <1>2, LearnType DEF ReadRepo
  <2>2. call' = [call EXCEPT ![c] = [call[c] EXCEPT !.repo = repo]]
    BY <1>2 DEF ReadRepo, Learn
  <2>3. CallsTyped'
    BY <1>2, <2>1, <2>2, MoveType DEF ReadRepo, Places
  <2> QED
    BY <1>2, <2>3 DEF ReadRepo
<1>3. ASSUME NEW c \in Callers, ReadOverlay(c)
      PROVE  TypeInv'
  <2>1. call[c] \in Call /\ [call[c] EXCEPT !.overlay = overlay, !.verdict = Verdict(c, overlay)] \in Call
    BY <1>0, <1>3, LearnType, VerdictType DEF ReadOverlay
  <2>2. call' = [call EXCEPT ![c] = [call[c] EXCEPT !.overlay = overlay, !.verdict = Verdict(c, overlay)]]
    BY <1>3 DEF ReadOverlay, Learn
  <2>3. CallsTyped'
    BY <1>3, <2>1, <2>2, MoveType DEF ReadOverlay, Places
  <2> QED
    BY <1>3, <2>3 DEF ReadOverlay
<1>4. ASSUME NEW c \in Callers, Seed(c)
      PROVE  TypeInv'
  BY <1>4, PolicyAssumption DEF Seed, Places, PolicyFiles, CallsTyped
<1>5. ASSUME NEW c \in Callers, Block(c)
      PROVE  TypeInv'
  <2>1. call[c] \in Call /\ [call[c] EXCEPT !.status = "blocked-by-enforcement"] \in Call
        /\ [call[c] EXCEPT !.status = "blocked-by-enforcement"].status \in Recorded
    BY <1>0, <1>5, LearnType DEF Block, Recorded
  <2>2. call' = [call EXCEPT ![c] = [call[c] EXCEPT !.status = "blocked-by-enforcement"]]
    BY <1>5 DEF Block, Learn
  <2>3. CallsTyped'
    BY <1>5, <2>1, <2>2, MoveType DEF Block, Places
  <2> QED
    BY <1>5, <2>3 DEF Block
<1>6. ASSUME NEW c \in Callers, Decline(c)
      PROVE  TypeInv'
  <2>1. call[c] \in Call /\ call[c].id \in 1..MaxCalls
    BY <1>0, <1>6 DEF Decline, Return, Call
  <2>2. CallsTyped'
    BY <1>6, MoveType DEF Decline, Return, Places
  <2> QED
    BY <1>6, <2>1, <2>2 DEF Decline, Return, Answer
<1>7. ASSUME NEW c \in Callers, Escape(c)
      PROVE  TypeInv'
  <2>1. call[c] \in Call /\ [call[c] EXCEPT !.status = "execution-failed"] \in Call
        /\ [call[c] EXCEPT !.status = "execution-failed"].status \in Recorded
    BY <1>0, <1>7, LearnType DEF Escape, Recorded
  <2>2. call' = [call EXCEPT ![c] = [call[c] EXCEPT !.status = "execution-failed"]]
    BY <1>7 DEF Escape, Learn
  <2>3. CallsTyped'
    BY <1>7, <2>1, <2>2, MoveType DEF Escape, Places
  <2> QED
    BY <1>7, <2>3 DEF Escape
<1>8. ASSUME NEW c \in Callers, Start(c)
      PROVE  TypeInv'
  BY <1>0, <1>8 DEF Start, Places, CallsTyped
<1>9. ASSUME NEW c \in Callers, ChildEnds(c)
      PROVE  TypeInv'
  <2>1. PICK s \in Recorded : call' = [call EXCEPT ![c].status = s]
    BY <1>9 DEF ChildEnds, Learn, Recorded
  <2>2. call[c] \in Call
    BY <1>0, <1>9 DEF ChildEnds
  <2>22. /\ [call[c] EXCEPT !.status = s] \in Call
         /\ [call[c] EXCEPT !.status = s].status \in Recorded
    BY <2>2, LearnType
  <2>3. call' = [call EXCEPT ![c] = [call[c] EXCEPT !.status = s]]
    BY <2>1
  <2>4. CallsTyped'
    BY <1>9, <2>22, <2>3, MoveType DEF ChildEnds, Places
  <2> QED
    BY <1>9, <2>4 DEF ChildEnds
<1>10. ASSUME NEW c \in Callers, Timeout(c)
       PROVE  TypeInv'
  <2>1. /\ call[c] \in Call
        /\ [call[c] EXCEPT !.status = "execution-failed"] \in Call
        /\ [call[c] EXCEPT !.status = "execution-failed"].status \in Recorded
        /\ [call[c] EXCEPT !.timedOut = TRUE] \in Call
    BY <1>0, <1>10, LearnType DEF Timeout, Recorded
  <2>2. CASE call[c].req.shell
    <3>1. call' = [call EXCEPT ![c] = [call[c] EXCEPT !.status = "execution-failed"]]
      BY <1>10, <2>2 DEF Timeout, Learn
    <3>2. CallsTyped'
      BY <1>10, <2>1, <2>2, <3>1, MoveType DEF Timeout, Places
    <3> QED
      BY <1>10, <3>2 DEF Timeout
  <2>3. CASE ~call[c].req.shell
    <3>1. call' = [call EXCEPT ![c] = [call[c] EXCEPT !.timedOut = TRUE]]
      BY <1>10, <2>3 DEF Timeout, Learn
    <3>2. CallsTyped'
      BY <1>10, <2>1, <2>3, <3>1, MoveType DEF Timeout, Places
    <3> QED
      BY <1>10, <3>2 DEF Timeout
  <2> QED
    BY <2>2, <2>3
<1>11. ASSUME NEW c \in Callers, ReadLog(c)
       PROVE  TypeInv'
  <2>0. LastHash \in 1..MaxCalls \cup {None} /\ Len(log) \in Nat
    <3>1. log # <<>> => log[Len(log)] \in Line \cup {Torn}
      OBVIOUS
    <3> QED
      BY <3>1 DEF LastHash, Line
  <2>a. PICK found \in Readings : call' = [call EXCEPT ![c].previous = found.hash, ![c].seen = found.lines]
    BY <1>11, Zenon DEF ReadLog
  <2>1. found.hash \in 1..MaxCalls \cup {None} /\ found.lines \in Nat
    BY <2>0 DEF Readings
  <2>22. call[c] \in Call /\ call[c].status \in Recorded
    BY <1>0, <1>11 DEF ReadLog, CallsTyped
  <2>2. /\ [call[c] EXCEPT !.previous = found.hash, !.seen = found.lines] \in Call
        /\ [call[c] EXCEPT !.previous = found.hash, !.seen = found.lines].status \in Recorded
    BY <2>1, <2>22, LearnHash
  <2>3. call' = [call EXCEPT ![c] = [call[c] EXCEPT !.previous = found.hash, !.seen = found.lines]]
    BY <2>a
  <2>4. CallsTyped'
    BY <1>11, <2>2, <2>3, MoveType DEF ReadLog, Places
  <2> QED
    BY <1>11, <2>4 DEF ReadLog
<1>12. ASSUME NEW c \in Callers, AppendLine(c)
       PROVE  TypeInv'
  <2>1. call[c] \in Call /\ call[c].id \in 1..MaxCalls /\ LineOf(c) \in Line
    BY <1>0, <1>12 DEF AppendLine, LineOf, Line, Call, CallsTyped
  <2>2. CallsTyped'
    BY <1>12, MoveType DEF AppendLine, Return, Places
  <2>3. log' \in Seq(Line \cup {Torn})
    BY <1>12, <2>1 DEF AppendLine
  <2>4. Answer(c, call[c].status) \subseteq [id: 1..MaxCalls, status: Recorded \cup {"not-executed"}]
    BY <1>0, <1>12, <2>1 DEF Answer, CallsTyped, AppendLine
  <2> QED
    BY <1>12, <2>2, <2>3, <2>4 DEF AppendLine, Return
<1>13. ASSUME NEW c \in Callers, Die(c)
       PROVE  TypeInv'
  <2>1. CallsTyped'
    BY <1>13, MoveType DEF Die, Return, Places
  <2>2. log' \in Seq(Line \cup {Torn}) /\ whole' \in BOOLEAN
    <3>1. Append(log, Torn) \in Seq(Line \cup {Torn})
      OBVIOUS
    <3> QED
      BY <1>13, <3>1 DEF Die
  <2> QED
    BY <1>13, <2>1, <2>2 DEF Die, Return
<1>14. CASE Edit
  BY <1>14, RunnerAssumption DEF Edit, PolicyFiles, CallsTyped
<1>15. CASE UNCHANGED runnerVars
  BY <1>15 DEF runnerVars, CallsTyped
<1> QED
  BY <1>1, <1>2, <1>3, <1>4, <1>5, <1>6, <1>7, <1>8, <1>9, <1>10, <1>11, <1>12, <1>13,
     <1>14, <1>15
     DEF RunnerNext, CallStep, Killed

\* TypeInv: the runner's state keeps its types.
LEMMA TypeInvariant == RunnerSpec => []TypeInv
  BY TypeInit, TypeStep, PTL DEF RunnerSpec

---------------------------------------------------------------------------
(* What is executed was allowed.                                           *)

Allowed(k, verdict) ==
  verdict = Evaluate(Loaded(Compose(k.repo), k.overlay, k.req.closed), ActionOf(k.req))

\* The verdict of a call that has decided follows from the files it has read, and
\* what was started was asked for and allowed.
VerdictInv ==
  /\ \A c \in Callers : pc[c] \in {"seed", "decide"} => Allowed(call[c], call[c].verdict)
  /\ \A k \in ran : k.req.execute /\ k.verdict = "allow" /\ Allowed(k, k.verdict)

LEMMA VerdictStep == TypeInv /\ VerdictInv /\ [RunnerNext]_runnerVars => VerdictInv'
<1> SUFFICES ASSUME TypeInv, VerdictInv, [RunnerNext]_runnerVars
             PROVE  VerdictInv'
  OBVIOUS
<1> USE DEF VerdictInv, At
<1>0. pc \in [Callers -> Places] /\ call \in [Callers -> Call \cup {None}]
  BY DEF TypeInv, CallsTyped
\* A step that changes one caller's place, to one where nothing is said of it.
<1>a. ASSUME NEW c \in Callers, NEW to \in Places \ {"seed", "decide"}, UNCHANGED ran,
             pc' = [pc EXCEPT ![c] = to], \A d \in Callers \ {c} : call'[d] = call[d]
      PROVE  VerdictInv'
  BY <1>0, <1>a DEF Places
<1>1. ASSUME NEW c \in Callers, NEW r \in Requests, Begin(c, r)
      PROVE  VerdictInv'
  BY <1>0, <1>1, <1>a DEF Begin, Places
<1>2. ASSUME NEW c \in Callers, ReadRepo(c)
      PROVE  VerdictInv'
  BY <1>0, <1>2, <1>a DEF ReadRepo, Learn, Places
<1>3. ASSUME NEW c \in Callers, ReadOverlay(c)
      PROVE  VerdictInv'
  <2>1. call[c] \in Call
    BY <1>3 DEF TypeInv, CallsTyped, ReadOverlay
  <2>2. /\ call'[c].verdict = Verdict(c, overlay) /\ call'[c].overlay = overlay
        /\ call'[c].repo = call[c].repo /\ call'[c].req = call[c].req
    BY <1>0, <1>3, <2>1 DEF ReadOverlay, Call
  <2>3. Allowed(call[c], call[c].verdict)'
    BY <2>2 DEF Allowed, Verdict
  <2> QED
    BY <1>0, <1>3, <2>3 DEF ReadOverlay
<1>4. ASSUME NEW c \in Callers, Seed(c)
      PROVE  VerdictInv'
  BY <1>0, <1>4 DEF Seed
<1>5. ASSUME NEW c \in Callers, Block(c)
      PROVE  VerdictInv'
  BY <1>0, <1>5, <1>a DEF Block, Learn, Places
<1>6. ASSUME NEW c \in Callers, Decline(c)
      PROVE  VerdictInv'
  BY <1>0, <1>6, <1>a DEF Decline, Return, Places
<1>7. ASSUME NEW c \in Callers, Escape(c)
      PROVE  VerdictInv'
  BY <1>0, <1>7, <1>a DEF Escape, Learn, Places
<1>8. ASSUME NEW c \in Callers, Start(c)
      PROVE  VerdictInv'
  BY <1>0, <1>8 DEF Start
<1>9. ASSUME NEW c \in Callers, ChildEnds(c)
      PROVE  VerdictInv'
  BY <1>0, <1>9, <1>a DEF ChildEnds, Learn, Places
<1>10. ASSUME NEW c \in Callers, Timeout(c)
       PROVE  VerdictInv'
  BY <1>0, <1>10, <1>a DEF Timeout, Learn, Places
<1>11. ASSUME NEW c \in Callers, ReadLog(c)
       PROVE  VerdictInv'
  BY <1>0, <1>11, <1>a DEF ReadLog, Places
<1>12. ASSUME NEW c \in Callers, AppendLine(c)
       PROVE  VerdictInv'
  BY <1>0, <1>12, <1>a DEF AppendLine, Return, Places
<1>13. ASSUME NEW c \in Callers, Die(c)
       PROVE  VerdictInv'
  BY <1>0, <1>13, <1>a DEF Die, Return, Places
<1>14. CASE Edit
  BY <1>14 DEF Edit
<1>15. CASE UNCHANGED runnerVars
  BY <1>15 DEF runnerVars
<1> QED
  BY <1>1, <1>2, <1>3, <1>4, <1>5, <1>6, <1>7, <1>8, <1>9, <1>10, <1>11, <1>12, <1>13,
     <1>14, <1>15
     DEF RunnerNext, CallStep, Killed

LEMMA VerdictInvariant == RunnerSpec => []VerdictInv
<1>1. RunnerInit => VerdictInv
  BY DEF RunnerInit, VerdictInv
<1> QED
  BY <1>1, TypeInvariant, VerdictStep, PTL DEF RunnerSpec

\* DenialsHold: whatever the two policy files hold and whoever edits them while calls
\* overlap, a destructive command is never started, nor is one under a broken
\* policy.json, nor one that its caller only wanted judged.
THEOREM DenialsHoldAlways == RunnerSpec => []DenialsHold
<1>1. TypeInv /\ VerdictInv => DenialsHold
  <2> SUFFICES ASSUME TypeInv, VerdictInv, NEW k \in ran
               PROVE  /\ k.req.command \notin Destructive /\ k.req.execute
                      /\ k.repo \notin {Malformed, Invalid, InvalidClosed}
    BY DEF DenialsHold
  <2>1. k \in Call /\ k.req \in Requests /\ k.req.execute
        /\ Evaluate(Loaded(Compose(k.repo), k.overlay, k.req.closed), ActionOf(k.req)) = "allow"
    BY DEF TypeInv, VerdictInv, Call, Allowed
  <2>2. k.req.command \notin Destructive
    BY <2>1, ActionOfRequest DEF Evaluate
  <2>3. k.repo \notin {Malformed, Invalid, InvalidClosed}
    BY <2>1, ActionOfRequest, BrokenBlocks
  <2> QED
    BY <2>1, <2>2, <2>3
<1> QED
  BY <1>1, TypeInvariant, VerdictInvariant, PTL

\* RepoRulesOutrank: no allowlist, default or pack overrules a rule of policy.json that
\* does not allow a command.
THEOREM RepoRulesOutrankAlways == RunnerSpec => []RepoRulesOutrank
<1>1. TypeInv /\ VerdictInv => RepoRulesOutrank
  <2> SUFFICES ASSUME TypeInv, VerdictInv, NEW k \in ran,
                      FirstOf(k.overlay, ActionOf(k.req)) = "none"
               PROVE  FirstOf(k.repo, ActionOf(k.req)) \in {"none", "allow"}
    BY DEF RepoRulesOutrank
  <2>1. k.req \in Requests /\ k.repo \in PolicyFiles /\ k.overlay \in PolicyFiles
        /\ Evaluate(Loaded(Compose(k.repo), k.overlay, k.req.closed), ActionOf(k.req)) = "allow"
    BY DEF TypeInv, VerdictInv, Call, Allowed
  <2> QED
    BY <2>1, ActionOfRequest, RepoDecides
<1> QED
  BY <1>1, TypeInvariant, VerdictInvariant, PTL

---------------------------------------------------------------------------
(* The audit log.                                                          *)

\* The hash of the log's n-th line, as a call sees it that finds n lines.
HashIn(lines, n) == IF n = 0 \/ lines[n] = Torn THEN None ELSE lines[n].id

\* After a torn line no newline was written.
TornInv == whole \/ (log # <<>> /\ log[Len(log)] = Torn)

\* A call about to append knows the hash of a line of the log, and a line names one
\* before it: the one just before, if it was read and nothing was appended in between.
ChainInv ==
  /\ \A c \in Callers : pc[c] = "append" =>
       call[c].seen \in 0..Len(log) /\ call[c].previous = HashIn(log, call[c].seen)
  /\ \A i \in DOMAIN log : log[i] # Torn =>
       \E n \in 0..(i - 1) : log[i].previous = HashIn(log, n) /\ (log[i].last => n = i - 1)

AuditInv == TornInv /\ ChainInv /\ AnswersAreLogged

\* The step adds one line to the log.
Adds(line) ==
  \E new \in Nat \ {0} :
    /\ Len(log) = new - 1 /\ Len(log') = new
    /\ DOMAIN log = 1..(new - 1) /\ DOMAIN log' = 1..new
    /\ \A i \in 1..(new - 1) : log'[i] = log[i]
    /\ log'[new] = line /\ log' # <<>>

LEMMA AppendAdds ==
  ASSUME TypeInv, NEW line \in Line \cup {Torn}, log' = Append(log, line)
  PROVE  Adds(line)
<1>1. Len(log) \in Nat /\ Len(log) + 1 \in Nat \ {0} /\ (Len(log) + 1) - 1 = Len(log)
  BY DEF TypeInv
<1>2. /\ Len(log') = Len(log) + 1 /\ DOMAIN log = 1..Len(log) /\ log' # <<>>
      /\ \A i \in 1..Len(log) : log'[i] = log[i]
      /\ log'[Len(log) + 1] = line
  BY DEF TypeInv
<1>3. DOMAIN log' = 1..(Len(log) + 1)
  BY DEF TypeInv
<1> QED
  BY <1>1, <1>2, <1>3, Zenon DEF Adds

LEMMA AddsKeepsHashes ==
  ASSUME NEW line, Adds(line), NEW n \in 0..Len(log)
  PROVE  HashIn(log', n) = HashIn(log, n) /\ n \in 0..Len(log')
BY DEF HashIn, Adds

\* A step that leaves the log alone and answers nothing that must be logged.
LEMMA QuietAudit ==
  ASSUME TypeInv, AuditInv, UNCHANGED Audit,
         \A a \in answered' : a \in answered \/ a.status = "not-executed",
         \A c \in Callers : pc'[c] = "append" =>
           \/ pc[c] = "append" /\ call'[c] = call[c]
           \/ \E found \in Readings : call'[c].seen = found.lines /\ call'[c].previous = found.hash
  PROVE  AuditInv'
<1>1. log' = log /\ whole' = whole /\ Len(log) \in Nat
  BY DEF Audit, TypeInv
<1>2. ASSUME NEW found \in Readings
      PROVE  found.lines \in 0..Len(log) /\ found.hash = HashIn(log, found.lines)
  BY DEF Readings, LastHash, HashIn, TypeInv
<1>3. TornInv'
  BY <1>1 DEF AuditInv, TornInv
<1>4. ChainInv'
  BY <1>1, <1>2 DEF AuditInv, ChainInv, HashIn
<1>5. AnswersAreLogged'
  BY <1>1 DEF AuditInv, AnswersAreLogged
<1> QED
  BY <1>3, <1>4, <1>5 DEF AuditInv

\* A step that adds a line which names one that is there, or a torn line.
LEMMA AppendedAudit ==
  ASSUME AuditInv, NEW line, Adds(line),
         line # Torn => \E n \in 0..Len(log) :
                          line.previous = HashIn(log, n) /\ (line.last => n = Len(log)),
         whole' \/ line = Torn,
         \A c \in Callers : pc'[c] = "append" => pc[c] = "append" /\ call'[c] = call[c],
         \A a \in answered' :
           a \in answered \/ (line # Torn /\ a.id = line.id /\ a.status = line.status)
  PROVE  AuditInv'
<1>0. PICK new \in Nat \ {0} :
        /\ Len(log) = new - 1 /\ Len(log') = new
        /\ DOMAIN log = 1..(new - 1) /\ DOMAIN log' = 1..new
        /\ \A i \in 1..(new - 1) : log'[i] = log[i]
        /\ log'[new] = line /\ log' # <<>>
  BY Zenon DEF Adds
<1>1. new > 0 /\ new - 1 = Len(log) /\ Len(log') = new /\ log'[new] = line
  BY <1>0
<1>d. DOMAIN log = 1..(new - 1) /\ DOMAIN log' = 1..new
  BY <1>0
<1>2. \A n \in 0..Len(log) : HashIn(log', n) = HashIn(log, n) /\ n \in 0..Len(log')
  BY AddsKeepsHashes
<1>3. \A i \in 1..(new - 1) : log'[i] = log[i]
  BY <1>0
<1>4. TornInv'
  BY <1>0, <1>1 DEF TornInv
<1>5. ChainInv'
  <2>1. ASSUME NEW c \in Callers, pc'[c] = "append"
        PROVE  call'[c].seen \in 0..Len(log') /\ call'[c].previous = HashIn(log', call'[c].seen)
    <3>1. /\ call'[c] = call[c] /\ call[c].seen \in 0..Len(log)
          /\ call[c].previous = HashIn(log, call[c].seen)
      BY <2>1 DEF AuditInv, ChainInv
    <3> QED
      BY <1>2, <3>1
  <2>2. ASSUME NEW i \in DOMAIN log', log'[i] # Torn
        PROVE  \E n \in 0..(i - 1) :
                 log'[i].previous = HashIn(log', n) /\ (log'[i].last => n = i - 1)
    <3>1. CASE i = new
      <4>1. log'[i] = line /\ i - 1 = Len(log)
        BY <1>1, <3>1
      <4>2. PICK n \in 0..Len(log) : line.previous = HashIn(log, n) /\ (line.last => n = Len(log))
        BY <2>2, <4>1
      <4>3. HashIn(log', n) = HashIn(log, n)
        BY <1>2
      <4> QED
        BY <4>1, <4>2, <4>3
    <3>2. CASE i \in 1..(new - 1)
      <4>1. PICK n \in 0..(i - 1) : log[i].previous = HashIn(log, n) /\ (log[i].last => n = i - 1)
        BY <1>1, <1>3, <1>d, <2>2, <3>2 DEF AuditInv, ChainInv
      <4>2. log'[i] = log[i] /\ n \in 0..Len(log)
        BY <1>1, <1>3, <3>2
      <4>3. HashIn(log', n) = HashIn(log, n)
        BY <1>2, <4>2
      <4> QED
        BY <4>1, <4>2, <4>3
    <3>3. i \in 1..new
      BY <1>d, <2>2
    <3> QED
      BY <1>1, <3>1, <3>2, <3>3
  <2> QED
    BY <2>1, <2>2 DEF ChainInv
<1>6. AnswersAreLogged'
  <2> SUFFICES ASSUME NEW a \in answered', a.status # "not-executed"
               PROVE  \/ \E i \in DOMAIN log' : log'[i] # Torn /\ log'[i].id = a.id
                                               /\ log'[i].status = a.status
                      \/ \E i \in DOMAIN log' : log'[i] = Torn
    BY DEF AnswersAreLogged
  <2>1. CASE a \in answered
    <3>1. PICK i \in 1..(new - 1) :
            log[i] = Torn \/ (log[i] # Torn /\ log[i].id = a.id /\ log[i].status = a.status)
      BY <1>1, <1>d, <2>1 DEF AuditInv, AnswersAreLogged
    <3>2. i \in DOMAIN log' /\ log'[i] = log[i]
      BY <1>1, <1>3, <1>d
    <3> QED
      BY <3>1, <3>2, Zenon
  <2>2. CASE line # Torn /\ a.id = line.id /\ a.status = line.status
    <3>0. new \in 1..new
      OBVIOUS
    <3>1. new \in DOMAIN log' /\ log'[new] = line
      BY <1>0, <3>0, Zenon
    <3> QED
      BY <2>2, <3>1, Zenon
  <2> QED
    BY <2>1, <2>2
<1> QED
  BY <1>4, <1>5, <1>6 DEF AuditInv

LEMMA AuditStep == TypeInv /\ AuditInv /\ [RunnerNext]_runnerVars => AuditInv'
<1> SUFFICES ASSUME TypeInv, AuditInv, [RunnerNext]_runnerVars
             PROVE  AuditInv'
  OBVIOUS
<1> USE DEF At
<1>0. pc \in [Callers -> Places] /\ call \in [Callers -> Call \cup {None}]
  BY DEF TypeInv, CallsTyped
\* A step of one caller that does not concern the log.
<1>a. ASSUME NEW c \in Callers, NEW to \in Places \ {"append"}, UNCHANGED Audit,
             pc' = [pc EXCEPT ![c] = to], \A d \in Callers \ {c} : call'[d] = call[d],
             \A a \in answered' : a \in answered \/ a.status = "not-executed"
      PROVE  AuditInv'
  BY <1>0, <1>a, QuietAudit DEF Places
<1>1. ASSUME NEW c \in Callers, NEW r \in Requests, Begin(c, r)
      PROVE  AuditInv'
  BY <1>0, <1>1, <1>a DEF Begin, Places
<1>2. ASSUME NEW c \in Callers, ReadRepo(c)
      PROVE  AuditInv'
  BY <1>0, <1>2, <1>a DEF ReadRepo, Learn, Places
<1>3. ASSUME NEW c \in Callers, ReadOverlay(c)
      PROVE  AuditInv'
  BY <1>0, <1>3, <1>a DEF ReadOverlay, Places
<1>4. ASSUME NEW c \in Callers, Seed(c)
      PROVE  AuditInv'
  BY <1>0, <1>4, <1>a DEF Seed, Places
<1>5. ASSUME NEW c \in Callers, Block(c)
      PROVE  AuditInv'
  BY <1>0, <1>5, <1>a DEF Block, Learn, Places
<1>6. ASSUME NEW c \in Callers, Decline(c)
      PROVE  AuditInv'
  <2>1. \A a \in answered' : a \in answered \/ a.status = "not-executed"
    BY <1>6 DEF Decline, Return, Answer
  <2> QED
    BY <1>0, <1>6, <1>a, <2>1 DEF Decline, Return, Places
<1>7. ASSUME NEW c \in Callers, Escape(c)
      PROVE  AuditInv'
  BY <1>0, <1>7, <1>a DEF Escape, Learn, Places
<1>8. ASSUME NEW c \in Callers, Start(c)
      PROVE  AuditInv'
  BY <1>0, <1>8, <1>a DEF Start, Places
<1>9. ASSUME NEW c \in Callers, ChildEnds(c)
      PROVE  AuditInv'
  BY <1>0, <1>9, <1>a DEF ChildEnds, Learn, Places
<1>10. ASSUME NEW c \in Callers, Timeout(c)
       PROVE  AuditInv'
  BY <1>0, <1>10, <1>a DEF Timeout, Learn, Places
<1>11. ASSUME NEW c \in Callers, ReadLog(c)
       PROVE  AuditInv'
  <2>1. call[c] \in Call
    BY <1>11 DEF TypeInv, CallsTyped, ReadLog
  <2>2. \E found \in Readings : call'[c].seen = found.lines /\ call'[c].previous = found.hash
    BY <1>0, <1>11, <2>1 DEF ReadLog, Call
  <2> QED
    BY <1>0, <1>11, <2>2, QuietAudit DEF ReadLog
<1>12. ASSUME NEW c \in Callers, AppendLine(c)
       PROVE  AuditInv'
  <2>1. /\ call[c] \in Call /\ call[c].status \in Recorded
        /\ call[c].seen \in 0..Len(log) /\ call[c].previous = HashIn(log, call[c].seen)
    BY <1>12 DEF TypeInv, CallsTyped, AppendLine, AuditInv, ChainInv
  <2>2. /\ LineOf(c) \in Line /\ LineOf(c).id = call[c].id /\ LineOf(c).status = call[c].status
        /\ LineOf(c).previous = call[c].previous /\ LineOf(c).last = (call[c].seen = Len(log))
    BY <2>1 DEF LineOf, Line, Call
  <2>3. \A d \in Callers : pc'[d] = "append" => pc[d] = "append" /\ call'[d] = call[d]
    BY <1>0, <1>12 DEF AppendLine, Return
  <2>4. answered' = answered \cup {[id |-> call[c].id, status |-> call[c].status]}
    BY <1>12 DEF AppendLine, Return, Answer
  <2>5. CASE whole
    <3>1. log' = Append(log, LineOf(c)) /\ whole'
      BY <1>12, <2>5 DEF AppendLine
    <3>2. Adds(LineOf(c)) /\ LineOf(c) # Torn
      BY <2>2, <3>1, AppendAdds, TornAssumption
    <3>3. \A a \in answered' :
            a \in answered \/ (a.id = LineOf(c).id /\ a.status = LineOf(c).status)
      BY <2>2, <2>4
    <3>4. \E n \in 0..Len(log) : LineOf(c).previous = HashIn(log, n)
                              /\ (LineOf(c).last => n = Len(log))
      BY <2>1, <2>2
    <3> QED
      BY <2>3, <3>1, <3>2, <3>3, <3>4, AppendedAudit
  <2>6. CASE ~whole
    <3>1. log' = log /\ whole'
      BY <1>12, <2>6 DEF AppendLine
    <3>2. Len(log) \in DOMAIN log /\ log[Len(log)] = Torn
      BY <2>6 DEF AuditInv, TornInv, TypeInv
    <3>3. ChainInv'
      BY <2>3, <3>1 DEF AuditInv, ChainInv, HashIn
    <3> QED
      BY <3>1, <3>2, <3>3 DEF AuditInv, TornInv, AnswersAreLogged
  <2> QED
    BY <2>5, <2>6
<1>13. ASSUME NEW c \in Callers, Die(c)
       PROVE  AuditInv'
  <2>1. answered' = answered /\ \A d \in Callers : pc'[d] = "append" => pc[d] = "append" /\ call'[d] = call[d]
    BY <1>0, <1>13 DEF Die, Return
  <2>2. CASE UNCHANGED Audit
    BY <2>1, <2>2, QuietAudit
  <2>3. CASE whole /\ log' = Append(log, Torn) /\ whole' = FALSE
    <3>1. Adds(Torn)
      BY <2>3, AppendAdds
    <3> QED
      BY <2>1, <3>1, AppendedAudit
  <2>4. CASE ~whole /\ log' = log /\ whole' = FALSE
    BY <2>1, <2>4, QuietAudit DEF Audit, TypeInv
  <2> QED
    BY <1>13, <2>2, <2>3, <2>4 DEF Die, TypeInv
<1>14. CASE Edit
  BY <1>14, QuietAudit DEF Edit
<1>15. CASE UNCHANGED runnerVars
  BY <1>15, QuietAudit DEF runnerVars, Audit
<1> QED
  BY <1>1, <1>2, <1>3, <1>4, <1>5, <1>6, <1>7, <1>8, <1>9, <1>10, <1>11, <1>12, <1>13,
     <1>14, <1>15
     DEF RunnerNext, CallStep, Killed

LEMMA AuditInvariant == RunnerSpec => []AuditInv
<1>1. RunnerInit => AuditInv
  BY DEF RunnerInit, AuditInv, TornInv, ChainInv, AnswersAreLogged
<1> QED
  BY <1>1, TypeInvariant, AuditStep, PTL DEF RunnerSpec

\* AnswersAreLogged: whoever was told that a command was blocked or executed finds a
\* line that says so, or a torn line: two appends at a time do not lose one.
THEOREM AnswersAreLoggedAlways == RunnerSpec => []AnswersAreLogged
<1>1. AuditInv => AnswersAreLogged
  BY DEF AuditInv
<1> QED
  BY <1>1, AuditInvariant, PTL

\* ChainLinks: a line carries the hash of the line before it, unless another call
\* appended since its own read or that read failed, and of an earlier line or none in any
\* case.
THEOREM ChainLinksAlways == RunnerSpec => []ChainLinks
<1>1. TypeInv /\ AuditInv => ChainLinks
  <2> SUFFICES ASSUME TypeInv, AuditInv, NEW i \in DOMAIN log, log[i] # Torn
               PROVE  /\ log[i].last /\ i > 1 /\ log[i - 1] # Torn
                           => log[i].previous = log[i - 1].id
                      /\ log[i].previous # None =>
                           \E j \in 1..(i - 1) : log[j] # Torn /\ log[j].id = log[i].previous
    BY DEF ChainLinks
  <2>1. PICK n \in 0..(i - 1) : log[i].previous = HashIn(log, n) /\ (log[i].last => n = i - 1)
    BY DEF AuditInv, ChainInv
  <2>2. i \in Nat
    BY DEF TypeInv
  <2> QED
    BY <2>1, <2>2 DEF HashIn
<1> QED
  BY <1>1, TypeInvariant, AuditInvariant, PTL

---------------------------------------------------------------------------
(* The runner implements the log.                                          *)

LEMMA LogStep ==
  TypeInv /\ AuditInv /\ [RunnerNext]_runnerVars => [Audited!LogNext]_(Audited!logVars)
<1> SUFFICES ASSUME TypeInv, AuditInv, [RunnerNext]_runnerVars
             PROVE  Audited!LogNext \/ (log' = log /\ answered' = answered)
  BY DEF Audited!logVars
<1>1. ASSUME NEW c \in Callers, AppendLine(c)
      PROVE  Audited!LogNext
  <2>1. /\ call[c] \in Call /\ call[c].status \in Recorded /\ call[c].id \in 1..MaxCalls
        /\ call[c].seen \in 0..Len(log) /\ call[c].previous = HashIn(log, call[c].seen)
        /\ call[c].previous \in 1..MaxCalls \cup {None}
    BY <1>1 DEF TypeInv, CallsTyped, AppendLine, AuditInv, ChainInv, Call
  <2>2. answered' = answered \cup {[id |-> call[c].id, status |-> call[c].status]}
    BY <1>1 DEF AppendLine, Return, Answer
  <2>3. CASE whole
    <3>1. Audited!Names(call[c].previous)
      BY <2>1 DEF Audited!Names, HashIn, TypeInv
    <3>2. log' = Append(log, LineOf(c))
      BY <1>1, <2>3 DEF AppendLine
    <3>3. /\ LineOf(c).id = call[c].id /\ LineOf(c).status = call[c].status
          /\ LineOf(c).previous = call[c].previous
      BY DEF LineOf
    <3>4. Audited!Record(LineOf(c))
      BY <2>1, <2>2, <3>1, <3>2, <3>3 DEF Audited!Record
    <3>5. (call[c].seen = Len(log)) \in BOOLEAN
      OBVIOUS
    <3> QED
      BY <2>1, <3>4, <3>5 DEF Audited!LogNext, LineOf
  <2>4. CASE ~whole
    <3>1. log' = log /\ log # <<>> /\ log[Len(log)] = Torn
      BY <1>1, <2>4 DEF AppendLine, AuditInv, TornInv
    <3>2. Audited!Merge(call[c].id, call[c].status)
      BY <2>2, <3>1 DEF Audited!Merge
    <3> QED
      BY <2>1, <3>2 DEF Audited!LogNext
  <2> QED
    BY <2>3, <2>4
<1>2. ASSUME NEW c \in Callers, Decline(c)
      PROVE  Audited!LogNext \/ (log' = log /\ answered' = answered)
  <2>1. call[c] \in Call /\ call[c].id \in 1..MaxCalls /\ log' = log
    BY <1>2 DEF TypeInv, CallsTyped, Decline, Return, At, Call, Audit
  <2>2. answered' = answered \/ Audited!Decline(call[c].id)
    BY <1>2, <2>1 DEF Decline, Return, Answer, Audited!Decline
  <2> QED
    BY <2>1, <2>2 DEF Audited!LogNext
<1>3. ASSUME NEW c \in Callers, Die(c)
      PROVE  Audited!LogNext \/ (log' = log /\ answered' = answered)
  BY <1>3 DEF Die, Return, Audit, Audited!LogNext, Audited!Tear
<1>4. ASSUME NEW c \in Callers,
             \/ \E r \in Requests : Begin(c, r)
             \/ ReadRepo(c) \/ ReadOverlay(c) \/ Seed(c) \/ Block(c) \/ Escape(c) \/ Start(c)
             \/ ChildEnds(c) \/ Timeout(c) \/ ReadLog(c)
      PROVE  log' = log /\ answered' = answered
  BY <1>4 DEF Begin, ReadRepo, ReadOverlay, Seed, Block, Escape, Start, ChildEnds, Timeout,
              ReadLog, Audit
<1>5. CASE Edit \/ UNCHANGED runnerVars
  BY <1>5 DEF Edit, runnerVars, Audit
<1> QED
  BY <1>1, <1>2, <1>3, <1>4, <1>5 DEF RunnerNext, CallStep, Killed

\* ImplementsAuditLog: whoever overlaps and dies, lines are only added, each names an
\* earlier one or none, and what is answered is in the log or was merged with a torn line.
THEOREM RunnerImplementsAuditLog == RunnerSpec => ImplementsAuditLog
<1>1. RunnerInit => Audited!LogInit
  BY DEF RunnerInit, Audited!LogInit
<1> QED
  BY <1>1, LogStep, TypeInvariant, AuditInvariant, PTL
     DEF RunnerSpec, ImplementsAuditLog, Audited!LogSpec
=============================================================================
