--------------------------- MODULE BrainKnowledge ---------------------------
(***************************************************************************)
(* What a project brain says from build to build: buildProjectBrain with   *)
(* its claims' lifecycle and contradictions, the deltas between brains,    *)
(* explainClaim, and the MCP tools that answer from a brain.               *)
(*                                                                         *)
(* A fact is [subject, object] (its predicate is part of the subject) and  *)
(* a model of the project a set of facts; the snapshot's id stands for the *)
(* model it was hashed from.  Builds are numbered, for the clock.          *)
(***************************************************************************)
EXTENDS Naturals, Sequences, FiniteSets

CONSTANTS Facts, MaxBuilds, Absent

VARIABLE brains  \* every brain built so far: each build is saved as a snapshot

Rivals(fact, model) == {f \in model : f.subject = fact.subject /\ f.object # fact.object}
FirstOf(rivals) == CHOOSE f \in rivals : \A g \in rivals : f.object <= g.object

\* claimsFromModel: every fact is claimed on evidence of this snapshot.
EvidenceOf(fact, model) == [fact |-> fact, snapshot |-> model]

FreshClaim(fact, model) ==
  [status |-> "ACTIVE", evidence |-> EvidenceOf(fact, model),
   invalidatedAt |-> Absent, supersededBy |-> Absent, contradictions |-> {}]

\* A slip that a run must notice: what was invalid is judged again.
ApplyClaimLifecycle_Again(previous, model, now) ==
  [f \in model \cup DOMAIN previous |->
     IF f \in model THEN FreshClaim(f, model)
     ELSE IF Rivals(f, model) # {}
     THEN [previous[f] EXCEPT !.status = "SUPERSEDED", !.invalidatedAt = now,
                              !.supersededBy = FirstOf(Rivals(f, model))]
     ELSE [previous[f] EXCEPT !.status = "INVALIDATED", !.invalidatedAt = now]]

ApplyClaimLifecycle(previous, model, now) ==
  [f \in model \cup DOMAIN previous |->
     CASE f \in model -> FreshClaim(f, model)
       [] f \notin model /\ previous[f].status = "INVALIDATED" -> previous[f]
       [] f \notin model /\ previous[f].status # "INVALIDATED" /\ Rivals(f, model) # {} ->
            [previous[f] EXCEPT !.status = "SUPERSEDED", !.invalidatedAt = now,
                                !.supersededBy = FirstOf(Rivals(f, model))]
       [] OTHER -> [previous[f] EXCEPT !.status = "INVALIDATED", !.invalidatedAt = now]]

Current == {"ACTIVE", "CONTRADICTED"}
Held(claims) == {f \in DOMAIN claims : claims[f].status \in Current}

\* detectContradictions: subjects that several objects are claimed of.
Contradictions(claims) ==
  {c \in {[subject |-> f.subject, claims |-> {g \in Held(claims) : g.subject = f.subject}] :
            f \in Held(claims)} : Cardinality(c.claims) > 1}

Contradicted(claims) ==
  [f \in DOMAIN claims |->
     LET ids == {c \in Contradictions(claims) : f \in c.claims} IN
     IF ids = {} THEN claims[f]
     ELSE [claims[f] EXCEPT !.status = "CONTRADICTED", !.contradictions = ids]]

\* buildProjectBrain: the evidence is this build's, whatever earlier claims cite.
BuildProjectBrain(previous, model, now) ==
  LET claims == Contradicted(ApplyClaimLifecycle(previous, model, now)) IN
  [snapshot |-> model, claims |-> claims, contradictions |-> Contradictions(claims),
   evidence |-> {EvidenceOf(f, model) : f \in model}, at |-> now]

NoClaims == [f \in {} |-> Absent]
Previous == IF brains = <<>> THEN NoClaims ELSE brains[Len(brains)].claims

BrainInit == brains = <<>>

\* rebuildBrain, and rebuild of an MCP session: the project may have changed in any way.
Rebuild ==
  /\ Len(brains) < MaxBuilds
  /\ \E model \in SUBSET Facts :
       brains' = Append(brains, BuildProjectBrain(Previous, model, Len(brains) + 1))

BrainNext == Rebuild

---------------------------------------------------------------------------
\* buildBrainDelta; a claim's finger is its fact and status.
BuildBrainDelta(before, after) ==
  LET both == DOMAIN before.claims \cap DOMAIN after.claims
      Became(status) == {f \in both : after.claims[f].status = status /\ before.claims[f].status # status}
  IN [added |-> DOMAIN after.claims \ DOMAIN before.claims,
      removed |-> DOMAIN before.claims \ DOMAIN after.claims,
      changed |-> {f \in both : before.claims[f].status # after.claims[f].status},
      invalidated |-> Became("INVALIDATED"),
      superseded |-> Became("SUPERSEDED"),
      contradicted |-> Became("CONTRADICTED"),
      newContradictions |-> after.contradictions \ before.contradictions,
      resolvedContradictions |-> before.contradictions \ after.contradictions]

\* explainClaim; Absent when the brain has no such claim.
ExplainClaim(brain, fact) ==
  IF fact \notin DOMAIN brain.claims THEN Absent
  ELSE LET claim == brain.claims[fact] IN
       [status |-> claim.status,
        evidence |-> {claim.evidence} \cap brain.evidence,
        contradictions |-> {c \in brain.contradictions : fact \in c.claims},
        invalidated |-> claim.status = "INVALIDATED",
        unknowns |-> {u \in {"no evidence", "contradicted"} :
                        CASE u = "no evidence" -> claim.evidence \notin brain.evidence
                          [] u = "contradicted" -> claim.status = "CONTRADICTED"}]

\* ListClaims and brain_claims: without a status, what the brain still holds true.
ListClaims(brain, status, includeHistorical) ==
  {f \in DOMAIN brain.claims :
     CASE status # Absent -> brain.claims[f].status = status
       [] status = Absent /\ includeHistorical -> TRUE
       [] OTHER -> brain.claims[f].status \in Current}

\* brain_evidence: the evidence, or one piece of it, and the claims that cite it.
ClaimLinks(brain, asked) ==
  {f \in DOMAIN brain.claims : brain.claims[f].evidence \in brain.evidence \cap asked}

\* brain_overview and the summary of brain_query.
Overview(brain) ==
  LET Count(status) == Cardinality(ListClaims(brain, status, FALSE)) IN
  [active |-> Count("ACTIVE"), contradicted |-> Count("CONTRADICTED"),
   contradictions |-> Cardinality(brain.contradictions)]

---------------------------------------------------------------------------
Builds == DOMAIN brains
ModelAt(n) == brains[n].snapshot

\* The builds since fact was last in the model, if it ever was.
Since(fact, now) ==
  {n \in Builds : n <= now /\ \A later \in n..now : fact \notin ModelAt(later)
                  /\ \E earlier \in 1..n : fact \in ModelAt(earlier)}

\* The brain forgets nothing and holds nothing that is no longer so.  A claim is held
\* exactly while its fact is in the model; afterwards it is superseded while a rival of
\* it stays, and invalid from the first build without one, for good, at that build's
\* time; what superseded it is a claim the brain still has.
HistoryIsHonest ==
  \A now \in Builds :
    LET brain == brains[now] IN
    /\ DOMAIN brain.claims = UNION {ModelAt(n) : n \in 1..now}
    /\ Held(brain.claims) = ModelAt(now)
    /\ \A f \in DOMAIN brain.claims :
         LET claim == brain.claims[f]
             alone == {n \in Since(f, now) : Rivals(f, ModelAt(n)) = {}}
         IN /\ claim.status = "INVALIDATED" <=> alone # {}
            /\ alone # {} => claim.invalidatedAt = CHOOSE n \in alone : \A m \in alone : n <= m
            /\ claim.status = "SUPERSEDED" <=> Since(f, now) # {} /\ alone = {}
            /\ claim.status = "CONTRADICTED" <=> f \in ModelAt(now) /\ Rivals(f, ModelAt(now)) # {}
            /\ claim.supersededBy # Absent => claim.supersededBy \in DOMAIN brain.claims \ {f}

\* What the tools answer agrees: a held claim has its evidence and shows up under it; a
\* claim is explained as contradicted exactly when it is listed with another object; and
\* the counts of the overview are those of the lists.
AnswersAgree ==
  \A now \in Builds :
    LET brain == brains[now]
        held == ListClaims(brain, Absent, FALSE)
    IN /\ \A f \in held :
            LET told == ExplainClaim(brain, f) IN
            /\ told.evidence # {} /\ \A e \in told.evidence : f \in ClaimLinks(brain, {e})
            /\ told.contradictions # {} <=> \E g \in held : g.subject = f.subject /\ g # f
            /\ told.contradictions # {} <=> "contradicted" \in told.unknowns
       /\ \A f \in ListClaims(brain, Absent, TRUE) \ held :
            ExplainClaim(brain, f).contradictions = {}
       /\ Overview(brain).active + Overview(brain).contradicted = Cardinality(held)

\* A delta leaves out no change of what is held, and the delta the other way mirrors it;
\* forward in time nothing is removed.
DeltasTell ==
  \A m, n \in Builds :
    LET before == brains[m]
        after == brains[n]
        there == BuildBrainDelta(before, after)
        back == BuildBrainDelta(after, before)
        lost == Held(before.claims) \ Held(after.claims)
        gained == Held(after.claims) \ Held(before.claims)
    IN /\ m <= n => there.removed = {}
       /\ lost \subseteq there.invalidated \cup there.superseded \cup there.removed
       /\ gained \subseteq there.added \cup there.changed
       /\ there.added = back.removed /\ there.changed = back.changed
       /\ there.newContradictions = back.resolvedContradictions
       /\ \A c \in there.newContradictions :
            c.claims \subseteq there.contradicted \cup there.added \cup UNION {d.claims : d \in before.contradictions}
=============================================================================
