------------------------------ MODULE Insights -------------------------------
(***************************************************************************)
(* What is made of the facts that were discovered: who owns what and what  *)
(* is dangerous to change (discoverOwnership, ownersForPath,               *)
(* discoverRisks, buildComponents and extractClaims), and how well every   *)
(* architecture pattern is supported (inferArchitectures).                 *)
(*                                                                         *)
(* A path is a sequence of segments.  A pattern is [segs, anchored,        *)
(* dirOnly]; each of its segments is the set of names it matches, so that  *)
(* * is the set of all and a literal a singleton; a final ** is Deep.  A   *)
(* relationship is [relationship, source, target] with the roles its ends  *)
(* play in their names; found.edges has each with how often it was found.  *)
(* Scores and confidences are in hundredths.                               *)
(***************************************************************************)
EXTENDS Integers, Sequences, FiniteSets, SequencesExt, FiniteSetsExt

CONSTANTS
  Deep,      \* the segment **
  Spelled(_) \* how localeCompare ranks a pattern among the others, from 1

---------------------------------------------------------------------------
\* matchCodeownersPattern
MatchesAt(path, pattern, i) ==
  LET deep == pattern.segs # <<>> /\ Last(pattern.segs) = Deep
      segs == IF deep THEN Front(pattern.segs) ELSE pattern.segs
      rest == Len(path) - (i + Len(segs) - 1)
  IN /\ rest >= 0
     /\ \A k \in 1..Len(segs) : path[i + k - 1] \in segs[k]
     /\ IF deep THEN rest > 0 ELSE rest = 0 \/ pattern.dirOnly

Matches(path, pattern) ==
  \E i \in 1..Len(path) : (pattern.anchored => i = 1) /\ MatchesAt(path, pattern, i)

\* parseCodeowners: a line that names no owner is passed over.  A line is [pattern, owners].
FromCodeowners(lines) ==
  LET owned == SelectSeq(lines, LAMBDA line : line.owners # {}) IN
  [i \in DOMAIN owned |-> [source |-> "codeowners", confidence |-> 95,
                           pattern |-> owned[i].pattern, owners |-> owned[i].owners]]

Everything == [segs |-> <<Deep>>, anchored |-> FALSE, dirOnly |-> FALSE]

\* parseMaintainersFile
FromMaintainers(owners) ==
  IF owners = {} THEN <<>>
  ELSE <<[source |-> "maintainers-file", confidence |-> 85, pattern |-> Everything, owners |-> owners]>>

\* ownersFromPackageJson: a package owns what lies below its directory.
FromPackage(dir, owners) ==
  IF owners = {} THEN <<>>
  ELSE <<[source |-> "package-maintainers", confidence |-> 75, owners |-> owners,
          pattern |-> IF dir = <<>> THEN Everything
                      ELSE [segs |-> Append([i \in DOMAIN dir |-> {dir[i]}], Deep),
                            anchored |-> FALSE, dirOnly |-> FALSE]]>>

\* The order of discoverOwnership's answer; sources differ in their confidence.
Before(one, other) ==
  \/ one.confidence > other.confidence
  \/ one.confidence = other.confidence /\ Spelled(one.pattern) < Spelled(other.pattern)

\* discoverOwnership; packages is a sequence of [dir, owners].
DiscoverOwnership(lines, maintainers, packages) ==
  SortSeq(FromCodeowners(lines) \o FromMaintainers(maintainers)
            \o FlattenSeq([i \in DOMAIN packages |-> FromPackage(packages[i].dir, packages[i].owners)]),
          Before)

None == [source |-> "none", owners |-> {}]

LastOr(seq, default) == IF seq = <<>> THEN default ELSE Last(seq)

\* ownersForPath: CODEOWNERS, else the package with the longest path, else MAINTAINERS.
OwnersForPath(path, ownerships) ==
  LET of(source) == SelectSeq(ownerships, LAMBDA o : o.source = source /\ Matches(path, o.pattern))
      packages == of("package-maintainers")
      longest == SelectSeq(packages, LAMBDA p : \A q \in ToSet(packages) : Len(p.pattern.segs) >= Len(q.pattern.segs))
  IN LastOr(of("codeowners"),
       IF longest # <<>> THEN Head(longest) ELSE LastOr(of("maintainers-file"), None))

---------------------------------------------------------------------------
\* The facts of a model: entrypoints [file, confidence], dependencies and relationships
\* [from, to], domains' paths, and how much conflicts with each architecture.
Ends(dependencies, relationships) ==
  UNION {{d.from, d.to} : d \in dependencies \cup relationships}

FanIn(model, place) == Cardinality({d \in model.dependencies : d.to = place})
\* A relationship from a place to itself counts twice.
Coupling(model, place) ==
  Cardinality({r \in model.relationships : r.from = place})
    + Cardinality({r \in model.relationships : r.to = place})

Lower(m, n) == IF m < n THEN m ELSE n

Candidates(model) == {e.file : e \in model.entrypoints} \cup model.domains

Grade(count, threshold) == IF count >= 2 * threshold THEN "high" ELSE "medium"

\* discoverRisks, with ownership given
DiscoverRisks(model, ownerships, centrality, coupling) ==
  {[kind |-> "critical-entrypoint", target |-> e.file, severity |-> "high",
    confidence |-> Lower(90, 55 + (35 * e.confidence + 50) \div 100)] : e \in model.entrypoints}
  \cup {[kind |-> "dependency-centrality", target |-> p, severity |-> Grade(FanIn(model, p), centrality),
         confidence |-> Lower(92, 50 + 8 * FanIn(model, p))] :
          p \in {q \in Ends(model.dependencies, {}) : FanIn(model, q) >= centrality}}
  \cup {[kind |-> "high-coupling", target |-> p, severity |-> Grade(Coupling(model, p), coupling),
         confidence |-> Lower(90, 48 + 7 * Coupling(model, p))] :
          p \in {q \in Ends({}, model.relationships) : Coupling(model, q) >= coupling}}
  \cup {[kind |-> "unclear-ownership", target |-> p, severity |-> "medium", confidence |-> 70] :
          p \in {q \in Candidates(model) : OwnersForPath(q, ownerships) = None}}
  \cup {[kind |-> "architecture-conflict", target |-> pattern, severity |-> "medium",
          confidence |-> Lower(85, 40 + 10 * model.conflicts[pattern])] :
          pattern \in {q \in DOMAIN model.conflicts : model.conflicts[q] > 0}}

\* node.path.includes(other), for texts that meet at whole segments
Includes(path, other) ==
  \E i \in 0..Len(path) - Len(other) : SubSeq(path, i + 1, i + Len(other)) = other

\* The type of a component: the first of these that says something of its place.
TypeOf(model, place) ==
  CASE \E e \in model.entrypoints : e.file = place -> "entrypoint"
    [] place \in model.domains -> "domain-surface"
    [] OTHER -> "module"

\* buildComponents; dependencies stand for their ids.
BuildComponents(model, ownerships, risks) ==
  {[path |-> place, type |-> TypeOf(model, place), owners |-> OwnersForPath(place, ownerships).owners,
    dependencies |-> {d \in model.dependencies : Includes(d.from, place)},
    dependents |-> {d \in model.dependencies : Includes(d.to, place)},
    risks |-> {r.kind : r \in {s \in risks : s.kind # "architecture-conflict" /\ Includes(place, s.target)}}] :
   place \in Candidates(model) \cup Ends(model.dependencies, model.relationships)}

---------------------------------------------------------------------------
\* Whoever asks hears the same: a component on an entrypoint or a domain's path has no
\* owner just when nothing names one, and then its risks tell; CODEOWNERS outranks the
\* packages, they outrank MAINTAINERS, and no further source takes an owner away.
OwnersAreTold(model, lines, maintainers, packages) ==
  LET all == DiscoverOwnership(lines, maintainers, packages)
      risks == DiscoverRisks(model, all, 1, 2)
      components == BuildComponents(model, all, risks)
      of(some, place) == OwnersForPath(place, some).owners
  IN /\ \A c \in components : c.path \in Candidates(model) /\ c.owners = {} => "unclear-ownership" \in c.risks
     /\ \A c \in components :
          /\ c.owners = {} <=> \A o \in ToSet(all) : ~Matches(c.path, o.pattern)
          /\ \A first \in {DiscoverOwnership(lines, {}, <<>>), DiscoverOwnership(lines, {}, packages)} :
               of(first, c.path) # {} => c.owners = of(first, c.path)

\* More facts are no less danger: with one dependency or relationship less, every risk
\* was there already or is less sure, and none is graver.
RisksGrow(model, ownerships) ==
  LET risks(m) == DiscoverRisks(m, ownerships, 1, 2)
      graver(one, other) == one.severity = "high" /\ other.severity = "medium"
      fewer == {[model EXCEPT !.dependencies = @ \ {d}] : d \in model.dependencies}
               \cup {[model EXCEPT !.relationships = @ \ {r}] : r \in model.relationships}
  IN \A less \in fewer : \A r \in risks(less) :
       \E s \in risks(model) : /\ s.kind = r.kind /\ s.target = r.target
                               /\ s.confidence >= r.confidence /\ ~graver(r, s)

---------------------------------------------------------------------------
\* includesAny: a role named ViewModel also has View and Model in its name.
Words(role) == IF role = "ViewModel" THEN {"ViewModel", "View", "Model"} ELSE {role}
AnyRole == {"any"}
Names(role, words) == words = AnyRole \/ Words(role) \cap words # {}

\* findRelationships
Found(found, kinds, sources, targets) ==
  MapThenSumSet(LAMBDA e : found.edges[e],
    {e \in DOMAIN found.edges : (kinds = AnyRole \/ e.relationship \in kinds)
                                /\ Names(e.source, sources) /\ Names(e.target, targets)})
Uses(found, sources, targets) == Found(found, {"USES"}, sources, targets)
Edges(found, kind) == Found(found, {kind}, AnyRole, AnyRole)
\* evidenceIncludes looks at both ends.
Mentions(found, words) == Found(found, AnyRole, words, AnyRole) + Found(found, AnyRole, AnyRole, words)

\* A rule's part in a pattern: whether it matched and what it adds to the support.
Rule(matched, support) == [matched |-> matched, support |-> IF matched THEN support ELSE 0]
Scored(rules, conflict) == [rules |-> rules, conflict |-> conflict]
Conflict(holds, score) == IF holds THEN score ELSE 0
Stored == {"Database", "Entity"}

---------------------------------------------------------------------------
Mvc(f) == Scored(
  << Rule(Found(f, {"EXPOSES"}, AnyRole, {"Controller"}) > 0, 120),
     Rule(Found(f, {"USES", "CALLS"}, {"Controller"}, {"Service"}) > 0, 140) >>,
  Conflict(Uses(f, {"Widget"}, {"Bloc"}) > 0, 110))

Mvvm(f) ==
  LET viewModels == Mentions(f, {"ViewModel"}) > 0 IN Scored(
  << Rule(viewModels, 150),
     Rule(viewModels /\ Uses(f, {"Widget", "View"}, {"Service", "ViewModel", "Model"}) > 0, 100) >>,
  Conflict(Uses(f, {"Controller"}, {"Service"}) > 0 /\ ~viewModels, 80))

Chain == 220

Clean(f) ==
  LET calls == Found(f, {"USES", "CALLS"}, {"Controller"}, {"Service"}) > 0
      asks == Uses(f, {"Service"}, {"Repository"}) > 0
      stores == Uses(f, {"Repository"}, Stored) > 0
      whole == calls /\ asks /\ stores
      direct == Uses(f, {"Controller"}, Stored \cup {"Repository"})
  IN Scored(
  << Rule(whole, Chain), Rule(calls /\ ~whole, 70), Rule(asks /\ ~whole, 80), Rule(stores /\ ~whole, 80),
     Rule(Edges(f, "IMPLEMENTS") > 0, 130) >>,
  120 * Lower(direct, 3))

Layered(f) ==
  LET layers == << Found(f, {"USES", "CALLS", "EXPOSES"}, {"Controller"}, {"Service"}) > 0,
                   Uses(f, {"Service"}, {"Repository"}) > 0, Uses(f, {"Repository"}, {"Database"}) > 0 >>
      depth == Cardinality({i \in 1..3 : layers[i]})
  IN Scored([i \in 1..3 |-> Rule(layers[i], IF depth >= 2 THEN 90 ELSE 0)], 0)

Hexagonal(f) == Scored(
  << Rule(Edges(f, "IMPLEMENTS") > 0, 140), Rule(Found(f, {"PROVIDES"}, {"Module"}, AnyRole) > 0, 100),
     Rule(Edges(f, "CONFIGURES") > 0, 80) >>,
  Conflict(Uses(f, {"Controller"}, Stored) > 0, 100))

Onion(f) == Scored(
  << Rule(f.domains > 0 /\ (Found(f, {"PROVIDES"}, AnyRole, {"Domain"}) > 0 \/ Edges(f, "CONTAINS") > 0), 120),
     Rule(Uses(f, {"Service"}, {"Repository"}) > 0, 100) >>, 0)

Ddd(f) == Scored(
  << Rule(f.domains > 0, 70 * Lower(f.domains, 3)), Rule(Found(f, {"PROVIDES"}, AnyRole, {"Domain"}) > 0, 110),
     Rule(Uses(f, {"Repository"}, Stored) > 0, 90) >>, 0)

RepositoryPattern(f) == Scored(
  << Rule(Uses(f, {"Service"}, {"Repository"}) > 0, 140), Rule(Uses(f, {"Repository"}, Stored) > 0, 120) >>,
  Conflict(Uses(f, {"Controller"}, Stored) > 0, 100))

ServiceLayer(f) == Scored(
  << Rule(Found(f, {"USES", "CALLS"}, {"Controller", "API", "Route"}, {"Service"}) > 0, 150),
     Rule(Found(f, {"CALLS"}, {"API"}, {"Service"}) > 0, 110) >>, 0)

FeatureFirst(f) == Scored(
  << Rule(Edges(f, "CONTAINS") >= 2, 130), Rule(Edges(f, "CONSUMES") > 0, 120),
     Rule(Edges(f, "OWNS") > 0, 80) >>, 0)

Bloc(f) ==
  LET widget == Uses(f, {"Widget"}, {"Bloc"}) > 0
      repository == Uses(f, {"Bloc"}, {"Repository"}) > 0
  IN Scored(
  << Rule(widget, 160), Rule(repository, 130),
     Rule("Flutter" \in f.frameworks /\ (widget \/ repository), 70) >>,
  Conflict(Uses(f, {"Controller"}, {"Service"}) > 0 /\ widget, 40))

Riverpod(f) == Scored(<< Rule(Mentions(f, {"Riverpod"}) > 0, 150) >>,
  Conflict("Flutter" \notin f.frameworks, 60))

Redux(f) == Scored(<< Rule(Mentions(f, {"Redux"}) > 0, 150) >>, 0)

Microservice(f) ==
  LET runtimes == Cardinality(f.frameworks) IN Scored(
  << Rule(runtimes >= 2, 70 * runtimes), Rule(f.packages >= 2, 80) >>,
  Conflict(runtimes >= 2 /\ Edges(f, "CONFIGURES") > 0 /\ f.packages <= 1, 70))

ModularMonolith(f) ==
  LET modules == Found(f, {"PROVIDES", "CONFIGURES"}, {"Module"}, AnyRole) > 0
      runtimes == Cardinality(f.frameworks)
  IN Scored(
  << Rule(modules, 140), Rule("NestJS" \in f.frameworks \/ (runtimes = 1 /\ modules), 100),
     Rule(f.packages > 0 /\ modules, 80) >>,
  Conflict(runtimes >= 3, 90))

Plugin(f) == Scored(
  << Rule(f.dynamic > 0, 150), Rule(f.dynamic > 0 /\ Found(f, {"PROVIDES"}, {"Module"}, AnyRole) > 0, 90) >>, 0)

\* Every package dependency was declared in a manifest.
Monorepo(f) == Scored(
  << Rule(f.packages > 0, 55 * Lower(f.packages, 4)), Rule(f.packages > 0, 80),
     Rule(Edges(f, "OWNS") > 0, 70) >>, 0)

Evaluated(f) == [
  mvc |-> Mvc(f), mvvm |-> Mvvm(f), clean |-> Clean(f), layered |-> Layered(f), hexagonal |-> Hexagonal(f),
  onion |-> Onion(f), ddd |-> Ddd(f), repository |-> RepositoryPattern(f), service |-> ServiceLayer(f),
  feature |-> FeatureFirst(f), bloc |-> Bloc(f), riverpod |-> Riverpod(f), redux |-> Redux(f),
  micro |-> Microservice(f), monolith |-> ModularMonolith(f), plugin |-> Plugin(f), monorepo |-> Monorepo(f)]

---------------------------------------------------------------------------
\* scorePatternConfidence, rounded to the nearest hundredth and never above 95
Confidence(scored) ==
  LET support == MapThenSumSet(LAMBDA i : scored.rules[i].support, DOMAIN scored.rules)
      matched == Cardinality({i \in DOMAIN scored.rules : scored.rules[i].matched})
      whole == 4 * support + 5 * scored.conflict + 140
  IN IF matched = 0 \/ support = 0 THEN 0
     ELSE Lower(95, (800 * support + whole) \div (2 * whole) + 3 * Lower(matched, 4))

\* inferArchitectures
Told(evaluated, sure, minConfidence) ==
  [p \in {q \in DOMAIN sure : sure[q] > 0 /\ sure[q] >= minConfidence} |->
     [confidence |-> sure[p], conflicts |-> evaluated[p].conflict > 0]]
Confidences(evaluated) == [p \in DOMAIN evaluated |-> Confidence(evaluated[p])]
InferArchitectures(evaluated, minConfidence) == Told(evaluated, Confidences(evaluated), minConfidence)

\* Evidence never speaks against itself: a relationship that brings a pattern no conflict
\* does not make it less sure, nor does another domain or package; and what does bring a
\* conflict is told where the pattern still is.
Helps(now, sure, told, then) ==
  \A p \in DOMAIN now :
    \/ sure[p] >= Confidence(then[p])
    \/ now[p].conflict > then[p].conflict /\ (p \in DOMAIN told => told[p].conflicts)
EvidenceHelps(found) ==
  LET fewer == {[found EXCEPT !.edges[e] = @ - 1] : e \in {d \in DOMAIN found.edges : found.edges[d] > 0}}
               \cup (IF found.domains > 0 THEN {[found EXCEPT !.domains = @ - 1]} ELSE {})
               \cup (IF found.packages > 0 THEN {[found EXCEPT !.packages = @ - 1]} ELSE {})
      AllHelp(now) == \A less \in fewer :
        Helps(now, Confidences(now), InferArchitectures(now, 55), Evaluated(less))
  IN AllHelp(Evaluated(found))
==============================================================================
