---------------------------- MODULE ProjectModel ----------------------------
(***************************************************************************)
(* What the discoveries found, as the one model of the project that the    *)
(* answers are read from: discoverEntrypoints, ProjectModelBuilder with    *)
(* the check it ends in, the queries, and traceBrain, the depth-first walk *)
(* over the dependencies behind brain_trace.                               *)
(*                                                                         *)
(* What is found is a set of records with the evidence for it and a        *)
(* confidence in hundredths; a model has it as sequences, the surest       *)
(* first.  An id stands for the hash of what it is made of, and none is    *)
(* the collection that a query is not about.  Of a trace the links from    *)
(* the root to entrypoints are left out, and the mode that lists a         *)
(* domain's modules; its edge is [from, to].                               *)
(***************************************************************************)
EXTENDS Integers, Sequences, FiniteSets, TLC, SequencesExt, FiniteSetsExt

CONSTANTS
  Includes(_, _),  \* one text has another in it, whatever the case
  NoArg,           \* a criterion that a query leaves out
  Places,          \* modules' paths and parts of them, where a trace goes
  Alike,           \* pathMatches: the pairs of places of which one ends with the other
  MaxDepth,        \* 25 in the code
  MaxEdges         \* 5000 in the code

---------------------------------------------------------------------------
Looks(path, boost, needsSignal) == [path |-> path, boost |-> boost, needsSignal |-> needsSignal]

\* ENTRYPOINT_MODELS
EntrypointModels == [
  Flutter |-> Looks(70, 10, FALSE), Laravel |-> Looks(85, 5, FALSE), NextJs |-> Looks(80, 6, FALSE),
  NestJS |-> Looks(55, 15, TRUE), React |-> Looks(60, 12, TRUE), Node |-> Looks(50, 15, TRUE),
  Django |-> Looks(90, 4, FALSE), Python |-> Looks(55, 15, TRUE), Java |-> Looks(55, 15, TRUE),
  Go |-> Looks(65, 15, TRUE), Rust |-> Looks(70, 20, TRUE)]

\* The signals that a file's text shows of a framework; of a file that cannot be read, none.
Signals(f, framework) == IF f.readable /\ framework \in DOMAIN f.signals THEN f.signals[framework] ELSE {}

EntrypointConfidence(framework, hits) ==
  LET looks == EntrypointModels[framework] IN
  IF looks.needsSignal /\ hits = 0 THEN 0 ELSE Min({99, looks.path + hits * looks.boost})

\* A file is found once for each framework whose entrypoints look like it.
DiscoverEntrypoints(files) ==
  {[framework |-> found[2], file |-> found[1].path,
    confidence |-> EntrypointConfidence(found[2], Cardinality(Signals(found[1], found[2]))),
    evidence |-> {ToString(found[1].path)} \cup Signals(found[1], found[2])] :
     found \in {pair \in files \X DOMAIN EntrypointModels :
                  /\ pair[2] \in pair[1].fits
                  /\ EntrypointConfidence(pair[2], Cardinality(Signals(pair[1], pair[2]))) >= 55}}

---------------------------------------------------------------------------
\* Rounded to hundredths.
AverageConfidence(values) ==
  LET sum == FoldLeft(+, 0, values) IN
  IF values = <<>> THEN 0 ELSE (2 * sum + Len(values)) \div (2 * Len(values))
Confidences(items) == [i \in DOMAIN items |-> items[i].confidence]

\* stableModelId, of what tells one thing found from another of its kind
DomainId(d) == <<"domain", d.name>>
EntrypointId(e) == <<"entrypoint", e.framework, e.file>>

DependencyId(d) == <<"dependency", d.from, d.to, d.type>>

RelationshipId(r) == <<"relationship", r.source, r.target, r.relationship>>
ArchitectureId(a) == <<"architecture", a.pattern>>

\* Things as sure as each other come in an order of their names, that stands for any.
Sorted(items) ==
  LET place(i, seq) == InsertAt(seq, 1 + Cardinality({k \in DOMAIN seq : seq[k].confidence >= i.confidence}), i)
  IN FoldSet(place, <<>>, items)
Identified(items, Id(_)) ==
  [i \in DOMAIN items |-> [id |-> Id(items[i]), of |-> items[i],
                            evidence |-> items[i].evidence, confidence |-> items[i].confidence]]
Surest(items, Id(_)) == Identified(Sorted(items), Id)

Collections == <<"domains", "entrypoints", "dependencies", "relationships", "architectures">>

AllOf(items) == FlattenSeq([i \in DOMAIN Collections |-> items[Collections[i]]])
FirstFive(items) == SubSeq(items, 1, Min({5, Len(items)}))

\* ProjectModelBuilder.build, of found.domains and the others
ModelOf(items, counts, confidence) ==
  [items |-> items,
   metadata |-> [id |-> <<"metadata">>, evidence |-> {c \o ": " \o ToString(counts[c]) : c \in DOMAIN counts}, confidence |-> confidence],
   summary |-> [counts |-> counts, confidence |-> confidence,
                topDomains |-> [i \in DOMAIN FirstFive(items.domains) |-> items.domains[i].of.name],
                topArchitectures |-> [i \in DOMAIN FirstFive(items.architectures) |-> items.architectures[i].of.pattern],
                frameworks |-> {items.entrypoints[i].of.framework : i \in DOMAIN items.entrypoints}]]
Summed(items) ==
  ModelOf(items, [c \in ToSet(Collections) |-> Len(items[c])], AverageConfidence(Confidences(AllOf(items))))
Build(found) ==
  Summed([domains |-> Surest(found.domains, DomainId),
          entrypoints |-> Surest(found.entrypoints, EntrypointId),
          dependencies |-> Surest(found.dependencies, DependencyId),
          relationships |-> Surest(found.relationships, RelationshipId),
          architectures |-> Surest(found.architectures, ArchitectureId)])

\* validateProjectModel: no two things have one id, and each has evidence and a confidence.
Valid(model) ==
  LET all == AllOf(model.items) IN
  /\ \A i, j \in DOMAIN all : all[i].id = all[j].id => i = j
  /\ \A i \in DOMAIN all : all[i].evidence # {} /\ all[i].confidence \in 0..100
  /\ model.metadata.evidence # {} /\ model.metadata.confidence \in 0..100

---------------------------------------------------------------------------
Error(why) == [error |-> why]
NotFound == Error("QUERY_NOT_FOUND")
\* What an answer lists and how sure it is; the evidence it quotes is left out.
Answer(items, confidence) == [items |-> items, confidence |-> confidence]

Listed(model, collection) ==
  LET items == model.items[collection] IN Answer(items, AverageConfidence(Confidences(items)))

\* The first item that a criterion of the query finds.
FirstAnswer(hits) == IF hits = <<>> THEN NotFound ELSE Answer(<<Head(hits)>>, Head(hits).confidence)
FirstWith(items, Is(_)) == FirstAnswer(SelectSeq(items, Is))

Given(value) == value # NoArg
Asked(value, actual) == ~Given(value) \/ value = actual

FindEntrypoint(model, q) ==
  IF \A c \in DOMAIN q : ~Given(q[c]) THEN Error("QUERY_VALIDATION")
  ELSE FirstWith(model.items.entrypoints, LAMBDA e :
         \/ Given(q.id) /\ e.id = q.id
         \/ Given(q.file) /\ e.of.file = q.file
         \/ Given(q.framework) /\ e.of.framework = q.framework /\ ~Given(q.file) /\ ~Given(q.id))

\* An id is all that counts; else everything that is given must fit.
FindEdge(items, q, Fits(_)) ==
  IF ~Given(q.id) /\ \A c \in DOMAIN q \ {"id"} : ~Given(q[c]) THEN Error("QUERY_VALIDATION")
  ELSE FirstWith(items, LAMBDA i : IF Given(q.id) THEN i.id = q.id ELSE Fits(i.of))

FindRelationship(model, q) ==
  FindEdge(model.items.relationships, q, LAMBDA r :
    Asked(q.source, r.source) /\ Asked(q.target, r.target) /\ Asked(q.relationship, r.relationship))
FindDependency(model, q) ==
  FindEdge(model.items.dependencies, q, LAMBDA d :
    Asked(q.from, d.from) /\ Asked(q.to, d.to) /\ Asked(q.type, d.type))

Speaks(item, needle) == \E e \in item.evidence : Includes(e, needle)

DomainAnswer(model, name, domain) ==
  LET related == SelectSeq(model.items.relationships, LAMBDA r :
        \/ <<name>> \in {r.of.source, r.of.target} \/ Speaks(r, name)
        \/ \E p \in domain.evidence : Includes(r.of.source, p) \/ Includes(r.of.target, p) \/ Speaks(r, p))
      entered == SelectSeq(model.items.entrypoints, LAMBDA e :
        \E p \in domain.evidence : Includes(p, e.of.file) \/ Includes(e.of.file, p))
      depended == SelectSeq(model.items.dependencies, LAMBDA d : <<name>> \in {d.of.from, d.of.to} \/ Speaks(d, name))
      patterned == SelectSeq(model.items.architectures, LAMBDA a : Speaks(a, name))
  IN Answer(<<domain>> \o entered \o related \o depended
              \o (IF patterned # <<>> THEN patterned ELSE SubSeq(model.items.architectures, 1, Min({3, Len(model.items.architectures)}))),
            domain.confidence)
FindDomain(model, name) ==
  LET named == SelectSeq(model.items.domains, LAMBDA d : d.of.name = name)
  IN IF named = <<>> THEN NotFound ELSE DomainAnswer(model, name, Head(named))

FindArchitecture(model, pattern) == FirstWith(model.items.architectures, LAMBDA a : a.of.pattern = pattern)

Averaged(all) == IF all = <<>> THEN NotFound ELSE Answer(all, AverageConfidence(Confidences(all)))
FindComponent(model, name) ==
  LET sources == SelectSeq(model.items.relationships, LAMBDA r : r.of.source = name)
      targets == SelectSeq(model.items.relationships, LAMBDA r : r.of.target = name)
      ends == SelectSeq(model.items.dependencies, LAMBDA d : name \in {d.of.from, d.of.to})
      entered == SelectSeq(model.items.entrypoints, LAMBDA e : Includes(e.of.file, name) \/ Speaks(e, name))
      domains == SelectSeq(model.items.domains, LAMBDA d : <<d.of.name>> = name \/ Speaks(d, name))
  IN Averaged(sources \o targets \o ends \o entered \o domains)

\* What says it, of the model itself and of what it lists.
FindEvidence(model, needle) ==
  LET hits == SelectSeq(<<model.metadata>> \o AllOf(model.items), LAMBDA i : Speaks(i, needle))
  IN IF hits = <<>> THEN NotFound
     ELSE Answer(hits, Min({99, 50 + 4 * Min({Len(hits), 10})}))

---------------------------------------------------------------------------
PathMatches(value, target) == <<value, target>> \in Alike

\* Which edges a walk at current looks at, and where it goes on.
Relevant(edge, current, mode) ==
  CASE mode = "dependencies" -> PathMatches(edge.from, current)
    [] mode = "dependents" -> PathMatches(edge.to, current)
    [] mode \in {"blast-radius", "entrypoint-downstream"} ->
         PathMatches(edge.from, current) \/ PathMatches(edge.to, current)

Follows(edge, current, mode) ==
  (IF mode # "dependents" /\ PathMatches(edge.from, current) THEN <<edge.to>> ELSE <<>>)
  \o (IF mode \in {"dependents", "blast-radius"} /\ PathMatches(edge.to, current) THEN <<edge.from>> ELSE <<>>)

\* addEdge
AddEdge(edges, edge) == IF Cardinality(edges) >= MaxEdges THEN edges ELSE edges \cup {edge}

\* visiting.delete(current); expanded.add(current)
Leave(walk, current) ==
  [walk EXCEPT !.visiting = @ \ {current}, !.expanded = @ \cup {current}]

RECURSIVE Walk(_, _, _, _, _), WalkEdges(_, _, _, _, _, _), WalkPlaces(_, _, _, _, _)

Walk(walk, current, depth, graph, mode) ==
  IF depth > MaxDepth \/ Cardinality(walk.edges) >= MaxEdges THEN walk
  ELSE IF current \in walk.visiting THEN [walk EXCEPT !.cycles = @ \cup {current}]
  ELSE IF current \in walk.expanded THEN walk
  ELSE Leave(WalkEdges([walk EXCEPT !.visiting = @ \cup {current}], current, depth, graph, mode, 1), current)

\* The edges in the model's order.
WalkEdges(walk, current, depth, graph, mode, i) ==
  IF i > Len(graph) THEN walk
  ELSE IF ~Relevant(graph[i], current, mode) THEN WalkEdges(walk, current, depth, graph, mode, i + 1)
  ELSE WalkEdges(
         WalkPlaces([walk EXCEPT !.edges = AddEdge(@, graph[i])],
                    Follows(graph[i], current, mode), depth + 1, graph, mode),
         current, depth, graph, mode, i + 1)

WalkPlaces(walk, places, depth, graph, mode) ==
  IF places = <<>> THEN walk
  ELSE WalkPlaces(Walk(walk, Head(places), depth, graph, mode), Tail(places), depth, graph, mode)

\* traceBrain, for the four modes that walk.
TraceBrain(graph, target, mode) ==
  LET walk == Walk([visiting |-> {}, expanded |-> {}, edges |-> {}, cycles |-> {}],
                   target, 0, graph, mode)
  IN [edges |-> walk.edges, cycles |-> walk.cycles]

\* Impact and BlastRadius of brain_query: the edges that touch the target itself.
Impact(graph, target) ==
  {e \in ToSet(graph) : PathMatches(e.from, target) \/ PathMatches(e.to, target)}

---------------------------------------------------------------------------
\* What is discovered makes a valid model, so that no project is refused.
ModelsBuild(found) == Valid(Build(found))

\* What the model lists, its queries find: by its own names and by its id, from
\* the components it joins, from the domain it provides and from its evidence.
One(answer) == IF "error" \in DOMAIN answer THEN <<>> ELSE answer.items
EndsAreFound(model, r) ==
  /\ \A id \in {r.id, NoArg} :
       One(FindRelationship(model, [id |-> id, source |-> r.of.source, target |-> r.of.target,
                                    relationship |-> r.of.relationship])) = <<r>>
  /\ \A end \in {r.of.source, r.of.target} : r \in ToSet(One(FindComponent(model, end)))
  /\ \A d \in ToSet(model.items.domains) :
       <<d.of.name>> \in {r.of.source, r.of.target} => r \in ToSet(One(FindDomain(model, d.of.name)))
EntrypointIsFound(e, hit) == hit # <<>> /\ Head(hit).of.file = e.of.file /\ Head(hit).confidence >= e.confidence
ListedAreFound(model) ==
  LET listed(collection) == ToSet(Listed(model, collection).items) IN
  /\ \A r \in listed("relationships") : EndsAreFound(model, r)
  /\ \A d \in listed("dependencies") : \A id \in {d.id, NoArg} :
       One(FindDependency(model, [id |-> id, from |-> d.of.from, to |-> d.of.to, type |-> d.of.type])) = <<d>>
  /\ \A e \in listed("entrypoints") :
       EntrypointIsFound(e, One(FindEntrypoint(model, [id |-> NoArg, file |-> e.of.file, framework |-> e.of.framework])))
  /\ \A a \in listed("architectures") : One(FindArchitecture(model, a.of.pattern)) = <<a>>
  /\ \A c \in ToSet(Collections) : \A i \in listed(c) : \A e \in i.evidence :
       i \in ToSet(One(FindEvidence(model, e)))
FoundAreListed(found) == ListedAreFound(Build(found))

Steps(graph, mode) ==
  {<<p, q>> \in Places \X Places :
     \E e \in ToSet(graph) : q \in ToSet(Follows(e, p, mode))}

RECURSIVE Reached(_, _, _)
Reached(steps, from, n) ==
  IF n = 0 THEN from
  ELSE Reached(steps, from \cup {pq[2] : pq \in {s \in steps : s[1] \in from}}, n - 1)

Reach(graph, target, mode) == Reached(Steps(graph, mode), {target}, Cardinality(Places))

\* A trace within its limits is complete and says no more: its edges are those at the
\* places that can be reached, whatever the order of the edges; a cycle is reported when
\* and only when one can be reached, at places that lie on one; and it has what Impact has.
TraceIsReach(graph, target) ==
  /\ \A mode \in {"dependencies", "dependents", "blast-radius"} :
       LET trace == TraceBrain(graph, target, mode)
           reach == Reach(graph, target, mode)
           steps == Steps(graph, mode)
           onCycle == {p \in reach :
                         p \in Reached(steps, {s[2] : s \in {t \in steps : t[1] = p}}, Cardinality(Places))}
       IN /\ trace.edges = {e \in ToSet(graph) : \E p \in reach : Relevant(e, p, mode)}
          /\ trace.cycles \subseteq onCycle
          /\ trace.cycles = {} <=> onCycle = {}
  /\ Impact(graph, target) \subseteq TraceBrain(graph, target, "blast-radius").edges
=============================================================================
