-------------------------- MODULE ContextRetrieval ---------------------------
(***************************************************************************)
(* Where a project ends: which files discoverFiles lists, which paths      *)
(* assertProjectOwnedRepoPath and resolveSafeRepoPath let a tool touch,    *)
(* and which of the paths that instructions refer to the missing-path rule *)
(* reports. Then what an answer about the project rests on: the search of  *)
(* the brain, the planned context, the files that are quoted, and what the *)
(* chat's answer claims (agent/context, platform/tokens/plan.ts,           *)
(* agent/chat).                                                            *)
(*                                                                         *)
(* A path is a sequence of names from the root.  A tree is [files, dirs,   *)
(* links, git, locked, large]: links maps a link to the real path it leads *)
(* to, where <<"..">> begins one outside; git has the directories with a   *)
(* .git, locked those that cannot be listed, large the oversized files.    *)
(*                                                                         *)
(* A question is [whole, terms, topics]: its words, those that matter, and *)
(* the topics it touches.  A brain has claims, components and notes (its   *)
(* unknowns and limitations) as sequences of entries [id, kind, holds,     *)
(* marks, paths, evidence]: the words and markers that its text has and    *)
(* the paths in it; a component also has name, type and path, a claim      *)
(* subject and object.  A node of the graph is [kind, path, label].        *)
(***************************************************************************)
EXTENDS Integers, Sequences, FiniteSets, SequencesExt

CONSTANTS
  Ignored,   \* DEFAULT_IGNORE_DIRECTORIES
  LogLike,   \* the names that isLogLikePath takes for a log's
  MaxDepth,  \* how deep the walk of a tree is followed
  Absent,
  PathOrder,   \* every path, as they sort
  Dotted,      \* names with an extension, and ...
  Coded,       \* ... with one of a programming language
  Typed,       \* ... with .ts, .tsx or .md
  Noise,       \* names of minified or vendored code
  Secret,      \* names that the planner never reads
  Infra,       \* names of files that speak of infrastructure
  About,       \* the names that speak of a topic
  Tokens,      \* the size of a file, by its real path
  MaxHits, MaxCandidates, MaxFiles, MaxHints, Budget, TooLarge

HeavyNames == {"debug", "trace", "coverage-final", "chrome-devtools", "heapdump"}
IsLogLikePath(path) == Last(path) \in LogLike \/ ToSet(path) \cap HeavyNames # {}
Starts(path, prefix) == IsPrefix(prefix, path)
Dir(path) == Front(path)

\* The real path of one that may lead through links.
Real(tree, path) ==
  FoldLeft(LAMBDA at, name : LET next == Append(at, name) IN IF next \in DOMAIN tree.links THEN tree.links[next] ELSE next,
           <<>>, path)
Inside(path) == path = <<>> \/ Head(path) # ".."

---------------------------------------------------------------------------
\* classifyRelativePathOwnership
Classify(path) ==
  CASE path = <<>> -> "project_owned"
    [] Head(path) = ".private" -> "private_workspace"
    [] Head(path) = "AgentDoctorOS" -> "internal_docs"
    [] Head(path) = "fixtures" -> "fixture_tree"
    [] Head(path) = "validation" /\ \E i \in 2..(Len(path) - 1) : path[i] = "checkouts" -> "validation_checkout"
    [] Starts(path, <<"validation", "real-world", "repositories", "checkouts">>) -> "validation_checkout"
    [] OTHER -> "project_owned"

IsNestedRepositoryRoot(tree, real) == real # <<>> /\ real \in tree.git

\* decideDirectoryTraversal, of a directory by the path the walk has for it
DecideDirectoryTraversal(tree, path) ==
  CASE path = <<>> -> "project_owned"
    [] Classify(path) # "project_owned" -> Classify(path)
    [] IsNestedRepositoryRoot(tree, Real(tree, path)) -> "nested_repository"
    [] OTHER -> "project_owned"

Exists(tree, path) == Inside(Real(tree, path)) /\ Real(tree, path) \in tree.files \cup tree.dirs
Children(tree, path) ==
  LET real == Real(tree, path) IN
  {Append(path, Last(p)) : p \in {q \in tree.files \cup tree.dirs \cup DOMAIN tree.links : q # <<>> /\ Dir(q) = real}}

\* What a listed directory adds to the walk; a link is followed if it stays inside.
Directories(tree, path) ==
  IF path \in tree.locked THEN {}
  ELSE {p \in Children(tree, path) : Exists(tree, p) /\ Real(tree, p) \in tree.dirs}
Traversed(tree, path) == Last(path) \notin Ignored /\ DecideDirectoryTraversal(tree, path) = "project_owned"

DiscoverFiles(tree) ==
  LET deeper(walked, level) == walked \cup UNION {{p \in Directories(tree, d) : Traversed(tree, p)} : d \in walked}
      walked == FoldLeft(deeper, {<<>>}, [i \in 1..MaxDepth |-> i])
      seen == UNION {Directories(tree, d) : d \in walked}
      files == UNION {Children(tree, d) : d \in walked \ tree.locked}
  IN [files |-> {f \in files :
                   /\ Exists(tree, f) /\ Real(tree, f) \in tree.files
                   /\ f \in tree.large => IsLogLikePath(f)
                   /\ Classify(f) = "project_owned"},
      skipped |-> {d \in seen : ~Traversed(tree, d)},
      errors |-> walked \cap tree.locked]

---------------------------------------------------------------------------
\* isUnderNestedRepository: the path itself and its ancestors up to the root,
\* or to the disk's own if the root is an alias and is never met on the way up.
IsUnderNestedRepository(tree, real, rootIsAlias) ==
  \E n \in (IF rootIsAlias THEN 0 ELSE 1)..Len(real) : SubSeq(real, 1, n) \in tree.git

\* assertProjectOwnedRepoPath, and the class it refuses a path as
Ownership(tree, path, rootIsAlias) ==
  LET real == Real(tree, path) IN
  CASE Classify(path) # "project_owned" -> Classify(path)
    [] Classify(real) # "project_owned" -> Classify(real)
    [] IsUnderNestedRepository(tree, real, rootIsAlias) -> "nested_repository"
    [] OTHER -> "project_owned"

---------------------------------------------------------------------------
\* A reference is [kind, path]: its path may hold "." and "..", its kind is how
\* it is written.
Kinds == {"path", "bare", "dotted", "url", "anchor", "option", "spaced", "absolute", "scoped", "glob", "token"}
OptionalBuildRoots == {"dist", "build", "out", "target", ".next", "coverage"}
ModuleHosts == {"github.com", "golang.org"}
GoStdlibRoots == {"io", "net", "path", "os"}
GitPrefixes == {"origin", "upstream", "HEAD", "feature", "fix", "chore", "hotfix", "release"}
BundlerTypes == {"asset", "javascript", "css", "json", "wasm", "webassembly", "runtime"}

\* isLikelyLocalPathReference: a path with a slash, or a bare name with a known extension
IsLikelyLocal(ref) ==
  /\ ref.kind \in {"path", "bare"}
  /\ ~(Len(ref.path) = 1 /\ Head(ref.path) \in OptionalBuildRoots)
  /\ Len(ref.path) > 1 => Head(ref.path) \notin ModuleHosts \cup GoStdlibRoots
\* preparePathReference: what names a place and not a pattern, a branch or a type
IsConcrete(ref) ==
  /\ "..." \notin ToSet(ref.path) /\ Head(ref.path) # "~"
  /\ Len(ref.path) > 1 => Head(ref.path) \notin GitPrefixes
  /\ Len(ref.path) = 2 => Head(ref.path) \notin BundlerTypes

\* path.posix.normalize of a relative path: what cannot be popped stays in front.
Normalize(path) ==
  FoldLeft(LAMBDA done, name :
             CASE name = "." -> done
               [] name = ".." /\ done # <<>> /\ Last(done) # ".." -> Front(done)
               [] OTHER -> Append(done, name),
           <<>>, path)
Escapes(path) == path # <<>> /\ Head(path) = ".."

\* resolveInstructionPathReference: the paths to look for, or an escape
ResolveReference(instruction, path) ==
  LET near == Normalize(Dir(instruction) \o path)
      far == Normalize(path)
      ok(p) == {<<"ok">> \o q : q \in p}
  IN IF Head(path) \in {".", ".."} THEN IF Escapes(near) THEN {<<"escape">>} ELSE ok({near})
     ELSE IF Escapes(far) THEN {<<"escape">>}
     ELSE ok({far} \cup {p \in {near} : ~Escapes(p)})

\* missingPathReferenceRule, of a readable instruction file and what it refers to
MissingReferences(tree, instruction, refs) ==
  LET found(ref) == \E p \in ResolveReference(instruction, ref.path) :
                      Head(p) = "ok" /\ (Tail(p) = <<>> \/ Exists(tree, Tail(p)))
  IN {ref \in refs : IsLikelyLocal(ref) /\ IsConcrete(ref) /\ ~found(ref)}

---------------------------------------------------------------------------
\* What resolveSafeRepoPath makes of a path that a tool is given (security/paths.ts).
\* A candidate is [kind, names]: "relative", or absolute and under the "root" as it was
\* given, under its "real" path, "abroad", or on a "drive".  A name may be encoded.
Decoded(name) == CASE name = "%2e%2e" -> ".." [] name = "%66" -> "f" [] OTHER -> name
Climbs(name) == name \in {"..", "...."}

\* rejectHostilePathInput: as it is written and as it is decoded
RejectHostile(candidate) ==
  \/ candidate.kind = "drive" \/ candidate = [kind |-> "relative", names |-> <<>>]
  \/ \E name \in ToSet(candidate.names) : name = "%" \/ Climbs(name) \/ Climbs(Decoded(name))

\* existsSync, which follows links; abroad is what there is outside of the root.
OnDisk(tree, abroad, path) == Real(tree, path) \in tree.files \cup tree.dirs \cup abroad

\* resolveSafeRepoPath: a set of one path, or none if it throws. What does not exist yet is
\* judged by the deepest of its directories that does.
ResolveSafe(tree, abroad, rootIsAlias, candidate) ==
  LET path == Normalize([i \in DOMAIN candidate.names |-> Decoded(candidate.names[i])])
      above == CHOOSE n \in 0..Len(path) :
                 /\ OnDisk(tree, abroad, SubSeq(path, 1, n))
                 /\ \A m \in (n + 1)..Len(path) : ~OnDisk(tree, abroad, SubSeq(path, 1, m))
  IN CASE RejectHostile(candidate) -> {}
       [] candidate.kind = "abroad" \/ (candidate.kind = "real" /\ rootIsAlias) -> {}
       [] ~Inside(Real(tree, SubSeq(path, 1, above))) -> {}
       [] OTHER -> {IF above = Len(path) THEN Real(tree, path) ELSE path}

---------------------------------------------------------------------------
\* What is listed may be touched and, but for what the walk skips, cannot read
\* or finds too large, what may be touched is listed; only a link's name may be
\* listed for what may not.  The root is not an alias.
ListedIsOwned(tree) ==
  LET found == DiscoverFiles(tree)
      passes(f, dirs) == \E n \in 1..(Len(f) - 1) : SubSeq(f, 1, n) \in dirs
      cut(f) == \/ passes(f, {d \in tree.dirs : d # <<>> /\ Last(d) \in Ignored})
                \/ passes(f, tree.locked) \/ <<>> \in tree.locked
                \/ f \in tree.large /\ ~IsLogLikePath(f)
      owned(f) == Ownership(tree, f, FALSE) = "project_owned"
  IN /\ \A f \in tree.files : f \in found.files <=> owned(f) /\ ~cut(f)
     /\ \A f \in found.files : f \in tree.files \/ owned(f) \/ ~owned(Real(tree, f))

\* Where the names of a path lead, one after the other; <<"..">> is out of the root.
Follow(from, path) ==
  FoldLeft(LAMBDA at, name :
             CASE at = <<"..">> \/ name = "." -> at
               [] name = ".." -> IF at = <<>> THEN <<"..">> ELSE Front(at)
               [] OTHER -> Append(at, name),
           from, path)

\* A path that starts with a dot is reported when it leads, from the directory
\* of the file that has it, out of the root or to nothing; one without, when it
\* leads nowhere from the root and nowhere from there.
MissingIsMissing(tree, instruction, refs) ==
  LET leads(from, path) == LET to == Follow(from, path) IN to # <<"..">> /\ (to = <<>> \/ Exists(tree, to))
      missing == MissingReferences(tree, instruction, refs)
  IN \A ref \in refs : IsLikelyLocal(ref) /\ IsConcrete(ref) =>
       IF Head(ref.path) \in {".", ".."} THEN ref \in missing <=> ~leads(Dir(instruction), ref.path)
       ELSE leads(<<>>, ref.path) => ref \notin missing

\* A path that a tool is given leads to within the root, whatever is then made at it, unless
\* it passes a link that leads to nothing; it is answered alike when it is absolute or is
\* what was answered before, unless the root is an alias; and what is listed is let through.
PathsStayInside(tree, abroad, rootIsAlias, candidate) ==
  LET resolved(c) == ResolveSafe(tree, abroad, rootIsAlias, c)
      lost(path) == \E link \in DOMAIN tree.links : IsPrefix(link, path) /\ ~OnDisk(tree, abroad, link)
  IN /\ \A path \in resolved(candidate) :
          /\ Inside(path) /\ (Inside(Real(tree, path)) \/ lost(path))
          /\ ~rootIsAlias => resolved([kind |-> "real", names |-> path]) = {path}
     /\ candidate.kind = "relative" /\ candidate.names # <<>> =>
          resolved([candidate EXCEPT !.kind = "root"]) = resolved(candidate)
ListedIsLetThrough(tree, abroad) ==
  \A f \in DiscoverFiles(tree).files :
    ResolveSafe(tree, abroad, FALSE, [kind |-> "relative", names |-> f]) = {Real(tree, f)}

---------------------------------------------------------------------------
InOrder(set, Before(_, _)) ==
  [n \in 1..Cardinality(set) |-> CHOOSE e \in set : Cardinality({f \in set : Before(f, e)}) = n - 1]
FirstOf(seq, n) == SubSeq(seq, 1, IF Len(seq) < n THEN Len(seq) ELSE n)
Place(path) == SelectInSeq(PathOrder, LAMBDA p : p = path)
Points(holds, n) == IF holds THEN n ELSE 0
Speaks(path, words) == ToSet(path) \cap words # {}
Words(question) == ToSet(question.terms)

---------------------------------------------------------------------------
\* searchBrain, for the whole question and each of its terms: a hit has its best score.
ScoreText(entry) ==
  Points("provides" \in entry.marks, 45) + Points("module" \in entry.marks \/ entry.kind = "component", 25)
  + Points("domain" \in entry.marks, 10)
  - Points("risk" \in entry.marks, 35) - Points("unclear" \in entry.marks, 15)

Entries(brain) == ToSet(brain.claims) \cup ToSet(brain.components) \cup ToSet(brain.notes)

SearchBrain(brain, question) ==
  LET score(e) == IF e.kind = "note" THEN 50 ELSE 100
      boost(e) == IF question.whole \in e.holds THEN 30 ELSE 20
  IN {[entry |-> e, form |-> "found", score |-> score(e) + boost(e) + ScoreText(e)] :
        e \in {f \in Entries(brain) : f.holds \cap (Words(question) \cup {question.whole}) # {}}}

\* A question for an overview adds modules, surfaces, entrypoints and what they
\* provide, none of which scores as much as a hit of the search.
Adding(walk, entry, score, limit) ==
  LET hits == IF \E h \in walk.hits : h.entry = entry THEN walk.hits
              ELSE walk.hits \cup {[entry |-> entry, form |-> "shown", score |-> score]}
  IN [walk EXCEPT !.hits = hits, !.done = Cardinality(hits) >= limit]

WithComponent(walk, c) ==
  LET named == IF c.type = "domain-surface" THEN walk.names \cup {c.name} ELSE walk.names
  IN CASE walk.done \/ (c.type = "domain-surface" /\ c.name \in walk.names) -> walk
       [] c.type \notin {"module", "entrypoint", "domain-surface"} -> walk
       [] OTHER -> Adding([walk EXCEPT !.names = named], c,
                          CASE c.type = "module" -> 85 [] c.type = "entrypoint" -> 75 [] OTHER -> 55, 2 * MaxHits)
WithClaim(walk, c) ==
  IF walk.done \/ c.marks \cap {"provides", "domain"} = {} THEN walk
  ELSE Adding(walk, c, IF "provides" \in c.marks THEN 90 ELSE 60, 3 * MaxHits)

Overview(brain, hits) ==
  LET shown == FoldLeft(WithComponent, [hits |-> hits, names |-> {}, done |-> FALSE], brain.components)
  IN FoldLeft(WithClaim, [shown EXCEPT !.done = FALSE], brain.claims).hits

Wanted(brain, question, found) ==
  IF question.terms = <<>> \/ "overview" \in question.topics THEN Overview(brain, found) ELSE found
Ranked(hits) ==
  InOrder(hits, LAMBDA h, g : h.score > g.score \/ (h.score = g.score /\ h.entry.id < g.entry.id))

\* collectBrainEvidenceForQuery: the best hits, those of a label once
OnePerLabel(ranked) ==
  LET label(h) == IF h.entry.kind = "component" THEN <<h.form, h.entry.name, h.entry.type>> ELSE <<h.entry.id>>
      again(kept, h) == \E k \in ToSet(kept) : label(k) = label(h)
  IN FoldLeft(LAMBDA kept, h : IF again(kept, h) THEN kept ELSE Append(kept, h), <<>>, ranked)
Hits(brain, question) ==
  FirstOf(OnePerLabel(Ranked(Wanted(brain, question, SearchBrain(brain, question)))), MaxHits)

IsControlPlane(path) == path # <<>> /\ Head(path) = ".agentdoctor"
LooksLikeRepoPath(path) ==
  /\ path # <<>> /\ ~IsControlPlane(path)
  /\ ".." \notin ToSet(path) /\ ".private" \notin ToSet(Dir(path)) /\ Head(path) # "AgentDoctorOS"
  /\ Len(path) > 1 \/ Last(path) \in Dotted

\* The paths a hit names: in its text, as a component's or an end of a claim, in its evidence.
NamedBy(brain, hit) ==
  LET e == hit.entry
      located == {brain.evidence[i].locator : i \in {j \in e.evidence : brain.evidence[j].kind \in {"path", "file-presence"}}}
      own == CASE e.kind = "component" -> {e.path} [] e.kind = "claim" -> {e.subject, e.object} [] OTHER -> {}
  IN {p \in e.paths \cup (IF e.kind = "note" THEN {} ELSE located) \cup own : LooksLikeRepoPath(p)}

\* candidateSourcePaths: those that speak of the question come first
CandidatePaths(brain, hits, question) ==
  LET score(p) == Points(Speaks(p, Words(question)), 5) + Points(Last(p) \in Coded, 2) - Points(Head(p) = ".cursor", 6)
      named == UNION {NamedBy(brain, hit) : hit \in ToSet(hits)}
  IN FirstOf(InOrder(named, LAMBDA p, q : score(p) > score(q) \/ (score(p) = score(q) /\ Place(p) < Place(q))),
             MaxCandidates)

---------------------------------------------------------------------------
\* planContext: files of the graph in the order of their paths, while they fit.  What
\* it looks for is one text, and no path has two terms with a blank between them.
Relevance(path, question) ==
  LET sought == IF question.terms = <<>> THEN {question.whole} ELSE Words(question)
  IN Points(Cardinality(sought) = 1 /\ Speaks(path, sought), 60)
     + (IF Last(path) \in Typed THEN 20 ELSE 5) + Points(Head(path) = "src", 15)
Plannable(tree, path, question) ==
  /\ ".." \notin ToSet(path) /\ ~Speaks(path, Secret) /\ Relevance(path, question) >= 25
  /\ Append(Real(tree, Dir(path)), Last(path)) \notin DOMAIN tree.links /\ Exists(tree, path) /\ Real(tree, path) \in tree.files
  /\ Tokens[Real(tree, path)] <= TooLarge

PlanContext(tree, graph, question) ==
  LET nodes == {n.path : n \in {m \in ToSet(graph) : m.kind \in {"file", "doc", "config"}}}
      step(plan, path) ==
        LET tokens == Tokens[Real(tree, path)] IN
        IF plan.used + tokens > Budget THEN plan
        ELSE [selected |-> plan.selected \cup {path}, used |-> plan.used + tokens]
  IN FoldLeft(step, [selected |-> {}, used |-> 0],
              SelectSeq(PathOrder, LAMBDA p : p \in nodes /\ Plannable(tree, p, question)))

\* The plan's files as they are tried: those that speak of a term first.
PlannedPaths(plan, question) ==
  LET score(p) == Points(Speaks(p, Words(question)), 5) - Points(Speaks(p, Noise), 4) + Points(Last(p) \in Coded, 1)
      key(p) == <<score(p), Relevance(p, question), Len(PathOrder) - Place(p)>>
  IN InOrder(plan.selected, LAMBDA p, q :
       LET k == key(p) l == key(q) IN
       k[1] > l[1] \/ (k[1] = l[1] /\ (k[2] > l[2] \/ (k[2] = l[2] /\ k[3] > l[3]))))

---------------------------------------------------------------------------
\* A citation, the paths that its excerpt tells and whether it tells of infrastructure
Citation(source, path, confidence, told, infra) ==
  [source |-> source, path |-> path, confidence |-> confidence, told |-> told, infra |-> infra]
BrainCitation(hit) == Citation("brain", <<>>, "INFERRED", hit.entry.paths, "infra" \in hit.entry.marks)
FileCitation(path, confidence) == Citation("repository", path, confidence, {}, Speaks(path, Infra))
GraphCitation(hints) ==
  Citation("graph", <<>>, "INFERRED", {n.path : n \in ToSet(hints)}, \E n \in ToSet(hints) : Speaks(n.path, Infra))

\* tryReadOwnedExcerpt
Confidence(tree, path) ==
  CASE IsControlPlane(path) \/ ".." \in ToSet(path) \/ ~Inside(Real(tree, path)) -> "UNKNOWN"
    [] Ownership(tree, path, FALSE) # "project_owned" \/ ~Exists(tree, path) -> "UNKNOWN"
    [] Real(tree, path) \in tree.dirs -> "INFERRED"
    [] OTHER -> "VERIFIED"
\* The brain's paths, the caller's and the plan's, each once.
OrderedPaths(brainPaths, includes, planned) ==
  FoldLeft(LAMBDA done, p : IF p = <<>> \/ p \in ToSet(done) \/ IsControlPlane(p) THEN done ELSE Append(done, p),
           <<>>, brainPaths \o includes \o planned)

\* An empty file has no excerpt and takes no place.
Quoting(tree, paths) ==
  LET step(walk, p) ==
        LET c == Confidence(tree, p) IN
        IF walk.files >= MaxFiles THEN walk
        ELSE [citations |-> Append(walk.citations, FileCitation(p, c)),
              files |-> walk.files + Points(c = "VERIFIED" /\ Tokens[Real(tree, p)] > 0, 1)]
  IN FoldLeft(step, [citations |-> <<>>, files |-> 0], paths).citations

Nothing == FileCitation(<<>>, "UNKNOWN")
Quoted(citations) == SelectSeq(citations, LAMBDA c : c.source = "repository" /\ c.confidence = "VERIFIED")
FromBrain(citations) == SelectSeq(citations, LAMBDA c : c.source = "brain")

GraphHints(graph, question) ==
  FirstOf(SelectSeq(graph, LAMBDA n : (Speaks(n.path, Words(question)) \/ n.label \in Words(question)) /\ ~Speaks(n.path, Noise)),
          MaxHints)

Pack(hits, paths) == [hits |-> hits, paths |-> paths, limits |-> IF hits = <<>> THEN {"no match"} ELSE {}]
BrainEvidence(brain, question) ==
  IF brain = Absent THEN [hits |-> <<>>, paths |-> <<>>, limits |-> {"no brain"}]
  ELSE LET hits == Hits(brain, question) IN Pack(hits, CandidatePaths(brain, hits, question))

\* What is retrieved without a graph ...
WithoutGraph(pack) ==
  LET cited == [n \in DOMAIN pack.hits |-> BrainCitation(pack.hits[n])]
  IN [citations |-> IF cited = <<>> THEN <<Nothing>> ELSE cited, limits |-> pack.limits \cup {"no graph"}]

\* ... and with one: what was read of the files, and the nodes that fit.
WithGraph(pack, read, hints) ==
  LET cited == [n \in DOMAIN pack.hits |-> BrainCitation(pack.hits[n])]
      bare == cited = <<>> /\ Quoted(read) = <<>>
  IN [citations |-> cited \o read \o (IF bare THEN <<Nothing>> ELSE <<>>)
                      \o (IF hints = <<>> THEN <<>> ELSE <<GraphCitation(hints)>>),
      limits |-> pack.limits \cup (IF bare THEN {"no excerpts"} ELSE {})
                   \cup (IF cited # <<>> /\ Quoted(read) = <<>> THEN {"no sources"} ELSE {})]

Planned(tree, graph, question) == PlannedPaths(PlanContext(tree, graph, question), question)

\* retrieveProjectContext, with the brain's evidence
RetrieveProjectContext(tree, pack, graph, question, includes) ==
  IF graph = Absent THEN WithoutGraph(pack)
  ELSE WithGraph(pack, Quoting(tree, OrderedPaths(pack.paths, includes, Planned(tree, graph, question))),
                 GraphHints(graph, question))

---------------------------------------------------------------------------
\* A path is mentioned when a path that is told has it in it.
Mentions(told, path) == \E p \in told : \E n \in 0..(Len(p) - Len(path)) : SubSeq(p, n + 1, n + Len(path)) = path
Claim(label, paths) == [label |-> label, paths |-> paths]

\* buildChatTurnResponse, of a text that may be empty, tells some paths and may name
\* infrastructure
ChatTurnResponse(text, context) ==
  LET quoted == Quoted(context.citations)
      paths == [n \in DOMAIN quoted |-> quoted[n].path]
      mentioned == {p \in ToSet(paths) : Mentions(text.paths, p)}
      graph == SelectSeq(context.citations, LAMBDA c : c.source = "graph")
      shown == quoted \o FromBrain(context.citations) \o graph
      conclusion ==
        CASE FromBrain(shown) = <<>> /\ quoted = <<>> -> {Claim("UNKNOWN", {})}
          [] FromBrain(shown) # <<>> /\ quoted = <<>> -> {Claim("INFERRED", {})}
          [] quoted # <<>> /\ text.empty -> {}
          [] OTHER -> {Claim("INFERRED", IF mentioned # {} THEN mentioned ELSE ToSet(FirstOf(paths, 5)))}
      external == IF text.infra /\ ~\E c \in ToSet(shown) : c.infra THEN {Claim("EXTERNAL", {})} ELSE {}
  IN [claims |-> {Claim("VERIFIED", {p}) : p \in mentioned} \cup conclusion \cup external,
      citations |-> shown, limits |-> context.limits, truncated |-> "no excerpts" \in context.limits]

---------------------------------------------------------------------------
Section(topic, label, paths) == [topic |-> topic, label |-> label, paths |-> paths]

\* What is told of authentication, the entry or the database: files that were looked at,
\* whatever became of them, else nodes of the graph, else that nothing is known.  How
\* many are told is left out, here and below.
TopicSection(topic, citations, graph) ==
  LET fits(paths) == {p \in paths : Speaks(p, About[topic])}
      tried == fits({c.path : c \in ToSet(citations)})
      nodes == IF graph = Absent THEN {} ELSE fits({n.path : n \in ToSet(graph)})
  IN IF tried # {} THEN Section(topic, "INFERRED", tried)
     ELSE Section(topic, IF nodes = {} THEN "UNKNOWN" ELSE "INFERRED", nodes)

BrainSections(question, citations) ==
  LET paths == {c.path : c \in ToSet(Quoted(citations))}
      asked == question.topics \cap {"module", "overview"} # {} \/ question.terms # <<>>
  IN IF FromBrain(citations) = <<>> \/ ~asked THEN {}
     ELSE {Section("brain", "INFERRED", UNION {c.told : c \in ToSet(FromBrain(citations))}),
           Section("sources", IF paths = {} THEN "INFERRED" ELSE "VERIFIED", paths)}

\* The graph is told as the citation has it when the brain was found, else looked at anew.
OverviewSections(question, citations, graph) ==
  LET cited == {c \in ToSet(citations) : c.source = "graph"}
      clean == {n \in ToSet(graph) : ~Speaks(n.path, Noise)}
      hints == {n \in clean : IF question.terms = <<>> THEN n.kind \in {"file", "module"}
                              ELSE Speaks(n.path, Words(question)) \/ n.label \in Words(question)}
      sample == IF hints # {} THEN hints ELSE {n \in clean : n.kind = "file"}
  IN CASE "overview" \notin question.topics -> {}
       [] FromBrain(citations) # <<>> -> {Section("graph", "INFERRED", c.told) : c \in cited}
       [] graph = Absent -> {Section("graph", "UNKNOWN", {})}
       [] OTHER -> {Section("graph", "INFERRED", {n.path : n \in sample})}

\* The sections of an answer that is not a model's; dependencies are told as found, the project always.
DeterministicSections(question, context, graph, hasSnapshot) ==
  LET cited == context.citations
      bare == FromBrain(cited) = <<>> /\ Quoted(cited) = <<>>
      spoken == question.topics \cap {"auth", "deps", "overview"} # {}
  IN BrainSections(question, cited)
     \cup {TopicSection(t, cited, graph) : t \in question.topics \cap DOMAIN About}
     \cup OverviewSections(question, cited, graph)
     \cup {Section("snapshot", IF hasSnapshot THEN "INFERRED" ELSE "UNKNOWN", {})}
     \cup (IF "deps" \in question.topics THEN {Section("deps", "VERIFIED", {})} ELSE {})
     \cup (IF bare /\ ~spoken THEN {Section("question", "UNKNOWN", {})} ELSE {})

\* answerDeterministicProjectQuestion
AnswerOf(sections, context) ==
  LET told == UNION {s.paths : s \in sections}
  IN [sections |-> sections,
      response |-> ChatTurnResponse([empty |-> FALSE, paths |-> told, infra |-> \E p \in told : Speaks(p, Infra)], context)]

---------------------------------------------------------------------------
Readable(tree, p) ==
  /\ ~IsControlPlane(p) /\ ".." \notin ToSet(p) /\ Exists(tree, p) /\ Real(tree, p) \in tree.files
  /\ Ownership(tree, p, FALSE) = "project_owned"

\* Of what is offered the readable files with a text are quoted, up to MaxFiles.
Earned(tree, quoted, named, includes, selected) ==
  LET full(paths) == {p \in paths : Tokens[Real(tree, p)] > 0}
      readable == {p \in named \cup ToSet(includes) \cup selected : Readable(tree, p)}
  IN /\ quoted \subseteq readable
     /\ Cardinality(full(quoted)) = Min({Cardinality(full(readable)), MaxFiles})
     /\ (named \cap readable) \ quoted # {} => full(quoted) \subseteq named
     /\ \A n \in DOMAIN includes : includes[n] \in readable \ quoted =>
          full(quoted) \subseteq named \cup {includes[m] : m \in 1..(n - 1)}

\* A file is quoted as verified only if it is a file that the guard of reads lets through;
\* what is refused, a directory or empty takes nobody's place; a file of the brain gives
\* way to others of the brain only, and one that the caller asked for to those and to the
\* caller's earlier ones; and the planned files fit the budget.
QuotesAreEarned(tree, pack, graph, question, includes) == graph # Absent =>
  LET plan == PlanContext(tree, graph, question)
      quoted == {c.path : c \in ToSet(Quoted(RetrieveProjectContext(tree, pack, graph, question, includes).citations))}
  IN plan.used <= Budget /\ Earned(tree, quoted, ToSet(pack.paths), includes, plan.selected)

\* What an answer claims is what was retrieved, whoever wrote it: it is about quoted
\* files only, nothing known is claimed when and only when neither brain nor file was
\* found, the limitations say the same, and an answer that is not a model's tells as
\* verified only what was quoted and, with nothing at all to go by, that it is unknown.
IsHonest(response, graph) ==
  LET quoted == {c.path : c \in ToSet(Quoted(response.citations))}
      labels == {c.label : c \in response.claims}
      bare == quoted = {} /\ FromBrain(response.citations) = <<>>
  IN /\ \A c \in response.claims : c.paths \subseteq quoted
     /\ "UNKNOWN" \in labels <=> bare
     /\ bare => labels \subseteq {"UNKNOWN", "EXTERNAL"}
     /\ graph # Absent => ("no excerpts" \in response.limits <=> bare)

SectionsAreHonest(sections, quoted, brain) ==
  /\ \A s \in sections : s.label = "VERIFIED" => s.paths \subseteq {c.path : c \in ToSet(quoted)}
  /\ quoted = <<>> /\ brain = Absent => \E s \in sections : s.label = "UNKNOWN"

AnswersAreHonest(tree, brain, graph, question, context) ==
  LET sections == DeterministicSections(question, context, graph, brain # Absent)
      told == {AnswerOf(sections, context).response}
              \cup {ChatTurnResponse([empty |-> told = {}, paths |-> told, infra |-> told # {}], context) : told \in {{}, tree.files}}
  IN SectionsAreHonest(sections, Quoted(context.citations), brain) /\ \A response \in told : IsHonest(response, graph)
==============================================================================
