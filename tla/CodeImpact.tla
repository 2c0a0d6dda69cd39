----------------------------- MODULE CodeImpact ------------------------------
(***************************************************************************)
(* The intelligence graph of a repository's code, buildIntelligenceGraph   *)
(* over the TypeScript compiler or, without TypeScript, over patterns, and *)
(* the architecture contract that its import edges are held to. Then what  *)
(* changed in the working tree (analyzeChanges), what a coverage report    *)
(* says of it (loadCoverage) and the tests to run (analyzeTestImpact).     *)
(*                                                                         *)
(* Paths and references are those of Dependencies; a reference of the form *)
(* "dots" is "." or "..", one of the form "url" has a colon.  A file is    *)
(* [path, imports, classes, functions, calls, parsed]; parsed says whether *)
(* a language adapter reads it, classes name what they extend or           *)
(* implement; a name is a path of one segment. The labels of nodes, the    *)
(* names of edges and which files are tests or documents are left out.     *)
(*                                                                         *)
(* git is [available, since, staged, unstaged, untracked], the last three  *)
(* as git lists them; since is <<>> or <<the diff>> that is asked for in   *)
(* their place. brain is <<>> or <<[components, domains, dependencies]>>.  *)
(* A coverage report is [name, content, records, map]: the extension and   *)
(* the format it has, its records [path, lines, tests] and the tests'      *)
(* sources; lines maps the lines to their hits.                            *)
(***************************************************************************)
EXTENDS ArchitectureContract

CONSTANTS
  FileLimit,  \* how many TypeScript files are read
  Sorted      \* the paths there are, as they sort

\* path.resolve below the root; what starts with .. has left it.
Normalize(path) ==
  FoldLeft(LAMBDA done, segment :
             CASE segment = Here -> done
               [] segment = Up /\ done # <<>> /\ Last(done) # Up -> Front(done)
               [] OTHER -> Append(done, segment),
           <<>>, path)

Resolution(path, confidence) == [path |-> path, confidence |-> confidence]
Unknown == Resolution(Null, "UNRESOLVED")

FileExtensions == <<"ts", "tsx", "mts", "cts", "js", "jsx", "mjs", "cjs">>

\* resolveFilesystemCandidate: the path as it is written, with an extension, or its index.
Candidate(hit, path) ==
  IF hit = Null THEN Unknown ELSE Resolution(hit, IF hit = path THEN "EXACT" ELSE "RESOLVED")
FilesystemCandidate(files, path) ==
  LET others == SelectSeq(FileExtensions, LAMBDA e : path # <<>> /\ e # Ext(path))
      tries == (IF path = <<>> THEN <<>> ELSE <<path>>)
               \o [i \in DOMAIN others |-> WithExt(path, others[i])]
               \o [i \in DOMAIN FileExtensions |-> Append(path, <<"index", FileExtensions[i]>>)]
  IN Candidate(FirstOf(tries, LAMBDA p : p \in files), path)
Within(files, path) ==
  IF path # <<>> /\ Head(path) = Up THEN Unknown ELSE FilesystemCandidate(files, path)

\* The first of those that are longest
Longest(fits, Path(_)) ==
  Head(SelectSeq(fits, LAMBDA p : \A q \in ToSet(fits) : Len(Path(p)) >= Len(Path(q))))

\* matchTsconfigPath: the longest pattern that fits and has a target, and its first target.
Fits(config, path) ==
  SelectSeq(config.paths, LAMBDA p : p.targets # <<>> /\
    IF p.star THEN IsStrictPrefix(p.pattern, path) ELSE path = p.pattern)
Target(best, target, path) ==
  target.path \o (IF best.star /\ target.star THEN SubSeq(path, Len(best.pattern) + 1, Len(path)) ELSE <<>>)
FirstTarget(fits, path) ==
  LET best == Longest(fits, LAMBDA p : p.pattern) IN
  IF fits = <<>> THEN <<>> ELSE <<Target(best, Head(best.targets), path)>>
MatchTsconfigPath(config, path) == FirstTarget(Fits(config, path), path)

\* resolveImportSpecifier; config is the tsconfig that can be read, or <<>>.
AtMost(resolution, confidence) ==
  IF resolution.path = Null THEN Unknown ELSE Resolution(resolution.path, confidence)
ByConfig(files, config, mapped, ref) ==
  IF mapped # <<>> THEN AtMost(Within(files, Normalize(config.baseUrl \o mapped[1])), "RESOLVED")
  ELSE IF ref.form = "bare" THEN AtMost(Within(files, Normalize(config.baseUrl \o ref.path)), "INFERRED")
  ELSE Unknown
ResolveImport(files, config, from, ref) ==
  IF ref.form = "relative" THEN Within(files, Normalize(Dir(from) \o ref.path))
  ELSE IF config = <<>> THEN Unknown
  ELSE ByConfig(files, config[1], MatchTsconfigPath(config[1], ref.path), ref)

---------------------------------------------------------------------------
\* nodeId hashes a kind and a key; path is where the node says that it is.
Node(kind, key, path) == [kind |-> kind, key |-> key, path |-> path]
FileNode(path) == Node("file", <<path>>, path)
DependencyNode(from, label) == Node("dependency", <<from, label>>, from)
FunctionNode(from, name) == Node("function", <<from, name>>, from)
Call(name) == <<<<"call">>>> \o name
ClassNode(from, name) == Node("class", <<from, name>>, from)
Edge(from, to, kind, evidence) == [from |-> from, to |-> to, kind |-> kind, evidence |-> evidence]

EvidenceFor(confidence) ==
  CASE confidence = "EXACT" -> "verified"
    [] confidence \in {"RESOLVED", "INFERRED"} -> "inferred"
    [] OTHER -> "unknown"

FirstFiles(sources) == SubSeq(sources, 1, IF Len(sources) < FileLimit THEN Len(sources) ELSE FileLimit)
\* listTsFiles, of the files as they sort; a declaration file is not one.
ListTsFiles(files) ==
  FirstFiles(SelectSeq(files, LAMBDA f : Ext(f.path) \in {"ts", "tsx", "mts", "cts"}
                                         /\ ~IsSuffix(<<"d", "ts">>, Last(f.path))))

\* buildIntelligenceGraph's visit of a source: the dependency an import names is its own
\* node, at the file that imports, and the file it resolves to another.
\* resolved holds the resolution of each of the file's imports.
ImportEdges(file, resolved) ==
  LET imported(ref, resolution) ==
        {Edge(FileNode(file.path), to, "imports", EvidenceFor(resolution.confidence)) :
           to \in {DependencyNode(file.path, ref.path)}
                  \cup (IF resolution.path = Null THEN {} ELSE {FileNode(resolution.path)})}
  IN UNION {imported(ref, resolved[ref]) : ref \in file.imports}
Visited(file, resolved) ==
  ImportEdges(file, resolved)
  \cup {Edge(FileNode(file.path), FunctionNode(file.path, Call(f)), "calls", "inferred") : f \in file.calls}
  \cup {Edge(ClassNode(file.path, c.name), DependencyNode(file.path, c.extends), "extends", "verified") :
          c \in file.classes}
Members(file) ==
  {FileNode(file.path)} \cup {FunctionNode(file.path, f) : f \in file.functions}
  \cup {ClassNode(file.path, c.name) : c \in file.classes}
Ends(edges) == UNION {{e.from, e.to} : e \in edges}

GraphOf(builder, edges, nodes) == [builder |-> builder, edges |-> edges, nodes |-> nodes \cup Ends(edges)]
AstGraph(files, config) ==
  LET all == {f.path : f \in ToSet(files)}
      sources == ToSet(ListTsFiles(files))
  IN GraphOf("typescript-ast",
             UNION {Visited(f, [ref \in f.imports |-> ResolveImport(all, config, f.path, ref)]) : f \in sources},
             UNION {Members(f) : f \in sources})

CodeExtensions == {"ts", "tsx", "js", "jsx", "mjs", "cjs", "py", "go", "rs", "java", "kt", "php", "rb"}

\* buildRepositoryGraph: every file and folder is a node, but an import leads to its name only.
RepositoryGraph(files) ==
  LET code == {f \in ToSet(files) : Ext(f.path) \in CodeExtensions}
      edges == UNION {{Edge(FileNode(f.path), DependencyNode(f.path, ref.path), "imports",
                            IF ref.form \in {"relative", "dots"} THEN "verified" ELSE "inferred") :
                         ref \in f.imports} : f \in code}
      folders == UNION {{SubSeq(f.path, 1, n) : n \in 1..(Len(f.path) - 1)} : f \in ToSet(files)}
  IN GraphOf("regex", edges,
             {Node("directory", <<d>>, d) : d \in folders} \cup {FileNode(f.path) : f \in ToSet(files)}
             \cup UNION {Members(f) : f \in code})

Languages == {"py", "php", "go", "java", "kt", "kts", "rs", "dart"}

\* enrichGraphWithLanguageAdapters adds what is not there yet; its symbols are nodes of
\* their own.
Symbols(file) ==
  {Node("function", <<file.path, f \o <<<<"function">>>>>>, file.path) : f \in file.functions}
  \cup {Node("class", <<file.path, c.name \o <<<<"class">>>>>>, file.path) : c \in file.classes}
Enriched(graph, files) ==
  LET read == {f \in ToSet(files) : Ext(f.path) \in Languages /\ f.parsed}
      known == {<<e.from, e.to>> : e \in graph.edges}
      found == UNION {
        {Edge(FileNode(f.path), d, "defines", "verified") : d \in Symbols(f)}
        \cup {Edge(FileNode(f.path), DependencyNode(f.path, ref.path), "imports", "verified") : ref \in f.imports}
        \cup {Edge(FileNode(f.path), FunctionNode(f.path, Call(c)), "calls", "inferred") : c \in f.calls} :
        f \in read}
      edges == graph.edges \cup {e \in found : <<e.from, e.to>> \notin known}
  IN [graph EXCEPT !.edges = edges, !.nodes = @ \cup {FileNode(f.path) : f \in read} \cup Ends(edges)]

\* buildIntelligenceGraph in its mode "auto"
IntelligenceGraph(files, config) ==
  Enriched(IF ListTsFiles(files) = <<>> THEN RepositoryGraph(files) ELSE AstGraph(files, config), files)

---------------------------------------------------------------------------
Forbids(contract) == {<<r.from, r.to>> : r \in ToSet(contract.forbidden)}
Stricter(contract, other) ==
  /\ contract.layers = other.layers /\ Forbids(other) \subseteq Forbids(contract)
  /\ contract.allowed = <<>> => other.allowed = <<>>
  /\ other.allowed = <<>> \/ ToSet(contract.allowed) \subseteq ToSet(other.allowed)

\* What each contract is read as, from either of its files and after architecture init, and
\* what is reported of the repository with it
ReadAs(c) ==
  LET lines(contract, idFirst) == [form |-> "lines", lines |-> AsLines(contract, idFirst)] IN
  {LoadContract(InitArchitecture(Json(c)), lines(DefaultContract, TRUE)),
   LoadContract([form |-> "missing"], lines(c, TRUE)),
   LoadContract(InitArchitecture([Json(c) EXCEPT !.version = "0"]), lines(c, FALSE)),
   LoadContract([form |-> "broken"], Json(c))}
Readings(contracts) == UNION {{[contract |-> c, read |-> r] : r \in ReadAs(c)} : c \in contracts}
Reported(graph, readings) ==
  {[contract |-> k.contract, violations |-> CheckArchitecture(graph, k.read)] : k \in readings}
Reports(files, config, readings) == Reported(IntelligenceGraph(files, config), readings)
Pairs(report) == {<<v.from, v.to>> : v \in report.violations}

\* A contract that is stricter reports no less, and no import is reported as two things.
StricterReportsMore(reports) ==
  \A r \in reports :
    /\ \A v, w \in r.violations : v.from = w.from /\ v.to = w.to => v.kind = w.kind
    /\ \A other \in reports : Stricter(r.contract, other.contract) => Pairs(other) \subseteq Pairs(r)

\* What is reported is an import that some file has, and imports of the files that are
\* read, however they spell what they import, are judged alike.
JudgedAlike(report, written, read) ==
  LET layer(path) == LayerForPath(path, report.contract.layers) IN
  /\ Pairs(report) \subseteq written
  /\ \A i, j \in {i \in read : i[2] # Null} :
       /\ i[2] = j[2] /\ i \in Pairs(report) /\ layer(i[1]) = layer(j[1])
       => j \in Pairs(report)
Imports(sources, files, config) ==
  LET all == {f.path : f \in ToSet(files)} IN
  UNION {{<<f.path, ResolveImport(all, config, f.path, ref).path>> : ref \in f.imports} : f \in sources}
SpellingsAreAlike(reports, files, config) ==
  \A r \in reports :
    JudgedAlike(r, Imports(ToSet(files), files, config), Imports(ToSet(ListTsFiles(files)), files, config))

---------------------------------------------------------------------------
\* pathMatches
PathMatches(changed, path) ==
  \/ changed = path \/ IsStrictPrefix(path, changed) \/ IsStrictPrefix(changed, path)
  \/ IsStrictSuffix(changed, path)

\* attributeModules; a component's name is held against the path as one would be.
AttributeModules(brain, path) ==
  {c.name : c \in {c \in brain.components : PathMatches(path, c.path) \/ PathMatches(path, <<c.name>>)}}
  \cup {d.name : d \in {d \in brain.domains : \E p \in d.paths : PathMatches(path, p)}}

\* computeImpact: the dependencies that touch what changed
ComputeImpact(brain, paths) ==
  {d \in brain.dependencies : \E p \in paths : PathMatches(p, d.from) \/ PathMatches(p, d.to)}

\* analyzeChanges: a file is listed for its staged and again for its unstaged change.
Listed(git) ==
  IF ~git.available THEN <<>>
  ELSE IF git.since # <<>> THEN git.since[1]
  ELSE git.staged \o git.unstaged \o git.untracked
InOrderOfPaths(files) == FlattenSeq([i \in DOMAIN Sorted |-> SelectSeq(files, LAMBDA f : f.path = Sorted[i])])
AnalyzeChanges(git, brain) ==
  LET modules(path) == IF brain = <<>> THEN {} ELSE AttributeModules(brain[1], path)
      changed(files) == [i \in DOMAIN files |-> [path |-> files[i].path, kind |-> files[i].kind, modules |-> modules(files[i].path)]]
  IN [files |-> changed(InOrderOfPaths(Listed(git))),
      impact |-> IF brain = <<>> THEN {} ELSE ComputeImpact(brain[1], {f.path : f \in ToSet(Listed(git))})]

---------------------------------------------------------------------------
\* loadCoverage: the name or the content may decide the format; "none" cannot be read.
FormatOf(coverage) ==
  CASE coverage.content = "empty" -> "none"
    [] coverage.content = "lcov" -> "lcov"
    [] coverage.content # "lcov" /\ (coverage.name = "xml" \/ coverage.content = "cobertura") -> "cobertura"
    [] OTHER -> IF coverage.content = "istanbul" THEN "istanbul" ELSE "none"

MostHits(lines, others) ==
  [n \in DOMAIN lines \cup DOMAIN others |->
     Max({0} \cup {lines[m] : m \in DOMAIN lines \cap {n}} \cup {others[m] : m \in DOMAIN others \cap {n}})]

\* parseIstanbul and parseCobertura merge the records of a file, parseLcov keeps the last.
Recorded(files, record, format) ==
  LET at == SelectInSeq(files, LAMBDA f : f.path = record.path) IN
  IF at = 0 THEN Append(files, record)
  ELSE [files EXCEPT ![at] =
          IF format = "lcov" THEN record
          ELSE [@ EXCEPT !.lines = MostHits(@, record.lines), !.tests = @ \cup record.tests]]

\* Only Istanbul's report tells of tests.
Told(record, format) == IF format = "istanbul" THEN record ELSE [record EXCEPT !.tests = {}]

\* Nothing of a report whose name belies its content; a report without files is none.
FilesOf(records, format) ==
  FoldLeft(LAMBDA done, r : Recorded(done, Told(r, format), format), <<>>, records)
Loaded(files, format, map) ==
  IF files = <<>> THEN <<>>
  ELSE <<[files |-> files,
          map |-> IF format # "istanbul" THEN {}
                  ELSE map \cup UNION {{[test |-> t, source |-> f.path] : t \in f.tests} : f \in ToSet(files)}]>>
LoadCoverage(coverage) ==
  IF FormatOf(coverage) # coverage.content THEN <<>>
  ELSE Loaded(FilesOf(coverage.records, coverage.content), coverage.content, coverage.map)

---------------------------------------------------------------------------
\* isTestPath
IsTestPath(path) ==
  \E i \in DOMAIN path : \/ \E n \in 2..(Len(path[i]) - 1) : path[i][n] \in {"test", "spec"}
                         \/ "__tests__" \in ToSet(path[i])

\* path.extname and path.basename: a name that starts with a dot, as <<"", "env">> does,
\* has no extension but a second one.
Hidden(path) == Head(Last(path)) = ""
ExtName(path) == IF Hidden(path) /\ Len(Last(path)) = 2 THEN "none" ELSE Ext(path)
BaseName(path) == IF ExtName(path) = "none" THEN Last(path) ELSE Front(Last(path))

\* heuristicCandidates: beside the file, or in tests where it is in src
HeuristicCandidates(path) ==
  LET ext == IF ExtName(path) = "none" THEN "ts" ELSE ExtName(path)
      beside(word) == Append(Front(path), BaseName(path) \o <<word, ext>>)
      src == {i \in 1..(Len(path) - 1) : path[i] = <<"src">>}
      moved(of) == IF of = {} THEN {} ELSE {[path EXCEPT ![Min(of)] = <<"tests">>]}
  IN <<beside("test"), beside("spec")>> \o SetToSeq(moved(src \ {1})) \o SetToSeq(moved(src \cap {1}))

Alike(source, path) == source = path \/ IsStrictSuffix(source, path) \/ IsStrictSuffix(path, source)

\* coverageFileFor: the changed file itself, or the first whose path ends alike
CoverageFileFor(path, files) ==
  LET exact == SelectSeq(files, LAMBDA f : f.path = path)
      alike == SelectSeq(files, LAMBDA f : Alike(f.path, path))
  IN SubSeq(exact \o alike, 1, Min({1, Len(exact \o alike)}))

\* testsFromCoverageMap
TestsFromCoverageMap(coverage, file) ==
  file.tests \cup {m.test : m \in {m \in coverage.map : Alike(m.source, file.path)}}
InOrder(paths) == SelectSeq(Sorted, LAMBDA p : p \in paths)

Item(test, confidence, evidence, exists) ==
  [test |-> test, confidence |-> confidence, evidence |-> evidence, exists |-> exists]

\* The tests that would be named for the file, whether they are there or not
Named(candidates, disk, found, not, how) ==
  [items |-> [i \in DOMAIN candidates |->
                LET there == candidates[i] \in disk IN
                Item(candidates[i], IF there THEN found ELSE not, "inferred", there)],
   missing |-> \A i \in DOMAIN candidates : candidates[i] \notin disk, how |-> how]

\* analyzeTestImpact of one change: a test is its own, a covered file has the tests that
\* its coverage tells of, and others those that are named for it.
Mapped(tests, disk) ==
  [items |-> [i \in DOMAIN tests |->
                Item(tests[i], IF tests[i] \in disk THEN 90 ELSE 75, "verified", tests[i] \in disk)],
   missing |-> FALSE, how |-> "map"]
Covered(tests, candidates, disk) ==
  IF tests # <<>> THEN Mapped(tests, disk) ELSE Named(candidates, disk, 65, 35, "covered")
Impact(path, disk, coverage, file) ==
  IF IsTestPath(path) THEN [items |-> <<Item(path, 95, "verified", TRUE)>>, missing |-> FALSE, how |-> "test"]
  ELSE IF file # <<>> THEN Covered(InOrder(TestsFromCoverageMap(coverage[1], file[1])), HeuristicCandidates(path), disk)
  ELSE Named(HeuristicCandidates(path), disk, 70, 40, "name")

\* The first item of each test stays.
Deduped(items) ==
  FoldLeft(LAMBDA done, item : IF \E d \in ToSet(done) : d.test = item.test THEN done ELSE Append(done, item),
           <<>>, items)

\* modulesForPath
ModulesForPath(path, attributed) ==
  attributed \cup (IF Len(path) > 1 /\ path[1] \in {<<"src">>, <<"tests">>} THEN {path[2]} ELSE {})
  \cup (IF Hidden(path) THEN {} ELSE {BaseName(path)})

\* countLineHits, over the lines of several files
LineHits(files) ==
  LET hit(f) == {n \in DOMAIN f.lines : f.lines[n] > 0}
      sum(Of(_)) == FoldLeft(LAMBDA total, f : total + Of(f), 0, files)
  IN [covered |-> sum(LAMBDA f : Cardinality(hit(f))),
      uncovered |-> sum(LAMBDA f : Cardinality(DOMAIN f.lines \ hit(f))),
      hits |-> sum(LAMBDA f : MapThenSumSet(LAMBDA n : f.lines[n], hit(f)))]

\* CoverageImpactSummary: a changed file counts as often as git lists it; of a report that
\* has no line of what changed, only how many files it has is told.
Summary(coverage, touched, attribution) ==
  IF coverage = <<>> THEN <<>>
  ELSE <<[filesWithHits |-> IF touched = <<>> THEN Len(coverage[1].files) ELSE Len(touched),
          attribution |-> attribution] @@ LineHits(touched)>>

SkipRisk(changed, missing) ==
  CASE changed = {} -> "nothing changed" [] missing # {} -> "sources lack tests" [] OTHER -> "tests may be missed"

\* analyzeTestImpact, of the changes and what a coverage report has of each
CoverageOf(report) == IF report = <<>> THEN <<>> ELSE LoadCoverage(report[1])
Attribution(hows, touched) ==
  IF touched = <<>> THEN "none"
  ELSE IF "map" \in hows /\ "covered" \notin hows THEN "coverage-map" ELSE "hybrid-heuristic"
TestImpactOf(changes, impacts, coverage, touched) ==
  LET missing == {changes.files[i].path : i \in {j \in DOMAIN impacts : impacts[j].missing}} IN
  [recommended |-> Deduped(FlattenSeq([i \in DOMAIN impacts |-> impacts[i].items])),
   missing |-> missing,
   modules |-> UNION {ModulesForPath(f.path, f.modules) : f \in ToSet(changes.files)}
               \cup UNION {ModulesForPath(d.from, {}) \cup ModulesForPath(d.to, {}) : d \in changes.impact},
   mode |-> IF touched # <<>> THEN "coverage-backed" ELSE "heuristic",
   coverage |-> Summary(coverage, touched, Attribution({i.how : i \in ToSet(impacts)}, touched)),
   skipRisk |-> SkipRisk(ToSet(changes.files), missing)]

\* The coverage of the changes that are no tests, of those that it has a line of
Touched(changes, files) ==
  LET sources == SelectSeq([i \in DOMAIN files |-> i], LAMBDA i : files[i] # <<>> /\ ~IsTestPath(changes.files[i].path))
  IN SelectSeq([k \in DOMAIN sources |-> files[sources[k]][1]], LAMBDA f : DOMAIN f.lines # {})
Related(impact, modules) == [impact EXCEPT !.items = [i \in DOMAIN @ |-> @[i] @@ [modules |-> modules]]]
ImpactOf(changes, disk, coverage, files) ==
  TestImpactOf(changes,
    [i \in DOMAIN files |-> LET change == changes.files[i] IN
       Related(Impact(change.path, disk, coverage, files[i]), ModulesForPath(change.path, change.modules))],
    coverage, Touched(changes, files))
WithCoverage(changes, disk, coverage) ==
  ImpactOf(changes, disk, coverage,
           [i \in DOMAIN changes.files |->
              IF coverage = <<>> THEN <<>> ELSE CoverageFileFor(changes.files[i].path, coverage[1].files)])
\* Without git nothing is told of the report.
AnalyzeTestImpact(git, brain, disk, report) ==
  IF git.available THEN WithCoverage(AnalyzeChanges(git, brain), disk, CoverageOf(report))
  ELSE [WithCoverage(AnalyzeChanges(git, brain), disk, <<>>) EXCEPT !.skipRisk = "no git"]

---------------------------------------------------------------------------
ChangedPaths(git, brain) == {f.path : f \in ToSet(AnalyzeChanges(git, brain).files)}
Recommended(report) == {r.test : r \in ToSet(report.recommended)}

\* A changed source has a test that is there, or that coverage names for it, or is told to
\* have none; nothing is recommended that is not for a change, nor as there when it is not; the
\* mode is coverage-backed when lines of what changed are counted; and a report that merges
\* its records forgets no hit.
AttestedFor(report, path) ==
  LET alike == IF report = <<>> THEN {} ELSE {r \in ToSet(report[1].records) : Alike(r.path, path)}
  IN UNION {r.tests \cup {m.test : m \in {m \in report[1].map : Alike(m.source, r.path)}} : r \in alike}
LinesOf(answer) ==
  IF answer.coverage = <<>> THEN 0 ELSE answer.coverage[1].covered + answer.coverage[1].uncovered
Answers(answer, changed, told, disk) ==
  LET named(path) == {t \in ToSet(HeuristicCandidates(path)) : t \in disk} IN
  /\ \A p \in changed : ~IsTestPath(p) =>
       \/ p \in answer.missing /\ named(p) = {}
       \/ named(p) # {} /\ named(p) \subseteq Recommended(answer)
       \/ told[p] \cap Recommended(answer) # {}
  /\ \A r \in ToSet(answer.recommended) :
       /\ r.exists => r.test \in disk \cup changed
       /\ r.test \in changed \cup UNION {told[p] \cup ToSet(HeuristicCandidates(p)) : p \in changed}
       /\ r.evidence = "verified" => r.test \in changed \cup UNION {told[p] : p \in changed}
  /\ answer.mode = "coverage-backed" <=> LinesOf(answer) > 0
NoHitIsLost(records, coverage) ==
  coverage # <<>> => \A r \in ToSet(records) : \A f \in ToSet(coverage[1].files) : f.path = r.path =>
    \A n \in DOMAIN r.lines : f.lines[n] >= r.lines[n]
ChangesAreAnswered(git, brain, disk, report) ==
  /\ LET changed == ChangedPaths(git, brain)
     IN Answers(AnalyzeTestImpact(git, brain, disk, report), changed, [p \in changed |-> AttestedFor(report, p)], disk)
  /\ report # <<>> /\ FormatOf(report[1]) # "lcov" => NoHitIsLost(report[1].records, LoadCoverage(report[1]))

\* A change more loses no test and no line, and coverage tells of no file that it has no test.
OnlyAdds(answer, less, plain) ==
  /\ Recommended(less) \subseteq Recommended(answer) /\ less.modules \subseteq answer.modules
  /\ answer.missing \subseteq plain.missing /\ LinesOf(less) <= LinesOf(answer)
ChangesOnlyAdd(git, brain, disk, report) ==
  OnlyAdds(AnalyzeTestImpact(git, brain, disk, report),
           AnalyzeTestImpact([git EXCEPT !.staged = <<>>], brain, disk, report),
           AnalyzeTestImpact(git, brain, disk, <<>>))
==============================================================================
