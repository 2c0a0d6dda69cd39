-------------------------- MODULE ProjectDetection --------------------------
(***************************************************************************)
(* detectProject: the languages, frameworks, package managers and monorepo *)
(* layout of a repository, from the files that discovery lists; and the    *)
(* workspace packages that core/monorepo finds in it.                      *)
(*                                                                         *)
(* Paths are those of Dependencies, in lower case, as the detectors        *)
(* compare them.  A project is [files, says]: the sequence of its files    *)
(* and what its manifests say; one that cannot be read or parsed says      *)
(* nothing.  package.json and composer.json say [deps, workspaces], a      *)
(* manifest of Python [deps, poetry]: poetry is a [tool.poetry] table.     *)
(* workspaces is <<>> or <<[array, patterns]>>; array says that it is an   *)
(* array, or an object with one.                                           *)
(***************************************************************************)
EXTENDS Dependencies

Name(path) == Last(path)
Names(files) == {Name(p) : p \in files}
AtRoot(files) == {p \in files : Len(p) = 1}
EndsWith(path, ext) == IsStrictSuffix(ext, Name(path))
Named(name, ext) == <<name, ext>>

PackageJson == <<"package", "json">>
ComposerJson == <<"composer", "json">>
Pyproject == <<"pyproject", "toml">>
PnpmWorkspace == <<"pnpm-workspace", "yaml">>
Pubspec == <<"pubspec", "yaml">>

FirstIn(order, chosen) == SelectSeq(order, LAMBDA id : id \in chosen)
OrUnknown(found) == IF found = <<>> THEN "unknown" ELSE Head(found)

---------------------------------------------------------------------------
\* MARKERS: the files that tell of a package manager, the lock files among them
Marker(id, files, locks) == [id |-> id, files |-> files \cup locks, locks |-> locks]
Markers == <<
  Marker("pnpm", {PnpmWorkspace}, {Named("pnpm-lock", "yaml")}),
  Marker("yarn", {<<"", "yarnrc", "yml">>}, {Named("yarn", "lock")}),
  Marker("bun", {}, {Named("bun", "lockb"), Named("bun", "lock")}),
  Marker("npm", {PackageJson}, {Named("package-lock", "json"), Named("npm-shrinkwrap", "json")}),
  Marker("composer", {ComposerJson}, {Named("composer", "lock")}),
  Marker("pub", {Pubspec}, {Named("pubspec", "lock")}),
  Marker("poetry", {}, {Named("poetry", "lock")}),
  Marker("pip", {Named("requirements", "txt"), <<"pipfile">>}, {Named("pipfile", "lock")}),
  Marker("cargo", {Named("cargo", "toml")}, {Named("cargo", "lock")}),
  Marker("gradle", {<<"gradlew">>, Named("build", "gradle"), <<"build", "gradle", "kts">>, Named("settings", "gradle")}, {})>>
LockPriority == <<"pnpm", "yarn", "bun", "npm", "composer", "pub", "poetry", "cargo", "gradle", "pip">>

\* What detectPackageManagers finds of one; python is [poetry, generic]. A root package
\* manifest is npm's root evidence and its lock file is not; Poetry's lock file anywhere is.
HasAny(files, names) == names \cap Names(files) # {}
Found(files, marker, python) ==
  \/ HasAny(files, marker.files)
  \/ marker.id = "poetry" /\ python.poetry
  \/ marker.id = "pip" /\ python.generic
FoundAtRoot(files, marker, python) ==
  LET pyproject == HasAny(AtRoot(files), {Pyproject}) IN
  CASE marker.id = "npm" -> HasAny(AtRoot(files), {PackageJson})
    [] marker.id = "poetry" -> HasAny(files, marker.locks) \/ (python.poetry /\ pyproject)
    [] marker.id = "pip" -> HasAny(AtRoot(files), marker.files) \/ (python.generic /\ pyproject)
    [] OTHER -> HasAny(AtRoot(files), marker.files)

\* The first that a lock file at the root tells of, else other evidence at the root, else
\* any, if all are of one ecosystem.
Ecosystem(id) == IF id \in {"npm", "pnpm", "yarn", "bun"} THEN "node" ELSE id
Primary(found, rooted, locked) ==
  LET chosen == IF locked # {} THEN locked ELSE IF rooted # {} THEN rooted
                ELSE IF Cardinality({Ecosystem(id) : id \in found}) > 1 THEN {} ELSE found
  IN OrUnknown(FirstIn(LockPriority, chosen))
MarkersThat(Is(_)) == {m.id : m \in {m \in ToSet(Markers) : Is(m)}}
Managers(found, rooted, locked) ==
  [all |-> IF found = {} THEN {"unknown"} ELSE found, primary |-> Primary(found, rooted, locked)]
DetectPackageManagers(files, python) ==
  Managers(MarkersThat(LAMBDA m : Found(files, m, python)),
           MarkersThat(LAMBDA m : Found(files, m, python) /\ FoundAtRoot(files, m, python)),
           MarkersThat(LAMBDA m : HasAny(AtRoot(files), m.locks)))

---------------------------------------------------------------------------
\* LANGUAGE_MARKERS
Language(files, extensions) == [files |-> files, extensions |-> extensions]
LanguageMarkers == [
  typescript |-> Language({Named("tsconfig", "json"), <<"tsconfig", "base", "json">>}, {"ts", "tsx", "mts", "cts"}),
  javascript |-> Language({Named("jsconfig", "json"), PackageJson}, {"js", "jsx", "mjs", "cjs"}),
  python |-> Language({Pyproject, Named("requirements", "txt"), Named("setup", "py"), <<"pipfile">>}, {"py"}),
  dart |-> Language({Pubspec}, {"dart"}), php |-> Language({ComposerJson}, {"php"}),
  go |-> Language({Named("go", "mod"), Named("go", "work")}, {"go"}), rust |-> Language({Named("cargo", "toml")}, {"rs"}),
  java |-> Language({Named("pom", "xml"), Named("build", "gradle"), <<"build", "gradle", "kts">>}, {"java"}),
  kotlin |-> Language({<<"build", "gradle", "kts">>}, {"kt", "kts"})]
LanguageOrder == <<"typescript", "javascript", "python", "dart", "php", "go", "rust", "java", "kotlin">>

\* detectLanguages: a marker counts for ten files; next to one of TypeScript's JavaScript
\* counts for five at most, and TypeScript comes before JavaScript whatever they count. The
\* first is the one that counts most, and of several such the one looked for first.
Score(files, marker) ==
  10 * Cardinality(marker.files \cap Names(files))
  + Cardinality({p \in files : \E e \in marker.extensions : EndsWith(p, <<e>>)})
Capped(scores) == IF scores.typescript >= 10 THEN [scores EXCEPT !.javascript = Min({@, 5})] ELSE scores
Scores(files) == Capped([id \in ToSet(LanguageOrder) |-> Score(files, LanguageMarkers[id])])
Languages(scores) ==
  LET all == {id \in DOMAIN scores : scores[id] > 0}
      best == {id \in all : \A other \in all : scores[other] <= scores[id]}
  IN [all |-> IF all = {} THEN {"unknown"} ELSE all,
      primary |-> IF {"typescript", "javascript"} \subseteq all THEN "typescript" ELSE OrUnknown(FirstIn(LanguageOrder, best))]
DetectLanguages(files) == Languages(Scores(files))

---------------------------------------------------------------------------
\* detectFrameworks; says is [node, php, python], the names that manifests depend on. An
\* app of FastAPI needs the name somewhere and app/main.py.
Configs(name, extensions) == {<<name, "config", e>> : e \in extensions}
Frameworks(files, says) ==
  LET node(names) == names \cap says.node # {}
      next == HasAny(files, Configs("next", {"js", "mjs", "ts", "cjs"})) \/ node({"next"})
      nuxt == HasAny(files, Configs("nuxt", {"ts", "js", "mjs"})) \/ node({"nuxt"})
      nest == HasAny(files, {Named("nest-cli", "json")}) \/ node({"@nestjs/core"})
      express == node({"express"}) /\ ~nest /\ ~next
      vite == HasAny(files, Configs("vite", {"ts", "js"}) \cup Configs("vue", {"js"})) \/ node({"vite"})
      vue == node({"vue"}) \/ (vite /\ \E p \in files : EndsWith(p, <<"vue">>))
      svelte == HasAny(files, Configs("svelte", {"js", "ts"})) \/ node({"svelte", "@sveltejs/kit"})
      react == node({"react", "react-dom"}) /\ ~next
      none == ~(next \/ nuxt \/ nest \/ express \/ vue \/ svelte \/ react)
      django == \/ HasAny(files, {Named("manage", "py")}) \/ "django" \in says.python
                \/ \E p \in files \ AtRoot(files) : Name(p) = Named("requirements-django", "txt")
      fast == \/ "fastapi" \in says.python
              \/ \E p \in files : \E i \in DOMAIN p : {"fastapi", "requirements-fastapi"} \cap ToSet(p[i]) # {}
      app == \E p \in files : IsSuffix(<<<<"app">>, Named("main", "py")>>, p)
      holds == [nextjs |-> next, nuxt |-> nuxt, nestjs |-> nest, express |-> express, vue |-> vue /\ ~nuxt,
                svelte |-> svelte, react |-> react, nodejs |-> none /\ HasAny(files, {PackageJson}),
                flutter |-> HasAny(files, {Pubspec}), laravel |-> "laravel/framework" \in says.php \/ HasAny(files, {<<"artisan">>}),
                django |-> django, fastapi |-> fast /\ app]
  IN {id \in DOMAIN holds : holds[id]}
FrameworkPriority ==
  <<"nextjs", "nuxt", "nestjs", "laravel", "django", "fastapi", "flutter", "svelte", "vue", "react", "express", "nodejs">>
DetectFrameworks(files, says) ==
  LET all == Frameworks(files, says) IN
  [all |-> IF all = {} THEN {"unknown"} ELSE all, primary |-> OrUnknown(FirstIn(FrameworkPriority, all))]

---------------------------------------------------------------------------
\* detectMonorepo of detectors/: the first tool that leaves a marker, or two manifests at
\* the root and in its folders
ProjectManifests == {PackageJson, Pubspec, ComposerJson, Named("cargo", "toml"), Named("go", "mod"), Pyproject, <<"gemfile">>}
ProjectRoots(files) == {Front(p) : p \in {p \in files : Name(p) \in ProjectManifests /\ Len(p) \in {1, 2}}}
DetectMonorepo(files, workspaces) ==
  CASE HasAny(files, {Named("turbo", "json"), Named("turbo", "jsonc")}) -> "turborepo"
    [] OTHER ->
      IF HasAny(files, {Named("nx", "json")}) THEN "nx"
      ELSE IF HasAny(files, {PnpmWorkspace}) THEN "pnpm-workspaces"
      ELSE IF workspaces # <<>> /\ workspaces[1].array THEN "npm-workspaces"
      ELSE IF Cardinality(ProjectRoots(files)) >= 2 THEN "multi-project" ELSE "none"

\* detectProject; of several manifests the names are put together, and only the root's
\* package.json tells of workspaces.
Requirements == {Named("requirements", "txt"), Named("requirements-django", "txt"), Named("requirements-fastapi", "txt")}
Said(project, names) == {project.says[p] : p \in {p \in DOMAIN project.says : p \in ToSet(project.files) /\ Name(p) \in names}}
DepsOf(manifests) == UNION {m.deps : m \in manifests}
RootWorkspaces(project) ==
  IF <<PackageJson>> \in DOMAIN project.says \cap ToSet(project.files) THEN project.says[<<PackageJson>>].workspaces ELSE <<>>
DetectProject(project) ==
  LET files == ToSet(project.files)
      pyprojects == Said(project, {Pyproject})
      python == [poetry |-> \E m \in pyprojects : m.poetry,
                 generic |-> (\E m \in pyprojects : ~m.poetry) \/ HasAny(files, {<<"pipfile">>})]
      says == [node |-> DepsOf(Said(project, {PackageJson})), php |-> DepsOf(Said(project, {ComposerJson})),
               python |-> DepsOf(pyprojects \cup Said(project, Requirements))]
  IN [languages |-> DetectLanguages(files), frameworks |-> DetectFrameworks(files, says),
      managers |-> DetectPackageManagers(files, python), monorepo |-> DetectMonorepo(files, RootWorkspaces(project))]

---------------------------------------------------------------------------
\* core/monorepo: a tree is [dirs, links, package, pnpm, foreign]. package maps the
\* folders with a package.json that can be read to the workspaces it has, pnpm is <<>> or
\* <<the patterns of pnpm-workspace.yaml>>, links are folders that are linked, and foreign
\* those that are not the project's own or in a nested repository.
\* resolveGlobDirs: the folder itself or, with a star, the folders in it. A star without a
\* folder before it is the name of a folder.
IsDotted(path) == Len(Name(path)) > 1 /\ Head(Name(path)) = ""
ResolveGlobDirs(tree, pattern) ==
  IF pattern.path = <<>> /\ ~pattern.star THEN {<<>>}
  ELSE IF ~pattern.star THEN {pattern.path} \cap tree.dirs
  ELSE {d \in tree.dirs \ tree.links : Len(d) > 1 /\ Front(d) = pattern.path /\ ~IsDotted(d)}

PatternsOf(workspaces) == IF workspaces # <<>> /\ workspaces[1].array THEN workspaces[1].patterns ELSE <<>>
WorkspacesAt(tree) == IF <<>> \in DOMAIN tree.package THEN tree.package[<<>>] ELSE <<>>
ToolOf(tree) ==
  IF tree.pnpm # <<>> THEN "pnpm-workspaces"
  ELSE IF WorkspacesAt(tree) # <<>> /\ WorkspacesAt(tree)[1].array THEN "npm-workspaces" ELSE "none"

\* detectMonorepo of core/monorepo: the patterns of both files, one package a folder, and
\* the repository itself when there is none
DetectWorkspaces(tree) ==
  LET patterns == PatternsOf(WorkspacesAt(tree)) \o (IF tree.pnpm = <<>> THEN <<>> ELSE tree.pnpm[1])
      found == UNION {ResolveGlobDirs(tree, p) : p \in ToSet(patterns)} \cap DOMAIN tree.package
      owned == found \ tree.foreign
  IN [tool |-> ToolOf(tree), isMonorepo |-> ToolOf(tree) # "none", skipped |-> found \cap tree.foreign,
      packages |-> IF owned # {} THEN owned ELSE {<<>>} \cap DOMAIN tree.package]

---------------------------------------------------------------------------
\* What is first is one of those found, or unknown among several; and a file more, or a
\* manifest that says more, takes no language, no package manager and no monorepo away.
PrimaryIsFound(kind) == kind.primary \in kind.all \/ (kind.primary = "unknown" /\ Cardinality(kind.all) > 1)
NoLess(kind, less) == less.all \ {"unknown"} \subseteq kind.all
MoreOnlyAdds(more, less) ==
  /\ NoLess(more.languages, less.languages) /\ NoLess(more.managers, less.managers)
  /\ less.monorepo # "none" => more.monorepo # "none"
  /\ less.frameworks.all # {"unknown"} => more.frameworks.all # {"unknown"}
Without(project, i) == [project EXCEPT !.files = RemoveAt(@, i)]
ProjectIsKnown(project, known) ==
  /\ PrimaryIsFound(known.languages) /\ PrimaryIsFound(known.frameworks) /\ PrimaryIsFound(known.managers)
  /\ "unknown" # known.frameworks.primary <=> known.frameworks.all # {"unknown"}
  /\ \A i \in DOMAIN project.files : MoreOnlyAdds(known, DetectProject(Without(project, i)))

\* The two detectors of monorepos agree on what is one; packages are the project's own and
\* are all that the patterns reach, in whichever file they stand.
TreeOf(project, dirs, links, foreign, pnpm) ==
  LET files == ToSet(project.files)
      at == {p \in files \cap DOMAIN project.says : Name(p) = PackageJson}
  IN [dirs |-> dirs, links |-> links, foreign |-> foreign,
      package |-> [d \in {Front(p) : p \in at} |-> project.says[Append(d, PackageJson)].workspaces],
      pnpm |-> IF <<PnpmWorkspace>> \in files THEN <<pnpm>> ELSE <<>>]
MonoreposAgree(tree, detected, found) ==
  /\ found.isMonorepo => detected # "none"
  /\ detected = "npm-workspaces" => found.isMonorepo
  /\ \A d \in found.packages : d \notin tree.foreign \/ d = <<>>
  /\ \A d \in (DOMAIN tree.package \cap tree.dirs) \ (tree.foreign \cup tree.links) :
       Len(d) > 1 /\ (\E p \in ToSet(PatternsOf(WorkspacesAt(tree))) : p = [path |-> Front(d), star |-> TRUE]) /\ ~IsDotted(d)
       => d \in found.packages
ProjectsAreKnown(project, trees) ==
  /\ ProjectIsKnown(project, DetectProject(project))
  /\ \A t \in trees :
       LET tree == TreeOf(project, t.dirs, t.links, t.foreign, t.pnpm) IN
       MonoreposAgree(tree, DetectProject(project).monorepo, DetectWorkspaces(tree))
=============================================================================
