---------------------------- MODULE Dependencies ----------------------------
(***************************************************************************)
(* discoverDependencies: which files a source's references name, and the   *)
(* edges between modules that come of it; resolveSpecifier of              *)
(* discoverRelationships has a second way to name them.                    *)
(*                                                                         *)
(* A path is a sequence of segments and a segment the sequence of its      *)
(* parts between dots: src/a.ts is <<<<"src">>, <<"a", "ts">>>>.  A        *)
(* reference is [form, path, type]: ./ and ../ stand in the path of the    *)
(* relative form, . counts dots in that of Python.  files is the sorted    *)
(* sequence of the repository's.                                           *)
(***************************************************************************)
EXTENDS Integers, Sequences, FiniteSets, SequencesExt, FiniteSetsExt

Up == <<"..">>
Here == <<".">>
Null == <<>>

Dir(path) == IF path = <<>> THEN <<>> ELSE Front(path)
Ext(path) == IF Len(Last(path)) > 1 THEN Last(Last(path)) ELSE "none"

\* joinPosix: a .. above the root is lost.
JoinPosix(path) ==
  FoldLeft(LAMBDA done, segment :
             CASE segment = Here -> done
               [] segment = Up -> Dir(done)
               [] OTHER -> Append(done, segment),
           <<>>, path)

\* stripExtension
Strip(path) ==
  IF path # <<>> /\ Len(Last(path)) > 1 THEN Append(Front(path), Front(Last(path))) ELSE path
WithExt(path, ext) == Append(Front(path), Append(Last(path), ext))

Indexes == {<<"index", "ts">>, <<"index", "js">>, <<"__init__", "py">>, <<"mod", "rs">>}

\* The keys of a file in buildResolveMap, besides its path.
Keys(file) == {Strip(file)} \cup (IF Last(file) \in Indexes THEN {Dir(file)} \ {<<>>} ELSE {})

HeadOrNull(found) == IF found = <<>> THEN Null ELSE Head(found)
FirstOf(files, Is(_)) == HeadOrNull(SelectSeq(files, Is))
FirstHit(hits) == FirstOf(hits, LAMBDA f : f # Null)

\* buildResolveMap: a file's own path is its, another key the first file's to come.
ResolveMap(files, key) ==
  IF key \in ToSet(files) THEN key ELSE FirstOf(files, LAMBDA f : key \in Keys(f))

\* RESOLVE_EXTENSIONS; a name with an extension of one part has its key without it.
Extensions == <<"ts", "tsx", "js", "jsx", "mjs", "cjs", "dart", "java", "go", "py", "rs", "php">>
Folders == <<<<"index", "ts">>, <<"index", "tsx">>, <<"index", "js">>, <<"index", "jsx">>,
             <<"index", "mjs">>, <<"index", "dart">>, <<"__init__", "py">>, <<"mod", "rs">>>>

\* A TypeScript source names what it will be compiled to.
Sources(path) ==
  CASE path = <<>> -> <<>>
    [] Ext(path) = "js" -> <<path, WithExt(Strip(path), "ts"), Strip(path)>>
    [] Ext(path) = "jsx" -> <<path, WithExt(Strip(path), "tsx"), Strip(path)>>
    [] Ext(path) \in {"mjs", "cjs"} -> <<path, Strip(path)>>
    [] OTHER -> <<path>>

\* lookupResolved: of each form of the path, as it is, with an extension or as a folder.
Forms(path, extensions, folders) ==
  <<path>> \o [i \in DOMAIN extensions |-> WithExt(path, extensions[i])]
           \o [i \in DOMAIN folders |-> Append(path, folders[i])]
Tries(sources, extensions, folders) ==
  FlattenSeq([i \in DOMAIN sources |-> Forms(sources[i], extensions, folders)])
FirstTry(files, tries) == FirstHit([i \in DOMAIN tries |-> ResolveMap(files, tries[i])])
Lookup(files, path, extensions, folders) == FirstTry(files, Tries(Sources(path), extensions, folders))

LookupResolved(files, path) == Lookup(files, path, Extensions, Folders)

\* The first file that ends with the path, whatever its extension, or lies below it.
EndingWith(files, path) ==
  FirstOf(files, LAMBDA f : Len(f) > Len(path) /\ IsSuffix(path, Strip(f)))

---------------------------------------------------------------------------
\* loadPackages, of the manifests in the order of their paths: a package needs a
\* name, longer aliases come first and the last go.mod is the one that counts.
AliasesOf(configs) ==
  SortSeq(FlattenSeq([i \in DOMAIN configs |-> configs[i].aliases]),
          LAMBDA p, q : Len(p.pattern) > Len(q.pattern))
GoModuleOf(modules) == IF modules = <<>> THEN [name |-> <<>>, root |-> <<>>] ELSE Last(modules)
LoadPackages(files, manifests) ==
  LET of(kind) == SelectSeq(manifests, LAMBDA m : m.kind = kind) IN
  [files |-> files, packages |-> SelectSeq(of("package.json"), LAMBDA m : m.name # <<>>),
   aliases |-> AliasesOf(of("tsconfig")),
   goModule |-> GoModuleOf(of("go.mod")).name, goRoot |-> GoModuleOf(of("go.mod")).root]

---------------------------------------------------------------------------
File(target) == [file |-> target, package |-> Null]
Package(name) == [file |-> Null, package |-> name]
Unresolved == File(Null)

\* resolveJsSpecifier: a star alias ends its pattern and its target with the star.
AliasTarget(alias, path) ==
  CASE ~alias.star /\ path = alias.pattern -> alias.target
    [] alias.star /\ IsPrefix(alias.pattern, path) ->
         alias.target \o SubSeq(path, Len(alias.pattern) + 1, Len(path))
    [] OTHER -> Null
Aliased(index, path) ==
  FirstHit([i \in DOMAIN index.aliases |-> LookupResolved(index.files, AliasTarget(index.aliases[i], path))])

\* A package, or what a scoped one has in its src or beside it.
FileOr(file, other) == IF file # Null THEN File(file) ELSE other
Scoped(files, packages, rest) ==
  IF packages = <<>> THEN Unresolved
  ELSE IF rest = <<>> THEN Package(Head(packages).name)
  ELSE FileOr(FirstHit(<<LookupResolved(files, Head(packages).root \o <<<<"src">>>> \o rest),
                         LookupResolved(files, Head(packages).root \o rest)>>),
              Package(Head(packages).name))
ResolvePackage(index, ref) ==
  IF \E p \in ToSet(index.packages) : p.name = ref.path THEN Package(ref.path)
  ELSE Scoped(index.files,
              SelectSeq(index.packages, LAMBDA p : ref.form = "scoped" /\ Len(ref.path) >= 2
                                                   /\ p.name = SubSeq(ref.path, 1, 2)),
              SubSeq(ref.path, 3, Len(ref.path)))

ResolveJs(index, from, ref) ==
  IF ref.form = "relative" THEN File(LookupResolved(index.files, JoinPosix(Dir(from) \o ref.path)))
  ELSE FileOr(Aliased(index, ref.path), ResolvePackage(index, ref))

\* resolveJavaSpecifier, resolvePhpSpecifier
ResolveJava(index, ref) ==
  FirstHit(<<LookupResolved(index.files, ref.path),
             LookupResolved(index.files, <<<<"src">>, <<"main">>, <<"java">>>> \o ref.path),
             EndingWith(index.files, ref.path)>>)
ResolvePhp(index, ref) ==
  FirstHit(<<LookupResolved(index.files, ref.path), EndingWith(index.files, <<Last(ref.path)>>)>>)

\* resolveGoSpecifier: a package is the first of its files.
ResolveGo(index, ref) ==
  LET base == index.goRoot \o SubSeq(ref.path, Len(index.goModule) + 1, Len(ref.path))
      own == index.goModule # <<>> /\ IsStrictPrefix(index.goModule, ref.path)
  IN IF ~own THEN LookupResolved(index.files, ref.path)
     ELSE FirstHit(<<LookupResolved(index.files, base),
                     FirstOf(index.files, LAMBDA f : IsStrictPrefix(base, f) /\ Ext(f) = "go"),
                     LookupResolved(index.files, ref.path)>>)

\* resolvePythonSpecifier: one dot is the file's own directory.
ResolvePython(index, from, ref) ==
  LET dir == SubSeq(Dir(from), 1, Len(Dir(from)) - Max({0, Min({ref.dots - 1, Len(Dir(from))})})) IN
  IF ref.dots > 0 THEN LookupResolved(index.files, dir \o ref.path)
  ELSE FirstHit(<<LookupResolved(index.files, ref.path), LookupResolved(index.files, Dir(from) \o ref.path),
                  EndingWith(index.files, ref.path)>>)

\* resolveRustSpecifier, by the first name of the path
ResolveRust(index, from, ref) ==
  LET src == SelectInSeq(Dir(from), LAMBDA s : s = <<"src">>)
      root == IF src > 1 THEN SubSeq(from, 1, src) ELSE Dir(from)
      base == CASE ref.form = "crate" -> root [] ref.form = "super" -> Dir(Dir(from)) [] OTHER -> Dir(from)
  IN LookupResolved(index.files, Append(base, Head(ref.path)))

\* resolveDartSpecifier: the first file that ends so and lies in a folder of that name.
ResolveDart(index, from, ref) ==
  CASE ref.form = "package" -> FirstOf(index.files, LAMBDA f : IsSuffix(Tail(ref.path), f) /\ Head(ref.path) \in ToSet(Dir(f)))
    [] ref.form = "dart" -> Null
    [] OTHER -> LookupResolved(index.files, JoinPosix(Dir(from) \o ref.path))

ResolveReference(index, from, ref) ==
  LET ext == Ext(from) IN
  CASE ext = "dart" -> File(ResolveDart(index, from, ref)) [] ext = "java" -> File(ResolveJava(index, ref))
    [] ext = "go" -> File(ResolveGo(index, ref)) [] ext = "py" -> File(ResolvePython(index, from, ref))
    [] ext = "rs" -> File(ResolveRust(index, from, ref)) [] ext = "php" -> File(ResolvePhp(index, ref))
    [] OTHER -> ResolveJs(index, from, ref)

---------------------------------------------------------------------------
\* extractReferences: the kinds of reference that a language's expressions find.
Speaks(ext) ==
  CASE ext \in {"ts", "tsx", "js", "jsx", "mjs", "cjs"} -> {"import", "export", "require", "dynamic-import"}
    [] ext = "dart" -> {"import", "export"} [] ext \in {"java", "go", "py"} -> {"import"}
    [] ext = "rs" -> {"import", "module"} [] ext = "php" -> {"import", "require", "route"} [] OTHER -> {}

\* The references of a file that says these, without what is not a file's or not the project's.
ExtractReferences(path, said) ==
  {ref \in said : /\ ref.type \in Speaks(Ext(path))
                  /\ ref.path \notin {<<>>, <<Here>>, <<Here, <<>>>>, <<Up, <<>>>>}
                  /\ ref.form # "node"
                  /\ Ext(path) = "java" => Head(ref.path) \notin {<<"java">>, <<"javax">>, <<"jakarta">>}}

---------------------------------------------------------------------------
LabelStop == {"src", "lib", "libs", "app", "apps", "packages", "package", "services", "service", "modules",
  "module", "internal", "cmd", "bin", "dist", "build", "out", "public", "static", "assets", "test", "tests",
  "spec", "specs", "__tests__", "fixtures", "node_modules", "vendor", "main", "java", "kotlin", "resources"}

\* packageLabel, titleCaseSegment: a name's last segment, its parts run together.
Label(segment) == IF Len(segment) = 1 THEN segment ELSE <<"joined">> \o segment

\* moduleLabel: the nearest package's name, else the innermost folder that says something.
Nearest(packages) == FirstOf(packages, LAMBDA p : \A q \in ToSet(packages) : Len(p.root) >= Len(q.root))
LabelName(nearest, said, file) ==
  IF nearest # Null THEN Last(nearest.name) ELSE IF said # <<>> THEN Last(said) ELSE Last(Strip(file))
ModuleLabel(index, file) ==
  Label(LabelName(Nearest(SelectSeq(index.packages, LAMBDA p : p.root # <<>> /\ IsPrefix(p.root, file))),
                  SelectSeq(Dir(file), LAMBDA s : Len(s) = 1 /\ Head(s) \notin LabelStop), file))

Has(path, word) == \E s \in ToSet(path) : word \in ToSet(s)

\* refineRelationType
Refine(type, source, target) ==
  CASE type \notin {"import", "service", "repository"} -> type
    [] type = "import" /\ \E s \in ToSet(Dir(source)) : s \in {<<"routes">>, <<"pages">>} -> "route"
    [] OTHER -> CASE Has(source, "controller") /\ Has(target, "service") -> "service"
                  [] Has(target, "repository") -> "repository"
                  [] Has(target, "service") /\ (Has(source, "handler") \/ Has(source, "route")) -> "service"
                  [] OTHER -> type

\* RELATION_CONFIDENCE
Sure(type) ==
  CASE type = "import" -> 97 [] type = "export" -> 96 [] type = "require" -> 95 [] type = "package" -> 90
    [] type \in {"service", "repository"} -> 88 [] type = "module" -> 85 [] type = "route" -> 80
    [] type = "dynamic-import" -> 75

\* addEdge: within a module only some edges count.
Counts(edge) == edge.from # edge.to \/ edge.type \in {"service", "repository", "module"}

\* Dependencies that packages declare on one another.
Declared(packages) ==
  UNION {{[from |-> Label(Last(p.name)), to |-> Label(Last(q.name)), type |-> "package"] :
            q \in {r \in packages : r.name \in p.dependencies}} : p \in packages}

\* The edge that a reference of file from makes, unless nothing in the project resolves it.
EdgesTo(index, from, ref, hit) ==
  IF hit = Unresolved THEN {}
  ELSE {[from |-> ModuleLabel(index, from),
         to |-> IF hit.file # Null THEN ModuleLabel(index, hit.file) ELSE Label(Last(hit.package)),
         type |-> IF hit.file # Null THEN Refine(ref.type, from, hit.file) ELSE ref.type]}
EdgesOf(index, from, ref) == EdgesTo(index, from, ref, ResolveReference(index, from, ref))

\* said has what each file says.
DiscoverDependencies(index, said) ==
  {e \in Declared(ToSet(index.packages))
           \cup UNION {UNION {EdgesOf(index, f, ref) : ref \in ExtractReferences(f, said[f])} : f \in DOMAIN said} :
     Counts(e) /\ Sure(e.type) >= 70}

---------------------------------------------------------------------------
(***************************************************************************)
(* relationships/discover.ts resolves with a copy of the same tables, and  *)
(* a shorter one of extensions and folders.                                *)
(***************************************************************************)
RelatedExtensions == <<"ts", "tsx", "js", "jsx", "dart", "java", "go", "py", "rs", "php">>
RelatedFolders == <<<<"index", "ts">>, <<"index", "js">>, <<"mod", "rs">>>>

\* resolveSpecifier: what no path resolves is the first file that ends like it;
\* the dots of Python are taken for part of a file's name.
RelatedJoined(files, from, ref) ==
  Lookup(files, JoinPosix(Dir(from) \o ref.path), RelatedExtensions, RelatedFolders)
RelatedNamed(files, ref) ==
  IF Len(ref.path) < 2 THEN Null
  ELSE FirstOf(files, LAMBDA f : Len(f) > 1 /\ Last(Strip(f)) = Last(ref.path))
ResolveSpecifier(files, from, ref) ==
  LET ext == Ext(from) IN
  CASE ref.form = "relative" -> RelatedJoined(files, from, ref)
    [] ext = "py" /\ ref.dots > 0 -> Null
    [] ext = "py" \/ (ext = "java" /\ Len(ref.path) > 1) ->
         FirstOf(files, LAMBDA f : IsSuffix(ref.path, Strip(f)) /\ (ext = "py" \/ Len(f) > Len(ref.path)))
    [] ext = "rs" \/ ref.form \in {"package", "dart"} -> Null
    [] OTHER -> FirstHit(<<IF ext = "dart" THEN RelatedJoined(files, from, ref) ELSE Null,
                           RelatedNamed(files, ref)>>)

\* A file that a relative reference names is the one it resolves to, for the
\* dependencies and for the relationships, and whatever else the relationships
\* find by one the dependencies find too, and the same.
AgreeOn(files, named, depended, related) ==
  /\ named \in ToSet(files) => depended = named /\ related = named
  /\ related # Null => depended = related
RelativesAgree(files, from, path) ==
  LET ref == [form |-> "relative", path |-> path] IN
  AgreeOn(files, JoinPosix(Dir(from) \o path),
          ResolveJs(LoadPackages(files, <<>>), from, ref).file, ResolveSpecifier(files, from, ref))

\* Whatever the language, a dependency is on a file of the project, and of Python,
\* Java and PHP the dependencies find a file wherever the relationships do.
FoundOnly(files, from, depended, related) ==
  /\ depended # Null => depended \in ToSet(files)
  /\ Ext(from) \in {"py", "java", "php"} /\ related # Null => depended # Null
LanguagesAgree(files, manifests, from, ref) ==
  FoundOnly(files, from, ResolveReference(LoadPackages(files, manifests), from, ref).file,
            ResolveSpecifier(files, from, ref))
=============================================================================
