----------------------------- MODULE MCServices -----------------------------
(***************************************************************************)
(* The services and, next to them, the calculations over what a repository *)
(* holds, in one run.  Each behaviour is one of one service, or asks one    *)
(* calculation one thing, in one step.                                     *)
(***************************************************************************)
EXTENDS Services, SequencesExt

CONSTANTS a, b, x, y, z

Two == {a, b}

\* What the services are given.
MCMaxAsks == [serial |-> 3, overlapping |-> 2]
MCMaxFailures == [serial |-> 1, overlapping |-> 0]
MCSizes == [serial |-> {1, 3}, overlapping |-> {1}]
MCFiles == <<x, y, z>>
MCRecords == <<x, y>>
MCNames == <<x, y>>
MCInside == [r \in {x, y, z} |-> IF r = y THEN {x, y} ELSE {r}]
MCKinds == <<"overview", "adr-0001">>
MCFacts == {[subject |-> x, object |-> 1], [subject |-> x, object |-> 2], [subject |-> y, object |-> 1]}

Entry(id, owned, says, size) == [id |-> id, owned |-> owned, says |-> says, size |-> size]
MCDrafts ==
  [change |-> {Entry(Absent, TRUE, "why", 1), Entry(Absent, TRUE, "how", 3)},
   decisions |-> {Entry(x, TRUE, "why", 1), Entry(x, TRUE, "how", 2), Entry(y, TRUE, "why", 2), Entry(z, FALSE, "why", 2)}]
MCAdrs == [id \in {x} |-> [n |-> 0, of |-> Entry(x, TRUE, "why", 3)]]
MCBrainHits == <<[foreign |-> TRUE, size |-> 2], [foreign |-> FALSE, size |-> 2], [foreign |-> FALSE, size |-> 9]>>

WordsOf(name) == IF name = "smoke-test" THEN <<"smoke", "test">> ELSE <<name>>
Scan == INSTANCE Scanning WITH
  Words <- WordsOf, LogNames <- {"log"},
  Rules <- {x, y}, Category <- [r \in {x, y} |-> IF r = x THEN "security" ELSE "context"],
  Agents <- Two, Severities <- {"info", "warning", "critical"}

\* Reports of two rules, two of them alike but for the agent.
DraftReports ==
  LET Draft(rule, place, title, agents) == [rule |-> rule, place |-> place, title |-> title, agents |-> agents]
  IN {Draft(x, <<1, 1>>, 1, Two), Draft(x, <<2, 1>>, 1, Two), Draft(y, <<1, 1>>, 1, {a}), Draft(y, <<1, 1>>, 1, {b}),
      Draft(y, <<1, 1>>, 2, Two), Draft(y, <<1, 2>>, 1, {})}
Reported(severities) ==
  {[rule |-> d.rule, place |-> d.place, title |-> d.title, agents |-> d.agents, severity |-> severities[d]] :
     d \in {e \in DraftReports : severities[e] # Absent}}
GateOptions ==
  {[ci |-> ci, minScore |-> score, severity |-> severity, rules |-> IF score = Absent THEN {y} ELSE {}, failOnNew |-> FALSE] :
     ci \in BOOLEAN, score \in {Absent, 60}, severity \in {Absent, "warning"}}

\* What is done to named baselines, two of whose names are made safe alike; two findings
\* share a fingerprint.
BaselineOperations ==
  LET found(rule, severity, detail, title) ==
        [rule |-> rule, place |-> <<1, detail>>, title |-> title, agents |-> {}, severity |-> severity]
      names == {<<"a", "/">>, <<"a", "_">>, <<"b">>, <<".", ".">>}
      scans == {{}, {found(x, "critical", 1, 1), found(x, "critical", 2, 1)},
                {found(x, "warning", 1, 1), found(y, "info", 1, 1), found(y, "info", 1, 2)}}
  IN BoundedSeq([kind : {"save"}, name : names, findings : scans]
                \cup [kind : {"delete", "damage"}, name : {<<"a", "_">>, <<"b">>}, findings : {{}}], 3)

\* Instructions and ignores of some agents, and what they refer to.
Contexts ==
  LET text(file, tone, terms) == [file |-> file, blank |-> FALSE, large |-> FALSE, marked |-> FALSE, years |-> {}, refs |-> {}, tone |-> tone, terms |-> terms]
      agents == {text(1, t, w) : t \in {{}, {"always", "never"}}, w \in {{}, {"repo"}, {"repo", "repository"}}}
      claude == {[text(2, {"never"}, w) EXCEPT !.years = years, !.refs = {<<".", "f">>, <<"..", "f">>}, !.large = TRUE] : w \in {{"repository"}, {"project"}}, years \in {{2019}, {2024, 2025}}}
      cursor == {[text(3, {"always"}, {"repo"}) EXCEPT !.blank = e, !.marked = TRUE, !.refs = {<<".", "f">>, <<"x", "f">>, <<"node_modules", "f">>}] : e \in BOOLEAN}
      some(t) == {<<>>} \cup {<<u>> : u \in t}
  IN [instructions : {s \o t \o u : s \in some(agents), t \in some(claude), u \in some(cursor)},
      ignores : {<<>>, <<[file |-> 4, blank |-> FALSE]>>, <<[file |-> 4, blank |-> TRUE], [file |-> 5, blank |-> FALSE]>>}, there : {{}, {<<"x", "f">>}}]

\* Texts of up to four characters, Text's patterns and its LF and CR by name, and edit_file's
\* arguments: a text or what to replace by it, a range, or some of both.
Signs == {"$", "&", "backquote", "quote"}
Letters == {"a", "lf", "cr"}
MCChars == Signs \cup Letters
MCTexts == BoundedSeq(Letters, 4)
MCArguments ==
  LET maybe(values) == values \cup {Absent}
      one == {<<"a">>}
      olds == BoundedSeq({"a", "lf"}, 2)
      patterns == {<<"$">> \o more : more \in BoundedSeq(Signs \cup {"a"}, 2)}
  IN [content : {<<>>, <<"a">>, <<"&", "a">>, <<"$", "backquote", "$", "quote">>} \cup patterns, old : olds,
      start : {Absent}, end : {Absent}, replacement : {Absent}]
     \cup [content : {Absent}, old : {Absent}, start : 0..4, end : 0..4,
           replacement : BoundedSeq(Letters, 2)]
     \cup [content : maybe(one), old : maybe(one), start : maybe({0 - 1, 2}), end : maybe({2}), replacement : maybe(one)]

Cli == INSTANCE CommandLine

\* The lines of a command: none, one or all of its flags, or one that nothing declares.
Lines(command) ==
  LET outcomes(json) == DOMAIN Cli!Answers(command.path, json) \cup {"thrown"}
  IN [command : {command},
      given : {{}, command.flags, {"colour"}} \cup {{flag} : flag \in command.flags},
      options : {{}, command.needs}, root : {"project", "folder"}, help : BOOLEAN,
      outcome : IF command.reads = "nothing" THEN {"done"} ELSE outcomes(TRUE) \cup outcomes(FALSE)]

\* Texts and words of a few characters, and which of them a policy or a path minds.
Characters == {"a", " ", "'", "\"", "/"}
Argvs == BoundedSeq({<<>>, <<"a">>, <<"a", " ">>, <<"'">>, <<"\"", "a">>, <<"/", "a">>, <<"-", "/">>, <<".", ".">>}, 2)
Worlds ==
  [blocked : {{}, {<<"a", " ", "a">>}}, asked : {{<<"/", "a">>}}, outside : {{}, {<<"/", "a">>, <<".", ".">>, <<"-", "/">>}},
   windows : BOOLEAN, npm : {<<"a">>}, cli : {<<>>, <<<<"n">>, <<"c">>>>}]

\* Patterns of CODEOWNERS, as they sort: *, *z, /x/ and y/*.
Every == {x, y, z}
Patterns == <<
  [segs |-> <<Every>>, anchored |-> FALSE, dirOnly |-> FALSE],
  [segs |-> <<{z}>>, anchored |-> FALSE, dirOnly |-> FALSE],
  [segs |-> <<{x}>>, anchored |-> TRUE, dirOnly |-> TRUE],
  [segs |-> <<{y}, Every>>, anchored |-> FALSE, dirOnly |-> FALSE]>>
Spelling(pattern) == SelectInSeq(Patterns, LAMBDA p : p = pattern)
Insight == INSTANCE Insights WITH Deep <- Absent, Spelled <- Spelling

OwnerLines == BoundedSeq([pattern : ToSet(Patterns), owners : {{}, {a}, {b}}], 2)
Packages == {<<>>, <<[dir |-> <<>>, owners |-> {b}]>>,
             <<[dir |-> <<>>, owners |-> {b}], [dir |-> <<y>>, owners |-> {a}]>>}
Paths == {<<x>>, <<y, x>>, <<x, z>>}
Models ==
  [entrypoints : {{[file |-> p, confidence |-> 70]} : p \in Paths}, domains : {{}, {<<y, z>>}},
   dependencies : {{}, {[from |-> <<x>>, to |-> <<y, x>>]}}, relationships : {{}}, conflicts : {<<>>}]
Webs ==
  LET edges == [from : Paths, to : {<<x>>}] \cup [from : {<<x>>}, to : {<<y, x>>}] IN
  [entrypoints : {{}}, domains : {{}}, dependencies : SUBSET edges, relationships : SUBSET edges,
   conflicts : {<<>>}]

\* Up to three of the relationships that the patterns look for, once or twice each.
Wired ==
  LET edge(kind, from, to) == [relationship |-> kind, source |-> from, target |-> to] IN
  {edge("EXPOSES", "Route", "Controller"), edge("USES", "Controller", "Service"),
   edge("CALLS", "API", "Service"), edge("USES", "Service", "Repository"),
   edge("USES", "Repository", "Database"), edge("USES", "Controller", "Entity"),
   edge("IMPLEMENTS", "Repository", "Interface"), edge("USES", "Widget", "Bloc"),
   edge("USES", "Bloc", "Repository"), edge("USES", "Widget", "ViewModel"),
   edge("PROVIDES", "Module", "Domain"), edge("CONFIGURES", "Module", "Redux"),
   edge("CONTAINS", "Feature", "Riverpod"), edge("CONSUMES", "Feature", "Feature"),
   edge("OWNS", "Package", "Feature")}
Discovered ==
  UNION {[edges : [s -> {1}] \cup [s -> {2}],
          domains : {n}, frameworks : {{}, {"Flutter", "NestJS"}}, packages : {n}, dynamic : {1}] :
         s \in {t \in SUBSET Wired : Cardinality(t) <= 3}, n \in {0, 2}}

Imports == INSTANCE Dependencies
Related == INSTANCE Relationships WITH Lexicon <- [pay |-> "bill", cart |-> "orders"]

\* Files as they sort, and the paths that a.ts and x/a.ts may write.
Pool == <<
  <<<<"a", "css">>>>, <<<<"a", "js">>>>, <<<<"a", "ts">>>>, <<<<"a">>, <<"index", "js">>>>,
  <<<<"a">>, <<"index", "tsx">>>>, <<<<"b", "mjs">>>>, <<<<"b">>, <<"a", "ts">>>>, <<<<"index", "ts">>>>>>
Written == {
  <<<<".">>, <<"a">>>>, <<<<".">>, <<"a", "ts">>>>, <<<<".">>, <<"a", "js">>>>, <<<<"..">>, <<"a">>>>,
  <<<<"..">>, <<"a">>, <<"index">>>>, <<<<".">>, <<"b">>>>, <<<<".">>, <<"b", "mjs">>>>, <<<<"..">>>>,
  <<<<".">>, <<"b">>, <<"a", "js">>>>}

\* Files of other languages, the references they write and who may write them.
Tongues == <<
  <<<<"a", "py">>>>, <<<<"p">>, <<"__init__", "py">>>>, <<<<"p">>, <<"a", "java">>>>, <<<<"p">>, <<"b", "go">>>>,
  <<<<"q">>, <<"p">>, <<"a", "php">>>>, <<<<"q">>, <<"src">>, <<"a", "rs">>>>, <<<<"q">>, <<"p">>, <<"a", "dart">>>>,
  <<<<"src">>, <<"main">>, <<"java">>, <<"p">>, <<"b", "java">>>>>>
Wordings ==
  [form : {"bare"}, path : {<<<<"p">>>>, <<<<"a">>>>, <<<<"p">>, <<"a">>>>, <<<<"p">>, <<"b">>>>, <<<<"g">>, <<"p">>>>}, dots : {0, 2}]
  \cup [form : {"package", "crate", "super"}, path : {<<<<"p">>, <<"a", "dart">>>>, <<<<"a">>>>}, dots : {0}]
Writers == {<<<<"q">>, <<"m", ext>>>> : ext \in {"py", "java", "go", "php", "dart"}} \cup {<<<<"q">>, <<"src">>, <<"m", "rs">>>>}
GoModule == <<[kind |-> "go.mod", name |-> <<<<"g">>>>, root |-> <<>>]>>

\* Components of two features, and what they write.
Relative(path, type) == [form |-> IF Head(path) = <<"far">> THEN "bare" ELSE "relative", path |-> path, type |-> type]
Component(path, says, refs, names, implements) ==
  [path |-> path, says |-> says, class |-> <<>>, refs |-> refs, injects |-> names.injects, calls |-> names.calls,
   implements |-> implements]
Wirings ==
  LET till == <<<<"bill">>, <<"pay", "service", "ts">>>>
      service == <<"pay", "service">>
      up(path) == Relative(<<<<"..">>>> \o path, "import")
      late(path) == Relative(<<<<"..">>>> \o path, "dynamic-import")
      names == [injects : {{}, {<<"pay">>}}, calls : {{}, {service}}]
      desk == <<<<"shop">>, <<"cart", "controller", "ts">>>>
      stock == <<<<"shop">>, <<"cart", "repository", "ts">>>>
      wires == <<<<"shop">>, <<"shop", "module", "ts">>>>
      none == [injects |-> {}, calls |-> {}]
  IN {<<Component(till, {"Service"}, r1, none, {}),
        Component(desk, {"Controller"}, r2, n, {}),
        Component(stock, {"Repository"}, r3, none, i),
        Component(wires, {"Module", "Service"}, r4, none, {})>> :
        r1 \in SUBSET {up(stock), late(desk)}, r2 \in SUBSET {up(till), up(stock)},
        r3 \in SUBSET {up(till)}, r4 \in {{}, {Relative(<<<<"far">>, <<"pay", "service">>>>, "import") , up(desk)}},
        n \in names, i \in {{}, {service}, {<<"cart", "controller">>}}}
Manifests ==
  LET package(name, root, dependencies) ==
        [kind |-> "package.json", name |-> <<name>>, root |-> root, dependencies |-> dependencies]
      alias == [pattern |-> <<<<"far">>>>, target |-> <<<<"bill">>>>, star |-> TRUE]
  IN {<<>>,
      <<package(<<"all">>, <<>>, {<<<<"mart">>>>}), package(<<"mart">>, <<<<"shop">>>>, {}),
        [kind |-> "tsconfig", aliases |-> <<alias>>, root |-> <<>>]>>,
      <<package(<<"mart">>, <<<<"shop">>>>, {<<<<"bill">>>>}), package(<<"bill">>, <<<<"bill">>>>, {<<<<"mart">>>>})>>}
Entries == {[file |-> <<<<"shop">>, <<"main", "ts">>>>, confidence |-> 90, evidence |-> {1, 2}]}

\* One text includes another here when it is that text; evidence is text.
SameText(text, part) == ToString(text) = ToString(part) \/ text = ToString(part)
Texted(found) == {[f EXCEPT !.evidence = {ToString(e) : e \in f.evidence}] : f \in found}
Model == INSTANCE ProjectModel WITH
  Includes <- SameText, NoArg <- Absent,
  Places <- {x, y, z}, Alike <- {<<p, p>> : p \in {x, y, z}} \cup {<<x, y>>, <<y, x>>},
  MaxDepth <- 4, MaxEdges <- 4

\* What is discovered of components that say how they are entered.
Found(files, manifests, fits) ==
  LET entered == [path : {<<<<"shop">>, <<"main", "ts">>>>, <<<<"pages">>, <<"cart", "ts">>>>}, readable : {TRUE},
                  fits : {fits}, signals : {[NestJS |-> {"NestFactory"}, NextJs |-> {}]}]
      entrypoints == Model!DiscoverEntrypoints(entered)
      entry(e) == [file |-> e.file, confidence |-> e.confidence, evidence |-> e.evidence]
  IN [domains |-> Texted(Related!DiscoverDomains(ToSet(Related!Paths(files)))), entrypoints |-> entrypoints,
      dependencies |-> {[from |-> d.from, to |-> d.to, type |-> d.type, confidence |-> Imports!Sure(d.type),
                         evidence |-> {d.type}] : d \in Related!Depended(files, manifests)},
      relationships |-> Texted(Related!Understood(files, manifests, {entry(e) : e \in entrypoints}, 75)),
      architectures |-> {[pattern |-> "Layered Architecture", confidence |-> 85, evidence |-> {"USES"}]}]

\* Trees of some files, with links to a private directory, to an owned one and to a file.
Trees ==
  LET pool == {<<"f">>, <<"x", "x", "f">>, <<"x", "dist", "f">>, <<".private", "x", "f">>,
               <<"validation", "checkouts", "f">>, <<"validation", "x", "checkouts", "log">>}
      above(files) == UNION {{SubSeq(f, 1, n) : n \in 0..(Len(f) - 1)} : f \in files}
      links == {<<>>, <<"alias">> :> <<".private">>, <<"alias">> :> <<"x", "x">> @@ <<"x", "out">> :> <<"..", "f">>}
  IN UNION {[files : {files}, dirs : {above(files) \cup {<<>>}}, links : links,
             git : {{<<>>}, {<<"x">>}, {<<"x", "x">>, <<"validation", "x">>}}, locked : {{}, {<<"x">>}},
             large : {{}, {<<"f">>, <<"validation", "x", "checkouts", "log">>}}] : files \in SUBSET pool}
References == [kind : {"path", "url"}, path : UNION {[1..n -> {"..", ".", "x", "f", "io"}] : n \in 1..3}]

\* Paths that a tool may be given.
Candidates ==
  [kind : {"relative", "root", "real", "abroad", "drive"},
   names : {<<>>} \cup UNION {[1..n -> {"f", "x", "alias", "out", ".", "%66", "%2e%2e"}] : n \in 1..2} \cup {<<"..">>, <<"x", "....">>, <<"%">>}]

\* Repositories with a few ignores, the root's and a nested file's, and denials.
Repositories ==
  LET dist == Scan!Pattern(<<"dist">>, TRUE)
      log == Scan!Pattern(<<"log">>, FALSE)
      not(pattern) == [pattern EXCEPT !.not = TRUE]
      own == {<<>>, <<dist>>, <<[dist EXCEPT !.rooted = TRUE]>>, <<dist, not(dist)>>, <<not(log), Scan!Pattern(<<"x", "*">>, FALSE)>>}
      nested == {<<>>, <<not(dist)>>, <<log>>}
      ignored(root, inner) == <<[dir |-> <<>>, patterns |-> root], [dir |-> <<"x">>, patterns |-> inner]>>
      ignores == {[git |-> ignored(g, <<>>), cursor |-> ignored(c, n), aider |-> ignored(<<>>, n)] @@ "gemini-cli" :> ignored(c, <<>>) :
                    g \in {<<>>, <<log>>}, c \in own, n \in nested}
      denied(path) == [list |-> "deny", path |-> path, form |-> "directory"]
  IN [agents : {{}, {"cursor", "copilot"}, {"claude-code", "aider", "codex"}, {"gemini-cli", "codex"}},
      ignores : ignores,
      claude : {[text |-> "valid", entries |-> {}, local |-> {denied(<<"x", "dist">>)}],
                [text |-> "valid", entries |-> {denied(<<"dist">>)}, local |-> {}], [text |-> "invalid", entries |-> {}, local |-> {}]},
      codex : {[text |-> "none", denies |-> {}], [text |-> "own", denies |-> {<<"log">>}], [text |-> "sandbox", denies |-> {}]},
      files : {{[path |-> p, large |-> TRUE] : p \in {<<"log">>, <<"x", "log">>, <<"x", ".env">>, <<"smoke-test", ".env_old">>, <<"id_rsa">>, <<".env_old">>}}},
      skipped : {{<<"dist">>, <<"x", "dist">>, <<"src", "build">>, <<"x", "vendor">>}}, php : {FALSE}]

\* Sources in the folders core and cli, what they import, and a tool of another language.
Sources ==
  LET bare(path) == [form |-> "bare", path |-> path]
      up(path) == [form |-> "relative", path |-> path]
      source(path, imports) ==
        [path |-> path, imports |-> imports, classes |-> {[name |-> <<<<"K">>>>, extends |-> <<<<"B">>>>]},
         functions |-> {<<<<"f">>>>}, calls |-> {<<<<"f">>>>}, parsed |-> FALSE]
      cli(r, ext) == source(<<<<"cli">>, <<"b", ext>>>>, r)
      barrel(r, ext) == source(<<<<"cli">>, <<"index", ext>>>>, r)
      a1(r, ext) == source(<<<<"core">>, <<"a", ext>>>>, r)
      c1(r, ext) == source(<<<<"core">>, <<"x">>, <<"c", ext>>>>, r)
      last(ext) == source(<<<<"core">>, <<"z", ext>>>>, {up(<<<<"..">>, <<"cli">>>>)})
      tool == [source(<<<<"core">>, <<"x">>, <<"t", "py">>>>, {bare(<<<<"cli">>>>)}) EXCEPT !.parsed = TRUE]
      far == {up(<<<<"..">>, <<"cli">>>>), up(<<<<"..">>, <<"cli">>, <<"b", "ts">>>>), bare(<<<<"cli">>, <<"b">>>>),
              bare(<<<<"@">>, <<"b">>>>), [form |-> "dots", path |-> <<<<"..">>>>]}
      back == {up(<<<<"..">>, <<"core">>, <<"a">>>>), up(<<<<"..">>, <<"..">>, <<"core">>, <<"a">>>>)}
      deep == {up(<<<<"..">>, <<"..">>, <<"cli">>>>), up(<<<<"..">>, <<"a">>>>)}
  IN {<<cli(r1, ext), barrel({}, ext), a1(r2, ext), c1(r3, ext), tool, last(ext)>> :
        ext \in {"ts", "js"}, r1 \in {{}, back}, r2 \in {r \in SUBSET far : Cardinality(r) <= 2}, r3 \in {{}, deep}}
     \cup {<<cli(back, "ts"), a1(r2, "ts"), c1({}, "js"), tool>> : r2 \in SUBSET far}
Configs ==
  LET to(path) == [path |-> path, star |-> TRUE]
      alias(pattern, targets) == [pattern |-> pattern, star |-> TRUE, targets |-> targets]
  IN {<<>>, <<[baseUrl |-> <<>>, paths |-> <<>>]>>,
      <<[baseUrl |-> <<<<"cli">>>>, paths |-> <<alias(<<>>, <<to(<<<<"..">>>>)>>), alias(<<<<"@">>>>, <<to(<<>>)>>)>>]>>}
Contracts ==
  LET below(path) == [path |-> path, slash |-> TRUE]
      layer(id, prefix) == [id |-> id, paths |-> <<prefix>>]
      rule(from, to) == [id |-> from \o to, from |-> from, to |-> to]
  IN [layers : {<<layer("core", below(<<<<"core">>>>)), layer("cli", below(<<Imports!Here, <<"cli">>>>)),
                  layer("inner", [path |-> <<<<"core">>, <<"x">>>>, slash |-> FALSE])>>,
                <<layer("cli", [path |-> <<<<"cli">>, <<"b", "ts">>>>, slash |-> FALSE]),
                  layer("", below(<<<<"core">>, <<"x">>>>)), layer("core", [path |-> <<<<"core">>, <<"a">>>>, slash |-> FALSE])>>},
      forbidden : {<<>>, <<rule("core", "cli")>>, <<rule("core", "cli"), rule("inner", "core")>>},
      allowed : {<<>>, <<<<"cli", "core">>>>, <<<<"core", "cli">>, <<"cli", "core">>>>}]

Setup == INSTANCE AgentDetection

\* Repositories with some files of an agent, in every state, listed or not.
AgentFiles == {
  {<<Setup!CursorDir, <<"rules">>, <<"a", "mdc">>>>, <<Setup!CursorDir, <<"rules">>, Setup!AgentsMd>>, <<<<"x">>, Setup!AgentsMd>>},
  {<<Setup!CursorRules>>, <<Setup!CodexDir, Setup!AgentsOverride>>, Setup!CodexConfig},
  {<<Setup!ClaudeDir, Setup!ClaudeMd>>, <<Setup!ClaudeDir, <<"settings", "json">>>>, <<<<"x", "claude">>, <<"rules">>, <<"a", "md">>>>},
  {<<Setup!GeminiMd>>, Setup!GeminiIgnore, Setup!GeminiSettings},
  {Setup!WindsurfRules, <<<<"x">>, <<"", "devin">>, <<"rules">>, <<"a", "md">>>>, Setup!CopilotInstructions},
  {<<<<"", "github">>, <<"instructions">>, <<"a", "instructions", "md">>>>, <<<<"", "github">>, <<"instructions">>, <<"a", "md">>>>},
  {Setup!AiderConf[1].path, Setup!AiderConf[2].path, Setup!AiderIgnore.path, Setup!Conventions.path}}
SetUps ==
  LET above(paths) == UNION {{SubSeq(p, 1, n) : n \in 1..(Len(p) - 1)} : p \in paths}
      states(paths) == [paths -> {"gone", "empty", "text"} \cup IF Cardinality(paths) > 3 THEN {} ELSE {"malformed", "large", "locked"}]
      of(paths, state, listed) ==
        LET there == {p \in paths : state[p] # "gone"} IN
        {[files |-> paths, listed |-> listed,
          state |-> [p \in there \cup above(dirs) |-> IF p \in there THEN state[p] ELSE "dir"]] : dirs \in {there, paths}}
  IN UNION {UNION {of(paths, state, listed) : state \in states(paths), listed \in {<<>>, SetToSeq(paths)}} : paths \in AgentFiles}

Detect == INSTANCE ProjectDetection

\* Projects of up to three files, what their manifests say, and where their packages lie.
Checkouts ==
  LET files == {Detect!Named("tsconfig", "json"), Detect!PackageJson, Detect!Named("package-lock", "json"), Detect!Pyproject,
                Detect!PnpmWorkspace, Detect!Named("requirements", "txt"), <<"next", "config", "js">>, <<"gradlew">>}
      nested == {Detect!PackageJson, Detect!Pyproject, Detect!Named("poetry", "lock"), Detect!Named("nx", "json"),
                 Detect!Named("main", "py"), <<"a", "d", "ts">>, <<"a", "vue">>, Detect!Named("yarn", "lock")}
      pool == {<<f>> : f \in files} \cup {<<<<"app">>, f>> : f \in nested} \cup {<<<<"app">>, <<"x">>, Detect!PackageJson>>}
      patterns == <<[path |-> <<<<"app">>>>, star |-> TRUE], [path |-> <<>>, star |-> FALSE]>>
      node(deps, workspaces) == [deps |-> deps, workspaces |-> workspaces]
      says == {[package |-> node({"vue", "express"}, <<>>), python |-> [deps |-> {"fastapi"}, poetry |-> TRUE]],
               [package |-> node({"next", "react", "nuxt"}, <<[array |-> TRUE, patterns |-> patterns]>>), python |-> [deps |-> {"django"}, poetry |-> FALSE]],
               [package |-> node({"vite"}, <<[array |-> FALSE, patterns |-> <<>>]>>), python |-> [deps |-> {}, poetry |-> FALSE]]}
  IN {[files |-> SetToSeq(f),
       says |-> [p \in {p \in f : Last(p) \in {Detect!PackageJson, Detect!Pyproject}} |-> IF Last(p) = Detect!Pyproject THEN s.python ELSE s.package]] :
        f \in {f \in SUBSET pool : Cardinality(f) <= 3}, s \in says}
PackageTrees ==
  LET x1 == <<<<"app">>, <<"x">>>> IN
  [dirs : {{<<>>, <<<<"app">>>>, x1}}, links : {{}, {x1}}, foreign : {{}, {x1}}, pnpm : {<<>>, <<[path |-> <<<<"app">>>>, star |-> FALSE]>>}]
PathOrder == <<
  <<<<"pkg">>, <<"src">>, <<"Makefile">>>>, <<<<"pkg">>, <<"tests">>, <<"Makefile">>>>,
  <<<<"src">>, <<"a", "test", "ts">>>>, <<<<"src">>, <<"a", "ts">>>>, <<<<"src">>, <<"b", "ts">>>>,
  <<<<"tests">>, <<"a", "ts">>>>, <<<<"tests">>, <<"b", "test", "ts">>>>, <<<<"tests">>, <<"c">>, <<"", "env">>>>>>
Code == INSTANCE CodeImpact WITH FileLimit <- 4, Sorted <- PathOrder

Readings == Code!Readings(Contracts)

\* Changes, the tests there are, and reports whose records repeat a file or name it in short.
Changes ==
  LET of(kind, n) == [path |-> PathOrder[n], kind |-> kind]
      none == [available |-> TRUE, since |-> <<>>, staged |-> <<>>, unstaged |-> <<>>, untracked |-> <<>>]
  IN {[none EXCEPT !.available = FALSE], [none EXCEPT !.since = <<<<of("renamed", 4), of("deleted", 3)>>>>]}
     \cup {[none EXCEPT !.staged = s, !.unstaged = u, !.untracked = n] :
             s \in {<<>>, <<of("modified", 4), of("added", 5)>>}, n \in {<<>>, <<of("untracked", 1), of("untracked", 8)>>},
             u \in {<<>>, <<of("modified", 4)>>, <<of("modified", 5), of("deleted", 3)>>}}
Understood == {
  <<>>, <<[components |-> {[name |-> <<"core">>, path |-> <<<<"src">>>>]},
           domains |-> {[name |-> <<"made">>, paths |-> {<<<<"Makefile">>>>}]},
           dependencies |-> {[from |-> PathOrder[4], to |-> <<<<"src">>, <<"z", "ts">>>>]}]>>}
CoverageReports ==
  LET record(path, hits, tests) == [path |-> path, lines |-> hits, tests |-> tests]
      short == <<<<"a", "ts">>>>
      once == (1 :> 1) @@ (2 :> 0)
  IN {<<>>} \cup {<<[name |-> f[1], content |-> f[2], records |-> r, map |-> m]>> :
        f \in {<<"info", "lcov">>, <<"xml", "cobertura">>, <<"json", "istanbul">>, <<"xml", "istanbul">>, <<"json", "empty">>},
        m \in {{}, {[test |-> PathOrder[6], source |-> PathOrder[4]], [test |-> PathOrder[7], source |-> <<<<"b", "ts">>>>]}},
        r \in {<<>>, <<record(PathOrder[4], once, {PathOrder[3]}), record(PathOrder[4], 1 :> 0, {})>>,
                <<record(short, once, {}), record(PathOrder[5], <<>>, {PathOrder[7]})>>,
                <<record(PathOrder[5], 2 :> 3, {}), record(short, 1 :> 0, {PathOrder[6]}), record(PathOrder[5], once, {})>>}}
TestFiles == {{}, {PathOrder[3]}, {PathOrder[6], PathOrder[7]}, {PathOrder[2], PathOrder[6]}, ToSet(PathOrder)}

Listing == <<
  <<".agentdoctor", "pay">>, <<".env">>, <<".private", "pay">>, <<"lib">>, <<"lib", "auth">>, <<"src">>,
  <<"src", "alias">>, <<"src", "auth">>, <<"src", "db", "pay">>, <<"src", "void">>, <<"vendor", "pay">>>>
Evidence == INSTANCE ContextRetrieval WITH
  Ignored <- {"dist"}, LogLike <- {"log"}, MaxDepth <- 4, PathOrder <- Listing,
  Dotted <- {"pay", "auth", "void"}, Coded <- {"pay", "auth"}, Typed <- {"pay", "void"}, Noise <- {"vendor"},
  Secret <- {".env"}, Infra <- {"vendor"}, About <- [auth |-> {"auth"}, db |-> {"db"}],
  Tokens <- [p \in ToSet(Listing) |-> CASE Last(p) = "void" -> 0 [] p \in {<<"lib", "auth">>, <<"src", "db", "pay">>} -> 2 [] p = <<"vendor", "pay">> -> 9 [] OTHER -> 1],
  MaxHits <- 2, MaxCandidates <- 2, MaxFiles <- 2, MaxHints <- 1, Budget <- 3, TooLarge <- 5

\* Projects with a link, brains that point to it and out of the project, and what is asked of them.
Projects ==
  LET folders == {<<>>, <<".agentdoctor">>, <<".private">>, <<"lib">>, <<"src">>, <<"src", "db">>, <<"vendor">>}
  IN [files : {ToSet(Listing) \ {<<"lib">>, <<"src">>, <<"src", "alias">>, <<"src", "auth">>}},
      dirs : {folders}, links : {<<"src", "alias">> :> to : to \in {<<".private", "pay">>, <<"lib", "auth">>, <<"..", "f">>}},
      git : {{}, {<<"lib">>}}, locked : {{}}, large : {{}}]
Brains ==
  LET entry(id, kind, holds, marks, paths, evidence) ==
        [id |-> id, kind |-> kind, holds |-> holds, marks |-> marks, paths |-> paths, evidence |-> evidence]
      claim(e, of, to) == e @@ [subject |-> of, object |-> to]
      component(e, name, type, path) == e @@ [name |-> name, type |-> type, path |-> path]
      c1 == claim(entry(1, "claim", {"pay"}, {"provides"}, {}, {1}), <<"src">>, <<"src", "db", "pay">>)
      c2 == claim(entry(2, "claim", {"auth", "what auth"}, {"risk"}, {<<"lib", "auth">>}, {2}), <<"lib", "auth">>, <<"src", "alias">>)
      m1 == component(entry(3, "component", {"pay"}, {}, {}, {2}), "pay", "module", <<"src", "void">>)
      m2 == component(entry(4, "component", {"pay", "auth"}, {"infra"}, {}, {1}), "pay", "module", <<"src", "auth">>)
      s1 == component(entry(5, "component", {"auth"}, {}, {}, {}), "auth", "domain-surface", <<"..", "auth">>)
      note == entry(6, "note", {"pay", "auth"}, {}, {<<"vendor", "pay">>}, {})
      some(all) == {SelectSeq(all, LAMBDA e : e \in chosen) : chosen \in SUBSET ToSet(all)}
  IN {Absent} \cup [claims : some(<<c1, c2>>), components : {<<>>, <<m1, m2>>, <<m2, s1>>}, notes : {<<note>>},
      evidence : {<<[kind |-> "path", locator |-> l], [kind |-> "symbol", locator |-> <<"src">>]>> : l \in {<<".private", "pay">>, <<"src", "void">>}}]
Questions ==
  {[whole |-> "pay", terms |-> <<"pay">>, topics |-> {"db", "deps"}], [whole |-> "pay", terms |-> <<>>, topics |-> {"overview", "auth"}],
   [whole |-> "what auth", terms |-> <<"auth">>, topics |-> {"auth"}], [whole |-> "gone", terms |-> <<"gone">>, topics |-> {"db"}],
   [whole |-> "auth pay", terms |-> <<"auth", "pay">>, topics |-> {}]}
Graphs ==
  LET node(n) == [kind |-> "file", path |-> Listing[n], label |-> "x"] IN
  {Absent, <<>>, <<node(5), node(7), node(9)>>, <<node(2), node(8), node(9), node(11), [node(6) EXCEPT !.kind = "module", !.label = "pay"]>>}
Included == {<<>>, <<<<"src", "auth">>>>, <<<<".agentdoctor", "pay">>, <<"src", "alias">>, <<"src", "void">>, <<"lib", "auth">>>>, <<<<"src">>, <<"..", "f">>, <<"src", "db", "pay">>, <<"src", "auth">>, <<"vendor", "pay">>>>}

\* Dependencies in every order, up to three of them.
Orders == {<<>>} \cup UNION {SetToSeqs(edges) : edges \in
  {s \in SUBSET [from : {x, y, z}, to : {x, y, z}] : Cardinality(s) \in 1..3}}

\* The subjects that are calculations: one step chooses what each is asked.
Calculations == {"scan", "cli", "trace", "owners", "risks", "patterns", "imports", "relations", "models", "boundary", "context", "layers", "tests", "answers", "baselines", "health", "runs", "agents", "projects"}
Asked(first, second, third) ==
  /\ Unused(disk) /\ Unused(calls) /\ Unused(world)
  /\ disk' \in first /\ calls' \in second /\ world' \in third
  /\ UNCHANGED <<past, spent>>
IsAnswered(calculation) == subject = calculation /\ disk # Absent

Init ==
  \/ ServicesInit
  \/ subject \in Calculations /\ Unused(disk) /\ Unused(calls) /\ Unused(world) /\ Unused(past) /\ Unused(spent)

Next ==
  \/ ServicesNext
  \/ /\ UNCHANGED subject
     /\ \/ subject = "scan" /\ Asked([DraftReports -> {Absent, "info", "warning", "critical"}], {Absent}, {Absent})
        \/ subject = "baselines" /\ Asked(BaselineOperations, {Absent}, {Absent})
        \/ subject = "health" /\ Asked(Contexts, {Absent}, {Absent})
        \/ subject = "agents" /\ Asked(SetUps, {Absent}, {Absent})
        \/ subject = "projects" /\ Asked(Checkouts, {Absent}, {Absent})
        \/ subject = "runs" /\ (Asked(Argvs, Worlds, {"words"}) \/ Asked(BoundedSeq(Characters, 4), Worlds, {"text"}))
        \/ subject = "cli" /\ Asked(Cli!Commands, {Absent}, {Absent})
        \/ subject = "trace" /\ Asked(Orders, {Absent}, {Absent})
        \/ subject = "owners" /\ Asked(OwnerLines, [maintainers : {{}, {b}}, packages : Packages], Models)
        \/ subject = "risks" /\ Asked(Webs, {Absent}, {Absent})
        \/ subject = "patterns" /\ Asked(Discovered, {Absent}, {Absent})
        \/ subject = "imports" /\ Asked(SUBSET ToSet(Pool) \cup SUBSET ToSet(Tongues), {Absent}, {Absent})
        \/ subject = "relations" /\ Asked(Wirings, Manifests, {Absent})
        \/ subject = "models" /\ Asked({w \in Wirings : w[2].injects # {} /\ w[2].calls = {} /\ w[3].refs = {} /\ w[3].implements = {}},
                                    Manifests, {{}, {"NestJS"}, {"NestJS", "NextJs", "Node"}})
        \/ subject = "boundary" /\ Asked(Trees, {Absent}, {Absent})
        \/ subject = "layers" /\ Asked(Sources, Configs, {Absent})
        \/ subject = "tests" /\ Asked(Changes, CoverageReports, TestFiles)
        \/ subject = "answers" /\ Asked(Projects, Brains, Graphs)
        \/ subject = "context" /\ Asked(Repositories, {Absent}, {Absent})

Spec == Init /\ [][Next]_vars

\* Callers are alike.
Alike == Permutations(Two)

---------------------------------------------------------------------------
\* Fixing costs nothing and nothing hides, from the reports to the exit code.
GatesAreSound == IsAnswered("scan") =>
  /\ Scan!FixingNeverCosts(Reported(disk),
       [usable |-> TRUE, findings |-> {[rule |-> x, place |-> <<1, 1>>]}], GateOptions)
  /\ \A broken \in SUBSET {x, y}, exclude \in {{}, {y}} :
       Scan!NothingHides(
         [r \in {x, y} |-> {d \in Reported(disk) : d.rule = r}], broken,
         [include |-> {}, exclude |-> exclude])

\* A baseline is kept under its name and compares as it was taken.
BaselinesAreKept == IsAnswered("baselines") => Scan!BaselinesAreKept(disk)

\* What agents are told is judged text by text, and settled so.
ConflictsSettle == IsAnswered("health") => Scan!ConflictsSettle(disk, 2025)

\* Agents are set up as their files say.
AgentsAreDetected == IsAnswered("agents") => Setup!AgentsAreDetected(disk, disk.files)

\* A project is what its files say, and its packages are its own.
ProjectsAreKnown == IsAnswered("projects") => Detect!ProjectsAreKnown(disk, PackageTrees)

\* What a command line asks for reaches the command's handler.
FlagsReachHandler == IsAnswered("cli") => \A line \in Lines(disk) : Cli!FlagsReach(line)


\* A command that is run was judged and is explained as one that would run.
RunsAreExplained == IsAnswered("runs") => \A execute, shell \in BOOLEAN :
  LET given == world = "words"
      request == [argv |-> IF given THEN disk ELSE <<>>, text |-> IF given THEN <<>> ELSE disk, execute |-> execute, shell |-> shell]
  IN (given => Cli!QuotesAreRead(disk)) /\ Cli!RunsAreExplained(request, calls)

\* A trace within its limits is what can be reached.
TracesReach == IsAnswered("trace") => \A p \in {x, y, z} : Model!TraceIsReach(disk, p)

\* All who ask for a path's owners are told the same.
OwnersAreTold == IsAnswered("owners") =>
  Insight!OwnersAreTold(world, disk, calls.maintainers, calls.packages)

\* More facts are no less danger.
RisksGrow == IsAnswered("risks") => Insight!RisksGrow(disk, <<>>)

\* Evidence for a pattern never speaks against it.
EvidenceHelps == IsAnswered("patterns") => Insight!EvidenceHelps(disk)

\* What a reference names is found, and alike by all who look for it.
ResolversAgree == IsAnswered("imports") =>
  LET there(pool) == SelectSeq(pool, LAMBDA f : f \in disk) IN
  /\ disk \subseteq ToSet(Pool) =>
       \A from \in {<<<<"m", "ts">>>>, <<<<"b">>, <<"m", "ts">>>>}, path \in Written :
         Imports!RelativesAgree(there(Pool), from, path)
  /\ disk \subseteq ToSet(Tongues) =>
       \A from \in Writers, ref \in Wordings :
         Imports!LanguagesAgree(there(Tongues), GoModule, from, ref)

\* Relationships go both ways, and between features, where they are said to.
RelationsAgree == IsAnswered("relations") => Related!RelationsAgree(disk, calls, Entries)

\* A project's model holds what was discovered, and its queries find it.
ModelHolds(found) == Model!ModelsBuild(found) /\ Model!FoundAreListed(found)
ModelsHold == IsAnswered("models") => ModelHolds(Found(disk, calls, world))

\* What is listed, what may be touched and what is missing are the same project's.
BoundsAgree == IsAnswered("boundary") =>
  /\ Evidence!ListedIsOwned(disk)
  /\ disk.git = {<<>>} /\ disk.locked = {} =>
       \A instruction \in {<<"f">>, <<"x", "f">>, <<"x", "x", "f">>} :
         Evidence!MissingIsMissing(disk, instruction, References)
  /\ disk.git = {<<>>} /\ disk.locked \cup disk.large = {} =>
       \A abroad \in SUBSET {<<"..", "f">>} :
         /\ \A alias \in BOOLEAN, candidate \in Candidates : Evidence!PathsStayInside(disk, abroad, alias, candidate)
         /\ Evidence!ListedIsLetThrough(disk, abroad)

\* A fix settles what it fixes, and no more is ever reported for it.
FixesSettle == IsAnswered("context") => Scan!FixingSettles(disk) /\ Scan!FixingOnlyRemoves(disk)

\* A stricter contract reports no less, however the imports are spelt.
ImportsAreKept(reports) == Code!StricterReportsMore(reports) /\ Code!SpellingsAreAlike(reports, disk, calls)
LayersAreKept == IsAnswered("layers") => ImportsAreKept(Code!Reports(disk, calls, Readings))

\* What changed has tests, or is told to have none.
ChangesAreTested == IsAnswered("tests") => \A brain \in Understood :
  /\ Code!ChangesAreAnswered(disk, brain, world, calls)
  /\ Code!ChangesOnlyAdd(disk, brain, world, calls)

\* An answer quotes what it may and claims what it quotes.
AnswersRest == IsAnswered("answers") => \A question \in Questions :
  LET pack == Evidence!BrainEvidence(calls, question) IN
  /\ \A includes \in Included : Evidence!QuotesAreEarned(disk, pack, world, question, includes)
  /\ Evidence!AnswersAreHonest(disk, calls, world, question, Evidence!RetrieveProjectContext(disk, pack, world, question, <<>>))

---------------------------------------------------------------------------
\* From the files that are read over the findings and their fixes to the exit code, nothing
\* hides, what is fixed stays fixed and fixing costs nothing.
FindingsAreSound ==
  /\ GatesAreSound /\ BoundsAgree /\ FixesSettle
  /\ BaselinesAreKept /\ ConflictsSettle /\ AgentsAreDetected

\* The project's memory and understanding: what is recorded, claimed, traced, owned, risky,
\* resolved, related, layered, to be tested or quoted is so for all who ask, and more evidence
\* never says less.
AnalysesAgree ==
  /\ LedgersAreKept /\ TracesReach /\ ModelsHold
  /\ EvidenceHelps /\ ResolversAgree /\ RelationsAgree
  /\ OwnersAreTold /\ RisksGrow
  /\ LayersAreKept /\ ChangesAreTested /\ AnswersRest /\ RunsAreExplained /\ ProjectsAreKnown
=============================================================================
