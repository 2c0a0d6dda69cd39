------------------------ MODULE ArchitectureContract ------------------------
(***************************************************************************)
(* The architecture contract of a repository (architecture/contract.ts):   *)
(* how it is read from its two files, which layer a path is in, and the    *)
(* imports that checkArchitecture reports.                                 *)
(*                                                                         *)
(* A contract is [layers, forbidden, allowed].  A layer is [id, paths]; a  *)
(* path of it is [path, slash], the path as in Dependencies and slash says *)
(* that / ends it.  A file is [form]: "missing", "broken", "json" with     *)
(* [version, arrays, contract], arrays naming what is an array in it, or   *)
(* "lines" with its lines.  A line is [kind, key, value, indented]: a      *)
(* "version", a "header", an "item" with the key it starts with, if any, a *)
(* "pair", or "other": a comment, a blank or words without a colon.  A     *)
(* value is [form, is], of the form "empty", "text" or "list".             *)
(***************************************************************************)
EXTENDS Dependencies

\* normalizeRel drops a leading ./
NormalizeRel(prefix) ==
  IF prefix.path = <<>> \/ Head(prefix.path) # Here \/ (Len(prefix.path) = 1 /\ ~prefix.slash) THEN prefix
  ELSE [path |-> Tail(prefix.path), slash |-> prefix.slash /\ Len(prefix.path) > 1]

\* The path is the prefix, is below it or, if no slash ends the prefix, starts as it does:
\* src/core is a prefix of src/core.ts, and the empty one of every path.
StartsWith(path, prefix) ==
  \/ prefix = <<>>
  \/ /\ Len(prefix) <= Len(path) /\ Front(prefix) = SubSeq(path, 1, Len(prefix) - 1)
     /\ IsPrefix(Last(prefix), path[Len(prefix)])
InPrefix(path, prefix) ==
  \/ prefix.path # <<>> /\ IsPrefix(prefix.path, path)
  \/ ~prefix.slash /\ StartsWith(path, prefix.path)

\* The length of the prefix as text, among those that start the same path.
Length(prefix) ==
  FoldLeft(LAMBDA n, name : n + 2 * Len(name), IF prefix.slash THEN 1 ELSE 0, prefix.path)

\* layerForPath: the longest prefix decides, the first of those.
Candidates(layers) ==
  FlattenSeq([i \in DOMAIN layers |->
    [j \in DOMAIN layers[i].paths |-> [id |-> layers[i].id, prefix |-> NormalizeRel(layers[i].paths[j])]]])
LayerForPath(path, layers) ==
  FoldLeft(LAMBDA best, c :
             IF InPrefix(path, c.prefix) /\ Length(c.prefix) > best.length
             THEN [id |-> c.id, length |-> Length(c.prefix)] ELSE best,
           [id |-> "none", length |-> -1], Candidates(layers)).id

---------------------------------------------------------------------------
\* parseArchitectureYamlSubset, line by line; current is <<the item that is being read>>.
NoContract == <<>>
Beginning == [version |-> "1", layers |-> <<>>, forbidden |-> <<>>, allowed |-> <<>>, section |-> "none", current |-> <<>>]

TextOf(item, key) == IF key \in DOMAIN item THEN item[key].is ELSE ""
PathsOf(item) == IF "paths" \in DOMAIN item /\ item["paths"].form = "list" THEN item["paths"].is ELSE <<>>
HasId(item) == "id" \in DOMAIN item /\ item["id"].form # "list"
Dependency(item) == [id |-> TextOf(item, "id"), from |-> TextOf(item, "fromLayer"), to |-> TextOf(item, "toLayer")]

\* pushCurrent: a layer or a rule without an id is lost.
Pushed(read, item) ==
  CASE read.section = "layers" /\ HasId(item) ->
         [read EXCEPT !.layers = Append(@, [id |-> TextOf(item, "id"), paths |-> PathsOf(item)])]
    [] read.section = "forbidden" /\ HasId(item) -> [read EXCEPT !.forbidden = Append(@, Dependency(item))]
    [] read.section = "allowed" ->
         [read EXCEPT !.allowed = Append(@, <<Dependency(item).from, Dependency(item).to>>)]
    [] OTHER -> read
PushCurrent(read) ==
  IF read.current = <<>> THEN read ELSE [Pushed(read, read.current[1]) EXCEPT !.current = <<>>]

\* An item may start with a value that is empty, any other such value is passed over.
Line(read, line) ==
  CASE line.kind = "version" ->
         [PushCurrent(read) EXCEPT !.version = IF line.value.form = "empty" THEN "1" ELSE line.value.is, !.section = "none"]
    [] line.kind = "header" -> [PushCurrent(read) EXCEPT !.section = line.key]
    [] line.kind = "item" /\ read.section # "none" ->
         [PushCurrent(read) EXCEPT !.current = <<IF line.key = "none" THEN <<>> ELSE line.key :> line.value>>]
    [] line.kind = "pair" /\ read.current # <<>> /\ line.indented /\ line.value.form # "empty" ->
         [read EXCEPT !.current = <<(line.key :> line.value) @@ @[1]>>]
    [] OTHER -> read

ParseLines(lines) ==
  LET read == PushCurrent(FoldLeft(Line, Beginning, lines)) IN
  IF read.version # "1" THEN NoContract
  ELSE <<[layers |-> read.layers, forbidden |-> read.forbidden, allowed |-> read.allowed]>>

\* parseArchitectureJson: allowed may be missing.
ParseJson(file) ==
  IF file.form # "json" \/ file.version # "1" \/ ~({"layers", "forbidden"} \subseteq file.arrays) THEN NoContract
  ELSE <<IF "allowed" \in file.arrays THEN file.contract ELSE [file.contract EXCEPT !.allowed = <<>>]>>
ParseYamlSubset(file) == IF file.form = "lines" THEN ParseLines(file.lines) ELSE ParseJson(file)

\* loadArchitectureContract: what cannot be parsed is passed over as what is missing is.
LoadContract(json, yml) == IF ParseJson(json) # NoContract THEN ParseJson(json) ELSE ParseYamlSubset(yml)

Json(contract) == [form |-> "json", version |-> "1", arrays |-> {"layers", "forbidden", "allowed"}, contract |-> contract]
DefaultContract ==
  LET below(names) == <<[path |-> [i \in DOMAIN names |-> <<names[i]>>], slash |-> TRUE]>> IN
  [layers |-> <<[id |-> "cli", paths |-> below(<<"src", "cli">>)], [id |-> "platform", paths |-> below(<<"src", "platform">>)],
                [id |-> "core", paths |-> below(<<"src", "core">>)], [id |-> "tests", paths |-> below(<<"tests">>)]>>,
   forbidden |-> <<[id |-> "core-must-not-import-cli", from |-> "core", to |-> "cli"],
                   [id |-> "src-must-not-import-tests", from |-> "core", to |-> "tests"],
                   [id |-> "platform-must-not-import-tests", from |-> "platform", to |-> "tests"]>>,
   allowed |-> <<<<"cli", "platform">>, <<"cli", "core">>, <<"platform", "core">>,
                 <<"tests", "core">>, <<"tests", "platform">>, <<"tests", "cli">>>>]

\* initArchitecture: the file that is there stays, readable or not.
InitArchitecture(json) == IF json.form = "missing" THEN Json(DefaultContract) ELSE json

---------------------------------------------------------------------------
\* checkArchitecture of one import, whose ends are nodes with a path: each rule that forbids
\* it, or else that the list of what is allowed lacks it. A layer without a name is none.
Violation(kind, rule, edge, layers) ==
  [kind |-> kind, rule |-> rule, from |-> edge.from.path, to |-> edge.to.path, layers |-> layers, evidence |-> edge.evidence]
Forbidding(contract, layers) == {r \in ToSet(contract.forbidden) : <<r.from, r.to>> = layers}
JudgedBetween(edge, layers, contract) ==
  LET forbidden == {Violation("forbidden", r.id, edge, layers) : r \in Forbidding(contract, layers)} IN
  IF {"none", ""} \cap ToSet(layers) # {} \/ layers[1] = layers[2] THEN {}
  ELSE IF forbidden # {} \/ contract.allowed = <<>> \/ layers \in ToSet(contract.allowed) THEN forbidden
  ELSE {Violation("not-allowed", "not-allowed", edge, layers)}
Judged(edge, contract) ==
  JudgedBetween(edge, <<LayerForPath(edge.from.path, contract.layers), LayerForPath(edge.to.path, contract.layers)>>, contract)

\* checkArchitecture of the graph's imports, with the contract that checkArchitectureAtRoot loads
CheckArchitecture(graph, contract) ==
  IF contract = NoContract THEN {}
  ELSE UNION {Judged(e, contract[1]) : e \in {e \in graph.edges : e.kind \in {"imports", "depends_on"}}}

---------------------------------------------------------------------------
\* A contract as lines, an item's id first or last, with comments between its items.
Text(is) == [form |-> "text", is |-> is]
ItemLines(fields) ==
  [i \in DOMAIN fields |->
    [kind |-> IF i = 1 THEN "item" ELSE "pair", key |-> fields[i][1], value |-> fields[i][2], indented |-> TRUE]]
Comment == <<[kind |-> "other", key |-> "none", value |-> Text(""), indented |-> FALSE]>>
Section(name, items, FieldsOf(_)) ==
  <<[kind |-> "header", key |-> name, value |-> [form |-> "empty", is |-> ""], indented |-> FALSE]>>
  \o FlattenSeq([i \in DOMAIN items |-> ItemLines(FieldsOf(items[i])) \o Comment])
AsLines(contract, idFirst) ==
  LET with(id, fields) == IF idFirst THEN <<<<"id", Text(id)>>>> \o fields ELSE Append(fields, <<"id", Text(id)>>)
      between(from, to) == <<<<"fromLayer", Text(from)>>, <<"toLayer", Text(to)>>>>
  IN Section("allowed", contract.allowed, LAMBDA p : between(p[1], p[2]))
     \o Section("layers", contract.layers, LAMBDA l : with(l.id, <<<<"paths", [form |-> "list", is |-> l.paths]>>>>))
     \o Section("forbidden", contract.forbidden, LAMBDA r : with(r.id, between(r.from, r.to)))
==============================================================================
