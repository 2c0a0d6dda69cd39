---------------------------- MODULE Relationships ----------------------------
(***************************************************************************)
(* discoverRelationships: what the components of a project are to each     *)
(* other, read off the files' names, imports and signals, and              *)
(* discoverDomains, the product domains that the names speak of.           *)
(*                                                                         *)
(* A file is [path, says, class, refs, injects, calls, implements]: says   *)
(* are the roles whose pattern its path matches, class the name its text   *)
(* declares.  A name is a sequence of words.  Confidences are in           *)
(* thousandths until they are rounded to hundredths.                       *)
(***************************************************************************)
EXTENDS Dependencies

CONSTANT Lexicon  \* DOMAIN_LEXICON: word |-> domain

Paths(files) == [i \in DOMAIN files |-> files[i].path]
At(files, path) == files[SelectInSeq(files, LAMBDA f : f.path = path)]

\* ROLE_PATH_PATTERNS in their order; classifyRoleFromPath takes the first that matches.
RoleOrder == <<"Module", "Configuration", "Controller", "Service", "Repository", "Database",
               "Route", "Widget", "Bloc", "EntryPoint", "API">>
Role(f) == IF f.says = {} THEN "none" ELSE Head(SelectSeq(RoleOrder, LAMBDA r : r \in f.says))
Name(f) == IF f.class # <<>> THEN f.class ELSE Last(Strip(f.path))

FeatureStop == {"src", "lib", "app", "apps", "packages", "services", "modules", "controllers",
  "controller", "service", "repositories", "repository", "routes", "config", "main", "java", "kotlin"}

\* featureNameFromPath: the outermost folder that says something; <<>> is none.
FeatureName(path) ==
  FirstOf(Dir(path), LAMBDA s : Len(s) = 1 /\ Head(s) \notin FeatureStop)

Rule(source, target, kind, base, strength) ==
  [source |-> source, target |-> target, kind |-> kind, base |-> base, strength |-> strength]

\* ROLE_PAIR_RULES between roles that a file can have.
RolePairRules == {
  Rule("Controller", "Service", "USES", 960, "medium"), Rule("Service", "Repository", "USES", 950, "medium"),
  Rule("Repository", "Database", "USES", 940, "medium"), Rule("Route", "Controller", "EXPOSES", 930, "medium"),
  Rule("Widget", "Bloc", "USES", 920, "medium"), Rule("Bloc", "Repository", "USES", 910, "medium"),
  Rule("API", "Service", "CALLS", 900, "medium"), Rule("Module", "Configuration", "CONFIGURES", 900, "medium"),
  Rule("Module", "Controller", "PROVIDES", 880, "medium"), Rule("Module", "Service", "PROVIDES", 880, "medium"),
  Rule("Service", "Service", "CALLS", 800, "weak"), Rule("Controller", "Repository", "USES", 840, "weak")}

Boost == [strong |-> 30, medium |-> 0, weak |-> -50]
Stronger(s, t) == IF Boost[s] >= Boost[t] THEN s ELSE t
Rounded(value) == IF value > 990 THEN 99 ELSE (value + 5) \div 10
Score(base, strength, evidence, injected) ==
  Rounded(base + Boost[strength] + (IF injected THEN 20 ELSE 0) + 5 * Min({evidence - 1, 3}))

Relation(source, kind, target, confidence, strength, evidence) ==
  [source |-> source, relationship |-> kind, target |-> target, confidence |-> confidence,
   strength |-> strength, evidence |-> evidence]

---------------------------------------------------------------------------
\* DEPENDS_ON, from the dependencies between modules
Depends(dependencies) ==
  LET strength(d) == CASE d.type = "dynamic-import" -> "weak" [] d.type = "package" -> "strong" [] OTHER -> "medium"
  IN {Relation(d.from, "DEPENDS_ON", d.to,
               Score(10 * Min({Sure(d.type), 95}), strength(d), 1, FALSE), strength(d), {d.type}) :
        d \in dependencies}

Mentions(names, t) == Name(t) \in names \/ \E n \in names : Len(n) = 1 /\ Has(t.path, Head(n))

\* What an import says of the two components, and of their features.
ImportRelation(f, t, rule, injected, called) ==
  LET kind == IF called /\ rule.kind = "USES" THEN "CALLS" ELSE rule.kind
      sure == IF injected THEN "strong" ELSE rule.strength
      strength == IF kind # rule.kind THEN Stronger(sure, "medium") ELSE sure
      evidence == {<<"imports", Last(t.path)>>, <<"roles", Role(f), Role(t)>>}
                    \cup (IF injected THEN {<<"injects">>} ELSE {})
                    \cup (IF called THEN {<<"calls", Name(t)>>} ELSE {})
  IN Relation(Name(f), kind, Name(t), Score(rule.base, strength, Cardinality(evidence), injected),
              strength, evidence)
Imported(f, t) ==
  {ImportRelation(f, t, rule, Mentions(f.injects, t), Name(t) \in f.calls) :
     rule \in {r \in RolePairRules : r.source = Role(f) /\ r.target = Role(t)}}

Consumed(f, t) ==
  {Relation(FeatureName(f.path), "CONSUMES", FeatureName(t.path), Score(820, "medium", 1, FALSE),
            "medium", {<<"from", f.path, t.path>>}) :
     r \in {s \in Imported(f, t) : s.relationship \in {"USES", "CALLS"}
              /\ <<>> \notin {FeatureName(f.path), FeatureName(t.path)}
              /\ FeatureName(f.path) # FeatureName(t.path)}}

Configured(f, t) ==
  {Relation(Name(g), "CONFIGURES", Name(t), 92, "strong", {<<"imports", Last(t.path)>>, <<"wiring">>}) :
     g \in {h \in {f} : Role(h) = "Module" /\ Role(t) = "Configuration"}}

\* The files that f's references name, as the relationships resolve them.
Named(files, f) ==
  {At(files, path) : path \in {ResolveSpecifier(Paths(files), f.path, ref) : ref \in ExtractReferences(f.path, f.refs)} \ {Null}}

FromText(files) ==
  UNION {UNION {Imported(f, t) \cup Consumed(f, t) \cup Configured(f, t) : t \in Named(files, f)}
           \cup {Relation(Name(f), "IMPLEMENTS", n, Score(970, "strong", 1, FALSE), "strong",
                          {<<"implements", n>>, <<"in", f.path>>}) : n \in f.implements} :
         f \in {g \in ToSet(files) : Role(g) # "none"}}

\* What a file's place says of its feature and its package.
Contained(f, manifests) ==
  LET feature == FeatureName(f.path)
      owners == {m \in manifests : IF m = <<>> THEN Len(f.path) = 1 ELSE IsStrictPrefix(m, f.path)}
      label(m) == IF m = <<>> THEN <<"RootPackage">> ELSE Last(m)
      within == Relation(feature, "CONTAINS", Name(f), Score(860, "strong", 1, FALSE), "strong", {<<"under", f.path>>})
  IN {r \in {within} : feature \notin {<<>>, Name(f)}}
     \cup {IF Role(f) = "Module"
           THEN Relation(label(m), "CONTAINS", Name(f), 90, "strong", {<<"package", f.path>>})
           ELSE Relation(label(m), "OWNS", feature, 88, "strong", {<<"owns", f.path>>}) :
             m \in {n \in owners : Role(f) = "Module" \/ feature # <<>>}}

\* Its feature provides the domains that its words speak of.
Provided(f, domains) ==
  LET spoken == {Lexicon[w] : w \in {v \in DOMAIN Lexicon : Has(Strip(f.path), v)}} IN
  {Relation(FeatureName(f.path), "PROVIDES", <<d.name>>, Score(Min({10 * d.confidence, 900}), "medium", 1, FALSE),
            "medium", {<<"token", f.path, d.name>>}) :
     d \in {e \in domains : e.name \in spoken /\ FeatureName(f.path) # <<>>}}

FromPlace(files, manifests, domains) ==
  UNION {Contained(f, manifests) \cup Provided(f, domains) : f \in {g \in ToSet(files) : Role(g) # "none"}}

Entered(files, entrypoints) ==
  {LET own == SelectSeq(files, LAMBDA f : f.path = e.file /\ Role(f) # "none") IN
   Relation(IF own # <<>> THEN Name(Head(own)) ELSE Last(Strip(e.file)), "ENTERS", FeatureName(e.file),
            Score(10 * Min({e.confidence, 92}), "medium", Cardinality(e.evidence), FALSE), "medium",
            {<<"entrypoint", e.file>>}) :
     e \in {d \in entrypoints : FeatureName(d.file) # <<>>}}

---------------------------------------------------------------------------
SameEnds(r, s) == r.source = s.source /\ r.target = s.target /\ r.relationship = s.relationship
Opposite(r, s) == r.source = s.target /\ r.target = s.source

\* addRelationship: what speaks for the same relationship adds up.
Bucket(relations) ==
  {LET same == {s \in relations : SameEnds(r, s)} IN
   [r EXCEPT !.confidence = Max({s.confidence : s \in same}),
             !.strength = CHOOSE t \in {s.strength : s \in same} : \A s \in same : Boost[t] >= Boost[s.strength],
             !.evidence = UNION {s.evidence : s \in same}] :
     r \in {s \in relations : s.source # s.target}}

TwoWay == {"USES", "CALLS", "DEPENDS_ON", "PROVIDES", "CONSUMES"}

\* The relationships that r marks, going over the bucket once it is full.
Marks(bucket, r) ==
  LET back == {s \in bucket : Opposite(r, s)}
      same == {s \in back : s.relationship = r.relationship}
      marked == IF same # {} THEN same ELSE {s \in back : s.relationship \in TwoWay}
  IN IF marked = {} THEN {} ELSE marked \cup {r}

Marked(bucket, minConfidence) ==
  LET bothWays == UNION {Marks(bucket, r) : r \in bucket} IN
  {[source |-> r.source, relationship |-> r.relationship, target |-> r.target, confidence |-> r.confidence,
    strength |-> r.strength, evidence |-> r.evidence, bidirectional |-> r \in bothWays] :
     r \in {s \in bucket : s.confidence >= minConfidence}}

DiscoverRelationships(files, manifests, dependencies, entrypoints, domains, minConfidence) ==
  Marked(Bucket(Depends(dependencies) \cup FromText(files) \cup FromPlace(files, manifests, domains)
                  \cup Entered(files, entrypoints)), minConfidence)

\* discoverDomains, scored by the files that speak of a domain and how often they do.
Speaking(paths, d) ==
  LET hits(words) == Cardinality({i \in DOMAIN words : words[i] \in DOMAIN Lexicon /\ Lexicon[words[i]] = d})
  IN {e \in {[path |-> p, hits |-> hits(FlattenSeq(Strip(p)))] : p \in paths} : e.hits > 0}
DomainScore(files, hits) == (450 + 60 * Min({files, 8}) + Min({(50 * hits) \div files, 150}) + 5) \div 10
Domain(d, evidence) ==
  [name |-> d, evidence |-> {e.path : e \in evidence},
   confidence |-> Min({DomainScore(Cardinality(evidence), MapThenSumSet(LAMBDA e : e.hits, evidence)), 100})]
DiscoverDomains(paths) ==
  {Domain(d, Speaking(paths, d)) : d \in {Lexicon[w] : w \in {v \in DOMAIN Lexicon : Speaking(paths, Lexicon[v]) # {}}}}

---------------------------------------------------------------------------
\* What a project's files, its manifests and its entrypoints come to.
Depended(files, manifests) ==
  DiscoverDependencies(LoadPackages(Paths(files), manifests), [path \in ToSet(Paths(files)) |-> At(files, path).refs])
Understood(files, manifests, entrypoints, minConfidence) ==
  DiscoverRelationships(files, {m.root : m \in {n \in ToSet(manifests) : n.kind = "package.json"}},
                        Depended(files, manifests), entrypoints,
                        DiscoverDomains(ToSet(Paths(files))), minConfidence)

\* A relationship that is marked as going both ways has one back that is marked
\* too, and two that go opposite ways and may be one connection are marked.  The
\* features' relationships are those of their components: one consumes another
\* only where a component of the first uses or calls one of the second, that
\* they are said to contain, all of it sure enough to be reported.
Agree(all) ==
  LET found == {r \in all : r.confidence >= 75}
      holds(feature, name) == feature = name \/ \E s \in found :
        s.relationship = "CONTAINS" /\ s.source = feature /\ s.target = name
  IN /\ \A r \in all :
          LET back == {s \in all : Opposite(r, s)} IN
          /\ r.bidirectional => \E s \in back : s.bidirectional
          /\ r.relationship \in TwoWay =>
               \A s \in back : s.relationship \in TwoWay => r.bidirectional /\ s.bidirectional
     /\ \A r \in found : r.relationship = "CONSUMES" =>
          \E s \in found : s.relationship \in {"USES", "CALLS"} /\ holds(r.source, s.source) /\ holds(r.target, s.target)
RelationsAgree(files, manifests, entrypoints) == Agree(Understood(files, manifests, entrypoints, 0))
=============================================================================
