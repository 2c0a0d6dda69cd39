------------------------------ MODULE Scanning -------------------------------
(***************************************************************************)
(* What an agent may take in: the rules that report environment files,     *)
(* keys, generated directories and logs that an agent's ignore files and   *)
(* denials do not keep from it, the plan that `fix` makes of the findings, *)
(* and what its writers add to those files. Then from what the rules       *)
(* report to the exit code: runRules, dedupeFindings,                      *)
(* computeReadinessScores, compareFindings, evaluatePolicy and the scan    *)
(* and verify commands.                                                    *)
(*                                                                         *)
(* A repository is [agents, ignores, claude, codex, files, skipped, php]:  *)
(* ignores has, of each kind, the ignore files as [dir, patterns], the     *)
(* root's first; claude and codex are [text, ...] with the text's state    *)
(* and what it denies.  A path is a sequence of names; a pattern is [not,  *)
(* rooted, segs, dir], for a leading ! and / and a trailing /.             *)
(*                                                                         *)
(* A draft is what a rule reports: [rule, place, title, severity, agents]; *)
(* place is the evidence's <<path, detail>>. Points are in hundredths and  *)
(* exact: the code's doubles may round an exact half down, which takes     *)
(* more than five infos.                                                   *)
(***************************************************************************)
EXTENDS Integers, Sequences, FiniteSets, TLC, SequencesExt, FiniteSetsExt

CONSTANTS
  Words(_),    \* the words that a name is put together from
  LogNames,    \* the names of logs and dumps
  Rules,
  Category,    \* the category of each rule
  Agents,
  Severities,  \* {"info", "warning", "critical"}
  Absent

Pattern(segs, dir) == [not |-> FALSE, rooted |-> FALSE, segs |-> segs, dir |-> dir]
Name(path) == Last(path)
Within(path, segs) == IsPrefix(segs, path)

RECURSIVE GlobMatch(_, _)
\* A * is any name, a ** any names, but not none.
GlobMatch(path, segs) ==
  IF segs = <<>> \/ path = <<>> THEN segs = path
  ELSE IF Head(segs) = "**"
       THEN \E n \in 1..Len(path) : GlobMatch(SubSeq(path, n + 1, Len(path)), Tail(segs))
       ELSE Head(segs) \in {"*", Head(path)} /\ GlobMatch(Tail(path), Tail(segs))

\* matchIgnorePattern; a / in front of a directory is kept, and no path has one.
MatchIgnorePattern(path, pattern) ==
  LET segs == pattern.segs IN
  CASE pattern.dir /\ pattern.rooted -> FALSE
    [] pattern.dir /\ Len(segs) = 1 ->
         \/ segs[1] \in ToSet(path)
         \/ GlobMatch(path, <<"**">> \o segs) \/ GlobMatch(path, <<"**">> \o segs \o <<"**">>)
    [] pattern.dir -> Within(path, segs) \/ GlobMatch(path, segs) \/ GlobMatch(path, Append(segs, "**"))
    [] pattern.rooted -> GlobMatch(path, segs)
    [] Len(segs) > 1 ->
         GlobMatch(path, segs) \/ GlobMatch(path, Append(segs, "**")) \/ IsSuffix(segs, path) \/ Within(path, segs)
    [] OTHER -> segs[1] = "*" \/ segs[1] \in ToSet(path)

\* pathMatchesAny: the last pattern that matches says whether the path is ignored.
LastTakes(hits) == hits # <<>> /\ ~Last(hits).not
PathMatchesAny(path, patterns) == LastTakes(SelectSeq(patterns, LAMBDA p : MatchIgnorePattern(path, p)))

\* relativizeIgnorePatterns and buildRuleContext: the root's patterns, then the nested files'
Relativize(dir, pattern) ==
  IF dir = <<>> THEN pattern
  ELSE LET body == IF ~pattern.rooted /\ Len(pattern.segs) > 1 /\ Head(pattern.segs) = "**" THEN Tail(pattern.segs) ELSE pattern.segs
       IN [pattern EXCEPT !.rooted = FALSE, !.segs = dir \o body]
RootPatterns(repo, kind) == Head(repo.ignores[kind]).patterns
Patterns(repo, kind) ==
  FlattenSeq([i \in DOMAIN repo.ignores[kind] |->
    LET file == repo.ignores[kind][i] IN [j \in DOMAIN file.patterns |-> Relativize(file.dir, file.patterns[j])]])
Matches(repo, kind, path) == PathMatchesAny(path, Patterns(repo, kind))

---------------------------------------------------------------------------
SampleDirectoryNames == {"example", "examples", "fixture", "fixtures", "integration", "integrations", "mock", "mocks",
  "sample", "samples", "test", "tests", "testing", "testdata", "spec", "specs", "demo", "demos", "e2e", "bench",
  "benchmark", "benchmarks", "playground", "playgrounds", "sandbox", "sandboxes"}
StrongTestTokens == SampleDirectoryNames \ {"integration", "integrations"}
SourceCodeMarkerDirs == {"bin", "cmd", "internal", "lib", "pkg", "script", "scripts", "src"}

IsSampleOrTestSegment(name) ==
  IF Len(Words(name)) = 1 THEN Head(Words(name)) \in SampleDirectoryNames
  ELSE ToSet(Words(name)) \cap StrongTestTokens # {}
\* The last name of a path counts only if it is a directory's.
IsSampleOrTestPath(path, isFile) ==
  \E i \in 1..(Len(path) - (IF isFile THEN 1 ELSE 0)) : IsSampleOrTestSegment(path[i])
IsSourceNamedArtifactCollision(path) ==
  Name(path) \in {"build", "target", "vendor"} /\ ToSet(Front(path)) \cap SourceCodeMarkerDirs # {}
IsCheckedInGithubActionDist(path) ==
  Len(path) = 4 /\ SubSeq(path, 1, 2) = <<".github", "actions">> /\ Name(path) = "dist"

\* claudeDeniesPath: the path is named anywhere in the text of one of the settings.
SettingsTextDeniesPath(entries, path) ==
  \E e \in entries : (e.path = path /\ e.form \in {"file", "directory"}) \/ (e.path = <<Name(path)>> /\ e.form = "anywhere")
ClaudeDeniesPath(repo, path) ==
  SettingsTextDeniesPath(repo.claude.entries, path) \/ SettingsTextDeniesPath(repo.claude.local, path)
ConfigTextDeniesPath(repo, path) == path \in repo.codex.denies

\* Whether an agent's own means keep a path from it; copilot and windsurf have none.
Excluded(repo, agent, path) ==
  CASE agent \in {"cursor", "gemini-cli", "aider"} -> Matches(repo, agent, path)
    [] agent = "claude-code" -> ClaudeDeniesPath(repo, path)
    [] agent = "codex" -> ConfigTextDeniesPath(repo, path)
    [] OTHER -> FALSE
StillExposed(repo, agents, path) == {agent \in agents : ~Excluded(repo, agent, path)}

Finding(rule, path, agents, fixability) == [rule |-> rule, path |-> path, agents |-> agents, fixability |-> fixability]
\* Rules that report what is left exposed to some agent
Exposing(findings) == {f \in findings : f.agents # {}}

---------------------------------------------------------------------------
EnvKinds == ".env" :> "runtime" @@ ".env.local" :> "runtime" @@ ".env_old" :> "backup" @@ ".env.example" :> "template"

\* envFileExposureRule; git's ignores count for those that follow them, and
\* cursor passes over runtime files by itself.
EnvFileExposure(repo) ==
  LET kind(f) == EnvKinds[Name(f.path)]
      risky == {f \in repo.files : Name(f.path) \in DOMAIN EnvKinds /\ kind(f) # "template" /\ ~IsSampleOrTestPath(f.path, TRUE)}
      spared(f) == (IF Matches(repo, "git", f.path) THEN {"cursor", "gemini-cli", "aider"} ELSE {})
                   \cup (IF kind(f) = "runtime" THEN {"cursor"} ELSE {})
      found == {Finding("security/env-file-exposure", f.path,
                        StillExposed(repo, repo.agents, f.path) \ spared(f), "review") : f \in risky}
  IN IF repo.agents = {} THEN found ELSE Exposing(found)

PrivateKeyFile(repo) ==
  {Finding("security/private-key-file", f.path, repo.agents, "manual") :
     f \in {g \in repo.files : Name(g.path) \in {"id_rsa", "server.pem"} /\ ~IsSampleOrTestPath(g.path, TRUE)}}

Generated == {"dist", "build", "coverage", ".next", ".nuxt", ".svelte-kit", ".dart_tool", "target"}
GeneratedDirectory(repo) ==
  LET counts(d) ==
        /\ Name(d) \in Generated \cup (IF repo.php THEN {} ELSE {"vendor"})
        /\ ~IsSampleOrTestPath(d, FALSE) /\ ~IsSourceNamedArtifactCollision(d)
        /\ ~IsCheckedInGithubActionDist(d) /\ ~Matches(repo, "git", d)
  IN Exposing({Finding("context/generated-directory", d, StillExposed(repo, repo.agents, d), "safe") :
                 d \in {e \in repo.skipped : counts(e)}})

AllAgents == {"cursor", "claude-code", "codex", "copilot", "windsurf", "gemini-cli", "aider"}
LargeLogFile(repo) ==
  LET candidates == IF repo.agents = {} THEN AllAgents ELSE repo.agents
  IN Exposing({Finding("context/large-log-file", f.path, StillExposed(repo, candidates, f.path), "safe") :
                 f \in {g \in repo.files : Name(g.path) \in LogNames /\ g.large /\ ~Matches(repo, "git", g.path)}})

Findings(repo) == EnvFileExposure(repo) \cup PrivateKeyFile(repo) \cup GeneratedDirectory(repo) \cup LargeLogFile(repo)

---------------------------------------------------------------------------
Writable == {"cursor", "claude-code", "codex", "gemini-cli", "aider"}

\* A slip that a run must notice: the pattern is put under the root.
PatternForFinding_Rooted(f) == [Pattern(f.path, f.rule = "context/generated-directory") EXCEPT !.rooted = TRUE]

PatternForFinding(f) == Pattern(f.path, f.rule = "context/generated-directory")

\* buildFixPlan looks at the root's files only; what is excluded there already is skipped.
AlreadyExcluded(repo, agent, path) ==
  CASE agent = "claude-code" -> SettingsTextDeniesPath(repo.claude.entries, path)
    [] agent = "codex" -> ConfigTextDeniesPath(repo, path)
    [] OTHER -> PathMatchesAny(path, RootPatterns(repo, agent))

\* The findings that are not skipped for their rule
Fixable(repo) == {f \in Findings(repo) : f.fixability = "safe"}

\* The merged actions, one for each agent and pattern
Actions(repo) ==
  {[agent |-> pair[1], pattern |-> PatternForFinding(pair[2]), path |-> pair[2].path] :
     pair \in {q \in Writable \X Fixable(repo) :
       q[1] \in (q[2].agents \cap repo.agents) /\ ~AlreadyExcluded(repo, q[1], q[2].path)}}

\* assertWritableCodexConfig and buildClaudeSettingsContent refuse the whole plan.
Refused(repo, actions) ==
  \/ repo.codex.text \in {"sandbox", "builtin", "foreign"} /\ \E a \in actions : a.agent = "codex"
  \/ repo.claude.text = "invalid" /\ \E a \in actions : a.agent = "claude-code"

\* missingPatternsForIgnoreFile
MissingPatterns(existing, patterns) ==
  {p \in patterns : p \notin ToSet(existing) /\ ~PathMatchesAny(p.segs, existing)}

\* What the writers leave of a repository.
Written(repo, actions) ==
  LET wanted(agent) == {a \in actions : a.agent = agent}
      added(agent) == MissingPatterns(RootPatterns(repo, agent), {a.pattern : a \in wanted(agent)})
      ignores(kind) == IF kind = "git" THEN repo.ignores[kind]
                       ELSE [repo.ignores[kind] EXCEPT ![1].patterns = @ \o SetToSeq(added(kind))]
      denied == {[list |-> "deny", path |-> a.path, form |-> IF a.pattern.dir THEN "directory" ELSE "file"] : a \in wanted("claude-code")}
  IN IF Refused(repo, actions) THEN repo
     ELSE [repo EXCEPT !.ignores = [kind \in DOMAIN repo.ignores |-> ignores(kind)],
                       !.claude.entries = @ \cup denied,
                       !.codex.denies = @ \cup {a.path : a \in wanted("codex")}]
Fixed(repo) == Written(repo, Actions(repo))

---------------------------------------------------------------------------
\* Once a plan is carried out, no finding that has a fixer is left for an agent
\* that has one, but for a path that a pattern with a ! takes in again.
TakenIn(repo, agent, path) == agent \in DOMAIN repo.ignores
  /\ \E p \in ToSet(Patterns(repo, agent)) : p.not /\ MatchIgnorePattern(path, p)
Settled(repo) ==
  \A f \in Fixable(repo) : \A agent \in f.agents \cap repo.agents \cap Writable : TakenIn(repo, agent, f.path)
FixingSettles(repo) == ~Refused(repo, Actions(repo)) => Settled(Fixed(repo))

\* Fixing brings up nothing, and to fix again is to change nothing.
OnlyRemoved(repo, after) ==
  /\ \A g \in Findings(after) : \E f \in Findings(repo) : f.rule = g.rule /\ f.path = g.path /\ g.agents \subseteq f.agents
  /\ Fixed(after) = after
FixingOnlyRemoves(repo) == OnlyRemoved(repo, Fixed(repo))

---------------------------------------------------------------------------
Rank(severity) == CASE severity = "critical" -> 3 [] severity = "warning" -> 2 [] OTHER -> 1

\* runRules: a rule that throws reports nothing, the others all the same.
Selects(options, rule) ==
  IF options.include # {} THEN rule \in options.include ELSE rule \notin options.exclude

RunRules(reports, broken, options) ==
  UNION {reports[rule] : rule \in {r \in Rules \ broken : Selects(options, r)}}

Severest(drafts) ==
  CHOOSE s \in {d.severity : d \in drafts} : \A d \in drafts : Rank(s) >= Rank(d.severity)

\* dedupeFindings: one finding for a rule, a place and a title.
Key(draft) == [rule |-> draft.rule, place |-> draft.place, title |-> draft.title]

Dedupe(drafts) ==
  {LET alike == {d \in drafts : Key(d) = key} IN
     [rule |-> key.rule, place |-> key.place, title |-> key.title,
      severity |-> Severest(alike), agents |-> UNION {d.agents : d \in alike}] :
   key \in {Key(d) : d \in drafts}}

\* finalizeFinding: the title is no part of the id.
Id(finding) == <<finding.rule, finding.place>>

Base(severity) == CASE severity = "critical" -> 35 [] severity = "warning" -> 10 [] OTHER -> 2

DiminishingMultiplier(occurrence) ==
  CASE occurrence = 1 -> 100 [] occurrence = 2 -> 70 [] occurrence = 3 -> 50 [] OTHER -> 35

\* sumDeductions: findings are sorted by severity first, so its order is no matter.
SumDeductions(findings) ==
  LET Count(severity) == Cardinality({f \in findings : f.severity = severity})
      Of(severity) == Base(severity) * MapThenSumSet(DiminishingMultiplier, 1..Count(severity))
  IN Of("critical") + Of("warning") + Of("info")

Lower(m, n) == IF m < n THEN m ELSE n

\* clampScore
Clamp(points) == IF points < 0 THEN 0 ELSE Lower(100, (points + 50) \div 100)

ScoreSubset(findings) == Clamp(10000 - SumDeductions(findings))

\* applySecurityCaps
Capped(points, findings) ==
  LET criticals == Cardinality({f \in findings : Category[f.rule] = "security"
                                                 /\ f.severity = "critical"})
  IN CASE criticals >= 2 -> Lower(points, 4900)
       [] criticals = 1 -> Lower(points, 6900)
       [] OTHER -> points

Overall(findings) == Clamp(Capped(10000 - SumDeductions(findings), findings))
OfCategory(findings, category) == ScoreSubset({f \in findings : Category[f.rule] = category})
OfAgent(findings, agent) == ScoreSubset({f \in findings : agent \in f.agents})

\* scan
Scan(reports, broken, selection, agentsPresent) ==
  LET findings == Dedupe(RunRules(reports, broken, selection)) IN
  [findings |-> findings, overall |-> Overall(findings), limited |-> ~agentsPresent]

\* compareFindings, by id.
Compare(before, after) ==
  LET ids(findings) == {Id(f) : f \in findings} IN
  [fixed |-> ids(before) \ ids(after), remaining |-> ids(before) \cap ids(after),
   new |-> ids(after) \ ids(before)]

\* evaluatePolicy; an option that was not given is Absent, or {} for the rules.
Violations(result, new, options) ==
  {code \in {"minimum-score", "fail-on-severity", "fail-on-rule", "fail-on-new"} :
     CASE code = "minimum-score" ->
            options.minScore # Absent /\ (result.limited \/ result.overall < options.minScore)
       [] code = "fail-on-severity" ->
            /\ options.severity # Absent
            /\ \E f \in result.findings : Rank(f.severity) >= Rank(options.severity)
       [] code = "fail-on-rule" -> \E f \in result.findings : f.rule \in options.rules
       [] code = "fail-on-new" -> options.failOnNew /\ new # {}}

Exit(violations) == IF violations = {} THEN "SUCCESS" ELSE "ISSUES_OR_THRESHOLD"

\* runScanCommand: --ci asks for no critical, unless another severity was given.
ScanExit(result, options) ==
  Exit(Violations(result, {},
    [options EXCEPT !.failOnNew = FALSE,
       !.severity = IF @ = Absent /\ options.ci THEN "critical" ELSE @]))

\* loadBaselineFindings: a file that is missing, no report, or has an entry that is no
\* finding, is not usable.
\* runVerifyCommand: --ci asks for nothing new.
VerifyExit(baseline, result, options) ==
  IF ~baseline.usable THEN "USAGE_ERROR"
  ELSE Exit(Violations(result, Compare(baseline.findings, result.findings).new,
         [options EXCEPT !.failOnNew = @ \/ options.ci]))

---------------------------------------------------------------------------
\* Named baselines. A fingerprint has the path of a place and not its detail: findings that
\* dedupeFindings keeps apart may share one.
Fingerprint(finding) == <<finding.rule, finding.severity, finding.place[1], finding.title>>

PlainCharacters == {"a", "b", "_", "-", "."}
SafeBaselineName(name) == [i \in DOMAIN name |-> IF name[i] \in PlainCharacters THEN name[i] ELSE "_"]
IsName(name) == SafeBaselineName(name) \notin {<<>>, <<".">>, <<".", ".">>}

\* baselineFromScan; at is createdAt.
BaselineFromScan(name, findings, at) ==
  LET count(severities) == Cardinality({f \in findings : f.severity \in severities}) IN
  [name |-> name, at |-> at, ids |-> {Id(f) : f \in findings}, prints |-> {Fingerprint(f) : f \in findings},
   counts |-> [total |-> count(Severities), critical |-> count({"critical"}),
               warning |-> count({"warning"}), info |-> count({"info"})]]

\* The directory: by the safe name of a file what it holds, <<>> for what is no baseline.
\* A name that cannot be made safe throws, and so do a baseline that is corrupt or, when
\* it is to be deleted, missing.
SaveNamedBaseline(store, baseline) ==
  IF IsName(baseline.name) THEN SafeBaselineName(baseline.name) :> <<baseline>> @@ store ELSE store
DeleteNamedBaseline(store, name) == [safe \in DOMAIN store \ {SafeBaselineName(name)} |-> store[safe]]
LoadNamedBaseline(store, name) ==
  LET safe == SafeBaselineName(name) there == safe \in DOMAIN store IN
  [thrown |-> ~IsName(name) \/ (there /\ store[safe] = <<>>), found |-> IF there THEN store[safe] ELSE <<>>]
ListNamedBaselines(store) == DOMAIN store

CompareToBaseline(baseline, findings) ==
  LET prints == {Fingerprint(f) : f \in findings} IN
  [added |-> prints \ baseline.prints, removed |-> baseline.prints \ prints, recurring |-> prints \cap baseline.prints]

\* computeBaselineTrends; no two baselines were made in one millisecond.
ComputeBaselineTrends(store) ==
  LET points == SetToSortSeq({store[n][1] : n \in {m \in ListNamedBaselines(store) : ~LoadNamedBaseline(store, m).thrown}},
                             LAMBDA p, q : p.at < q.at)
      delta(p, q) == [from |-> p.name, to |-> q.name, total |-> q.counts.total - p.counts.total,
                      critical |-> q.counts.critical - p.counts.critical]
  IN [points |-> points, deltas |-> [i \in 1..(Len(points) - 1) |-> delta(points[i], points[i + 1])]]

---------------------------------------------------------------------------
\* An agent's instructions are [file, blank, large, marked, years, refs, tone, terms]: what
\* their text has of TODOs, years, paths, always and never, and words for the project.
\* A context is [instructions, ignores, there], in the order they are looked for, with the
\* files there are; an ignore file is [file, blank].
Conflict(kind, files, of) == [kind |-> kind, files |-> files, of |-> of]

\* The paths a text refers to, without a leading ./ and but for installed packages.
PathReferences(text) ==
  {r \in {IF Head(ref) = "." THEN Tail(ref) ELSE ref : ref \in text.refs} : Head(r) # "node_modules"}

TextConflicts(text, there, year) ==
  LET alone(kind, holds) == IF holds THEN {Conflict(kind, {text.file}, Absent)} ELSE {} IN
  IF text.blank THEN alone("empty-instruction-file", TRUE)
  ELSE alone("oversized-instruction-file", text.large) \cup alone("ambiguous-marker", text.marked)
       \cup alone("outdated-year-reference", \E y \in text.years : y \in 2000..2023 /\ y < year - 1)
       \cup {Conflict("invalid-path-reference", {text.file}, ref) : ref \in PathReferences(text) \ there}

Several(kind, files) == IF Cardinality(files) >= 2 THEN {Conflict(kind, files, Absent)} ELSE {}
HasContradictoryTone(s, t) ==
  /\ ~s.blank /\ ~t.blank
  /\ ("always" \in s.tone /\ "never" \in t.tone) \/ ("never" \in s.tone /\ "always" \in t.tone)
Terminology(texts) ==
  LET read == {t \in texts : ~t.blank} IN
  IF {"repo", "repository"} \subseteq UNION {t.terms : t \in read}
  THEN Several("terminology-inconsistency", {t.file : t \in {u \in read : u.terms \cap {"repo", "repository"} # {}}})
  ELSE {}

AnalyzeContextHealth(context, year) ==
  LET texts == ToSet(context.instructions)
      ignores == ToSet(context.ignores)
  IN UNION {TextConflicts(t, context.there, year) : t \in texts}
     \cup Several("duplicate-instruction-surface", {t.file : t \in texts})
     \cup Several("overlapping-ignore", {f.file : f \in ignores})
     \cup Terminology(texts)
     \cup {Conflict("contradictory-tone", {p[1].file, p[2].file}, Absent) :
             p \in {q \in texts \X texts : q[1] # q[2] /\ HasContradictoryTone(q[1], q[2])}}
     \cup {Conflict("unused-ignore-candidate", {f.file}, Absent) : f \in {g \in ignores : g.blank}}

---------------------------------------------------------------------------
\* What has been fixed never costs: with one report less, of a lesser severity or for
\* fewer agents, no score falls and no gate closes that was open.  It takes the factors
\* of the score, its caps, the merging of like reports and the gates together.
FixingNeverCosts(drafts, baseline, allOptions) ==
  LET Result(from) == LET findings == Dedupe(from) IN
                      [findings |-> findings, overall |-> Overall(findings), limited |-> FALSE]
      now == Result(drafts)
  IN \A d \in drafts :
       \A less \in {{}} \cup {{[d EXCEPT !.severity = s]} : s \in {t \in Severities : Rank(t) < Rank(d.severity)}} :
         LET then == Result((drafts \ {d}) \cup less) IN
         /\ then.overall >= now.overall
         /\ \A c \in {Category[r] : r \in Rules} : OfCategory(then.findings, c) >= OfCategory(now.findings, c)
         /\ \A a \in Agents : OfAgent(then.findings, a) >= OfAgent(now.findings, a)
         /\ \A options \in allOptions :
              /\ ScanExit(now, options) = "SUCCESS" => ScanExit(then, options) = "SUCCESS"
              /\ VerifyExit(baseline, now, options) = "SUCCESS" =>
                   VerifyExit(baseline, then, options) = "SUCCESS"

\* The overall score is no better than that of any category or agent, and scan --ci
\* never passes what a rule that ran called critical, whichever rules throw (broken).
NothingHides(reports, broken, selection) ==
  LET result == Scan(reports, broken, selection, TRUE)
      plain == [ci |-> TRUE, minScore |-> Absent, severity |-> Absent, rules |-> {}, failOnNew |-> FALSE]
  IN /\ \A r \in Rules : result.overall <= OfCategory(result.findings, Category[r])
     /\ \A a \in Agents : result.overall <= OfAgent(result.findings, a)
     /\ ScanExit(result, plain) = "SUCCESS" =>
          \A r \in Rules \ broken : Selects(selection, r) =>
            \A d \in reports[r] : d.severity # "critical"

\* After some saves, deletions and damages, what was saved last under a name is what it
\* loads, unless that was damaged, and every name that is listed loads itself; a baseline
\* finds nothing new in its own findings, two compare to each other's mirror image, and the
\* trend counts as many more findings as the comparison finds more added than removed, unless
\* findings of one of them share a fingerprint, which the comparison takes for one.
Stored(operations) ==
  LET apply(store, i) ==
        LET o == operations[i] IN
        CASE o.kind = "save" -> SaveNamedBaseline(store, BaselineFromScan(o.name, o.findings, i))
          [] o.kind = "delete" -> DeleteNamedBaseline(store, o.name)
          [] o.kind = "damage" -> IF SafeBaselineName(o.name) \in DOMAIN store
                                  THEN SafeBaselineName(o.name) :> <<>> @@ store ELSE store
  IN FoldLeft(apply, <<>>, [i \in DOMAIN operations |-> i])
BaselinesAreKept(operations) ==
  LET store == Stored(operations)
      made(i) == BaselineFromScan(operations[i].name, operations[i].findings, i)
      last(i) == \A j \in (i + 1)..Len(operations) :
                   SafeBaselineName(operations[j].name) # SafeBaselineName(operations[i].name)
      trends == ComputeBaselineTrends(store)
      saves == {i \in DOMAIN operations : operations[i].kind = "save"}
  IN /\ \A i \in saves : last(i) /\ IsName(operations[i].name) =>
          LoadNamedBaseline(store, operations[i].name) = [thrown |-> FALSE, found |-> <<made(i)>>]
     /\ \A n \in ListNamedBaselines(store) : LoadNamedBaseline(store, n).found = store[n]
     /\ \A i, j \in saves :
          LET there == CompareToBaseline(made(i), operations[j].findings)
              back == CompareToBaseline(made(j), operations[i].findings)
          IN there.added = back.removed /\ there.recurring = back.recurring
             /\ (i = j => there.added = {} /\ there.removed = {})
     /\ \A k \in DOMAIN trends.deltas :
          LET change == CompareToBaseline(trends.points[k], operations[trends.points[k + 1].at].findings)
              apart == \A p \in {trends.points[k], trends.points[k + 1]} : Cardinality(p.prints) = p.counts.total
          IN apart => trends.deltas[k].total = Cardinality(change.added) - Cardinality(change.removed)

\* A file that is made settles what is said of its absence and nothing else; instructions
\* that are taken away take no more than their own conflicts with them and bring none; and
\* nothing depends on the order in which they are looked for.
ConflictsSettle(context, year) ==
  LET told == AnalyzeContextHealth(context, year)
      covers(c, d) == c.kind = d.kind /\ c.of = d.of /\ d.files \subseteq c.files
  IN /\ \A ref \in UNION {PathReferences(t) : t \in ToSet(context.instructions)} :
          AnalyzeContextHealth([context EXCEPT !.there = @ \cup {ref}], year) = {c \in told : c.of # ref}
     /\ \A gone \in ToSet(context.instructions) :
          LET less == AnalyzeContextHealth([context EXCEPT !.instructions = SelectSeq(@, LAMBDA t : t # gone)], year) IN
          /\ \A d \in less : gone.file \notin d.files /\ \E c \in told : covers(c, d)
          /\ \A c \in told : gone.file \notin c.files => c \in less
     /\ AnalyzeContextHealth([context EXCEPT !.instructions = Reverse(@)], year) = told
==============================================================================
