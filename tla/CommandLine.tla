---------------------------- MODULE CommandLine ----------------------------
(***************************************************************************)
(* The command line: which command takes a flag, what the command's        *)
(* handler is given, and with which code the process ends (cli/program.ts, *)
(* cli/safe-root.ts, cli/commands).                                        *)
(*                                                                         *)
(* A command is its path under agentdoctor, <<>> being agentdoctor itself. *)
(* Of its flags a command lists those that an ancestor may declare too,    *)
(* the others always reach it; needs are the options it requires.          *)
(*                                                                         *)
(* The outcomes of a handler's work are these, of which it has the ones it *)
(* lists; what it throws and does not catch is for runCli:                 *)
(*   done      it was done                                                 *)
(*   issues    it was done, and what was looked at is not well             *)
(*   missing   an argument or a record it needs is not there or is no use  *)
(*   refused   it takes an approval, or a mode, that it does not have      *)
(*   failed    it reports a failure of its own                             *)
(*                                                                         *)
(* And the commands that AgentDoctor runs or explains (enforcement/        *)
(* runner.ts), from a text or its words to what is started.  A text and a  *)
(* word are sequences of characters; a request is [argv, text, execute,    *)
(* shell], the world [blocked, asked, outside, windows, npm, cli]: the     *)
(* texts that a policy blocks or wants to be approved, the words that lead *)
(* out of the root, and where npm is.                                      *)
(***************************************************************************)
EXTENDS TLC, Naturals, Sequences, FiniteSets, SequencesExt

Success == 0
IssuesOrThreshold == 1
UsageError == 2
InternalError == 3

Caught == [done |-> Success, thrown |-> InternalError]
Uncaught == [done |-> Success]
Looking == "missing" :> UsageError
Judging == "issues" :> IssuesOrThreshold
Telling == "issues" :> Success

Products ==
  {"requirements", "api", "database", "events", "dependency", "health-code", "map", "decisions",
   "forensic", "twin", "eval-lab", "self-check", "infra", "incident", "security-doctor",
   "privacy-doctor", "tech-debt", "features", "evolution", "org", "test-brain"}

---------------------------------------------------------------------------
ScanAnswers(path) == Caught @@ Judging
VerifyAnswers(path) == Caught @@ Judging @@ Looking
ExplainAnswers(path) == Uncaught @@ Looking
\* A cancelled fix, and one that finds a file it must not touch, is refused.
FixAnswers(path) == Caught @@ ("refused" :> UsageError) @@ ("failed" :> InternalError)
UndoAnswers(path) == IF path = <<"fix-undo">> THEN Caught ELSE Uncaught

LocalAnswers(path) == IF path = <<"secrets">> THEN Uncaught @@ Judging ELSE Uncaught
PackageAnswers(path) == Uncaught
\* Whatever is thrown, a baseline that cannot be read or a scan that breaks, ends as a
\* usage error, and so it does for the dashboard.
BaselineAnswers(path) == [done |-> Success, missing |-> UsageError, thrown |-> UsageError]
DashboardAnswers(path) == [thrown |-> UsageError]

SurfaceAnswers(path) == Caught @@ Looking
TeamAnswers(path) == IF path = <<"enforce">> THEN Caught @@ Telling ELSE Caught @@ Looking
InitAnswers(path) == Uncaught
ImpactAnswers(path) == Caught
\* A session that is not there is printed as such.
SessionAnswers(path) == Caught @@ Telling

ChangeAnswers(path) == Caught
EvidenceAnswers(path) ==
  CASE path \in {<<"evidence", "verify">>, <<"proof", "verify">>} -> Uncaught @@ Judging
    [] path = <<"proof", "build">> -> Caught
    [] OTHER -> Uncaught @@ Looking

GraphAnswers(path) == Caught
PolicyAnswers(path) == Caught @@ Telling
WorkspaceAnswers(path) ==
  IF path \in {<<"workspace", "status">>, <<"workspace", "remove">>} THEN Caught @@ Judging ELSE Caught @@ Looking
ArchitectureAnswers(path) == IF path = <<"architecture", "check">> THEN Caught @@ Judging ELSE Caught
BrainAnswers(path) == Caught @@ Looking
PlatformAnswers(path) ==
  CASE path \in {<<"platform", "policy-check">>, <<"platform", "firewall-check">>} -> Caught @@ Telling
    [] OTHER -> Caught @@ Looking

\* A role's coding loop that fails, or is refused, is reported and no more.
ProductAnswers(path) ==
  IF path = <<"role-agent">> THEN Caught @@ Looking @@ Telling ELSE Caught @@ Looking

\* A tool that failed is told in the JSON only.
AgentAnswers(path, json) ==
  [done |-> Success, missing |-> UsageError, refused |-> UsageError,
   failed |-> IF json THEN Success ELSE InternalError]
LearnAnswers(path) == Uncaught @@ ("missing" :> UsageError) @@ ("refused" :> UsageError) @@ ("failed" :> InternalError)
AskAnswers(path) == Caught @@ ("refused" :> UsageError) @@ ("failed" :> InternalError)
ChatAnswers(path) == Uncaught
PlanAnswers(path) == Uncaught

\* No project found is an error for the reader of the list only.
StartAnswers(path, json) ==
  IF path = <<"dna">> THEN Uncaught
  ELSE [done |-> Success, refused |-> UsageError, missing |-> IF json THEN Success ELSE UsageError]
DoctorAnswers(path, json) ==
  IF json THEN [done |-> Success, failed |-> InternalError] ELSE Uncaught
ServerAnswers(path) ==
  IF path = <<"brain-mcp">> THEN Caught @@ Looking @@ ("failed" :> InternalError) ELSE Uncaught

---------------------------------------------------------------------------
Name(path) == IF path = <<>> THEN "scan" ELSE path[1]

Answers(path, json) ==
  LET name == Name(path)
  IN CASE name = "scan" -> ScanAnswers(path)
       [] name = "verify" -> VerifyAnswers(path)
       [] name = "explain" -> ExplainAnswers(path)
       [] name = "fix" -> FixAnswers(path)
       [] name \in {"fix-undo", "fix-history"} -> UndoAnswers(path)
       [] name \in {"changes", "context-health", "secrets"} -> LocalAnswers(path)
       [] name \in {"packages", "pr-review", "plugins", "local-ai"} -> PackageAnswers(path)
       [] name = "baseline" -> BaselineAnswers(path)
       [] name = "dashboard" -> DashboardAnswers(path)
       [] name = "init" -> InitAnswers(path)
       [] name \in {"health", "c4", "refactor-impact", "knowledge", "knowledge-create", "knowledge-approve"} ->
            SurfaceAnswers(path)
       [] name \in {"enforce", "team-register", "team-login"} -> TeamAnswers(path)
       [] name \in {"impact", "test-impact", "report"} -> ImpactAnswers(path)
       [] name = "session" -> SessionAnswers(path)
       [] name = "change" -> ChangeAnswers(path)
       [] name \in {"evidence", "proof"} -> EvidenceAnswers(path)
       [] name = "graph" -> GraphAnswers(path)
       [] name \in {"policy", "run"} -> PolicyAnswers(path)
       [] name = "workspace" -> WorkspaceAnswers(path)
       [] name = "architecture" -> ArchitectureAnswers(path)
       [] name = "brain" -> BrainAnswers(path)
       [] name = "platform" -> PlatformAnswers(path)
       [] name \in Products \cup {"deps", "code-health", "memory", "search", "what-if", "role-agent"} ->
            ProductAnswers(path)
       [] name = "agent" -> AgentAnswers(path, json)
       [] name = "learn" -> LearnAnswers(path)
       [] name = "ask" -> AskAnswers(path)
       [] name = "chat" -> ChatAnswers(path)
       [] name = "plan" -> PlanAnswers(path)
       [] name \in {"start", "dna"} -> StartAnswers(path, json)
       [] name = "doctor" -> DoctorAnswers(path, json)
       [] name \in {"brain-mcp", "mcp"} -> ServerAnswers(path)

\* The commands whose handler refuses a root that is no directory or takes in a user's
\* whole folder (resolveCliProjectRoot and its copies in scan, fix and verify).
Gated(path) ==
  Name(path) \notin {"explain", "local-ai", "impact", "test-impact", "report", "session", "change",
                     "evidence", "proof", "policy", "run", "workspace", "doctor", "brain-mcp"}

\* The commands that report what they found and leave the code alone.
Verdicts ==
  {<<"enforce">>, <<"session">>, <<"policy", "check">>, <<"policy", "explain">>, <<"policy", "enforce">>,
   <<"run", "explain">>, <<"platform", "policy-check">>, <<"platform", "firewall-check">>, <<"role-agent">>}

---------------------------------------------------------------------------
Declared(path, flags, reads, needs) == [path |-> path, flags |-> flags, reads |-> reads, needs |-> needs]

\* Commands that read their own options, and commands that read optsWithGlobals().
Own(paths, flags, needs) == {Declared(path, flags, "own", needs) : path \in paths}
Global(paths, flags, needs) == {Declared(path, flags, "globals", needs) : path \in paths}
Top(names) == {<<name>> : name \in names}
Under(name, names) == {<<name, sub>> : sub \in names}
Group(name) == {Declared(<<name>>, {}, "nothing", {})}

Json == {"json"}
ScanFlags == {"json", "ci", "verbose", "min-score", "fail-on-severity", "fail-on-rule", "summary", "annotations"}

---------------------------------------------------------------------------
ScanCommands == Global({<<>>, <<"scan">>}, ScanFlags, {})
VerifyCommands == Global(Top({"verify"}), ScanFlags, {}) \cup Own(Top({"explain"}), {}, {})
FixCommands == Own(Top({"fix", "fix-undo"}), {}, {}) \cup Own(Top({"fix-history"}), Json, {})

BrainCommands ==
  Group("brain")
  \cup Global(Under("brain", {"init", "status", "inspect", "rebuild", "history", "search"}), Json, {})
  \cup Own(Under("brain", {"export", "import"}), {}, {"file"})
ProposalCommands ==
  Global(Under("brain", {"snapshot", "update", "proposals"}), Json, {})
  \cup Global(Under("brain", {"review"}), Json, {"artifact", "decision"})
  \cup Global(Top({"init"}), Json, {})

GraphCommands ==
  Global(Top({"graph"}), Json \cup {"mode"}, {})
  \cup Own(Under("graph", {"build", "update", "rebuild"}), Json \cup {"mode"}, {})
  \cup Own(Under("graph", {"status"}), Json, {})

ImpactCommands ==
  Global(Top({"health", "impact", "test-impact", "session", "report", "c4"}), Json, {})
  \cup Global(Top({"refactor-impact"}), Json, {"symbol"})

ArchitectureCommands ==
  Group("architecture") \cup Own(Under("architecture", {"init", "analyze", "check", "explain"}), Json, {})

TeamCommands ==
  Global(Top({"knowledge"}), Json, {})
  \cup Global(Top({"knowledge-create"}), Json, {"title", "content"})
  \cup Global(Top({"knowledge-approve"}), Json, {"id", "decision"})
  \cup Global(Top({"enforce"}), Json, {"command"})
  \cup Global(Top({"team-register", "team-login"}), Json, {"username", "password"})

ChangeCommands ==
  Group("change") \cup Own(Under("change", {"analyze", "verify", "explain", "diff", "status"}), Json, {})
ProofCommands ==
  Group("evidence") \cup Own(Under("evidence", {"inspect", "verify"}), Json, {})
  \cup Group("proof") \cup Own(Under("proof", {"build", "inspect", "explain", "verify"}), Json, {})
  \cup Own(Under("proof", {"export"}), Json, {"out"})

PolicyCommands ==
  Group("policy")
  \cup Own(Under("policy", {"check", "explain", "enforce"}), Json \cup {"fail-closed"}, {"command"})

\* The action of run takes its second argument for the command it is called with.
RunCommands ==
  {Declared(<<"run">>, {"shell", "timeout", "fail-closed", "json"}, "nothing", {})}
  \cup Own(Under("run", {"explain"}), {"shell", "fail-closed", "json"}, {"command"})

WorkspaceCommands ==
  Group("workspace") \cup Own(Under("workspace", {"list"}), Json, {})
  \cup Own(Under("workspace", {"init"}), Json, {"name"})
  \cup Own(Under("workspace", {"add"}), Json, {"id", "repo"})
  \cup Own(Under("workspace", {"status", "remove"}), Json, {"id"})

LocalCommands ==
  Own(Top({"changes", "context-health", "secrets", "packages", "pr-review", "plugins", "local-ai"}), Json, {})
  \cup Own(Top({"dashboard"}), {}, {})
BaselineCommands ==
  Group("baseline") \cup Own(Under("baseline", {"list", "trends"}), Json, {})
  \cup Own(Under("baseline", {"diff"}), Json, {"name"})
  \cup Own(Under("baseline", {"save", "delete"}), {}, {"name"})

AgentCommands ==
  Own(Top({"chat"}), {}, {}) \cup Global(Top({"ask"}), Json, {})
  \cup Own(Top({"plan", "agent", "learn"}), Json, {})

PlatformCommands ==
  Group("platform")
  \cup Global(Under("platform", {"scan", "graph", "test-impact", "policy-check", "firewall-check"}), Json, {})
  \cup Global(Under("platform", {"session-list", "demo-session", "context"}), Json, {})
SessionCommands ==
  Global(Under("platform", {"session-show"}), Json, {"session"})
  \cup Global(Under("platform", {"provenance"}), Json, {"path"})
  \cup Global(Under("platform", {"refactor"}), Json, {"symbol"})
  \cup Global(Under("platform", {"time-machine"}), Json, {"left", "right"})

StartCommands == Own(Top({"start", "dna"}), Json, {})
ProductCommands ==
  Global(Top(Products \cup {"deps", "code-health"}), Json, {})
QueryCommands ==
  Global(Top({"memory", "search", "what-if"}), Json, {})
  \cup Own(Top({"role-agent"}), Json, {"role", "goal"})
ServerCommands ==
  Global(Top({"doctor"}), Json, {}) \cup Own(Top({"brain-mcp", "mcp"}), {}, {"root"})

Commands ==
  ScanCommands \cup VerifyCommands \cup FixCommands \cup BrainCommands \cup ProposalCommands
  \cup GraphCommands \cup ImpactCommands \cup ArchitectureCommands \cup TeamCommands
  \cup ChangeCommands \cup ProofCommands \cup PolicyCommands \cup RunCommands
  \cup WorkspaceCommands \cup LocalCommands \cup BaselineCommands \cup AgentCommands
  \cup PlatformCommands \cup SessionCommands \cup StartCommands \cup ProductCommands
  \cup QueryCommands \cup ServerCommands

---------------------------------------------------------------------------
\* agentdoctor, the groups above a command, and the command.
Chain(command) ==
  {ancestor \in Commands :
     /\ Len(ancestor.path) <= Len(command.path)
     /\ ancestor.path = SubSeq(command.path, 1, Len(ancestor.path))}
Outermost(commands) ==
  CHOOSE c \in commands : \A other \in commands : Len(c.path) <= Len(other.path)

\* The outermost command that declares a flag takes it, wherever it is written.
Known(command, flag) == \E c \in Chain(command) : flag \in c.flags
Taker(command, flag) == Outermost({c \in Chain(command) : flag \in c.flags})

\* The flags of a line that the command's handler reads.
Sees(command, given) ==
  {flag \in given : /\ flag \in command.flags
                    /\ \/ command.reads = "globals"
                       \/ command.reads = "own" /\ Taker(command, flag) = command}

\* A line: the command, its flags, which required options it has, and help.
Misused(line) ==
  \/ \E flag \in line.given : ~Known(line.command, flag)
  \/ ~(line.command.needs \subseteq line.options)

\* The root a command is told to work in may not be a directory, or be too wide.
Refused(line) == Gated(line.command.path) /\ line.root # "project"

IsGroup(command) == command.reads = "nothing" /\ command.path # <<"run">>

\* A handler is called, and goes to work or refuses its root; it answers the outcome of
\* the work, and what it throws ends in runCli.
Called(line) == ~line.help /\ ~Misused(line) /\ line.command.reads # "nothing"
Refuses(line) == Called(line) /\ Refused(line)
Works(line) == Called(line) /\ ~Refused(line)

HandlerExit(line) ==
  LET answers == Answers(line.command.path, "json" \in Sees(line.command, line.given))
  IN IF line.outcome \in DOMAIN answers THEN answers[line.outcome] ELSE InternalError
RunCli(line) ==
  CASE line.help -> Success
    [] ~line.help /\ (Misused(line) \/ IsGroup(line.command)) -> UsageError
    [] ~line.help /\ ~Misused(line) /\ line.command.path = <<"run">> -> InternalError
    [] Works(line) \/ Refuses(line) -> IF Refuses(line) THEN UsageError ELSE HandlerExit(line)

---------------------------------------------------------------------------
\* parseArgv: blanks part the words and quotes, which may be within a word, keep them
\* together; a text whose quote is not closed is refused.  Blanks at the ends of the
\* text, which are trimmed first, part nothing.
Blank == " "
Quotes == {"'", "\""}
Broken == <<<<"unclosed quote">>>>
Pushed(state) ==
  IF state.current = <<>> THEN state ELSE [state EXCEPT !.args = Append(@, state.current), !.current = <<>>]
Read(state, character) ==
  CASE state.quote = Blank /\ character \in Quotes -> [state EXCEPT !.quote = character]
    [] state.quote = Blank /\ character = Blank -> Pushed(state)
    [] state.quote # Blank /\ character = state.quote -> [state EXCEPT !.quote = Blank]
    [] OTHER -> [state EXCEPT !.current = Append(@, character)]
ParseArgv(text) ==
  LET end == FoldLeft(Read, [args |-> <<>>, current |-> <<>>, quote |-> Blank], text)
  IN IF end.quote # Blank THEN Broken ELSE Pushed(end).args

\* argv.join(" "), the text that the policy judges.
Joined(argv) ==
  FlattenSeq([i \in DOMAIN argv |-> IF i = 1 THEN argv[1] ELSE <<Blank>> \o argv[i]])

\* assertArgsInsideRoot: a word that is no option and has a slash or two dots must lead
\* into the root.
LooksLikePath(arg) ==
  "/" \in ToSet(arg) \/ \E i \in 1..(Len(arg) - 1) : arg[i] = "." /\ arg[i + 1] = "."
ArgsInsideRoot(argv, world) ==
  \A arg \in ToSet(argv) : LooksLikePath(arg) /\ arg[1] # "-" => arg \notin world.outside

\* resolveExecutableArgv and resolveNpmCliJs: on Windows npm is run by node, or as npm.cmd
\* when its script is not found.
ResolveExecutable(argv, world) ==
  CASE argv = <<>> \/ ~world.windows \/ argv[1] # world.npm -> argv
    [] world.cli # <<>> -> world.cli \o Tail(argv)
    [] OTHER -> <<Append(world.npm, ".cmd")>> \o Tail(argv)

Verdict(text, world) ==
  CASE text \in world.blocked -> "block" [] text \in world.asked -> "require-approval" [] OTHER -> "allow"

\* The words that were given, or those of the text.
ArgvOf(request) == IF request.argv # <<>> THEN request.argv ELSE ParseArgv(request.text)

\* runControlledCommand: what is started, if anything, and what is answered (toDecision,
\* buildFailedResult). That the start may fail, and the log, are CommandRunner's.
Outcome(status, decision, started) == [status |-> status, decision |-> decision, started |-> started]
RunControlled(request, world) ==
  LET argv == ArgvOf(request)
      verdict == Verdict(Joined(argv), world)
  IN CASE argv = Broken \/ Joined(argv) = <<>> -> Outcome("not-executed", "block", <<>>)
       [] verdict = "block" -> Outcome("blocked-by-enforcement", verdict, <<>>)
       [] ~request.execute \/ verdict # "allow" -> Outcome("not-executed", verdict, <<>>)
       [] ~request.shell /\ ~ArgsInsideRoot(argv, world) -> Outcome("execution-failed", verdict, <<>>)
       [] OTHER -> Outcome("started", verdict, IF request.shell THEN <<Joined(argv)>> ELSE ResolveExecutable(argv, world))

\* explainControlledRun
ExplainControlled(request, world) ==
  LET argv == ArgvOf(request)
      verdict == IF argv = Broken THEN "block" ELSE Verdict(Joined(argv), world)
  IN [decision |-> verdict, wouldExecute |-> verdict = "allow"]

---------------------------------------------------------------------------
\* A handler reads every flag of the line that its command declares.
FlagsReach(line) == Works(line) => Sees(line.command, line.given) = line.given \cap line.command.flags

\* What docs/reference/exit-codes.md says of a line that ends with a code: with 0 its work was
\* done, or it reports what it found and gates nothing; with 1 a gate failed; with 2 the line
\* was misused, or the root, an argument or an approval was not there; with 3 the work failed.
\* baseline and dashboard end with 2 where the work throws.
Means(code, line) ==
  CASE code = Success ->
         \/ line.help
         \/ Works(line) /\ line.outcome = "done"
         \/ Works(line) /\ line.outcome = "issues" /\ line.command.path \in Verdicts
    [] code = IssuesOrThreshold -> Works(line) /\ line.outcome = "issues"
    [] code = UsageError ->
         \/ Misused(line) \/ IsGroup(line.command) \/ Refuses(line)
         \/ Works(line) /\ line.outcome \in {"missing", "refused"}
         \/ Works(line) /\ line.outcome = "thrown" /\ Name(line.command.path) \in {"baseline", "dashboard"}
    [] code = InternalError ->
         \/ Works(line) /\ line.outcome \in {"failed", "thrown"}
         \/ line.command.path = <<"run">>


\* Words that are quoted are read as they were, and no word that is read is empty.
QuotesAreRead(argv) ==
  LET quoted == [i \in DOMAIN argv |-> <<"'">> \o argv[i] \o <<"'">>] IN
  /\ (\A word \in ToSet(argv) : word # <<>> /\ "'" \notin ToSet(word)) => ParseArgv(Joined(quoted)) = argv
  /\ <<>> \notin ToSet(ParseArgv(Joined(argv)))

\* What is run was judged and is explained so, and what is explained to be run is run,
\* but for nothing and for what names a path outside; on a system that has npm the words
\* that are judged are those that are run.
RunsAreExplained(request, world) ==
  LET words == ArgvOf(request)
      run == RunControlled([request EXCEPT !.execute = TRUE], world)
      told == ExplainControlled(request, world)
  IN /\ run.started # <<>> =>
          /\ told.wouldExecute /\ Joined(words) \notin world.blocked \cup world.asked
          /\ ~world.windows => Joined(run.started) = Joined(words)
     /\ told.wouldExecute /\ run.started = <<>> =>
          Joined(words) = <<>> \/ \E arg \in ToSet(words) : arg \in world.outside
     /\ run.decision = told.decision \/ Joined(words) = <<>>
     /\ ~request.execute => RunControlled(request, world).started = <<>>
=============================================================================
