---------------------------- MODULE CommandRunner ----------------------------
(***************************************************************************)
(* runControlledCommand of src/enforcement/runner.ts: the policy is read,  *)
(* the command decided on, perhaps executed, and what happened appended to *)
(* audit/execution.jsonl, a chain of HMACs.                                *)
(*                                                                         *)
(* The action policy is that of src/policy/compose.ts (a built-in pack and *)
(* the repository's policy.json) and src/platform/firewall/evaluate.ts     *)
(* (the platform overlay firewall-policy.json, the built-in shell blocks,  *)
(* the decision). What an action's strings contain is abstracted to sets:  *)
(* a rule names the commands and targets its filters match.                *)
(*                                                                         *)
(* Calls of one server and of several processes overlap; a step ends where *)
(* a call awaits. Users edit the two policy files meanwhile, children      *)
(* hang, processes die.  A line's hash covers the line before and a record *)
(* with a random id, so it is taken for the number of the call.            *)
(***************************************************************************)
EXTENDS Naturals, Sequences, FiniteSets

CONSTANTS
  Types, Commands, Targets,
  Destructive,   \* the commands a pattern of BUILTIN_SHELL_BLOCKS matches
  Pack,          \* the built-in pack: a document
  Default,       \* DEFAULT_POLICY
  None,          \* no file, or one that cannot be read; no allowlist
  Malformed,     \* not JSON
  Invalid,       \* JSON that is no policy document
  InvalidClosed, \* the same with failClosed: true
  Callers,
  Requests,       \* the calls' options: executeIfAllowed, useShell, failClosed; explain
                  \* calls explainControlledRun, which only evaluates
  Escaping,       \* commands with an argument outside the root
  Stubborn,       \* commands that survive SIGTERM, or whose children do SIGKILL
  Repos,          \* what policy.json may hold
  Overlays,       \* what firewall-policy.json may hold
  MaxCalls,       \* bound on the calls begun
  MaxEdits,       \* bound on the users' edits
  Torn            \* a line of the audit log that is no JSON

\* FirewallDecision; "other" is any other string and "throws" a rule that is null.
Decisions == {"allow", "block", "require-approval", "sandbox-only", "deny-network", "deny-secrets"}

Action == [type: Types, command: Commands, target: Targets]

\* A filter a rule does not have is the full set, one whose patterns do not
\* compile the empty set.
Rule == [types: SUBSET Types, commands: SUBSET Commands, targets: SUBSET Targets,
         decision: Decisions \cup {"other", "throws"}]

Document == [default: Decisions \cup {"other"}, failClosed: BOOLEAN,
             allowlist: Seq(SUBSET Commands) \cup {None}, rules: Seq(Rule)]

ASSUME PolicyAssumption ==
  /\ Targets # {}
  /\ Destructive \subseteq Commands
  /\ Pack \in Document /\ Default \in Document
  /\ None \notin {Malformed, Invalid, InvalidClosed}

RuleMatches(rule, action) ==
  \/ rule.decision = "throws"
  \/ /\ action.type \in rule.types
     /\ action.command \in rule.commands
     /\ action.target \in rule.targets

BlocksAll(decision) ==
  [types |-> Types, commands |-> Commands, targets |-> Targets, decision |-> decision]

\* denyAll of compose.ts, denyAllPolicy of evaluate.ts.
DenyAll ==
  [default |-> "block", failClosed |-> TRUE, allowlist |-> None, rules |-> <<BlocksAll("block")>>]

\* What lies on top comes first; its default and its allowlist, if any, replace
\* those below.
Overlay(top, below) ==
  [default |-> top.default,
   failClosed |-> top.failClosed \/ below.failClosed,
   allowlist |-> IF top.allowlist # None THEN top.allowlist ELSE below.allowlist,
   rules |-> top.rules \o below.rules]

\* isFirewallPolicyDocument: compose.ts does not look into the rules and takes any
\* string for a default decision.
IsRepoDocument(repo) == repo \notin {None, Malformed, Invalid, InvalidClosed}

\* validateFirewallPolicy looks into both.
IsOverlayDocument(overlay) ==
  /\ IsRepoDocument(overlay)
  /\ overlay.default \in Decisions
  /\ \A i \in DOMAIN overlay.rules : overlay.rules[i].decision \in Decisions

\* composePolicy
Compose(repo) ==
  IF repo = None
  THEN [policy |-> Pack, fromRepo |-> FALSE, failed |-> FALSE]
  ELSE IF IsRepoDocument(repo)
  THEN [policy |-> Overlay(repo, Pack), fromRepo |-> TRUE, failed |-> FALSE]
  ELSE [policy |-> DenyAll, fromRepo |-> TRUE, failed |-> TRUE]

\* loadFirewallPolicy when the overlay is there; closed is the caller's failClosed.
WithOverlay(composed, overlay, closed) ==
  IF IsOverlayDocument(overlay)
  THEN Overlay(overlay, composed.policy)
  ELSE IF \/ closed
          \/ composed.policy.failClosed
          \/ overlay = InvalidClosed
          \/ IsRepoDocument(overlay) /\ overlay.failClosed
  THEN DenyAll
  ELSE composed.policy

\* loadFirewallPolicy when it is not: the repository's policy, or the default one,
\* which is then written there.
Seeds(composed, overlay) == overlay = None /\ ~composed.failed /\ ~composed.fromRepo

Loaded(composed, overlay, closed) ==
  IF composed.failed THEN composed.policy
  ELSE IF overlay # None THEN WithOverlay(composed, overlay, closed)
  ELSE IF composed.fromRepo THEN composed.policy
  ELSE Default

FirstMatch(rules, action) ==
  {i \in DOMAIN rules : RuleMatches(rules[i], action)
     /\ \A j \in 1..(i - 1) : ~RuleMatches(rules[j], action)}

Listed(allowlist, command) == \E i \in DOMAIN allowlist : command \in allowlist[i]

\* A slip that a run must notice: the allowlist is looked at before the rules.
Decision_ListFirst(policy, action) ==
  IF action.type = "shell" /\ policy.allowlist # None /\ Listed(policy.allowlist, action.command)
  THEN "allow"
  ELSE IF FirstMatch(policy.rules, action) # {}
  THEN policy.rules[CHOOSE i \in FirstMatch(policy.rules, action) : TRUE].decision
  ELSE policy.default

\* What is decided when nothing is built in: the first rule, the allowlist of shell
\* commands, the default.
Decision(policy, action) ==
  IF FirstMatch(policy.rules, action) # {}
  THEN policy.rules[CHOOSE i \in FirstMatch(policy.rules, action) : TRUE].decision
  ELSE IF action.type = "shell" /\ policy.allowlist \notin {None, <<>>}
  THEN IF Listed(policy.allowlist, action.command) THEN "allow" ELSE "require-approval"
  ELSE policy.default

\* A slip that a run must notice: an allow rule wins over the built-in blocks.
Evaluate_RulesFirst(policy, action) ==
  IF FirstMatch(policy.rules, action) # {} THEN Decision(policy, action)
  ELSE IF action.type = "shell" /\ action.command \in Destructive THEN "block"
  ELSE Decision(policy, action)

\* evaluateAgentAction
Evaluate(policy, action) ==
  IF action.type = "shell" /\ action.command \in Destructive
  THEN "block"
  ELSE Decision(policy, action)

---------------------------------------------------------------------------
Request ==
  {r \in [command: Commands, execute: BOOLEAN, shell: BOOLEAN, closed: BOOLEAN, explain: BOOLEAN] :
     r.explain => ~r.execute}

ASSUME RunnerAssumption ==
  /\ Requests \subseteq Request
  /\ Destructive \cup Escaping \cup Stubborn \subseteq Commands
  /\ MaxCalls \in Nat /\ MaxEdits \in Nat
  /\ "shell" \in Types
  /\ Repos \cup Overlays \subseteq Document \cup {None, Malformed, Invalid, InvalidClosed}

VARIABLES
  repo, overlay,  \* the two policy files
  log,            \* the lines of execution.jsonl
  whole,          \* the last line ends in a newline
  pc,
  call,           \* a caller's call: its number, request and what it knows, or None
  ran,            \* history: the calls whose command was started
  answered,       \* history: [id, status] of the calls that returned a result
  calls, edits

runnerVars == <<repo, overlay, log, whole, pc, call, ran, answered, calls, edits>>

Recorded == {"blocked-by-enforcement", "execution-failed", "executed"}
Line == [id: 1..MaxCalls, status: Recorded, previous: 1..MaxCalls \cup {None}, last: BOOLEAN]

ASSUME TornAssumption == Torn \notin Line

ActionOf(r) ==
  [type |-> "shell", command |-> r.command, target |-> CHOOSE t \in Targets : TRUE]

\* What a call learns: the files it read, its verdict, how it went, the hash of the
\* line it found last, and (history) how many lines it found.
NewCall(r) ==
  [id |-> calls + 1, req |-> r, repo |-> None, overlay |-> None, verdict |-> "none",
   status |-> "none", previous |-> None, seen |-> 0, timedOut |-> FALSE]

RunnerInit ==
  /\ repo = None /\ overlay = None
  /\ log = <<>> /\ whole = TRUE
  /\ pc = [c \in Callers |-> "idle"]
  /\ call = [c \in Callers |-> None]
  /\ ran = {} /\ answered = {}
  /\ calls = 0 /\ edits = 0

At(c, from, to) == pc[c] = from /\ pc' = [pc EXCEPT ![c] = to]

Learn(c, field, value) == call' = [call EXCEPT ![c][field] = value]

\* The call returns (or throws: it then answers nothing).
Return(c, from, answer) ==
  /\ At(c, from, "idle")
  /\ call' = [call EXCEPT ![c] = None]
  /\ answered' = answered \cup answer

Answer(c, status) == {[id |-> call[c].id, status |-> status]}

Files == <<repo, overlay>>
Audit == <<log, whole>>

\* A command that parses; one that does not is answered at once.
Begin(c, r) ==
  /\ calls < MaxCalls
  /\ At(c, "idle", "compose")
  /\ call' = [call EXCEPT ![c] = NewCall(r)]
  /\ calls' = calls + 1
  /\ UNCHANGED <<Files, Audit, ran, answered, edits>>

\* composePolicy
ReadRepo(c) ==
  /\ At(c, "compose", "overlay")
  /\ Learn(c, "repo", repo)
  /\ UNCHANGED <<Files, Audit, ran, answered, calls, edits>>

\* The verdict on the command, from the files the call has read.
Verdict(c, over) ==
  Evaluate(Loaded(Compose(call[c].repo), over, call[c].req.closed), ActionOf(call[c].req))

\* The rest of loadFirewallPolicy, and evaluateAgentAction.
ReadOverlay(c) ==
  /\ LET seeding == Seeds(Compose(call[c].repo), overlay) IN
     /\ At(c, "overlay", IF seeding THEN "seed" ELSE "decide")
     /\ call' = [call EXCEPT ![c].overlay = overlay, ![c].verdict = Verdict(c, overlay)]
  /\ UNCHANGED <<Files, Audit, ran, answered, calls, edits>>

\* DEFAULT_POLICY is written where there was no overlay when the call looked.
Seed(c) ==
  /\ At(c, "seed", "decide")
  /\ overlay' = Default
  /\ UNCHANGED <<repo, Audit, call, ran, answered, calls, edits>>

Blocked(c) == ~call[c].req.explain /\ call[c].verdict \in {"block", "deny-network"}

\* A verdict that blocks is recorded; one that is no "allow" ends the call.
Block(c) ==
  /\ Blocked(c)
  /\ At(c, "decide", "audit")
  /\ Learn(c, "status", "blocked-by-enforcement")
  /\ UNCHANGED <<Files, Audit, ran, answered, calls, edits>>

Decline(c) ==
  /\ ~Blocked(c)
  /\ ~call[c].req.execute \/ call[c].verdict # "allow"
  /\ Return(c, "decide", IF call[c].verdict = "throws" THEN {} ELSE Answer(c, "not-executed"))
  /\ UNCHANGED <<Files, Audit, ran, calls, edits>>

\* assertArgsInsideRoot
Escape(c) ==
  /\ ~call[c].req.shell /\ call[c].req.command \in Escaping
  /\ call[c].req.execute /\ call[c].verdict = "allow"
  /\ At(c, "decide", "audit")
  /\ Learn(c, "status", "execution-failed")
  /\ UNCHANGED <<Files, Audit, ran, answered, calls, edits>>

\* executeArgv starts the child.
Start(c) ==
  /\ call[c].req.execute /\ call[c].verdict = "allow"
  /\ call[c].req.shell \/ call[c].req.command \notin Escaping
  /\ At(c, "decide", "running")
  /\ ran' = ran \cup {call[c]}
  /\ UNCHANGED <<Files, Audit, call, answered, calls, edits>>

\* The child ends by itself, well or not, or cannot be started.
ChildEnds(c) ==
  /\ At(c, "running", "audit")
  /\ \E status \in {"executed", "execution-failed"} :
       Learn(c, "status", IF call[c].timedOut THEN "execution-failed" ELSE status)
  /\ UNCHANGED <<Files, Audit, ran, answered, calls, edits>>

\* A slip that a run must notice: the shell's result waits for its close event.
Timeout_KillsOnly(c) ==
  /\ ~call[c].timedOut
  /\ At(c, "running", "running")
  /\ Learn(c, "timedOut", TRUE)
  /\ UNCHANGED <<Files, Audit, ran, answered, calls, edits>>

\* The timer, or too much output.  A shell's result does not wait for the child;
\* execFile sends a signal and waits until the child has closed.
Timeout(c) ==
  /\ ~call[c].timedOut
  /\ IF call[c].req.shell
     THEN /\ At(c, "running", "audit")
          /\ Learn(c, "status", "execution-failed")
     ELSE /\ At(c, "running", "running")
          /\ Learn(c, "timedOut", TRUE)
  /\ UNCHANGED <<Files, Audit, ran, answered, calls, edits>>

\* The killed child is gone.
Killed(c) ==
  /\ call[c] # None /\ call[c].timedOut
  /\ call[c].req.command \notin Stubborn
  /\ ChildEnds(c)

\* A slip that a run must notice: one line past the last is read.
LastHash_PastEnd == None

\* The hash of the last line, null when there is none or it cannot be parsed.
LastHash == IF log = <<>> \/ log[Len(log)] = Torn THEN None ELSE log[Len(log)].id

\* What a call finds in the log; a log that cannot be read is taken for none.
Readings == {[hash |-> LastHash, lines |-> Len(log)], [hash |-> None, lines |-> 0]}

\* appendExecutionAudit reads the log ...
ReadLog(c) ==
  /\ At(c, "audit", "append")
  /\ \E found \in Readings : call' = [call EXCEPT ![c].previous = found.hash, ![c].seen = found.lines]
  /\ UNCHANGED <<Files, Audit, ran, answered, calls, edits>>

LineOf(c) ==
  [id |-> call[c].id, status |-> call[c].status, previous |-> call[c].previous,
   last |-> call[c].seen = Len(log)]

\* A slip that a run must notice: the append is not awaited and may be lost.
AppendLine_Unawaited(c) ==
  /\ pc[c] = "append"
  /\ log' \in {log, Append(log, LineOf(c))}
  /\ whole' = TRUE
  /\ Return(c, "append", Answer(c, call[c].status))
  /\ UNCHANGED <<Files, ran, calls, edits>>

\* A slip that a run must notice: the log is written back as it was read.
AppendLine_WritesBack(c) ==
  /\ pc[c] = "append"
  /\ log' = Append(SubSeq(log, 1, call[c].seen), LineOf(c))
  /\ whole' = TRUE
  /\ Return(c, "append", Answer(c, call[c].status))
  /\ UNCHANGED <<Files, ran, calls, edits>>

\* ... and appends its line; after a torn one it becomes part of it.
AppendLine(c) ==
  /\ pc[c] = "append"
  /\ log' = IF whole THEN Append(log, LineOf(c)) ELSE log
  /\ whole' = TRUE
  /\ Return(c, "append", Answer(c, call[c].status))
  /\ UNCHANGED <<Files, ran, calls, edits>>

\* The process dies, perhaps in the middle of its line.
Die(c) ==
  /\ pc[c] # "idle"
  /\ Return(c, pc[c], {})
  /\ \/ UNCHANGED Audit
     \/ /\ pc[c] = "append"
        /\ log' = IF whole THEN Append(log, Torn) ELSE log
        /\ whole' = FALSE
  /\ UNCHANGED <<Files, ran, calls, edits>>

\* A user edits a policy.
Edit ==
  /\ edits < MaxEdits
  /\ edits' = edits + 1
  /\ \/ repo' \in Repos \ {repo} /\ UNCHANGED overlay
     \/ overlay' \in Overlays \ {overlay} /\ UNCHANGED repo
  /\ UNCHANGED <<Audit, pc, call, ran, answered, calls>>

\* The steps of a call that only wait for the file system.
CallStep(c) ==
  \/ ReadRepo(c) \/ ReadOverlay(c) \/ Seed(c)
  \/ (call[c] # None /\ (Block(c) \/ Decline(c) \/ Escape(c) \/ Start(c)))
  \/ (call[c] # None /\ (Timeout(c) \/ Killed(c)))
  \/ ReadLog(c) \/ AppendLine(c)

RunnerNext ==
  \/ \E c \in Callers :
       \/ \E r \in Requests : Begin(c, r)
       \/ CallStep(c)
       \/ ChildEnds(c)
       \/ Die(c)
  \/ Edit

RunnerSpec == RunnerInit /\ [][RunnerNext]_runnerVars

\* Timers fire, a signal ends a child that heeds it, and files are read and
\* written; nothing is assumed of the children themselves.
FairRunnerSpec == RunnerSpec /\ \A c \in Callers : WF_runnerVars(CallStep(c))

---------------------------------------------------------------------------
FirstOf(doc, action) ==
  IF ~IsRepoDocument(doc) \/ FirstMatch(doc.rules, action) = {} THEN "none"
  ELSE doc.rules[CHOOSE i \in FirstMatch(doc.rules, action) : TRUE].decision

\* Whatever the policy files say and whoever edits them meanwhile, a destructive
\* command is never started, nothing is when policy.json was broken ("never
\* silently ignore", composePolicy), and none is for a caller
\* that did not ask for execution.
DenialsHold ==
  \A r \in ran :
    /\ r.req.command \notin Destructive /\ r.req.execute
    /\ r.repo \notin {Malformed, Invalid, InvalidClosed}

\* A rule of the repository's policy that blocks a command is not overruled by an
\* allowlist or default of any layer, nor by the pack: only by the overlay's rules.
RepoRulesOutrank ==
  \A r \in ran : FirstOf(r.overlay, ActionOf(r.req)) = "none" =>
    FirstOf(r.repo, ActionOf(r.req)) \in {"none", "allow"}

\* A call that answers that a command was blocked, or executed, has left a line
\* that says so, unless a dying process left half a line that swallowed it.
AnswersAreLogged ==
  \A a \in answered : a.status # "not-executed" =>
    \/ \E i \in DOMAIN log : log[i] # Torn /\ log[i].id = a.id /\ log[i].status = a.status
    \/ \E i \in DOMAIN log : log[i] = Torn

\* The chain of the audit log: a line carries the hash of the line before it,
\* unless another call appended since its own read, the read failed, or that line is
\* torn; and the hash of an earlier line or none in any case.
ChainLinks ==
  \A i \in DOMAIN log : log[i] # Torn =>
    /\ log[i].last /\ i > 1 /\ log[i - 1] # Torn => log[i].previous = log[i - 1].id
    /\ log[i].previous # None =>
         \E j \in 1..(i - 1) : log[j] # Torn /\ log[j].id = log[i].previous

\* The runner implements the log: whoever overlaps and dies, lines are only added and
\* none refers to one that is not there.
Audited == INSTANCE AuditLog WITH
  Ids <- 1..MaxCalls

ImplementsAuditLog == Audited!LogSpec

\* A call whose command heeds signals, or runs under a shell (whose timer settles
\* the result whatever the child does), ends.
CallsEnd ==
  \A c \in Callers :
    (call[c] # None /\ (call[c].req.shell \/ call[c].req.command \notin Stubborn))
      ~> (call[c] = None)

---------------------------------------------------------------------------
(* The instance of MCCommandRunner.cfg.                                     *)

MCCommands == {"npmTest", "npmTestDrop", "rmRf", "catOutside", "hangs"}
MCTypes == {"shell", "file-modify"}
MCTargets == {"src", "env"}

RuleOn(commands, decision) ==
  [types |-> {"shell"}, commands |-> commands, targets |-> MCTargets, decision |-> decision]
RuleOnFiles(targets, decision) ==
  [types |-> {"file-modify"}, commands |-> MCCommands, targets |-> targets, decision |-> decision]
NoRule == [types |-> MCTypes, commands |-> MCCommands, targets |-> MCTargets, decision |-> "throws"]

\* The baseline-safe pack and DEFAULT_POLICY, for these commands.
MCPack ==
  [default |-> "require-approval", failClosed |-> FALSE, allowlist |-> <<{"npmTest", "npmTestDrop"}>>,
   rules |-> <<RuleOnFiles({"env"}, "block"), RuleOn({"rmRf", "npmTestDrop"}, "block"),
               RuleOnFiles({"src"}, "allow")>>]
MCDefault ==
  [default |-> "require-approval", failClosed |-> FALSE, allowlist |-> <<{"npmTest", "npmTestDrop"}>>,
   rules |-> <<RuleOnFiles({"env"}, "block"), RuleOnFiles({"src"}, "allow")>>]

PolicyOf(default, allowlist, rules) ==
  [default |-> default, failClosed |-> FALSE, allowlist |-> allowlist, rules |-> rules]

\* policy.json blocks tests; what is after that rule is no rule.
BlocksTests == PolicyOf("other", None, <<RuleOn({"npmTest"}, "block"), NoRule>>)
AllowsAll == PolicyOf("block", <<>>, <<RuleOn(MCCommands, "allow")>>)
MCRepos == {None, Malformed, BlocksTests}
MCOverlays == {None, InvalidClosed, AllowsAll}

Ask(command, shell) ==
  [command |-> command, execute |-> TRUE, shell |-> shell, closed |-> FALSE, explain |-> FALSE]
MCRequests ==
  {Ask(command, FALSE) : command \in MCCommands} \cup {Ask("hangs", TRUE)}
  \cup {[Ask("npmTest", FALSE) EXCEPT !.execute = FALSE, !.closed = TRUE],
         [Ask("rmRf", FALSE) EXCEPT !.execute = FALSE, !.explain = TRUE]}
==============================================================================
