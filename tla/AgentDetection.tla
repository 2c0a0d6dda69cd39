--------------------------- MODULE AgentDetection ---------------------------
(***************************************************************************)
(* detectAgents: which AI agents a repository is set up for, by the seven  *)
(* adapters of agents/.                                                    *)
(*                                                                         *)
(* Paths are those of Dependencies: .cursor/a.mdc is                       *)
(* <<<<"", "cursor">>, <<"a", "mdc">>>>.  A repository is [state, listed]: *)
(* listed are the files that discovery found, in its order, and state maps *)
(* the paths that are there to what is: "dir", "empty", "blank", "text",   *)
(* "malformed" (a text that is no JSON), "large" (over the size limit),    *)
(* "outside" (a link out of the root) or "locked" (cannot be opened).      *)
(* A listed file that has no state has gone since.  Summaries and messages *)
(* are left out, and so are the counts of metadata: they count the files.  *)
(***************************************************************************)
EXTENDS Dependencies

\* pathExistsInsideRoot asks for access only, inspectRepoFile opens and reads.
Exists(repo, path) == path \in DOMAIN repo.state
StateOf(repo, path) == IF Exists(repo, path) THEN repo.state[path] ELSE "gone"
Readable(repo, path) == StateOf(repo, path) \in {"empty", "blank", "text", "malformed"}
Empty(repo, path) == StateOf(repo, path) \notin {"text", "malformed", "large"}

\* toAgentConfigFile; broken is a parseError, of settings only.
Settings == {"claude-settings", "claude-settings-local", "gemini-settings"}
Entry(path, kind) == [path |-> path, kind |-> kind]
ConfigFile(repo, entry) ==
  [path |-> entry.path, kind |-> entry.kind,
   readable |-> Readable(repo, entry.path), empty |-> Empty(repo, entry.path),
   broken |-> entry.kind \in Settings /\ StateOf(repo, entry.path) = "malformed"]

\* Each path is added once, as what it was seen as first.
Once(entries) ==
  FoldLeft(LAMBDA seen, e : IF \E s \in ToSet(seen) : s.path = e.path THEN seen ELSE Append(seen, e), <<>>, entries)
AllFiled(repo, entries) == [i \in DOMAIN entries |-> ConfigFile(repo, entries[i])]
Filed(repo, entries) == AllFiled(repo, Once(entries))

\* The entries of those paths that are there, and of the listed files that have a kind.
There(repo, entries) == SelectSeq(entries, LAMBDA e : Exists(repo, e.path))
Listed(repo, KindOf(_)) ==
  SelectSeq([i \in DOMAIN repo.listed |-> Entry(repo.listed[i], KindOf(repo.listed[i]))], LAMBDA e : e.kind # "none")

Name(path) == Last(path)
EndsWith(path, ext) == IsStrictSuffix(ext, Name(path))

\* includes(".cursor/rules/"): the first name may have more before its dot.
UnderRules(path, folder) ==
  \E i \in 1..(Len(path) - 2) :
    /\ Len(path[i]) > 1 /\ Last(path[i]) = folder
    /\ path[i + 1] = <<"rules">>

Note(code, severity, file) == {[code |-> code, severity |-> severity, file |-> file]}
Warned(file, code) == Note(code, "warning", file.path)
Informed(file, code) == Note(code, "info", file.path)

\* What the adapters' add functions note of a file: one that has gone is kept and not noted.
Noted(repo, file) ==
  IF ~Exists(repo, file.path) THEN {}
  ELSE IF ~file.readable THEN Warned(file, "unreadable") ELSE IF file.empty THEN Informed(file, "empty") ELSE {}
EmptyNoted(file, code) == IF file.empty THEN Informed(file, code) ELSE {}

\* deriveStatus
DeriveStatus(detected, configured, hasErrors) ==
  CASE ~detected -> "absent"
    [] detected /\ hasErrors -> "misconfigured"
    [] detected /\ ~hasErrors -> IF configured THEN "configured" ELSE "detected"

HasErrors(notes) == \E n \in notes : n.severity = "error"
Result(id, files, notes, detected, configured, hasErrors) ==
  [id |-> id, files |-> files, notes |-> notes, detected |-> detected, configured |-> configured,
   status |-> DeriveStatus(detected, configured, hasErrors)]

Usable(files, kinds) == \E f \in ToSet(files) : f.readable /\ ~f.empty /\ f.kind \in kinds /\ ~f.broken
NotesOf(files, Of(_)) == UNION {Of(f) : f \in ToSet(files)}

---------------------------------------------------------------------------
AgentsMd == <<"AGENTS", "md">>
AgentsOverride == <<"AGENTS", "override", "md">>

\* detectCursor
CursorDir == <<"", "cursor">>
CursorRules == <<"", "cursorrules">>
CursorKind(path) ==
  CASE UnderRules(path, "cursor") /\ EndsWith(path, <<"mdc">>) -> "cursor-rule-mdc"
    [] UnderRules(path, "cursor") /\ EndsWith(path, <<"md">>) -> "cursor-rule-ignored-md"
    [] Name(path) = AgentsMd /\ ~UnderRules(path, "cursor") -> "agents-md"
    [] OTHER -> "none"
CursorNotes(file) ==
  CASE file.kind = "cursor-rule-mdc" -> IF ~file.readable THEN Warned(file, "unreadable") ELSE EmptyNoted(file, "empty")
    [] file.kind = "cursor-rule-ignored-md" -> Warned(file, "ignored-md-rule")
    [] file.kind = "agents-md" -> EmptyNoted(file, "empty")
    [] file.kind = "cursor-legacy-cursorrules" -> Warned(file, "legacy") \cup EmptyNoted(file, "empty")
\* A .cursor without rules of the current form
CursorBare(repo, files) ==
  IF ~Exists(repo, <<CursorDir>>) \/ \E f \in ToSet(files) : f.kind = "cursor-rule-mdc" THEN {}
  ELSE IF Exists(repo, <<CursorDir, <<"rules">>>>) THEN Note("empty-rules-dir", "info", <<CursorDir, <<"rules">>>>)
  ELSE Note("no-rules", "info", <<CursorDir>>)
DetectCursor(repo) ==
  LET files == Filed(repo, Listed(repo, CursorKind) \o There(repo, <<Entry(<<CursorRules>>, "cursor-legacy-cursorrules")>>))
      notes == NotesOf(files, CursorNotes) \cup CursorBare(repo, files)
  IN Result("cursor", files, notes,
            Exists(repo, <<CursorDir>>) \/ files # <<>>,
            Usable(files, {"cursor-rule-mdc", "cursor-legacy-cursorrules", "agents-md"}), HasErrors(notes))

\* detectCodex: AGENTS.md anywhere, and .codex with a config that is not parsed
CodexDir == <<"", "codex">>
CodexConfig == <<CodexDir, <<"config", "toml">>>>
AgentsKinds == {"agents-md", "agents-override-md"}
CodexKind(path) ==
  CASE Name(path) = AgentsOverride -> "agents-override-md" [] Name(path) = AgentsMd -> "agents-md" [] OTHER -> "none"
CodexHome ==
  <<Entry(<<CodexDir, AgentsMd>>, "agents-md"), Entry(<<CodexDir, AgentsOverride>>, "agents-override-md"),
    Entry(CodexConfig, "codex-config")>>
DetectCodex(repo) ==
  LET home == IF Exists(repo, <<CodexDir>>) THEN There(repo, CodexHome) ELSE <<>>
      root == There(repo, <<Entry(<<AgentsMd>>, "agents-md"), Entry(<<AgentsOverride>>, "agents-override-md")>>)
      files == Filed(repo, Listed(repo, CodexKind) \o root \o home)
      notes == NotesOf(files, LAMBDA f : IF f.kind = "codex-config" THEN EmptyNoted(f, "empty-config") ELSE Noted(repo, f))
  IN Result("codex", files, notes,
            Exists(repo, <<CodexDir>>) \/ \E f \in ToSet(files) : f.kind \in AgentsKinds,
            Usable(files, AgentsKinds), HasErrors(notes))

\* What is noted of settings; only Claude's adapter tells of those it cannot read.
SettingsNotes(repo, file, tells) ==
  CASE file.broken -> Warned(file, "malformed-settings")
    [] ~file.broken /\ Exists(repo, file.path) /\ file.empty -> Informed(file, "empty-settings")
    [] OTHER -> IF tells /\ ~file.readable THEN Warned(file, "unreadable-settings") ELSE {}
ParseProblems(files) == \E f \in ToSet(files) : f.broken

\* detectClaudeCode: some paths whether they are listed or not, then what is listed
ClaudeDir == <<"", "claude">>
ClaudeMd == <<"CLAUDE", "md">>
ClaudeLocal == <<"CLAUDE", "local", "md">>
ClaudeTargets ==
  <<Entry(<<ClaudeMd>>, "claude-md"), Entry(<<ClaudeDir, ClaudeMd>>, "claude-md"), Entry(<<ClaudeLocal>>, "claude-local-md"),
    Entry(<<ClaudeDir, <<"settings", "json">>>>, "claude-settings"),
    Entry(<<ClaudeDir, <<"settings", "local", "json">>>>, "claude-settings-local")>>
ClaudeKind(path) ==
  CASE Name(path) = ClaudeMd -> "claude-md"
    [] Name(path) = ClaudeLocal -> "claude-local-md"
    [] OTHER -> IF UnderRules(path, "claude") /\ EndsWith(path, <<"md">>) THEN "claude-rule-md" ELSE "none"
ClaudeKinds == {"claude-md", "claude-local-md", "claude-rule-md", "claude-settings", "claude-settings-local"}
DetectClaudeCode(repo) ==
  LET files == Filed(repo, There(repo, ClaudeTargets) \o Listed(repo, ClaudeKind))
      notes == NotesOf(files, LAMBDA f : IF f.kind \in Settings THEN SettingsNotes(repo, f, TRUE) ELSE Noted(repo, f))
      configured == Usable(files, ClaudeKinds)
  IN Result("claude-code", files, notes, Exists(repo, <<ClaudeDir>>) \/ files # <<>>, configured,
            HasErrors(notes) \/ (ParseProblems(files) /\ ~configured))

\* detectGeminiCli: an ignore file alone is configuration, and is no file of it.
GeminiDir == <<"", "gemini">>
GeminiMd == <<"GEMINI", "md">>
GeminiIgnore == <<<<"", "geminiignore">>>>
GeminiSettings == <<GeminiDir, <<"settings", "json">>>>
DetectGeminiCli(repo) ==
  LET listed == Listed(repo, LAMBDA p : IF Name(p) = GeminiMd THEN "gemini-md" ELSE "none")
      files == Filed(repo, There(repo, <<Entry(GeminiSettings, "gemini-settings")>>) \o listed
                           \o There(repo, <<Entry(<<GeminiMd>>, "gemini-md")>>))
      notes == NotesOf(files, LAMBDA f : IF f.kind \in Settings THEN SettingsNotes(repo, f, FALSE) ELSE Noted(repo, f))
      configured == Usable(files, {"gemini-md", "gemini-settings"}) \/ Exists(repo, GeminiIgnore)
  IN Result("gemini-cli", files, notes,
            Exists(repo, <<GeminiDir>>) \/ Exists(repo, GeminiIgnore) \/ files # <<>>, configured,
            HasErrors(notes) \/ (ParseProblems(files) /\ ~configured))

\* detectWindsurf
WindsurfDirs == {<<<<"", "windsurf">>>>, <<<<"", "devin">>>>}
WindsurfRules == <<<<"", "windsurfrules">>>>
WindsurfKind(path) ==
  IF EndsWith(path, <<"md">>) /\ (UnderRules(path, "windsurf") \/ UnderRules(path, "devin"))
  THEN "windsurf-rule-md" ELSE "none"
DetectWindsurf(repo) ==
  LET files == Filed(repo, There(repo, <<Entry(WindsurfRules, "windsurf-legacy-rules")>>) \o Listed(repo, WindsurfKind))
      legacy(f) == IF f.kind = "windsurf-legacy-rules" THEN Informed(f, "legacy") ELSE {}
      notes == NotesOf(files, LAMBDA f : Noted(repo, f) \cup legacy(f))
  IN Result("windsurf", files, notes, (\E d \in WindsurfDirs : Exists(repo, d)) \/ files # <<>>,
            Usable(files, {"windsurf-rule-md", "windsurf-legacy-rules"}), HasErrors(notes))

\* detectCopilot
Github == <<"", "github">>
CopilotInstructions == <<Github, <<"copilot-instructions", "md">>>>
CopilotKind(path) ==
  IF IsStrictPrefix(<<Github, <<"instructions">>>>, path) /\ EndsWith(path, <<"instructions", "md">>)
  THEN "copilot-path-instructions" ELSE "none"
DetectCopilot(repo) ==
  LET files == Filed(repo, There(repo, <<Entry(CopilotInstructions, "copilot-instructions")>>) \o Listed(repo, CopilotKind))
      notes == NotesOf(files, LAMBDA f : Noted(repo, f))
  IN Result("copilot", files, notes, files # <<>>,
            Usable(files, {"copilot-instructions", "copilot-path-instructions"}), HasErrors(notes))

\* detectAider: conf.yml before conf.yaml; both it and an ignore file are configuration by
\* being there, and CONVENTIONS.md is looked for only next to one of them.
AiderConf == <<Entry(<<<<"", "aider", "conf", "yml">>>>, "aider-conf"), Entry(<<<<"", "aider", "conf", "yaml">>>>, "aider-conf")>>
AiderIgnore == Entry(<<<<"", "aiderignore">>>>, "aider-ignore")
Conventions == Entry(<<<<"CONVENTIONS", "md">>>>, "aider-conventions")
DetectAider(repo) ==
  LET confs == There(repo, AiderConf)
      own == SubSeq(confs, 1, Min({1, Len(confs)})) \o There(repo, <<AiderIgnore>>)
      files == Filed(repo, own \o (IF own = <<>> THEN <<>> ELSE There(repo, <<Conventions>>)))
      notes == NotesOf(files, LAMBDA f : {n \in Noted(repo, f) : n.code # "empty" \/ f.kind # "aider-ignore"})
  IN Result("aider", files, notes, own # <<>>,
            Usable(files, {"aider-conf", "aider-conventions", "aider-ignore"}) \/ own # <<>>, HasErrors(notes))

\* detectAgents, over the registry
DetectAgents(repo) ==
  <<DetectCursor(repo), DetectClaudeCode(repo), DetectCodex(repo), DetectCopilot(repo),
    DetectWindsurf(repo), DetectGeminiCli(repo), DetectAider(repo)>>

---------------------------------------------------------------------------
\* By being there, whatever they hold: .geminiignore, .aiderignore and Aider's conf
ByBeingThere(repo, agent) ==
  \/ agent.id = "gemini-cli" /\ Exists(repo, GeminiIgnore)
  \/ agent.id = "aider" /\ agent.detected

\* types.ts: a configured agent has a "non-empty, usable project instruction/config file".
UsableFiles(agent) == {f \in ToSet(agent.files) : f.readable /\ ~f.empty /\ ~f.broken}

\* An agent is configured exactly when a file that it reads can be used, or by one's being
\* there, and misconfigured when all that it has is settings that cannot be parsed.
Unread == {"cursor-rule-ignored-md", "codex-config"}
StatusIsEarned(repo, agent) ==
  /\ agent.configured <=> ByBeingThere(repo, agent) \/ \E f \in UsableFiles(agent) : f.kind \notin Unread
  /\ agent.configured => agent.detected
  /\ agent.status = "misconfigured" <=> ParseProblems(agent.files) /\ ~agent.configured
  /\ agent.status = "configured" <=> agent.configured
  /\ \A i, j \in DOMAIN agent.files : agent.files[i].path = agent.files[j].path => i = j

\* A file that cannot be used is told of, but for what is too large in three places, an
\* empty .aiderignore and what has gone.
Untold == {"agents-md", "codex-config", "gemini-settings"}
UnusableIsTold(repo, agent) ==
  \A f \in ToSet(agent.files) :
    \/ f \in UsableFiles(agent)
    \/ \E n \in agent.notes : n.file = f.path
    \/ StateOf(repo, f.path) = "large" /\ f.kind \in Untold
    \/ f.kind = "aider-ignore" \/ ~Exists(repo, f.path)

\* Cursor and Codex see the same AGENTS.md, but for one among Cursor's rules.
InstructionsAgree(repo, cursor, codex) ==
  LET of(agent) == {f \in ToSet(agent.files) : f.kind = "agents-md"} IN
  /\ of(cursor) \subseteq of(codex)
  /\ \A f \in of(codex) : f.path \in ToSet(repo.listed) /\ ~UnderRules(f.path, "cursor") => f \in of(cursor)

\* A file that is repaired, or added, takes nothing from any agent.
Rank(status) == CASE status = "absent" -> 0 [] status = "configured" -> 2 [] OTHER -> 1
RepairHelps(repo, agents, path) ==
  LET listed == IF path \in ToSet(repo.listed) THEN repo.listed ELSE Append(repo.listed, path)
      repaired == DetectAgents([repo EXCEPT !.state = (path :> "text") @@ @, !.listed = listed])
  IN \A i \in DOMAIN agents : Rank(repaired[i].status) >= Rank(agents[i].status)

SetUpHolds(repo, agents, paths) ==
  /\ \A agent \in ToSet(agents) : StatusIsEarned(repo, agent) /\ UnusableIsTold(repo, agent)
  /\ InstructionsAgree(repo, agents[1], agents[3])
  /\ \A p \in paths : RepairHelps(repo, agents, p)
AgentsAreDetected(repo, paths) == SetUpHolds(repo, DetectAgents(repo), paths)
=============================================================================
