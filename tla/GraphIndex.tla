----------------------------- MODULE GraphIndex -----------------------------
(***************************************************************************)
(* The incremental intelligence graph: graphBuild, graphRebuild,           *)
(* graphUpdate and graphStatus of src/intelligence/graph/incremental.ts.   *)
(*                                                                         *)
(* The graph is built first and the files are hashed afterwards; the index *)
(* stores both.  Files change and are committed meanwhile, calls overlap   *)
(* and fail.  A hash stands for the content it is of, a graph for the      *)
(* contents it was built from.  Both are of the first files in order, up   *)
(* to a limit; git tells of all files but those it ignores and those whose *)
(* names it quotes.                                                        *)
(***************************************************************************)
EXTENDS Naturals, Sequences

CONSTANTS
  Callers,
  SortedFiles,  \* the TypeScript files that may exist, in order
  Unreported,   \* those that git ignores, or quotes the names of
  MaxListed,    \* listTsFiles' limit
  Contents,
  Absent,
  MaxCalls, MaxEdits

VARIABLES
  index,        \* .agentdoctor/graph/index.json
  calls,        \* what each caller's call is at, or Absent
  files, head,  \* what the files hold, and what git's last commit holds
  spent         \* how many calls have begun and how many edits were made, and the files
                \* that slipped (history): they changed between a call's build and its hashing

graphVars == <<index, calls, files, head, spent>>

SourceFiles == {SortedFiles[i] : i \in DOMAIN SortedFiles}

\* listTsFiles: the first files in order, so that one that comes or goes may move others.
Listed(texts) ==
  LET there == SelectSeq(SortedFiles, LAMBDA f : texts[f] # Absent)
  IN {there[i] : i \in DOMAIN there \cap 1..MaxListed}

\* What a build or a hashing of the files tells of.
Seen(texts) == [f \in SourceFiles |-> IF f \in Listed(texts) THEN texts[f] ELSE Absent]

\* An index that cannot be used: none, a broken one, one of older ownership rules.
Unusable(state) == [state |-> state, graph |-> Absent, hashes |-> Absent]

\* With a commit, or outside git.
GraphInit ==
  /\ \E state \in {"missing", "corrupt", "older"} : index = Unusable(state)
  /\ calls = [c \in Callers |-> Absent]
  /\ files \in [SourceFiles -> Contents]
  /\ head \in {files, Absent}
  /\ spent = [calls |-> 0, edits |-> 0, slipped |-> {}]

At(c, step) == calls[c] # Absent /\ calls[c].at = step

Begin(c, kind, first) ==
  /\ calls[c] = Absent /\ spent.calls < MaxCalls
  /\ spent' = [spent EXCEPT !.calls = @ + 1]
  /\ calls' = [calls EXCEPT ![c] =
       [at |-> first, kind |-> kind, loaded |-> Absent, graph |-> Absent,
        answer |-> Absent, rest |-> TRUE]]
  /\ UNCHANGED <<index, files, head>>

BeginBuild(c) == Begin(c, "build", "build")
BeginUpdate(c) == Begin(c, "update", "load")
BeginStatus(c) == Begin(c, "status", "load")

\* loadSnapshot: a missing, broken or older index is built afresh; status has nothing to
\* tell of it.
Load(c) ==
  /\ At(c, "load")
  /\ calls' = [calls EXCEPT ![c] =
       IF index.state = "valid" THEN [@ EXCEPT !.at = "compare", !.loaded = index]
       ELSE [@ EXCEPT !.at = IF calls[c].kind = "update" THEN "build" ELSE "answer"]]
  /\ UNCHANGED <<index, files, head, spent>>

Changed(old) == {f \in SourceFiles : old[f] # Seen(files)[f]}

\* gitChangedFiles, of names that end as TypeScript does: listed or not, but none of the
\* unreported.
GitChanged == IF head = Absent THEN {} ELSE {f \in SourceFiles \ Unreported : head[f] # files[f]}

\* A slip that a run must notice: what git reports is not asked for.
Outdated_HashesOnly(old) == Changed(old)

\* What graphUpdate rebuilds for: hashes that differ, and what git reports.
Outdated(old) == Changed(old) \cup GitChanged

Compare(c) ==
  /\ At(c, "compare")
  /\ LET old == calls[c].loaded IN
     calls' = [calls EXCEPT ![c] =
       IF calls[c].kind = "update" /\ Outdated(old.hashes) # {} THEN [@ EXCEPT !.at = "build"]
       ELSE [@ EXCEPT !.at = "answer", !.answer = old]]
  /\ UNCHANGED <<index, files, head, spent>>

\* buildIntelligenceGraph
BuildGraph(c) ==
  /\ At(c, "build")
  /\ calls' = [calls EXCEPT ![c].at = "hash", ![c].graph = Seen(files)]
  /\ UNCHANGED <<index, files, head, spent>>

\* listTsFiles and hashFiles
HashFiles(c) ==
  /\ At(c, "hash")
  /\ calls' = [calls EXCEPT ![c].at = "persist",
         ![c].answer = [state |-> "valid", graph |-> calls[c].graph, hashes |-> Seen(files)]]
  /\ UNCHANGED <<index, files, head, spent>>

Persist(c) ==
  /\ At(c, "persist")
  /\ index' = calls[c].answer
  /\ calls' = [calls EXCEPT ![c].at = "answer"]
  /\ UNCHANGED <<files, head, spent>>

Leave(c) ==
  /\ calls[c] # Absent
  /\ calls' = [calls EXCEPT ![c] = Absent]
  /\ UNCHANGED <<index, files, head, spent>>

Answer(c) == At(c, "answer") /\ Leave(c)

\* The build throws, a write fails, or the process dies.
Abort(c) == ~At(c, "answer") /\ Leave(c)

\* rest (history): no file has changed since the call began.
Unsettled == [c \in Callers |-> IF calls[c] = Absent THEN Absent ELSE [calls[c] EXCEPT !.rest = FALSE]]

\* slipped (history): what an edit changes of the files listed, while a call is to hash them.
Slipping ==
  IF \E c \in Callers : At(c, "hash") THEN {f \in SourceFiles : Seen(files)[f] # Seen(files')[f]} ELSE {}

Edit ==
  /\ spent.edits < MaxEdits
  /\ \E f \in SourceFiles, text \in Contents \cup {Absent} :
       files[f] # text /\ files' = [files EXCEPT ![f] = text]
  /\ spent' = [spent EXCEPT !.edits = @ + 1, !.slipped = @ \cup Slipping]
  /\ calls' = Unsettled
  /\ UNCHANGED <<index, head>>

Commit ==
  /\ head \notin {Absent, files}
  /\ head' = files
  /\ calls' = Unsettled
  /\ UNCHANGED <<index, files, spent>>

GraphNext ==
  \/ \E c \in Callers :
       \/ BeginBuild(c) \/ BeginUpdate(c) \/ BeginStatus(c)
       \/ Load(c) \/ Compare(c) \/ BuildGraph(c) \/ HashFiles(c) \/ Persist(c)
       \/ Answer(c) \/ Abort(c)
  \/ Edit \/ Commit

GraphSpec == GraphInit /\ [][GraphNext]_graphVars

---------------------------------------------------------------------------
\* A call that no edit disturbed answers the files as they are, with one exception: a
\* file that changed between the build and the hashing of an earlier call, whose hash is
\* now right while its graph is not.  Where git reports the file, even that lasts no longer
\* than until the file is committed: graphUpdate rebuilds for it.
UpdatesCatchUp ==
  \A c \in Callers : At(c, "answer") /\ calls[c].rest /\ calls[c].kind # "status" =>
    \A f \in SourceFiles :
      \/ calls[c].answer.graph[f] = Seen(files)[f]
      \/ /\ f \in spent.slipped /\ calls[c].answer.hashes[f] = Seen(files)[f]
         /\ head # Absent /\ f \notin Unreported => head[f] = files[f]
=============================================================================
