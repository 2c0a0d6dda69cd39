----------------------------- MODULE TwinCache -----------------------------
(***************************************************************************)
(* The digital twin's snapshot: updateTwin, loadTwinSnapshot,              *)
(* saveTwinSnapshot and invalidateTwinSnapshot of                          *)
(* src/product/twin/store.ts.                                              *)
(*                                                                         *)
(* The key of a snapshot hashes the names of the changed files, not what   *)
(* is in them.  Calls overlap at every await, the project changes under    *)
(* them and a call may die between removing a snapshot and storing its own.*)
(***************************************************************************)
EXTENDS Naturals

CONSTANTS
  Callers,
  TwinKeys,     \* a key stands for a list of changed files, in any order
  Absent,
  MaxCalls, MaxTrees

VARIABLES
  snapshot,     \* .agentdoctor/twin/snapshot.json
  calls,        \* what each caller's updateTwin is at, or Absent
  tree,         \* the version of the project
  begun         \* how many calls have begun

twinVars == <<snapshot, calls, tree, begun>>

\* What a twin is stored with: rules is the ownership boundary its key was computed
\* under, home whether it was stored at this root.
Stored == [key : TwinKeys, rules : {"current", "older"}, home : BOOLEAN, built : 0..MaxTrees]

\* Nothing is stored yet; an earlier release stored a twin; the directory was copied.
EarlierSnapshots ==
  {Absent} \cup [key : TwinKeys, rules : {"older"}, home : {TRUE}, built : {0}]
           \cup [key : TwinKeys, rules : {"current"}, home : {FALSE}, built : {0}]

TwinInit ==
  /\ snapshot \in EarlierSnapshots
  /\ calls = [c \in Callers |-> Absent]
  /\ tree = 0
  /\ begun = 0

Move(c, from, to) ==
  /\ calls[c] # Absent /\ calls[c].at = from
  /\ calls' = [calls EXCEPT ![c].at = to]

\* updateTwin; since (history) is the project's version at the call.
Begin(c) ==
  /\ calls[c] = Absent /\ begun < MaxCalls
  /\ begun' = begun + 1
  /\ \E key \in TwinKeys, force \in BOOLEAN :
       calls' = [calls EXCEPT ![c] =
         [at |-> IF force THEN "look" ELSE "load", key |-> key, force |-> force,
          found |-> FALSE, twin |-> Absent, since |-> tree]]
  /\ UNCHANGED <<snapshot, tree>>

\* loadTwinSnapshot refuses a twin of another root or of older rules.
Loadable == snapshot # Absent /\ snapshot.home /\ snapshot.rules = "current"

Serves(key) == Loadable /\ snapshot.key = key

Load(c) ==
  /\ calls[c] # Absent /\ calls[c].at = "load"
  /\ calls' = [calls EXCEPT ![c] =
       IF Serves(calls[c].key) THEN [@ EXCEPT !.at = "answer", !.twin = snapshot]
                               ELSE [@ EXCEPT !.at = "look"]]
  /\ UNCHANGED <<snapshot, tree, begun>>

\* invalidateTwinSnapshot: pathExists, then rm.
Look(c) ==
  /\ calls[c] # Absent /\ calls[c].at = "look"
  /\ calls' = [calls EXCEPT ![c].at = "remove", ![c].found = snapshot # Absent]
  /\ UNCHANGED <<snapshot, tree, begun>>

Remove(c) ==
  /\ Move(c, "remove", "build")
  /\ snapshot' = IF calls[c].found THEN Absent ELSE snapshot
  /\ UNCHANGED <<tree, begun>>

\* buildSoftwareDigitalTwinSnapshot reads the project.
Build(c) ==
  /\ calls[c] # Absent /\ calls[c].at = "build"
  /\ calls' = [calls EXCEPT ![c].at = "save", ![c].twin =
       [key |-> calls[c].key, rules |-> "current", home |-> TRUE, built |-> tree]]
  /\ UNCHANGED <<snapshot, tree, begun>>

\* saveTwinSnapshot
Save(c) ==
  /\ Move(c, "save", "answer")
  /\ snapshot' = calls[c].twin
  /\ UNCHANGED <<tree, begun>>

Answer(c) ==
  /\ calls[c] # Absent /\ calls[c].at = "answer"
  /\ calls' = [calls EXCEPT ![c] = Absent]
  /\ UNCHANGED <<snapshot, tree, begun>>

\* The build throws, a file operation fails, or the process dies.
Abort(c) ==
  /\ calls[c] # Absent /\ calls[c].at # "answer"
  /\ calls' = [calls EXCEPT ![c] = Absent]
  /\ UNCHANGED <<snapshot, tree, begun>>

Change ==
  /\ tree < MaxTrees /\ tree' = tree + 1
  /\ UNCHANGED <<snapshot, calls, begun>>

TwinNext ==
  \/ \E c \in Callers : Begin(c) \/ Load(c) \/ Look(c) \/ Remove(c) \/ Build(c) \/ Save(c)
                        \/ Answer(c) \/ Abort(c)
  \/ Change

TwinSpec == TwinInit /\ [][TwinNext]_twinVars

---------------------------------------------------------------------------
\* A twin that updateTwin answers is at least as new as the call, or is one that an
\* unforced call found stored for the same file names, at this root and under today's
\* ownership rules: however calls overlap and die, nobody is served a stranger's twin.
TwinFreshOrKeyed ==
  \A c \in Callers : calls[c] # Absent /\ calls[c].at = "answer" =>
    LET twin == calls[c].twin IN
    /\ twin.key = calls[c].key /\ twin.rules = "current" /\ twin.home
    /\ twin.built >= calls[c].since \/ ~calls[c].force
=============================================================================
