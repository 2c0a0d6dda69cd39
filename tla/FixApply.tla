----------------------------- MODULE FixApply -----------------------------
(***************************************************************************)
(* Safe Fix: applyFixPlan of src/core/fix/apply.ts with the backups, the   *)
(* check for concurrent changes and undoFix of backup.ts.                  *)
(*                                                                         *)
(* An apply reads its targets, computes from what it read the text each    *)
(* one is to have, makes a backup, and then, one target after the other,   *)
(* compares the file with the backup and writes.  Other applies (another   *)
(* process), undos and the user's editor work on the same files.  A text   *)
(* is a base, what the user wrote, with or without the block of the fix.   *)
(***************************************************************************)
EXTENDS Integers, Sequences, FiniteSets

CONSTANTS
  Appliers,      \* the calls of applyFixPlan; also the ids of their audits
  Order,         \* the targets of the plan, in the order of the writers
  Strict,        \* those whose writer refuses some texts (settings.json, config.toml)
  Bases,         \* what a user may write
  Empty,         \* nothing: the base of a file a fix creates
  Huge,          \* bases above 512 KB (or unreadable), which read as null
  Links,         \* bases that stand for a symbolic link
  Rejected,      \* bases a strict writer refuses (invalid JSON, sandbox_mode)
  InitialDisk,
  DryRun,
  UndoAfter,     \* TRUE: an apply is undone only once it has ended
  MaxEdits,      \* bound on the user's edits
  Faults,        \* TRUE: writes may fail, processes may crash
  None

Targets == {Order[i] : i \in DOMAIN Order}
Text == [base: Bases, fixed: BOOLEAN]

ASSUME FixAssumption ==
  /\ IsFiniteSet(Appliers)
  /\ Order # <<>> /\ Order \in Seq(Targets)
  /\ \A i, j \in DOMAIN Order : Order[i] = Order[j] => i = j
  /\ Strict \subseteq Targets
  /\ Empty \in Bases /\ Huge \cup Links \cup Rejected \subseteq Bases \ {Empty}
  /\ None \notin Text /\ None \notin Appliers
  /\ InitialDisk \in [Targets -> Text \cup {None}]
  /\ MaxEdits \in Nat
  /\ DryRun \in BOOLEAN /\ UndoAfter \in BOOLEAN /\ Faults \in BOOLEAN

VARIABLES
  disk,      \* the text of each target, or None
  pc,        \* where each apply stands
  at,        \* the target its loop is at
  read,      \* what it read of each target (null is None)
  hashed,    \* what the hash of the entry being made is of, or None (null)
  entries,   \* the entries of its backup
  saved,     \* the applies whose audit.json was written
  written,   \* the targets it wrote
  undoing,   \* the apply being undone, or None, ...
  undoAt,    \* ... and the entry undoFix is at
  undone,    \* the applies whose undo came to its end
  raced,     \* history: its target changed since it was compared with the backup
  edits

fixVars == <<disk, pc, at, read, hashed, entries, saved, written, undoing, undoAt, undone,
             raced, edits>>
undoVars == <<undoing, undoAt, undone>>

---------------------------------------------------------------------------
Exists(x) == x # None
IsLink(x) == Exists(x) /\ x.base \in Links

\* readTextFile: null when the file is missing or too large.
Readable(x) == IF Exists(x) /\ x.base \in Huge THEN None ELSE x

NeedsFix(x) == Exists(x) => ~x.fixed
WithFix(x) == [base |-> IF Exists(x) THEN x.base ELSE Empty, fixed |-> TRUE]

\* The writer of the target throws while it computes the preview.
PreviewThrows(t, x) == t \in Strict /\ Exists(x) /\ x.base \in Rejected /\ ~x.fixed

\* The targets with something to add, in order: the steps of the apply.
StepsOf(texts) == SelectSeq(Order, LAMBDA t : NeedsFix(texts[t]))
Steps(a) == StepsOf(read[a])
Target(a) == Steps(a)[at[a]]

Entry(t, existed, sha, copy) == [target |-> t, existed |-> existed, sha |-> sha, copy |-> copy]
EntryOf(a, t) == CHOOSE e \in {entries[a][i] : i \in DOMAIN entries[a]} : e.target = t

FixInit ==
  /\ disk = InitialDisk
  /\ pc = [a \in Appliers |-> "read"]
  /\ at = [a \in Appliers |-> 1]
  /\ read = [a \in Appliers |-> [t \in Targets |-> None]]
  /\ hashed = [a \in Appliers |-> None]
  /\ entries = [a \in Appliers |-> <<>>]
  /\ saved = {}
  /\ written = [a \in Appliers |-> {}]
  /\ undoing = None /\ undoAt = 1 /\ undone = {}
  /\ raced = [a \in Appliers |-> FALSE]
  /\ edits = 0

Goto(a, label, i) == pc' = [pc EXCEPT ![a] = label] /\ at' = [at EXCEPT ![a] = i]
Done(a) == Goto(a, "done", at[a])

\* Whoever changes a file races with the applies about to write it.
Changes(t, x) ==
  /\ disk' = [disk EXCEPT ![t] = x]
  /\ raced' = [b \in Appliers |-> raced[b] \/ (pc[b] = "write" /\ Target(b) = t)]

\* readCursorignore, readClaudeSettings, readCodexConfig, readSimpleIgnore (2x)
ReadTarget(a) ==
  /\ pc[a] = "read"
  /\ read' = [read EXCEPT ![a][Order[at[a]]] = Readable(disk[Order[at[a]]])]
  /\ IF at[a] < Len(Order) THEN Goto(a, "read", at[a] + 1) ELSE Goto(a, "preview", 1)
  /\ UNCHANGED <<disk, hashed, entries, saved, written, undoVars, raced, edits>>

\* The previews (one may throw, out of applyFixPlan), the preflight (a link is
\* refused), and the return of a dry run.
Preview(a) ==
  /\ pc[a] = "preview"
  /\ IF \/ \E t \in Targets : PreviewThrows(t, read[a][t])
        \/ \E i \in DOMAIN Steps(a) : IsLink(disk[Steps(a)[i]])
        \/ DryRun
     THEN Done(a)
     ELSE IF Steps(a) = <<>> THEN Goto(a, "audit", 1) ELSE Goto(a, "stat", 1)
  /\ UNCHANGED <<disk, read, hashed, entries, saved, written, undoVars, raced, edits>>

NextEntry(a, e) ==
  /\ entries' = [entries EXCEPT ![a] = Append(@, e)]
  /\ IF at[a] < Len(Steps(a)) THEN Goto(a, "stat", at[a] + 1) ELSE Goto(a, "audit", 1)

\* createFixBackup's loop: lstat of a target, ...
BackupStat(a) ==
  /\ pc[a] = "stat"
  /\ LET x == disk[Target(a)] IN
     \/ IsLink(x) /\ Done(a) /\ UNCHANGED entries
     \/ ~Exists(x) /\ NextEntry(a, Entry(Target(a), FALSE, None, None))
     \/ Exists(x) /\ ~IsLink(x) /\ Goto(a, "hash", at[a]) /\ UNCHANGED entries
  /\ UNCHANGED <<disk, read, hashed, saved, written, undoVars, raced, edits>>

\* ... sha256File, which answers null for a file that is gone or cannot be read, ...
BackupHash(a) ==
  /\ pc[a] = "hash"
  /\ \E sha \in {disk[Target(a)]} \cup (IF Faults THEN {None} ELSE {}) :
       hashed' = [hashed EXCEPT ![a] = sha]
  /\ Goto(a, "copy", at[a])
  /\ UNCHANGED <<disk, read, entries, saved, written, undoVars, raced, edits>>

\* ... then copyFile; a file that is gone by now is recorded as not existing.
BackupCopy(a) ==
  /\ pc[a] = "copy"
  /\ LET x == disk[Target(a)] IN
     NextEntry(a, Entry(Target(a), Exists(x), hashed[a], x))
  /\ UNCHANGED <<disk, read, hashed, saved, written, undoVars, raced, edits>>

\* audit.json is written last.
SaveAudit(a) ==
  /\ pc[a] = "audit"
  /\ saved' = saved \cup {a}
  /\ IF Steps(a) = <<>> THEN Done(a) ELSE Goto(a, "assert", 1)
  /\ UNCHANGED <<disk, read, hashed, entries, written, undoVars, raced, edits>>

\* A slip that a run must notice: only a deleted file counts as a change.
Unchanged_Exists(e, x) == Exists(x) = e.existed

\* assertTargetsUnchangedSinceBackup: a hash that is null is not compared.
Unchanged(e, x) ==
  IF Exists(x) THEN ~IsLink(x) /\ e.existed /\ e.sha \in {None, x} ELSE ~e.existed

Assert(a) ==
  /\ pc[a] = "assert"
  /\ IF Unchanged(EntryOf(a, Target(a)), disk[Target(a)])
     THEN Goto(a, "write", at[a])
     ELSE Done(a)
  /\ raced' = [raced EXCEPT ![a] = FALSE]
  /\ UNCHANGED <<disk, read, hashed, entries, saved, written, undoVars, edits>>

\* A slip that a run must notice: the block is all that is written.
Write_BlockOnly(a) ==
  /\ pc[a] = "write"
  /\ ~IsLink(disk[Target(a)])
  /\ Changes(Target(a), WithFix(None))
  /\ written' = [written EXCEPT ![a] = @ \cup {Target(a)}]
  /\ IF at[a] < Len(Steps(a)) THEN Goto(a, "assert", at[a] + 1) ELSE Done(a)
  /\ UNCHANGED <<read, hashed, entries, saved, undoVars, edits>>

\* The writer's atomicWriteTextFile of the text computed from what was read.
Write(a) ==
  /\ pc[a] = "write"
  /\ ~IsLink(disk[Target(a)])
  /\ Changes(Target(a), WithFix(read[a][Target(a)]))
  /\ written' = [written EXCEPT ![a] = @ \cup {Target(a)}]
  /\ IF at[a] < Len(Steps(a)) THEN Goto(a, "assert", at[a] + 1) ELSE Done(a)
  /\ UNCHANGED <<read, hashed, entries, saved, undoVars, edits>>

\* resolveSafeFixWritePath refuses, a write fails, or the process dies: the
\* apply ends where it is (partial when it has written something).
Fails(a) ==
  /\ \/ pc[a] = "write" /\ IsLink(disk[Target(a)])
     \/ Faults /\ pc[a] # "done"
  /\ Done(a)
  /\ UNCHANGED <<disk, read, hashed, entries, saved, written, undoVars, raced, edits>>

\* fix-undo <auditId>
UndoStart(a) ==
  /\ undoing = None
  /\ a \in saved \ undone
  /\ UndoAfter => pc[a] = "done"
  /\ undoing' = a /\ undoAt' = 1
  /\ UNCHANGED <<disk, pc, at, read, hashed, entries, saved, written, undone, raced, edits>>

\* A slip that a run must notice: a created file is left.
UndoEntry_KeepsCreated ==
  /\ undoing # None
  /\ undoAt <= Len(entries[undoing])
  /\ LET e == entries[undoing][undoAt] IN
     IF e.existed /\ ~IsLink(disk[e.target])
     THEN Changes(e.target, e.copy)
     ELSE UNCHANGED <<disk, raced>>
  /\ undoAt' = undoAt + 1
  /\ UNCHANGED <<pc, at, read, hashed, entries, saved, written, undoing, undone, edits>>

\* The next entry: copy the backup over the target, or unlink it; what the
\* target holds now is not looked at.  A link stays and is written through.
UndoEntry ==
  /\ undoing # None
  /\ undoAt <= Len(entries[undoing])
  /\ LET e == entries[undoing][undoAt] IN
     IF e.existed /\ IsLink(disk[e.target])
     THEN UNCHANGED <<disk, raced>>
     ELSE Changes(e.target, IF e.existed THEN e.copy ELSE None)
  /\ undoAt' = undoAt + 1
  /\ UNCHANGED <<pc, at, read, hashed, entries, saved, written, undoing, undone, edits>>

\* The undo record is written; or (Faults) the undo stops half-way.
UndoEnds ==
  /\ undoing # None
  /\ \/ undoAt > Len(entries[undoing]) /\ undone' = undone \cup {undoing}
     \/ Faults /\ UNCHANGED undone
  /\ undoing' = None /\ undoAt' = 1
  /\ UNCHANGED <<disk, pc, at, read, hashed, entries, saved, written, raced, edits>>

\* The user creates, changes or deletes a target.
Edit ==
  /\ edits < MaxEdits
  /\ \E t \in Targets, x \in [base: Bases \ {Empty}, fixed: {FALSE}] \cup {None} :
       x # disk[t] /\ Changes(t, x)
  /\ edits' = edits + 1
  /\ UNCHANGED <<pc, at, read, hashed, entries, saved, written, undoVars>>

FixNext ==
  \/ \E a \in Appliers :
       \/ ReadTarget(a)
       \/ Preview(a)
       \/ BackupStat(a)
       \/ BackupHash(a)
       \/ BackupCopy(a)
       \/ SaveAudit(a)
       \/ Assert(a)
       \/ Write(a)
       \/ Fails(a)
       \/ UndoStart(a)
  \/ UndoEntry
  \/ UndoEnds
  \/ Edit

FixSpec == FixInit /\ [][FixNext]_fixVars

---------------------------------------------------------------------------
\* An apply only overwrites a file whose backup is on disk (audit.json written) and that
\* still is as it was when it was hashed for that backup, unless it changed in the instant
\* after the comparison.  A file whose hashing failed is overwritten as it is: that it is
\* still there, or still is not, is all that is compared then.
OverwritesAreChecked ==
  [][\A a \in Appliers : Write(a) =>
       LET e == EntryOf(a, Target(a))
           x == disk[Target(a)]
       IN /\ a \in saved
          /\ raced[a] \/ (IF e.existed THEN x # None /\ e.sha \in {None, x} ELSE x = None)]_fixVars

\* As long as no editor is at work, no interleaving of applies and undos, ended,
\* failed or killed, leaves a target with a text that is neither what the user
\* had nor that text with the fix.
OnlyFixes ==
  edits = 0 => \A t \in Targets : disk[t] \in {InitialDisk[t], WithFix(InitialDisk[t])}

NotBegun(a) == pc[a] = "read" /\ at[a] = 1

\* An apply that ended, stopped half-way or was killed, once undone, leaves every
\* target as it was, the ones it created removed, also when the undo
\* itself first stopped half-way (as long as nobody else touches the files).
UndoRestores ==
  edits = 0 /\ undone # {} /\ (\A a \in Appliers \ undone : NotBegun(a)) /\ Cardinality(undone) = 1
    => disk = InitialDisk

---------------------------------------------------------------------------
(* The instance of MCFixApply.cfg.                                             *)

Ignore == ".cursorignore"
Config == ".codex/config.toml"
MCOrder == <<Ignore, Config>>
MCStrict == {Config}
MCBases == {"", "text1", "text2", "huge", "link", "sandbox"}
Plain(base) == [base |-> base, fixed |-> FALSE]
MCDisk == [t \in Targets |-> IF t = Ignore THEN Plain("text1") ELSE None]
=============================================================================
