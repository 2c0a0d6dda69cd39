----------------------------- MODULE BrainStore -----------------------------
(***************************************************************************)
(* LocalBrainStore of src/core/understanding/brain/storage/store.ts:       *)
(* snapshots/<id>/brain.json, one file per snapshot, and store.json, the   *)
(* registry with a checksum per snapshot and the id of the latest one.     *)
(*                                                                         *)
(* Several calls (of an MCP session, of CLI processes) save and load at    *)
(* the same time; each file operation they await is a step.  A write       *)
(* replaces a file at once (atomicWriteTextFile where rename replaces).    *)
(* The checksum of a text is taken for the text.                           *)
(***************************************************************************)
EXTENDS FiniteSets, TLC

CONSTANTS
  Callers,
  Ids,            \* snapshot ids
  Texts,          \* serialized, redacted brains
  Brains,         \* what may be saved: [id, text]
  InitialStores,  \* what the callers may find: [files, registry]
  Faults,         \* TRUE: an operation may fail, a process may die
  None

Entry == [id: Ids, checksum: Texts, boundary: {"current", "other", "missing"}]
Registry == [boundary: {"current", "other", "missing"}, latest: Ids \cup {None},
             snapshots: SUBSET Entry]
Brain == [id: Ids, text: Texts]

\* What readMeta answers when there is no store.json.
NoSnapshots == [boundary |-> "missing", latest |-> None, snapshots |-> {}]

\* The entries a registry holds and the files of a store agree; entries stamped
\* with another version of the ownership rules, or none, may be left over.
Consistent(files, registry) ==
  /\ \A e \in registry.snapshots : files[e.id] = e.checksum
  /\ \A e, f \in registry.snapshots : e.id = f.id => e = f
  /\ registry.latest # None => \E e \in registry.snapshots :
       e.id = registry.latest /\ (registry.boundary = "current" => e.boundary = "current")

ASSUME StoreAssumption ==
  /\ None \notin Ids \cup Texts \cup Brain \cup Registry
  /\ Brains \subseteq Brain
  /\ InitialStores \subseteq [files: [Ids -> Texts \cup {None}], registry: Registry]
  /\ \A store \in InitialStores : Consistent(store.files, store.registry)
  /\ Faults \in BOOLEAN

VARIABLES
  files,     \* brain.json of each snapshot, or None
  registry,  \* store.json (NoSnapshots when it is missing)
  pc,        \* where each call stands
  brain,     \* the brain a call saves, or None
  target,    \* the snapshot id a call loads, or None
  seen,      \* the registry a call has read
  saved,     \* history: the ids whose save returned
  served,    \* history: the ids of the brains that loads returned
  stale,     \* history: a save wrote the registry although it had changed since its read
  clash      \* history: two saves of one id with different texts were in flight together

storeVars == <<files, registry, pc, brain, target, seen, saved, served, stale, clash>>

---------------------------------------------------------------------------
EntryOf(reg, id) == {e \in reg.snapshots : e.id = id}

NewEntry(b) == [id |-> b.id, checksum |-> b.text, boundary |-> "current"]

\* A slip that a run must notice: only the new snapshot is listed.
WithSnapshot_Alone(reg, b) ==
  [boundary |-> "current", latest |-> b.id, snapshots |-> {NewEntry(b)}]

\* What a save makes of the registry it read: its entry replaces one of its id.
WithSnapshot(reg, b) ==
  [boundary |-> "current", latest |-> b.id,
   snapshots |-> (reg.snapshots \ EntryOf(reg, b.id)) \cup {NewEntry(b)}]

\* A slip that a run must notice: an entry without a stamp is let through.
Serves_Unstamped(reg, id, text) ==
  \A e \in EntryOf(reg, id) : e.boundary # "other" /\ e.checksum = text

\* loadSnapshot lets through what the registry it read has stamped and whose
\* checksum agrees, and also what that registry does not list.
Serves(reg, id, text) ==
  \A e \in EntryOf(reg, id) : e.boundary = "current" /\ e.checksum = text

StoreInit ==
  /\ \E store \in InitialStores : files = store.files /\ registry = store.registry
  /\ pc = [c \in Callers |-> "idle"]
  /\ brain = [c \in Callers |-> None]
  /\ target = [c \in Callers |-> None]
  /\ seen = [c \in Callers |-> NoSnapshots]
  /\ saved = {} /\ served = {}
  /\ stale = FALSE /\ clash = FALSE

Goto(c, label) == pc' = [pc EXCEPT ![c] = label]

\* The call is over, with an answer or an error.
Leave(c) ==
  /\ Goto(c, "idle")
  /\ brain' = [brain EXCEPT ![c] = None]
  /\ target' = [target EXCEPT ![c] = None]
  /\ seen' = [seen EXCEPT ![c] = NoSnapshots]

\* saveSnapshot
BeginSave(c, b) ==
  /\ pc[c] = "idle"
  /\ Goto(c, "look")
  /\ brain' = [brain EXCEPT ![c] = b]
  /\ clash' = (clash \/ \E d \in Callers :
                 brain[d] # None /\ brain[d].id = b.id /\ brain[d].text # b.text)
  /\ UNCHANGED <<files, registry, target, seen, saved, served, stale>>

\* A slip that a run must notice: another text of the same id is not refused.
Look_Overwrites(c) ==
  /\ pc[c] = "look"
  /\ Goto(c, IF files[brain[c].id] = brain[c].text THEN "find" ELSE "write")
  /\ UNCHANGED <<files, registry, brain, target, seen, saved, served, stale, clash>>

\* Its look at brain.json: there is none, the same one, or another ("refusing
\* overwrite").
Look(c) ==
  /\ pc[c] = "look"
  /\ \/ /\ files[brain[c].id] = None /\ Goto(c, "write")
        /\ UNCHANGED <<brain, target, seen>>
     \/ /\ files[brain[c].id] = brain[c].text /\ Goto(c, "find")
        /\ UNCHANGED <<brain, target, seen>>
     \/ files[brain[c].id] \notin {None, brain[c].text} /\ Leave(c)
  /\ UNCHANGED <<files, registry, saved, served, stale, clash>>

\* The same one is there: the entry found is the answer; the registry stays as
\* it is, its latest id too.
Find(c) ==
  /\ pc[c] = "find"
  /\ IF EntryOf(registry, brain[c].id) # {}
     THEN Leave(c) /\ saved' = saved \cup {brain[c].id}
     ELSE Goto(c, "write") /\ UNCHANGED <<brain, target, seen, saved>>
  /\ UNCHANGED <<files, registry, served, stale, clash>>

\* A slip that a run must notice: the write is not awaited, so it may be lost.
WriteBrain_Unawaited(c) ==
  /\ pc[c] = "write"
  /\ files' \in {files, [files EXCEPT ![brain[c].id] = brain[c].text]}
  /\ Goto(c, "read")
  /\ UNCHANGED <<registry, brain, target, seen, saved, served, stale, clash>>

WriteBrain(c) ==
  /\ pc[c] = "write"
  /\ files' = [files EXCEPT ![brain[c].id] = brain[c].text]
  /\ Goto(c, "read")
  /\ UNCHANGED <<registry, brain, target, seen, saved, served, stale, clash>>

ReadMeta(c) ==
  /\ pc[c] = "read"
  /\ seen' = [seen EXCEPT ![c] = registry]
  /\ Goto(c, "register")
  /\ UNCHANGED <<files, registry, brain, target, saved, served, stale, clash>>

WriteMeta(c) ==
  /\ pc[c] = "register"
  /\ registry' = WithSnapshot(seen[c], brain[c])
  /\ stale' = (stale \/ registry # seen[c])
  /\ saved' = saved \cup {brain[c].id}
  /\ Leave(c)
  /\ UNCHANGED <<files, served, clash>>

\* loadLatest: nothing is loaded from a store of other ownership rules.
LoadLatest(c) ==
  /\ pc[c] = "idle"
  /\ registry.boundary = "current"
  /\ registry.latest # None
  /\ target' = [target EXCEPT ![c] = registry.latest]
  /\ Goto(c, "load")
  /\ UNCHANGED <<files, registry, brain, seen, saved, served, stale, clash>>

\* loadSnapshot of an id the caller names.
BeginLoad(c, id) ==
  /\ pc[c] = "idle"
  /\ target' = [target EXCEPT ![c] = id]
  /\ Goto(c, "load")
  /\ UNCHANGED <<files, registry, brain, seen, saved, served, stale, clash>>

\* loadSnapshot reads the registry ...
LoadMeta(c) ==
  /\ pc[c] = "load"
  /\ IF registry.boundary = "current"
     THEN /\ seen' = [seen EXCEPT ![c] = registry]
          /\ Goto(c, "open")
          /\ UNCHANGED <<brain, target>>
     ELSE Leave(c)
  /\ UNCHANGED <<files, registry, saved, served, stale, clash>>

\* ... and then the file.
LoadFile(c) ==
  /\ pc[c] = "open"
  /\ LET text == files[target[c]] IN
     served' = IF text # None /\ Serves(seen[c], target[c], text)
               THEN served \cup {target[c]}
               ELSE served
  /\ Leave(c)
  /\ UNCHANGED <<files, registry, saved, stale, clash>>

\* A file operation fails, or the process dies.
Abort(c) ==
  /\ Faults
  /\ pc[c] # "idle"
  /\ Leave(c)
  /\ UNCHANGED <<files, registry, saved, served, stale, clash>>

StoreNext ==
  \E c \in Callers :
    \/ \E b \in Brains : BeginSave(c, b)
    \/ Look(c)
    \/ Find(c)
    \/ WriteBrain(c)
    \/ ReadMeta(c)
    \/ WriteMeta(c)
    \/ LoadLatest(c)
    \/ \E id \in Ids : BeginLoad(c, id)
    \/ LoadMeta(c)
    \/ LoadFile(c)
    \/ Abort(c)

StoreSpec == StoreInit /\ [][StoreNext]_storeVars

---------------------------------------------------------------------------
StoreTypeOK ==
  /\ files \in [Ids -> Texts \cup {None}]
  /\ registry \in Registry
  /\ pc \in [Callers -> {"idle", "look", "find", "write", "read", "register", "load", "open"}]
  /\ brain \in [Callers -> Brains \cup {None}]
  /\ target \in [Callers -> Ids \cup {None}]
  /\ seen \in [Callers -> Registry]
  /\ saved \subseteq Ids /\ served \subseteq Ids
  /\ stale \in BOOLEAN /\ clash \in BOOLEAN

\* Every snapshot the registry lists is on disk as it was registered, and of two
\* saves, loads and crashes none leaves a latest snapshot that cannot be loaded:
\* a session that starts anew gets a brain (saveSnapshot writes the brain before
\* the registry).  Two saves of one id with different texts at once may break it.
RegisteredIsStored == clash \/ Consistent(files, registry)

\* A snapshot whose save returned stays in the registry, unless a save has
\* written back a registry it had read before another save changed it.
SavedIsListed == stale \/ \A id \in saved : EntryOf(registry, id) # {}

\* "Identical re-save is idempotent; divergent overwrite is refused"
\* (project-brain.md): no stored snapshot changes, unless two saves of one id
\* with different texts were in flight together.
SnapshotsAreImmutable ==
  [][clash' \/ \A id \in Ids : files[id] # None => files'[id] = files[id]]_storeVars

\* A snapshot saved under other ownership rules is never served, also once newer
\* snapshots have made the store current ("Snapshots without this stamp (or with
\* a mismatch) must not be served as current truth", SnapshotMeta).
OldBoundaryNotServed ==
  \A e \in registry.snapshots : e.boundary # "current" => e.id \notin served

---------------------------------------------------------------------------
(* The instance of MCBrainStore.cfg.                                             *)

MCIds == {"snapA", "snapB", "snapOld"}
MCTexts == {"text1", "text2", "text3"}
MCBrains == {[id |-> "snapA", text |-> "text1"], [id |-> "snapA", text |-> "text2"],
             [id |-> "snapB", text |-> "text2"], [id |-> "snapOld", text |-> "text3"]}

CallersAlike == Permutations(Callers)

Files(id, text) == [i \in MCIds |-> IF i = id THEN text ELSE None]
OldStore(stamp) ==
  [files |-> Files("snapOld", "text3"),
   registry |-> [boundary |-> stamp, latest |-> "snapOld",
                 snapshots |-> {[id |-> "snapOld", checksum |-> "text3", boundary |-> stamp]}]]

\* No store; one of before the stamp, one of other rules; and what a save that
\* died after its first write leaves.
MCStores ==
  {[files |-> Files(None, None), registry |-> NoSnapshots],
   [files |-> Files("snapA", "text1"), registry |-> NoSnapshots],
   OldStore("missing"), OldStore("other")}
=============================================================================
