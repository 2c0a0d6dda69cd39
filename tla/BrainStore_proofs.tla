-------------------------- MODULE BrainStore_proofs --------------------------
(***************************************************************************)
(* Theorems about the brain store, for any callers, ids and brains:        *)
(* StoreTypeCorrect, SavedAreListed, OldNotServed, RegisteredAreStored and *)
(* Immutable.                                                              *)
(*                                                                         *)
(* TypeInv carries the types and which arguments a call holds where.  On   *)
(* top of it three invariants are each inductive: SavedIsListed itself;    *)
(* OldInv, the entries of other rules never change, in the registry or in  *)
(* what a call has read of it; and TextInv, as long as no two different    *)
(* texts were saved under one id at once, what calls are about to write    *)
(* agrees with the files, and so does what they have read of the registry. *)
(***************************************************************************)
EXTENDS BrainStore, TLAPS

PhaseInv ==
  \A c \in Callers :
    /\ pc[c] \in {"look", "find", "write", "read", "register"} => brain[c] \in Brains
    /\ pc[c] \in {"idle", "load", "open"} => brain[c] = None
    /\ pc[c] \in {"load", "open"} => target[c] \in Ids

TypeInv == StoreTypeOK /\ PhaseInv

\* The entries a registry holds of other ownership rules.
Old(reg) == {e \in reg.snapshots : e.boundary # "current"}

OldInv ==
  /\ \A e \in Old(registry) : files[e.id] # None /\ e.id \notin served
  /\ \A c \in Callers :
       /\ pc[c] \in {"register", "open"} => Old(seen[c]) = Old(registry)
       /\ pc[c] \in {"write", "read", "register"} =>
            \A e \in Old(registry) : e.id # brain[c].id

\* What call c will write or has written agrees with the files.
Agrees(c) ==
  /\ pc[c] = "write" => files[brain[c].id] \in {None, brain[c].text}
  /\ pc[c] \in {"find", "read", "register"} => files[brain[c].id] = brain[c].text
  /\ pc[c] = "register" => Consistent(files, seen[c])

SameTexts ==
  \A c, d \in Callers :
    brain[c] # None /\ brain[d] # None /\ brain[c].id = brain[d].id =>
      brain[c].text = brain[d].text

TextInv ==
  ~clash => Consistent(files, registry) /\ SameTexts /\ \A c \in Callers : Agrees(c)

---------------------------------------------------------------------------
\* The types of the constants, in the form the proofs use.
LEMMA Constants ==
  /\ Brains \subseteq Brain
  /\ None \notin Ids /\ None \notin Texts /\ None \notin Brain
  /\ NoSnapshots \in Registry
  /\ \A b \in Brain : b.id \in Ids /\ b.text \in Texts
PROOF
  <1>1. Brains \subseteq Brain /\ None \notin Ids /\ None \notin Texts /\ None \notin Brain
    BY StoreAssumption
  <1>2. NoSnapshots \in Registry
    BY DEF NoSnapshots, Registry
  <1>3. \A b \in Brain : b.id \in Ids /\ b.text \in Texts
    BY DEF Brain
  <1> QED BY <1>1, <1>2, <1>3

\* A save's registry is a registry again.
LEMMA WithSnapshotType ==
  ASSUME NEW reg \in Registry, NEW b \in Brain
  PROVE  WithSnapshot(reg, b) \in Registry
PROOF
  <1>1. NewEntry(b) \in Entry
    BY DEF NewEntry, Entry, Brain
  <1>2. reg.snapshots \subseteq Entry
    BY DEF Registry
  <1>3. (reg.snapshots \ EntryOf(reg, b.id)) \cup {NewEntry(b)} \in SUBSET Entry
    BY <1>1, <1>2
  <1>4. b.id \in Ids
    BY DEF Brain
  <1> QED BY <1>3, <1>4 DEF WithSnapshot, Registry

\* Leaving keeps the types and the phases.
LEMMA LeaveTyped ==
  ASSUME TypeInv, NEW c \in Callers, Leave(c)
  PROVE  /\ pc' \in [Callers -> {"idle", "look", "find", "write", "read", "register", "load", "open"}]
         /\ brain' \in [Callers -> Brains \cup {None}]
         /\ target' \in [Callers -> Ids \cup {None}]
         /\ seen' \in [Callers -> Registry]
         /\ PhaseInv'
PROOF BY Constants DEF TypeInv, StoreTypeOK, PhaseInv, Leave, Goto

LEMMA TypeStep == TypeInv /\ [StoreNext]_storeVars => TypeInv'
PROOF
  <1> SUFFICES ASSUME TypeInv, [StoreNext]_storeVars PROVE TypeInv'
    OBVIOUS
  <1> USE Constants
  <1>1. ASSUME NEW c \in Callers, NEW b \in Brains, BeginSave(c, b) PROVE TypeInv'
    BY <1>1 DEF TypeInv, StoreTypeOK, PhaseInv, BeginSave, Goto
  <1>2. ASSUME NEW c \in Callers, Look(c) PROVE TypeInv'
    <2>1. CASE Leave(c)
      BY <1>2, <2>1, LeaveTyped DEF TypeInv, StoreTypeOK, Look
    <2>2. CASE ~Leave(c)
      BY <1>2, <2>2 DEF TypeInv, StoreTypeOK, PhaseInv, Look, Goto
    <2> QED BY <2>1, <2>2
  <1>3. ASSUME NEW c \in Callers, Find(c) PROVE TypeInv'
    <2>1. CASE EntryOf(registry, brain[c].id) # {}
      <3>1. brain[c] \in Brains
        BY <1>3 DEF TypeInv, PhaseInv, Find
      <3>2. saved' \subseteq Ids
        BY <1>3, <2>1, <3>1 DEF TypeInv, StoreTypeOK, Find
      <3> QED BY <1>3, <2>1, <3>2, LeaveTyped DEF TypeInv, StoreTypeOK, Find
    <2>2. CASE EntryOf(registry, brain[c].id) = {}
      BY <1>3, <2>2 DEF TypeInv, StoreTypeOK, PhaseInv, Find, Goto
    <2> QED BY <2>1, <2>2
  <1>4. ASSUME NEW c \in Callers, WriteBrain(c) PROVE TypeInv'
    BY <1>4 DEF TypeInv, StoreTypeOK, PhaseInv, WriteBrain, Goto
  <1>5. ASSUME NEW c \in Callers, ReadMeta(c) PROVE TypeInv'
    BY <1>5 DEF TypeInv, StoreTypeOK, PhaseInv, ReadMeta, Goto
  <1>6. ASSUME NEW c \in Callers, WriteMeta(c) PROVE TypeInv'
    <2>1. brain[c] \in Brain /\ seen[c] \in Registry
      BY <1>6 DEF TypeInv, StoreTypeOK, PhaseInv, WriteMeta
    <2>2. registry' \in Registry
      BY <1>6, <2>1, WithSnapshotType DEF WriteMeta
    <2>3. saved' \subseteq Ids /\ stale' \in BOOLEAN
      BY <1>6, <2>1 DEF TypeInv, StoreTypeOK, WriteMeta
    <2> QED BY <1>6, <2>2, <2>3, LeaveTyped DEF TypeInv, StoreTypeOK, WriteMeta
  <1>7. ASSUME NEW c \in Callers, LoadLatest(c) PROVE TypeInv'
    <2>1. registry.latest \in Ids
      BY <1>7 DEF TypeInv, StoreTypeOK, Registry, LoadLatest
    <2> QED BY <1>7, <2>1 DEF TypeInv, StoreTypeOK, PhaseInv, LoadLatest, Goto
  <1>8. ASSUME NEW c \in Callers, NEW id \in Ids, BeginLoad(c, id) PROVE TypeInv'
    BY <1>8 DEF TypeInv, StoreTypeOK, PhaseInv, BeginLoad, Goto
  <1>9. ASSUME NEW c \in Callers, LoadMeta(c) PROVE TypeInv'
    <2>1. CASE registry.boundary = "current"
      BY <1>9, <2>1 DEF TypeInv, StoreTypeOK, PhaseInv, LoadMeta, Goto
    <2>2. CASE registry.boundary # "current"
      BY <1>9, <2>2, LeaveTyped DEF TypeInv, StoreTypeOK, LoadMeta
    <2> QED BY <2>1, <2>2
  <1>10. ASSUME NEW c \in Callers, LoadFile(c) PROVE TypeInv'
    <2>1. target[c] \in Ids
      BY <1>10 DEF TypeInv, PhaseInv, LoadFile
    <2>2. served' \subseteq Ids
      BY <1>10, <2>1 DEF TypeInv, StoreTypeOK, LoadFile
    <2> QED BY <1>10, <2>2, LeaveTyped DEF TypeInv, StoreTypeOK, LoadFile
  <1>11. ASSUME NEW c \in Callers, Abort(c) PROVE TypeInv'
    BY <1>11, LeaveTyped DEF TypeInv, StoreTypeOK, Abort
  <1>12. CASE UNCHANGED storeVars
    BY <1>12 DEF TypeInv, StoreTypeOK, PhaseInv, storeVars
  <1> QED BY <1>1, <1>2, <1>3, <1>4, <1>5, <1>6, <1>7, <1>8, <1>9, <1>10, <1>11, <1>12
          DEF StoreNext

\* What there is to start with.
LEMMA InitialStore ==
  ASSUME StoreInit
  PROVE  /\ files \in [Ids -> Texts \cup {None}] /\ registry \in Registry
         /\ Consistent(files, registry)
PROOF BY StoreAssumption DEF StoreInit

LEMMA TypeInit == StoreInit => TypeInv
PROOF BY InitialStore, Constants DEF StoreInit, TypeInv, StoreTypeOK, PhaseInv

\* TypeInv holds always.
LEMMA TypeInvariant == StoreSpec => []TypeInv
PROOF BY TypeInit, TypeStep, PTL DEF StoreSpec

\* The variables of the store keep their types, whatever calls overlap or die.
THEOREM StoreTypeCorrect == StoreSpec => []StoreTypeOK
PROOF
  <1>1. TypeInv => StoreTypeOK
    BY DEF TypeInv
  <1> QED BY <1>1, TypeInvariant, PTL

---------------------------------------------------------------------------
\* Which actions touch neither what was saved nor the registry.
SavedSame == UNCHANGED <<registry, saved, stale>>

\* A registered snapshot stays listed when a save writes back what it read.
LEMMA WithSnapshotLists ==
  ASSUME NEW reg \in Registry, NEW b \in Brain, NEW id \in Ids,
         EntryOf(reg, id) # {} \/ id = b.id
  PROVE  EntryOf(WithSnapshot(reg, b), id) # {}
PROOF
  <1>1. CASE id = b.id
    <2>1. NewEntry(b) \in EntryOf(WithSnapshot(reg, b), id)
      BY <1>1 DEF EntryOf, WithSnapshot, NewEntry
    <2> QED BY <2>1
  <1>2. CASE id # b.id
    <2>1. PICK e \in reg.snapshots : e.id = id
      BY <1>2 DEF EntryOf
    <2>2. e \in EntryOf(WithSnapshot(reg, b), id)
      BY <1>2, <2>1 DEF EntryOf, WithSnapshot
    <2> QED BY <2>2
  <1> QED BY <1>1, <1>2

LEMMA SavedStep == TypeInv /\ SavedIsListed /\ [StoreNext]_storeVars => SavedIsListed'
PROOF
  <1> SUFFICES ASSUME TypeInv, SavedIsListed, [StoreNext]_storeVars, ~stale'
               PROVE  \A id \in saved' : EntryOf(registry, id)' # {}
    BY DEF SavedIsListed
  <1>1. ASSUME SavedSame PROVE \A id \in saved' : EntryOf(registry, id)' # {}
    BY <1>1 DEF SavedIsListed, SavedSame, EntryOf
  <1>2. ASSUME NEW c \in Callers, Find(c)
        PROVE  \A id \in saved' : EntryOf(registry, id)' # {}
    BY <1>2 DEF SavedIsListed, Find, EntryOf
  <1>3. ASSUME NEW c \in Callers, WriteMeta(c)
        PROVE  \A id \in saved' : EntryOf(registry, id)' # {}
    <2>1. ~stale /\ registry = seen[c] /\ registry' = WithSnapshot(registry, brain[c])
      BY <1>3 DEF WriteMeta
    <2>2. registry \in Registry /\ brain[c] \in Brain /\ saved \subseteq Ids
      BY <1>3, Constants DEF TypeInv, StoreTypeOK, PhaseInv, WriteMeta
    <2>3. saved' = saved \cup {brain[c].id} /\ brain[c].id \in Ids
      BY <1>3, <2>2, Constants DEF WriteMeta
    <2>4. \A id \in saved' : id \in Ids /\ (EntryOf(registry, id) # {} \/ id = brain[c].id)
      BY <2>1, <2>2, <2>3 DEF SavedIsListed
    <2>5. \A id \in saved' : EntryOf(WithSnapshot(registry, brain[c]), id) # {}
      BY <2>2, <2>4, WithSnapshotLists
    <2> QED BY <2>1, <2>5 DEF EntryOf
  <1>4. ASSUME NEW c \in Callers, \E b \in Brains : BeginSave(c, b) PROVE SavedSame
    BY <1>4 DEF SavedSame, BeginSave
  <1>5. ASSUME NEW c \in Callers,
               Look(c) \/ WriteBrain(c) \/ ReadMeta(c) \/ LoadLatest(c) \/ LoadMeta(c)
                 \/ LoadFile(c) \/ Abort(c) \/ (\E id \in Ids : BeginLoad(c, id))
        PROVE  SavedSame
    BY <1>5 DEF SavedSame, Look, WriteBrain, ReadMeta, LoadLatest, LoadMeta, LoadFile,
                Abort, BeginLoad
  <1>6. CASE UNCHANGED storeVars
    BY <1>1, <1>6 DEF SavedSame, storeVars
  <1> QED BY <1>1, <1>2, <1>3, <1>4, <1>5, <1>6 DEF StoreNext

\* SavedIsListed: a snapshot whose save returned stays in the registry, unless
\* WriteMeta has written back a registry that had changed since ReadMeta.
THEOREM SavedAreListed == StoreSpec => []SavedIsListed
PROOF
  <1>1. StoreInit => SavedIsListed
    BY DEF StoreInit, SavedIsListed
  <1> QED BY <1>1, SavedStep, TypeInvariant, PTL DEF StoreSpec

---------------------------------------------------------------------------
\* Leaving disturbs no entry of other rules.
LEMMA LeaveOld ==
  ASSUME TypeInv, OldInv, NEW c \in Callers, Leave(c), UNCHANGED <<files, registry, served>>
  PROVE  OldInv'
PROOF BY DEF TypeInv, StoreTypeOK, OldInv, Old, Leave, Goto

\* A save keeps the entries of other rules, its own id having none.
LEMMA OldKept ==
  ASSUME NEW reg, NEW b, \A e \in Old(reg) : e.id # b.id
  PROVE  Old(WithSnapshot(reg, b)) = Old(reg)
PROOF BY DEF Old, WithSnapshot, NewEntry, EntryOf

LEMMA OldStep == TypeInv /\ OldInv /\ [StoreNext]_storeVars => OldInv'
PROOF
  <1> SUFFICES ASSUME TypeInv, OldInv, [StoreNext]_storeVars PROVE OldInv'
    OBVIOUS
  <1>1. ASSUME NEW c \in Callers, NEW b \in Brains, BeginSave(c, b) PROVE OldInv'
    BY <1>1 DEF TypeInv, StoreTypeOK, OldInv, Old, BeginSave, Goto
  <1>2. ASSUME NEW c \in Callers, Look(c) PROVE OldInv'
    <2>1. CASE Leave(c)
      BY <1>2, <2>1, LeaveOld DEF Look
    <2>2. CASE ~Leave(c)
      BY <1>2, <2>2 DEF TypeInv, StoreTypeOK, OldInv, Old, Look, Goto
    <2> QED BY <2>1, <2>2
  <1>3. ASSUME NEW c \in Callers, Find(c) PROVE OldInv'
    <2>1. CASE EntryOf(registry, brain[c].id) # {}
      BY <1>3, <2>1, LeaveOld DEF Find
    <2>2. CASE EntryOf(registry, brain[c].id) = {}
      BY <1>3, <2>2 DEF TypeInv, StoreTypeOK, OldInv, Old, Find, Goto, EntryOf
    <2> QED BY <2>1, <2>2
  <1>4. ASSUME NEW c \in Callers, WriteBrain(c) PROVE OldInv'
    <2>1. brain[c] \in Brain
      BY <1>4, Constants DEF TypeInv, PhaseInv, WriteBrain
    <2>2. \A id \in Ids : files[id] # None => files'[id] # None
      BY <1>4, <2>1, Constants DEF TypeInv, StoreTypeOK, WriteBrain
    <2>3. \A e \in Old(registry) : e.id \in Ids
      BY DEF TypeInv, StoreTypeOK, Registry, Entry, Old
    <2>4. \A e \in Old(registry) : files'[e.id] # None
      BY <2>2, <2>3 DEF OldInv
    <2> QED BY <1>4, <2>4 DEF TypeInv, StoreTypeOK, OldInv, Old, WriteBrain, Goto
  <1>5. ASSUME NEW c \in Callers, ReadMeta(c) PROVE OldInv'
    BY <1>5 DEF TypeInv, StoreTypeOK, OldInv, Old, ReadMeta, Goto
  <1>6. ASSUME NEW c \in Callers, WriteMeta(c) PROVE OldInv'
    <2>1. pc[c] = "register" /\ registry' = WithSnapshot(seen[c], brain[c])
      BY <1>6 DEF WriteMeta
    <2>2. Old(seen[c]) = Old(registry) /\ \A e \in Old(seen[c]) : e.id # brain[c].id
      BY <2>1 DEF OldInv
    <2>3. Old(registry)' = Old(registry)
      <3>1. Old(WithSnapshot(seen[c], brain[c])) = Old(seen[c])
        BY <2>2, OldKept
      <3> QED BY <2>1, <2>2, <3>1 DEF Old
    <2>4. \A d \in Callers : d # c => pc'[d] = pc[d] /\ brain'[d] = brain[d] /\ seen'[d] = seen[d]
      BY <1>6 DEF TypeInv, StoreTypeOK, WriteMeta, Leave, Goto
    <2>5. pc'[c] = "idle"
      BY <1>6 DEF TypeInv, StoreTypeOK, WriteMeta, Leave, Goto
    <2>6. \A d \in Callers : d # c => Old(seen'[d]) = Old(seen[d])
      BY <2>4
    <2>7. UNCHANGED <<files, served>>
      BY <1>6 DEF WriteMeta
    <2>8. \A e \in Old(registry)' : files'[e.id] # None /\ e.id \notin served'
      BY <2>3, <2>7 DEF OldInv
    <2>9. ASSUME NEW d \in Callers
          PROVE  /\ pc'[d] \in {"register", "open"} => Old(seen'[d]) = Old(registry)'
                 /\ pc'[d] \in {"write", "read", "register"} =>
                      \A e \in Old(registry)' : e.id # brain'[d].id
      BY <2>3, <2>4, <2>5, <2>6 DEF OldInv
    <2> QED BY <2>8, <2>9 DEF OldInv, Old
  <1>7. ASSUME NEW c \in Callers, LoadLatest(c) PROVE OldInv'
    BY <1>7 DEF TypeInv, StoreTypeOK, OldInv, Old, LoadLatest, Goto
  <1>8. ASSUME NEW c \in Callers, NEW id \in Ids, BeginLoad(c, id) PROVE OldInv'
    BY <1>8 DEF TypeInv, StoreTypeOK, OldInv, Old, BeginLoad, Goto
  <1>9. ASSUME NEW c \in Callers, LoadMeta(c) PROVE OldInv'
    <2>1. CASE registry.boundary = "current"
      BY <1>9, <2>1 DEF TypeInv, StoreTypeOK, OldInv, Old, LoadMeta, Goto
    <2>2. CASE registry.boundary # "current"
      BY <1>9, <2>2, LeaveOld DEF LoadMeta
    <2> QED BY <2>1, <2>2
  <1>10. ASSUME NEW c \in Callers, LoadFile(c) PROVE OldInv'
    <2>1. pc[c] = "open" /\ Leave(c) /\ UNCHANGED <<files, registry>>
      BY <1>10 DEF LoadFile
    <2>2. Old(seen[c]) = Old(registry)
      BY <2>1 DEF OldInv
    <2>3. \A e \in Old(registry) : e.id \notin served'
      BY <1>10, <2>2 DEF OldInv, LoadFile, Serves, EntryOf, Old
    <2> QED BY <2>1, <2>3 DEF TypeInv, StoreTypeOK, OldInv, Old, Leave, Goto
  <1>11. ASSUME NEW c \in Callers, Abort(c) PROVE OldInv'
    BY <1>11, LeaveOld DEF Abort
  <1>12. CASE UNCHANGED storeVars
    BY <1>12 DEF OldInv, Old, storeVars
  <1> QED BY <1>1, <1>2, <1>3, <1>4, <1>5, <1>6, <1>7, <1>8, <1>9, <1>10, <1>11, <1>12
          DEF StoreNext

LEMMA OldInit == StoreInit => OldInv
PROOF
  <1> SUFFICES ASSUME StoreInit PROVE OldInv
    OBVIOUS
  <1>1. \A e \in registry.snapshots : e.checksum \in Texts
    BY InitialStore DEF Registry, Entry
  <1>2. \A e \in registry.snapshots : files[e.id] # None
    BY <1>1, InitialStore, Constants DEF Consistent
  <1> QED BY <1>2 DEF StoreInit, OldInv, Old

\* OldBoundaryNotServed: loadSnapshot never serves a snapshot the registry lists
\* under other ownership rules, whatever saves and loads overlap.
THEOREM OldNotServed == StoreSpec => []OldBoundaryNotServed
PROOF
  <1>1. OldInv => OldBoundaryNotServed
    BY DEF OldInv, Old, OldBoundaryNotServed
  <1> QED BY <1>1, OldInit, OldStep, TypeInvariant, PTL DEF StoreSpec

---------------------------------------------------------------------------
\* No stored text changes.
Kept == \A id \in Ids : files[id] # None => files'[id] = files[id]

\* A registry that agrees with the files agrees with them while none changes.
LEMMA ConsistentKept ==
  ASSUME NEW reg \in Registry, Consistent(files, reg), Kept
  PROVE  Consistent(files', reg)
PROOF
  <1>1. \A e \in reg.snapshots : e.id \in Ids /\ e.checksum # None
    BY Constants DEF Registry, Entry
  <1>2. \A e \in reg.snapshots : files'[e.id] = e.checksum
    BY <1>1 DEF Consistent, Kept
  <1> QED BY <1>2 DEF Consistent

\* A save whose brain is on disk registers something that is there.
LEMMA ConsistentWith ==
  ASSUME NEW reg, NEW b, Consistent(files, reg), files[b.id] = b.text
  PROVE  Consistent(files, WithSnapshot(reg, b))
PROOF
  <1> DEFINE new == WithSnapshot(reg, b)
  <1>1. new.snapshots = {e \in reg.snapshots : e.id # b.id} \cup {NewEntry(b)}
    BY DEF WithSnapshot, EntryOf
  <1>2. NewEntry(b).id = b.id /\ NewEntry(b).checksum = b.text
        /\ NewEntry(b).boundary = "current" /\ new.latest = b.id
    BY DEF NewEntry, WithSnapshot
  <1>3. \A e \in new.snapshots : files[e.id] = e.checksum
    BY <1>1, <1>2 DEF Consistent
  <1>4. \A e, f \in new.snapshots : e.id = f.id => e = f
    BY <1>1, <1>2 DEF Consistent
  <1>5. \E e \in new.snapshots : e.id = new.latest /\ e.boundary = "current"
    BY <1>1, <1>2
  <1> QED BY <1>3, <1>4, <1>5 DEF Consistent

\* A call that leaves disturbs no other.
LEMMA LeaveText ==
  ASSUME TypeInv, TextInv, ~clash, NEW c \in Callers, Leave(c), UNCHANGED files
  PROVE  SameTexts' /\ \A d \in Callers : Agrees(d)'
PROOF
  <1>1. \A d \in Callers : pc'[d] = IF d = c THEN "idle" ELSE pc[d]
    BY DEF TypeInv, StoreTypeOK, Leave, Goto
  <1>2. \A d \in Callers : brain'[d] = IF d = c THEN None ELSE brain[d]
    BY DEF TypeInv, StoreTypeOK, Leave
  <1>3. \A d \in Callers : d # c => seen'[d] = seen[d]
    BY DEF TypeInv, StoreTypeOK, Leave
  <1>4. SameTexts'
    BY <1>2 DEF TextInv, SameTexts
  <1>5. \A d \in Callers : Agrees(d)'
    BY <1>1, <1>2, <1>3 DEF TextInv, Agrees
  <1> QED BY <1>4, <1>5

\* A call that writes its brain, when no two texts clash, keeps every stored text.
LEMMA WriteKeeps ==
  ASSUME TypeInv, TextInv, ~clash, NEW c \in Callers, WriteBrain(c)
  PROVE  Kept
PROOF
  <1>1. brain[c] \in Brain /\ files[brain[c].id] \in {None, brain[c].text}
    BY Constants DEF TypeInv, PhaseInv, TextInv, Agrees, WriteBrain
  <1> QED BY <1>1 DEF TypeInv, StoreTypeOK, WriteBrain, Kept

LEMMA TextStep == TypeInv /\ TextInv /\ [StoreNext]_storeVars => TextInv'
PROOF
  <1> DEFINE Safe == Consistent(files, registry) /\ SameTexts /\ \A d \in Callers : Agrees(d)
  <1> SUFFICES ASSUME TypeInv, TextInv, [StoreNext]_storeVars, ~clash' PROVE Safe'
    BY DEF TextInv
  <1>0. ~clash /\ Safe
    <2>1. ASSUME NEW c \in Callers, NEW b \in Brains, BeginSave(c, b) PROVE ~clash
      BY <2>1 DEF BeginSave
    <2>2. ASSUME NEW c \in Callers,
                 Look(c) \/ Find(c) \/ WriteBrain(c) \/ ReadMeta(c) \/ WriteMeta(c)
        PROVE  ~clash
      BY <2>2 DEF Look, Find, WriteBrain, ReadMeta, WriteMeta
    <2>3. ASSUME NEW c \in Callers,
                 LoadLatest(c) \/ LoadMeta(c) \/ LoadFile(c) \/ Abort(c)
                   \/ \E id \in Ids : BeginLoad(c, id)
        PROVE  ~clash
      BY <2>3 DEF LoadLatest, BeginLoad, LoadMeta, LoadFile, Abort
    <2>4. ASSUME UNCHANGED storeVars PROVE ~clash
      BY <2>4 DEF storeVars
    <2>5. ~clash
      BY <2>1, <2>2, <2>3, <2>4 DEF StoreNext
    <2> QED BY <2>5 DEF TextInv
  <1>1. ASSUME NEW c \in Callers, NEW b \in Brains, BeginSave(c, b) PROVE Safe'
    <2>1. \A d \in Callers : brain[d] # None /\ brain[d].id = b.id => brain[d].text = b.text
      BY <1>1 DEF BeginSave
    <2>2. \A d \in Callers : brain'[d] = IF d = c THEN b ELSE brain[d]
      BY <1>1 DEF TypeInv, StoreTypeOK, BeginSave
    <2>3. SameTexts'
      BY <1>0, <2>1, <2>2 DEF SameTexts
    <2>4. \A d \in Callers : pc'[d] = IF d = c THEN "look" ELSE pc[d]
      BY <1>1 DEF TypeInv, StoreTypeOK, BeginSave, Goto
    <2>5. \A d \in Callers : Agrees(d)'
      BY <1>0, <1>1, <2>2, <2>4 DEF Agrees, BeginSave
    <2> QED BY <1>0, <1>1, <2>3, <2>5 DEF BeginSave
  <1>2. ASSUME NEW c \in Callers, Look(c) PROVE Safe'
    <2>1. CASE Leave(c)
      BY <1>0, <1>2, <2>1, LeaveText DEF Look
    <2>2. CASE ~Leave(c)
      <3>1. \A d \in Callers : d # c => pc'[d] = pc[d]
        BY <1>2, <2>2 DEF TypeInv, StoreTypeOK, Look, Goto
      <3>2. \/ pc'[c] = "write" /\ files[brain[c].id] = None
            \/ pc'[c] = "find" /\ files[brain[c].id] = brain[c].text
        BY <1>2, <2>2 DEF TypeInv, StoreTypeOK, Look, Goto
      <3>3. UNCHANGED <<files, registry, brain, seen>>
        BY <1>2, <2>2 DEF Look
      <3>4. \A d \in Callers : Agrees(d)'
        BY <1>0, <3>1, <3>2, <3>3 DEF Agrees
      <3> QED BY <1>0, <3>3, <3>4 DEF SameTexts
    <2> QED BY <2>1, <2>2
  <1>3. ASSUME NEW c \in Callers, Find(c) PROVE Safe'
    <2>1. CASE EntryOf(registry, brain[c].id) # {}
      BY <1>0, <1>3, <2>1, LeaveText DEF Find
    <2>2. CASE EntryOf(registry, brain[c].id) = {}
      <3>1. \A d \in Callers : pc'[d] = IF d = c THEN "write" ELSE pc[d]
        BY <1>3, <2>2 DEF TypeInv, StoreTypeOK, Find, Goto
      <3>2. pc[c] = "find" /\ UNCHANGED <<files, registry, brain, seen>>
        BY <1>3, <2>2 DEF Find
      <3>3. \A d \in Callers : Agrees(d)'
        BY <1>0, <3>1, <3>2 DEF Agrees
      <3> QED BY <1>0, <3>2, <3>3 DEF SameTexts
    <2> QED BY <2>1, <2>2
  <1>4. ASSUME NEW c \in Callers, WriteBrain(c) PROVE Safe'
    <2>1. Kept
      BY <1>0, <1>4, WriteKeeps
    <2>2. pc[c] = "write" /\ UNCHANGED <<registry, brain, seen>>
      BY <1>4 DEF WriteBrain
    <2>3. Consistent(files', registry)
      BY <1>0, <2>1, ConsistentKept DEF TypeInv, StoreTypeOK
    <2>4. \A d \in Callers : pc'[d] = IF d = c THEN "read" ELSE pc[d]
      BY <1>4 DEF TypeInv, StoreTypeOK, WriteBrain, Goto
    <2>5. brain[c] \in Brain /\ files'[brain[c].id] = brain[c].text
      BY <1>4, Constants DEF TypeInv, StoreTypeOK, PhaseInv, WriteBrain
    <2>6. ASSUME NEW d \in Callers PROVE Agrees(d)'
      <3>1. CASE d = c
        BY <2>2, <2>4, <2>5, <3>1 DEF Agrees
      <3>2. CASE d # c /\ pc[d] = "write"
        <4>1. brain[d] \in Brain /\ brain[d] # None /\ brain[c] # None
          BY <2>2, <2>5, <3>2, Constants DEF TypeInv, PhaseInv
        <4>2. brain[d].id = brain[c].id => brain[d].text = brain[c].text
          BY <1>0, <4>1 DEF SameTexts
        <4>3. brain[d].id # brain[c].id => files'[brain[d].id] = files[brain[d].id]
          BY <1>4, <2>5, <4>1, Constants DEF TypeInv, StoreTypeOK, WriteBrain
        <4> QED BY <1>0, <2>2, <2>4, <2>5, <3>2, <4>2, <4>3 DEF Agrees
      <3>3. CASE d # c /\ pc[d] \in {"find", "read", "register"}
        <4>1. brain[d] \in Brain /\ brain[d].text # None /\ brain[d].id \in Ids
          BY <3>3, Constants DEF TypeInv, PhaseInv
        <4>2. files'[brain[d].id] = brain[d].text
          BY <1>0, <2>1, <3>3, <4>1 DEF Agrees, Kept
        <4>3. pc[d] = "register" => Consistent(files', seen[d])
          BY <1>0, <2>1, ConsistentKept DEF TypeInv, StoreTypeOK, Agrees
        <4> QED BY <2>2, <2>4, <3>3, <4>2, <4>3 DEF Agrees
      <3>4. CASE d # c /\ pc[d] \notin {"find", "write", "read", "register"}
        BY <2>4, <3>4 DEF Agrees
      <3> QED BY <3>1, <3>2, <3>3, <3>4
    <2> QED BY <1>0, <2>2, <2>3, <2>6 DEF SameTexts
  <1>5. ASSUME NEW c \in Callers, ReadMeta(c) PROVE Safe'
    <2>1. pc[c] = "read" /\ UNCHANGED <<files, registry, brain>>
      BY <1>5 DEF ReadMeta
    <2>2. \A d \in Callers : pc'[d] = IF d = c THEN "register" ELSE pc[d]
      BY <1>5 DEF TypeInv, StoreTypeOK, ReadMeta, Goto
    <2>3. \A d \in Callers : seen'[d] = IF d = c THEN registry ELSE seen[d]
      BY <1>5 DEF TypeInv, StoreTypeOK, ReadMeta
    <2>4. \A d \in Callers : Agrees(d)'
      BY <1>0, <2>1, <2>2, <2>3 DEF Agrees
    <2> QED BY <1>0, <2>1, <2>4 DEF SameTexts
  <1>6. ASSUME NEW c \in Callers, WriteMeta(c) PROVE Safe'
    <2>1. pc[c] = "register" /\ Leave(c) /\ UNCHANGED files
      BY <1>6 DEF WriteMeta
    <2>2. Consistent(files, seen[c]) /\ files[brain[c].id] = brain[c].text
      BY <1>0, <2>1 DEF Agrees
    <2>3. registry' = WithSnapshot(seen[c], brain[c])
      BY <1>6 DEF WriteMeta
    <2>4. Consistent(files, registry')
      BY <2>2, <2>3, ConsistentWith
    <2> QED BY <1>0, <2>1, <2>4, LeaveText
  <1>7. ASSUME NEW c \in Callers, LoadLatest(c) \/ \E id \in Ids : BeginLoad(c, id) PROVE Safe'
    <2>1. \A d \in Callers : pc'[d] = IF d = c THEN "load" ELSE pc[d]
      BY <1>7 DEF TypeInv, StoreTypeOK, LoadLatest, BeginLoad, Goto
    <2>2. UNCHANGED <<files, registry, brain, seen>>
      BY <1>7 DEF LoadLatest, BeginLoad
    <2>3. \A d \in Callers : Agrees(d)'
      BY <1>0, <2>1, <2>2 DEF Agrees
    <2> QED BY <1>0, <2>2, <2>3 DEF SameTexts
  <1>8. ASSUME NEW c \in Callers, LoadMeta(c) PROVE Safe'
    <2>1. CASE registry.boundary = "current"
      <3>1. \A d \in Callers : pc'[d] = IF d = c THEN "open" ELSE pc[d]
        BY <1>8, <2>1 DEF TypeInv, StoreTypeOK, LoadMeta, Goto
      <3>2. \A d \in Callers : d # c => seen'[d] = seen[d]
        BY <1>8, <2>1 DEF TypeInv, StoreTypeOK, LoadMeta
      <3>3. UNCHANGED <<files, registry, brain>>
        BY <1>8, <2>1 DEF LoadMeta
      <3>4. \A d \in Callers : Agrees(d)'
        BY <1>0, <3>1, <3>2, <3>3 DEF Agrees
      <3> QED BY <1>0, <3>3, <3>4 DEF SameTexts
    <2>2. CASE registry.boundary # "current"
      BY <1>0, <1>8, <2>2, LeaveText DEF LoadMeta
    <2> QED BY <2>1, <2>2
  <1>9. ASSUME NEW c \in Callers, LoadFile(c) PROVE Safe'
    BY <1>0, <1>9, LeaveText DEF LoadFile
  <1>10. ASSUME NEW c \in Callers, Abort(c) PROVE Safe'
    BY <1>0, <1>10, LeaveText DEF Abort
  <1>11. CASE UNCHANGED storeVars
    BY <1>0, <1>11 DEF storeVars, SameTexts, Agrees
  <1> QED BY <1>1, <1>2, <1>3, <1>4, <1>5, <1>6, <1>7, <1>8, <1>9, <1>10, <1>11 DEF StoreNext

LEMMA TextInit == StoreInit => TextInv
PROOF BY InitialStore DEF StoreInit, TextInv, SameTexts, Agrees

\* RegisteredIsStored: what the registry lists is on disk as registered, its
\* latest snapshot can be loaded, also after saves that overlap or die halfway.
THEOREM RegisteredAreStored == StoreSpec => []RegisteredIsStored
PROOF
  <1>1. TextInv => RegisteredIsStored
    BY DEF TextInv, RegisteredIsStored
  <1> QED BY <1>1, TextInit, TextStep, TypeInvariant, PTL DEF StoreSpec

\* SnapshotsAreImmutable: saveSnapshot changes no brain.json that is there, its
\* look and its write being steps of their own.
THEOREM Immutable == StoreSpec => SnapshotsAreImmutable
PROOF
  <1>1. TypeInv /\ TextInv /\ [StoreNext]_storeVars
          => [clash' \/ \A id \in Ids : files[id] # None => files'[id] = files[id]]_storeVars
    <2> SUFFICES ASSUME TypeInv, TextInv, [StoreNext]_storeVars, ~clash' PROVE Kept
      BY DEF Kept
    <2>1. CASE UNCHANGED files
      BY <2>1 DEF Kept
    <2>2. CASE \E c \in Callers : WriteBrain(c)
      <3>1. ~clash
        BY <2>2 DEF WriteBrain
      <3> QED BY <2>2, <3>1, WriteKeeps
    <2> QED BY <2>1, <2>2 DEF StoreNext, storeVars, BeginSave, Look, Find, ReadMeta, WriteMeta,
              LoadLatest, BeginLoad, LoadMeta, LoadFile, Abort
  <1> QED BY <1>1, TextInit, TextStep, TypeInvariant, PTL DEF StoreSpec, SnapshotsAreImmutable
=============================================================================
