--------------------------- MODULE FixApply_proofs ---------------------------
(***************************************************************************)
(* Safe Fix, for any number of applies, targets, undos and edits.          *)
(*                                                                         *)
(* What a write finds was compared with the backup (CheckedInv); no text   *)
(* but the user's, with or without the fix, is read, backed up or written  *)
(* (OnlyInv); and the backup of an apply that worked alone has an entry,   *)
(* with the user's text, for every target it changed (AloneInv).           *)
(***************************************************************************)
EXTENDS FixApply, FiniteSetTheorems, SequenceTheorems, TLAPS

Labels == {"read", "preview", "stat", "hash", "copy", "audit", "assert", "write", "done"}
Held == Text \cup {None}

IsSeq(s) == s \in Seq({s[i] : i \in DOMAIN s})

Typed(a) ==
  /\ IsSeq(entries[a])
  /\ \A i \in DOMAIN entries[a] :
       entries[a][i].target \in Targets => entries[a][i].copy \in Held
  /\ pc[a] = "read" => at[a] \in DOMAIN Order

TypeOK ==
  /\ disk \in [Targets -> Held]
  /\ pc \in [Appliers -> Labels]
  /\ at \in [Appliers -> Nat \ {0}]
  /\ read \in [Appliers -> [Targets -> Held]]
  /\ DOMAIN hashed = Appliers
  /\ DOMAIN entries = Appliers
  /\ \A a \in Appliers : Typed(a)
  /\ saved \subseteq Appliers
  /\ undoing \in Appliers \cup {None}
  /\ undoAt \in Nat \ {0}
  /\ raced \in [Appliers -> BOOLEAN]
  /\ edits \in Nat

\* Where an apply stands, and what its backup has entries of.
Covered(a) == \A i \in DOMAIN entries[a] : entries[a][i].target = Steps(a)[i]

Stand(a) ==
  /\ pc[a] \in {"read", "preview"} => entries[a] = <<>>
  /\ pc[a] \in {"stat", "hash", "copy"} => Len(entries[a]) = at[a] - 1 /\ Covered(a)
  /\ pc[a] = "audit" =>
       /\ Covered(a) /\ ~(Len(entries[a]) < Len(Steps(a)))
       /\ Steps(a) = <<>> \/ Len(entries[a]) >= 1
  /\ pc[a] \in {"assert", "write"} =>
       /\ Covered(a) /\ ~(Len(entries[a]) < Len(Steps(a)))
       /\ at[a] <= Len(entries[a])
       /\ a \in saved
  /\ a \in saved => pc[a] \in {"assert", "write", "done"}
  /\ UndoAfter /\ (undoing = a \/ a \in undone) => pc[a] = "done"

StandInv ==
  /\ \A a \in Appliers : Stand(a)
  /\ undone \subseteq saved
  /\ undoing # None => undoing \in saved \ undone

Checked(a) ==
  pc[a] = "write" => raced[a] \/ Unchanged(EntryOf(a, Target(a)), disk[Target(a)])

CheckedInv == \A a \in Appliers : Checked(a)

Allowed(t) == {InitialDisk[t], WithFix(InitialDisk[t])}

Only(a) ==
  /\ pc[a] = "read" =>
       \A i \in DOMAIN Order : i < at[a] => read[a][Order[i]] \in Allowed(Order[i])
  /\ pc[a] \notin {"read", "done"} => \A t \in Targets : read[a][t] \in Allowed(t)
  /\ \A i \in DOMAIN entries[a] : entries[a][i].target \in Targets =>
       IF entries[a][i].existed
       THEN entries[a][i].copy \in Allowed(entries[a][i].target)
       ELSE InitialDisk[entries[a][i].target] = None

OnlyInv ==
  edits = 0 => /\ \A t \in Targets : disk[t] \in Allowed(t)
               /\ \A a \in Appliers : Only(a)

Alone(u) == edits = 0 /\ \A b \in Appliers \ {u} : NotBegun(b)

Kept(u) ==
  /\ \A t \in Targets : read[u][t] \in {InitialDisk[t], None}
  /\ \A t \in Targets : IsLink(InitialDisk[t]) \/ IsLink(disk[t]) => disk[t] = InitialDisk[t]
  /\ u \notin saved \/ u \in undone => \A t \in Targets : disk[t] = InitialDisk[t]
  /\ \A i \in DOMAIN entries[u] : entries[u][i].target \in Targets =>
       IF entries[u][i].existed
       THEN entries[u][i].copy = InitialDisk[entries[u][i].target]
       ELSE InitialDisk[entries[u][i].target] = None
  /\ u \in saved => \A t \in Targets : disk[t] # InitialDisk[t] =>
       \E i \in DOMAIN entries[u] :
         entries[u][i].target = t /\ (undoing = u => undoAt <= i)

AloneInv == UndoAfter => \A u \in Appliers : Alone(u) => Kept(u)

---------------------------------------------------------------------------
(* Facts about texts and sequences.                                        *)

LEMMA OrderFacts ==
  /\ Len(Order) \in Nat \ {0} /\ DOMAIN Order = 1..Len(Order)
  /\ \A i \in DOMAIN Order : Order[i] \in Targets
  /\ \A t \in Targets : \E i \in DOMAIN Order : t = Order[i]
<1>1. Order # <<>> /\ Order \in Seq(Targets)
  BY FixAssumption
<1>2. Len(Order) \in Nat \ {0} /\ DOMAIN Order = 1..Len(Order)
  BY <1>1, EmptySeq, LenProperties
<1> QED
  BY <1>1, <1>2, ElementOfSeq DEF Targets

LEMMA WithFixType ==
  ASSUME NEW x \in Held
  PROVE  WithFix(x) \in Text /\ WithFix(x) \in Held /\ WithFix(x) # None
<1>1. Empty \in Bases /\ None \notin Text
  BY FixAssumption
<1>2. x # None => x.base \in Bases
  BY DEF Held, Text
<1>3. (IF Exists(x) THEN x.base ELSE Empty) \in Bases
  BY <1>1, <1>2 DEF Exists
<1>4. WithFix(x) \in Text
  BY <1>3 DEF WithFix, Text
<1> QED
  BY <1>1, <1>4 DEF Held

LEMMA ReadableType ==
  ASSUME NEW x \in Held
  PROVE  Readable(x) \in {x, None} /\ Readable(x) \in Held
BY DEF Readable, Held

LEMMA DiskType == TypeOK => \A t \in Targets : disk[t] \in Held /\ InitialDisk[t] \in Held
BY FixAssumption DEF TypeOK, Held

LEMMA SeqFacts ==
  ASSUME NEW s, IsSeq(s)
  PROVE  Len(s) \in Nat /\ DOMAIN s = 1..Len(s)
BY LenProperties DEF IsSeq

LEMMA Extended ==
  ASSUME NEW s, IsSeq(s), NEW e
  PROVE  LET new == Append(s, e)
         IN /\ IsSeq(new) /\ Len(new) = Len(s) + 1 /\ DOMAIN new = 1..(Len(s) + 1)
            /\ new[Len(s) + 1] = e
            /\ \A i \in 1..Len(s) : new[i] = s[i]
<1> DEFINE S == {s[i] : i \in DOMAIN s} \cup {e}
           new == Append(s, e)
<1>1. s \in Seq(S)
  BY SeqMonotonic DEF IsSeq
<1>2. Len(s) \in Nat /\ DOMAIN s = 1..Len(s)
  BY SeqFacts
<1> HIDE DEF S
<1>3. /\ new \in Seq(S) /\ Len(new) = Len(s) + 1 /\ new[Len(s) + 1] = e
      /\ \A i \in 1..Len(s) : new[i] = s[i]
  <2>1. e \in S
    BY DEF S
  <2> QED
    BY <1>1, <2>1, AppendProperties
<1>4. DOMAIN new = 1..(Len(s) + 1)
  BY <1>3, LenProperties
<1>5. IsSeq(new)
  <2> HIDE DEF new
  <2>1. Len(new) \in Nat /\ DOMAIN new = 1..Len(new) /\ new \in [1..Len(new) -> S]
    BY <1>3, LenProperties
  <2> DEFINE T == {new[i] : i \in DOMAIN new}
  <2>2. \A i \in 1..Len(new) : new[i] \in T
    BY <2>1
  <2> HIDE DEF T
  <2>3. [i \in 1..Len(new) |-> new[i]] \in Seq(T)
    BY <2>1, <2>2
  <2>4. new = [i \in 1..Len(new) |-> new[i]]
    BY <2>1
  <2> QED
    BY <2>3, <2>4 DEF IsSeq, T
<1> QED
  BY <1>3, <1>4, <1>5

---------------------------------------------------------------------------
(* The variables keep their types.                                         *)

LEMMA EntriesTyped ==
  ASSUME TypeOK, NEW a \in Appliers
  PROVE  /\ IsSeq(entries[a]) /\ Len(entries[a]) \in Nat
         /\ DOMAIN entries[a] = 1..Len(entries[a])
BY SeqFacts DEF TypeOK, Typed

LEMMA ChangesType ==
  ASSUME TypeOK, NEW t, NEW x, t \in Targets => x \in Held, Changes(t, x)
  PROVE  /\ disk' \in [Targets -> Held] /\ raced' \in [Appliers -> BOOLEAN]
         /\ \A u \in Targets : disk'[u] = IF u = t THEN x ELSE disk[u]
         /\ \A u : u # t => disk'[u] = disk[u]
         /\ \A b \in Appliers : (raced[b] \/ (pc[b] = "write" /\ Target(b) = t)) => raced'[b]
<1>1. disk' = [disk EXCEPT ![t] = x] /\ disk \in [Targets -> Held]
  BY DEF Changes, TypeOK
<1>2. raced' = [b \in Appliers |-> raced[b] \/ (pc[b] = "write" /\ Target(b) = t)]
  BY DEF Changes
<1>3. raced' \in [Appliers -> BOOLEAN]
  BY <1>2, Zenon
<1>4. \A b \in Appliers : (raced[b] \/ (pc[b] = "write" /\ Target(b) = t)) => raced'[b]
  BY <1>2, Zenon
<1>5. disk' \in [Targets -> Held]
  BY <1>1
<1>6. \A u \in Targets : disk'[u] = IF u = t THEN x ELSE disk[u]
  BY <1>1
<1>7. \A u : u # t => disk'[u] = disk[u]
  BY <1>1
<1> QED
  BY <1>3, <1>4, <1>5, <1>6, <1>7

\* A step of apply a only moves a.
Moves(a) ==
  /\ \E label \in Labels, i \in Nat \ {0} : Goto(a, label, i)
  /\ UNCHANGED <<undoVars, edits>>

LEMMA MovesType ==
  ASSUME TypeOK, NEW a \in Appliers, Moves(a)
  PROVE  /\ pc' \in [Appliers -> Labels] /\ at' \in [Appliers -> Nat \ {0}]
         /\ undoing' \in Appliers \cup {None} /\ undoAt' \in Nat \ {0} /\ edits' \in Nat
         /\ \A b \in Appliers \ {a} : pc'[b] = pc[b] /\ at'[b] = at[b]
         /\ UNCHANGED <<undoing, undoAt, undone, edits>>
         /\ \A label, i : Goto(a, label, i) => pc'[a] = label /\ at'[a] = i
BY DEF TypeOK, Moves, Goto, undoVars

LEMMA NextEntryFacts ==
  ASSUME TypeOK, NEW a \in Appliers, NEW e, NextEntry(a, e)
  PROVE  /\ Moves(a) \/ ~UNCHANGED <<undoVars, edits>>
         /\ pc'[a] \in {"stat", "audit"}
         /\ pc'[a] = "stat" => at[a] < Len(Steps(a)) /\ at'[a] = at[a] + 1
         /\ pc'[a] = "audit" => ~(at[a] < Len(Steps(a)))
         /\ DOMAIN entries' = Appliers
         /\ \A b \in Appliers \ {a} : entries'[b] = entries[b]
         /\ IsSeq(entries'[a]) /\ Len(entries'[a]) = Len(entries[a]) + 1
         /\ DOMAIN entries'[a] = 1..(Len(entries[a]) + 1)
         /\ entries'[a][Len(entries[a]) + 1] = e
         /\ \A i \in 1..Len(entries[a]) : entries'[a][i] = entries[a][i]
<1>1. entries' = [entries EXCEPT ![a] = Append(entries[a], e)]
  BY DEF NextEntry
<1>2. DOMAIN entries = Appliers /\ IsSeq(entries[a])
  BY EntriesTyped DEF TypeOK
<1>3. DOMAIN entries' = Appliers /\ \A b \in Appliers \ {a} : entries'[b] = entries[b]
  BY <1>1, <1>2
<1>4. entries'[a] = Append(entries[a], e)
  BY <1>1, <1>2
<1>5. /\ IsSeq(entries'[a]) /\ Len(entries'[a]) = Len(entries[a]) + 1
      /\ DOMAIN entries'[a] = 1..(Len(entries[a]) + 1)
      /\ entries'[a][Len(entries[a]) + 1] = e
      /\ \A i \in 1..Len(entries[a]) : entries'[a][i] = entries[a][i]
  BY <1>2, <1>4, Extended
<1>6. CASE at[a] < Len(Steps(a))
  <2>1. Goto(a, "stat", at[a] + 1)
    BY <1>6 DEF NextEntry
  <2>2. at[a] + 1 \in Nat \ {0} /\ pc'[a] = "stat" /\ at'[a] = at[a] + 1
    BY <2>1 DEF TypeOK, Goto
  <2> QED
    BY <1>3, <1>5, <1>6, <2>1, <2>2 DEF Moves, Labels
<1>7. CASE ~(at[a] < Len(Steps(a)))
  <2>1. Goto(a, "audit", 1)
    BY <1>7 DEF NextEntry
  <2>2. pc'[a] = "audit"
    BY <2>1 DEF TypeOK, Goto
  <2> QED
    BY <1>3, <1>5, <1>7, <2>1, <2>2 DEF Moves, Labels
<1> QED
  BY <1>6, <1>7

---------------------------------------------------------------------------
(* What each step of an apply does to it; the other applies stay.          *)

Others(a) ==
  \A b \in Appliers \ {a} :
    /\ pc'[b] = pc[b] /\ at'[b] = at[b] /\ read'[b] = read[b] /\ entries'[b] = entries[b]
    /\ b \in saved' <=> b \in saved

LEMMA StepFrame ==
  ASSUME TypeOK, NEW a \in Appliers, Moves(a), UNCHANGED <<read, entries, saved>>
  PROVE  Others(a)
BY MovesType DEF Others

\* A step that changes no text, no entry and no reading.
Quiet(a) == Moves(a) /\ UNCHANGED <<disk, read, entries, raced>>

LEMMA QuietType ==
  ASSUME TypeOK, NEW a \in Appliers, Quiet(a), DOMAIN hashed' = Appliers,
         saved' \subseteq Appliers, pc'[a] # "read"
  PROVE  TypeOK'
<1>1. /\ pc' \in [Appliers -> Labels] /\ at' \in [Appliers -> Nat \ {0}]
      /\ undoing' \in Appliers \cup {None} /\ undoAt' \in Nat \ {0} /\ edits' \in Nat
      /\ \A b \in Appliers \ {a} : pc'[b] = pc[b] /\ at'[b] = at[b]
  BY MovesType DEF Quiet
<1>2. ASSUME NEW b \in Appliers
      PROVE  Typed(b)'
  BY <1>1 DEF TypeOK, Typed, Quiet
<1> QED
  BY <1>1, <1>2 DEF TypeOK, Quiet

LEMMA ReadFacts ==
  ASSUME TypeOK, NEW a \in Appliers, ReadTarget(a)
  PROVE  /\ pc[a] = "read" /\ at[a] \in DOMAIN Order /\ Order[at[a]] \in Targets
         /\ Moves(a) /\ Others(a) /\ UNCHANGED <<disk, hashed, entries, saved, raced>>
         /\ read' \in [Appliers -> [Targets -> Held]]
         /\ \A t \in Targets :
              read'[a][t] = IF t = Order[at[a]] THEN Readable(disk[t]) ELSE read[a][t]
         /\ \/ pc'[a] = "read" /\ at'[a] = at[a] + 1 /\ at'[a] \in DOMAIN Order
            \/ pc'[a] = "preview" /\ at[a] = Len(Order)
<1>1. pc[a] = "read" /\ at[a] \in DOMAIN Order /\ Order[at[a]] \in Targets
  BY OrderFacts DEF ReadTarget, TypeOK, Typed
<1>2. UNCHANGED <<disk, hashed, entries, saved, undoVars, raced, edits>>
  BY DEF ReadTarget
<1>3. read' = [read EXCEPT ![a][Order[at[a]]] = Readable(disk[Order[at[a]]])]
  BY DEF ReadTarget
<1>4. Readable(disk[Order[at[a]]]) \in Held
  BY <1>1, DiskType, ReadableType
<1>5. read \in [Appliers -> [Targets -> Held]]
  BY DEF TypeOK
<1>6. /\ read' \in [Appliers -> [Targets -> Held]]
      /\ \A b \in Appliers \ {a} : read'[b] = read[b]
      /\ \A t \in Targets :
           read'[a][t] = IF t = Order[at[a]] THEN Readable(disk[t]) ELSE read[a][t]
  BY <1>1, <1>3, <1>4, <1>5
<1>7. \/ at[a] < Len(Order) /\ Goto(a, "read", at[a] + 1)
      \/ at[a] = Len(Order) /\ Goto(a, "preview", 1)
  <2>1. at[a] \in 1..Len(Order) /\ Len(Order) \in Nat
    BY <1>1, OrderFacts
  <2> QED
    BY <2>1 DEF ReadTarget
<1>8. Moves(a)
  <2>1. at[a] + 1 \in Nat \ {0} /\ 1 \in Nat \ {0}
    BY <1>1, OrderFacts
  <2> QED
    BY <1>2, <1>7, <2>1 DEF Moves, Labels
<1>9. \/ pc'[a] = "read" /\ at'[a] = at[a] + 1 /\ at'[a] \in DOMAIN Order
      \/ pc'[a] = "preview" /\ at[a] = Len(Order)
  <2>1. at[a] < Len(Order) => at[a] + 1 \in DOMAIN Order
    BY <1>1, OrderFacts
  <2> QED
    BY <1>7, <1>8, <2>1, MovesType
<1>10. Others(a)
  BY <1>2, <1>6, <1>8, MovesType DEF Others
<1> QED
  BY <1>1, <1>2, <1>6, <1>8, <1>9, <1>10

LEMMA PreviewFacts ==
  ASSUME TypeOK, NEW a \in Appliers, Preview(a)
  PROVE  /\ pc[a] = "preview" /\ Quiet(a) /\ UNCHANGED <<hashed, saved>>
         /\ \/ pc'[a] = "done"
            \/ pc'[a] = "audit" /\ Steps(a) = <<>>
            \/ pc'[a] = "stat" /\ at'[a] = 1
<1>1. UNCHANGED <<disk, read, hashed, entries, saved, undoVars, raced, edits>> /\ pc[a] = "preview"
  BY DEF Preview
<1>2. \/ Goto(a, "done", at[a])
      \/ Steps(a) = <<>> /\ Goto(a, "audit", 1)
      \/ Goto(a, "stat", 1)
  BY DEF Preview, Done
<1>3. Moves(a)
  BY <1>1, <1>2 DEF Moves, Labels, TypeOK
<1> QED
  BY <1>1, <1>2, <1>3, MovesType DEF Quiet

\* The two steps of the backup: a new entry e, or none.
Enters(a, e) ==
  /\ NextEntry(a, e) /\ Moves(a) /\ UNCHANGED <<disk, read, saved, raced>>
  /\ DOMAIN hashed' = Appliers

LEMMA EntersFrame ==
  ASSUME TypeOK, NEW a \in Appliers, NEW e, Enters(a, e)
  PROVE  Others(a)
<1>1. \A b \in Appliers \ {a} : entries'[b] = entries[b] /\ pc'[b] = pc[b] /\ at'[b] = at[b]
  BY NextEntryFacts, MovesType DEF Enters
<1> QED
  BY <1>1 DEF Others, Enters

LEMMA EntersType ==
  ASSUME TypeOK, NEW a \in Appliers, NEW e, Enters(a, e), e.target \in Targets => e.copy \in Held
  PROVE  TypeOK'
<1>1. /\ pc' \in [Appliers -> Labels] /\ at' \in [Appliers -> Nat \ {0}]
      /\ undoing' \in Appliers \cup {None} /\ undoAt' \in Nat \ {0} /\ edits' \in Nat
      /\ \A b \in Appliers \ {a} : pc'[b] = pc[b] /\ at'[b] = at[b]
  BY MovesType DEF Enters
<1>2. /\ pc'[a] # "read" /\ DOMAIN entries' = Appliers
      /\ \A b \in Appliers \ {a} : entries'[b] = entries[b]
      /\ IsSeq(entries'[a]) /\ DOMAIN entries'[a] = 1..(Len(entries[a]) + 1)
      /\ entries'[a][Len(entries[a]) + 1] = e
      /\ \A i \in 1..Len(entries[a]) : entries'[a][i] = entries[a][i]
  BY NextEntryFacts DEF Enters
<1>3. Typed(a)'
  <2>1. Len(entries[a]) \in Nat /\ DOMAIN entries[a] = 1..Len(entries[a])
    BY EntriesTyped
  <2>2. ASSUME NEW i \in DOMAIN entries'[a], entries'[a][i].target \in Targets
        PROVE  entries'[a][i].copy \in Held
    <3>1. i = Len(entries[a]) + 1 \/ i \in 1..Len(entries[a])
      BY <1>2, <2>1
    <3> QED
      BY <1>2, <2>1, <2>2, <3>1 DEF TypeOK, Typed
  <2> QED
    BY <1>2, <2>2 DEF Typed
<1>4. ASSUME NEW b \in Appliers \ {a}
      PROVE  Typed(b)'
  BY <1>1, <1>2 DEF TypeOK, Typed
<1> QED
  BY <1>1, <1>2, <1>3, <1>4 DEF TypeOK, Enters

LEMMA LookFacts ==
  ASSUME TypeOK, NEW a \in Appliers, BackupStat(a) \/ BackupHash(a)
  PROVE  /\ pc[a] \in {"stat", "hash"}
         /\ \/ Quiet(a) /\ UNCHANGED saved /\ DOMAIN hashed' = Appliers
               /\ (pc'[a] = "done" \/ (pc'[a] \in {"hash", "copy"} /\ at'[a] = at[a]))
            \/ ~Exists(disk[Target(a)]) /\ Enters(a, Entry(Target(a), FALSE, None, None))
<1>1. pc[a] \in {"stat", "hash"} /\ UNCHANGED <<disk, read, saved, undoVars, raced, edits>>
  BY DEF BackupStat, BackupHash
<1>2. \/ Goto(a, "done", at[a]) /\ UNCHANGED <<hashed, entries>>
      \/ /\ ~Exists(disk[Target(a)]) /\ NextEntry(a, Entry(Target(a), FALSE, None, None))
         /\ UNCHANGED hashed
      \/ Goto(a, "hash", at[a]) /\ UNCHANGED <<hashed, entries>>
      \/ /\ DOMAIN hashed' = DOMAIN hashed
         /\ Goto(a, "copy", at[a]) /\ UNCHANGED entries
  BY DEF BackupStat, BackupHash, Done
<1>3. CASE Goto(a, "done", at[a]) /\ UNCHANGED <<hashed, entries>>
  <2>1. Moves(a)
    BY <1>1, <1>3 DEF Moves, Labels, TypeOK
  <2> QED
    BY <1>1, <1>3, <2>1, MovesType DEF Quiet, TypeOK
<1>4. CASE ~Exists(disk[Target(a)]) /\ NextEntry(a, Entry(Target(a), FALSE, None, None))
           /\ UNCHANGED hashed
  <2>1. Moves(a)
    BY <1>1, <1>4, NextEntryFacts
  <2> QED
    BY <1>1, <1>4, <2>1 DEF Enters, TypeOK
<1>5. CASE Goto(a, "hash", at[a]) /\ UNCHANGED <<hashed, entries>>
  <2>1. Moves(a)
    BY <1>1, <1>5 DEF Moves, Labels, TypeOK
  <2> QED
    BY <1>1, <1>5, <2>1, MovesType DEF Quiet, TypeOK
<1>6. CASE DOMAIN hashed' = DOMAIN hashed /\ Goto(a, "copy", at[a]) /\ UNCHANGED entries
  <2>1. Moves(a)
    BY <1>1, <1>6 DEF Moves, Labels, TypeOK
  <2> QED
    BY <1>1, <1>6, <2>1, MovesType DEF Quiet, TypeOK
<1> QED
  BY <1>2, <1>3, <1>4, <1>5, <1>6

LEMMA CopyFacts ==
  ASSUME TypeOK, NEW a \in Appliers, BackupCopy(a)
  PROVE  /\ pc[a] = "copy"
         /\ Enters(a, Entry(Target(a), Exists(disk[Target(a)]), hashed[a], disk[Target(a)]))
<1>1. /\ pc[a] = "copy" /\ UNCHANGED <<disk, read, hashed, saved, undoVars, raced, edits>>
      /\ NextEntry(a, Entry(Target(a), Exists(disk[Target(a)]), hashed[a], disk[Target(a)]))
  BY DEF BackupCopy
<1>2. Moves(a)
  BY <1>1, NextEntryFacts
<1> QED
  BY <1>1, <1>2 DEF Enters, TypeOK

LEMMA AuditFacts ==
  ASSUME TypeOK, NEW a \in Appliers, SaveAudit(a)
  PROVE  /\ pc[a] = "audit" /\ Quiet(a) /\ UNCHANGED hashed /\ saved' = saved \cup {a}
         /\ \/ pc'[a] = "done"
            \/ pc'[a] = "assert" /\ at'[a] = 1 /\ Steps(a) # <<>>
<1>1. /\ UNCHANGED <<disk, read, hashed, entries, undoVars, raced, edits>>
      /\ pc[a] = "audit" /\ saved' = saved \cup {a}
  BY DEF SaveAudit
<1>2. \/ Goto(a, "done", at[a])
      \/ Steps(a) # <<>> /\ Goto(a, "assert", 1)
  <2>1. CASE Steps(a) = <<>>
    BY <2>1, Zenon DEF SaveAudit, Done
  <2>2. CASE Steps(a) # <<>>
    BY <2>2, Zenon DEF SaveAudit, Done
  <2> QED
    BY <2>1, <2>2
<1>3. Moves(a)
  BY <1>1, <1>2 DEF Moves, Labels, TypeOK
<1> QED
  BY <1>1, <1>2, <1>3, MovesType DEF Quiet

LEMMA AssertFacts ==
  ASSUME TypeOK, NEW a \in Appliers, Assert(a)
  PROVE  /\ pc[a] = "assert" /\ Moves(a) /\ UNCHANGED <<disk, read, hashed, entries, saved>>
         /\ raced' \in [Appliers -> BOOLEAN] /\ \A b \in Appliers \ {a} : raced'[b] = raced[b]
         /\ \/ pc'[a] = "done"
            \/ /\ pc'[a] = "write" /\ at'[a] = at[a]
               /\ Unchanged(EntryOf(a, Target(a)), disk[Target(a)])
<1>1. /\ UNCHANGED <<disk, read, hashed, entries, saved, undoVars, edits>>
      /\ pc[a] = "assert" /\ raced' = [raced EXCEPT ![a] = FALSE]
  BY DEF Assert
<1>2. \/ Goto(a, "done", at[a])
      \/ Goto(a, "write", at[a]) /\ Unchanged(EntryOf(a, Target(a)), disk[Target(a)])
  BY DEF Assert, Done
<1>3. Moves(a)
  BY <1>1, <1>2 DEF Moves, Labels, TypeOK
<1>4. raced' \in [Appliers -> BOOLEAN] /\ \A b \in Appliers \ {a} : raced'[b] = raced[b]
  BY <1>1 DEF TypeOK
<1> QED
  BY <1>1, <1>2, <1>3, <1>4, MovesType

LEMMA WriteFacts ==
  ASSUME TypeOK, NEW a \in Appliers, Write(a)
  PROVE  /\ pc[a] = "write" /\ Moves(a) /\ UNCHANGED <<read, hashed, entries, saved>>
         /\ ~IsLink(disk[Target(a)]) /\ Changes(Target(a), WithFix(read[a][Target(a)]))
         /\ \/ pc'[a] = "done"
            \/ pc'[a] = "assert" /\ at'[a] = at[a] + 1 /\ at[a] < Len(Steps(a))
<1>1. /\ UNCHANGED <<read, hashed, entries, saved, undoVars, edits>>
      /\ pc[a] = "write" /\ ~IsLink(disk[Target(a)])
      /\ Changes(Target(a), WithFix(read[a][Target(a)]))
  BY DEF Write
<1>2. \/ Goto(a, "done", at[a])
      \/ Goto(a, "assert", at[a] + 1) /\ at[a] < Len(Steps(a))
  BY DEF Write, Done
<1>3. at[a] \in Nat \ {0} /\ at[a] + 1 \in Nat \ {0}
  BY DEF TypeOK
<1>4. Moves(a)
  BY <1>1, <1>2, <1>3 DEF Moves, Labels
<1> QED
  BY <1>1, <1>2, <1>4, MovesType

LEMMA FailsFacts ==
  ASSUME TypeOK, NEW a \in Appliers, Fails(a)
  PROVE  Quiet(a) /\ UNCHANGED <<hashed, saved>> /\ pc'[a] = "done" /\ pc[a] # "done"
<1>1. /\ UNCHANGED <<disk, read, hashed, entries, saved, undoVars, raced, edits>>
      /\ Goto(a, "done", at[a]) /\ pc[a] # "done"
  BY DEF Fails, Done
<1>2. Moves(a)
  BY <1>1 DEF Moves, Labels, TypeOK
<1> QED
  BY <1>1, <1>2, MovesType DEF Quiet

\* An undo, and the user, leave the applies where they stand.
Rests == UNCHANGED <<pc, at, read, hashed, entries, saved>>

LEMMA RestsType ==
  ASSUME TypeOK, Rests, disk' \in [Targets -> Held], raced' \in [Appliers -> BOOLEAN],
         undoing' \in Appliers \cup {None}, undoAt' \in Nat \ {0}, edits' \in Nat
  PROVE  TypeOK'
BY DEF TypeOK, Typed, Rests

LEMMA UndoEntryFacts ==
  ASSUME TypeOK, UndoEntry
  PROVE  /\ Rests /\ undoing # None /\ undoing \in Appliers /\ undoAt' = undoAt + 1
         /\ UNCHANGED <<undoing, undone, edits>>
         /\ undoAt \in DOMAIN entries[undoing]
         /\ LET e == entries[undoing][undoAt] IN
            \/ e.existed /\ IsLink(disk[e.target]) /\ UNCHANGED <<disk, raced>>
            \/ /\ Changes(e.target, IF e.existed THEN e.copy ELSE None)
               /\ e.target \in Targets => (IF e.existed THEN e.copy ELSE None) \in Held
<1>1. /\ undoing # None /\ undoing \in Appliers
      /\ UNCHANGED <<pc, at, read, hashed, entries, saved, undoing, undone, edits>>
      /\ undoAt' = undoAt + 1 /\ undoAt <= Len(entries[undoing])
  BY DEF UndoEntry, TypeOK
<1>2. undoAt \in DOMAIN entries[undoing]
  BY <1>1, EntriesTyped DEF TypeOK
<1> DEFINE e == entries[undoing][undoAt]
<1>3. e.target \in Targets => (IF e.existed THEN e.copy ELSE None) \in Held
  <2>1. e.target \in Targets => e.copy \in Held
    BY <1>1, <1>2 DEF TypeOK, Typed
  <2> QED
    BY <2>1 DEF Held
<1>4. \/ e.existed /\ IsLink(disk[e.target]) /\ UNCHANGED <<disk, raced>>
      \/ Changes(e.target, IF e.existed THEN e.copy ELSE None)
  BY DEF UndoEntry
<1> QED
  BY <1>1, <1>2, <1>3, <1>4 DEF Rests

LEMMA TypeStep == TypeOK /\ [FixNext]_fixVars => TypeOK'
<1> SUFFICES ASSUME TypeOK, [FixNext]_fixVars
             PROVE  TypeOK'
  OBVIOUS
<1>1. ASSUME NEW a \in Appliers, ReadTarget(a)
      PROVE  TypeOK'
  <2>1. /\ pc' \in [Appliers -> Labels] /\ at' \in [Appliers -> Nat \ {0}]
        /\ undoing' \in Appliers \cup {None} /\ undoAt' \in Nat \ {0} /\ edits' \in Nat
        /\ \A b \in Appliers \ {a} : pc'[b] = pc[b] /\ at'[b] = at[b]
    BY <1>1, ReadFacts, MovesType
  <2>2. /\ UNCHANGED <<disk, hashed, entries, saved, raced>>
        /\ read' \in [Appliers -> [Targets -> Held]]
        /\ pc'[a] = "read" => at'[a] \in DOMAIN Order
    BY <1>1, ReadFacts
  <2>3. ASSUME NEW b \in Appliers
        PROVE  Typed(b)'
    BY <2>1, <2>2 DEF TypeOK, Typed
  <2> QED
    BY <2>1, <2>2, <2>3 DEF TypeOK
<1>2. ASSUME NEW a \in Appliers, Preview(a)
      PROVE  TypeOK'
  BY <1>2, PreviewFacts, QuietType DEF TypeOK
<1>3. ASSUME NEW a \in Appliers, BackupStat(a) \/ BackupHash(a)
      PROVE  TypeOK'
  <2>1. CASE Quiet(a) /\ UNCHANGED saved /\ DOMAIN hashed' = Appliers /\ pc'[a] # "read"
    BY <2>1, QuietType DEF TypeOK
  <2>2. CASE Enters(a, Entry(Target(a), FALSE, None, None))
    <3>1. Entry(Target(a), FALSE, None, None).copy \in Held
      BY DEF Entry, Held
    <3> QED
      BY <2>2, <3>1, EntersType
  <2> QED
    BY <1>3, <2>1, <2>2, LookFacts
<1>4. ASSUME NEW a \in Appliers, BackupCopy(a)
      PROVE  TypeOK'
  <2> DEFINE e == Entry(Target(a), Exists(disk[Target(a)]), hashed[a], disk[Target(a)])
  <2>1. e.target = Target(a) /\ e.copy = disk[Target(a)]
    BY DEF Entry
  <2>2. e.target \in Targets => e.copy \in Held
    BY <2>1, DiskType
  <2>3. Enters(a, e)
    BY <1>4, CopyFacts
  <2> HIDE DEF e
  <2> QED
    BY <2>2, <2>3, EntersType
<1>5. ASSUME NEW a \in Appliers, SaveAudit(a)
      PROVE  TypeOK'
  <2>1. Quiet(a) /\ UNCHANGED hashed /\ saved' = saved \cup {a} /\ pc'[a] # "read"
    BY <1>5, AuditFacts
  <2> QED
    BY <2>1, QuietType DEF TypeOK
<1>6. ASSUME NEW a \in Appliers, Moves(a), pc'[a] # "read", disk' \in [Targets -> Held],
             raced' \in [Appliers -> BOOLEAN], UNCHANGED <<read, hashed, entries, saved>>
      PROVE  TypeOK'
  <2>1. /\ pc' \in [Appliers -> Labels] /\ at' \in [Appliers -> Nat \ {0}]
        /\ undoing' \in Appliers \cup {None} /\ undoAt' \in Nat \ {0} /\ edits' \in Nat
        /\ \A b \in Appliers \ {a} : pc'[b] = pc[b] /\ at'[b] = at[b]
    BY <1>6, MovesType
  <2>2. ASSUME NEW b \in Appliers
        PROVE  Typed(b)'
    BY <1>6, <2>1 DEF TypeOK, Typed
  <2> QED
    BY <1>6, <2>1, <2>2 DEF TypeOK
<1>7. ASSUME NEW a \in Appliers, Assert(a)
      PROVE  TypeOK'
  <2>1. /\ Moves(a) /\ UNCHANGED <<disk, read, hashed, entries, saved>> /\ pc'[a] # "read"
        /\ raced' \in [Appliers -> BOOLEAN]
    BY <1>7, AssertFacts
  <2> QED
    BY <1>6, <2>1 DEF TypeOK
<1>8. ASSUME NEW a \in Appliers, Write(a)
      PROVE  TypeOK'
  <2>1. /\ Moves(a) /\ UNCHANGED <<read, hashed, entries, saved>> /\ pc'[a] # "read"
        /\ Changes(Target(a), WithFix(read[a][Target(a)]))
    BY <1>8, WriteFacts
  <2>2. Target(a) \in Targets => WithFix(read[a][Target(a)]) \in Held
    BY WithFixType DEF TypeOK
  <2>3. disk' \in [Targets -> Held] /\ raced' \in [Appliers -> BOOLEAN]
    BY <2>1, <2>2, ChangesType
  <2> QED
    BY <1>6, <2>1, <2>3
<1>9. ASSUME NEW a \in Appliers, Fails(a)
      PROVE  TypeOK'
  BY <1>9, FailsFacts, QuietType DEF TypeOK
<1>10. ASSUME NEW a \in Appliers, UndoStart(a)
       PROVE  TypeOK'
  <2>1. Rests /\ UNCHANGED <<disk, raced, edits>> /\ undoing' = a /\ undoAt' = 1
    BY <1>10 DEF UndoStart, Rests
  <2> QED
    BY <2>1, RestsType DEF TypeOK
<1>11. CASE UndoEntry
  <2> DEFINE e == entries[undoing][undoAt]
             x == IF e.existed THEN e.copy ELSE None
  <2>1. /\ Rests /\ undoAt' = undoAt + 1 /\ UNCHANGED <<undoing, edits>>
        /\ \/ UNCHANGED <<disk, raced>>
           \/ Changes(e.target, x) /\ (e.target \in Targets => x \in Held)
    BY <1>11, UndoEntryFacts, Zenon
  <2>2. disk' \in [Targets -> Held] /\ raced' \in [Appliers -> BOOLEAN]
    <3> HIDE DEF x
    <3> QED
      BY <2>1, ChangesType DEF TypeOK
  <2> QED
    BY <2>1, <2>2, RestsType DEF TypeOK
<1>12. CASE UndoEnds
  <2>1. Rests /\ UNCHANGED <<disk, raced, edits>> /\ undoing' = None /\ undoAt' = 1
    BY <1>12 DEF UndoEnds, Rests
  <2> QED
    BY <2>1, RestsType DEF TypeOK
<1>13. CASE Edit
  <2>1. PICK t \in Targets, x \in [base: Bases \ {Empty}, fixed: {FALSE}] \cup {None} :
          Changes(t, x)
    BY <1>13 DEF Edit
  <2>2. x \in Held
    BY DEF Held, Text
  <2>3. Rests /\ UNCHANGED <<undoing, undoAt>> /\ edits' = edits + 1
    BY <1>13 DEF Edit, Rests, undoVars
  <2>4. disk' \in [Targets -> Held] /\ raced' \in [Appliers -> BOOLEAN]
    BY <2>1, <2>2, ChangesType
  <2> QED
    BY <2>3, <2>4, RestsType DEF TypeOK
<1>14. CASE UNCHANGED fixVars
  BY <1>14, RestsType DEF fixVars, Rests, TypeOK
<1> QED
  BY <1>1, <1>2, <1>3, <1>4, <1>5, <1>7, <1>8, <1>9, <1>10, <1>11, <1>12, <1>13, <1>14
     DEF FixNext

---------------------------------------------------------------------------
(* An apply has an entry for every target it is to write.                  *)

LEMMA StandKept ==
  ASSUME NEW b, Stand(b), pc'[b] = pc[b], at'[b] = at[b], read'[b] = read[b],
         entries'[b] = entries[b], b \in saved' <=> b \in saved,
         (undoing' = b \/ b \in undone') => (undoing = b \/ b \in undone)
  PROVE  Stand(b)'
<1>1. Steps(b)' = Steps(b)
  BY DEF Steps
<1> QED
  BY <1>1 DEF Stand, Covered

LEMMA DoneStands ==
  ASSUME NEW b, pc'[b] = "done"
  PROVE  Stand(b)'
BY DEF Stand

\* One apply has moved: the others stand as they did.
LEMMA StandMoved ==
  ASSUME TypeOK, StandInv, NEW a \in Appliers, Moves(a), Others(a), saved \subseteq saved',
         Stand(a)'
  PROVE  StandInv'
<1>1. UNCHANGED <<undoing, undone>>
  BY MovesType
<1>2. \A b \in Appliers \ {a} : Stand(b)'
  BY <1>1, StandKept DEF StandInv, Others
<1> QED
  BY <1>1, <1>2 DEF StandInv

LEMMA StandEnters ==
  ASSUME TypeOK, NEW a \in Appliers, Stand(a), pc[a] \in {"stat", "hash", "copy"}, NEW e, Enters(a, e),
         e.target = Target(a)
  PROVE  Stand(a)'
<1>1. /\ Len(entries[a]) = at[a] - 1 /\ Covered(a) /\ a \notin saved
      /\ ~(UndoAfter /\ (undoing = a \/ a \in undone))
  BY DEF Stand
<1>2. /\ at[a] \in Nat \ {0} /\ Len(entries[a]) \in Nat
      /\ DOMAIN entries[a] = 1..Len(entries[a])
  BY EntriesTyped DEF TypeOK
<1>3. /\ pc'[a] \in {"stat", "audit"}
      /\ pc'[a] = "stat" => at'[a] = at[a] + 1
      /\ pc'[a] = "audit" => ~(at[a] < Len(Steps(a)))
      /\ Len(entries'[a]) = Len(entries[a]) + 1
      /\ DOMAIN entries'[a] = 1..(Len(entries[a]) + 1)
      /\ entries'[a][Len(entries[a]) + 1] = e
      /\ \A i \in 1..Len(entries[a]) : entries'[a][i] = entries[a][i]
  BY NextEntryFacts DEF Enters
<1>4. Steps(a)' = Steps(a) /\ UNCHANGED <<saved, undoing, undone>>
  BY MovesType DEF Steps, Enters
<1>5. Len(entries'[a]) = at[a]
  BY <1>1, <1>2, <1>3
<1>6. Covered(a)'
  <2>1. ASSUME NEW i \in DOMAIN entries'[a]
        PROVE  entries'[a][i].target = Steps(a)[i]
    <3>1. i = Len(entries[a]) + 1 \/ i \in 1..Len(entries[a])
      BY <1>2, <1>3
    <3>2. Len(entries[a]) + 1 = at[a]
      BY <1>1, <1>2
    <3> QED
      BY <1>1, <1>2, <1>3, <3>1, <3>2 DEF Covered, Target
  <2> QED
    BY <1>4, <2>1 DEF Covered
<1>7. CASE pc'[a] = "stat"
  BY <1>1, <1>2, <1>3, <1>4, <1>5, <1>6, <1>7 DEF Stand
<1>8. CASE pc'[a] = "audit"
  <2>1. ~(Len(entries'[a]) < Len(Steps(a))) /\ Len(entries'[a]) >= 1
    BY <1>2, <1>3, <1>5, <1>8
  <2> QED
    BY <1>1, <1>4, <1>6, <1>8, <2>1 DEF Stand
<1> QED
  BY <1>3, <1>7, <1>8

LEMMA StandStep == TypeOK /\ StandInv /\ [FixNext]_fixVars => StandInv'
<1> SUFFICES ASSUME TypeOK, StandInv, [FixNext]_fixVars
             PROVE  StandInv'
  OBVIOUS
<1>1. ASSUME NEW a \in Appliers, ReadTarget(a)
      PROVE  StandInv'
  <2>1. /\ pc[a] = "read" /\ Moves(a) /\ Others(a) /\ UNCHANGED <<entries, saved>>
        /\ pc'[a] \in {"read", "preview"}
    BY <1>1, ReadFacts
  <2>2. UNCHANGED <<undoing, undone>>
    BY <2>1, MovesType
  <2>3. Stand(a)'
    BY <2>1, <2>2 DEF StandInv, Stand
  <2> QED
    BY <2>1, <2>3, StandMoved
<1>2. ASSUME NEW a \in Appliers, Preview(a)
      PROVE  StandInv'
  <2>1. /\ pc[a] = "preview" /\ Moves(a) /\ UNCHANGED <<read, entries, saved>>
        /\ \/ pc'[a] = "done"
           \/ pc'[a] = "audit" /\ Steps(a) = <<>>
           \/ pc'[a] = "stat" /\ at'[a] = 1
    BY <1>2, PreviewFacts DEF Quiet
  <2>2. UNCHANGED <<undoing, undone>> /\ Others(a)
    BY <2>1, MovesType, StepFrame
  <2>3. /\ entries[a] = <<>> /\ a \notin saved
        /\ ~(UndoAfter /\ (undoing = a \/ a \in undone))
    BY <2>1 DEF StandInv, Stand
  <2>4. Steps(a)' = Steps(a) /\ entries'[a] = <<>>
    BY <2>1, <2>3 DEF Steps
  <2>5. Covered(a)'
    BY <2>4 DEF Covered
  <2>6. Stand(a)'
    <3>1. CASE pc'[a] = "done"
      BY <3>1, DoneStands
    <3>2. CASE pc'[a] = "audit" /\ Steps(a) = <<>>
      <4>1. ~(Len(entries'[a]) < Len(Steps(a)))
        BY <2>4, <3>2
      <4> QED
        BY <2>1, <2>2, <2>3, <2>4, <2>5, <3>2, <4>1 DEF Stand
    <3>3. CASE pc'[a] = "stat" /\ at'[a] = 1
      <4>1. Len(entries'[a]) = at'[a] - 1
        BY <2>4, <3>3
      <4> QED
        BY <2>1, <2>2, <2>3, <2>5, <3>3, <4>1 DEF Stand
    <3> QED
      BY <2>1, <3>1, <3>2, <3>3
  <2> QED
    BY <2>1, <2>2, <2>6, StandMoved
<1>3. ASSUME NEW a \in Appliers, BackupStat(a) \/ BackupHash(a)
      PROVE  StandInv'
  <2>1. pc[a] \in {"stat", "hash"} /\ Stand(a)
    BY <1>3, LookFacts DEF StandInv
  <2>2. CASE Quiet(a) /\ UNCHANGED saved /\ (pc'[a] = "done" \/ (pc'[a] \in {"hash", "copy"} /\ at'[a] = at[a]))
    <3>1. UNCHANGED <<undoing, undone>> /\ Others(a)
      BY <2>2, MovesType, StepFrame DEF Quiet
    <3>2. CASE pc'[a] = "done"
      BY <2>2, <3>1, <3>2, DoneStands, StandMoved DEF Quiet
    <3>3. CASE pc'[a] \in {"hash", "copy"} /\ at'[a] = at[a]
      <4>1. Steps(a)' = Steps(a)
        BY <2>2 DEF Quiet, Steps
      <4>2. Stand(a)'
        BY <2>1, <2>2, <3>1, <3>3, <4>1 DEF Stand, Quiet, Covered
      <4> QED
        BY <2>2, <3>1, <4>2, StandMoved DEF Quiet
    <3> QED
      BY <2>2, <3>2, <3>3
  <2>3. CASE Enters(a, Entry(Target(a), FALSE, None, None))
    <3>1. Entry(Target(a), FALSE, None, None).target = Target(a)
      BY DEF Entry
    <3>2. Stand(a)'
      BY <2>1, <2>3, <3>1, StandEnters
    <3>3. Others(a) /\ Moves(a) /\ UNCHANGED saved
      BY <2>3, EntersFrame DEF Enters
    <3> QED
      BY <3>2, <3>3, StandMoved
  <2> QED
    BY <1>3, <2>2, <2>3, LookFacts
<1>4. ASSUME NEW a \in Appliers, BackupCopy(a)
      PROVE  StandInv'
  <2> DEFINE e == Entry(Target(a), Exists(disk[Target(a)]), hashed[a], disk[Target(a)])
  <2>1. pc[a] = "copy" /\ Enters(a, e) /\ e.target = Target(a)
    BY <1>4, CopyFacts DEF Entry
  <2> HIDE DEF e
  <2>2. Stand(a)'
    BY <2>1, StandEnters DEF StandInv
  <2>3. Others(a) /\ Moves(a) /\ UNCHANGED saved
    BY <2>1, EntersFrame DEF Enters
  <2> QED
    BY <2>2, <2>3, StandMoved
<1>5. ASSUME NEW a \in Appliers, SaveAudit(a)
      PROVE  StandInv'
  <2>1. /\ pc[a] = "audit" /\ Moves(a) /\ UNCHANGED <<read, entries>> /\ saved' = saved \cup {a}
        /\ \/ pc'[a] = "done"
           \/ pc'[a] = "assert" /\ at'[a] = 1 /\ Steps(a) # <<>>
    BY <1>5, AuditFacts DEF Quiet
  <2>2. UNCHANGED <<undoing, undone>> /\ Steps(a)' = Steps(a) /\ Others(a)
    BY <2>1, MovesType DEF Steps, Others
  <2>3. Stand(a)'
    <3>1. CASE pc'[a] = "done"
      BY <3>1, DoneStands
    <3>2. CASE pc'[a] = "assert" /\ at'[a] = 1 /\ Steps(a) # <<>>
      BY <2>1, <2>2, <3>2 DEF StandInv, Stand, Covered
    <3> QED
      BY <2>1, <3>1, <3>2
  <2> QED
    BY <2>1, <2>2, <2>3, StandMoved
<1>6. ASSUME NEW a \in Appliers, Assert(a)
      PROVE  StandInv'
  <2>1. /\ pc[a] = "assert" /\ Moves(a) /\ UNCHANGED <<read, entries, saved>>
        /\ pc'[a] = "done" \/ (pc'[a] = "write" /\ at'[a] = at[a])
    BY <1>6, AssertFacts
  <2>2. UNCHANGED <<undoing, undone>> /\ Steps(a)' = Steps(a) /\ Others(a)
    BY <2>1, MovesType, StepFrame DEF Steps
  <2>3. Stand(a)'
    BY <2>1, <2>2, DoneStands DEF StandInv, Stand, Covered
  <2> QED
    BY <2>1, <2>2, <2>3, StandMoved
<1>7. ASSUME NEW a \in Appliers, Write(a)
      PROVE  StandInv'
  <2>1. /\ pc[a] = "write" /\ Moves(a) /\ UNCHANGED <<read, entries, saved>>
        /\ \/ pc'[a] = "done"
           \/ pc'[a] = "assert" /\ at'[a] = at[a] + 1 /\ at[a] < Len(Steps(a))
    BY <1>7, WriteFacts
  <2>2. UNCHANGED <<undoing, undone>> /\ Steps(a)' = Steps(a) /\ Others(a)
    BY <2>1, MovesType, StepFrame DEF Steps
  <2>3. Stand(a)'
    <3>1. CASE pc'[a] = "done"
      BY <3>1, DoneStands
    <3>2. CASE pc'[a] = "assert" /\ at'[a] = at[a] + 1 /\ at[a] < Len(Steps(a))
      <4>1. /\ Covered(a) /\ ~(Len(entries[a]) < Len(Steps(a))) /\ at[a] <= Len(entries[a])
            /\ a \in saved /\ ~(UndoAfter /\ (undoing = a \/ a \in undone))
        BY <2>1 DEF StandInv, Stand
      <4>2. at[a] \in Nat /\ Len(entries[a]) \in Nat
        BY EntriesTyped DEF TypeOK
      <4>3. at[a] # Len(entries[a])
        BY <3>2, <4>1
      <4>4. at[a] + 1 <= Len(entries[a])
        BY <4>1, <4>2, <4>3
      <4> QED
        BY <2>1, <2>2, <3>2, <4>1, <4>4 DEF Stand, Covered
    <3> QED
      BY <2>1, <3>1, <3>2
  <2> QED
    BY <2>1, <2>2, <2>3, StandMoved
<1>8. ASSUME NEW a \in Appliers, Fails(a)
      PROVE  StandInv'
  <2>1. pc'[a] = "done" /\ Moves(a) /\ UNCHANGED <<read, entries, saved>>
    BY <1>8, FailsFacts DEF Quiet
  <2> QED
    BY <2>1, DoneStands, StepFrame, StandMoved
<1>9. ASSUME NEW a \in Appliers, UndoStart(a)
      PROVE  StandInv'
  <2>1. /\ undoing = None /\ a \in saved \ undone /\ undoing' = a
        /\ UndoAfter => pc[a] = "done"
        /\ UNCHANGED <<pc, at, read, entries, saved, undone>>
    BY <1>9 DEF UndoStart
  <2>2. ASSUME NEW b \in Appliers
        PROVE  Stand(b)'
    <3>1. Steps(b)' = Steps(b)
      BY <2>1 DEF Steps
    <3> QED
      BY <2>1, <3>1 DEF StandInv, Stand, Covered
  <2> QED
    BY <2>1, <2>2 DEF StandInv
<1>10. CASE UndoEntry
  <2>1. Rests /\ UNCHANGED <<undoing, undone>>
    BY <1>10, UndoEntryFacts
  <2> QED
    BY <2>1, StandKept DEF StandInv, Rests
<1>11. CASE UndoEnds
  <2>1. /\ undoing # None /\ undoing' = None /\ (undone' = undone \cup {undoing} \/ undone' = undone)
        /\ UNCHANGED <<pc, at, read, entries, saved>>
    BY <1>11 DEF UndoEnds
  <2>2. ASSUME NEW b \in Appliers
        PROVE  Stand(b)'
    <3>1. b # None
      BY FixAssumption
    <3> QED
      BY <2>1, <3>1, StandKept DEF StandInv
  <2> QED
    BY <2>1, <2>2 DEF StandInv
<1>12. CASE Edit
  <2>1. UNCHANGED <<pc, at, read, entries, saved, undoing, undone>>
    BY <1>12 DEF Edit, undoVars
  <2> QED
    BY <2>1, StandKept DEF StandInv
<1>13. CASE UNCHANGED fixVars
  <2>1. UNCHANGED <<pc, at, read, entries, saved, undoing, undone>>
    BY <1>13 DEF fixVars
  <2> QED
    BY <2>1, StandKept DEF StandInv
<1> QED
  BY <1>1, <1>2, <1>3, <1>4, <1>5, <1>6, <1>7, <1>8, <1>9, <1>10, <1>11, <1>12, <1>13
     DEF FixNext

---------------------------------------------------------------------------
(* Between the comparison and the write, whoever changes the target marks  *)
(* the apply.                                                              *)

LEMMA CheckedKept ==
  ASSUME NEW b, Checked(b), pc'[b] = pc[b], at'[b] = at[b], read'[b] = read[b],
         entries'[b] = entries[b],
         pc[b] = "write" => \/ raced'[b]
                            \/ disk'[Target(b)] = disk[Target(b)] /\ raced'[b] = raced[b]
                            \/ disk'[Target(b)] = disk[Target(b)] /\ ~raced[b]
  PROVE  Checked(b)'
<1>1. Target(b)' = Target(b)
  BY DEF Target, Steps
<1>2. EntryOf(b, Target(b))' = EntryOf(b, Target(b))
  BY <1>1 DEF EntryOf
<1> QED
  BY <1>1, <1>2 DEF Checked

LEMMA CheckedOther ==
  ASSUME TypeOK, NEW b \in Appliers, Checked(b), pc'[b] = pc[b], at'[b] = at[b],
         read'[b] = read[b], entries'[b] = entries[b],
         NEW t, NEW x, t \in Targets => x \in Held, Changes(t, x)
  PROVE  Checked(b)'
<1>1. /\ \A u : u # t => disk'[u] = disk[u]
      /\ raced[b] \/ (pc[b] = "write" /\ Target(b) = t) => raced'[b]
  BY ChangesType
<1>2. CASE pc[b] = "write" /\ Target(b) = t
  BY <1>1, <1>2 DEF Checked
<1>3. CASE ~(pc[b] = "write" /\ Target(b) = t)
  <2>1. pc[b] = "write" => disk'[Target(b)] = disk[Target(b)]
    BY <1>1, <1>3
  <2> QED
    BY <1>1, <2>1, CheckedKept
<1> QED
  BY <1>2, <1>3

LEMMA CheckedStep == TypeOK /\ CheckedInv /\ [FixNext]_fixVars => CheckedInv'
<1> SUFFICES ASSUME TypeOK, CheckedInv, [FixNext]_fixVars
             PROVE  CheckedInv'
  OBVIOUS
<1>1. ASSUME NEW a \in Appliers, Moves(a), Others(a), UNCHANGED <<disk, raced>>, pc'[a] # "write"
      PROVE  CheckedInv'
  BY <1>1, CheckedKept DEF CheckedInv, Others, Checked
<1>2. ASSUME NEW a \in Appliers, ReadTarget(a)
      PROVE  CheckedInv'
  <2>1. Moves(a) /\ Others(a) /\ UNCHANGED <<disk, raced>> /\ pc'[a] # "write"
    BY <1>2, ReadFacts
  <2> QED
    BY <1>1, <2>1
<1>3. ASSUME NEW a \in Appliers, Quiet(a), UNCHANGED saved, pc'[a] # "write"
      PROVE  CheckedInv'
  BY <1>1, <1>3, StepFrame DEF Quiet
<1>4. ASSUME NEW a \in Appliers, Preview(a) \/ Fails(a)
      PROVE  CheckedInv'
  BY <1>3, <1>4, PreviewFacts, FailsFacts
<1>5. ASSUME NEW a \in Appliers, NEW e, Enters(a, e)
      PROVE  CheckedInv'
  <2>1. pc'[a] # "write" /\ Moves(a) /\ Others(a) /\ UNCHANGED <<disk, raced>>
    BY <1>5, NextEntryFacts, EntersFrame DEF Enters
  <2> QED
    BY <1>1, <2>1
<1>6. ASSUME NEW a \in Appliers, BackupStat(a) \/ BackupHash(a) \/ BackupCopy(a)
      PROVE  CheckedInv'
  BY <1>3, <1>5, <1>6, LookFacts, CopyFacts
<1>7. ASSUME NEW a \in Appliers, SaveAudit(a)
      PROVE  CheckedInv'
  <2>1. /\ Moves(a) /\ UNCHANGED <<disk, read, entries, raced>> /\ pc'[a] # "write"
        /\ saved' = saved \cup {a}
    BY <1>7, AuditFacts DEF Quiet
  <2>2. Others(a)
    BY <2>1, MovesType DEF Others
  <2> QED
    BY <1>1, <2>1, <2>2
<1>8. ASSUME NEW a \in Appliers, Assert(a)
      PROVE  CheckedInv'
  <2>1. /\ Moves(a) /\ UNCHANGED <<disk, read, entries, saved>>
        /\ \A b \in Appliers \ {a} : raced'[b] = raced[b]
        /\ \/ pc'[a] = "done"
           \/ /\ pc'[a] = "write" /\ at'[a] = at[a]
              /\ Unchanged(EntryOf(a, Target(a)), disk[Target(a)])
    BY <1>8, AssertFacts
  <2>2. Others(a)
    BY <2>1, StepFrame
  <2>3. Checked(a)'
    <3>1. CASE pc'[a] = "done"
      BY <3>1 DEF Checked
    <3>2. CASE /\ pc'[a] = "write" /\ at'[a] = at[a]
               /\ Unchanged(EntryOf(a, Target(a)), disk[Target(a)])
      <4>1. Target(a)' = Target(a)
        BY <2>1, <3>2 DEF Target, Steps
      <4>2. EntryOf(a, Target(a))' = EntryOf(a, Target(a))
        BY <2>1, <4>1 DEF EntryOf
      <4> QED
        BY <2>1, <3>2, <4>1, <4>2 DEF Checked
    <3> QED
      BY <2>1, <3>1, <3>2
  <2>4. \A b \in Appliers \ {a} : Checked(b)'
    BY <2>1, <2>2, CheckedKept DEF CheckedInv, Others
  <2> QED
    BY <2>3, <2>4 DEF CheckedInv
<1>9. ASSUME NEW a \in Appliers, Write(a)
      PROVE  CheckedInv'
  <2>1. /\ Moves(a) /\ UNCHANGED <<read, entries, saved>> /\ pc'[a] # "write"
        /\ Changes(Target(a), WithFix(read[a][Target(a)]))
    BY <1>9, WriteFacts
  <2>2. Target(a) \in Targets => WithFix(read[a][Target(a)]) \in Held
    BY WithFixType DEF TypeOK
  <2>3. \A b \in Appliers \ {a} : Checked(b)'
    BY <2>1, <2>2, StepFrame, CheckedOther DEF CheckedInv, Others
  <2>4. Checked(a)'
    BY <2>1 DEF Checked
  <2> QED
    BY <2>3, <2>4 DEF CheckedInv
<1>10. ASSUME NEW a \in Appliers, UndoStart(a)
       PROVE  CheckedInv'
  BY <1>10, CheckedKept DEF UndoStart, CheckedInv
<1>11. ASSUME NEW t, NEW x, t \in Targets => x \in Held, Changes(t, x),
              UNCHANGED <<pc, at, read, entries>>
       PROVE  CheckedInv'
  BY <1>11, CheckedOther DEF CheckedInv
<1>12. ASSUME UNCHANGED <<disk, raced, pc, at, read, entries>>
       PROVE  CheckedInv'
  BY <1>12, CheckedKept DEF CheckedInv
<1>13. CASE UndoEntry
  <2> DEFINE e == entries[undoing][undoAt]
             x == IF e.existed THEN e.copy ELSE None
  <2>1. /\ UNCHANGED <<pc, at, read, entries>>
        /\ \/ UNCHANGED <<disk, raced>>
           \/ Changes(e.target, x) /\ (e.target \in Targets => x \in Held)
    BY <1>13, UndoEntryFacts, Zenon DEF Rests
  <2> HIDE DEF x
  <2> QED
    BY <1>11, <1>12, <2>1
<1>14. CASE UndoEnds \/ UNCHANGED fixVars
  BY <1>12, <1>14 DEF UndoEnds, fixVars
<1>15. CASE Edit
  <2>1. PICK t \in Targets, x \in [base: Bases \ {Empty}, fixed: {FALSE}] \cup {None} :
          Changes(t, x)
    BY <1>15 DEF Edit
  <2>2. x \in Held
    BY DEF Held, Text
  <2>3. UNCHANGED <<pc, at, read, entries>>
    BY <1>15 DEF Edit
  <2> QED
    BY <1>11, <2>1, <2>2, <2>3
<1> QED
  BY <1>2, <1>4, <1>6, <1>7, <1>8, <1>9, <1>10, <1>13, <1>14, <1>15 DEF FixNext

---------------------------------------------------------------------------
(* While no editor is at work, every text that is read, backed up or       *)
(* written is the user's, with or without the fix, if Safe Fix can read    *)
(* the files at all.                                                       *)

Small == \A t \in Targets : Readable(InitialDisk[t]) = InitialDisk[t]

LEMMA AllowedFacts ==
  ASSUME Small, NEW t \in Targets, NEW x \in Allowed(t)
  PROVE  /\ Readable(x) = x
         /\ WithFix(x) \in Allowed(t)
         /\ x = None => InitialDisk[t] = None
<1> DEFINE first == InitialDisk[t]
<1>1. first \in Held
  BY FixAssumption DEF Held
<1>2. Empty \notin Huge /\ Readable(first) = first
  BY FixAssumption DEF Small
<1>3. first # None => first.base \notin Huge
  BY <1>2 DEF Readable, Exists
<1>4. /\ WithFix(first) \in Text /\ WithFix(first) # None
      /\ WithFix(first).base = (IF first = None THEN Empty ELSE first.base)
  <2>1. WithFix(first).base = (IF first = None THEN Empty ELSE first.base)
    BY DEF WithFix, Exists
  <2> QED
    BY <1>1, <2>1, WithFixType
<1>5. Readable(WithFix(first)) = WithFix(first)
  BY <1>2, <1>3, <1>4 DEF Readable
<1>6. WithFix(WithFix(first)) = WithFix(first)
  BY <1>4 DEF WithFix, Exists
<1> QED
  BY <1>2, <1>4, <1>5, <1>6 DEF Allowed

LEMMA OnlyKept ==
  ASSUME NEW b, Only(b), read'[b] = read[b], entries'[b] = entries[b],
         \/ pc'[b] = pc[b] /\ at'[b] = at[b]
         \/ pc'[b] = "done"
         \/ pc'[b] # "read" /\ pc[b] \notin {"read", "done"}
  PROVE  Only(b)'
BY DEF Only, Allowed

LEMMA OnlyMoved ==
  ASSUME OnlyInv, NEW a \in Appliers, Others(a), edits' = edits, UNCHANGED disk,
         edits = 0 => Only(a)'
  PROVE  OnlyInv'
<1>1. \A b \in Appliers \ {a} : Only(b) => Only(b)'
  BY OnlyKept DEF Others
<1> QED
  BY <1>1 DEF OnlyInv, Allowed

LEMMA OnlyEnters ==
  ASSUME Small, TypeOK, OnlyInv, NEW a \in Appliers, pc[a] \in {"stat", "hash", "copy"}, NEW e,
         Enters(a, e), e.target = Target(a),
         Target(a) \in Targets =>
           IF e.existed THEN e.copy = disk[Target(a)] ELSE disk[Target(a)] = None
  PROVE  OnlyInv'
<1>1. /\ pc'[a] \in {"stat", "audit"} /\ UNCHANGED <<disk, read>> /\ edits' = edits
      /\ Len(entries[a]) \in Nat /\ DOMAIN entries[a] = 1..Len(entries[a])
      /\ DOMAIN entries'[a] = 1..(Len(entries[a]) + 1)
      /\ entries'[a][Len(entries[a]) + 1] = e
      /\ \A i \in 1..Len(entries[a]) : entries'[a][i] = entries[a][i]
  BY NextEntryFacts, MovesType, EntriesTyped DEF Enters
<1>2. ASSUME edits = 0
      PROVE  Only(a)'
  <2>1. Only(a) /\ \A t \in Targets : disk[t] \in Allowed(t)
    BY <1>2 DEF OnlyInv
  <2>2. Target(a) \in Targets =>
          IF e.existed THEN e.copy \in Allowed(Target(a)) ELSE InitialDisk[Target(a)] = None
    BY <2>1, AllowedFacts
  <2>3. ASSUME NEW i \in DOMAIN entries'[a], entries'[a][i].target \in Targets
        PROVE  IF entries'[a][i].existed
               THEN entries'[a][i].copy \in Allowed(entries'[a][i].target)
               ELSE InitialDisk[entries'[a][i].target] = None
    <3>1. CASE i = Len(entries[a]) + 1
      BY <1>1, <2>2, <2>3, <3>1
    <3>2. CASE i # Len(entries[a]) + 1
      <4>1. i \in DOMAIN entries[a] /\ entries'[a][i] = entries[a][i]
        BY <1>1, <3>2
      <4> QED
        BY <2>1, <2>3, <4>1 DEF Only
    <3> QED
      BY <3>1, <3>2
  <2> QED
    BY <1>1, <2>1, <2>3 DEF Only, Allowed
<1> QED
  BY <1>1, <1>2, EntersFrame, OnlyMoved

\* A target gets a text that is allowed; no apply moves but a, to a place it may be at.
LEMMA OnlyChanges ==
  ASSUME TypeOK, OnlyInv, NEW t, NEW x, t \in Targets => x \in Held, Changes(t, x),
         edits' = edits, UNCHANGED <<read, entries>>,
         edits = 0 /\ t \in Targets => x \in Allowed(t),
         \A b \in Appliers : \/ pc'[b] = pc[b] /\ at'[b] = at[b]
                             \/ pc'[b] = "done"
                             \/ pc'[b] # "read" /\ pc[b] \notin {"read", "done"}
  PROVE  OnlyInv'
<1>1. \A u \in Targets : disk'[u] = IF u = t THEN x ELSE disk[u]
  BY ChangesType
<1>2. \A b \in Appliers : Only(b) => Only(b)'
  BY OnlyKept
<1> QED
  BY <1>1, <1>2 DEF OnlyInv, Allowed

LEMMA OnlyStep == Small /\ TypeOK /\ OnlyInv /\ [FixNext]_fixVars => OnlyInv'
<1> SUFFICES ASSUME Small, TypeOK, OnlyInv, [FixNext]_fixVars
             PROVE  OnlyInv'
  OBVIOUS
<1>1. ASSUME NEW a \in Appliers, ReadTarget(a)
      PROVE  OnlyInv'
  <2>1. /\ pc[a] = "read" /\ at[a] \in DOMAIN Order /\ Order[at[a]] \in Targets
        /\ Moves(a) /\ Others(a) /\ UNCHANGED <<disk, entries>>
        /\ \A t \in Targets :
             read'[a][t] = IF t = Order[at[a]] THEN Readable(disk[t]) ELSE read[a][t]
        /\ \/ pc'[a] = "read" /\ at'[a] = at[a] + 1 /\ at'[a] \in DOMAIN Order
           \/ pc'[a] = "preview" /\ at[a] = Len(Order)
    BY <1>1, ReadFacts
  <2>2. edits' = edits
    BY <2>1, MovesType
  <2>3. ASSUME edits = 0
        PROVE  Only(a)'
    <3>1. Only(a) /\ \A t \in Targets : disk[t] \in Allowed(t)
      BY <2>3 DEF OnlyInv
    <3>2. \A i \in DOMAIN Order : i <= at[a] => read'[a][Order[i]] \in Allowed(Order[i])
      <4> SUFFICES ASSUME NEW i \in DOMAIN Order, i <= at[a]
                   PROVE  read'[a][Order[i]] \in Allowed(Order[i])
        OBVIOUS
      <4>1. Order[i] \in Targets
        BY OrderFacts
      <4>2. CASE Order[i] = Order[at[a]]
        BY <2>1, <3>1, <4>1, <4>2, AllowedFacts
      <4>3. CASE Order[i] # Order[at[a]]
        <5>1. i < at[a]
          BY <2>1, <4>3, OrderFacts
        <5> QED
          BY <2>1, <3>1, <4>1, <4>3, <5>1 DEF Only
      <4> QED
        BY <4>2, <4>3
    <3>3. CASE pc'[a] = "read" /\ at'[a] = at[a] + 1
      <4>1. \A i \in DOMAIN Order : i < at'[a] => i <= at[a]
        BY <2>1, <3>3, OrderFacts
      <4> QED
        BY <2>1, <3>1, <3>2, <3>3, <4>1 DEF Only, Allowed
    <3>4. CASE pc'[a] = "preview" /\ at[a] = Len(Order)
      <4>1. \A t \in Targets : read'[a][t] \in Allowed(t)
        BY <3>2, <3>4, OrderFacts
      <4> QED
        BY <2>1, <3>1, <3>4, <4>1 DEF Only, Allowed
    <3> QED
      BY <2>1, <3>3, <3>4
  <2> QED
    BY <2>1, <2>2, <2>3, OnlyMoved
<1>2. ASSUME NEW a \in Appliers, Quiet(a), Others(a),
             pc'[a] = "done" \/ (pc'[a] # "read" /\ pc[a] \notin {"read", "done"})
      PROVE  OnlyInv'
  <2>1. UNCHANGED <<disk, read, entries>> /\ edits' = edits
    BY <1>2, MovesType DEF Quiet
  <2>2. Only(a) => Only(a)'
    BY <1>2, <2>1, OnlyKept
  <2> QED
    BY <1>2, <2>1, <2>2, OnlyMoved DEF OnlyInv
<1>3. ASSUME NEW a \in Appliers, Preview(a) \/ Fails(a)
      PROVE  OnlyInv'
  <2>1. /\ Quiet(a) /\ UNCHANGED saved
        /\ pc'[a] = "done" \/ (pc'[a] # "read" /\ pc[a] \notin {"read", "done"})
    BY <1>3, PreviewFacts, FailsFacts
  <2> QED
    BY <1>2, <2>1, StepFrame DEF Quiet
<1>4. ASSUME NEW a \in Appliers, BackupStat(a) \/ BackupHash(a)
      PROVE  OnlyInv'
  <2>1. pc[a] \in {"stat", "hash"}
    BY <1>4, LookFacts
  <2>2. CASE Quiet(a) /\ UNCHANGED saved /\ pc'[a] # "read"
    BY <1>2, <2>1, <2>2, StepFrame DEF Quiet
  <2>3. CASE ~Exists(disk[Target(a)]) /\ Enters(a, Entry(Target(a), FALSE, None, None))
    <3> DEFINE e == Entry(Target(a), FALSE, None, None)
    <3>1. e.target = Target(a) /\ e.existed = FALSE /\ disk[Target(a)] = None
      BY <2>3 DEF Entry, Exists
    <3>2. Enters(a, e)
      BY <2>3
    <3> HIDE DEF e
    <3> QED
      BY <2>1, <3>1, <3>2, OnlyEnters
  <2> QED
    BY <1>4, <2>2, <2>3, LookFacts
<1>5. ASSUME NEW a \in Appliers, BackupCopy(a)
      PROVE  OnlyInv'
  <2> DEFINE e == Entry(Target(a), Exists(disk[Target(a)]), hashed[a], disk[Target(a)])
  <2>1. pc[a] = "copy" /\ Enters(a, e)
    BY <1>5, CopyFacts
  <2>2. e.target = Target(a) /\ e.copy = disk[Target(a)] /\ (e.existed <=> disk[Target(a)] # None)
    BY DEF Entry, Exists
  <2> HIDE DEF e
  <2> QED
    BY <2>1, <2>2, OnlyEnters
<1>6. ASSUME NEW a \in Appliers, SaveAudit(a)
      PROVE  OnlyInv'
  <2>1. /\ pc[a] = "audit" /\ Quiet(a) /\ saved' = saved \cup {a} /\ pc'[a] # "read"
    BY <1>6, AuditFacts
  <2>2. Others(a)
    BY <2>1, MovesType DEF Others, Quiet
  <2> QED
    BY <1>2, <2>1, <2>2
<1>7. ASSUME NEW a \in Appliers, Assert(a)
      PROVE  OnlyInv'
  <2>1. /\ pc[a] = "assert" /\ Moves(a) /\ UNCHANGED <<disk, read, hashed, entries, saved>>
        /\ pc'[a] # "read"
    BY <1>7, AssertFacts
  <2>2. Others(a) /\ edits' = edits
    BY <2>1, StepFrame, MovesType
  <2>3. Only(a) => Only(a)'
    BY <2>1, OnlyKept
  <2> QED
    BY <2>1, <2>2, <2>3, OnlyMoved DEF OnlyInv
<1>8. ASSUME NEW a \in Appliers, Write(a)
      PROVE  OnlyInv'
  <2>1. /\ pc[a] = "write" /\ Moves(a) /\ UNCHANGED <<read, entries, saved>> /\ pc'[a] # "read"
        /\ Changes(Target(a), WithFix(read[a][Target(a)]))
    BY <1>8, WriteFacts
  <2>2. Target(a) \in Targets => WithFix(read[a][Target(a)]) \in Held
    BY WithFixType DEF TypeOK
  <2>3. edits' = edits /\ \A b \in Appliers \ {a} : pc'[b] = pc[b] /\ at'[b] = at[b]
    BY <2>1, MovesType
  <2>4. edits = 0 /\ Target(a) \in Targets =>
          WithFix(read[a][Target(a)]) \in Allowed(Target(a))
    BY <2>1, AllowedFacts DEF OnlyInv, Only
  <2> QED
    BY <2>1, <2>2, <2>3, <2>4, OnlyChanges
<1>9. ASSUME UNCHANGED <<disk, pc, at, read, entries, edits>>
      PROVE  OnlyInv'
  BY <1>9, OnlyKept DEF OnlyInv, Allowed
<1>10. ASSUME NEW a \in Appliers, UndoStart(a)
       PROVE  OnlyInv'
  BY <1>9, <1>10 DEF UndoStart
<1>11. CASE UndoEntry
  <2> DEFINE e == entries[undoing][undoAt]
             x == IF e.existed THEN e.copy ELSE None
  <2>1. /\ UNCHANGED <<pc, at, read, entries, edits>> /\ undoing \in Appliers
        /\ undoAt \in DOMAIN entries[undoing]
        /\ \/ UNCHANGED <<disk, raced>>
           \/ Changes(e.target, x) /\ (e.target \in Targets => x \in Held)
    BY <1>11, UndoEntryFacts, Zenon DEF Rests
  <2>2. ASSUME edits = 0, e.target \in Targets
        PROVE  x \in Allowed(e.target)
    <3>1. IF e.existed THEN e.copy \in Allowed(e.target) ELSE InitialDisk[e.target] = None
      BY <2>1, <2>2 DEF OnlyInv, Only
    <3> QED
      BY <3>1 DEF Allowed
  <2> HIDE DEF x, e
  <2> QED
    BY <1>9, <2>1, <2>2, OnlyChanges
<1>12. CASE UndoEnds \/ UNCHANGED fixVars
  BY <1>9, <1>12 DEF UndoEnds, fixVars
<1>13. CASE Edit
  BY <1>13 DEF Edit, TypeOK, OnlyInv
<1> QED
  BY <1>1, <1>3, <1>4, <1>5, <1>6, <1>7, <1>8, <1>10, <1>11, <1>12, <1>13 DEF FixNext

---------------------------------------------------------------------------
(* An apply that worked alone: its backup has what undo needs.             *)

LEMMA AloneBack ==
  ASSUME TypeOK, NEW a \in Appliers, Moves(a), Others(a),
         pc'[a] = "read" => at'[a] = at[a] + 1,
         NEW u \in Appliers, Alone(u)'
  PROVE  u = a /\ Alone(u)
<1>1. edits = 0
  BY MovesType DEF Alone
<1>2. ~NotBegun(a)'
  <2>1. at[a] \in Nat \ {0}
    BY DEF TypeOK
  <2> QED
    BY <2>1 DEF NotBegun
<1>3. \A b \in Appliers \ {a} : NotBegun(b)' => NotBegun(b)
  BY DEF Others, NotBegun
<1> QED
  BY <1>1, <1>2, <1>3 DEF Alone

LEMMA AloneRests ==
  ASSUME Rests, edits' = edits, NEW u, Alone(u)'
  PROVE  Alone(u)
BY DEF Rests, Alone, NotBegun

\* What is written is not a link, unless the file was one.
LEMMA FixedIsNoLink ==
  ASSUME TypeOK, NEW t \in Targets, ~IsLink(InitialDisk[t])
  PROVE  ~IsLink(WithFix(InitialDisk[t])) /\ ~IsLink(WithFix(None))
<1>1. Empty \notin Links
  BY FixAssumption
<1>2. /\ WithFix(None).base = Empty
      /\ WithFix(InitialDisk[t]).base \in {Empty, InitialDisk[t].base}
      /\ InitialDisk[t] = None => WithFix(InitialDisk[t]).base = Empty
  BY DEF WithFix, Exists
<1> QED
  BY <1>1, <1>2 DEF IsLink, Exists

LEMMA KeptQuiet ==
  ASSUME NEW u, Kept(u),
         UNCHANGED <<disk, read, entries, saved, undone, undoing, undoAt>>
  PROVE  Kept(u)'
BY DEF Kept

LEMMA AloneQuiet ==
  ASSUME TypeOK, AloneInv, NEW a \in Appliers, Quiet(a), UNCHANGED saved, pc'[a] # "read"
  PROVE  AloneInv'
<1>1. Moves(a) /\ Others(a) /\ UNCHANGED <<disk, read, entries, undone, undoing, undoAt>>
  BY StepFrame, MovesType DEF Quiet
<1> QED
  BY <1>1, AloneBack, KeptQuiet DEF AloneInv

LEMMA AloneEnters ==
  ASSUME TypeOK, StandInv, AloneInv, NEW a \in Appliers, pc[a] \in {"stat", "hash", "copy"}, NEW e,
         Enters(a, e), e.target = Target(a),
         Target(a) \in Targets =>
           IF e.existed THEN e.copy = disk[Target(a)] ELSE disk[Target(a)] = None
  PROVE  AloneInv'
<1>1. /\ pc'[a] # "read" /\ Moves(a) /\ Others(a)
      /\ UNCHANGED <<disk, read, saved, undone, undoing, undoAt>>
      /\ Len(entries[a]) \in Nat /\ DOMAIN entries[a] = 1..Len(entries[a])
      /\ DOMAIN entries'[a] = 1..(Len(entries[a]) + 1)
      /\ entries'[a][Len(entries[a]) + 1] = e
      /\ \A i \in 1..Len(entries[a]) : entries'[a][i] = entries[a][i]
  BY NextEntryFacts, MovesType, EntriesTyped, EntersFrame DEF Enters
<1>2. a \notin saved
  BY DEF StandInv, Stand
<1>3. ASSUME UndoAfter, Alone(a)
      PROVE  Kept(a)'
  <2>1. Kept(a)
    BY <1>3 DEF AloneInv
  <2>2. \A t \in Targets : disk[t] = InitialDisk[t]
    BY <1>2, <2>1 DEF Kept
  <2>3. ASSUME NEW i \in DOMAIN entries'[a], entries'[a][i].target \in Targets
        PROVE  IF entries'[a][i].existed
               THEN entries'[a][i].copy = InitialDisk[entries'[a][i].target]
               ELSE InitialDisk[entries'[a][i].target] = None
    <3>1. CASE i = Len(entries[a]) + 1
      BY <1>1, <2>2, <2>3, <3>1
    <3>2. CASE i # Len(entries[a]) + 1
      <4>1. i \in DOMAIN entries[a] /\ entries'[a][i] = entries[a][i]
        BY <1>1, <3>2
      <4> QED
        BY <2>1, <2>3, <4>1 DEF Kept
    <3> QED
      BY <3>1, <3>2
  <2> QED
    BY <1>1, <1>2, <2>1, <2>3 DEF Kept
<1> QED
  BY <1>1, <1>3, AloneBack DEF AloneInv

LEMMA AloneWrite ==
  ASSUME TypeOK, StandInv, AloneInv, NEW a \in Appliers, Write(a)
  PROVE  AloneInv'
<1>1. /\ pc[a] = "write" /\ Moves(a) /\ UNCHANGED <<read, entries, saved>> /\ pc'[a] # "read"
      /\ ~IsLink(disk[Target(a)]) /\ Changes(Target(a), WithFix(read[a][Target(a)]))
  BY WriteFacts
<1>2. Others(a) /\ UNCHANGED <<undone, undoing, undoAt>>
  BY <1>1, StepFrame, MovesType
<1>3. Target(a) \in Targets => WithFix(read[a][Target(a)]) \in Held
  BY WithFixType DEF TypeOK
<1>4. \A t \in Targets :
        disk'[t] = IF t = Target(a) THEN WithFix(read[a][Target(a)]) ELSE disk[t]
  BY <1>1, <1>3, ChangesType
<1>5. ASSUME UndoAfter, Alone(a)
      PROVE  Kept(a)'
  <2>1. Kept(a)
    BY <1>5 DEF AloneInv
  <2>2. /\ a \in saved /\ a \notin undone /\ undoing # a
        /\ at[a] <= Len(entries[a]) /\ Covered(a)
    BY <1>1, <1>5 DEF StandInv, Stand
  <2>3. at[a] \in DOMAIN entries[a] /\ entries[a][at[a]].target = Target(a)
    <3>1. at[a] \in Nat \ {0} /\ DOMAIN entries[a] = 1..Len(entries[a])
      BY EntriesTyped DEF TypeOK
    <3>2. at[a] \in DOMAIN entries[a]
      BY <2>2, <3>1, EntriesTyped
    <3> QED
      BY <2>2, <3>2 DEF Covered, Target
  <2>4. ASSUME NEW t \in Targets, IsLink(InitialDisk[t]) \/ IsLink(disk'[t])
        PROVE  disk'[t] = InitialDisk[t]
    <3>1. CASE t # Target(a)
      BY <1>4, <2>1, <2>4, <3>1 DEF Kept
    <3>2. CASE t = Target(a)
      <4>1. ~IsLink(InitialDisk[t])
        BY <1>1, <2>1, <3>2 DEF Kept
      <4>2. read[a][t] \in {InitialDisk[t], None}
        BY <2>1 DEF Kept
      <4>3. ~IsLink(disk'[t])
        BY <1>4, <3>2, <4>1, <4>2, FixedIsNoLink
      <4> QED
        BY <2>4, <4>1, <4>3
    <3> QED
      BY <3>1, <3>2
  <2>5. ASSUME NEW t \in Targets, disk'[t] # InitialDisk[t]
        PROVE  \E i \in DOMAIN entries[a] : entries[a][i].target = t
    BY <1>4, <2>1, <2>2, <2>3, <2>5 DEF Kept
  <2> QED
    BY <1>1, <1>2, <2>1, <2>2, <2>4, <2>5 DEF Kept
<1> QED
  BY <1>1, <1>2, <1>5, AloneBack DEF AloneInv

LEMMA AloneUndo ==
  ASSUME TypeOK, StandInv, AloneInv, UndoEntry
  PROVE  AloneInv'
<1> DEFINE e == entries[undoing][undoAt]
           x == IF e.existed THEN e.copy ELSE None
<1>1. /\ Rests /\ undoing \in Appliers /\ undoing # None
      /\ undoAt' = undoAt + 1 /\ UNCHANGED <<undoing, undone, edits>>
      /\ undoAt \in DOMAIN entries[undoing]
      /\ \/ IsLink(disk[e.target]) /\ UNCHANGED <<disk, raced>>
         \/ Changes(e.target, x) /\ (e.target \in Targets => x \in Held)
  BY UndoEntryFacts, Zenon
<1>2. undoing \in saved \ undone
  BY <1>1 DEF StandInv
<1>3. ASSUME UndoAfter, NEW u \in Appliers, Alone(u)'
      PROVE  Kept(u)'
  <2>1. Alone(u) /\ Kept(u)
    BY <1>1, <1>3, AloneRests DEF AloneInv
  <2>2. undoing = u
    BY <1>1, <1>2, <2>1 DEF Alone, NotBegun, StandInv, Stand
  <2>3. e.target \in Targets => x = InitialDisk[e.target]
    BY <1>1, <2>1, <2>2 DEF Kept
  <2> HIDE DEF x
  <2>4. \A t \in Targets : \/ disk'[t] = disk[t] /\ (t = e.target => disk[t] = InitialDisk[t])
                           \/ t = e.target /\ disk'[t] = InitialDisk[t]
    <3>1. CASE IsLink(disk[e.target]) /\ UNCHANGED <<disk, raced>>
      BY <2>1, <3>1 DEF Kept
    <3>2. CASE Changes(e.target, x) /\ (e.target \in Targets => x \in Held)
      <4>1. \A t \in Targets : disk'[t] = IF t = e.target THEN x ELSE disk[t]
        BY <3>2, ChangesType
      <4> QED
        BY <2>3, <4>1
    <3> QED
      BY <1>1, <3>1, <3>2
  <2>5. ASSUME NEW t \in Targets, disk'[t] # InitialDisk[t]
        PROVE  \E i \in DOMAIN entries[u] : entries[u][i].target = t /\ undoAt + 1 <= i
    <3>1. disk[t] # InitialDisk[t] /\ t # e.target
      BY <2>4, <2>5
    <3>2. PICK i \in DOMAIN entries[u] : entries[u][i].target = t /\ undoAt <= i
      BY <1>2, <2>1, <2>2, <3>1 DEF Kept
    <3>3. i # undoAt
      BY <2>2, <3>1, <3>2
    <3>4. i \in Nat /\ undoAt \in Nat
      BY EntriesTyped DEF TypeOK
    <3> QED
      BY <3>2, <3>3, <3>4
  <2>6. \A t \in Targets : IsLink(InitialDisk[t]) \/ IsLink(disk'[t]) => disk'[t] = InitialDisk[t]
    BY <2>1, <2>4 DEF Kept
  <2>7. u \notin undone /\ u \in saved
    BY <1>2, <2>2
  <2> QED
    BY <1>1, <2>1, <2>2, <2>5, <2>6, <2>7 DEF Kept, Rests
<1> QED
  BY <1>3 DEF AloneInv

LEMMA AloneStep == TypeOK /\ StandInv /\ AloneInv /\ [FixNext]_fixVars => AloneInv'
<1> SUFFICES ASSUME TypeOK, StandInv, AloneInv, [FixNext]_fixVars
             PROVE  AloneInv'
  OBVIOUS
<1>1. ASSUME NEW a \in Appliers, ReadTarget(a)
      PROVE  AloneInv'
  <2>1. /\ pc[a] = "read" /\ Moves(a) /\ Others(a)
        /\ UNCHANGED <<disk, entries, saved>>
        /\ \A t \in Targets :
             read'[a][t] = IF t = Order[at[a]] THEN Readable(disk[t]) ELSE read[a][t]
        /\ pc'[a] = "read" => at'[a] = at[a] + 1
    BY <1>1, ReadFacts
  <2>2. UNCHANGED <<undone, undoing, undoAt>> /\ a \notin saved
    BY <2>1, MovesType DEF StandInv, Stand
  <2>3. ASSUME UndoAfter, Alone(a)
        PROVE  Kept(a)'
    <3>1. Kept(a)
      BY <2>3 DEF AloneInv
    <3>2. \A t \in Targets : read'[a][t] \in {InitialDisk[t], None}
      BY <2>1, <2>2, <3>1 DEF Kept, Readable
    <3> QED
      BY <2>1, <2>2, <3>1, <3>2 DEF Kept
  <2> QED
    BY <2>1, <2>3, AloneBack DEF AloneInv
<1>2. ASSUME NEW a \in Appliers, Preview(a) \/ Fails(a)
      PROVE  AloneInv'
  <2>1. Quiet(a) /\ UNCHANGED saved /\ pc'[a] # "read"
    BY <1>2, PreviewFacts, FailsFacts
  <2> QED
    BY <2>1, AloneQuiet
<1>3. ASSUME NEW a \in Appliers, BackupStat(a) \/ BackupHash(a)
      PROVE  AloneInv'
  <2>1. CASE Quiet(a) /\ UNCHANGED saved /\ pc'[a] # "read"
    BY <2>1, AloneQuiet
  <2>2. CASE ~Exists(disk[Target(a)]) /\ Enters(a, Entry(Target(a), FALSE, None, None))
    <3> DEFINE e == Entry(Target(a), FALSE, None, None)
    <3>1. e.target = Target(a) /\ e.existed = FALSE /\ disk[Target(a)] = None
      BY <2>2 DEF Entry, Exists
    <3>2. pc[a] \in {"stat", "hash"} /\ Enters(a, e)
      BY <1>3, <2>2, LookFacts
    <3> HIDE DEF e
    <3> QED
      BY <3>1, <3>2, AloneEnters
  <2> QED
    BY <1>3, <2>1, <2>2, LookFacts
<1>4. ASSUME NEW a \in Appliers, BackupCopy(a)
      PROVE  AloneInv'
  <2> DEFINE e == Entry(Target(a), Exists(disk[Target(a)]), hashed[a], disk[Target(a)])
  <2>1. pc[a] = "copy" /\ Enters(a, e)
    BY <1>4, CopyFacts
  <2>2. e.target = Target(a) /\ e.copy = disk[Target(a)] /\ (e.existed <=> disk[Target(a)] # None)
    BY DEF Entry, Exists
  <2> HIDE DEF e
  <2> QED
    BY <2>1, <2>2, AloneEnters
<1>5. ASSUME NEW a \in Appliers, SaveAudit(a)
      PROVE  AloneInv'
  <2>1. /\ pc[a] = "audit" /\ Moves(a) /\ UNCHANGED <<disk, read, entries>>
        /\ saved' = saved \cup {a} /\ pc'[a] # "read"
    BY <1>5, AuditFacts DEF Quiet
  <2>2. Others(a) /\ UNCHANGED <<undone, undoing, undoAt>> /\ a \notin saved
    BY <2>1, MovesType DEF Others, StandInv, Stand
  <2>3. ASSUME UndoAfter, Alone(a)
        PROVE  Kept(a)'
    BY <2>1, <2>2, <2>3 DEF AloneInv, Kept
  <2> QED
    BY <2>1, <2>2, <2>3, AloneBack DEF AloneInv
<1>6. ASSUME NEW a \in Appliers, Assert(a)
      PROVE  AloneInv'
  <2>1. /\ Moves(a) /\ UNCHANGED <<disk, read, entries, saved>> /\ pc'[a] # "read"
    BY <1>6, AssertFacts
  <2>2. Others(a) /\ UNCHANGED <<undone, undoing, undoAt>>
    BY <2>1, StepFrame, MovesType
  <2> QED
    BY <2>1, <2>2, AloneBack, KeptQuiet DEF AloneInv
<1>7. ASSUME NEW a \in Appliers, Write(a)
      PROVE  AloneInv'
  BY <1>7, AloneWrite
<1>8. ASSUME NEW a \in Appliers, UndoStart(a)
      PROVE  AloneInv'
  <2>1. /\ Rests /\ UNCHANGED <<disk, edits, undone>> /\ undoing' = a /\ undoAt' = 1
    BY <1>8 DEF UndoStart, Rests
  <2>2. ASSUME UndoAfter, NEW u \in Appliers, Alone(u)'
        PROVE  Kept(u)'
    <3>1. Kept(u)
      BY <2>1, <2>2, AloneRests DEF AloneInv
    <3>2. \A i \in DOMAIN entries[u] : 1 <= i
      BY EntriesTyped
    <3> QED
      BY <2>1, <3>1, <3>2 DEF Kept, Rests
  <2> QED
    BY <2>2 DEF AloneInv
<1>9. CASE UndoEntry
  BY <1>9, AloneUndo
<1>10. CASE UndoEnds
  <2>1. /\ Rests /\ UNCHANGED <<disk, edits>> /\ undoing # None /\ undoing' = None
        /\ \/ undoAt > Len(entries[undoing]) /\ undone' = undone \cup {undoing}
           \/ undone' = undone
    BY <1>10 DEF UndoEnds, Rests
  <2>2. ASSUME UndoAfter, NEW u \in Appliers, Alone(u)'
        PROVE  Kept(u)'
    <3>1. Kept(u) /\ u # None
      BY <2>1, <2>2, AloneRests, FixAssumption DEF AloneInv
    <3>2. u \in undone' => \A t \in Targets : disk[t] = InitialDisk[t]
      <4>1. CASE u \in undone
        BY <3>1, <4>1 DEF Kept
      <4>2. CASE u = undoing /\ undoAt > Len(entries[u])
        <5>1. u \in saved
          BY <2>1, <4>2 DEF StandInv
        <5>2. ~\E i \in DOMAIN entries[u] : undoAt <= i
          BY <4>2, EntriesTyped DEF TypeOK
        <5> QED
          BY <3>1, <4>2, <5>1, <5>2 DEF Kept
      <4> QED
        BY <2>1, <4>1, <4>2
    <3> QED
      BY <2>1, <3>1, <3>2 DEF Kept, Rests
  <2> QED
    BY <2>2 DEF AloneInv
<1>11. CASE Edit
  BY <1>11 DEF Edit, TypeOK, AloneInv, Alone
<1>12. CASE UNCHANGED fixVars
  <2>1. Rests /\ UNCHANGED <<disk, edits, undone, undoing, undoAt>>
    BY <1>12 DEF fixVars, Rests
  <2> QED
    BY <2>1, AloneRests, KeptQuiet DEF AloneInv, Rests
<1> QED
  BY <1>1, <1>2, <1>3, <1>4, <1>5, <1>6, <1>7, <1>8, <1>9, <1>10, <1>11, <1>12 DEF FixNext

---------------------------------------------------------------------------
LEMMA FixInvInit ==
  FixInit => TypeOK /\ StandInv /\ CheckedInv /\ OnlyInv /\ AloneInv
<1> SUFFICES ASSUME FixInit
             PROVE  TypeOK /\ StandInv /\ CheckedInv /\ OnlyInv /\ AloneInv
  OBVIOUS
<1>1. /\ InitialDisk \in [Targets -> Held] /\ disk = InitialDisk
      /\ 1 \in DOMAIN Order
  BY FixAssumption, OrderFacts DEF FixInit, Held
<1>2. IsSeq(<<>>)
  BY EmptySeq DEF IsSeq
<1>3. TypeOK
  <2>1. /\ disk \in [Targets -> Held] /\ saved \subseteq Appliers
        /\ undoing \in Appliers \cup {None} /\ undoAt \in Nat \ {0} /\ edits \in Nat
    BY <1>1 DEF FixInit
  <2>2. /\ pc \in [Appliers -> Labels] /\ at \in [Appliers -> Nat \ {0}]
        /\ raced \in [Appliers -> BOOLEAN]
    BY DEF FixInit, Labels
  <2>3. read \in [Appliers -> [Targets -> Held]]
    BY DEF FixInit, Held
  <2>4. DOMAIN hashed = Appliers /\ DOMAIN entries = Appliers
    BY DEF FixInit
  <2>5. ASSUME NEW a \in Appliers
        PROVE  Typed(a)
    <3>1. entries[a] = <<>> /\ at[a] = 1
      BY DEF FixInit
    <3>2. \A i \in DOMAIN <<>> : FALSE
      BY EmptySeq
    <3> QED
      BY <1>1, <1>2, <3>1, <3>2 DEF Typed
  <2> QED
    BY <2>1, <2>2, <2>3, <2>4, <2>5 DEF TypeOK
<1>4. StandInv
  <2>1. ASSUME NEW a \in Appliers
        PROVE  pc[a] = "read" /\ entries[a] = <<>> /\ a \notin saved /\ undoing # a /\ a \notin undone
    BY FixAssumption DEF FixInit
  <2>2. \A a \in Appliers : Stand(a)
    BY <2>1 DEF Stand
  <2>3. undone = {} /\ undoing = None
    BY DEF FixInit
  <2> QED
    BY <2>2, <2>3 DEF StandInv
<1>5. CheckedInv
  <2>1. \A a \in Appliers : pc[a] = "read"
    BY DEF FixInit
  <2> QED
    BY <2>1 DEF CheckedInv, Checked
<1>6. OnlyInv
  <2>1. \A i \in DOMAIN Order : ~(i < 1)
    BY OrderFacts
  <2> QED
    BY <1>1, <2>1 DEF FixInit, OnlyInv, Only, Allowed
<1>7. AloneInv
  BY <1>1 DEF FixInit, AloneInv, Kept
<1> QED
  BY <1>3, <1>4, <1>5, <1>6, <1>7

LEMMA StandInvariant == FixSpec => [](TypeOK /\ StandInv)
BY FixInvInit, TypeStep, StandStep, PTL DEF FixSpec

\* OverwritesAreChecked: assertTargetsUnchangedSinceBackup runs before every write, so an
\* apply overwrites what it hashed for its backup, or a file it could not hash, or was
\* overtaken since the comparison.
THEOREM OverwritesAreCheckedAlways == FixSpec => OverwritesAreChecked
<1> DEFINE Good(a) ==
      LET e == EntryOf(a, Target(a))
          x == disk[Target(a)]
      IN /\ a \in saved
         /\ raced[a] \/ (IF e.existed THEN x # None /\ e.sha \in {None, x} ELSE x = None)
<1>1. ASSUME StandInv, CheckedInv, NEW a \in Appliers, Write(a)
      PROVE  Good(a)
  <2>1. a \in saved /\ (raced[a] \/ Unchanged(EntryOf(a, Target(a)), disk[Target(a)]))
    BY <1>1 DEF Write, StandInv, Stand, CheckedInv, Checked
  <2> QED
    BY <2>1 DEF Unchanged, Exists
<1>2. StandInv /\ CheckedInv => [\A a \in Appliers : Write(a) => Good(a)]_fixVars
  BY <1>1
<1>3. FixSpec => [][\A a \in Appliers : Write(a) => Good(a)]_fixVars
  BY <1>2, FixInvInit, TypeStep, StandStep, CheckedStep, PTL DEF FixSpec
<1> QED
  BY <1>3 DEF OverwritesAreChecked

\* OnlyFixes: whatever applies and undos overlap, fail or die, a target holds the user's
\* text, with or without the fix, provided that readTextFile can read the files (a file
\* above 512 KB is overwritten as if it were missing).
THEOREM OnlyFixesAlways == Small => (FixSpec => []OnlyFixes)
<1> SUFFICES ASSUME Small
             PROVE  FixSpec => []OnlyFixes
  OBVIOUS
<1>1. OnlyInv => OnlyFixes
  BY DEF OnlyInv, OnlyFixes, Allowed
<1>2. TypeOK /\ OnlyInv /\ [FixNext]_fixVars => OnlyInv'
  BY OnlyStep
<1> QED
  BY <1>1, <1>2, FixInvInit, TypeStep, PTL DEF FixSpec

\* UndoRestores: undoFix gives back every file of an apply that nobody else touched, the
\* ones the apply created removed, also after an apply or an undo that stopped half-way,
\* as long as an apply is undone only once it has ended.
THEOREM UndoRestoresAlways == UndoAfter => (FixSpec => []UndoRestores)
<1> SUFFICES ASSUME UndoAfter
             PROVE  FixSpec => []UndoRestores
  OBVIOUS
<1>1. TypeOK /\ StandInv /\ AloneInv => UndoRestores
  <2> SUFFICES ASSUME TypeOK, StandInv, AloneInv, edits = 0,
                      \A a \in Appliers \ undone : NotBegun(a), Cardinality(undone) = 1
               PROVE  disk = InitialDisk
    BY DEF UndoRestores
  <2>1. undone \subseteq Appliers /\ IsFiniteSet(undone)
    BY FixAssumption, FS_Subset DEF TypeOK, StandInv
  <2>2. PICK u : undone = {u}
    BY <2>1, FS_Singleton
  <2>3. Kept(u)
    BY <2>1, <2>2 DEF AloneInv, Alone
  <2>4. \A t \in Targets : disk[t] = InitialDisk[t]
    BY <2>2, <2>3 DEF Kept
  <2> QED
    BY <2>4, FixAssumption DEF TypeOK
<1>2. TypeOK /\ StandInv /\ AloneInv /\ [FixNext]_fixVars => AloneInv'
  BY AloneStep
<1> QED
  BY <1>1, <1>2, FixInvInit, TypeStep, StandStep, PTL DEF FixSpec
=============================================================================
