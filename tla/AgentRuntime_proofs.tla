------------------------- MODULE AgentRuntime_proofs -------------------------
(***************************************************************************)
(* Proofs about AgentRuntime, for every set of turns, options, answers and *)
(* every limit: which tools run, after what, and how many files they       *)
(* write, however the turns that share a session overlap.                  *)
(***************************************************************************)
EXTENDS AgentRuntime, FiniteSetTheorems, WellFoundedInduction, TLAPS

Names == KnownTools \cup {"unknown"}

---------------------------------------------------------------------------
(* The calls of an answer that the turn denies.                            *)

\* There is a longest run of denied calls at the head of a queue.
LEMMA DeniedPrefixDef ==
  ASSUME NEW o, NEW q \in Seq(Names)
  PROVE  /\ DeniedPrefix(o, q) \in 0..Len(q)
         /\ \A i \in 1..DeniedPrefix(o, q) : Denied(o, q[i])
         /\ DeniedPrefix(o, q) < Len(q) => ~Denied(o, q[DeniedPrefix(o, q) + 1])
<1> DEFINE Stops == {d \in 0..Len(q) : d < Len(q) => ~Denied(o, q[d + 1])}
           Least(d) == /\ \A i \in 1..d : Denied(o, q[i])
                       /\ d < Len(q) => ~Denied(o, q[d + 1])
<1>1. Len(q) \in Nat
  OBVIOUS
<1>2. Stops \subseteq Nat /\ Stops # {}
  <2>1. Len(q) \in Stops
    BY <1>1
  <2> QED
    BY <1>1, <2>1
<1>3. PICK d \in Stops : \A k \in Stops : ~(<<k, d>> \in OpToRel(<, Nat))
  BY <1>2, NatLessThanWellFounded, WFMin, Zenon
<1>4. \A k \in Stops : ~(k < d)
  BY <1>2, <1>3 DEF OpToRel
<1>5. ASSUME NEW i \in 1..d
      PROVE  Denied(o, q[i])
  <2>0. d \in 0..Len(q)
    BY <1>3, Zenon
  <2>1. d \in Nat /\ i \in Nat /\ i >= 1 /\ i <= d /\ d <= Len(q)
    BY <1>1, <2>0
  <2>2. i - 1 \in 0..Len(q) /\ i - 1 < d
    BY <1>1, <2>1
  <2>3. i - 1 \notin Stops
    BY <1>4, <2>2
  <2>4. ~(i - 1 < Len(q) => ~Denied(o, q[i - 1 + 1]))
    BY <2>2, <2>3
  <2>5. i - 1 + 1 = i
    BY <2>1
  <2> QED
    BY <2>4, <2>5
<1>6. d \in 0..Len(q) /\ Least(d)
  BY <1>3, <1>5
<1>7. (CHOOSE c \in 0..Len(q) : Least(c)) \in 0..Len(q)
      /\ Least(CHOOSE c \in 0..Len(q) : Least(c))
  BY <1>6, Zenon
<1> QED
  BY <1>7, Zenon DEF DeniedPrefix

---------------------------------------------------------------------------
(* Type correctness, and the reason why a tool runs.                       *)

TypeInv ==
  /\ machine \in States
  /\ cancelled \in BOOLEAN /\ late \in BOOLEAN
  /\ toolCalls \in Nat /\ iterations \in Nat /\ filesModified \in Nat /\ wrote \in Nat
  /\ at \in [Turns -> {"idle", "chat", "tool", "done"}]
  /\ opts \in [Turns -> TurnOptions]
  /\ round \in [Turns -> Nat]
  /\ queue \in [Turns -> Seq(Names)]
  /\ tool \in [Turns -> Names \cup {""}]

\* The tool a turn is in passed the turn's own checks.
Passed == \A t \in Turns : at[t] = "tool" => ~Denied(opts[t], tool[t])

\* What a turn's step may do to its session: the others stay where they are, a tool
\* runs only if it passed, and starts only in a session within its limits.
TurnStep(t) ==
  /\ machine' \in States
  /\ iterations' \in Nat /\ toolCalls' \in Nat /\ round' \in [Turns -> Nat]
  /\ \E where \in {"chat", "tool", "done"}, q \in Seq(Names), name \in Names \cup {""} :
       /\ at' = [at EXCEPT ![t] = where]
       /\ queue' = [queue EXCEPT ![t] = q]
       /\ tool' = [tool EXCEPT ![t] = name]
       /\ where = "tool" => ~cancelled /\ ~Denied(opts[t], name)

LEMMA FailingType == \A m \in States : Failing(m) \in States
BY DEF Failing, States

LEMMA EndStep ==
  ASSUME TypeInv, NEW t \in Turns, NEW m \in States, End(t, m),
         iterations' \in Nat, toolCalls' \in Nat, round' \in [Turns -> Nat]
  PROVE  TurnStep(t)
<1>1. /\ at' = [at EXCEPT ![t] = "done"] /\ queue' = [queue EXCEPT ![t] = <<>>]
      /\ tool' = [tool EXCEPT ![t] = ""] /\ machine' \in States
  BY DEF End
<1>2. "done" # "tool" /\ <<>> \in Seq(Names) /\ "" \in Names \cup {""}
  OBVIOUS
<1> QED
  BY <1>1, <1>2, Zenon DEF TurnStep

LEMMA FinishStep ==
  ASSUME TypeInv, NEW t \in Turns, NEW m \in States, Finish(t, m),
         iterations' \in Nat, toolCalls' \in Nat, round' \in [Turns -> Nat]
  PROVE  TurnStep(t)
<1>1. "COMPLETED" \in States /\ Failing(m) \in States
  BY FailingType DEF States
<1> QED
  BY <1>1, EndStep DEF Finish, Throw

LEMMA NextRoundStep ==
  ASSUME TypeInv, NEW t \in Turns, NEW m \in States, NEW iters \in Nat, NEW calls, NEW files,
         NextRound(t, m, iters, calls, files), toolCalls' \in Nat
  PROVE  TurnStep(t)
<1>0. round \in [Turns -> Nat]
  BY DEF TypeInv
<1>1. round' \in [Turns -> Nat] /\ iterations' \in Nat
  <2>1. CASE round[t] < MaxIterations
    <3>1. round' = [round EXCEPT ![t] = round[t] + 1] /\ iterations' = iters + 1
      BY <2>1, Zenon DEF NextRound
    <3> QED
      BY <1>0, <3>1
  <2>2. CASE ~(round[t] < MaxIterations)
    BY <1>0, <2>2, Zenon DEF NextRound
  <2> QED
    BY <2>1, <2>2
<1>2. CASE Finish(t, m)
  BY <1>1, <1>2, FinishStep
<1>3. CASE Throw(t, m)
  BY <1>1, <1>3, FailingType, EndStep DEF Throw
<1>4. CASE /\ at' = [at EXCEPT ![t] = "chat"] /\ machine' = m
           /\ tool' = [tool EXCEPT ![t] = ""] /\ queue' = [queue EXCEPT ![t] = <<>>]
  <2>1. "chat" # "tool" /\ <<>> \in Seq(Names) /\ "" \in Names \cup {""}
    OBVIOUS
  <2> QED
    BY <1>1, <1>4, <2>1, Zenon DEF TurnStep
<1> QED
  BY <1>2, <1>3, <1>4 DEF NextRound

LEMMA RunCallsStep ==
  ASSUME TypeInv, NEW t \in Turns, NEW q \in Seq(Names), NEW files, RunCalls(t, q, files)
  PROVE  TurnStep(t)
<1> DEFINE d == DeniedPrefix(opts[t], q)
           checked == IF d = Len(q) THEN d ELSE d + 1
<1>1. /\ d \in Nat /\ d <= Len(q) /\ Len(q) \in Nat /\ checked \in Nat
      /\ d # Len(q) => /\ ~Denied(opts[t], q[d + 1]) /\ q[d + 1] \in Names
                       /\ checked = d + 1 /\ SubSeq(q, d + 2, Len(q)) \in Seq(Names)
  BY DeniedPrefixDef
<1>2. machine \in States /\ iterations \in Nat /\ toolCalls \in Nat /\ round \in [Turns -> Nat]
  BY DEF TypeInv
<1> HIDE DEF d
<1>3. CASE checked > 0 /\ OverLimit(iterations, toolCalls + checked, files)
  <2>1. toolCalls' \in Nat /\ Throw(t, machine) /\ UNCHANGED <<round, iterations>>
    BY <1>2, <1>3, RuntimeAssumption DEF RunCalls, d
  <2> QED
    BY <1>2, <2>1, FailingType, EndStep DEF Throw
<1>4. CASE /\ ~(checked > 0 /\ OverLimit(iterations, toolCalls + checked, files))
           /\ d = Len(q)
  <2>1. toolCalls' \in Nat /\ NextRound(t, machine, iterations, toolCalls + checked, files)
    BY <1>1, <1>2, <1>4 DEF RunCalls, d
  <2> QED
    BY <1>2, <2>1, NextRoundStep
<1>5. CASE /\ ~(checked > 0 /\ OverLimit(iterations, toolCalls + checked, files))
           /\ d # Len(q)
  <2>1. ~cancelled
    BY <1>1, <1>5 DEF OverLimit
  <2>2. /\ toolCalls' = toolCalls + checked
        /\ at' = [at EXCEPT ![t] = "tool"] /\ tool' = [tool EXCEPT ![t] = q[d + 1]]
        /\ queue' = [queue EXCEPT ![t] = SubSeq(q, d + 2, Len(q))]
        /\ UNCHANGED <<machine, round, iterations>>
    BY <1>5 DEF RunCalls, d
  <2>3. /\ q[d + 1] \in Names \cup {""} /\ ~Denied(opts[t], q[d + 1])
        /\ SubSeq(q, d + 2, Len(q)) \in Seq(Names)
    BY <1>1, <1>5
  <2>5. toolCalls' \in Nat
    BY <1>1, <1>2, <2>2
  <2>4. machine' \in States /\ iterations' \in Nat /\ round' \in [Turns -> Nat]
    BY <1>2, <2>2
  <2> QED
    BY <2>1, <2>2, <2>3, <2>4, <2>5, Zenon DEF TurnStep
<1> QED
  BY <1>3, <1>4, <1>5

---------------------------------------------------------------------------
(* Every step.                                                             *)

LEMMA TurnStepType ==
  ASSUME TypeInv, Passed, NEW t \in Turns, TurnStep(t),
         UNCHANGED <<cancelled, late, opts>>, filesModified' \in Nat, wrote' \in Nat
  PROVE  TypeInv' /\ Passed'
<1>1. PICK where \in {"chat", "tool", "done"}, q \in Seq(Names), name \in Names \cup {""} :
        /\ at' = [at EXCEPT ![t] = where] /\ queue' = [queue EXCEPT ![t] = q]
        /\ tool' = [tool EXCEPT ![t] = name]
        /\ where = "tool" => ~cancelled /\ ~Denied(opts[t], name)
  BY Zenon DEF TurnStep
<1>2. /\ machine' \in States /\ iterations' \in Nat /\ toolCalls' \in Nat
      /\ round' \in [Turns -> Nat]
  BY DEF TurnStep
<1>3. TypeInv'
  BY <1>1, <1>2 DEF TypeInv
<1>4. Passed'
  BY <1>1 DEF TypeInv, Passed
<1> QED
  BY <1>3, <1>4

\* No turn but this one moves, and a tool it starts is started in a running session.
LEMMA TurnStepQuiet ==
  ASSUME TypeInv, NEW t \in Turns, TurnStep(t)
  PROVE  \A s \in Turns : Starts(s) => ~cancelled
<1>1. PICK where \in {"chat", "tool", "done"}, q \in Seq(Names), name \in Names \cup {""} :
        /\ at' = [at EXCEPT ![t] = where] /\ queue' = [queue EXCEPT ![t] = q]
        /\ tool' = [tool EXCEPT ![t] = name]
        /\ where = "tool" => ~cancelled /\ ~Denied(opts[t], name)
  BY Zenon DEF TurnStep
<1> QED
  BY <1>1 DEF TypeInv, Starts

LEMMA RejectedStep ==
  ASSUME TypeInv, NEW t \in Turns, TurnRejected(t)
  PROVE  TurnStep(t) /\ UNCHANGED <<cancelled, late, opts, filesModified, wrote>>
BY FailingType, EndStep DEF TurnRejected, Throw, TypeInv

LEMMA StartStep ==
  ASSUME TypeInv, NEW t \in Turns, NEW providerNone \in BOOLEAN, StartTurn(t, providerNone)
  PROVE  TurnStep(t) /\ UNCHANGED <<cancelled, late, opts, filesModified, wrote>>
<1>1. /\ iterations + 1 \in Nat /\ toolCalls \in Nat /\ round \in [Turns -> Nat]
      /\ "FAILED" \in States /\ "EXECUTING" \in States
  <2>1. iterations \in Nat /\ toolCalls \in Nat /\ round \in [Turns -> Nat]
    BY DEF TypeInv
  <2> QED
    BY <2>1 DEF States
<1>2. toolCalls' \in Nat /\ UNCHANGED <<cancelled, late, opts, filesModified, wrote>>
  BY <1>1 DEF StartTurn
<1>3. CASE iterations' = iterations + 1 /\ End(t, "FAILED") /\ UNCHANGED round
  BY <1>1, <1>2, <1>3, EndStep
<1>4. CASE NextRound(t, "EXECUTING", iterations + 1, toolCalls, filesModified)
  BY <1>1, <1>2, <1>4, NextRoundStep
<1> QED
  BY <1>2, <1>3, <1>4 DEF StartTurn

LEMMA AwaitedStep ==
  ASSUME TypeInv, NEW t \in Turns, Awaited(t)
  PROVE  /\ TurnStep(t) /\ UNCHANGED <<cancelled, late, opts>>
         /\ \/ UNCHANGED <<filesModified, wrote>>
            \/ ToolWrote(t)
<1>0. /\ iterations \in Nat /\ toolCalls \in Nat /\ round \in [Turns -> Nat]
      /\ machine \in States /\ queue[t] \in Seq(Names)
  BY DEF TypeInv
<1>1. CASE ChatFails(t)
  BY <1>0, <1>1, FailingType, EndStep DEF ChatFails, Throw
<1>2. CASE ChatEnds(t)
  BY <1>0, <1>2, FinishStep DEF ChatEnds
<1>3. ASSUME NEW proposal \in Proposals, ChatProposes(t, proposal)
      PROVE  TurnStep(t) /\ UNCHANGED <<cancelled, late, opts, filesModified, wrote>>
  <2>1. proposal \in Seq(Names)
    BY RuntimeAssumption DEF Names
  <2> QED
    BY <1>3, <2>1, RunCallsStep DEF ChatProposes
<1>4. CASE ToolReturns(t)
  BY <1>0, <1>4, RunCallsStep DEF ToolReturns
<1>5. CASE ToolWrote(t)
  <2>1. CASE Throw(t, machine) /\ UNCHANGED <<toolCalls, round, iterations>>
    BY <1>0, <1>5, <2>1, FailingType, EndStep DEF ToolWrote, Throw
  <2>2. CASE RunCalls(t, queue[t], filesModified + 1)
    BY <1>0, <1>5, <2>2, RunCallsStep DEF ToolWrote
  <2> QED
    BY <1>5, <2>1, <2>2 DEF ToolWrote
<1> QED
  BY <1>1, <1>2, <1>3, <1>4, <1>5 DEF Awaited

LEMMA PassedStep == TypeInv /\ Passed /\ [RuntimeNext]_runtimeVars => TypeInv' /\ Passed'
<1> SUFFICES ASSUME TypeInv, Passed, [RuntimeNext]_runtimeVars
             PROVE  TypeInv' /\ Passed'
  OBVIOUS
<1>1. ASSUME NEW t \in Turns, TurnRejected(t)
      PROVE  TypeInv' /\ Passed'
  BY <1>1, RejectedStep, TurnStepType DEF TypeInv
<1>2. ASSUME NEW t \in Turns, Awaited(t)
      PROVE  TypeInv' /\ Passed'
  <2>1. TurnStep(t) /\ UNCHANGED <<cancelled, late, opts>>
    BY <1>2, AwaitedStep
  <2>2. filesModified' \in Nat /\ wrote' \in Nat
    <3>1. filesModified \in Nat /\ wrote \in Nat
      BY DEF TypeInv
    <3>2. UNCHANGED <<filesModified, wrote>> \/ ToolWrote(t)
      BY <1>2, AwaitedStep
    <3>3. CASE UNCHANGED <<filesModified, wrote>>
      BY <3>1, <3>3
    <3>4. CASE ToolWrote(t)
      <4>1. filesModified' = filesModified + 1 /\ wrote' = wrote + 1
        BY <3>4, Zenon DEF ToolWrote
      <4> QED
        BY <3>1, <4>1
    <3> QED
      BY <3>2, <3>3, <3>4
  <2> QED
    BY <2>1, <2>2, TurnStepType
<1>3. ASSUME NEW t \in Turns, NEW providerNone \in BOOLEAN, StartTurn(t, providerNone)
      PROVE  TypeInv' /\ Passed'
  BY <1>3, StartStep, TurnStepType DEF TypeInv
<1>4. CASE Cancel
  BY <1>4 DEF Cancel, TypeInv, Passed, States
<1>5. CASE Reset
  BY <1>5 DEF Reset, TypeInv, Passed, States
<1>6. CASE TimePasses
  BY <1>6 DEF TimePasses, TypeInv, Passed
<1>7. CASE UNCHANGED runtimeVars
  BY <1>7 DEF runtimeVars, TypeInv, Passed
<1> QED
  BY <1>1, <1>2, <1>3, <1>4, <1>5, <1>6, <1>7 DEF RuntimeNext

LEMMA PassedInvariant == RuntimeSpec => [](TypeInv /\ Passed)
<1>1. RuntimeInit => TypeInv /\ Passed
  <2> SUFFICES ASSUME RuntimeInit
               PROVE  TypeInv /\ Passed
    OBVIOUS
  <2>0. <<>> \in Seq(Names)
    OBVIOUS
  <2>1. queue \in [Turns -> Seq(Names)] /\ tool \in [Turns -> Names \cup {""}]
    BY <2>0, Zenon DEF RuntimeInit
  <2>2. at \in [Turns -> {"idle", "chat", "tool", "done"}] /\ round \in [Turns -> Nat]
    BY DEF RuntimeInit
  <2> QED
    BY <2>1, <2>2 DEF RuntimeInit, TypeInv, Passed, States
<1> QED
  BY <1>1, PassedStep, PTL DEF RuntimeSpec

\* MutatingToolsApproved: whoever shares the session, a write or execute tool runs only in
\* a turn that a human approved, in a mode that allows it, and if the turn allows the tool.
THEOREM MutatingToolsApprovedAlways == RuntimeSpec => []MutatingToolsApproved
<1>1. TypeInv /\ Passed => MutatingToolsApproved
  BY DEF Passed, MutatingToolsApproved, Denied, CanMutate
<1> QED
  BY <1>1, PassedInvariant, PTL

\* NoToolAfterCancel: once the session is cancelled no turn starts a tool.
THEOREM NothingStartsAfterCancel == RuntimeSpec => NoToolAfterCancel
<1>1. TypeInv /\ [RuntimeNext]_runtimeVars => [\A t \in Turns : Starts(t) => ~cancelled]_runtimeVars
  <2> SUFFICES ASSUME TypeInv, [RuntimeNext]_runtimeVars, NEW t \in Turns, Starts(t)
               PROVE  ~cancelled
    OBVIOUS
  <2>1. ASSUME NEW s \in Turns, TurnStep(s)
        PROVE  ~cancelled
    BY <2>1, TurnStepQuiet
  <2>2. ASSUME UNCHANGED <<at, queue>>
        PROVE  FALSE
    BY <2>2 DEF Starts
  <2> QED
    BY <2>1, <2>2, RejectedStep, AwaitedStep, StartStep
       DEF RuntimeNext, Cancel, Reset, TimePasses, runtimeVars
<1> QED
  BY <1>1, PassedInvariant, PTL DEF RuntimeSpec, NoToolAfterCancel

---------------------------------------------------------------------------
(* How many files a session writes.                                        *)

Done == {t \in Turns : at[t] = "done"}

\* Past the limit every file written has ended a turn.
CapInv == wrote = filesModified /\ wrote <= MaxFilesModified + Cardinality(Done)

LEMMA CardinalityGrows ==
  ASSUME NEW S, NEW T, S \subseteq T, T \subseteq Turns
  PROVE  /\ Cardinality(S) \in Nat /\ Cardinality(T) \in Nat
         /\ Cardinality(S) <= Cardinality(T)
         /\ \A t \in T \ S : Cardinality(S) + 1 <= Cardinality(T)
<1>1. IsFiniteSet(T) /\ IsFiniteSet(S)
  BY RuntimeAssumption, FS_Subset
<1>2. Cardinality(S) \in Nat /\ Cardinality(T) \in Nat /\ Cardinality(S) <= Cardinality(T)
  BY <1>1, FS_Subset, FS_CardinalityType
<1>3. ASSUME NEW t \in T \ S
      PROVE  Cardinality(S) + 1 <= Cardinality(T)
  <2>1. Cardinality(S \cup {t}) = Cardinality(S) + 1
    BY <1>1, FS_AddElement
  <2>2. S \cup {t} \subseteq T
    BY <1>3
  <2> QED
    BY <1>1, <2>1, <2>2, FS_Subset
<1> QED
  BY <1>2, <1>3

LEMMA CapStep == TypeInv /\ CapInv /\ [RuntimeNext]_runtimeVars => CapInv'
<1> SUFFICES ASSUME TypeInv, CapInv, [RuntimeNext]_runtimeVars
             PROVE  CapInv'
  OBVIOUS
<1>0. wrote \in Nat /\ MaxFilesModified \in Nat
  BY RuntimeAssumption DEF TypeInv
\* A step that writes nothing, and brings no turn back.
<1>1. ASSUME UNCHANGED <<filesModified, wrote>>, Done \subseteq Done'
      PROVE  CapInv'
  <2>1. Done' \subseteq Turns
    BY DEF Done
  <2>2. Cardinality(Done) <= Cardinality(Done') /\ Cardinality(Done) \in Nat
        /\ Cardinality(Done') \in Nat
    BY <1>1, <2>1, CardinalityGrows
  <2>3. Cardinality(Done)' = Cardinality(Done')
    OBVIOUS
  <2> QED
    BY <1>0, <1>1, <2>2, <2>3 DEF CapInv
<1>2. ASSUME NEW t \in Turns, TurnStep(t), at[t] # "done"
      PROVE  Done \subseteq Done'
  <2>1. PICK where : at' = [at EXCEPT ![t] = where]
    BY <1>2, Zenon DEF TurnStep
  <2> QED
    BY <1>2, <2>1 DEF TypeInv, Done
<1>3. ASSUME NEW t \in Turns, ToolWrote(t), TurnStep(t)
      PROVE  CapInv'
  <2>0. at[t] = "tool" /\ filesModified' = filesModified + 1 /\ wrote' = wrote + 1
    BY <1>3 DEF ToolWrote
  <2>1. Done \subseteq Done' /\ Done' \subseteq Turns
    BY <1>2, <1>3, <2>0 DEF Done
  <2>2. Cardinality(Done) <= Cardinality(Done') /\ Cardinality(Done) \in Nat
        /\ Cardinality(Done') \in Nat
    BY <2>1, CardinalityGrows
  <2>3. CASE wrote + 1 <= MaxFilesModified
    BY <1>0, <2>0, <2>2, <2>3 DEF CapInv
  <2>4. CASE ~(wrote + 1 <= MaxFilesModified)
    <3>1. OverLimit(iterations, toolCalls, filesModified + 1)
      BY <1>0, <2>4 DEF OverLimit, CapInv
    <3>2. at' = [at EXCEPT ![t] = "done"]
      BY <1>3, <3>1 DEF ToolWrote, Throw, End
    <3>3. t \in Done' \ Done
      BY <2>0, <3>2 DEF Done, TypeInv
    <3>4. Cardinality(Done) + 1 <= Cardinality(Done')
      BY <2>1, <3>3, CardinalityGrows
    <3> QED
      BY <1>0, <2>0, <2>2, <3>4 DEF CapInv
  <2> QED
    BY <2>3, <2>4
<1>4. ASSUME NEW t \in Turns, Awaited(t)
      PROVE  CapInv'
  <2>1. at[t] # "done"
    BY <1>4 DEF Awaited, ChatFails, ChatEnds, ChatProposes, ToolReturns, ToolWrote
  <2> QED
    BY <1>1, <1>2, <1>3, <1>4, <2>1, AwaitedStep
<1>5. ASSUME NEW t \in Turns, TurnRejected(t)
      PROVE  CapInv'
  BY <1>1, <1>2, <1>5, RejectedStep DEF TurnRejected
<1>6. ASSUME NEW t \in Turns, NEW providerNone \in BOOLEAN, StartTurn(t, providerNone)
      PROVE  CapInv'
  BY <1>1, <1>2, <1>6, StartStep DEF StartTurn
<1>7. CASE Cancel \/ Reset \/ TimePasses \/ UNCHANGED runtimeVars
  BY <1>1, <1>7 DEF Cancel, Reset, TimePasses, runtimeVars, Done
<1> QED
  BY <1>4, <1>5, <1>6, <1>7 DEF RuntimeNext

\* FilesNearlyCapped: turns that share a session overshoot its limit by one file each at
\* most, because the file that exceeds it ends its turn.
THEOREM FilesNearlyCappedAlways == RuntimeSpec => []FilesNearlyCapped
<1>1. RuntimeInit => CapInv
  <2> SUFFICES ASSUME RuntimeInit
               PROVE  CapInv
    OBVIOUS
  <2>1. Cardinality(Done) \in Nat
    BY CardinalityGrows DEF Done
  <2>2. wrote = 0 /\ filesModified = 0
    BY DEF RuntimeInit
  <2>3. MaxFilesModified \in Nat
    BY RuntimeAssumption
  <2> QED
    BY <2>1, <2>2, <2>3 DEF CapInv
<1>2. TypeInv /\ CapInv => FilesNearlyCapped
  <2> SUFFICES ASSUME TypeInv, CapInv
               PROVE  FilesNearlyCapped
    OBVIOUS
  <2>1. Cardinality(Done) <= Cardinality(Turns) /\ Cardinality(Done) \in Nat
        /\ Cardinality(Turns) \in Nat
    BY CardinalityGrows DEF Done
  <2>2. wrote \in Nat /\ MaxFilesModified \in Nat
    BY RuntimeAssumption DEF TypeInv
  <2>3. wrote <= MaxFilesModified + Cardinality(Done)
    BY <2>1, <2>2 DEF CapInv, TypeInv
  <2> QED
    BY <2>1, <2>2, <2>3 DEF FilesNearlyCapped
<1> QED
  BY <1>1, <1>2, CapStep, PassedInvariant, PTL DEF RuntimeSpec
=============================================================================
