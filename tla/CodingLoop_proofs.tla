------------------------- MODULE CodingLoop_proofs -------------------------
(***************************************************************************)
(* The safety properties of CodingLoop, for every set of options, every    *)
(* set of proposals and all limits.                                        *)
(***************************************************************************)
EXTENDS CodingLoop, SequenceTheorems, TLAPS

Running == {"next", "tool", "chat", "edited", "verify", "verified"}

\* Where the code stands determines the state of the machine, ...
PhaseInv ==
  /\ at = "start" => machine = "IDLE"
  /\ at = "mode" => machine = "UNDERSTANDING"
  /\ at = "plan" => machine = "PLANNING"
  /\ at = "approved" => machine = "WAITING_FOR_APPROVAL"
  /\ at \in {"next", "tool", "chat", "edited"} => machine = "EXECUTING"
  /\ at \in {"verify", "verified"} => machine = "VERIFYING"
  /\ at \in {"learn", "catch"} => machine = "FAILED"
  /\ at = "catch" => reason \in {"limit", "failed"}
  /\ ReasonMatchesState

\* ... and what was asked before: nothing is written ahead of the approval.
ApprovalInv ==
  /\ at \in {"plan", "approved"} \cup Running => ModeAllowsMutation(opts.mode)
  /\ at \in {"approved"} \cup Running => opts.approvedByHuman
  /\ at \in {"start", "mode", "plan", "learn", "approved"} => wrote = 0
  /\ MutationsAreApproved

\* A write was counted when it started, and the count is of what was written.
CountInv ==
  /\ changed = wrote
  /\ at = "tool" /\ tool \in WriteTools => wrote + 1 <= MaxFilesModified
  /\ LimitsHold

VerifyInv ==
  /\ at = "verified" /\ wrote > 0 /\ opts.verify => verification = wrote
  /\ CompletedIsVerified

LoopInv == LoopTypeOK /\ PhaseInv /\ ApprovalInv /\ CountInv /\ VerifyInv

---------------------------------------------------------------------------
\* From every state the code can raise in, the machine may fail.
LEMMA MayFail ==
  ASSUME NEW m \in {"UNDERSTANDING", "PLANNING", "EXECUTING", "VERIFYING"}
  PROVE  CanTransition(m, "FAILED")
BY DEF CanTransition, Allowed

\* A raise leaves the machine FAILED, with a reason the catch block passes on.
LEMMA RaiseFails ==
  ASSUME NEW why \in {"limit", "failed"}, Raise(why),
         machine \in {"UNDERSTANDING", "PLANNING", "EXECUTING", "VERIFYING", "FAILED"}
  PROVE  /\ at' = "catch"
         /\ machine' = "FAILED"
         /\ reason' = why
BY MayFail DEF Raise

\* The gate lets no write through in forensic mode.
LEMMA GateOpens ==
  ASSUME NEW name \in WriteTools, Gate(name, ExecOpts) = "", Forensic \in BOOLEAN
  PROVE  ~Forensic
BY DEF Gate, WriteTools, ReadTools, ExecuteTools, KnownTools

\* The numbers and sequences of LoopTypeOK, without its Booleans.
LEMMA Typing ==
  ASSUME LoopInv
  PROVE  /\ iterations \in Nat /\ toolCalls \in Nat /\ fixed \in Nat
         /\ changed \in Nat /\ wrote \in Nat
         /\ proposed \in Seq(KnownTools \cup {"unknown"})
         /\ opts.toolCalls \in Seq(KnownTools)
<1>1. opts \in Option
  BY LoopInputAssumption DEF LoopInv, LoopTypeOK
<1>2. opts.toolCalls \in Seq(KnownTools)
  BY <1>1 DEF Option
<1> QED
  BY <1>2, Zenon DEF LoopInv, LoopTypeOK

\* The three ways runOne leaves: skipped, stopped by a limit, or in the tool.
LEMMA RunOneCases ==
  ASSUME NEW name, NEW iters, RunOne(name, iters), machine = "EXECUTING"
  PROVE  \/ /\ at' = "next" /\ machine' = machine /\ reason' = reason
            /\ toolCalls' = toolCalls /\ tool' = tool
         \/ /\ at' = "catch" /\ machine' = "FAILED" /\ reason' = "limit"
            /\ toolCalls' = toolCalls + 1 /\ tool' = tool
         \/ /\ at' = "tool" /\ machine' = machine /\ reason' = reason
            /\ toolCalls' = toolCalls + 1 /\ tool' = name
            /\ name \in opts.allowedTools
            /\ ~LimitExceeded(iters, toolCalls + 1, name \in WriteTools)
<1>1. CASE name \notin opts.allowedTools
  BY <1>1 DEF RunOne
<1>2. CASE name \in opts.allowedTools /\ LimitExceeded(iters, toolCalls + 1, name \in WriteTools)
  <2>1. Raise("limit") /\ toolCalls' = toolCalls + 1 /\ tool' = tool
    BY <1>2 DEF RunOne
  <2> QED
    BY <2>1, RaiseFails
<1>3. CASE name \in opts.allowedTools /\ ~LimitExceeded(iters, toolCalls + 1, name \in WriteTools)
  BY <1>3 DEF RunOne
<1> QED
  BY <1>1, <1>2, <1>3

\* A call that passed the limits leaves room for its write.
LEMMA WithinLimits ==
  ASSUME NEW iters, NEW calls \in Nat, changed \in Nat, NEW write \in BOOLEAN,
         ~LimitExceeded(iters, calls, write)
  PROVE  calls <= MaxToolCalls /\ (write => changed + 1 <= MaxFilesModified)
<1>1. ~(calls > MaxToolCalls)
  BY DEF LimitExceeded
<1>2. ~(changed + (IF write THEN 1 ELSE 0) > MaxFilesModified)
  BY DEF LimitExceeded
<1>3. CASE write
  <2>1. ~(changed + 1 > MaxFilesModified)
    BY <1>2, <1>3
  <2> QED
    BY <1>1, <2>1, LimitsAssumption
<1>4. CASE ~write
  BY <1>1, <1>4, LimitsAssumption
<1> QED
  BY <1>3, <1>4

\* What a step that raises keeps.
LEMMA RaisedInv ==
  ASSUME LoopInv, NEW why \in {"limit", "failed"}, Raise(why),
         machine \in {"UNDERSTANDING", "PLANNING", "EXECUTING", "VERIFYING", "FAILED"},
         UNCHANGED <<opts, toolCalls, tool, changed, late, outcome, wrote>>,
         iterations' \in Nat, fixed' \in Nat, proposed' \in Seq(KnownTools \cup {"unknown"})
  PROVE  LoopInv'
<1>1. at' = "catch" /\ machine' = "FAILED" /\ reason' = why
  BY RaiseFails
<1>2. /\ opts' = opts /\ changed' = changed /\ late' = late /\ wrote' = wrote
      /\ toolCalls' = toolCalls /\ tool' = tool
      /\ verification' = verification /\ ledger' = ledger
  BY DEF outcome
<1>3. LoopTypeOK'
  BY <1>1, <1>2 DEF LoopInv, LoopTypeOK, States
<1>4. PhaseInv'
  BY <1>1 DEF PhaseInv, ReasonMatchesState
<1>5. ApprovalInv'
  BY <1>1, <1>2, Zenon DEF LoopInv, ApprovalInv, MutationsAreApproved, Running
<1>6. CountInv'
  BY <1>1, <1>2 DEF LoopInv, CountInv, LimitsHold
<1>7. VerifyInv'
  BY <1>1 DEF VerifyInv, CompletedIsVerified
<1> QED
  BY <1>3, <1>4, <1>5, <1>6, <1>7 DEF LoopInv

\* What a step that runs runOne keeps; the caller says which call it was.
LEMMA RunOneInv ==
  ASSUME LoopInv, at = "next", machine = "EXECUTING",
         NEW name \in KnownTools, NEW iters,
         RunOne(name, iters), UNCHANGED <<opts, changed, late, outcome, wrote>>,
         iterations' \in Nat, fixed' \in Nat, proposed' \in Seq(KnownTools \cup {"unknown"})
  PROVE  LoopInv'
<1> DEFINE Skipped == /\ at' = "next" /\ machine' = machine /\ reason' = reason
                      /\ toolCalls' = toolCalls /\ tool' = tool
           Stopped == /\ at' = "catch" /\ machine' = "FAILED" /\ reason' = "limit"
                      /\ toolCalls' = toolCalls + 1 /\ tool' = tool
           Started == /\ at' = "tool" /\ machine' = machine /\ reason' = reason
                      /\ toolCalls' = toolCalls + 1 /\ tool' = name
                      /\ name \in opts.allowedTools
                      /\ ~LimitExceeded(iters, toolCalls + 1, name \in WriteTools)
<1>1. Skipped \/ Stopped \/ Started
  BY RunOneCases
<1>2. /\ opts' = opts /\ changed' = changed /\ late' = late /\ wrote' = wrote
      /\ verification' = verification /\ ledger' = ledger
  BY DEF outcome
<1>3. LoopTypeOK'
  <2>1. toolCalls' \in Nat
    <3>1. toolCalls' = toolCalls \/ toolCalls' = toolCalls + 1
      BY <1>1
    <3> QED
      BY <3>1, Typing
  <2>2. /\ at' \in {"next", "catch", "tool"} /\ machine' \in States
        /\ reason' \in {reason, "limit"} /\ tool' \in KnownTools \cup {""}
    BY <1>1 DEF LoopInv, LoopTypeOK, States
  <2> QED
    BY <1>2, <2>1, <2>2 DEF LoopInv, LoopTypeOK
<1>4. PhaseInv'
  <2>1. \/ at' \in {"next", "tool"} /\ machine' = "EXECUTING"
        \/ at' = "catch" /\ machine' = "FAILED" /\ reason' = "limit"
    BY <1>1
  <2> QED
    BY <2>1 DEF PhaseInv, ReasonMatchesState
<1>5. ApprovalInv'
  <2>1. /\ ModeAllowsMutation(opts.mode) /\ opts.approvedByHuman
        /\ wrote > 0 => ~Forensic
    BY Zenon DEF LoopInv, ApprovalInv, MutationsAreApproved, Running
  <2>2. at' \in {"next", "catch", "tool"} /\ (at' = "tool" => tool' \in opts.allowedTools)
    BY <1>1
  <2> QED
    BY <1>2, <2>1, <2>2, Zenon DEF ApprovalInv, MutationsAreApproved
<1>6. CountInv'
  <2>1. CASE Started
    <3>1. /\ toolCalls' <= MaxToolCalls
          /\ name \in WriteTools => changed + 1 <= MaxFilesModified
      <4>1. toolCalls + 1 \in Nat /\ changed \in Nat /\ (name \in WriteTools) \in BOOLEAN
        BY Typing
      <4>2. ~LimitExceeded(iters, toolCalls + 1, name \in WriteTools)
        BY <2>1
      <4>3. /\ toolCalls + 1 <= MaxToolCalls
            /\ name \in WriteTools => changed + 1 <= MaxFilesModified
        BY <4>1, <4>2, WithinLimits
      <4> QED
        BY <2>1, <4>3
    <3> QED
      BY <1>2, <2>1, <3>1 DEF LoopInv, CountInv, LimitsHold
  <2>2. CASE Skipped \/ Stopped
    <3>1. at' # "tool"
      BY <2>2
    <3> QED
      BY <1>2, <3>1 DEF LoopInv, CountInv, LimitsHold
  <2> QED
    BY <1>1, <2>1, <2>2
<1>7. VerifyInv'
  <2>1. at' \in {"next", "catch", "tool"}
    BY <1>1
  <2> QED
    BY <2>1 DEF VerifyInv, CompletedIsVerified
<1> QED
  BY <1>3, <1>4, <1>5, <1>6, <1>7 DEF LoopInv

\* LoopInv holds at the start ...
LEMMA InitInv == LoopInit => LoopInv
<1> SUFFICES ASSUME LoopInit PROVE LoopInv
  OBVIOUS
<1>1. LoopTypeOK
  BY EmptySeq DEF LoopInit, LoopTypeOK, States
<1>2. PhaseInv
  BY DEF LoopInit, PhaseInv, ReasonMatchesState
<1>3. wrote = 0 /\ changed = 0 /\ at = "start"
  BY DEF LoopInit
<1>4. ~(wrote > 0) /\ wrote <= MaxFilesModified
  BY <1>3, LimitsAssumption
<1>5. ApprovalInv
  BY <1>3, <1>4, Zenon DEF ApprovalInv, MutationsAreApproved, Running
<1>6. CountInv
  BY <1>3, <1>4 DEF CountInv, LimitsHold
<1>7. VerifyInv
  BY <1>3 DEF VerifyInv, CompletedIsVerified
<1> QED
  BY <1>1, <1>2, <1>5, <1>6, <1>7 DEF LoopInv

\* ... and is preserved by every step.
LEMMA StepInv == LoopInv /\ [LoopNext]_loopVars => LoopInv'
<1> SUFFICES ASSUME LoopInv, [LoopNext]_loopVars PROVE LoopInv'
  OBVIOUS
<1> USE LimitsAssumption, LoopInputAssumption, ForensicAssumption DEF LoopInv, counters, outcome
<1>1. CASE Begin
  <2>1. LoopTypeOK'
    BY <1>1 DEF Begin, LoopTypeOK, States
  <2>2. PhaseInv'
    BY <1>1, MayFail DEF Begin, PhaseInv, ReasonMatchesState
  <2>3. ApprovalInv'
    BY <1>1 DEF Begin, ApprovalInv, MutationsAreApproved, Running
  <2>4. CountInv'
    BY <1>1 DEF Begin, CountInv, LimitsHold, LimitExceeded, LoopTypeOK
  <2>5. VerifyInv'
    BY <1>1 DEF Begin, VerifyInv, CompletedIsVerified, CountInv
  <2> QED
    BY <2>1, <2>2, <2>3, <2>4, <2>5
<1>2. CASE CheckMode
  <2>1. LoopTypeOK'
    BY <1>2 DEF CheckMode, Go, LoopTypeOK, States
  <2>2. PhaseInv'
    BY <1>2, MayFail DEF CheckMode, Go, PhaseInv, ReasonMatchesState
  <2>3. ApprovalInv'
    BY <1>2 DEF CheckMode, Go, ApprovalInv, MutationsAreApproved, Running
  <2>4. CountInv'
    BY <1>2 DEF CheckMode, Go, CountInv, LimitsHold, LimitExceeded, LoopTypeOK
  <2>5. VerifyInv'
    BY <1>2 DEF CheckMode, Go, VerifyInv, CompletedIsVerified, CountInv
  <2> QED
    BY <2>1, <2>2, <2>3, <2>4, <2>5
<1>3. CASE ModeForbidden
  <2>1. LoopTypeOK'
    BY <1>3 DEF ModeForbidden, Stop, Throws, Raise, LoopTypeOK, States
  <2>2. PhaseInv'
    <3>1. CASE Stop("mode_forbidden") /\ UNCHANGED machine
      BY <1>3, <3>1 DEF ModeForbidden, Stop, PhaseInv, ReasonMatchesState, ApprovalInv
    <3>2. CASE Throws
      <4>1. at' = "catch" /\ machine' = "FAILED" /\ reason' \in {"limit", "failed"}
        BY <1>3, <3>2, RaiseFails DEF ModeForbidden, PhaseInv, Throws
      <4> QED
        BY <4>1 DEF PhaseInv, ReasonMatchesState
    <3> QED
      BY <1>3, <3>1, <3>2 DEF ModeForbidden
  <2>3. ApprovalInv'
    BY <1>3 DEF ModeForbidden, Stop, Throws, Raise, ApprovalInv, MutationsAreApproved, Running
  <2>4. CountInv'
    BY <1>3 DEF ModeForbidden, Stop, Throws, Raise, CountInv, LimitsHold, LimitExceeded, LoopTypeOK
  <2>5. VerifyInv'
    BY <1>3 DEF ModeForbidden, Stop, Throws, Raise, VerifyInv, CompletedIsVerified, CountInv
  <2> QED
    BY <2>1, <2>2, <2>3, <2>4, <2>5
<1>4. CASE Plan
  <2>1. LoopTypeOK'
    BY <1>4 DEF Plan, Go, Stop, Throws, Raise, LoopTypeOK, States
  <2>2. PhaseInv'
    <3>1. CASE Throws
      <4>1. at' = "catch" /\ machine' = "FAILED" /\ reason' \in {"limit", "failed"}
        BY <1>4, <3>1, RaiseFails DEF Plan, PhaseInv, Throws
      <4> QED
        BY <4>1 DEF PhaseInv, ReasonMatchesState
    <3>2. CASE Go("WAITING_FOR_APPROVAL")
      <4>1. wrote' = 0 /\ machine' = "WAITING_FOR_APPROVAL"
        BY <1>4, <3>2 DEF Plan, Go, ApprovalInv
      <4>2. (at' = "approved") \/ (at' = "done" /\ reason' = "awaiting-approval")
        BY <1>4, <3>2, Zenon DEF Plan, Stop, Throws, Raise, Go, PhaseInv
      <4> QED
        BY <4>1, <4>2 DEF PhaseInv, ReasonMatchesState
    <3> QED
      BY <1>4, <3>1, <3>2 DEF Plan
  <2>3. ApprovalInv'
    BY <1>4 DEF Plan, Go, Stop, Throws, Raise, ApprovalInv, MutationsAreApproved, Running
  <2>4. CountInv'
    BY <1>4 DEF Plan, Go, Stop, Throws, Raise, CountInv, LimitsHold, LimitExceeded, LoopTypeOK
  <2>5. VerifyInv'
    BY <1>4 DEF Plan, Go, Stop, Throws, Raise, VerifyInv, CompletedIsVerified, CountInv
  <2> QED
    BY <2>1, <2>2, <2>3, <2>4, <2>5
<1>5. CASE Approved
  <2>1. LoopTypeOK'
    BY <1>5 DEF Approved, Go, LoopTypeOK, States
  <2>2. PhaseInv'
    BY <1>5, MayFail DEF Approved, Go, PhaseInv, ReasonMatchesState
  <2>3. ApprovalInv'
    BY <1>5 DEF Approved, Go, ApprovalInv, MutationsAreApproved, Running
  <2>4. CountInv'
    BY <1>5 DEF Approved, Go, CountInv, LimitsHold, LimitExceeded, LoopTypeOK
  <2>5. VerifyInv'
    BY <1>5 DEF Approved, Go, VerifyInv, CompletedIsVerified, CountInv
  <2> QED
    BY <2>1, <2>2, <2>3, <2>4, <2>5
<1>6. CASE NextFixed
  <2> DEFINE name == opts.toolCalls[fixed + 1]
  <2>1. /\ at = "next" /\ fixed < Len(opts.toolCalls)
        /\ iterations' = iterations + 1 /\ fixed' = fixed + 1 /\ proposed' = proposed
        /\ UNCHANGED <<opts, changed, late, outcome, wrote>>
    BY <1>6 DEF NextFixed
  <2>2. iterations' \in Nat /\ fixed' \in Nat /\ proposed' \in Seq(KnownTools \cup {"unknown"})
    BY <2>1, Typing
  <2>3. name \in KnownTools
    <3>1. fixed + 1 \in 1..Len(opts.toolCalls)
      BY <2>1, Typing
    <3> QED
      BY <3>1, Typing
  <2>4. machine = "EXECUTING"
    BY <2>1 DEF PhaseInv
  <2>5. CASE LimitExceeded(iterations + 1, toolCalls, name \in WriteTools)
    <3>1. Raise("limit") /\ toolCalls' = toolCalls /\ tool' = tool
      BY <1>6, <2>5 DEF NextFixed
    <3> QED
      BY <2>1, <2>2, <2>4, <3>1, RaisedInv
  <2>6. CASE ~LimitExceeded(iterations + 1, toolCalls, name \in WriteTools)
    <3>1. RunOne(name, iterations + 1)
      BY <1>6, <2>6 DEF NextFixed
    <3> QED
      BY <2>1, <2>2, <2>3, <2>4, <3>1, RunOneInv
  <2> QED
    BY <2>5, <2>6
<1>7. CASE ToolDone
  <2>1. /\ at = "tool" /\ at' = "next" /\ tool' = ""
        /\ UNCHANGED <<opts, machine, iterations, toolCalls, fixed, proposed, late,
                      verification, ledger, reason>>
    BY <1>7 DEF ToolDone
  <2>2. \/ changed' = changed /\ wrote' = wrote
        \/ /\ tool \in WriteTools /\ Gate(tool, ExecOpts) = ""
           /\ changed' = changed + 1 /\ wrote' = wrote + 1
    BY <1>7 DEF ToolDone
  <2>3. changed' \in Nat /\ wrote' \in Nat
    <3>1. changed' \in {changed, changed + 1} /\ wrote' \in {wrote, wrote + 1}
      BY <2>2, Zenon
    <3> QED
      BY <3>1, Typing
  <2>4. LoopTypeOK'
    BY <2>1, <2>3 DEF LoopTypeOK
  <2>5. PhaseInv'
    BY <2>1 DEF PhaseInv, ReasonMatchesState
  <2>6. ApprovalInv'
    <3>1. ModeAllowsMutation(opts.mode) /\ opts.approvedByHuman
      BY <2>1, Zenon DEF ApprovalInv, Running
    <3>2. wrote' > 0 => ~Forensic
      <4>1. CASE wrote' = wrote
        BY <4>1, Zenon DEF ApprovalInv, MutationsAreApproved
      <4>2. CASE tool \in WriteTools /\ Gate(tool, ExecOpts) = ""
        BY <4>2, GateOpens
      <4> QED
        BY <2>2, <4>1, <4>2
    <3> QED
      BY <2>1, <3>1, <3>2, Zenon DEF ApprovalInv, MutationsAreApproved
  <2>7. CountInv'
    <3>1. changed' = wrote' /\ wrote' <= MaxFilesModified
      BY <2>1, <2>2 DEF CountInv, LimitsHold
    <3> QED
      BY <2>1, <3>1 DEF CountInv, LimitsHold
  <2>8. VerifyInv'
    BY <2>1 DEF VerifyInv, CompletedIsVerified
  <2> QED
    BY <2>4, <2>5, <2>6, <2>7, <2>8
<1>8. CASE AskModel
  <2>1. LoopTypeOK'
    <3>1. /\ iterations' \in Nat
          /\ UNCHANGED <<opts, toolCalls, fixed, proposed, tool, changed, late, outcome, wrote>>
      BY <1>8, Typing DEF AskModel
    <3>2. /\ at' \in {"catch", "chat"} /\ machine' \in {machine, "FAILED"}
          /\ reason' \in {reason, "limit"}
      BY <1>8 DEF AskModel, Raise
    <3> QED
      BY <3>1, <3>2 DEF LoopTypeOK, States
  <2>2. PhaseInv'
    BY <1>8, MayFail DEF AskModel, Raise, PhaseInv, ReasonMatchesState
  <2>3. ApprovalInv'
    BY <1>8 DEF AskModel, Raise, ApprovalInv, MutationsAreApproved, Running
  <2>4. CountInv'
    BY <1>8 DEF AskModel, Raise, CountInv, LimitsHold, LimitExceeded, LoopTypeOK
  <2>5. VerifyInv'
    BY <1>8 DEF AskModel, Raise, VerifyInv, CompletedIsVerified, CountInv
  <2> QED
    BY <2>1, <2>2, <2>3, <2>4, <2>5
<1>9. CASE ModelAnswers
  <2>1. LoopTypeOK'
    BY <1>9 DEF ModelAnswers, Go, Stop, Throws, Raise, LoopTypeOK, States
  <2>2. PhaseInv'
    BY <1>9, MayFail DEF ModelAnswers, Go, Stop, Throws, Raise, PhaseInv, ReasonMatchesState
  <2>3. ApprovalInv'
    BY <1>9 DEF ModelAnswers, Go, Stop, Throws, Raise, ApprovalInv, MutationsAreApproved, Running
  <2>4. CountInv'
    BY <1>9 DEF ModelAnswers, Go, Stop, Throws, Raise, CountInv, LimitsHold, LimitExceeded, LoopTypeOK
  <2>5. VerifyInv'
    BY <1>9 DEF ModelAnswers, Go, Stop, Throws, Raise, VerifyInv, CompletedIsVerified, CountInv
  <2> QED
    BY <2>1, <2>2, <2>3, <2>4, <2>5
<1>10. CASE NextProposed
  <2>1. /\ at = "next" /\ proposed # <<>> /\ proposed' = Tail(proposed)
        /\ UNCHANGED <<opts, changed, late, outcome, wrote>>
        /\ iterations' = iterations /\ fixed' = fixed
    BY <1>10 DEF NextProposed
  <2>2. /\ iterations' \in Nat /\ fixed' \in Nat
        /\ proposed' \in Seq(KnownTools \cup {"unknown"})
    BY <2>1, Typing
  <2>3. machine = "EXECUTING"
    BY <2>1 DEF PhaseInv
  <2>4. CASE Head(proposed) \in KnownTools
    <3>1. RunOne(Head(proposed), iterations)
      BY <1>10, <2>4 DEF NextProposed
    <3> QED
      BY <2>1, <2>2, <2>3, <2>4, <3>1, RunOneInv
  <2>5. CASE Head(proposed) \notin KnownTools
    <3>1. UNCHANGED <<opts, at, machine, iterations, toolCalls, fixed, tool, changed, late,
                      verification, ledger, reason, wrote>>
      BY <1>10, <2>1, <2>5 DEF NextProposed, outcome
    <3>2. LoopTypeOK'
      BY <2>2, <3>1 DEF LoopTypeOK
    <3>3. PhaseInv' /\ ApprovalInv' /\ CountInv' /\ VerifyInv'
      BY <3>1 DEF PhaseInv, ReasonMatchesState, ApprovalInv, MutationsAreApproved, Running,
         CountInv, LimitsHold, VerifyInv, CompletedIsVerified
    <3> QED
      BY <3>2, <3>3
  <2> QED
    BY <2>4, <2>5
<1>11. CASE Edited
  <2>1. LoopTypeOK'
    BY <1>11 DEF Edited, Go, LoopTypeOK, States
  <2>2. PhaseInv'
    BY <1>11, MayFail DEF Edited, Go, PhaseInv, ReasonMatchesState
  <2>3. ApprovalInv'
    BY <1>11 DEF Edited, Go, ApprovalInv, MutationsAreApproved, Running
  <2>4. CountInv'
    BY <1>11 DEF Edited, Go, CountInv, LimitsHold, LimitExceeded, LoopTypeOK
  <2>5. VerifyInv'
    BY <1>11 DEF Edited, Go, VerifyInv, CompletedIsVerified, CountInv
  <2> QED
    BY <2>1, <2>2, <2>3, <2>4, <2>5
<1>12. CASE Verify
  <2>1. LoopTypeOK'
    BY <1>12 DEF Verify, Throws, Raise, LoopTypeOK, States
  <2>2. PhaseInv'
    BY <1>12, MayFail DEF Verify, Throws, Raise, PhaseInv, ReasonMatchesState
  <2>3. ApprovalInv'
    BY <1>12 DEF Verify, Throws, Raise, ApprovalInv, MutationsAreApproved, Running
  <2>4. CountInv'
    BY <1>12 DEF Verify, Throws, Raise, CountInv, LimitsHold, LimitExceeded, LoopTypeOK
  <2>5. VerifyInv'
    BY <1>12 DEF Verify, Throws, Raise, VerifyInv, CompletedIsVerified, CountInv
  <2> QED
    BY <2>1, <2>2, <2>3, <2>4, <2>5
<1>13. CASE Complete
  <2>1. LoopTypeOK'
    BY <1>13 DEF Complete, Go, Stop, LoopTypeOK, States
  <2>2. PhaseInv'
    BY <1>13, MayFail DEF Complete, Go, Stop, PhaseInv, ReasonMatchesState
  <2>3. ApprovalInv'
    BY <1>13 DEF Complete, Go, Stop, ApprovalInv, MutationsAreApproved, Running
  <2>4. CountInv'
    BY <1>13 DEF Complete, Go, Stop, CountInv, LimitsHold, LimitExceeded, LoopTypeOK
  <2>5. VerifyInv'
    BY <1>13 DEF Complete, Go, Stop, VerifyInv, CompletedIsVerified, CountInv
  <2> QED
    BY <2>1, <2>2, <2>3, <2>4, <2>5
<1>14. CASE Catch
  <2>1. LoopTypeOK'
    BY <1>14 DEF Catch, Stop, LoopTypeOK, States
  <2>2. PhaseInv'
    BY <1>14, MayFail DEF Catch, Stop, PhaseInv, ReasonMatchesState
  <2>3. ApprovalInv'
    BY <1>14 DEF Catch, Stop, ApprovalInv, MutationsAreApproved, Running
  <2>4. CountInv'
    BY <1>14 DEF Catch, Stop, CountInv, LimitsHold, LimitExceeded, LoopTypeOK
  <2>5. VerifyInv'
    <3>1. at' = "done" /\ reason' # "completed"
      BY <1>14 DEF Catch, Stop, PhaseInv
    <3> QED
      BY <3>1 DEF VerifyInv, CompletedIsVerified
  <2> QED
    BY <2>1, <2>2, <2>3, <2>4, <2>5
<1>15. CASE TimePasses
  <2>1. LoopTypeOK'
    BY <1>15 DEF TimePasses, LoopTypeOK, States
  <2>2. PhaseInv'
    BY <1>15, MayFail DEF TimePasses, PhaseInv, ReasonMatchesState
  <2>3. ApprovalInv'
    BY <1>15 DEF TimePasses, ApprovalInv, MutationsAreApproved, Running
  <2>4. CountInv'
    BY <1>15 DEF TimePasses, CountInv, LimitsHold, LimitExceeded, LoopTypeOK
  <2>5. VerifyInv'
    BY <1>15 DEF TimePasses, VerifyInv, CompletedIsVerified, CountInv
  <2> QED
    BY <2>1, <2>2, <2>3, <2>4, <2>5
<1>16. CASE Finished
  <2>1. LoopTypeOK'
    BY <1>16 DEF Finished, loopVars, LoopTypeOK, States
  <2>2. PhaseInv'
    BY <1>16, MayFail DEF Finished, loopVars, PhaseInv, ReasonMatchesState
  <2>3. ApprovalInv'
    BY <1>16 DEF Finished, loopVars, ApprovalInv, MutationsAreApproved, Running
  <2>4. CountInv'
    BY <1>16 DEF Finished, loopVars, CountInv, LimitsHold, LimitExceeded, LoopTypeOK
  <2>5. VerifyInv'
    BY <1>16 DEF Finished, loopVars, VerifyInv, CompletedIsVerified, CountInv
  <2> QED
    BY <2>1, <2>2, <2>3, <2>4, <2>5
<1>17. CASE UNCHANGED loopVars
  <2>1. LoopTypeOK'
    BY <1>17 DEF loopVars, LoopTypeOK
  <2>2. PhaseInv'
    BY <1>17 DEF loopVars, PhaseInv, ReasonMatchesState
  <2>3. ApprovalInv'
    BY <1>17, Zenon DEF loopVars, ApprovalInv, MutationsAreApproved, Running
  <2>4. CountInv'
    BY <1>17 DEF loopVars, CountInv, LimitsHold
  <2>5. VerifyInv'
    BY <1>17, Zenon DEF loopVars, VerifyInv, CompletedIsVerified
  <2> QED
    BY <2>1, <2>2, <2>3, <2>4, <2>5
<1> QED
  BY <1>1, <1>2, <1>3, <1>4, <1>5, <1>6, <1>7, <1>8, <1>9, <1>10, <1>11, <1>12, <1>13, <1>14, <1>15, <1>16, <1>17 DEF LoopNext, LoopStep

\* Every reachable state satisfies the invariant.
LEMMA LoopInvariant == LoopSpec => []LoopInv
<1>1. LoopInv /\ [LoopNext]_loopVars => LoopInv'
  BY StepInv
<1> QED
  BY InitInv, <1>1, PTL DEF LoopSpec

---------------------------------------------------------------------------
\* The variables of runCodingLoop keep their types.
THEOREM LoopTypeCorrect == LoopSpec => []LoopTypeOK
<1>1. LoopInv => LoopTypeOK
  BY DEF LoopInv
<1> QED
  BY LoopInvariant, <1>1, PTL

\* Whatever options, model and tools do, no file changes without an approval, in
\* a mode that forbids it, in forensic mode, or by a tool outside the allowlist.
THEOREM MutationsApproved == LoopSpec => []MutationsAreApproved
<1>1. LoopInv => MutationsAreApproved
  BY DEF LoopInv, ApprovalInv
<1> QED
  BY LoopInvariant, <1>1, PTL

\* For all limits, no more files are written and no more tools started.
THEOREM LimitsObserved == LoopSpec => []LimitsHold
<1>1. LoopInv => LimitsHold
  BY DEF LoopInv, CountInv
<1> QED
  BY LoopInvariant, <1>1, PTL

\* stoppedReason agrees with the machine the result reports.
THEOREM ReasonAgrees == LoopSpec => []ReasonMatchesState
<1>1. LoopInv => ReasonMatchesState
  BY DEF LoopInv, PhaseInv
<1> QED
  BY LoopInvariant, <1>1, PTL

\* "completed" is only reported of verified and recorded writes.
THEOREM CompletedVerified == LoopSpec => []CompletedIsVerified
<1>1. LoopInv => CompletedIsVerified
  BY DEF LoopInv, VerifyInv
<1> QED
  BY LoopInvariant, <1>1, PTL
=============================================================================
