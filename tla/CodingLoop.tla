---------------------------- MODULE CodingLoop ----------------------------
(***************************************************************************)
(* runCodingLoop of src/agent/loop.ts: plan, approval, tool calls (a fixed *)
(* list or what a model proposes), verification, ledger entry.             *)
(*                                                                         *)
(* Nothing but the clock runs beside a loop that touches its state, so the *)
(* steps are as small as the code allows; where the code awaits, what      *)
(* comes back (a plan or an exception, a chat answer, a tool's result) is  *)
(* chosen.  An exception goes to the catch block (Raise, Catch).           *)
(***************************************************************************)
EXTENDS AgentTools, Sequences

CONSTANTS
  Options,          \* the options a loop may be started with, see Option
  Proposals,        \* the tools a model may name in one answer, as sequences
  MaxIterations, MaxToolCalls, MaxFilesModified,   \* limits (AgentLimits)
  NoVerification

Option == [approvedByHuman: BOOLEAN, mode: Modes \cup {NoMode}, planGiven: BOOLEAN,
           toolCalls: Seq(KnownTools), useModelLoop: BOOLEAN, verify: BOOLEAN,
           allowedTools: SUBSET KnownTools]

ASSUME LimitsAssumption ==
  MaxIterations \in Nat /\ MaxToolCalls \in Nat /\ MaxFilesModified \in Nat
ASSUME LoopInputAssumption ==
  /\ Options \subseteq Option
  /\ \A proposal \in Proposals : proposal \in Seq(KnownTools \cup {"unknown"})
  /\ NoVerification \notin Nat

VARIABLES
  opts,         \* options
  at,           \* where the code stands
  machine,      \* machine.state
  iterations,
  toolCalls,
  fixed,        \* how many of options.toolCalls were taken
  proposed,     \* tool calls of the last answer still to run
  tool,         \* the call runOne is executing
  changed,      \* filesChanged.length
  late,         \* Date.now() - started > maxWallTimeMs
  verification, \* filesChanged.length when verifyAgentWork reported
  ledger,       \* files named by the ledger entry it tried to append
  reason,       \* stoppedReason, or "rejected" when the promise rejects
  wrote         \* history: files the tools created, edited or deleted

loopVars == <<opts, at, machine, iterations, toolCalls, fixed, proposed, tool, changed,
              late, verification, ledger, reason, wrote>>
counters == <<iterations, toolCalls, fixed, proposed, tool, changed>>
outcome == <<verification, ledger>>

---------------------------------------------------------------------------
\* assertLimits(pendingWrite) throws, given the counters it reads.
\* A slip that a run must notice: the pending write is not counted.
LimitExceeded_NoPending(iters, calls, pendingWrite) ==
  late \/ iters > MaxIterations \/ calls > MaxToolCalls \/ changed > MaxFilesModified

LimitExceeded(iters, calls, pendingWrite) ==
  \/ late
  \/ iters > MaxIterations
  \/ calls > MaxToolCalls
  \/ changed + (IF pendingWrite THEN 1 ELSE 0) > MaxFilesModified

Go(to) == CanTransition(machine, to) /\ machine' = to

\* An exception: the catch block takes over.
Raise(why) ==
  /\ at' = "catch"
  /\ reason' = why
  /\ machine' = IF CanTransition(machine, "FAILED") THEN "FAILED" ELSE machine

\* A call threw: the message is the callee's, and one that reads "... limit
\* exceeded" passes for a limit of the loop.
Throws == \E why \in {"failed", "limit"} : Raise(why)

\* return stop(why, ...)
Stop(why) == at' = "done" /\ reason' = why

\* The execution options runCodingLoop hands to executeAgentTool.
ExecOpts == [mode |-> opts.mode, approvedByHuman |-> TRUE,
             allowWrite |-> TRUE, allowExecute |-> TRUE]

LoopInit ==
  /\ opts \in Options
  /\ at = "start"
  /\ machine = "IDLE"
  /\ iterations = 0 /\ toolCalls = 0 /\ fixed = 0 /\ changed = 0
  /\ proposed = <<>> /\ tool = ""
  /\ late = FALSE
  /\ verification = NoVerification /\ ledger = 0
  /\ reason = ""
  /\ wrote = 0

\* UNDERSTANDING, the first iteration and the first check of the limits.
Begin ==
  /\ at = "start"
  /\ iterations' = 1
  /\ IF LimitExceeded(1, 0, FALSE)
     THEN machine' = "FAILED" /\ at' = "catch" /\ reason' = "limit"
     ELSE machine' = "UNDERSTANDING" /\ at' = "mode" /\ UNCHANGED reason
  /\ UNCHANGED <<opts, toolCalls, fixed, proposed, tool, changed, late, outcome, wrote>>

CheckMode ==
  /\ at = "mode"
  /\ IF ModeAllowsMutation(opts.mode)
     THEN Go("PLANNING") /\ at' = "plan"
     ELSE Go("FAILED") /\ at' = "learn"
  /\ UNCHANGED <<opts, counters, late, outcome, reason, wrote>>

\* mode_forbidden is returned with a plan; buildAgentPlan may throw.
ModeForbidden ==
  /\ at = "learn"
  /\ \/ Stop("mode_forbidden") /\ UNCHANGED machine
     \/ Throws
  /\ UNCHANGED <<opts, counters, late, outcome, wrote>>

\* A slip that a run must notice: the approval flag is not looked at.
Plan_AssumesApproval ==
  /\ at = "plan"
  /\ Go("WAITING_FOR_APPROVAL") /\ at' = "approved" /\ UNCHANGED reason
  /\ UNCHANGED <<opts, counters, late, outcome, wrote>>

Plan ==
  /\ at = "plan"
  /\ \/ /\ Go("WAITING_FOR_APPROVAL")
        /\ IF opts.approvedByHuman
           THEN at' = "approved" /\ UNCHANGED reason
           ELSE Stop("awaiting-approval")
     \/ ~opts.planGiven /\ Throws
  /\ UNCHANGED <<opts, counters, late, outcome, wrote>>

Approved ==
  /\ at = "approved"
  /\ Go("EXECUTING")
  /\ at' = "next"
  /\ UNCHANGED <<opts, counters, late, outcome, reason, wrote>>

\* runOne up to executeAgentTool; the iteration was counted by the caller.
RunOne(name, iters) ==
  IF name \notin opts.allowedTools
  THEN at' = "next" /\ UNCHANGED <<machine, reason, toolCalls, tool>>
  ELSE /\ toolCalls' = toolCalls + 1
       /\ IF LimitExceeded(iters, toolCalls + 1, name \in WriteTools)
          THEN Raise("limit") /\ UNCHANGED tool
          ELSE at' = "tool" /\ tool' = name /\ UNCHANGED <<machine, reason>>

\* The next of options.toolCalls.
NextFixed ==
  /\ at = "next"
  /\ fixed < Len(opts.toolCalls)
  /\ fixed' = fixed + 1
  /\ iterations' = iterations + 1
  /\ LET name == opts.toolCalls[fixed + 1] IN
     IF LimitExceeded(iterations + 1, toolCalls, name \in WriteTools)
     THEN Raise("limit") /\ UNCHANGED <<toolCalls, tool>>
     ELSE RunOne(name, iterations + 1)
  /\ UNCHANGED <<opts, proposed, changed, late, outcome, wrote>>

\* executeAgentTool returned: the gate refused, the tool failed, or it did its
\* work; only writes name a path and an action.
ToolDone ==
  /\ at = "tool"
  /\ \/ UNCHANGED <<changed, wrote>>
     \/ /\ tool \in WriteTools
        /\ Gate(tool, ExecOpts) = ""
        /\ changed' = changed + 1
        /\ wrote' = wrote + 1
  /\ at' = "next"
  /\ tool' = ""
  /\ UNCHANGED <<opts, machine, iterations, toolCalls, fixed, proposed, late, outcome, reason>>

UsesModel == opts.toolCalls = <<>> /\ opts.useModelLoop

\* A slip that a run must notice: an answer costs no iteration.
AskModel_Uncounted ==
  /\ at = "next" /\ UsesModel /\ proposed = <<>>
  /\ iterations < MaxIterations
  /\ IF LimitExceeded(iterations, toolCalls, FALSE)
     THEN Raise("limit")
     ELSE at' = "chat" /\ UNCHANGED <<machine, reason>>
  /\ UNCHANGED <<opts, counters, late, outcome, wrote>>

\* while (iterations < limits.maxIterations)
AskModel ==
  /\ at = "next" /\ UsesModel /\ proposed = <<>>
  /\ iterations < MaxIterations
  /\ iterations' = iterations + 1
  /\ IF LimitExceeded(iterations + 1, toolCalls, FALSE)
     THEN Raise("limit")
     ELSE at' = "chat" /\ UNCHANGED <<machine, reason>>
  /\ UNCHANGED <<opts, toolCalls, fixed, proposed, tool, changed, late, outcome, wrote>>

\* A slip that a run must notice: the machine is left where it is.
ModelAnswers_NoFailed ==
  /\ at = "chat"
  /\ \/ Stop("failed") /\ UNCHANGED <<machine, proposed>>
     \/ at' = "edited" /\ UNCHANGED <<machine, reason, proposed>>
  /\ UNCHANGED <<opts, iterations, toolCalls, fixed, tool, changed, late, outcome, wrote>>

\* provider.chat returned an error, threw, proposed nothing or proposed calls.
ModelAnswers ==
  /\ at = "chat"
  /\ \/ Go("FAILED") /\ Stop("failed") /\ UNCHANGED proposed
     \/ Throws /\ UNCHANGED proposed
     \/ at' = "edited" /\ UNCHANGED <<machine, reason, proposed>>
     \/ /\ proposed' \in Proposals
        /\ at' = "next"
        /\ UNCHANGED <<machine, reason>>
  /\ UNCHANGED <<opts, iterations, toolCalls, fixed, tool, changed, late, outcome, wrote>>

\* The next call of the answer; one that names no tool is skipped.
NextProposed ==
  /\ at = "next" /\ proposed # <<>>
  /\ proposed' = Tail(proposed)
  /\ IF Head(proposed) \in KnownTools
     THEN RunOne(Head(proposed), iterations)
     ELSE UNCHANGED <<at, machine, reason, toolCalls, tool>>
  /\ UNCHANGED <<opts, iterations, fixed, changed, late, outcome, wrote>>

\* Nothing is left to run.
Edited ==
  /\ \/ at = "edited"
     \/ /\ at = "next" /\ proposed = <<>>
        /\ fixed = Len(opts.toolCalls)
        /\ UsesModel => iterations >= MaxIterations
  /\ Go("VERIFYING")
  /\ at' = "verify"
  /\ UNCHANGED <<opts, counters, late, outcome, reason, wrote>>

\* A slip that a run must notice: the check of what changed is inverted.
Verify_Inverted ==
  /\ at = "verify"
  /\ IF opts.verify /\ changed = 0
     THEN \/ verification' = changed /\ at' = "verified" /\ UNCHANGED <<machine, reason>>
          \/ Throws /\ UNCHANGED verification
     ELSE at' = "verified" /\ UNCHANGED <<machine, reason, verification>>
  /\ UNCHANGED <<opts, counters, late, ledger, wrote>>

\* verifyAgentWork (which may throw), or inspect_git_status (which does not).
Verify ==
  /\ at = "verify"
  /\ IF opts.verify /\ changed > 0
     THEN \/ verification' = changed /\ at' = "verified" /\ UNCHANGED <<machine, reason>>
          \/ Throws /\ UNCHANGED verification
     ELSE at' = "verified" /\ UNCHANGED <<machine, reason, verification>>
  /\ UNCHANGED <<opts, counters, late, ledger, wrote>>

\* COMPLETED; the ledger entry is best-effort, its failure is ignored.
Complete ==
  /\ at = "verified"
  /\ Go("COMPLETED")
  /\ ledger' = changed
  /\ Stop("completed")
  /\ UNCHANGED <<opts, counters, late, verification, wrote>>

\* The catch block wants a plan for its result: if buildAgentPlan throws again,
\* the promise itself rejects.
Catch ==
  /\ at = "catch"
  /\ \/ Stop(reason)
     \/ ~opts.planGiven /\ Stop("rejected")
  /\ UNCHANGED <<opts, machine, counters, late, outcome, wrote>>

TimePasses ==
  /\ ~late
  /\ at # "done"
  /\ late' = TRUE
  /\ UNCHANGED <<opts, at, machine, counters, outcome, reason, wrote>>

Finished == at = "done" /\ UNCHANGED loopVars

LoopStep ==
  \/ Begin
  \/ CheckMode
  \/ ModeForbidden
  \/ Plan
  \/ Approved
  \/ NextFixed
  \/ ToolDone
  \/ AskModel
  \/ ModelAnswers
  \/ NextProposed
  \/ Edited
  \/ Verify
  \/ Complete
  \/ Catch

LoopNext == LoopStep \/ TimePasses \/ Finished

LoopSpec == LoopInit /\ [][LoopNext]_loopVars

\* An await of the loop ends: tools and git answer or fail, and a provider call
\* is aborted after its timeout.
FairLoopSpec == LoopSpec /\ WF_loopVars(LoopStep)

---------------------------------------------------------------------------
LoopTypeOK ==
  /\ opts \in Options
  /\ at \in {"start", "mode", "learn", "plan", "approved", "next", "tool", "chat",
            "edited", "verify", "verified", "catch", "done"}
  /\ machine \in States
  /\ iterations \in Nat /\ toolCalls \in Nat /\ fixed \in Nat /\ changed \in Nat
  /\ proposed \in Seq(KnownTools \cup {"unknown"})
  /\ tool \in KnownTools \cup {""}
  /\ late \in BOOLEAN
  /\ verification \in Nat \cup {NoVerification} /\ ledger \in Nat
  /\ reason \in {"", "completed", "awaiting-approval", "limit", "failed",
                "mode_forbidden", "rejected"}
  /\ wrote \in Nat

\* No file changes unless a human approved the loop, its mode allows changes
\* and no forensic mode forbids them, whatever a model proposes; and no tool
\* outside the allowlist of the role starts (runCodingLoop, executeAgentTool).
MutationsAreApproved ==
  /\ wrote > 0 => opts.approvedByHuman /\ ModeAllowsMutation(opts.mode) /\ ~Forensic
  /\ at = "tool" => opts.approvedByHuman /\ tool \in opts.allowedTools

\* maxFilesModified bounds what the tools have written, not only what was
\* counted when the limit was checked, and maxToolCalls the tools that start.
LimitsHold ==
  /\ wrote <= MaxFilesModified
  /\ at = "tool" => toolCalls <= MaxToolCalls

\* stoppedReason and the state of the machine tell the same story, and a loop
\* that stopped for its approval or its mode has changed nothing.
ReasonMatchesState ==
  at = "done" =>
    /\ reason = "completed" <=> machine = "COMPLETED"
    /\ reason = "awaiting-approval" <=> machine = "WAITING_FOR_APPROVAL"
    /\ reason \notin {"completed", "awaiting-approval"} <=> machine = "FAILED"
    /\ reason \in {"awaiting-approval", "mode_forbidden"} => wrote = 0

\* A loop that reports "completed" has verified all it wrote, after the last
\* write (unless verify: false), and tried to record it in the ledger.
CompletedIsVerified ==
  at = "done" /\ reason = "completed" /\ wrote > 0 =>
    ledger = wrote /\ (opts.verify => verification = wrote)

\* Every loop ends: its rounds are bounded by maxIterations.
Terminates == <>(at = "done")

---------------------------------------------------------------------------
(* The instance of MCCodingLoop.cfg.                                             *)

Opt(approved, mode, given, calls, model, verify, allowed) ==
  [approvedByHuman |-> approved, mode |-> mode, planGiven |-> given, toolCalls |-> calls,
   useModelLoop |-> model, verify |-> verify, allowedTools |-> allowed]

MCCalls == {<<>>, <<"create_file", "read_file", "edit_file">>, <<"run_tests">>,
            <<"delete_file", "create_file", "create_file">>}

MCOptions ==
  {Opt(approved, mode, given, calls, TRUE, verify, allowed) :
     approved \in BOOLEAN, mode \in {NoMode, "LEARN", "BUILD_FOR_ME"}, given \in BOOLEAN,
     calls \in MCCalls, verify \in BOOLEAN,
     allowed \in {KnownTools, {"read_file", "edit_file", "run_tests"}}}
  \cup {Opt(TRUE, "AI_AGENT", TRUE, <<>>, FALSE, TRUE, KnownTools)}

MCProposals ==
  {<<"read_file">>, <<"create_file">>, <<"unknown">>, <<"edit_file", "delete_file">>,
   <<"run_command", "unknown", "create_file">>}

\* What StudentSession.build passes: a plan, an approval, no allowlist.
StudentOptions ==
  {Opt(TRUE, "BUILD_WITH_ME", TRUE, calls, model, TRUE, KnownTools) :
     calls \in MCCalls, model \in BOOLEAN}
=============================================================================
