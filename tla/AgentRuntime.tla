--------------------------- MODULE AgentRuntime ---------------------------
(***************************************************************************)
(* AgentRuntime of src/agent/runtime.ts: one session object, the turns     *)
(* (runTurn) started on it, and cancel().                                  *)
(*                                                                         *)
(* A turn gives up control only while it awaits provider.chat or a tool,   *)
(* so a step here runs from one await to the next; between two steps of a  *)
(* turn the session may be cancelled, reset, or start another turn, which  *)
(* shares the state machine and the counters.                              *)
(***************************************************************************)
EXTENDS AgentTools, Sequences, FiniteSets

CONSTANTS
  Turns,            \* the calls of runTurn, each made once
  TurnOptions,      \* the options they are made with
  Proposals,        \* the tools a model may name in one answer, as sequences
  MaxIterations, MaxToolCalls, MaxFilesModified   \* limits

TurnOption == [approvedByHuman: BOOLEAN, mode: Modes \cup {NoMode}, executeTools: BOOLEAN,
               allowedTools: SUBSET (KnownTools \cup {"unknown"})]

ASSUME RuntimeAssumption ==
  /\ MaxIterations \in Nat /\ MaxToolCalls \in Nat /\ MaxFilesModified \in Nat
  /\ IsFiniteSet(Turns)
  /\ TurnOptions \subseteq TurnOption
  /\ \A proposal \in Proposals : proposal \in Seq(KnownTools \cup {"unknown"})

VARIABLES
  machine,        \* this.machine.state
  cancelled, toolCalls, iterations, filesModified,   \* the session's counters
  late,           \* Date.now() - startedAt > maxWallTimeMs
  at,             \* where each turn stands: "idle", "chat", "tool" or "done"
  opts,           \* its options
  round,
  queue,          \* calls of the last answer not reached yet
  tool,           \* the call being executed
  wrote           \* history: files created, edited or deleted

runtimeVars == <<machine, cancelled, toolCalls, iterations, filesModified, late,
                 at, opts, round, queue, tool, wrote>>

---------------------------------------------------------------------------
\* Slips that a run must notice: one of the checks is missing.
OverLimit_NoCancel(iters, calls, files) ==
  late \/ iters > MaxIterations \/ calls > MaxToolCalls \/ files > MaxFilesModified
OverLimit_NoFiles(iters, calls, files) ==
  cancelled \/ late \/ iters > MaxIterations \/ calls > MaxToolCalls

\* assertWithinLimits throws.
OverLimit(iters, calls, files) ==
  \/ cancelled
  \/ late
  \/ iters > MaxIterations
  \/ calls > MaxToolCalls
  \/ files > MaxFilesModified

InFlight(t) == at[t] \in {"chat", "tool"}

CanMutate(o) == o.approvedByHuman /\ ModeAllowsMutation(o.mode)

\* A slip that a run must notice: canMutate is not looked at.
Denied_Allowlist(o, name) == name \notin o.allowedTools

\* The turn answers the call itself, with an error.
Denied(o, name) ==
  \/ name \notin o.allowedTools
  \/ name \in WriteTools \cup ExecuteTools /\ ~CanMutate(o)

ExecOpts(o) == [mode |-> o.mode, approvedByHuman |-> CanMutate(o),
                allowWrite |-> CanMutate(o), allowExecute |-> CanMutate(o)]

\* How many calls at the head of q the turn answers without running a tool.
DeniedPrefix(o, q) ==
  CHOOSE d \in 0..Len(q) :
    /\ \A i \in 1..d : Denied(o, q[i])
    /\ d < Len(q) => ~Denied(o, q[d + 1])

---------------------------------------------------------------------------
\* The turn returns; m is the machine's state.
End(t, m) ==
  /\ machine' = m
  /\ at' = [at EXCEPT ![t] = "done"]
  /\ tool' = [tool EXCEPT ![t] = ""]
  /\ queue' = [queue EXCEPT ![t] = <<>>]

\* The catch block: FAILED if the machine can go there.
Failing(m) == IF CanTransition(m, "FAILED") THEN "FAILED" ELSE m
Throw(t, m) == End(t, Failing(m))

\* VERIFYING, COMPLETED: illegal, so thrown, unless the machine is EXECUTING.
Finish(t, m) == IF CanTransition(m, "VERIFYING") THEN End(t, "COMPLETED") ELSE Throw(t, m)

\* The head of the while loop, up to provider.chat.
NextRound(t, m, iters, calls, files) ==
  IF round[t] < MaxIterations
  THEN /\ round' = [round EXCEPT ![t] = @ + 1]
       /\ iterations' = iters + 1
       /\ IF OverLimit(iters + 1, calls, files)
          THEN Throw(t, m)
          ELSE /\ at' = [at EXCEPT ![t] = "chat"]
               /\ machine' = m
               /\ tool' = [tool EXCEPT ![t] = ""]
               /\ queue' = [queue EXCEPT ![t] = <<>>]
  ELSE Finish(t, m) /\ iterations' = iters /\ UNCHANGED round

\* The for loop over the calls q that are left, up to the next await: every
\* call counts and is checked, the denied ones too.
RunCalls(t, q, files) ==
  LET d       == DeniedPrefix(opts[t], q)
      checked == IF d = Len(q) THEN d ELSE d + 1
  IN IF checked > 0 /\ OverLimit(iterations, toolCalls + checked, files)
     THEN /\ toolCalls' = IF OverLimit(iterations, toolCalls + 1, files)
                          THEN toolCalls + 1 ELSE MaxToolCalls + 1
          /\ Throw(t, machine)
          /\ UNCHANGED <<round, iterations>>
     ELSE /\ toolCalls' = toolCalls + checked
          /\ IF d = Len(q)
             THEN NextRound(t, machine, iterations, toolCalls + checked, files)
             ELSE /\ at' = [at EXCEPT ![t] = "tool"]
                  /\ tool' = [tool EXCEPT ![t] = q[d + 1]]
                  /\ queue' = [queue EXCEPT ![t] = SubSeq(q, d + 2, Len(q))]
                  /\ UNCHANGED <<machine, round, iterations>>

RuntimeInit ==
  /\ machine = "IDLE"
  /\ cancelled = FALSE
  /\ toolCalls = 0 /\ iterations = 0 /\ filesModified = 0 /\ wrote = 0
  /\ late = FALSE
  /\ at = [t \in Turns |-> "idle"]
  /\ opts \in [Turns -> TurnOptions]
  /\ round = [t \in Turns |-> 0]
  /\ queue = [t \in Turns |-> <<>>]
  /\ tool = [t \in Turns |-> ""]

\* runTurn when the machine cannot go to UNDERSTANDING: the illegal transition
\* throws, and the catch block fails whatever turn is running.
TurnRejected(t) ==
  /\ at[t] = "idle"
  /\ ~CanTransition(machine, "UNDERSTANDING")
  /\ Throw(t, machine)
  /\ UNCHANGED <<cancelled, toolCalls, iterations, filesModified, late, opts, round, wrote>>

\* runTurn up to the first provider.chat.  providerNone: provider.id is "none".
StartTurn(t, providerNone) ==
  /\ at[t] = "idle"
  /\ CanTransition(machine, "UNDERSTANDING")
  /\ IF OverLimit(iterations + 1, toolCalls, filesModified) \/ providerNone
     THEN /\ iterations' = iterations + 1
          /\ End(t, "FAILED")
          /\ UNCHANGED round
     ELSE NextRound(t, "EXECUTING", iterations + 1, toolCalls, filesModified)
  /\ UNCHANGED <<cancelled, toolCalls, filesModified, late, opts, wrote>>

\* provider.chat returned an error, or threw.
ChatFails(t) ==
  /\ at[t] = "chat"
  /\ Throw(t, machine)
  /\ UNCHANGED <<cancelled, toolCalls, iterations, filesModified, late, opts, round, wrote>>

\* The answer proposes no tools, or the turn runs none.
ChatEnds(t) ==
  /\ at[t] = "chat"
  /\ Finish(t, machine)
  /\ UNCHANGED <<cancelled, toolCalls, iterations, filesModified, late, opts, round, wrote>>

ChatProposes(t, proposal) ==
  /\ at[t] = "chat"
  /\ opts[t].executeTools
  /\ RunCalls(t, proposal, filesModified)
  /\ UNCHANGED <<cancelled, filesModified, late, opts, wrote>>

\* A slip that a run must notice: a cancelled turn is not resumed.
ToolReturns_Dropped(t) ==
  /\ at[t] = "tool" /\ ~cancelled
  /\ RunCalls(t, queue[t], filesModified)
  /\ UNCHANGED <<cancelled, filesModified, late, opts, wrote>>

\* executeAgentTool returned without having changed a file it names.
ToolReturns(t) ==
  /\ at[t] = "tool"
  /\ RunCalls(t, queue[t], filesModified)
  /\ UNCHANGED <<cancelled, filesModified, late, opts, wrote>>

\* It did: the file is counted, and the limit is checked now.
ToolWrote(t) ==
  /\ at[t] = "tool"
  /\ tool[t] \in WriteTools
  /\ Gate(tool[t], ExecOpts(opts[t])) = ""
  /\ filesModified' = filesModified + 1
  /\ wrote' = wrote + 1
  /\ IF OverLimit(iterations, toolCalls, filesModified + 1)
     THEN Throw(t, machine) /\ UNCHANGED <<toolCalls, round, iterations>>
     ELSE RunCalls(t, queue[t], filesModified + 1)
  /\ UNCHANGED <<cancelled, late, opts>>

Cancel ==
  /\ ~cancelled
  /\ cancelled' = TRUE
  /\ machine' = IF CanTransition(machine, "CANCELLED") THEN "CANCELLED" ELSE machine
  /\ UNCHANGED <<toolCalls, iterations, filesModified, late, at, opts, round, queue, tool, wrote>>

\* The host calls machine.reset() to run another turn.
Reset ==
  /\ machine # "IDLE"
  /\ machine' = "IDLE"
  /\ UNCHANGED <<cancelled, toolCalls, iterations, filesModified, late, at, opts, round,
                 queue, tool, wrote>>

TimePasses ==
  /\ ~late
  /\ late' = TRUE
  /\ UNCHANGED <<machine, cancelled, toolCalls, iterations, filesModified, at, opts, round,
                 queue, tool, wrote>>

Awaited(t) ==
  \/ ChatFails(t)
  \/ ChatEnds(t)
  \/ \E proposal \in Proposals : ChatProposes(t, proposal)
  \/ ToolReturns(t)
  \/ ToolWrote(t)

RuntimeNext ==
  \/ \E t \in Turns : TurnRejected(t) \/ Awaited(t)
  \/ \E t \in Turns, providerNone \in BOOLEAN : StartTurn(t, providerNone)
  \/ Cancel
  \/ Reset
  \/ TimePasses

RuntimeSpec == RuntimeInit /\ [][RuntimeNext]_runtimeVars

\* What a turn awaits comes back: providers and commands have timeouts.
FairRuntimeSpec == RuntimeSpec /\ \A t \in Turns : WF_runtimeVars(Awaited(t))

---------------------------------------------------------------------------
\* A tool call starts in this step.
Starts(t) == at'[t] = "tool" /\ (at[t] # "tool" \/ queue'[t] # queue[t])

\* cancel() takes effect at the next await, in every turn: no tool starts after it.
NoToolAfterCancel == [][\A t \in Turns : Starts(t) => ~cancelled]_runtimeVars

\* A write or execute tool only starts in a turn that a human approved, in a
\* mode that allows it, whoever shares the session (runTurn, executeAgentTool).
MutatingToolsApproved ==
  \A t \in Turns : at[t] = "tool" /\ tool[t] \in WriteTools \cup ExecuteTools =>
    /\ opts[t].approvedByHuman /\ ModeAllowsMutation(opts[t].mode)
    /\ tool[t] \in opts[t].allowedTools

\* Past maxFilesModified a turn stops at once, so a session overshoots by at
\* most one file for every turn that was in a tool.
FilesNearlyCapped == wrote <= MaxFilesModified + Cardinality(Turns)

\* Every turn that started ends, cancelled or not.
TurnsEnd == \A t \in Turns : InFlight(t) ~> at[t] = "done"

---------------------------------------------------------------------------
(* The instance of MCAgentRuntime.cfg.                                             *)

Opt(approved, mode, execute, allowed) ==
  [approvedByHuman |-> approved, mode |-> mode, executeTools |-> execute,
   allowedTools |-> allowed]

Everything == KnownTools \cup {"unknown"}

MCTurnOptions ==
  {Opt(TRUE, NoMode, TRUE, Everything),
   Opt(FALSE, NoMode, TRUE, Everything),
   Opt(TRUE, "LEARN", TRUE, Everything),
   Opt(TRUE, "DEVELOPER", TRUE, {"read_file", "edit_file"}),
   Opt(FALSE, NoMode, FALSE, {})}

MCProposals ==
  {<<"edit_file">>, <<"unknown">>, <<"create_file", "run_tests", "edit_file">>,
   <<"run_command", "run_command", "read_file">>}
=============================================================================
