---------------------------- MODULE AgentTools ----------------------------
(***************************************************************************)
(* The tools an agent may call and the gate every call passes:             *)
(* src/agent/tools/registry.ts, the head of executeAgentTool in            *)
(* tools/execute.ts, evaluateApproval in approvals.ts, modeAllowsMutation  *)
(* in modes.ts, and the table of legal states of state.ts.                 *)
(***************************************************************************)
EXTENDS Integers

CONSTANT Forensic   \* AGENTDOCTOR_FORENSIC_MODE=1, or the forensicMode option

ASSUME ForensicAssumption == Forensic \in BOOLEAN

ReadTools ==
  {"read_file", "list_files", "search_code", "find_symbol", "find_references",
   "find_callers", "find_callees", "inspect_project", "inspect_architecture",
   "inspect_dependencies", "inspect_tests", "inspect_findings",
   "inspect_git_status", "inspect_git_diff"}
WriteTools == {"create_file", "edit_file", "delete_file"}
ExecuteTools == {"run_command", "run_tests"}
KnownTools == ReadTools \cup WriteTools \cup ExecuteTools

\* riskForTool: a tool without a specification is CRITICAL.
Risk(tool) ==
  CASE tool \in ReadTools -> "LOW"
    [] tool = "delete_file" -> "HIGH"
    [] tool \in (WriteTools \ {"delete_file"}) \cup ExecuteTools -> "MEDIUM"
    [] OTHER -> "CRITICAL"

\* evaluateApproval never answers "deny".
Decision(tool, approvedByHuman) ==
  IF Risk(tool) = "LOW" \/ approvedByHuman THEN "allow" ELSE "require-approval"

Modes == {"LEARN", "BUILD_WITH_ME", "BUILD_FOR_ME", "DEVELOPER", "AI_AGENT"}
NoMode == "none"

\* modeAllowsMutation: without a mode the approval flags decide.
ModeAllowsMutation(mode) == mode # "LEARN"

\* The error code of the first check of executeAgentTool that refuses the call,
\* "" when the tool itself runs.
Gate(tool, opts) ==
  CASE tool \notin KnownTools -> "unknown_tool"
    [] tool \in ReadTools -> ""
    [] Forensic -> "forensic_read_only"
    [] ~ModeAllowsMutation(opts.mode) -> "mode_forbidden"
    [] Decision(tool, opts.approvedByHuman) # "allow" -> "approval_required"
    [] tool \in WriteTools /\ ~opts.allowWrite -> "not_enabled"
    [] tool \in ExecuteTools /\ ~opts.allowExecute -> "not_enabled"
    [] OTHER -> ""

---------------------------------------------------------------------------
States == {"IDLE", "UNDERSTANDING", "PLANNING", "WAITING_FOR_APPROVAL", "EXECUTING",
           "VERIFYING", "COMPLETED", "FAILED", "CANCELLED"}

\* ALLOWED of state.ts
Allowed ==
  [IDLE |-> {"UNDERSTANDING", "CANCELLED"},
   UNDERSTANDING |-> {"PLANNING", "EXECUTING", "FAILED", "CANCELLED"},
   PLANNING |-> {"WAITING_FOR_APPROVAL", "EXECUTING", "FAILED", "CANCELLED"},
   WAITING_FOR_APPROVAL |-> {"EXECUTING", "CANCELLED", "FAILED"},
   EXECUTING |-> {"VERIFYING", "PLANNING", "EXECUTING", "FAILED", "CANCELLED"},
   VERIFYING |-> {"COMPLETED", "EXECUTING", "FAILED", "CANCELLED"},
   COMPLETED |-> {"IDLE"},
   FAILED |-> {"IDLE"},
   CANCELLED |-> {"IDLE"}]

CanTransition(from, to) == to \in Allowed[from]
=============================================================================
