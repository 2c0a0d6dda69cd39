--------------------------- MODULE McpFileTools ---------------------------
(***************************************************************************)
(* The file_create and file_edit tools of src/mcp/agent/registry.ts over   *)
(* the approval grants and the files of the project: the grant is consumed *)
(* first, then executeAgentTool runs createFileSafe or editFileSafe, each  *)
(* of which looks at the file, awaits, and writes.                         *)
(***************************************************************************)
EXTENDS ApprovalGrants, EditText

CONSTANTS
  Files,        \* the paths the tools write, as in Paths
  Ops,          \* the calls a client may make: [tool, path, content, old]
  InitialDisk,  \* the text of each file at the start, or None
  PlanOf(_, _, _),  \* hashFileWritePlan(action, path, content): injective
  ForensicMode, \* AGENTDOCTOR_FORENSIC_MODE=1
  MaxEdits      \* bound on what other writers do to the files

PlanFor(op) == PlanOf(op.tool, op.path, op.content)

ASSUME ToolAssumption ==
  /\ Files \subseteq Paths
  /\ MaxEdits \in Nat
  /\ \A op \in Ops : op.tool \in Actions /\ op.path \in Files /\ PlanFor(op) \in Plans
  /\ \A op1, op2 \in Ops :
       PlanFor(op1) = PlanFor(op2) =>
         op1.tool = op2.tool /\ op1.path = op2.path /\ op1.content = op2.content

VARIABLES
  disk,     \* the text of each file, or None
  job,      \* the tool call each caller runs, or None
  edits,    \* writes by others (an editor, another process)
  approved  \* history: the calls a human or a trusted host approved

toolVars == <<disk, job, edits, approved>>
mcpVars == <<vars, toolVars>>

Job(op, step) == [op |-> op, step |-> step, before |-> None, after |-> None]

\* The grant request both tools make: oldContent is no part of the plan.
RequestOf(op, token) ==
  [token |-> token, action |-> op.tool, resources |-> {op.path},
   plan |-> PlanFor(op), consume |-> TRUE]

MCPInit ==
  /\ Init
  /\ disk = InitialDisk
  /\ job = [c \in Callers |-> None]
  /\ edits = 0
  /\ approved = {}

\* file_create / file_edit up to consumeApprovalGrant's first await.
CallTool(c, op, token) ==
  /\ ~ForensicMode
  /\ BeginConsume(c, RequestOf(op, token))
  /\ job' = [job EXCEPT ![c] = Job(op, "gate")]
  /\ UNCHANGED <<disk, edits, approved>>

\* The grant was refused (approval_required), or the call threw or died at any
\* point, its grant spent or not (internal).
GateClosed(c) ==
  /\ Refuse(c) \/ Abort(c)
  /\ job' = [job EXCEPT ![c] = None]
  /\ UNCHANGED <<disk, edits, approved>>

StoreStepOf(c) ==
  /\ \/ LoadIssue(c)
     \/ Admit(c)
     \/ Save(c)
     \/ Unlink(c)
     \/ Rename(c)
  /\ UNCHANGED toolVars

\* approval_issue (the host set AGENTDOCTOR_MCP_TRUSTED_APPROVE) for this call.
ApproveCall(c, op, ttl) ==
  /\ BeginIssue(c, [action |-> op.tool, resources |-> {op.path},
                    plan |-> PlanFor(op), ttl |-> ttl])
  /\ approved' = approved \cup {op}
  /\ UNCHANGED <<disk, job, edits>>

At(c, tool, step) ==
  /\ pc[c] = "admitted"
  /\ job[c] # None
  /\ job[c].op.tool = tool
  /\ job[c].step = step

\* The tool call is answered; disk, edits and approved are the caller's to set.
Answer(c) ==
  /\ Return(c)
  /\ job' = [job EXCEPT ![c] = None]

\* createFileSafe: fs.access(abs) found the file (file_exists) ...
CreateRefused(c) ==
  /\ At(c, "file_create", "gate")
  /\ disk[job[c].op.path] # None
  /\ Answer(c)
  /\ UNCHANGED <<disk, edits, approved>>

\* ... or did not,
CreateCheck(c) ==
  /\ At(c, "file_create", "gate")
  /\ disk[job[c].op.path] = None
  /\ job' = [job EXCEPT ![c].step = "write", ![c].after = job[c].op.content]
  /\ UNCHANGED <<vars, disk, edits, approved>>

\* What the call makes of the text it read.
Edited(op, before) == EditFile(before, WholeOrOld(op.content, op.old))

\* A slip that a run must notice: oldContent is not passed on, the whole file is replaced.
EditRead_Whole(c) ==
  /\ At(c, "file_edit", "gate")
  /\ disk[job[c].op.path] # None
  /\ LET before == disk[job[c].op.path] IN
     /\ Edited(job[c].op, before).ok
     /\ job' = [job EXCEPT ![c].step = "write", ![c].before = before, ![c].after = job[c].op.content]
  /\ UNCHANGED <<vars, disk, edits, approved>>

\* editFileSafe read the file and computed the new text, ...
EditRead(c) ==
  /\ At(c, "file_edit", "gate")
  /\ disk[job[c].op.path] # None
  /\ LET before == disk[job[c].op.path]
         result == Edited(job[c].op, before)
     IN /\ result.ok
        /\ job' = [job EXCEPT ![c].step = "write", ![c].before = before,
                              ![c].after = result.text]
  /\ UNCHANGED <<vars, disk, edits, approved>>

\* ... or threw (ENOENT, old_content_mismatch).
EditRefused(c) ==
  /\ At(c, "file_edit", "gate")
  /\ LET before == disk[job[c].op.path] IN
     before # None => ~Edited(job[c].op, before).ok
  /\ Answer(c)
  /\ UNCHANGED <<disk, edits, approved>>

\* atomicWriteTextFile of the new text, whatever the file holds by now.
WriteFile(c) ==
  /\ pc[c] = "admitted"
  /\ job[c] # None
  /\ job[c].step = "write"
  /\ disk' = [disk EXCEPT ![job[c].op.path] = job[c].after]
  /\ Answer(c)
  /\ UNCHANGED <<edits, approved>>

\* Another program creates, changes or deletes a file.
ExternalWrite ==
  /\ edits < MaxEdits
  /\ \E p \in Files, text \in {op.content : op \in Ops} \cup {None} :
       /\ text # disk[p]
       /\ disk' = [disk EXCEPT ![p] = text]
  /\ edits' = edits + 1
  /\ UNCHANGED <<vars, job, approved>>

MCPNext ==
  \/ \E c \in Callers :
       \/ \E op \in Ops, t \in Tokens : CallTool(c, op, t)
       \/ \E op \in Ops, ttl \in Ttls : ApproveCall(c, op, ttl)
       \/ StoreStepOf(c)
       \/ GateClosed(c)
       \/ CreateRefused(c)
       \/ CreateCheck(c)
       \/ EditRead(c)
       \/ EditRefused(c)
       \/ WriteFile(c)
  \/ Tick /\ UNCHANGED toolVars
  \/ ExternalWrite

MCPSpec == MCPInit /\ [][MCPNext]_mcpVars

---------------------------------------------------------------------------
\* A tool call that passed its gate is, up to oldContent, a call somebody
\* approved: same tool, same path, same content (file_create and file_edit).
AdmittedMatchesApproval ==
  \A c \in Callers : job[c] # None /\ pc[c] = "admitted" =>
    \E op \in approved : /\ op.tool = job[c].op.tool
                         /\ op.path = job[c].op.path
                         /\ op.content = job[c].op.content

\* The tools change no file but under an approved call on that file.  A file they create
\* holds the text of the call then, and one they edit what the call makes of the text it
\* read: its content, or that text with its content where its oldContent was.
WritesAreApproved ==
  [][\A f \in Files : disk'[f] # disk[f] /\ edits' = edits =>
       \E c \in Callers, op \in approved :
         /\ pc[c] = "admitted" /\ pc'[c] = "idle"
         /\ op.tool = job[c].op.tool /\ op.path = f /\ op.content = job[c].op.content
         /\ \/ op.tool = "file_create" /\ disk'[f] = op.content
            \/ /\ op.tool = "file_edit" /\ job[c].before # None
               /\ Edited(job[c].op, job[c].before).ok
               /\ disk'[f] = Edited(job[c].op, job[c].before).text]_mcpVars

---------------------------------------------------------------------------
(* The instance of MCMcpFileTools.cfg.                                      *)

FileF == <<"f">>
FileG == <<"g">>
McpTokens == {"t1", "t2"}
McpPaths == {FileF, FileG}
A == <<"a">>
B == <<"b">>
AB == <<"a", LF, "b">>

McpPlanOf(action, path, content) == <<action, path, content>>
McpActions == {"file_create", "file_edit"}
McpPlans == {McpPlanOf(action, path, content) :
              action \in McpActions, path \in McpPaths, content \in {A, B}}

Call(tool, path, content, old) ==
  [tool |-> tool, path |-> path, content |-> content, old |-> old]

McpOps == {Call("file_create", FileG, B, NoArg),
          Call("file_edit", FileF, B, NoArg),
          Call("file_edit", FileF, B, A),
          Call("file_edit", FileG, A, NoArg)}

McpDisk == [f \in McpPaths |-> IF f = FileF THEN AB ELSE None]
McpNoFile == <<>>
=============================================================================
