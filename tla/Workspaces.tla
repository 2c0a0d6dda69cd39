----------------------------- MODULE Workspaces -----------------------------
(***************************************************************************)
(* Workspaces of several repositories: initWorkspace, loadWorkspace,       *)
(* addRepositoryToWorkspace, removeWorkspace, workspaceStatus,             *)
(* assertWorkspacePathAccess and readFileWithinWorkspace of                *)
(* src/workspace/index.ts.                                                 *)
(*                                                                         *)
(* An addition loads the workspace and writes it back whole; a read is     *)
(* judged by a workspace loaded earlier.  Roots may lie within each other. *)
(***************************************************************************)
EXTENDS Naturals, FiniteSets

CONSTANTS
  Callers,
  Roots,        \* repository roots
  Enclosing,    \* Enclosing[r]: the roots that r lies in, itself included
  Absent,
  MaxCalls

VARIABLES
  workspace,    \* the workspace's file
  calls,        \* what each caller's call is at, or Absent
  joined,       \* (history) roots whose addition was answered, of this workspace
  begun         \* how many calls have begun

workspaceVars == <<workspace, calls, joined, begun>>

WorkspaceInit ==
  /\ workspace = Absent
  /\ calls = [c \in Callers |-> Absent]
  /\ joined = {}
  /\ begun = 0

At(c, step) == calls[c] # Absent /\ calls[c].at = step
Goto(c, step) == calls' = [calls EXCEPT ![c].at = step]
Leave(c) == calls' = [calls EXCEPT ![c] = Absent]

\* raced (history): another call wrote or removed the workspace since this one began.
Raced(c) ==
  [d \in Callers |-> IF d = c \/ calls[d] = Absent THEN calls[d]
                     ELSE [calls[d] EXCEPT !.raced = TRUE]]

Begin(c, kind, root, target, crossRead) ==
  /\ calls[c] = Absent /\ begun < MaxCalls
  /\ begun' = begun + 1
  /\ calls' = [calls EXCEPT ![c] =
       [at |-> kind, root |-> root, target |-> target, crossRead |-> crossRead,
        held |-> Absent, raced |-> FALSE]]
  /\ UNCHANGED <<workspace, joined>>

BeginInit(c) == \E r \in Roots, b \in BOOLEAN : Begin(c, "exists", r, r, b)
BeginAdd(c) == \E r \in Roots : Begin(c, "load", r, r, FALSE)
BeginRead(c) == \E r, t \in Roots : Begin(c, "enter", r, t, FALSE)

\* initWorkspace refuses a name that exists, ...
Exists(c) ==
  /\ At(c, "exists")
  /\ IF workspace = Absent THEN Goto(c, "create") ELSE Leave(c)
  /\ UNCHANGED <<workspace, joined, begun>>

\* ... and writes an await later.
Create(c) ==
  /\ At(c, "create")
  /\ workspace' = [members |-> {calls[c].root}, crossRead |-> calls[c].crossRead]
  /\ joined' = {calls[c].root}
  /\ calls' = [Raced(c) EXCEPT ![c] = Absent]
  /\ UNCHANGED begun

\* addRepositoryToWorkspace: an unknown workspace throws, a member is left alone.
Load(c) ==
  /\ At(c, "load")
  /\ IF workspace = Absent \/ calls[c].root \in workspace.members THEN Leave(c)
     ELSE calls' = [calls EXCEPT ![c].at = "write", ![c].held = workspace]
  /\ UNCHANGED <<workspace, joined, begun>>

Joining(held, root) == [held EXCEPT !.members = @ \cup {root}]

Write(c) ==
  /\ At(c, "write")
  /\ workspace' = Joining(calls[c].held, calls[c].root)
  /\ joined' = IF calls[c].raced THEN workspace'.members ELSE joined \cup {calls[c].root}
  /\ calls' = [Raced(c) EXCEPT ![c] = Absent]
  /\ UNCHANGED begun

\* removeWorkspace
Remove ==
  /\ workspace # Absent
  /\ workspace' = Absent
  /\ joined' = {}
  /\ calls' = [d \in Callers |-> IF calls[d] = Absent THEN Absent ELSE [calls[d] EXCEPT !.raced = TRUE]]
  /\ UNCHANGED begun

\* The caller loads the workspace, or has none, and asks for a path later.
Enter(c) ==
  /\ At(c, "enter")
  /\ \E held \in {workspace, Absent} :
       calls' = [calls EXCEPT ![c].at = "access", ![c].held = held]
  /\ UNCHANGED <<workspace, joined, begun>>

\* assertWorkspacePathAccess, for a path right under target: within the operation's own
\* root, or both under members of one workspace that lets its members read each other.
Allowed(held, root, target) ==
  \/ root \in Enclosing[target]
  \/ /\ held # Absent /\ root \in held.members
     /\ Enclosing[target] \cap held.members # {}
     /\ held.crossRead

\* readFileWithinWorkspace
Access(c) ==
  /\ At(c, "access")
  /\ Goto(c, IF Allowed(calls[c].held, calls[c].root, calls[c].target) THEN "given" ELSE "denied")
  /\ UNCHANGED <<workspace, joined, begun>>

Answer(c) ==
  /\ calls[c] # Absent /\ calls[c].at \in {"given", "denied"}
  /\ Leave(c)
  /\ UNCHANGED <<workspace, joined, begun>>

WorkspaceNext ==
  \/ \E c \in Callers :
       \/ BeginInit(c) \/ BeginAdd(c) \/ BeginRead(c) \/ Exists(c) \/ Create(c) \/ Load(c)
       \/ Write(c) \/ Enter(c) \/ Access(c) \/ Answer(c)
  \/ Remove

WorkspaceSpec == WorkspaceInit /\ [][WorkspaceNext]_workspaceVars

---------------------------------------------------------------------------
\* Every repository whose addition was answered is a member, unless that addition or a
\* later one was overlapped by another write or by the removal: then what it wrote stands.
AddedAreMembers == workspace # Absent => joined \subseteq workspace.members
=============================================================================
