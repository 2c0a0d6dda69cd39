------------------------------ MODULE AuditLog ------------------------------
(***************************************************************************)
(* What audit/execution.jsonl promises, the "append-only tamper-evident   *)
(* audit chain" of src/enforcement/runner.ts: lines are only added, each   *)
(* names an earlier one or none, and who was told that a command was       *)
(* blocked or executed finds a line that says so, unless it was merged     *)
(* with the torn one before it.                                            *)
(***************************************************************************)
EXTENDS Naturals, Sequences

CONSTANTS Ids, Recorded, Torn, None

VARIABLES log, answered

logVars == <<log, answered>>

Names(previous) ==
  previous = None \/ \E i \in DOMAIN log : log[i] # Torn /\ log[i].id = previous

LogInit == log = <<>> /\ answered = {}

\* A call records what happened and answers so.
Record(line) ==
  /\ line.id \in Ids /\ line.status \in Recorded /\ Names(line.previous)
  /\ log' = Append(log, line)
  /\ answered' = answered \cup {[id |-> line.id, status |-> line.status]}

\* A dying call leaves half a line.
Tear == log' = Append(log, Torn) /\ UNCHANGED answered

\* The line after it is lost with it.
Merge(id, status) ==
  /\ log # <<>> /\ log[Len(log)] = Torn
  /\ answered' = answered \cup {[id |-> id, status |-> status]}
  /\ UNCHANGED log

\* A call that did nothing records nothing.
Decline(id) ==
  /\ answered' = answered \cup {[id |-> id, status |-> "not-executed"]}
  /\ UNCHANGED log

LogNext ==
  \/ \E id \in Ids, status \in Recorded, last \in BOOLEAN, previous \in Ids \cup {None} :
       Record([id |-> id, status |-> status, previous |-> previous, last |-> last])
  \/ Tear
  \/ \E id \in Ids, status \in Recorded : Merge(id, status)
  \/ \E id \in Ids : Decline(id)

LogSpec == LogInit /\ [][LogNext]_logVars
=============================================================================
