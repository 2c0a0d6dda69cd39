---------------------------- MODULE BrainSession ----------------------------
(***************************************************************************)
(* The MCP server's brain: BrainMcpSession of src/mcp/brain/session.ts     *)
(* over the snapshot store, whose saves and loads (modelled file by file   *)
(* in BrainStore) are one step here.                                       *)
(*                                                                         *)
(* The server answers requests as they come, so rebuilds and loads overlap.*)
(* A snapshot's id is hashed from the structure of the project and the     *)
(* millisecond of its compilation; the brain's text also tells what the    *)
(* claims had been before, so that no two builds need have the same.       *)
(***************************************************************************)
EXTENDS Naturals

CONSTANTS
  Requests,     \* requests that may be under way at once
  Structures,   \* what the project may look like
  Absent,
  MaxBuilds, MaxChanges, MaxRequests

VARIABLES
  store,        \* the text of each id that is stored, and the latest id
  memory,       \* the session's brain, or Absent
  calls,        \* what each request is at, or Absent
  project,      \* what the project looks like
  spent         \* requests, compilations and changes, and the clock

sessionVars == <<store, memory, calls, project, spent>>

Stored(id) == id \in DOMAIN store.texts
Empty == [texts |-> [id \in {} |-> 0], latest |-> Absent]

\* Nothing stored yet, or what another run of the server stored.
SessionInit ==
  /\ project \in Structures
  /\ store \in {Empty} \cup
       {[texts |-> [id \in {[of |-> s, clock |-> 0]} |-> 0], latest |-> [of |-> s, clock |-> 0]] :
          s \in Structures}
  /\ memory = Absent
  /\ calls = [r \in Requests |-> Absent]
  /\ spent = [requests |-> 0, builds |-> 0, changes |-> 0, clock |-> 0]

At(r, step) == calls[r] # Absent /\ calls[r].at = step
Idle == \A r \in Requests : calls[r] = Absent
Goto(r, step) == calls' = [calls EXCEPT ![r].at = step]
Leave(r) == calls' = [calls EXCEPT ![r] = Absent]

Held(id) == [id |-> id, text |-> store.texts[id]]

\* initialize, before the server takes requests: loadLatest, or else rebuild.
Initialize(r) ==
  /\ memory = Absent /\ Idle
  /\ IF store.latest # Absent
     THEN memory' = Held(store.latest) /\ UNCHANGED calls
     ELSE calls' = [calls EXCEPT ![r] = [at |-> "compile", brain |-> Absent]] /\ UNCHANGED memory
  /\ UNCHANGED <<store, project, spent>>

Begin(r, call) ==
  /\ memory # Absent /\ calls[r] = Absent /\ spent.requests < MaxRequests
  /\ spent' = [spent EXCEPT !.requests = @ + 1]
  /\ calls' = [calls EXCEPT ![r] = call]
  /\ UNCHANGED <<store, memory, project>>

BeginRebuild(r) == Begin(r, [at |-> "compile", brain |-> Absent])
BeginLoad(r) ==
  \E id \in DOMAIN store.texts \cup {Absent} : Begin(r, [at |-> "load", brain |-> [id |-> id, text |-> 0]])

\* compileProjectBrain: later than any compilation before it, or in the same millisecond.
Compile(r) ==
  /\ At(r, "compile") /\ spent.builds < MaxBuilds
  /\ \E tick \in {0, 1} : spent' = [spent EXCEPT !.builds = @ + 1, !.clock = @ + tick]
  /\ calls' = [calls EXCEPT ![r] =
       [at |-> "save",
        brain |-> [id |-> [of |-> project, clock |-> spent'.clock], text |-> spent'.builds]]]
  /\ UNCHANGED <<store, memory, project>>

With(brain) ==
  IF Stored(brain.id) THEN store
  ELSE [texts |-> [id \in DOMAIN store.texts \cup {brain.id} |->
                     IF id = brain.id THEN brain.text ELSE store.texts[id]],
        latest |-> brain.id]

\* saveSnapshot stores a new id and makes it the latest; another text under a stored id
\* is refused, which the session takes for an unchanged structure.
Save(r) ==
  /\ At(r, "save")
  /\ store' = With(calls[r].brain)
  /\ Goto(r, "take")
  /\ UNCHANGED <<memory, project, spent>>

\* ... and then the session takes the brain.
Take(r) ==
  /\ At(r, "take")
  /\ memory' = calls[r].brain
  /\ Leave(r)
  /\ UNCHANGED <<store, project, spent>>

\* loadSnapshot of an id the client chose.
Load(r) ==
  /\ At(r, "load")
  /\ memory' = IF Stored(calls[r].brain.id) THEN Held(calls[r].brain.id) ELSE memory
  /\ Leave(r)
  /\ UNCHANGED <<store, project, spent>>

\* The compilation or the save throws; the request is answered with the error.
Fail(r) ==
  /\ calls[r] # Absent /\ calls[r].at \in {"compile", "save"}
  /\ Leave(r)
  /\ UNCHANGED <<store, memory, project, spent>>

Change ==
  /\ spent.changes < MaxChanges
  /\ spent' = [spent EXCEPT !.changes = @ + 1]
  /\ project' \in Structures \ {project}
  /\ UNCHANGED <<store, memory, calls>>

\* The server is started again.
Restart ==
  /\ memory # Absent
  /\ memory' = Absent
  /\ calls' = [r \in Requests |-> Absent]
  /\ UNCHANGED <<store, project, spent>>

SessionNext ==
  \/ \E r \in Requests :
       \/ Initialize(r) \/ BeginRebuild(r) \/ BeginLoad(r) \/ Compile(r) \/ Save(r)
       \/ Take(r) \/ Load(r) \/ Fail(r)
  \/ Change \/ Restart

SessionSpec == SessionInit /\ [][SessionNext]_sessionVars

---------------------------------------------------------------------------
\* The brain the server answers from is one of the store's under its id, though perhaps
\* in another text, which a later restart brings back; however rebuilds, loads, failures
\* and restarts overlap, its id can be listed, loaded and compared.
BrainIsStored == memory # Absent => Stored(memory.id)
=============================================================================
