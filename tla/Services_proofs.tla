-------------------------- MODULE Services_proofs --------------------------
(***************************************************************************)
(* The safety properties of the services, for every set of callers, every  *)
(* limit and all contents.  Each service has an invariant of its own: what *)
(* a call holds at each of its awaits, and how far that is still true of   *)
(* what others may have written since.                                     *)
(***************************************************************************)
EXTENDS Services, WellFoundedInduction, SequenceTheorems, TLAPS

---------------------------------------------------------------------------
(* Calls, and sets of numbers *)

\* calls is a function, of which a step sets one call.
IsCalls == calls = [c \in Callers |-> calls[c]]
\* When a step sets one call, the others are where they were.
LEMMA OneCallMoves ==
  ASSUME IsCalls, NEW c \in Callers, NEW new, calls' = [calls EXCEPT ![c] = new]
  PROVE /\ IsCalls'
        /\ calls'[c] = new
        /\ \A d \in Callers : d # c => calls'[d] = calls[d]
BY DEF IsCalls

\* A set of naturals has a least element; what follows from it takes the place of induction.
LEMMA Least ==
  ASSUME NEW T, T \subseteq Nat, T # {}
  PROVE \E n \in T : \A m \in T : n <= m
<1>1. IsWellFoundedOn(OpToRel(<, Nat), Nat) BY NatLessThanWellFounded
<1>2. \E x \in T : \A y \in T : ~(<<y, x>> \in OpToRel(<, Nat)) BY <1>1, WFMin, Zenon
<1>3. \A p, q \in Nat : p < q => <<p, q>> \in OpToRel(<, Nat) BY DEF OpToRel
<1>4. PICK n \in T : \A y \in T : ~(<<y, n>> \in OpToRel(<, Nat)) BY <1>2
<1>5. \A m \in T : ~(m < n) BY <1>3, <1>4, Zenon
<1>q. QED BY <1>5

\* A bounded part of a set of naturals has a greatest element.
LEMMA Greatest ==
  ASSUME NEW bound \in Nat, NEW T, T \subseteq 0..bound, T # {}
  PROVE \E n \in T : \A m \in T : m <= n
<1> DEFINE U == {k \in 0..bound : bound - k \in T}
<1>1. PICK t \in T : TRUE OBVIOUS
<1>2. bound - t \in U /\ U \subseteq Nat BY <1>1
<1>3. PICK k \in U : \A m \in U : k <= m
  <2> HIDE DEF U
  <2>q. QED BY <1>2, Least
<1>4. ASSUME NEW m \in T PROVE m <= bound - k
  <2>1. m \in Nat /\ m <= bound /\ k \in Nat /\ bound - m \in U BY <1>3
  <2> HIDE DEF U
  <2>2. k <= bound - m BY <2>1, <1>3
  <2>q. QED BY <2>1, <2>2
<1>q. QED BY <1>3, <1>4

---------------------------------------------------------------------------
(* The digital twin: updateTwin *)

TwinCalls ==
  [at : {"load", "look", "remove", "build", "save", "answer"}, key : TwinKeys, force : BOOLEAN,
   found : BOOLEAN, twin : {Absent} \cup Twin!Stored, since : 0..MaxTrees]

\* The twin of a call: it is for the call's key, and new enough unless the call may take one
\* that is stored.
TwinIsRight(call) ==
  /\ call.twin.key = call.key /\ call.twin.rules = "current" /\ call.twin.home
  /\ call.twin.built >= call.since \/ ~call.force
TwinCallOK(call, tree) ==
  /\ call \in TwinCalls
  /\ call.since <= tree
  /\ call.at = "load" => ~call.force
  /\ call.at \in {"save", "answer"} => TwinIsRight(call)
TwinInv ==
  /\ IsCalls
  /\ disk \in {Absent} \cup Twin!Stored
  /\ world \in 0..MaxTrees
  /\ \A c \in Callers : calls[c] = Absent \/ TwinCallOK(calls[c], world)

\* A snapshot of an earlier run, or none, is a start.
LEMMA TwinStarts == Twin!TwinInit => TwinInv
<1> SUFFICES ASSUME Twin!TwinInit PROVE TwinInv OBVIOUS
<1>0. 0 \in 0..MaxTrees BY BoundsAreNaturals
<1>1. disk \in {Absent} \cup Twin!Stored
  <2>1. CASE disk = Absent BY <2>1
  <2>2. CASE disk \in [key : TwinKeys, rules : {"older"}, home : {TRUE}, built : {0}] BY <2>2, <1>0 DEF Twin!Stored
  <2>3. CASE disk \in [key : TwinKeys, rules : {"current"}, home : {FALSE}, built : {0}] BY <2>3, <1>0 DEF Twin!Stored
  <2>q. QED BY <2>1, <2>2, <2>3 DEF Twin!TwinInit, Twin!EarlierSnapshots
<1>q. QED BY <1>0, <1>1 DEF Twin!TwinInit, TwinInv, IsCalls

\* What one call does is its own affair but for the snapshot, which the others only copy.
LEMMA TwinSteps ==
  ASSUME TwinInv, Twin!TwinNext
  PROVE TwinInv'
<1> USE BoundsAreNaturals
<1>1. ASSUME NEW c \in Callers, NEW new, calls' = [calls EXCEPT ![c] = new], new = Absent \/ TwinCallOK(new, world'),
             disk' \in {Absent} \cup Twin!Stored, world' = world
      PROVE TwinInv'
  BY <1>1, OneCallMoves DEF TwinInv
<1>2. ASSUME NEW c \in Callers, calls[c] # Absent PROVE TwinCallOK(calls[c], world) BY <1>2 DEF TwinInv
<1>3. disk \in {Absent} \cup Twin!Stored /\ world \in 0..MaxTrees BY DEF TwinInv
<1>4. ASSUME NEW c \in Callers, Twin!Begin(c) PROVE TwinInv'
  <2>1. PICK key \in TwinKeys, force \in BOOLEAN : calls' = [calls EXCEPT ![c] =
         [at |-> IF force THEN "look" ELSE "load", key |-> key, force |-> force,
          found |-> FALSE, twin |-> Absent, since |-> world]] BY <1>4 DEF Twin!Begin
  <2>2. TwinCallOK([at |-> IF force THEN "look" ELSE "load", key |-> key, force |-> force,
          found |-> FALSE, twin |-> Absent, since |-> world], world) BY <1>3 DEF TwinCallOK, TwinCalls
  <2>q. QED BY <2>1, <2>2, <1>1, <1>3, <1>4 DEF Twin!Begin
<1>5. ASSUME NEW c \in Callers, Twin!Load(c) PROVE TwinInv'
  <2>1. TwinCallOK(calls[c], world) BY <1>2, <1>5 DEF Twin!Load
  <2>2. CASE Twin!Serves(calls[c].key)
    <3>1. TwinCallOK([calls[c] EXCEPT !.at = "answer", !.twin = disk], world)
      BY <2>1, <2>2, <1>3, <1>5 DEF Twin!Load, Twin!Serves, Twin!Loadable, TwinCallOK, TwinIsRight, TwinCalls
    <3>q. QED BY <3>1, <2>2, <1>1, <1>3, <1>5 DEF Twin!Load
  <2>3. CASE ~Twin!Serves(calls[c].key)
    <3>1. TwinCallOK([calls[c] EXCEPT !.at = "look"], world) BY <2>1 DEF TwinCallOK, TwinCalls
    <3>q. QED BY <3>1, <2>3, <1>1, <1>3, <1>5 DEF Twin!Load
  <2>q. QED BY <2>2, <2>3
<1>6. ASSUME NEW c \in Callers, Twin!Look(c) PROVE TwinInv'
  <2>1. PICK found \in BOOLEAN : calls' = [calls EXCEPT ![c].at = "remove", ![c].found = found]
    BY <1>6, Zenon DEF Twin!Look
  <2>2. TwinCallOK([calls[c] EXCEPT !.at = "remove", !.found = found], world)
    BY <1>2, <1>6 DEF Twin!Look, TwinCallOK, TwinCalls
  <2>3. UNCHANGED <<disk, world>> BY <1>6 DEF Twin!Look
  <2>q. QED BY <2>1, <2>2, <2>3, <1>1, <1>3
<1>7. ASSUME NEW c \in Callers, Twin!Remove(c) PROVE TwinInv'
  <2>1. TwinCallOK([calls[c] EXCEPT !.at = "build"], world)
    BY <1>2, <1>7 DEF Twin!Remove, Twin!Move, TwinCallOK, TwinCalls
  <2>q. QED BY <2>1, <1>1, <1>3, <1>7 DEF Twin!Remove, Twin!Move
<1>8. ASSUME NEW c \in Callers, Twin!Build(c) PROVE TwinInv'
  <2> DEFINE twin == [key |-> calls[c].key, rules |-> "current", home |-> TRUE, built |-> world]
  <2>0. TwinCallOK(calls[c], world) BY <1>2, <1>8 DEF Twin!Build
  <2>1. twin \in Twin!Stored BY <2>0, <1>3 DEF TwinCallOK, TwinCalls, Twin!Stored
  <2>2. TwinCallOK([calls[c] EXCEPT !.at = "save", !.twin = twin], world)
    BY <2>0, <2>1, <1>3 DEF TwinCallOK, TwinIsRight, TwinCalls
  <2>q. QED BY <2>2, <1>1, <1>3, <1>8 DEF Twin!Build
<1>9. ASSUME NEW c \in Callers, Twin!Save(c) PROVE TwinInv'
  <2>0. TwinCallOK(calls[c], world) BY <1>2, <1>9 DEF Twin!Save, Twin!Move
  <2>1. TwinCallOK([calls[c] EXCEPT !.at = "answer"], world)
    BY <2>0, <1>9 DEF Twin!Save, Twin!Move, TwinCallOK, TwinIsRight, TwinCalls
  <2>2. disk' \in {Absent} \cup Twin!Stored BY <2>0, <1>9 DEF Twin!Save, TwinCallOK, TwinCalls
  <2>q. QED BY <2>1, <2>2, <1>1, <1>9 DEF Twin!Save, Twin!Move
<1>10. ASSUME NEW c \in Callers, Twin!Answer(c) \/ Twin!Abort(c) PROVE TwinInv'
  BY <1>10, <1>1, <1>3 DEF Twin!Answer, Twin!Abort
<1>11. ASSUME Twin!Change PROVE TwinInv'
  <2>1. world' \in 0..MaxTrees /\ world <= world' BY <1>11, <1>3 DEF Twin!Change
  <2>2. ASSUME NEW call, TwinCallOK(call, world) PROVE TwinCallOK(call, world') BY <2>1, <2>2, <1>3 DEF TwinCallOK, TwinCalls
  <2>q. QED BY <2>1, <2>2, <1>11 DEF Twin!Change, TwinInv, IsCalls
<1>q. QED BY <1>4, <1>5, <1>6, <1>7, <1>8, <1>9, <1>10, <1>11 DEF Twin!TwinNext

\* What updateTwin answers is its key's, and fresh unless the call may take a stored one.
LEMMA TwinAnswers == TwinInv => Twin!TwinFreshOrKeyed
BY DEF TwinInv, TwinCallOK, TwinIsRight, Twin!TwinFreshOrKeyed

---------------------------------------------------------------------------
(* The graph index: graphBuild, graphUpdate and graphStatus *)

GraphFiles == [Graph!SourceFiles -> Contents \cup {Absent}]
GraphIndexes ==
  [state : {"valid", "missing", "corrupt", "older"}, graph : GraphFiles \cup {Absent}, hashes : GraphFiles \cup {Absent}]
GraphCalls ==
  [at : {"load", "compare", "build", "hash", "persist", "answer"}, kind : {"build", "update", "status"},
   loaded : GraphIndexes \cup {Absent}, graph : GraphFiles \cup {Absent}, answer : GraphIndexes \cup {Absent}, rest : BOOLEAN]

\* What is told of the files is one content each, or none.
LEMMA SeenFiles == ASSUME NEW texts \in GraphFiles PROVE Graph!Seen(texts) \in GraphFiles
BY DEF Graph!Seen, GraphFiles

\* A graph and the hashes stored with it are of the same contents, but for the files that slipped.
Matched(built, slipped) == \A f \in Graph!SourceFiles : built.graph[f] = built.hashes[f] \/ f \in slipped

\* A call that nothing has changed under has built the files as they are, or was told that
\* their hashes are and that git has nothing to report.
CaughtUp(answer, texts, head, slipped) ==
  \A f \in Graph!SourceFiles :
    \/ answer.graph[f] = Graph!Seen(texts)[f]
    \/ /\ f \in slipped /\ answer.hashes[f] = Graph!Seen(texts)[f]
       /\ head # Absent /\ f \notin Unreported => head[f] = texts[f]
GraphCallOK(call, texts, head, slipped) ==
  /\ call \in GraphCalls
  /\ call.at \in {"load", "compare"} => call.kind # "build"
  /\ call.at = "compare" => call.loaded \in GraphIndexes /\ Matched(call.loaded, slipped)
  /\ call.at = "hash" => \A f \in Graph!SourceFiles : call.graph[f] = Graph!Seen(texts)[f] \/ f \in slipped
  /\ call.at = "persist" => call.answer \in GraphIndexes /\ Matched(call.answer, slipped)
  /\ call.rest =>
       /\ call.at = "hash" => call.graph = Graph!Seen(texts)
       /\ call.at = "persist" => call.answer.graph = Graph!Seen(texts)
       /\ call.at = "answer" /\ call.kind # "status" => CaughtUp(call.answer, texts, head, slipped)
GraphInv ==
  /\ IsCalls
  /\ disk \in GraphIndexes /\ world \in GraphFiles
  /\ disk.state = "valid" => Matched(disk, spent.slipped)
  /\ spent = [calls |-> spent.calls, edits |-> spent.edits, slipped |-> spent.slipped]
  /\ \A c \in Callers : calls[c] = Absent \/ GraphCallOK(calls[c], world, past, spent.slipped)

\* An index of an earlier run, or none, is a start.
LEMMA GraphStarts == Graph!GraphInit => GraphInv
BY DEF Graph!GraphInit, Graph!Unusable, GraphInv, IsCalls, GraphIndexes, GraphFiles

\* A call that was not raced by an edit holds what the files are; an edit unsettles them all.
LEMMA GraphSteps ==
  ASSUME GraphInv, Graph!GraphNext
  PROVE GraphInv'
<1> DEFINE slipped == spent.slipped
<1>1. ASSUME NEW c \in Callers, NEW new, calls' = [calls EXCEPT ![c] = new],
             new = Absent \/ GraphCallOK(new, world, past, slipped),
             disk' \in GraphIndexes, disk'.state = "valid" => Matched(disk', slipped), UNCHANGED <<world, past>>,
             spent' = spent \/ spent' = [spent EXCEPT !.calls = @ + 1]
      PROVE GraphInv'
  <2>1. /\ spent'.slipped = slipped
        /\ spent' = [calls |-> spent'.calls, edits |-> spent'.edits, slipped |-> spent'.slipped]
    BY <1>1 DEF GraphInv
  <2> HIDE DEF slipped
  <2>2. ASSUME NEW d \in Callers PROVE calls'[d] = Absent \/ GraphCallOK(calls'[d], world', past', spent'.slipped)
    <3>1. calls'[d] = Absent \/ GraphCallOK(calls'[d], world, past, slipped)
      BY <1>1, OneCallMoves DEF GraphInv, slipped
    <3>q. QED BY <3>1, <2>1, <1>1
  <2>q. QED BY <2>1, <2>2, <1>1, OneCallMoves DEF GraphInv
<1>2. ASSUME NEW c \in Callers, calls[c] # Absent PROVE GraphCallOK(calls[c], world, past, slipped) BY <1>2 DEF GraphInv
<1>3. disk \in GraphIndexes /\ world \in GraphFiles /\ (disk.state = "valid" => Matched(disk, slipped)) BY DEF GraphInv
<1>0. Graph!Seen(world) \in GraphFiles BY <1>3, SeenFiles
<1> HIDE DEF slipped
<1>4. ASSUME NEW c \in Callers, NEW kind \in {"build", "update", "status"}, NEW first \in {"build", "load"},
             Graph!Begin(c, kind, first), kind = "build" => first = "build"
      PROVE GraphInv'
  <2> DEFINE new == [at |-> first, kind |-> kind, loaded |-> Absent, graph |-> Absent, answer |-> Absent, rest |-> TRUE]
  <2>1. GraphCallOK(new, world, past, slipped) BY <1>4 DEF GraphCallOK, GraphCalls
  <2>2. calls' = [calls EXCEPT ![c] = new] /\ UNCHANGED <<disk, world, past>> /\ spent' = [spent EXCEPT !.calls = @ + 1]
    BY <1>4 DEF Graph!Begin
  <2> HIDE DEF new
  <2>q. QED BY <2>1, <2>2, <1>1, <1>3
<1>5. ASSUME NEW c \in Callers, Graph!Load(c) PROVE GraphInv'
  <2>1. GraphCallOK(calls[c], world, past, slipped) /\ calls[c].at = "load" BY <1>2, <1>5 DEF Graph!Load, Graph!At
  <2>0. UNCHANGED <<disk, world, past, spent>> BY <1>5 DEF Graph!Load
  <2>2. CASE disk.state = "valid"
    <3>1. GraphCallOK([calls[c] EXCEPT !.at = "compare", !.loaded = disk], world, past, slipped)
      BY <2>1, <2>2, <1>3 DEF GraphCallOK, GraphCalls
    <3>2. calls' = [calls EXCEPT ![c] = [calls[c] EXCEPT !.at = "compare", !.loaded = disk]] BY <2>2, <1>5 DEF Graph!Load
    <3>q. QED BY <3>1, <3>2, <2>0, <1>1, <1>3
  <2>3. CASE disk.state # "valid"
    <3> DEFINE to == IF calls[c].kind = "update" THEN "build" ELSE "answer"
    <3>1. GraphCallOK([calls[c] EXCEPT !.at = to], world, past, slipped) BY <2>1 DEF GraphCallOK, GraphCalls
    <3>2. calls' = [calls EXCEPT ![c] = [calls[c] EXCEPT !.at = to]] BY <2>3, <1>5 DEF Graph!Load
    <3>q. QED BY <3>1, <3>2, <2>0, <1>1, <1>3
  <2>q. QED BY <2>2, <2>3
<1>6. ASSUME NEW c \in Callers, Graph!Compare(c) PROVE GraphInv'
  <2> DEFINE old == calls[c].loaded
             rebuilds == calls[c].kind = "update" /\ Graph!Outdated(old.hashes) # {}
  <2>1. GraphCallOK(calls[c], world, past, slipped) /\ calls[c].at = "compare" BY <1>2, <1>6 DEF Graph!Compare, Graph!At
  <2>0. UNCHANGED <<disk, world, past, spent>> BY <1>6 DEF Graph!Compare
  <2>2. CASE rebuilds
    <3>1. GraphCallOK([calls[c] EXCEPT !.at = "build"], world, past, slipped) BY <2>1 DEF GraphCallOK, GraphCalls
    <3>2. calls' = [calls EXCEPT ![c] = [calls[c] EXCEPT !.at = "build"]] BY <2>2, <1>6 DEF Graph!Compare
    <3>q. QED BY <3>1, <3>2, <2>0, <1>1, <1>3
  <2>3. CASE ~rebuilds
    <3>1. old \in GraphIndexes /\ Matched(old, slipped) BY <2>1 DEF GraphCallOK
    <3>2. calls[c].kind # "status" => CaughtUp(old, world, past, slipped)
      <4> SUFFICES ASSUME calls[c].kind # "status", NEW f \in Graph!SourceFiles
                   PROVE \/ old.graph[f] = Graph!Seen(world)[f]
                         \/ /\ f \in slipped /\ old.hashes[f] = Graph!Seen(world)[f]
                            /\ past # Absent /\ f \notin Unreported => past[f] = world[f]
        BY DEF CaughtUp
      <4>1. calls[c].kind = "update" BY <2>1 DEF GraphCallOK, GraphCalls
      <4>2. f \notin Graph!Changed(old.hashes) /\ f \notin Graph!GitChanged BY <4>1, <2>3 DEF Graph!Outdated
      <4>3. old.hashes[f] = Graph!Seen(world)[f] BY <4>2 DEF Graph!Changed
      <4>4. past # Absent /\ f \notin Unreported => past[f] = world[f] BY <4>2 DEF Graph!GitChanged
      <4>q. QED BY <4>3, <4>4, <3>1 DEF Matched
    <3>3. GraphCallOK([calls[c] EXCEPT !.at = "answer", !.answer = old], world, past, slipped)
      BY <3>1, <3>2, <2>1 DEF GraphCallOK, GraphCalls
    <3>4. calls' = [calls EXCEPT ![c] = [calls[c] EXCEPT !.at = "answer", !.answer = old]] BY <2>3, <1>6 DEF Graph!Compare
    <3>q. QED BY <3>3, <3>4, <2>0, <1>1, <1>3
  <2>q. QED BY <2>2, <2>3
<1>7. ASSUME NEW c \in Callers, Graph!BuildGraph(c) PROVE GraphInv'
  <2> DEFINE seen == Graph!Seen(world)
             new == [calls[c] EXCEPT !.at = "hash", !.graph = seen]
  <2>1. GraphCallOK(calls[c], world, past, slipped) BY <1>2, <1>7 DEF Graph!BuildGraph, Graph!At
  <2>2. calls' = [calls EXCEPT ![c] = new] /\ UNCHANGED <<disk, world, past, spent>> BY <1>7 DEF Graph!BuildGraph
  <2>3. new \in GraphCalls /\ new.at = "hash" /\ new.graph = Graph!Seen(world)
    <3>1. seen \in GraphFiles BY <1>0
    <3> HIDE DEF seen
    <3>2. new \in GraphCalls /\ new.at = "hash" /\ new.graph = seen BY <3>1, <2>1 DEF GraphCallOK, GraphCalls
    <3>q. QED BY <3>2 DEF seen
  <2> HIDE DEF new
  <2>4. GraphCallOK(new, world, past, slipped) BY <2>3 DEF GraphCallOK
  <2>q. QED BY <2>2, <2>4, <1>1, <1>3
<1>8. ASSUME NEW c \in Callers, Graph!HashFiles(c) PROVE GraphInv'
  <2> DEFINE seen == Graph!Seen(world)
             built == [state |-> "valid", graph |-> calls[c].graph, hashes |-> seen]
  <2>1. GraphCallOK(calls[c], world, past, slipped) /\ calls[c].at = "hash" BY <1>2, <1>8 DEF Graph!HashFiles, Graph!At
  <2>2. built \in GraphIndexes /\ built.graph = calls[c].graph /\ built.hashes = seen
    <3>1. seen \in GraphFiles BY <1>0
    <3> HIDE DEF seen
    <3>q. QED BY <3>1, <2>1 DEF GraphCallOK, GraphCalls, GraphIndexes
  <2>3. Matched(built, slipped) BY <2>1, <2>2 DEF GraphCallOK, Matched
  <2>4. calls' = [calls EXCEPT ![c] = [calls[c] EXCEPT !.at = "persist", !.answer = built]]
        /\ UNCHANGED <<disk, world, past, spent>>
    BY <1>8 DEF Graph!HashFiles
  <2> HIDE DEF built, seen
  <2>5. calls[c].rest => built.graph = Graph!Seen(world) BY <2>1, <2>2 DEF GraphCallOK
  <2>6. GraphCallOK([calls[c] EXCEPT !.at = "persist", !.answer = built], world, past, slipped)
    BY <2>1, <2>2, <2>3, <2>5 DEF GraphCallOK, GraphCalls
  <2>q. QED BY <2>4, <2>6, <1>1, <1>3
<1>9. ASSUME NEW c \in Callers, Graph!Persist(c) PROVE GraphInv'
  <2>1. GraphCallOK(calls[c], world, past, slipped) /\ calls[c].at = "persist" BY <1>2, <1>9 DEF Graph!Persist, Graph!At
  <2>2. GraphCallOK([calls[c] EXCEPT !.at = "answer"], world, past, slipped) BY <2>1 DEF GraphCallOK, GraphCalls, CaughtUp
  <2>3. disk' \in GraphIndexes /\ Matched(disk', slipped) BY <2>1, <1>9 DEF Graph!Persist, GraphCallOK
  <2>4. calls' = [calls EXCEPT ![c] = [calls[c] EXCEPT !.at = "answer"]] /\ UNCHANGED <<world, past, spent>>
    BY <1>9 DEF Graph!Persist
  <2>q. QED BY <2>2, <2>3, <2>4, <1>1
<1>10. ASSUME NEW c \in Callers, Graph!Leave(c) PROVE GraphInv'
  BY <1>10, <1>1, <1>3 DEF Graph!Leave
\* Nothing that a call holds is of the files any more, but the graph that it is to hash.
<1>11. ASSUME calls' = Graph!Unsettled, disk' = disk, world' \in GraphFiles,
              spent' = [calls |-> spent'.calls, edits |-> spent'.edits, slipped |-> spent'.slipped],
              slipped \subseteq spent'.slipped,
              \A c \in Callers, f \in Graph!SourceFiles :
                Graph!At(c, "hash") => Graph!Seen(world)[f] = Graph!Seen(world')[f] \/ f \in spent'.slipped
       PROVE GraphInv'
  <2>1. ASSUME NEW c \in Callers PROVE calls'[c] = Absent \/ GraphCallOK(calls'[c], world', past', spent'.slipped)
    <3>1. CASE calls[c] = Absent BY <3>1, <1>11 DEF Graph!Unsettled
    <3>2. CASE calls[c] # Absent
      <4> DEFINE new == [calls[c] EXCEPT !.rest = FALSE]
      <4>1. GraphCallOK(calls[c], world, past, slipped) BY <3>2, <1>2
      <4>2. new \in GraphCalls /\ new.at = calls[c].at /\ new.kind = calls[c].kind /\ new.loaded = calls[c].loaded
            /\ new.graph = calls[c].graph /\ new.answer = calls[c].answer /\ ~new.rest
        BY <4>1 DEF GraphCallOK, GraphCalls
      <4> HIDE DEF new
      <4>3. calls[c].at = "hash" => \A f \in Graph!SourceFiles : calls[c].graph[f] = Graph!Seen(world')[f] \/ f \in spent'.slipped
        BY <4>1, <3>2, <1>11 DEF GraphCallOK, Graph!At
      <4>4. calls[c].at = "compare" => calls[c].loaded \in GraphIndexes /\ Matched(calls[c].loaded, spent'.slipped)
        BY <4>1, <1>11 DEF GraphCallOK, Matched
      <4>5. calls[c].at = "persist" => calls[c].answer \in GraphIndexes /\ Matched(calls[c].answer, spent'.slipped)
        BY <4>1, <1>11 DEF GraphCallOK, Matched
      <4>6. calls[c].at \in {"load", "compare"} => calls[c].kind # "build" BY <4>1 DEF GraphCallOK
      <4>7. GraphCallOK(new, world', past', spent'.slipped) BY <4>2, <4>3, <4>4, <4>5, <4>6 DEF GraphCallOK
      <4>8. calls'[c] = new BY <3>2, <1>11 DEF Graph!Unsettled, new
      <4>q. QED BY <4>7, <4>8
    <3>q. QED BY <3>1, <3>2
  <2>2. disk'.state = "valid" => Matched(disk', spent'.slipped) BY <1>3, <1>11 DEF Matched
  <2>3. IsCalls' BY <1>11 DEF IsCalls, Graph!Unsettled
  <2>q. QED BY <2>1, <2>2, <2>3, <1>3, <1>11 DEF GraphInv
<1>12. ASSUME Graph!Edit PROVE GraphInv'
  <2>1. spent' = [spent EXCEPT !.edits = @ + 1, !.slipped = @ \cup Graph!Slipping] BY <1>12 DEF Graph!Edit
  <2>2. /\ spent' = [calls |-> spent'.calls, edits |-> spent'.edits, slipped |-> spent'.slipped]
        /\ spent'.slipped = slipped \cup Graph!Slipping
    BY <2>1 DEF GraphInv, slipped
  <2>3. \A c \in Callers, f \in Graph!SourceFiles :
          Graph!At(c, "hash") => Graph!Seen(world)[f] = Graph!Seen(world')[f] \/ f \in Graph!Slipping
    BY DEF Graph!Slipping
  <2>4. world' \in GraphFiles BY <1>3, <1>12 DEF Graph!Edit, GraphFiles
  <2>5. calls' = Graph!Unsettled /\ disk' = disk BY <1>12 DEF Graph!Edit
  <2>q. QED BY <2>2, <2>3, <2>4, <2>5, <1>11
<1>13. ASSUME Graph!Commit PROVE GraphInv'
  <2>1. calls' = Graph!Unsettled /\ UNCHANGED <<disk, world, spent>> BY <1>13 DEF Graph!Commit
  <2>2. spent = [calls |-> spent.calls, edits |-> spent.edits, slipped |-> spent.slipped] BY DEF GraphInv
  <2>q. QED BY <2>1, <2>2, <1>3, <1>11 DEF slipped
<1>q. QED BY <1>4, <1>5, <1>6, <1>7, <1>8, <1>9, <1>10, <1>12, <1>13
          DEF Graph!GraphNext, Graph!Answer, Graph!Abort, Graph!BeginBuild, Graph!BeginUpdate, Graph!BeginStatus

\* An update that nothing raced answers the files.
LEMMA GraphAnswers == GraphInv => Graph!UpdatesCatchUp
BY DEF GraphInv, GraphCallOK, CaughtUp, Graph!UpdatesCatchUp, Graph!At

---------------------------------------------------------------------------
(* The session of the brain MCP server *)

SessionCallOK(call, stored) ==
  /\ call = [at |-> call.at, brain |-> call.brain]
  /\ call.at = "take" => call.brain.id \in stored
SessionInv ==
  /\ IsCalls
  /\ disk = [texts |-> disk.texts, latest |-> disk.latest]
  /\ disk.latest # Absent => Session!Stored(disk.latest)
  /\ past # Absent => Session!Stored(past.id)
  /\ \A c \in Callers : calls[c] = Absent \/ SessionCallOK(calls[c], DOMAIN disk.texts)

\* An empty store, or one with a brain, is a start; the server holds no brain.
LEMMA SessionStarts == Session!SessionInit => SessionInv
<1> SUFFICES ASSUME Session!SessionInit PROVE SessionInv OBVIOUS
<1>1. disk = [texts |-> disk.texts, latest |-> disk.latest] /\ (disk.latest # Absent => disk.latest \in DOMAIN disk.texts)
  <2>1. CASE disk = Session!Empty BY <2>1 DEF Session!Empty
  <2>2. ASSUME NEW s \in Structures,
               disk = [texts |-> [id \in {[of |-> s, clock |-> 0]} |-> 0], latest |-> [of |-> s, clock |-> 0]]
        PROVE <1>1
    BY <2>2
  <2>q. QED BY <2>1, <2>2 DEF Session!SessionInit
<1>2. past = Absent /\ calls = [c \in Callers |-> Absent] BY DEF Session!SessionInit
<1>q. QED BY <1>1, <1>2 DEF SessionInv, IsCalls, Session!Stored

\* What is stored stays stored.
LEMMA SessionSteps ==
  ASSUME SessionInv, Session!SessionNext
  PROVE SessionInv'
<1>1. ASSUME NEW c \in Callers, NEW new, calls' = [calls EXCEPT ![c] = new], new = Absent \/ SessionCallOK(new, DOMAIN disk'.texts),
             DOMAIN disk.texts \subseteq DOMAIN disk'.texts, disk' = [texts |-> disk'.texts, latest |-> disk'.latest],
             disk'.latest # Absent => disk'.latest \in DOMAIN disk'.texts, past' # Absent => past'.id \in DOMAIN disk'.texts
      PROVE SessionInv'
  <2>1. IsCalls' /\ calls'[c] = new /\ \A d \in Callers : d # c => calls'[d] = calls[d]
    BY <1>1, OneCallMoves DEF SessionInv
  <2>2. ASSUME NEW call, SessionCallOK(call, DOMAIN disk.texts) PROVE SessionCallOK(call, DOMAIN disk'.texts)
    BY <2>2, <1>1 DEF SessionCallOK
  <2>3. ASSUME NEW d \in Callers PROVE calls'[d] = Absent \/ SessionCallOK(calls'[d], DOMAIN disk'.texts)
    BY <2>1, <2>2, <1>1 DEF SessionInv
  <2>q. QED BY <2>1, <2>3, <1>1 DEF SessionInv, Session!Stored
<1>2. ASSUME NEW c \in Callers, calls[c] # Absent PROVE SessionCallOK(calls[c], DOMAIN disk.texts) BY <1>2 DEF SessionInv
<1>3. /\ disk = [texts |-> disk.texts, latest |-> disk.latest]
      /\ disk.latest # Absent => disk.latest \in DOMAIN disk.texts
      /\ past # Absent => past.id \in DOMAIN disk.texts
  BY DEF SessionInv, Session!Stored
<1>4. ASSUME NEW c \in Callers, Session!Initialize(c) PROVE SessionInv'
  <2>1. CASE disk.latest # Absent
    BY <2>1, <1>3, <1>4 DEF Session!Initialize, Session!Held, SessionInv, Session!Stored, IsCalls
  <2>2. CASE disk.latest = Absent
    <3>1. SessionCallOK([at |-> "compile", brain |-> Absent], DOMAIN disk.texts) BY DEF SessionCallOK
    <3>q. QED BY <3>1, <2>2, <1>1, <1>3, <1>4 DEF Session!Initialize
  <2>q. QED BY <2>1, <2>2
<1>5. ASSUME NEW c \in Callers, NEW at \in {"compile", "load"}, NEW brain, Session!Begin(c, [at |-> at, brain |-> brain]) PROVE SessionInv'
  <2>1. SessionCallOK([at |-> at, brain |-> brain], DOMAIN disk.texts) BY DEF SessionCallOK
  <2>q. QED BY <2>1, <1>1, <1>3, <1>5 DEF Session!Begin
<1>6. ASSUME NEW c \in Callers, Session!Compile(c) PROVE SessionInv'
  <2>1. PICK brain : calls' = [calls EXCEPT ![c] = [at |-> "save", brain |-> brain]] BY <1>6 DEF Session!Compile
  <2>2. SessionCallOK([at |-> "save", brain |-> brain], DOMAIN disk.texts) BY DEF SessionCallOK
  <2>q. QED BY <2>1, <2>2, <1>1, <1>3, <1>6 DEF Session!Compile
<1>7. ASSUME NEW c \in Callers, Session!Save(c) PROVE SessionInv'
  <2>1. /\ DOMAIN disk.texts \subseteq DOMAIN disk'.texts /\ calls[c].brain.id \in DOMAIN disk'.texts
        /\ disk' = [texts |-> disk'.texts, latest |-> disk'.latest]
        /\ disk'.latest # Absent => disk'.latest \in DOMAIN disk'.texts
    BY <1>3, <1>7 DEF Session!Save, Session!With, Session!Stored
  <2>2. SessionCallOK([calls[c] EXCEPT !.at = "take"], DOMAIN disk'.texts)
    <3>1. calls[c] = [at |-> calls[c].at, brain |-> calls[c].brain]
      BY <1>2, <1>7 DEF Session!Save, Session!At, SessionCallOK
    <3>2. [calls[c] EXCEPT !.at = "take"] = [at |-> "take", brain |-> calls[c].brain] BY <3>1
    <3>q. QED BY <3>2, <2>1 DEF SessionCallOK
  <2>q. QED BY <2>1, <2>2, <1>1, <1>3, <1>7 DEF Session!Save, Session!Goto
<1>8. ASSUME NEW c \in Callers, Session!Take(c) PROVE SessionInv'
  <2>1. calls[c].brain.id \in DOMAIN disk.texts BY <1>2, <1>8 DEF Session!Take, Session!At, SessionCallOK
  <2>q. QED BY <2>1, <1>1, <1>3, <1>8 DEF Session!Take, Session!Leave
<1>9. ASSUME NEW c \in Callers, Session!Load(c) PROVE SessionInv'
  <2>1. past' # Absent => past'.id \in DOMAIN disk.texts BY <1>3, <1>9 DEF Session!Load, Session!Held, Session!Stored
  <2>q. QED BY <2>1, <1>1, <1>3, <1>9 DEF Session!Load, Session!Leave
<1>10. ASSUME NEW c \in Callers, Session!Fail(c) PROVE SessionInv'
  BY <1>10, <1>1, <1>3 DEF Session!Fail, Session!Leave
<1>11. ASSUME Session!Change \/ Session!Restart PROVE SessionInv'
  BY <1>11, <1>3 DEF Session!Change, Session!Restart, SessionInv, IsCalls, Session!Stored
<1>12. ASSUME NEW c \in Callers, Session!BeginRebuild(c) \/ Session!BeginLoad(c) PROVE SessionInv'
  BY <1>12, <1>5 DEF Session!BeginRebuild, Session!BeginLoad
<1>q. QED BY <1>4, <1>6, <1>7, <1>8, <1>9, <1>10, <1>11, <1>12 DEF Session!SessionNext

---------------------------------------------------------------------------
(* Workspaces: addProject and createAccess *)

Spaced == [members : SUBSET Roots, crossRead : BOOLEAN]
SpaceCalls ==
  [at : {"exists", "create", "load", "write", "enter", "access", "given", "denied"}, root : Roots, target : Roots,
   crossRead : BOOLEAN, held : {Absent} \cup Spaced, raced : BOOLEAN]
\* A call that is about to write what it holds has been overtaken or holds what there is.
SpaceCallOK(call, workspace) ==
  /\ call \in SpaceCalls
  /\ call.at = "write" => call.held \in Spaced
  /\ call.at = "write" /\ ~call.raced => call.held = workspace /\ workspace # Absent
SpaceInv ==
  /\ IsCalls
  /\ disk \in {Absent} \cup Spaced
  /\ disk # Absent => past \subseteq disk.members
  /\ \A c \in Callers : calls[c] = Absent \/ SpaceCallOK(calls[c], disk)

\* A membership that was not overtaken is written over nothing newer.
LEMMA SpaceSteps ==
  ASSUME SpaceInv, Spaces!WorkspaceNext
  PROVE SpaceInv'
<1>1. ASSUME NEW c \in Callers, NEW new, calls' = [calls EXCEPT ![c] = new], new = Absent \/ SpaceCallOK(new, disk),
             UNCHANGED <<disk, past>>
      PROVE SpaceInv'
  BY <1>1, OneCallMoves DEF SpaceInv
<1>2. ASSUME NEW c \in Callers, calls[c] # Absent PROVE SpaceCallOK(calls[c], disk) BY <1>2 DEF SpaceInv
<1>3. disk \in {Absent} \cup Spaced BY DEF SpaceInv
<1>4. ASSUME NEW c \in Callers, NEW kind \in {"exists", "load", "enter"}, NEW root \in Roots, NEW target \in Roots,
             NEW crossRead \in BOOLEAN, Spaces!Begin(c, kind, root, target, crossRead)
      PROVE SpaceInv'
  <2>1. SpaceCallOK([at |-> kind, root |-> root, target |-> target, crossRead |-> crossRead, held |-> Absent, raced |-> FALSE], disk)
    BY DEF SpaceCallOK, SpaceCalls
  <2>q. QED BY <2>1, <1>1, <1>4 DEF Spaces!Begin
<1>5. ASSUME NEW c \in Callers, NEW step \in {"create", "access", "given", "denied"}, calls[c] # Absent, Spaces!Goto(c, step), UNCHANGED <<disk, past>>
      PROVE SpaceInv'
  <2>1. SpaceCallOK([calls[c] EXCEPT !.at = step], disk) BY <1>2, <1>5 DEF SpaceCallOK, SpaceCalls
  <2>q. QED BY <2>1, <1>1, <1>5 DEF Spaces!Goto
<1>6. ASSUME NEW c \in Callers, Spaces!Leave(c), UNCHANGED <<disk, past>> PROVE SpaceInv'
  BY <1>6, <1>1 DEF Spaces!Leave
<1>7. ASSUME NEW c \in Callers, Spaces!Exists(c) PROVE SpaceInv'
  BY <1>5, <1>6, <1>7 DEF Spaces!Exists, Spaces!At
<1>8. ASSUME NEW c \in Callers, Spaces!Load(c) PROVE SpaceInv'
  <2>1. CASE disk = Absent \/ calls[c].root \in disk.members BY <2>1, <1>6, <1>8 DEF Spaces!Load
  <2>2. CASE ~(disk = Absent \/ calls[c].root \in disk.members)
    <3>1. SpaceCallOK([calls[c] EXCEPT !.at = "write", !.held = disk], disk)
      BY <2>2, <1>2, <1>3, <1>8 DEF Spaces!Load, Spaces!At, SpaceCallOK, SpaceCalls
    <3>2. calls' = [calls EXCEPT ![c] = [calls[c] EXCEPT !.at = "write", !.held = disk]] /\ UNCHANGED <<disk, past>>
      BY <2>2, <1>8 DEF Spaces!Load
    <3>q. QED BY <3>1, <3>2, <1>1
  <2>q. QED BY <2>1, <2>2
<1>9. ASSUME NEW c \in Callers, Spaces!Enter(c) PROVE SpaceInv'
  <2>1. PICK held \in {disk, Absent} : calls' = [calls EXCEPT ![c].at = "access", ![c].held = held] /\ UNCHANGED <<disk, past>>
    BY <1>9 DEF Spaces!Enter
  <2>2. SpaceCallOK([calls[c] EXCEPT !.at = "access", !.held = held], disk)
    BY <1>2, <1>3, <1>9 DEF Spaces!Enter, Spaces!At, SpaceCallOK, SpaceCalls
  <2>q. QED BY <2>1, <2>2, <1>1
<1>10. ASSUME NEW c \in Callers, Spaces!Access(c) \/ Spaces!Answer(c) PROVE SpaceInv'
  BY <1>10, <1>5, <1>6 DEF Spaces!Access, Spaces!Answer, Spaces!At
\* Whoever writes marks the others as overtaken.
<1>11. ASSUME NEW c \in Callers, NEW cs, calls' = cs, cs = [d \in Callers |-> cs[d]], disk' \in {Absent} \cup Spaced,
              disk' # Absent => past' \subseteq disk'.members,
              \A d \in Callers : cs[d] = Absent \/ (calls[d] # Absent /\ cs[d] = [calls[d] EXCEPT !.raced = TRUE])
       PROVE SpaceInv'
  <2>1. ASSUME NEW d \in Callers PROVE calls'[d] = Absent \/ SpaceCallOK(calls'[d], disk')
    <3>1. CASE calls'[d] # Absent
      <4>1. SpaceCallOK([calls[d] EXCEPT !.raced = TRUE], disk') BY <3>1, <1>2, <1>11 DEF SpaceCallOK, SpaceCalls
      <4>q. QED BY <4>1, <1>11
    <3>q. QED BY <3>1
  <2>q. QED BY <2>1, <1>11 DEF SpaceInv, IsCalls
<1>12. ASSUME NEW c \in Callers, calls' = [Spaces!Raced(c) EXCEPT ![c] = Absent]
       PROVE /\ calls' = [d \in Callers |-> calls'[d]]
             /\ \A d \in Callers : calls'[d] = Absent \/ (calls[d] # Absent /\ calls'[d] = [calls[d] EXCEPT !.raced = TRUE])
  BY <1>12 DEF Spaces!Raced
<1>13. ASSUME NEW c \in Callers, Spaces!Create(c) PROVE SpaceInv'
  <2>1. SpaceCallOK(calls[c], disk) BY <1>2, <1>13 DEF Spaces!Create, Spaces!At
  <2>2. disk' \in Spaced /\ past' \subseteq disk'.members BY <2>1, <1>13 DEF Spaces!Create, SpaceCallOK, SpaceCalls, Spaced
  <2>q. QED BY <2>2, <1>11, <1>12, <1>13 DEF Spaces!Create
<1>14. ASSUME NEW c \in Callers, Spaces!Write(c) PROVE SpaceInv'
  <2>1. SpaceCallOK(calls[c], disk) /\ calls[c].at = "write" BY <1>2, <1>14 DEF Spaces!Write, Spaces!At
  <2>2. disk' \in Spaced /\ disk'.members = calls[c].held.members \cup {calls[c].root}
    BY <2>1, <1>14 DEF Spaces!Write, Spaces!Joining, SpaceCallOK, SpaceCalls, Spaced
  <2>3. past' \subseteq disk'.members
    <3>1. CASE calls[c].raced BY <3>1, <1>14 DEF Spaces!Write
    <3>2. CASE ~calls[c].raced BY <3>2, <2>1, <2>2, <1>14 DEF Spaces!Write, SpaceCallOK, SpaceInv
    <3>q. QED BY <3>1, <3>2
  <2>q. QED BY <2>2, <2>3, <1>11, <1>12, <1>14 DEF Spaces!Write
<1>15. ASSUME Spaces!Remove PROVE SpaceInv'
  <2>1. ASSUME NEW d \in Callers PROVE calls'[d] = Absent \/ SpaceCallOK(calls'[d], disk')
    <3>1. CASE calls[d] = Absent BY <3>1, <1>15 DEF Spaces!Remove
    <3>2. CASE calls[d] # Absent
      <4>1. SpaceCallOK([calls[d] EXCEPT !.raced = TRUE], disk') BY <3>2, <1>2 DEF SpaceCallOK, SpaceCalls
      <4>q. QED BY <4>1, <3>2, <1>15 DEF Spaces!Remove
    <3>q. QED BY <3>1, <3>2
  <2>q. QED BY <2>1, <1>15 DEF Spaces!Remove, SpaceInv, IsCalls
<1>16. ASSUME NEW c \in Callers, Spaces!BeginInit(c) \/ Spaces!BeginAdd(c) \/ Spaces!BeginRead(c) PROVE SpaceInv'
  BY <1>16, <1>4 DEF Spaces!BeginInit, Spaces!BeginAdd, Spaces!BeginRead
<1>q. QED BY <1>7, <1>8, <1>9, <1>10, <1>13, <1>14, <1>15, <1>16 DEF Spaces!WorkspaceNext

\* Without a workspace file nobody has joined.
LEMMA SpaceStarts == Spaces!WorkspaceInit => SpaceInv
BY DEF Spaces!WorkspaceInit, SpaceInv, IsCalls

---------------------------------------------------------------------------
(* Identity: login and authorize *)

Users == [name : Identity!Usernames, password : Passwords, role : Roles]
Logins == [at : {"search"}, name : Identity!Usernames, password : Passwords, next : Nat, since : Nat, changed : SUBSET Identity!Usernames]
Granted == [at : {"grant"}, name : Identity!Usernames, user : Identity!Usernames, until : Nat, since : Nat, changed : SUBSET Identity!Usernames]
Authorizing ==
  [at : {"session", "user", "answer"}, session : Nat, role : Roles, since : Nat, changed : SUBSET Identity!Usernames,
   ok : BOOLEAN, user : {Absent} \cup Users]
Sessioned == [user : Identity!Usernames, until : Nat, earned : Identity!Usernames]

\* A login that is granted is the named user's; an authorization is of a session that had not
\* ended when it began, and its answer of the user as registered, or as registered before.
GrantOK(call) == call \in Granted => call.user = call.name
AuthorizationOK(call, users, sessions, clock) ==
  call \in Authorizing =>
    /\ call.session \in DOMAIN sessions
    /\ call.since <= clock
    /\ call.at = "session" => ~call.ok
    /\ call.at = "user" \/ (call.at = "answer" /\ call.ok) => sessions[call.session].until >= call.since
    /\ call.at = "answer" /\ call.ok =>
         /\ call.user \in Users
         /\ Identity!Rank(call.user.role) >= Identity!Rank(call.role)
         /\ sessions[call.session].user \in call.changed \/ call.user = users[sessions[call.session].user]
IdentityCallOK(call, users, sessions, clock) ==
  /\ call \in Logins \cup Granted \cup Authorizing
  /\ GrantOK(call) /\ AuthorizationOK(call, users, sessions, clock)
IdentityInv ==
  /\ IsCalls
  /\ disk \in [Identity!Usernames -> {Absent} \cup Users]
  /\ past \in Seq(Sessioned) /\ \A s \in DOMAIN past : past[s].user = past[s].earned
  /\ world \in Nat
  /\ \A c \in Callers : calls[c] = Absent \/ IdentityCallOK(calls[c], disk, past, world)

\* A role that ranks at least as high has every permission of the other (rbac.ts).
LEMMA PermissionsGrow ==
  ASSUME NEW low \in Roles, NEW high \in Roles, Identity!Rank(high) >= Identity!Rank(low)
  PROVE Identity!Permissions(low) \subseteq Identity!Permissions(high)
<1>1. Identity!RbacRank(high) >= Identity!RbacRank(low) /\ Identity!RbacRank(high) \in Int /\ Identity!RbacRank(low) \in Int
  BY NamesAreListed DEF Identity!Rank, Identity!RbacRank
<1>2. \A p \in DOMAIN Identity!RankFor : Identity!RankFor[p] \in Int BY DEF Identity!RankFor
<1>q. QED BY <1>1, <1>2 DEF Identity!Permissions

\* Sessions are of who logged in, and what is authorized is a live session's user's.
LEMMA IdentityAnswers == IdentityInv => Identity!SessionsAreEarned /\ Identity!AuthorizedIsCurrent
<1> SUFFICES ASSUME IdentityInv PROVE Identity!SessionsAreEarned /\ Identity!AuthorizedIsCurrent OBVIOUS
<1>1. Identity!SessionsAreEarned BY DEF IdentityInv, Identity!SessionsAreEarned
<1>2. ASSUME NEW c \in Callers, Identity!At(c, "answer"), calls[c].ok
      PROVE LET session == past[calls[c].session] IN
            /\ session.until >= calls[c].since
            /\ session.user \in calls[c].changed
               \/ /\ Identity!Rank(disk[session.user].role) >= Identity!Rank(calls[c].role)
                  /\ Identity!Permissions(calls[c].role) \subseteq Identity!Permissions(calls[c].user.role)
                  /\ Identity!Permissions(calls[c].user.role) = Identity!Permissions(disk[session.user].role)
  <2>1. IdentityCallOK(calls[c], disk, past, world) BY <1>2 DEF IdentityInv, Identity!At
  <2>2. calls[c] \in Authorizing BY <2>1, <1>2 DEF IdentityCallOK, Identity!At, Logins, Granted
  <2>3. calls[c].role \in Roles /\ calls[c].user.role \in Roles
    BY <2>1, <2>2, <1>2 DEF IdentityCallOK, AuthorizationOK, Identity!At, Authorizing, Users
  <2>4. Identity!Permissions(calls[c].role) \subseteq Identity!Permissions(calls[c].user.role)
    BY <2>1, <2>2, <2>3, <1>2, PermissionsGrow DEF IdentityCallOK, AuthorizationOK, Identity!At
  <2>q. QED BY <2>1, <2>2, <2>4, <1>2 DEF IdentityCallOK, AuthorizationOK, Identity!At
<1>q. QED BY <1>1, <1>2 DEF Identity!AuthorizedIsCurrent

\* Without users there are no sessions.
LEMMA IdentityStarts == Identity!IdentityInit => IdentityInv
BY DEF Identity!IdentityInit, IdentityInv, IsCalls

\* Sessions are never taken back, and time passes.
LEMMA IdentityCallStays ==
  ASSUME NEW call, NEW users, NEW sessions, NEW clock \in Nat, NEW later \in Nat, clock <= later, NEW session \in Sessioned,
         sessions \in Seq(Sessioned), IdentityCallOK(call, users, sessions, clock)
  PROVE /\ IdentityCallOK(call, users, sessions, later)
        /\ IdentityCallOK(call, users, Append(sessions, session), clock)
<1>1. IdentityCallOK(call, users, sessions, later)
  BY DEF IdentityCallOK, AuthorizationOK, Authorizing
<1>2. \A s \in DOMAIN sessions : s \in DOMAIN Append(sessions, session) /\ Append(sessions, session)[s] = sessions[s]
  OBVIOUS
<1>q. QED BY <1>1, <1>2 DEF IdentityCallOK, AuthorizationOK

Answered(call, ok, user) == [call EXCEPT !.at = "answer", !.changed = {}, !.ok = ok, !.user = user]
\* The fields of an authorization once it is answered.
LEMMA AnswerIsOne ==
  ASSUME NEW call \in Authorizing, NEW ok \in BOOLEAN, NEW user \in {Absent} \cup Users
  PROVE LET new == Answered(call, ok, user) IN
        /\ new \in Authorizing
        /\ new.at = "answer" /\ new.session = call.session /\ new.role = call.role /\ new.since = call.since
        /\ (new.ok <=> ok) /\ new.user = user
BY DEF Authorizing, Answered

\* Searching, granting and authorizing keep what they read, while users are registered and time passes.
LEMMA IdentitySteps ==
  ASSUME IdentityInv, Identity!IdentityNext
  PROVE IdentityInv'
<1> USE DEF Identity!At
<1>1. ASSUME NEW c \in Callers, NEW new, calls' = [calls EXCEPT ![c] = new], new = Absent \/ IdentityCallOK(new, disk, past, world),
             UNCHANGED <<disk, past, world>>
      PROVE IdentityInv'
  BY <1>1, OneCallMoves DEF IdentityInv
<1>2. ASSUME NEW c \in Callers, calls[c] # Absent PROVE IdentityCallOK(calls[c], disk, past, world) BY <1>2 DEF IdentityInv
<1>3. disk \in [Identity!Usernames -> {Absent} \cup Users] /\ past \in Seq(Sessioned) /\ world \in Nat BY DEF IdentityInv
<1>4. ASSUME NEW c \in Callers, Identity!BeginLogin(c) PROVE IdentityInv'
  <2>1. PICK n \in Identity!Usernames, p \in Passwords :
          calls' = [calls EXCEPT ![c] = [at |-> "search", name |-> n, password |-> p, next |-> 1, since |-> world, changed |-> {}]]
          /\ UNCHANGED <<disk, past, world>>
    BY <1>4 DEF Identity!BeginLogin, Identity!Begin
  <2> DEFINE new == [at |-> "search", name |-> n, password |-> p, next |-> 1, since |-> world, changed |-> {}]
  <2>2. new \in Logins /\ new \notin Granted /\ new \notin Authorizing BY <1>3 DEF Logins, Granted, Authorizing
  <2>q. QED BY <2>1, <2>2, <1>1 DEF IdentityCallOK, GrantOK, AuthorizationOK
<1>5. ASSUME NEW c \in Callers, Identity!BeginAuthorize(c) PROVE IdentityInv'
  <2>1. PICK s \in DOMAIN past, r \in Roles :
          calls' = [calls EXCEPT ![c] = [at |-> "session", session |-> s, role |-> r, since |-> world, changed |-> {}, ok |-> FALSE, user |-> Absent]]
          /\ UNCHANGED <<disk, past, world>>
    BY <1>5 DEF Identity!BeginAuthorize, Identity!Begin
  <2> DEFINE new == [at |-> "session", session |-> s, role |-> r, since |-> world, changed |-> {}, ok |-> FALSE, user |-> Absent]
  <2>2. new \in Authorizing /\ new \notin Granted BY <1>3 DEF Granted, Authorizing
  <2>3. IdentityCallOK(new, disk, past, world) BY <2>2, <1>3 DEF IdentityCallOK, GrantOK, AuthorizationOK
  <2> HIDE DEF new
  <2>q. QED BY <2>1, <2>3, <1>1 DEF new
<1>6. ASSUME NEW c \in Callers, Identity!Search(c) PROVE IdentityInv'
  <2> DEFINE user == disk[UserNames[calls[c].next]]
             grant == [at |-> "grant", name |-> calls[c].name, user |-> user.name, until |-> world + Lifetime,
                       since |-> calls[c].since, changed |-> calls[c].changed]
             on == [calls[c] EXCEPT !.next = @ + 1]
  <2>1. calls[c] \in Logins BY <1>2, <1>6 DEF Identity!Search, IdentityCallOK, Granted, Authorizing
  <2>2. on \in Logins /\ on \notin Granted /\ on \notin Authorizing BY <2>1 DEF Logins, Granted, Authorizing
  <2>3. IdentityCallOK(on, disk, past, world) BY <2>2 DEF IdentityCallOK, GrantOK, AuthorizationOK
  <2>4. ASSUME user.name = calls[c].name PROVE IdentityCallOK(grant, disk, past, world)
    BY <2>1, <2>4, <1>3, NamesAreListed DEF IdentityCallOK, GrantOK, AuthorizationOK, Logins, Granted, Authorizing
  <2>5. (calls' = [calls EXCEPT ![c] = grant] /\ user.name = calls[c].name) \/ calls' = [calls EXCEPT ![c] = on]
        \/ calls' = [calls EXCEPT ![c] = Absent]
    BY <1>6 DEF Identity!Search, Identity!IsUser
  <2>6. UNCHANGED <<disk, past, world>> BY <1>6 DEF Identity!Search
  <2> HIDE DEF on, grant
  <2>q. QED BY <2>3, <2>4, <2>5, <2>6, <1>1
<1>7. ASSUME NEW c \in Callers, Identity!Grant(c) PROVE IdentityInv'
  <2> DEFINE session == [user |-> calls[c].user, until |-> calls[c].until, earned |-> calls[c].name]
  <2>1. calls[c] \in Granted /\ GrantOK(calls[c]) BY <1>2, <1>7 DEF Identity!Grant, IdentityCallOK, Logins, Authorizing
  <2>2. session \in Sessioned /\ session.user = session.earned BY <2>1 DEF GrantOK, Granted, Sessioned
  <2>3. past' = Append(past, session) /\ calls' = [calls EXCEPT ![c] = Absent] /\ UNCHANGED <<disk, world>>
    BY <1>7 DEF Identity!Grant
  <2> HIDE DEF session
  <2>4. past' \in Seq(Sessioned) /\ \A s \in DOMAIN past' : past'[s].user = past'[s].earned
    BY <2>2, <2>3 DEF IdentityInv
  <2>5. ASSUME NEW d \in Callers PROVE calls'[d] = Absent \/ IdentityCallOK(calls'[d], disk, past', world)
    <3>1. CASE calls'[d] # Absent
      <4>1. calls'[d] = calls[d] BY <3>1, <2>3 DEF IdentityInv, IsCalls
      <4>2. IdentityCallOK(calls[d], disk, past, world) BY <3>1, <4>1, <1>2
      <4>q. QED BY <4>1, <4>2, <2>2, <2>3, <1>3, IdentityCallStays
    <3>q. QED BY <3>1
  <2>q. QED BY <2>3, <2>4, <2>5 DEF IdentityInv, IsCalls
<1>8. ASSUME NEW c \in Callers, Identity!ReadSession(c) PROVE IdentityInv'
  <2> DEFINE new(to) == [calls[c] EXCEPT !.at = to, !.changed = {}]
  <2>1. calls[c] \in Authorizing /\ AuthorizationOK(calls[c], disk, past, world) /\ calls[c].at = "session"
    BY <1>2, <1>8 DEF Identity!ReadSession, IdentityCallOK, Logins, Granted
  <2>2. new("answer") \in Authorizing /\ new("user") \in Authorizing BY <2>1 DEF Authorizing
  <2>3. IdentityCallOK(new("answer"), disk, past, world)
    BY <2>1, <2>2 DEF IdentityCallOK, GrantOK, AuthorizationOK, Granted, Authorizing
  <2>4. ASSUME ~Identity!Expired(past[calls[c].session]) PROVE IdentityCallOK(new("user"), disk, past, world)
    <3>1. past[calls[c].session] \in Sessioned BY <2>1, <1>3 DEF AuthorizationOK
    <3>2. past[calls[c].session].until >= calls[c].since
      BY <3>1, <2>1, <2>4, <1>3 DEF AuthorizationOK, Identity!Expired, Sessioned, Authorizing
    <3>q. QED BY <3>2, <2>1, <2>2 DEF IdentityCallOK, GrantOK, AuthorizationOK, Granted, Authorizing
  <2>5. calls' = [calls EXCEPT ![c] = new("answer")] \/ (calls' = [calls EXCEPT ![c] = new("user")] /\ ~Identity!Expired(past[calls[c].session]))
    BY <1>8 DEF Identity!ReadSession
  <2>6. UNCHANGED <<disk, past, world>> BY <1>8 DEF Identity!ReadSession
  <2> HIDE DEF new
  <2>q. QED BY <2>3, <2>4, <2>5, <2>6, <1>1
<1>9. ASSUME NEW c \in Callers, Identity!ReadUser(c) PROVE IdentityInv'
  <2> DEFINE user == disk[past[calls[c].session].user]
             may == user # Absent /\ Identity!Rank(user.role) >= Identity!Rank(calls[c].role)
  <2>1. calls[c] \in Authorizing /\ AuthorizationOK(calls[c], disk, past, world) /\ calls[c].at = "user"
    BY <1>2, <1>9 DEF Identity!ReadUser, IdentityCallOK, Logins, Granted
  <2>2. past[calls[c].session] \in Sessioned BY <2>1, <1>3 DEF AuthorizationOK
  <2>3. user \in {Absent} \cup Users BY <2>2, <1>3 DEF Sessioned
  <2>4. PICK ok \in BOOLEAN : (ok <=> may) /\ calls' = [calls EXCEPT ![c].at = "answer", ![c].changed = {}, ![c].ok = ok, ![c].user = user]
    <3>1. may \in BOOLEAN OBVIOUS
    <3>q. QED BY <3>1, <1>9, Zenon DEF Identity!ReadUser
  <2> DEFINE new == Answered(calls[c], ok, user)
  <2>5. /\ new \in Authorizing
        /\ new.at = "answer" /\ new.session = calls[c].session /\ new.role = calls[c].role /\ new.since = calls[c].since
        /\ (new.ok <=> ok) /\ new.user = user
    <3> HIDE DEF user
    <3>q. QED BY <2>1, <2>3, AnswerIsOne
  <2>6. new \in Authorizing /\ new \notin Granted BY <2>5 DEF Authorizing, Granted
  <2>7. IdentityCallOK(new, disk, past, world)
    <3>1. /\ new.at = "answer" /\ new.session = calls[c].session /\ new.role = calls[c].role /\ new.since = calls[c].since
          /\ (new.ok <=> ok) /\ new.user = user
      BY <2>5
    <3>2. ok => user \in Users /\ Identity!Rank(user.role) >= Identity!Rank(calls[c].role) BY <2>3, <2>4
    <3> HIDE DEF new, user
    <3>q. QED BY <3>1, <3>2, <2>1, <2>6 DEF IdentityCallOK, GrantOK, AuthorizationOK, user
  <2>8. calls' = [calls EXCEPT ![c] = new] BY <2>4 DEF Answered
  <2>9. UNCHANGED <<disk, past, world>> BY <1>9 DEF Identity!ReadUser
  <2> HIDE DEF new
  <2>q. QED BY <2>7, <2>8, <2>9, <1>1
<1>10. ASSUME NEW c \in Callers, Identity!Answer(c) PROVE IdentityInv'
  BY <1>10, <1>1 DEF Identity!Answer
<1>11. ASSUME Identity!Register PROVE IdentityInv'
  <2>1. PICK n \in Identity!Usernames, p \in Passwords, r \in Roles :
          disk' = [disk EXCEPT ![n] = [name |-> n, password |-> p, role |-> r]] /\ calls' = Identity!Changed(n)
    BY <1>11 DEF Identity!Register
  <2>2. UNCHANGED <<past, world>> BY <1>11 DEF Identity!Register
  <2>3. disk' \in [Identity!Usernames -> {Absent} \cup Users] /\ \A m \in Identity!Usernames : m # n => disk'[m] = disk[m]
    BY <2>1, <1>3 DEF Users
  <2>4. ASSUME NEW d \in Callers PROVE calls'[d] = Absent \/ IdentityCallOK(calls'[d], disk', past, world)
    <3>1. CASE calls[d] = Absent BY <3>1, <2>1 DEF Identity!Changed
    <3>2. CASE calls[d] # Absent
      <4> DEFINE new == [calls[d] EXCEPT !.changed = @ \cup {n}]
      <4>1. IdentityCallOK(calls[d], disk, past, world) BY <3>2, <1>2
      <4>2. ASSUME calls[d] \in Logins PROVE IdentityCallOK(new, disk', past, world)
        BY <4>2 DEF IdentityCallOK, GrantOK, AuthorizationOK, Logins, Granted, Authorizing
      <4>3. ASSUME calls[d] \in Granted PROVE IdentityCallOK(new, disk', past, world)
        BY <4>1, <4>3 DEF IdentityCallOK, GrantOK, AuthorizationOK, Logins, Granted, Authorizing
      <4>4. ASSUME calls[d] \in Authorizing PROVE IdentityCallOK(new, disk', past, world)
        <5>1. new \in Authorizing /\ new \notin Granted BY <4>4 DEF Authorizing, Granted
        <5>2. /\ new.at = calls[d].at /\ new.session = calls[d].session /\ new.role = calls[d].role /\ new.since = calls[d].since
              /\ new.ok = calls[d].ok /\ new.user = calls[d].user /\ new.changed = calls[d].changed \cup {n}
          BY <4>4 DEF Authorizing
        <5>3. AuthorizationOK(calls[d], disk, past, world) BY <4>1 DEF IdentityCallOK
        <5>4. past[calls[d].session] \in Sessioned BY <5>3, <4>4, <1>3 DEF AuthorizationOK
        <5>5. past[calls[d].session].user \in Identity!Usernames BY <5>4 DEF Sessioned
        <5> HIDE DEF new
        <5>q. QED BY <5>1, <5>2, <5>3, <5>5, <4>4, <2>3 DEF IdentityCallOK, GrantOK, AuthorizationOK
      <4>5. IdentityCallOK(new, disk', past, world)
        BY <4>1, <4>2, <4>3, <4>4 DEF IdentityCallOK
      <4>6. calls'[d] = new BY <3>2, <2>1 DEF Identity!Changed
      <4>q. QED BY <4>5, <4>6
    <3>q. QED BY <3>1, <3>2
  <2>q. QED BY <2>1, <2>2, <2>3, <2>4 DEF IdentityInv, IsCalls, Identity!Changed
<1>12. ASSUME Identity!Tick PROVE IdentityInv'
  <2>1. UNCHANGED <<disk, calls, past>> /\ world' \in Nat /\ world <= world' BY <1>12, <1>3 DEF Identity!Tick
  <2>2. ASSUME NEW d \in Callers PROVE calls'[d] = Absent \/ IdentityCallOK(calls'[d], disk, past, world')
    BY <2>1, <1>2, <1>3 DEF IdentityCallOK, AuthorizationOK, Authorizing
  <2>q. QED BY <2>1, <2>2 DEF IdentityInv, IsCalls
<1>q. QED BY <1>4, <1>5, <1>6, <1>7, <1>8, <1>9, <1>10, <1>11, <1>12 DEF Identity!IdentityNext

---------------------------------------------------------------------------
(* Knowledge records: transition and retrieve *)

Entries == [from : {Absent} \cup Statuses, to : Statuses]
Stored == [status : Statuses, version : Nat, history : Seq(Entries)]
Course(record) ==
  LET h == record.history IN
  /\ record \in Stored
  /\ Len(h) > 0 /\ record.version = Len(h) /\ record.status = h[Len(h)].to
  /\ \A e \in 2..Len(h) : h[e].from = h[e - 1].to /\ (h[e].to = "approved" => h[e].from \in Knowledge!Approvable)
Listed == [id : Knowledge!Ids, record : Stored]
KnowledgeCalls ==
  [at : {"create", "read", "write", "list", "answer"}, id : Knowledge!Ids, to : Statuses \cup {"approved"}, next : Nat,
   draft : {Absent} \cup Stored, listed : Seq(Listed), approvedOnce : SUBSET Knowledge!Ids, approvedThroughout : SUBSET Knowledge!Ids]

Visited(call, k) == call.at = "answer" \/ k < call.next
Listing(call, records) ==
  /\ Knowledge!Approved(records) \subseteq call.approvedOnce
  /\ call.approvedThroughout \subseteq Knowledge!Approved(records)
  /\ call.at = "list" => call.next \in DOMAIN Records
  /\ \A n \in DOMAIN call.listed : Knowledge!Authoritative(call.listed[n].record) => call.listed[n].id \in call.approvedOnce
  /\ \A k \in DOMAIN Records : Visited(call, k) /\ Records[k] \in call.approvedThroughout =>
       \E n \in DOMAIN call.listed : Knowledge!Authoritative(call.listed[n].record)
KnowledgeCallOK(call, records) ==
  /\ call \in KnowledgeCalls
  /\ call.at \in {"create", "read"} => call.to \in Statuses
  /\ call.at = "write" => Course(call.draft)
  /\ call.at \in {"list", "answer"} => Listing(call, records)
KnowledgeInv ==
  /\ IsCalls
  /\ DOMAIN disk = Knowledge!Ids /\ disk = [i \in Knowledge!Ids |-> disk[i]]
  /\ \A i \in Knowledge!Ids : disk[i] = Absent \/ Course(disk[i])
  /\ \A c \in Callers : calls[c] = Absent \/ KnowledgeCallOK(calls[c], disk)

\* Drafts of no history are a start.
LEMMA KnowledgeStarts == Knowledge!KnowledgeInit => KnowledgeInv
BY DEF Knowledge!KnowledgeInit, KnowledgeInv, IsCalls

\* A record's history is a course of allowed moves, and authority is of approved records.
LEMMA KnowledgeAnswers == KnowledgeInv => Knowledge!HistoryIsACourse /\ Knowledge!AuthorityIsApproved
<1> SUFFICES ASSUME KnowledgeInv PROVE Knowledge!HistoryIsACourse /\ Knowledge!AuthorityIsApproved OBVIOUS
<1>1. Knowledge!HistoryIsACourse BY DEF KnowledgeInv, Course, Knowledge!HistoryIsACourse
<1>2. ASSUME NEW c \in Callers, Knowledge!At(c, "answer")
      PROVE IF Knowledge!Retrieved(calls[c].listed) = Absent THEN calls[c].approvedThroughout = {}
            ELSE Knowledge!Retrieved(calls[c].listed) \in calls[c].approvedOnce
  <2> DEFINE listed == calls[c].listed
             found == {n \in DOMAIN listed : Knowledge!Authoritative(listed[n].record)}
             first == CHOOSE n \in found : \A m \in found : n <= m
  <2>1. KnowledgeCallOK(calls[c], disk) /\ calls[c].at = "answer" BY <1>2 DEF KnowledgeInv, Knowledge!At
  <2>2. listed \in Seq(Listed) /\ Listing(calls[c], disk) BY <2>1 DEF KnowledgeCallOK, KnowledgeCalls
  <2>3. CASE found = {}
    <3>1. Knowledge!Retrieved(listed) = Absent BY <2>3 DEF Knowledge!Retrieved
    <3>2. ASSUME NEW i \in calls[c].approvedThroughout PROVE FALSE
      <4>1. i \in Knowledge!Ids BY <2>1 DEF KnowledgeCallOK, KnowledgeCalls
      <4>2. PICK k \in DOMAIN Records : i = Records[k] BY <4>1 DEF Knowledge!Ids
      <4>q. QED BY <4>2, <2>1, <2>2, <2>3, <3>2 DEF Listing, Visited
    <3>q. QED BY <3>1, <3>2
  <2>4. CASE found # {}
    <3>1. found \subseteq Nat BY <2>2
    <3> HIDE DEF found
    <3>2. first \in found BY <3>1, <2>4, Least
    <3>3. Knowledge!Retrieved(listed) = listed[first].id BY <2>4 DEF Knowledge!Retrieved, found
    <3> USE DEF found
    <3> HIDE DEF first
    <3>4. listed[first].id \in calls[c].approvedOnce BY <3>2, <2>2 DEF Listing
    <3>5. listed[first].id \in Knowledge!Ids
      <4> HIDE DEF listed
      <4>1. first \in DOMAIN listed BY <3>2
      <4>2. listed[first] \in Listed BY <4>1, <2>2
      <4>q. QED BY <4>2 DEF Listed
    <3>q. QED BY <3>3, <3>4, <3>5, RecordsAreListed
  <2>q. QED BY <2>3, <2>4
<1>q. QED BY <1>1, <1>2 DEF Knowledge!AuthorityIsApproved

\* A course goes on with a move that the store allows.
LEMMA CourseGoesOn ==
  ASSUME NEW old, Course(old), NEW to \in Statuses, Knowledge!MayMove(old.status, to)
  PROVE Course([status |-> to, version |-> old.version + 1, history |-> Append(old.history, [from |-> old.status, to |-> to])])
<1> DEFINE entry == [from |-> old.status, to |-> to]
           h == Append(old.history, entry)
<1>1. old.history \in Seq(Entries) /\ old.status \in Statuses /\ old.version \in Nat BY DEF Course, Stored
<1>2. entry \in Entries /\ entry.from = old.status /\ entry.to = to BY <1>1 DEF Entries
<1>3. h \in Seq(Entries) /\ Len(h) = Len(old.history) + 1 /\ Len(old.history) \in Nat BY <1>1, <1>2
<1>4. h[Len(h)] = entry /\ \A e \in 1..Len(old.history) : h[e] = old.history[e] BY <1>1, <1>2
<1> HIDE DEF h
<1>5. ASSUME NEW e \in 2..Len(h) PROVE h[e].from = h[e - 1].to /\ (h[e].to = "approved" => h[e].from \in Knowledge!Approvable)
  <2>1. CASE e = Len(h)
    <3>1. h[e - 1] = old.history[Len(old.history)] BY <2>1, <1>3, <1>4
    <3>2. h[e - 1].to = old.status BY <3>1 DEF Course
    <3>3. h[e] = entry BY <2>1, <1>4
    <3>q. QED BY <3>2, <3>3, <1>2 DEF Knowledge!MayMove
  <2>2. CASE e # Len(h)
    <3>1. e \in 2..Len(old.history) /\ h[e] = old.history[e] /\ h[e - 1] = old.history[e - 1] BY <2>2, <1>3, <1>4
    <3>q. QED BY <3>1 DEF Course
  <2>q. QED BY <2>1, <2>2
<1>6. [status |-> to, version |-> old.version + 1, history |-> h] \in Stored BY <1>1, <1>3 DEF Stored
<1>7. old.version + 1 = Len(h) /\ Len(h) > 0 BY <1>1, <1>3 DEF Course
<1>8. h[Len(h)].to = to BY <1>2, <1>4
<1> DEFINE new == [status |-> to, version |-> old.version + 1, history |-> h]
<1>9. new.history = h /\ new.version = old.version + 1 /\ new.status = to OBVIOUS
<1> HIDE DEF new
<1>10. Course(new) BY <1>5, <1>6, <1>7, <1>8, <1>9 DEF Course, new
<1>q. QED BY <1>10 DEF new, h

ListedOn(call, at, next, listed) == [call EXCEPT !.next = next, !.at = at, !.listed = listed]
GoesOn(new, call, at, next, listed) ==
  /\ new \in KnowledgeCalls
  /\ new.at = at /\ new.next = next /\ new.listed = listed
  /\ new.approvedOnce = call.approvedOnce /\ new.approvedThroughout = call.approvedThroughout
\* The fields of a listing that has read one record more.
LEMMA ListingGoesOn ==
  ASSUME NEW call \in KnowledgeCalls, NEW at \in {"list", "answer"}, NEW next \in Nat, NEW listed \in Seq(Listed)
  PROVE GoesOn(ListedOn(call, at, next, listed), call, at, next, listed)
BY DEF GoesOn, ListedOn, KnowledgeCalls

\* A transition that writes goes on with the course it read or is overtaken as a whole.
LEMMA KnowledgeSteps ==
  ASSUME KnowledgeInv, Knowledge!KnowledgeNext
  PROVE KnowledgeInv'
<1> USE DEF Knowledge!At
<1>1. ASSUME NEW c \in Callers, NEW new, calls' = [calls EXCEPT ![c] = new], new = Absent \/ KnowledgeCallOK(new, disk),
             UNCHANGED disk
      PROVE KnowledgeInv'
  BY <1>1, OneCallMoves DEF KnowledgeInv
<1>2. ASSUME NEW c \in Callers, calls[c] # Absent PROVE KnowledgeCallOK(calls[c], disk) BY <1>2 DEF KnowledgeInv
<1>3. ASSUME NEW c \in Callers, NEW kind \in {"create", "read", "list"}, NEW id \in Knowledge!Ids, NEW to \in Statuses \cup {"approved"},
             kind # "list" => to \in Statuses, Knowledge!Begin(c, kind, id, to)
      PROVE KnowledgeInv'
  <2> DEFINE new == [at |-> kind, id |-> id, to |-> to, next |-> 1, draft |-> Absent, listed |-> <<>>,
                     approvedOnce |-> Knowledge!Approved(disk), approvedThroughout |-> Knowledge!Approved(disk)]
  <2>1. Knowledge!Approved(disk) \subseteq Knowledge!Ids BY DEF Knowledge!Approved
  <2>2. <<>> \in Seq(Listed) /\ 1 \in DOMAIN Records /\ 1 \in Nat BY RecordsAreListed
  <2>3. new \in KnowledgeCalls BY <2>1, <2>2 DEF KnowledgeCalls
  <2>4. Listing(new, disk) BY <2>2, RecordsAreListed DEF Listing, Visited
  <2>5. KnowledgeCallOK(new, disk) BY <2>3, <2>4, <1>3 DEF KnowledgeCallOK
  <2>6. calls' = [calls EXCEPT ![c] = new] /\ UNCHANGED disk BY <1>3 DEF Knowledge!Begin
  <2> HIDE DEF new
  <2>q. QED BY <2>5, <2>6, <1>1
<1>4. ASSUME NEW c \in Callers, Knowledge!BeginCreate(c) \/ Knowledge!BeginTransition(c) \/ Knowledge!BeginRetrieve(c) PROVE KnowledgeInv'
  <2>1. Records[1] \in Knowledge!Ids BY RecordsAreListed DEF Knowledge!Ids
  <2>q. QED BY <2>1, <1>3, <1>4 DEF Knowledge!BeginCreate, Knowledge!BeginTransition, Knowledge!BeginRetrieve
\* A write of a course is noted by the calls under way.
<1>5. ASSUME NEW c \in Callers, NEW id \in Knowledge!Ids, NEW record, Course(record), disk' = [disk EXCEPT ![id] = record],
             calls' = [Knowledge!Noted(disk', calls) EXCEPT ![c] = Absent]
      PROVE KnowledgeInv'
  <2>1. /\ DOMAIN disk' = Knowledge!Ids /\ disk' = [i \in Knowledge!Ids |-> disk'[i]]
        /\ \A i \in Knowledge!Ids : disk'[i] = Absent \/ Course(disk'[i])
    BY <1>5 DEF KnowledgeInv
  <2>2. ASSUME NEW d \in Callers PROVE calls'[d] = Absent \/ KnowledgeCallOK(calls'[d], disk')
    <3>1. CASE calls[d] = Absent \/ d = c BY <3>1, <1>5 DEF Knowledge!Noted
    <3>2. CASE calls[d] # Absent /\ d # c
      <4> DEFINE new == [calls[d] EXCEPT !.approvedOnce = @ \cup Knowledge!Approved(disk'),
                                         !.approvedThroughout = @ \cap Knowledge!Approved(disk')]
      <4>1. calls'[d] = new BY <3>2, <1>5 DEF Knowledge!Noted
      <4>2. KnowledgeCallOK(calls[d], disk) BY <3>2, <1>2
      <4>3. Knowledge!Approved(disk') \subseteq Knowledge!Ids BY DEF Knowledge!Approved
      <4>4. new \in KnowledgeCalls BY <4>2, <4>3 DEF KnowledgeCallOK, KnowledgeCalls
      <4>5. /\ new.at = calls[d].at /\ new.to = calls[d].to /\ new.next = calls[d].next /\ new.draft = calls[d].draft
            /\ new.listed = calls[d].listed /\ new.approvedOnce = calls[d].approvedOnce \cup Knowledge!Approved(disk')
            /\ new.approvedThroughout = calls[d].approvedThroughout \cap Knowledge!Approved(disk')
        BY <4>2 DEF KnowledgeCallOK, KnowledgeCalls
      <4> HIDE DEF new
      <4>6. calls[d].at \in {"list", "answer"} => Listing(new, disk')
        BY <4>2, <4>5 DEF KnowledgeCallOK, Listing, Visited
      <4>7. KnowledgeCallOK(new, disk') BY <4>2, <4>4, <4>5, <4>6 DEF KnowledgeCallOK
      <4>q. QED BY <4>1, <4>7
    <3>q. QED BY <3>1, <3>2
  <2>q. QED BY <2>1, <2>2, <1>5 DEF KnowledgeInv, IsCalls, Knowledge!Noted
<1>6. ASSUME NEW c \in Callers, Knowledge!Create(c) PROVE KnowledgeInv'
  <2> DEFINE entry == [from |-> Absent, to |-> calls[c].to]
             record == [status |-> calls[c].to, version |-> 1, history |-> <<entry>>]
  <2>1. calls[c].to \in Statuses /\ calls[c].id \in Knowledge!Ids
    BY <1>2, <1>6 DEF Knowledge!Create, KnowledgeCallOK, KnowledgeCalls
  <2>2. entry \in Entries BY <2>1 DEF Entries
  <2>3. <<entry>> \in Seq(Entries) /\ Len(<<entry>>) = 1 /\ <<entry>>[1].to = calls[c].to BY <2>2
  <2>4. record \in Stored BY <2>1, <2>3 DEF Stored
  <2>5. Course(record) BY <2>3, <2>4 DEF Course
  <2>6. disk' = [disk EXCEPT ![calls[c].id] = record] /\ calls' = [Knowledge!Noted(disk', calls) EXCEPT ![c] = Absent]
    BY <1>6 DEF Knowledge!Create
  <2> HIDE DEF record
  <2>q. QED BY <2>1, <2>5, <2>6, <1>5
<1>7. ASSUME NEW c \in Callers, Knowledge!Write(c) PROVE KnowledgeInv'
  <2>1. Course(calls[c].draft) /\ calls[c].id \in Knowledge!Ids
    BY <1>2, <1>7 DEF Knowledge!Write, KnowledgeCallOK, KnowledgeCalls
  <2>q. QED BY <2>1, <1>5, <1>7 DEF Knowledge!Write
<1>8. ASSUME NEW c \in Callers, Knowledge!Read(c) PROVE KnowledgeInv'
  <2> DEFINE old == disk[calls[c].id]
             to == calls[c].to
             draft == [status |-> to, version |-> old.version + 1, history |-> Append(old.history, [from |-> old.status, to |-> to])]
             new == [calls[c] EXCEPT !.at = "write", !.draft = draft]
  <2>1. calls[c] \in KnowledgeCalls /\ to \in Statuses /\ calls[c].id \in Knowledge!Ids
    BY <1>2, <1>8 DEF Knowledge!Read, KnowledgeCallOK, KnowledgeCalls
  <2>2. ASSUME old # Absent, Knowledge!MayMove(old.status, to) PROVE KnowledgeCallOK(new, disk)
    <3>1. Course(old) BY <2>1, <2>2 DEF KnowledgeInv
    <3>2. Course(draft) BY <2>1, <2>2, <3>1, CourseGoesOn
    <3> HIDE DEF draft
    <3>3. draft \in Stored BY <3>2 DEF Course
    <3>4. new \in KnowledgeCalls /\ new.at = "write" /\ new.draft = draft BY <2>1, <3>3 DEF KnowledgeCalls
    <3>q. QED BY <3>2, <3>4 DEF KnowledgeCallOK
  <2>3. calls' = [calls EXCEPT ![c] = Absent] \/ (old # Absent /\ Knowledge!MayMove(old.status, to) /\ calls' = [calls EXCEPT ![c] = new])
    BY <1>8 DEF Knowledge!Read
  <2>4. UNCHANGED disk BY <1>8 DEF Knowledge!Read
  <2> HIDE DEF new, old
  <2>q. QED BY <2>2, <2>3, <2>4, <1>1
<1>9. ASSUME NEW c \in Callers, Knowledge!List(c) PROVE KnowledgeInv'
  <2> DEFINE i == Records[calls[c].next]
             at == IF calls[c].next = Len(Records) THEN "answer" ELSE calls[c].at
             listed == IF disk[i] = Absent THEN calls[c].listed ELSE Append(calls[c].listed, [id |-> i, record |-> disk[i]])
             new == ListedOn(calls[c], at, calls[c].next + 1, listed)
  <2>1. calls[c] \in KnowledgeCalls /\ Listing(calls[c], disk) /\ calls[c].at = "list"
    BY <1>2, <1>9 DEF Knowledge!List, KnowledgeCallOK
  <2>2. calls[c].next \in DOMAIN Records /\ Records \in Seq(Knowledge!Ids) /\ DOMAIN Records = 1..Len(Records) /\ Len(Records) \in Nat
    BY <2>1, RecordsAreListed DEF Listing
  <2>3. i \in Knowledge!Ids BY <2>2 DEF Knowledge!Ids
  <2>4. disk[i] = Absent \/ Course(disk[i]) BY <2>3 DEF KnowledgeInv
  <2>5. calls[c].listed \in Seq(Listed) BY <2>1 DEF KnowledgeCalls
  <2>6. /\ listed \in Seq(Listed)
        /\ \A n \in DOMAIN calls[c].listed : n \in DOMAIN listed /\ listed[n] = calls[c].listed[n]
        /\ \A n \in DOMAIN listed : n \in DOMAIN calls[c].listed \/ (disk[i] # Absent /\ listed[n] = [id |-> i, record |-> disk[i]])
        /\ disk[i] # Absent => \E n \in DOMAIN listed : listed[n] = [id |-> i, record |-> disk[i]]
    <3>1. CASE disk[i] = Absent BY <3>1, <2>5
    <3>2. CASE disk[i] # Absent
      <4> DEFINE item == [id |-> i, record |-> disk[i]]
      <4>1. item \in Listed BY <3>2, <2>3, <2>4 DEF Listed, Course
      <4>2. listed = Append(calls[c].listed, item) BY <3>2
      <4> HIDE DEF item, listed
      <4>3. listed \in Seq(Listed) /\ Len(listed) = Len(calls[c].listed) + 1 /\ DOMAIN listed = 1..Len(listed)
            /\ DOMAIN calls[c].listed = 1..Len(calls[c].listed) /\ Len(calls[c].listed) \in Nat
        BY <4>1, <4>2, <2>5
      <4>4. listed[Len(listed)] = item /\ \A n \in DOMAIN calls[c].listed : listed[n] = calls[c].listed[n]
        BY <4>1, <4>2, <2>5
      <4>q. QED BY <4>3, <4>4, <3>2 DEF item
    <3>q. QED BY <3>1, <3>2
  <2> HIDE DEF listed
  <2>7. at \in {"list", "answer"} BY <2>1
  <2> HIDE DEF at, i
  <2>8. calls[c].next + 1 \in Nat /\ listed \in Seq(Listed) BY <2>1, <2>6 DEF KnowledgeCalls
  <2>9. /\ new \in KnowledgeCalls
        /\ new.at = at /\ new.next = calls[c].next + 1 /\ new.listed = listed
        /\ new.approvedOnce = calls[c].approvedOnce /\ new.approvedThroughout = calls[c].approvedThroughout
    <3> DEFINE call == calls[c]
               next == calls[c].next + 1
    <3>1. call \in KnowledgeCalls /\ at \in {"list", "answer"} /\ next \in Nat /\ listed \in Seq(Listed)
      BY <2>1, <2>7, <2>8
    <3> HIDE DEF call, next
    <3>2. GoesOn(ListedOn(call, at, next, listed), call, at, next, listed) BY <3>1, ListingGoesOn
    <3>q. QED BY <3>2 DEF call, next, GoesOn
  <2> USE DEF at, i
  <2> HIDE DEF new
  <2>10. ASSUME NEW n \in DOMAIN listed, Knowledge!Authoritative(listed[n].record) PROVE listed[n].id \in calls[c].approvedOnce
    <3>1. CASE n \in DOMAIN calls[c].listed BY <3>1, <2>1, <2>6, <2>10 DEF Listing
    <3>2. CASE disk[i] # Absent /\ listed[n] = [id |-> i, record |-> disk[i]]
      <4>1. listed[n].id = i /\ listed[n].record = disk[i] BY <3>2
      <4>2. i \in Knowledge!Approved(disk) BY <4>1, <3>2, <2>3, <2>10 DEF Knowledge!Approved, Knowledge!Authoritative
      <4>q. QED BY <4>1, <4>2, <2>1 DEF Listing
    <3>q. QED BY <3>1, <3>2, <2>6
  <2>11. ASSUME NEW k \in DOMAIN Records, Visited(new, k), Records[k] \in calls[c].approvedThroughout
         PROVE \E n \in DOMAIN listed : Knowledge!Authoritative(listed[n].record)
    <3>1. k <= calls[c].next
      BY <2>2, <2>9, <2>11, <2>1 DEF Visited
    <3>2. CASE k < calls[c].next
      <4>1. PICK n \in DOMAIN calls[c].listed : Knowledge!Authoritative(calls[c].listed[n].record)
        BY <3>2, <2>1, <2>11 DEF Listing, Visited
      <4>q. QED BY <4>1, <2>6
    <3>3. CASE k = calls[c].next
      <4>1. i \in Knowledge!Approved(disk) BY <3>3, <2>1, <2>11 DEF Listing
      <4>2. disk[i] # Absent /\ Knowledge!Authoritative(disk[i]) BY <4>1 DEF Knowledge!Approved, Knowledge!Authoritative
      <4>3. PICK n \in DOMAIN listed : listed[n] = [id |-> i, record |-> disk[i]] BY <4>2, <2>6
      <4>q. QED BY <4>2, <4>3
    <3>q. QED BY <3>1, <3>2, <3>3, <2>2
  <2>12. at = "list" => new.next \in DOMAIN Records BY <2>1, <2>2, <2>9
  <2>13. Listing(new, disk) BY <2>1, <2>9, <2>10, <2>11, <2>12 DEF Listing
  <2>14. KnowledgeCallOK(new, disk) BY <2>7, <2>9, <2>13 DEF KnowledgeCallOK
  <2>15. calls' = [calls EXCEPT ![c] = new] /\ UNCHANGED disk BY <1>9 DEF Knowledge!List, new, listed, ListedOn
  <2>q. QED BY <2>14, <2>15, <1>1
<1>10. ASSUME NEW c \in Callers, Knowledge!Answer(c) PROVE KnowledgeInv'
  BY <1>10, <1>1 DEF Knowledge!Answer
<1>q. QED BY <1>4, <1>6, <1>7, <1>8, <1>9, <1>10 DEF Knowledge!KnowledgeNext

---------------------------------------------------------------------------
(* Proposals: runProjectInit and reviewProposal *)

Lists == UNION {[S -> {"proposed"} \cup Decisions] : S \in SUBSET Proposals!Proposed}
Kept ==
  [init : {Absent} \cup ProjectAnswers, latest : {Absent} \cup Lists, decided : SUBSET (Proposals!Ids \X Decisions),
   standing : Proposals!Reviews, apart : SUBSET Proposals!Ids, unread : SUBSET Proposals!Ids]
Draftings == [at : {"draft", "meta"}, answers : ProjectAnswers, next : Nat]
Listings ==
  [at : {"dir", "tell", "keep", "answer"}, purpose : {"print", "snapshot"}, found : SUBSET Proposals!Proposed,
   told : {Absent} \cup Lists]

AllDecided(list, decided) == \A k \in DOMAIN list : list[k] = "proposed" \/ <<k, list[k]>> \in decided
Asked(reviews, decided) == \A i \in Proposals!Ids : reviews[i] # Absent => <<i, reviews[i]>> \in decided

DraftingOK(call) == call \in Draftings /\ (call.at = "draft" => call.next \in DOMAIN ProposalKinds)
ReviewingOK(call, reviews, docs, decided) ==
  /\ call \in Proposals!Reviewings
  /\ <<call.id, call.decision>> \in decided
  /\ call.at = "write" => call.held \in Proposals!Reviews /\ Asked(call.held, decided) /\ (call.overtaken \/ call.held = reviews)
  /\ call.at \in {"read", "rewrite"} => call.id \in Proposals!Proposed /\ docs[call.id] # Absent
  /\ call.at = "rewrite" => call.draft \in Proposals!Docs /\ call.draft.line = call.decision
ListingOK(call, decided) ==
  /\ call \in Listings
  /\ call.at \in {"keep", "answer"} => call.told \in Lists /\ AllDecided(call.told, decided)
ProposalCallOK(call, reviews, docs, decided) ==
  DraftingOK(call) \/ ReviewingOK(call, reviews, docs, decided) \/ ListingOK(call, decided)

Marks(call, k) == call # Absent /\ call.at \in {"match", "read", "rewrite"} /\ call.id = k
Tells(doc, review) == IF review = Absent THEN doc.line \in {Absent, "proposed"} ELSE doc.line = review
ProposalInv ==
  /\ IsCalls
  /\ disk \in Proposals!Reviews /\ Asked(disk, past.decided)
  /\ world \in [Proposals!Proposed -> {Absent} \cup Proposals!Docs]
  /\ past \in Kept /\ (past.latest # Absent => AllDecided(past.latest, past.decided))
  /\ \A i \in Proposals!Ids : past.standing[i] # Absent => disk[i] = past.standing[i]
  /\ \A c \in Callers : calls[c] = Absent \/ ProposalCallOK(calls[c], disk, world, past.decided)
  /\ \A c \in Callers, k \in Proposals!Proposed \ past.apart : Marks(calls[c], k) => disk[k] = calls[c].decision
  /\ \A k \in Proposals!Proposed \ past.apart :
       world[k] # Absent /\ (\A c \in Callers : ~Marks(calls[c], k)) => Tells(world[k], disk[k])

\* Without proposals nothing is decided.
LEMMA ProposalStarts == Proposals!ProposalInit => ProposalInv
<1> SUFFICES ASSUME Proposals!ProposalInit PROVE ProposalInv OBVIOUS
<1>1. past = [init |-> Absent, latest |-> Absent, decided |-> {}, standing |-> [i \in Proposals!Ids |-> Absent],
              apart |-> {}, unread |-> {}]
  BY DEF Proposals!ProposalInit
<1>2. past \in Kept BY <1>1 DEF Kept, Proposals!Reviews
<1>q. QED BY <1>1, <1>2 DEF Proposals!ProposalInit, ProposalInv, IsCalls, Proposals!Reviews, Asked, Marks

\* Statuses were decided, a review that was not overtaken stands, and a file tells its review.
LEMMA ProposalAnswers ==
  ProposalInv => Proposals!StatusesAreDecided /\ Proposals!ReviewsStand /\ Proposals!FilesTellReviews
<1> SUFFICES ASSUME ProposalInv PROVE Proposals!StatusesAreDecided /\ Proposals!ReviewsStand /\ Proposals!FilesTellReviews OBVIOUS
<1>1. ASSUME NEW c \in Callers, Proposals!At(c, "answer"), NEW k \in DOMAIN calls[c].told
      PROVE Proposals!IsDecided(k, calls[c].told[k])
  <2>1. ProposalCallOK(calls[c], disk, world, past.decided) /\ calls[c].at = "answer" BY <1>1 DEF ProposalInv, Proposals!At
  <2>2. ListingOK(calls[c], past.decided)
    BY <2>1 DEF ProposalCallOK, DraftingOK, ReviewingOK, Draftings, Proposals!Reviewings
  <2>q. QED BY <2>1, <2>2, <1>1 DEF ListingOK, AllDecided, Proposals!IsDecided
<1>2. Proposals!StatusesAreDecided
  BY <1>1 DEF ProposalInv, Proposals!StatusesAreDecided, Asked, AllDecided, Proposals!IsDecided
<1>3. Proposals!ReviewsStand BY DEF ProposalInv, Proposals!ReviewsStand
<1>4. \A c \in Callers, k \in Proposals!Proposed : Proposals!Marking(c, k) <=> Marks(calls[c], k) BY DEF Proposals!Marking, Marks
<1>5. Proposals!FilesTellReviews BY <1>4 DEF ProposalInv, Proposals!FilesTellReviews, Tells
<1>q. QED BY <1>2, <1>3, <1>5

\* What has been decided stays decided.
LEMMA DecidedStays ==
  ASSUME NEW call, NEW reviews, NEW docs, NEW decided, NEW more, decided \subseteq more,
         ProposalCallOK(call, reviews, docs, decided)
  PROVE ProposalCallOK(call, reviews, docs, more)
BY DEF ProposalCallOK, ReviewingOK, ListingOK, Asked, AllDecided

\* A call that reads the files is right about later ones, as none is deleted.
LEMMA FilesStay ==
  ASSUME NEW call, NEW reviews, NEW docs, NEW later, NEW decided, ProposalCallOK(call, reviews, docs, decided),
         \A k \in Proposals!Proposed : docs[k] # Absent => later[k] # Absent
  PROVE ProposalCallOK(call, reviews, later, decided)
BY DEF ProposalCallOK, ReviewingOK

\* A file is not the lack of one.
LEMMA FilesAreThere == \A doc \in Proposals!Docs : doc # Absent
BY ProposalsAreListed

\* Where a call is tells which of the three functions it is in.
LEMMA KindOfCall ==
  ASSUME ProposalInv, NEW c \in Callers, calls[c] # Absent
  PROVE /\ calls[c].at \in {"draft", "meta"} => DraftingOK(calls[c])
        /\ calls[c].at \in {"load", "write", "match", "read", "rewrite"} => ReviewingOK(calls[c], disk, world, past.decided)
        /\ calls[c].at \in {"dir", "tell", "keep", "answer"} => ListingOK(calls[c], past.decided)
BY DEF ProposalInv, ProposalCallOK, DraftingOK, ReviewingOK, ListingOK, Draftings, Proposals!Reviewings, Listings

\* Steps of one call that write neither the reviews nor a file.
LEMMA ProposalMoves ==
  ASSUME ProposalInv, NEW c \in Callers, NEW new, calls' = [calls EXCEPT ![c] = new], UNCHANGED <<disk, world>>,
         past' \in Kept, past.decided \subseteq past'.decided, past'.standing = past.standing, past.apart \subseteq past'.apart,
         past'.latest # Absent => AllDecided(past'.latest, past'.decided),
         new = Absent \/ ProposalCallOK(new, disk, world, past'.decided),
         \A k \in Proposals!Proposed : Marks(new, k) => Marks(calls[c], k) /\ new.decision = calls[c].decision,
         \A k \in Proposals!Proposed : Marks(calls[c], k) => Marks(new, k) \/ world[k] = Absent \/ k \in past'.apart
  PROVE ProposalInv'
<1>1. IsCalls' /\ calls'[c] = new /\ \A d \in Callers : d # c => calls'[d] = calls[d] BY OneCallMoves DEF ProposalInv
<1>2. ASSUME NEW d \in Callers PROVE calls'[d] = Absent \/ ProposalCallOK(calls'[d], disk', world', past'.decided)
  BY <1>1, DecidedStays DEF ProposalInv
<1>3. Asked(disk', past'.decided) BY DEF ProposalInv, Asked
<1>4. ASSUME NEW d \in Callers, NEW k \in Proposals!Proposed \ past'.apart, Marks(calls'[d], k)
      PROVE disk'[k] = calls'[d].decision
  <2>1. Marks(calls[d], k) /\ calls'[d].decision = calls[d].decision BY <1>1, <1>4
  <2>q. QED BY <2>1 DEF ProposalInv
<1>5. ASSUME NEW k \in Proposals!Proposed \ past'.apart, world'[k] # Absent, \A d \in Callers : ~Marks(calls'[d], k)
      PROVE Tells(world'[k], disk'[k])
  <2>1. \A d \in Callers : ~Marks(calls[d], k) BY <1>1, <1>5
  <2>q. QED BY <2>1, <1>5 DEF ProposalInv
<1>q. QED BY <1>1, <1>2, <1>3, <1>4, <1>5 DEF ProposalInv

DraftedOn(call, at, next) == [call EXCEPT !.next = next, !.at = at]
\* The fields of a runProjectInit that has written one file more.
LEMMA DraftingGoesOn ==
  ASSUME NEW call \in Draftings, NEW at \in {"draft", "meta"}, NEW next \in Nat
  PROVE LET new == DraftedOn(call, at, next) IN new \in Draftings /\ new.at = at /\ new.next = next
BY DEF DraftedOn, Draftings

KeptNow(kept, unread, standing, apart) == [kept EXCEPT !.unread = unread, !.standing = standing, !.apart = apart]
\* The fields of the history that a review changes.
LEMMA KeptChanges ==
  ASSUME NEW kept \in Kept, NEW unread \in SUBSET Proposals!Ids, NEW apart \in SUBSET Proposals!Ids, NEW standing \in Proposals!Reviews
  PROVE LET new == KeptNow(kept, unread, standing, apart) IN
        /\ new \in Kept
        /\ new.init = kept.init /\ new.latest = kept.latest /\ new.decided = kept.decided
        /\ new.standing = standing /\ new.apart = apart /\ new.unread = unread
BY DEF Kept, KeptNow

\* runProjectInit overwrites a file: what was reviewed before is apart from now on.
LEMMA WriteDraftSteps ==
  ASSUME ProposalInv, NEW c \in Callers, Proposals!WriteDraft(c)
  PROVE ProposalInv'
<1> DEFINE kind == ProposalKinds[calls[c].next]
           draft == Proposals!Draft(kind, calls[c].answers)
           at == IF calls[c].next = Len(ProposalKinds) THEN "meta" ELSE calls[c].at
           apart == IF disk[kind] # Absent \/ Proposals!Reviewing(c, kind) THEN past.apart \cup {kind} ELSE past.apart
           new == DraftedOn(calls[c], at, calls[c].next + 1)
<1>1. DraftingOK(calls[c]) /\ calls[c].at = "draft" /\ calls[c] # Absent BY KindOfCall DEF Proposals!WriteDraft, Proposals!At
<1>2. DOMAIN ProposalKinds = 1..Len(ProposalKinds) /\ Len(ProposalKinds) \in Nat BY ProposalsAreListed
<1>3. kind \in Proposals!Proposed /\ kind \in Proposals!Ids BY <1>1, <1>2 DEF DraftingOK, Proposals!Proposed, Proposals!Ids
<1>4. draft \in Proposals!Docs /\ draft.line \in {Absent, "proposed"} BY <1>1 DEF DraftingOK, Draftings, Proposals!Draft, Proposals!Docs
<1>5. DraftingOK(new) /\ new.at \in {"draft", "meta"}
  <2>1. at \in {"draft", "meta"} /\ calls[c].next + 1 \in Nat /\ calls[c] \in Draftings BY <1>1 DEF DraftingOK, Draftings
  <2>2. at = "draft" => calls[c].next + 1 \in DOMAIN ProposalKinds BY <1>1, <1>2 DEF DraftingOK
  <2> HIDE DEF at
  <2>3. new \in Draftings /\ new.at = at /\ new.next = calls[c].next + 1 BY <2>1, DraftingGoesOn
  <2>q. QED BY <2>1, <2>2, <2>3 DEF DraftingOK
<1>6. calls' = [calls EXCEPT ![c] = new] BY DEF Proposals!WriteDraft, DraftedOn
<1>7. world' = [world EXCEPT ![kind] = draft] /\ UNCHANGED disk BY DEF Proposals!WriteDraft
<1>8. past \in Kept /\ past' = [past EXCEPT !.unread = @ \cup {kind}, !.apart = apart]
  BY DEF Proposals!WriteDraft, ProposalInv
<1>9. apart \in SUBSET Proposals!Ids /\ past.unread \cup {kind} \in SUBSET Proposals!Ids BY <1>3, <1>8 DEF Kept
<1> HIDE DEF new, at
<1>10. past' \in Kept /\ past'.decided = past.decided /\ past'.standing = past.standing /\ past'.latest = past.latest /\ past'.apart = apart
  <2> HIDE DEF apart, kind
  <2>q. QED BY <1>8, <1>9 DEF Kept
<1>11. past.apart \subseteq apart OBVIOUS
<1>12. world' \in [Proposals!Proposed -> {Absent} \cup Proposals!Docs] /\ world'[kind] = draft
       /\ \A k \in Proposals!Proposed : k # kind => world'[k] = world[k]
  <2> HIDE DEF kind, draft
  <2>q. QED BY <1>3, <1>4, <1>7 DEF ProposalInv
<1>13. draft # Absent
  <2> HIDE DEF draft
  <2>q. QED BY <1>4, FilesAreThere
<1>14. IsCalls' /\ calls'[c] = new /\ \A d \in Callers : d # c => calls'[d] = calls[d] BY <1>6, OneCallMoves DEF ProposalInv
<1>15. ASSUME NEW d \in Callers PROVE calls'[d] = Absent \/ ProposalCallOK(calls'[d], disk', world', past'.decided)
  <2>1. CASE d = c BY <2>1, <1>5, <1>14 DEF ProposalCallOK
  <2>2. CASE d # c
    <3>1. calls[d] = Absent \/ ProposalCallOK(calls[d], disk, world, past.decided) BY DEF ProposalInv
    <3>2. \A k \in Proposals!Proposed : world[k] # Absent => world'[k] # Absent
      <4> HIDE DEF kind, draft
      <4>q. QED BY <1>12, <1>13
    <3> HIDE DEF kind, draft, apart
    <3>q. QED BY <2>2, <3>1, <3>2, <1>7, <1>10, <1>14, FilesStay
  <2>q. QED BY <2>1, <2>2
<1>16. \A d \in Callers, k \in Proposals!Proposed : Marks(calls'[d], k) <=> d # c /\ Marks(calls[d], k)
  BY <1>1, <1>5, <1>14 DEF Marks
<1>17. ASSUME NEW d \in Callers, NEW k \in Proposals!Proposed \ past'.apart, Marks(calls'[d], k)
       PROVE disk'[k] = calls'[d].decision
  <2> HIDE DEF apart
  <2>1. Marks(calls[d], k) /\ calls'[d] = calls[d] /\ k \notin past.apart BY <1>10, <1>11, <1>14, <1>16, <1>17
  <2>q. QED BY <2>1, <1>7, <1>17 DEF ProposalInv
<1>18. ASSUME NEW k \in Proposals!Proposed \ past'.apart, world'[k] # Absent, \A d \in Callers : ~Marks(calls'[d], k)
       PROVE Tells(world'[k], disk'[k])
  <2>1. CASE k = kind
    <3>1. disk[k] = Absent BY <2>1, <1>10, <1>18
    <3> HIDE DEF kind, draft
    <3>2. world'[k] = draft BY <2>1, <1>12
    <3>q. QED BY <3>1, <3>2, <1>4, <1>7 DEF Tells
  <2>2. CASE k # kind
    <3> HIDE DEF kind, draft, apart
    <3>1. k \notin past.apart /\ world'[k] = world[k] BY <2>2, <1>10, <1>11, <1>12, <1>18
    <3>2. \A d \in Callers : ~Marks(calls[d], k) BY <1>1, <1>16, <1>18 DEF Marks
    <3>q. QED BY <3>1, <3>2, <1>7, <1>18 DEF ProposalInv
  <2>q. QED BY <2>1, <2>2
<1> HIDE DEF kind, draft, apart
<1>q. QED BY <1>7, <1>10, <1>12, <1>14, <1>15, <1>17, <1>18 DEF ProposalInv

\* Reviewing another call of the same id makes it apart
ReviewsOn(call, at) == [call EXCEPT !.at = at]
\* reviewProposal writes back the whole of reviews.json, overtaking who read it before.
LEMMA WriteReviewsSteps ==
  ASSUME ProposalInv, NEW c \in Callers, Proposals!WriteReviews(c)
  PROVE ProposalInv'
<1> DEFINE id == calls[c].id
           decision == calls[c].decision
           written == Proposals!Reviewed(calls[c].held, id, decision)
           changed == {i \in Proposals!Ids : i # id /\ written[i] # disk[i]}
           apart == past.apart \cup changed \cup (IF Proposals!Reviewing(c, id) THEN {id} ELSE {})
           standing == IF calls[c].overtaken THEN written ELSE Proposals!Reviewed(past.standing, id, decision)
           unread == past.unread \ {id}
           new == [calls[c] EXCEPT !.at = "match"]
<1>1. ReviewingOK(calls[c], disk, world, past.decided) /\ calls[c].at = "write" /\ calls[c] # Absent
  BY KindOfCall DEF Proposals!WriteReviews, Proposals!At
<1>2. id \in Proposals!Ids /\ decision \in Decisions /\ calls[c].held \in Proposals!Reviews /\ past \in Kept /\ disk \in Proposals!Reviews
  BY <1>1 DEF ReviewingOK, Proposals!Reviewings, ProposalInv
<1>3. written \in Proposals!Reviews /\ written[id] = decision /\ \A i \in Proposals!Ids : i # id => written[i] = calls[c].held[i]
  BY <1>2 DEF Proposals!Reviews, Proposals!Reviewed
<1>4. Asked(written, past.decided)
  <2> HIDE DEF written
  <2>q. QED BY <1>1, <1>3 DEF Asked, ReviewingOK
<1>5. past.standing \in Proposals!Reviews BY <1>2 DEF Kept
<1>6. standing \in Proposals!Reviews /\ \A i \in Proposals!Ids : standing[i] # Absent => written[i] = standing[i]
  <2>1. CASE calls[c].overtaken BY <2>1, <1>3
  <2>2. CASE ~calls[c].overtaken
    <3>1. standing = Proposals!Reviewed(past.standing, id, decision) BY <2>2
    <3>2. standing \in Proposals!Reviews /\ standing[id] = decision /\ \A i \in Proposals!Ids : i # id => standing[i] = past.standing[i]
      BY <3>1, <1>2, <1>5 DEF Proposals!Reviews, Proposals!Reviewed
    <3>3. calls[c].held = disk BY <2>2, <1>1 DEF ReviewingOK
    <3> HIDE DEF standing, written
    <3>q. QED BY <3>2, <3>3, <1>3 DEF ProposalInv
  <2>q. QED BY <2>1, <2>2
<1>7. apart \in SUBSET Proposals!Ids /\ past.apart \subseteq apart BY <1>2 DEF Kept
<1>8. unread \in SUBSET Proposals!Ids BY <1>2 DEF Kept
<1>9. disk' = written /\ UNCHANGED world BY DEF Proposals!WriteReviews
<1>10. past' = KeptNow(past, unread, standing, apart) BY DEF Proposals!WriteReviews, KeptNow
<1>11. /\ past' \in Kept /\ past'.decided = past.decided /\ past'.standing = standing /\ past'.latest = past.latest
       /\ past'.apart = apart
  <2> HIDE DEF apart, standing, unread
  <2>q. QED BY <1>2, <1>6, <1>7, <1>8, <1>10, KeptChanges
<1>12. calls' = [Proposals!Overtaken(c) EXCEPT ![c] = new]
  BY <1>1 DEF Proposals!WriteReviews, Proposals!Overtaken
<1>13. calls'[c] = new /\ IsCalls' BY <1>12 DEF Proposals!Overtaken, IsCalls
<1>14. ASSUME NEW d \in Callers, d # c
       PROVE calls'[d] = calls[d] \/ (calls[d] # Absent /\ calls[d].at = "write" /\ calls'[d] = [calls[d] EXCEPT !.overtaken = TRUE])
  BY <1>12, <1>14 DEF Proposals!Overtaken
<1>15. new \in Proposals!Reviewings /\ new.at = "match" /\ new.id = id /\ new.decision = decision BY <1>1 DEF ReviewingOK, Proposals!Reviewings
<1> HIDE DEF new
<1>16. ASSUME NEW d \in Callers PROVE calls'[d] = Absent \/ ProposalCallOK(calls'[d], disk', world', past'.decided)
  <2>1. CASE d = c
    <3>1. ReviewingOK(new, disk', world', past'.decided) BY <1>1, <1>11, <1>15 DEF ReviewingOK
    <3>q. QED BY <3>1, <2>1, <1>13 DEF ProposalCallOK
  <2>2. CASE d # c /\ calls[d] # Absent /\ calls[d].at = "write"
    <3> DEFINE late == [calls[d] EXCEPT !.overtaken = TRUE]
    <3>1. calls'[d] = late BY <2>2, <1>12 DEF Proposals!Overtaken
    <3>2. ReviewingOK(calls[d], disk, world, past.decided) BY <2>2, KindOfCall
    <3>3. /\ late \in Proposals!Reviewings /\ late.at = "write" /\ late.id = calls[d].id /\ late.decision = calls[d].decision
          /\ late.held = calls[d].held /\ late.overtaken
      BY <2>2, <3>2 DEF ReviewingOK, Proposals!Reviewings
    <3> HIDE DEF late
    <3>4. ReviewingOK(late, disk', world', past'.decided) BY <2>2, <3>2, <3>3, <1>11 DEF ReviewingOK
    <3>q. QED BY <3>1, <3>4 DEF ProposalCallOK
  <2>3. CASE d # c /\ calls[d] # Absent /\ calls[d].at # "write"
    <3>1. calls'[d] = calls[d] BY <2>3, <1>14
    <3>2. ProposalCallOK(calls[d], disk', world', past'.decided)
      BY <2>3, <1>9, <1>11 DEF ProposalInv, ProposalCallOK, ReviewingOK
    <3>q. QED BY <3>1, <3>2
  <2>4. CASE d # c /\ calls[d] = Absent BY <2>4, <1>14
  <2>q. QED BY <2>1, <2>2, <2>3, <2>4
<1>17. ASSUME NEW d \in Callers, d # c, NEW k \in Proposals!Proposed
       PROVE /\ Marks(calls'[d], k) <=> Marks(calls[d], k)
             /\ Marks(calls[d], k) => calls'[d] = calls[d]
  <2>1. CASE calls'[d] = calls[d] BY <2>1
  <2>2. CASE calls[d] # Absent /\ calls[d].at = "write" /\ calls'[d] = [calls[d] EXCEPT !.overtaken = TRUE]
    <3>1. ReviewingOK(calls[d], disk, world, past.decided) BY <2>2, KindOfCall
    <3>2. calls'[d].at = "write" BY <2>2, <3>1 DEF ReviewingOK, Proposals!Reviewings
    <3>q. QED BY <2>2, <3>2 DEF Marks
  <2>q. QED BY <2>1, <2>2, <1>14, <1>17
<1>18. ASSUME NEW d \in Callers, NEW k \in Proposals!Proposed \ past'.apart, Marks(calls'[d], k)
       PROVE disk'[k] = calls'[d].decision
  <2>1. k \notin changed /\ k \notin past.apart /\ (k = id => ~Proposals!Reviewing(c, id)) /\ k \in Proposals!Ids
    BY <1>11, <1>18 DEF Proposals!Ids
  <2>2. CASE d = c
    <3>1. k = id BY <2>2, <1>13, <1>15, <1>18 DEF Marks
    <3>q. QED BY <3>1, <2>2, <1>3, <1>9, <1>13, <1>15
  <2>3. CASE d # c
    <3>1. Marks(calls[d], k) /\ calls'[d] = calls[d] BY <2>3, <1>17, <1>18
    <3>2. disk[k] = calls[d].decision BY <3>1, <2>1 DEF ProposalInv
    <3>3. k # id BY <2>1, <2>3, <3>1 DEF Marks, Proposals!Reviewing
    <3>4. written[k] = disk[k] BY <2>1, <3>3
    <3>q. QED BY <3>1, <3>2, <3>4, <1>9
  <2>q. QED BY <2>2, <2>3
<1>19. ASSUME NEW k \in Proposals!Proposed \ past'.apart, world'[k] # Absent, \A d \in Callers : ~Marks(calls'[d], k)
       PROVE Tells(world'[k], disk'[k])
  <2>1. k \notin changed /\ k \notin past.apart /\ k \in Proposals!Ids BY <1>11, <1>19 DEF Proposals!Ids
  <2>2. k # id
    <3>1. new # Absent BY <1>15, ProposalsAreListed DEF Proposals!Reviewings, Proposals!Reviews, Proposals!Docs
    <3>q. QED BY <3>1, <1>13, <1>15, <1>19 DEF Marks
  <2>3. written[k] = disk[k] BY <2>1, <2>2
  <2>4. \A d \in Callers : ~Marks(calls[d], k) BY <1>1, <1>17, <1>19 DEF Marks
  <2>q. QED BY <2>1, <2>3, <2>4, <1>9, <1>19 DEF ProposalInv
<1> HIDE DEF written, changed, apart, standing, unread
<1>q. QED BY <1>3, <1>4, <1>6, <1>9, <1>11, <1>13, <1>16, <1>18, <1>19 DEF ProposalInv

\* reviewProposal writes the status line last, and by itself it brings the two together.
LEMMA RewriteSteps ==
  ASSUME ProposalInv, NEW c \in Callers, Proposals!Rewrite(c)
  PROVE ProposalInv'
<1> DEFINE id == calls[c].id
           decision == calls[c].decision
           draft == calls[c].draft
<1>1. ReviewingOK(calls[c], disk, world, past.decided) /\ calls[c].at = "rewrite" /\ calls[c] # Absent
  BY KindOfCall DEF Proposals!Rewrite, Proposals!At
<1>2. /\ id \in Proposals!Proposed /\ decision \in Decisions /\ draft \in Proposals!Docs /\ draft.line = decision
      /\ past \in Kept /\ disk \in Proposals!Reviews
  BY <1>1 DEF ReviewingOK, Proposals!Reviewings, ProposalInv
<1>3. calls' = [calls EXCEPT ![c] = Absent] /\ UNCHANGED disk BY DEF Proposals!Rewrite, Proposals!Leave
<1>4. IsCalls' /\ calls'[c] = Absent /\ \A d \in Callers : d # c => calls'[d] = calls[d] BY <1>3, OneCallMoves DEF ProposalInv
<1>5. /\ world' \in [Proposals!Proposed -> {Absent} \cup Proposals!Docs] /\ world'[id] = draft
      /\ \A k \in Proposals!Proposed : k # id => world'[k] = world[k]
  <2>1. world' = [world EXCEPT ![id] = draft] BY DEF Proposals!Rewrite
  <2> HIDE DEF id, draft
  <2>q. QED BY <2>1, <1>2 DEF ProposalInv
<1>6. draft # Absent BY <1>2, FilesAreThere
<1> DEFINE alone == disk[id] = decision /\ ~Proposals!Reviewing(c, id)
<1>7. /\ alone => past' = [past EXCEPT !.apart = @ \ {id}]
      /\ ~alone => past' = past
  BY DEF Proposals!Rewrite
<1>8. /\ past' \in Kept /\ past'.decided = past.decided /\ past'.standing = past.standing /\ past'.latest = past.latest
      /\ alone => past'.apart = past.apart \ {id}
      /\ ~alone => past'.apart = past.apart
  <2> HIDE DEF alone, id
  <2>q. QED BY <1>2, <1>7 DEF Kept
<1>9. ASSUME NEW d \in Callers PROVE calls'[d] = Absent \/ ProposalCallOK(calls'[d], disk', world', past'.decided)
  <2>1. \A k \in Proposals!Proposed : world[k] # Absent => world'[k] # Absent
    <3> HIDE DEF id, draft
    <3>q. QED BY <1>5, <1>6
  <2>2. calls'[d] = Absent \/ (calls'[d] = calls[d] /\ calls[d] # Absent) BY <1>4
  <2>3. calls[d] = Absent \/ ProposalCallOK(calls[d], disk, world, past.decided) BY DEF ProposalInv
  <2> HIDE DEF id, draft, decision, alone
  <2>q. QED BY <2>1, <2>2, <2>3, <1>3, <1>8, FilesStay
<1>10. \A d \in Callers, k \in Proposals!Proposed : Marks(calls'[d], k) => Marks(calls[d], k) /\ calls'[d] = calls[d] /\ d # c
  BY <1>4 DEF Marks
<1>11. \A d \in Callers, k \in Proposals!Proposed : Marks(calls[d], k) /\ d # c => Marks(calls'[d], k)
  BY <1>4 DEF Marks
<1>12. \A k \in Proposals!Proposed : Marks(calls[c], k) => k = id BY DEF Marks
<1>13. Marks(calls[c], id) BY <1>1 DEF Marks
<1>14. ASSUME NEW d \in Callers, NEW k \in Proposals!Proposed \ past'.apart, Marks(calls'[d], k)
       PROVE disk'[k] = calls'[d].decision
  <2>1. Marks(calls[d], k) /\ calls'[d] = calls[d] /\ d # c BY <1>10, <1>14
  <2>2. k \notin past.apart
    <3>1. CASE alone
      <4>1. k # id BY <2>1, <3>1 DEF Marks, Proposals!Reviewing
      <4> HIDE DEF id, alone
      <4>q. QED BY <4>1, <3>1, <1>8, <1>14
    <3>2. CASE ~alone BY <3>2, <1>8, <1>14
    <3>q. QED BY <3>1, <3>2
  <2>q. QED BY <2>1, <2>2, <1>3 DEF ProposalInv
<1>15. ASSUME NEW k \in Proposals!Proposed \ past'.apart, world'[k] # Absent, \A d \in Callers : ~Marks(calls'[d], k)
       PROVE Tells(world'[k], disk'[k])
  <2>1. CASE k = id
    <3>1. disk[id] = decision
      <4>1. CASE alone BY <4>1
      <4>2. CASE ~alone
        <5>1. id \notin past.apart BY <4>2, <2>1, <1>8, <1>15
        <5>q. QED BY <5>1, <1>2, <1>13 DEF ProposalInv
      <4>q. QED BY <4>1, <4>2
    <3> HIDE DEF id, decision, draft
    <3>q. QED BY <3>1, <2>1, <1>2, <1>3, <1>5, ProposalsAreListed DEF Tells
  <2>2. CASE k # id
    <3> HIDE DEF id, decision, draft, alone
    <3>1. k \notin past.apart /\ world'[k] = world[k] BY <2>2, <1>5, <1>8, <1>15
    <3>2. \A d \in Callers : ~Marks(calls[d], k) BY <2>2, <1>11, <1>12, <1>15
    <3>q. QED BY <3>1, <3>2, <1>3, <1>15 DEF ProposalInv
  <2>q. QED BY <2>1, <2>2
<1> HIDE DEF id, decision, draft, alone
<1>q. QED BY <1>3, <1>4, <1>5, <1>8, <1>9, <1>14, <1>15 DEF ProposalInv

\* What is read of reviews.json, all of it or none, was asked for.
LEMMA LoadedWereAsked ==
  ASSUME ProposalInv, NEW found \in Proposals!Loaded
  PROVE found \in Proposals!Reviews /\ Asked(found, past.decided)
BY DEF ProposalInv, Proposals!Loaded, Proposals!Reviews, Asked

\* Every step of a proposal's three functions.
LEMMA ProposalSteps ==
  ASSUME ProposalInv, Proposals!ProposalNext
  PROVE ProposalInv'
<1> USE DEF Proposals!At
<1>0. past \in Kept /\ disk \in Proposals!Reviews /\ world \in [Proposals!Proposed -> {Absent} \cup Proposals!Docs]
      /\ (past.latest # Absent => AllDecided(past.latest, past.decided))
  BY DEF ProposalInv
\* A step that keeps the history, to a call that marks what it marked.
<1>1. ASSUME NEW c \in Callers, NEW new, calls' = [calls EXCEPT ![c] = new], UNCHANGED <<disk, world, past>>,
             new = Absent \/ ProposalCallOK(new, disk, world, past.decided),
             \A k \in Proposals!Proposed : Marks(new, k) => Marks(calls[c], k) /\ new.decision = calls[c].decision,
             \A k \in Proposals!Proposed : Marks(calls[c], k) => Marks(new, k) \/ world[k] = Absent
      PROVE ProposalInv'
  BY <1>0, <1>1, ProposalMoves
<1>2. ASSUME NEW c \in Callers, Proposals!BeginInit(c) PROVE ProposalInv'
  <2>1. PICK answers \in ProjectAnswers : calls' = [calls EXCEPT ![c] = [at |-> "draft", answers |-> answers, next |-> 1]]
    BY <1>2 DEF Proposals!BeginInit, Proposals!Begin
  <2> DEFINE new == [at |-> "draft", answers |-> answers, next |-> 1]
  <2>2. DraftingOK(new) /\ new.at = "draft" BY ProposalsAreListed DEF DraftingOK, Draftings
  <2>3. calls[c] = Absent /\ UNCHANGED <<disk, world, past>> BY <1>2 DEF Proposals!BeginInit, Proposals!Begin
  <2> HIDE DEF new
  <2>q. QED BY <2>1, <2>2, <2>3, <1>1 DEF new, ProposalCallOK, Marks
<1>3. ASSUME NEW c \in Callers, Proposals!WriteMeta(c) PROVE ProposalInv'
  <2>1. DraftingOK(calls[c]) /\ calls[c].at = "meta" BY <1>3, KindOfCall DEF Proposals!WriteMeta
  <2>2. calls[c].answers \in ProjectAnswers BY <2>1 DEF DraftingOK, Draftings
  <2>3. past' = [past EXCEPT !.init = calls[c].answers] BY <1>3 DEF Proposals!WriteMeta
  <2>4. /\ past' \in Kept /\ past'.decided = past.decided /\ past'.standing = past.standing /\ past'.latest = past.latest
        /\ past'.apart = past.apart
    BY <2>2, <2>3, <1>0 DEF Kept
  <2>5. calls' = [calls EXCEPT ![c] = Absent] /\ UNCHANGED <<disk, world>> BY <1>3 DEF Proposals!WriteMeta, Proposals!Leave
  <2>6. \A k \in Proposals!Proposed : ~Marks(calls[c], k) /\ ~Marks(Absent, k) BY <2>1 DEF Marks
  <2>q. QED BY <2>4, <2>5, <2>6, <1>0, ProposalMoves
<1>4. ASSUME NEW c \in Callers, Proposals!BeginReview(c) PROVE ProposalInv'
  <2>1. PICK id \in Proposals!Ids, decision \in Decisions :
          /\ calls' = [calls EXCEPT ![c] = [at |-> "load", id |-> id, decision |-> decision, held |-> Absent,
                                            draft |-> Absent, overtaken |-> FALSE]]
          /\ past' = [past EXCEPT !.decided = @ \cup {<<id, decision>>}]
    BY <1>4 DEF Proposals!BeginReview, Proposals!Begin
  <2> DEFINE new == [at |-> "load", id |-> id, decision |-> decision, held |-> Absent, draft |-> Absent, overtaken |-> FALSE]
  <2>2. /\ past' \in Kept /\ past'.decided = past.decided \cup {<<id, decision>>} /\ past'.standing = past.standing
        /\ past'.latest = past.latest /\ past'.apart = past.apart
    BY <2>1, <1>0 DEF Kept
  <2>3. ReviewingOK(new, disk, world, past'.decided) /\ new.at = "load" BY <2>2 DEF ReviewingOK, Proposals!Reviewings
  <2>4. calls[c] = Absent /\ UNCHANGED <<disk, world>> BY <1>4 DEF Proposals!BeginReview, Proposals!Begin
  <2>5. past'.latest # Absent => AllDecided(past'.latest, past'.decided) BY <2>2, <1>0 DEF AllDecided
  <2>6. calls' = [calls EXCEPT ![c] = new] BY <2>1
  <2> HIDE DEF new
  <2>7. \A k \in Proposals!Proposed : ~Marks(calls[c], k) /\ ~Marks(new, k) BY <2>3, <2>4 DEF Marks
  <2>8. ProposalCallOK(new, disk, world, past'.decided) BY <2>3 DEF ProposalCallOK
  <2>9. past.decided \subseteq past'.decided BY <2>2
  <2>q. QED BY <2>2, <2>4, <2>5, <2>6, <2>7, <2>8, <2>9, ProposalMoves
<1>5. ASSUME NEW c \in Callers, Proposals!LoadReviews(c) PROVE ProposalInv'
  <2>0. PICK found \in Proposals!Loaded :
          calls' = [calls EXCEPT ![c].at = "write", ![c].held = found, ![c].overtaken = found # disk]
    BY <1>5, Zenon DEF Proposals!LoadReviews
  <2> DEFINE missed == found # disk
             new == [calls[c] EXCEPT !.at = "write", !.held = found, !.overtaken = missed]
  <2>1. ReviewingOK(calls[c], disk, world, past.decided) /\ calls[c].at = "load" BY <1>5, KindOfCall DEF Proposals!LoadReviews
  <2>3. calls' = [calls EXCEPT ![c] = new] /\ UNCHANGED <<disk, world, past>> BY <2>0, <1>5 DEF Proposals!LoadReviews
  <2>4. found \in Proposals!Reviews /\ Asked(found, past.decided) BY <1>0, LoadedWereAsked
  <2>8. missed \in BOOLEAN /\ (~missed => found = disk) OBVIOUS
  <2> HIDE DEF missed
  <2>2. /\ new \in Proposals!Reviewings /\ new.at = "write" /\ new.id = calls[c].id /\ new.decision = calls[c].decision
        /\ new.held = found /\ new.overtaken = missed
    BY <2>1, <2>4, <2>8 DEF ReviewingOK, Proposals!Reviewings
  <2> HIDE DEF new
  <2>5. ReviewingOK(new, disk, world, past.decided) BY <2>1, <2>2, <2>4, <2>8, <1>0 DEF ReviewingOK
  <2>6. \A k \in Proposals!Proposed : ~Marks(calls[c], k) /\ ~Marks(new, k) BY <2>1, <2>2 DEF Marks
  <2>7. ProposalCallOK(new, disk, world, past.decided) BY <2>5 DEF ProposalCallOK
  <2>q. QED BY <2>3, <2>6, <2>7, <1>1
<1>6. ASSUME NEW c \in Callers, Proposals!Match(c) PROVE ProposalInv'
  <2> DEFINE new == [calls[c] EXCEPT !.at = "read"]
             there == calls[c].id \in Proposals!Proposed /\ world[calls[c].id] # Absent
  <2>1. ReviewingOK(calls[c], disk, world, past.decided) /\ calls[c].at = "match" /\ calls[c] # Absent
    BY <1>6, KindOfCall DEF Proposals!Match
  <2>2. UNCHANGED <<disk, world, past>> BY <1>6 DEF Proposals!Match
  <2>3. CASE there
    <3>1. new \in Proposals!Reviewings /\ new.at = "read" /\ new.id = calls[c].id /\ new.decision = calls[c].decision
      BY <2>1 DEF ReviewingOK, Proposals!Reviewings
    <3>2. calls' = [calls EXCEPT ![c] = new] BY <2>3, <1>6 DEF Proposals!Match, Proposals!Goto
    <3> HIDE DEF new
    <3>3. ReviewingOK(new, disk, world, past.decided) BY <2>1, <2>3, <3>1 DEF ReviewingOK
    <3>4. new # Absent BY <3>1, ProposalsAreListed
    <3>5. \A k \in Proposals!Proposed : Marks(new, k) <=> Marks(calls[c], k) BY <2>1, <3>1, <3>4 DEF Marks
    <3>6. ProposalCallOK(new, disk, world, past.decided) BY <3>3 DEF ProposalCallOK
    <3>q. QED BY <2>2, <3>1, <3>2, <3>5, <3>6, <1>1
  <2>4. CASE ~there
    <3>1. calls' = [calls EXCEPT ![c] = Absent] BY <2>4, <1>6 DEF Proposals!Match, Proposals!Leave
    <3>2. \A k \in Proposals!Proposed : (Marks(calls[c], k) => world[k] = Absent) /\ ~Marks(Absent, k) BY <2>4 DEF Marks
    <3>q. QED BY <2>2, <3>1, <3>2, <1>1
  <2>q. QED BY <2>3, <2>4
<1>7. ASSUME NEW c \in Callers, Proposals!ReadDoc(c) PROVE ProposalInv'
  <2> DEFINE draft == Proposals!Marked(world[calls[c].id], calls[c].decision)
             new == [calls[c] EXCEPT !.at = "rewrite", !.draft = draft]
  <2>1. ReviewingOK(calls[c], disk, world, past.decided) /\ calls[c].at = "read" /\ calls[c] # Absent
    BY <1>7, KindOfCall DEF Proposals!ReadDoc
  <2>2. calls[c].id \in Proposals!Proposed /\ world[calls[c].id] # Absent /\ calls[c].decision \in Decisions /\ calls[c] \in Proposals!Reviewings
    BY <2>1 DEF ReviewingOK, Proposals!Reviewings
  <2>3. world[calls[c].id] \in Proposals!Docs BY <2>2, <1>0
  <2>4. draft \in Proposals!Docs /\ draft.line = calls[c].decision BY <2>2, <2>3 DEF Proposals!Marked, Proposals!Docs
  <2>5. calls' = [calls EXCEPT ![c] = new] /\ UNCHANGED <<disk, world, past>> BY <1>7 DEF Proposals!ReadDoc
  <2> HIDE DEF draft
  <2>6. new \in Proposals!Reviewings /\ new.at = "rewrite" /\ new.id = calls[c].id /\ new.decision = calls[c].decision /\ new.draft = draft
    BY <2>2, <2>4 DEF Proposals!Reviewings
  <2> HIDE DEF new
  <2>7. ReviewingOK(new, disk, world, past.decided) BY <2>1, <2>2, <2>4, <2>6 DEF ReviewingOK
  <2>8. new # Absent BY <2>6, ProposalsAreListed
  <2>9. \A k \in Proposals!Proposed : Marks(new, k) <=> Marks(calls[c], k) BY <2>1, <2>6, <2>8 DEF Marks
  <2>10. ProposalCallOK(new, disk, world, past.decided) BY <2>7 DEF ProposalCallOK
  <2>q. QED BY <2>5, <2>6, <2>9, <2>10, <1>1
<1>8. ASSUME NEW c \in Callers, Proposals!BeginList(c) PROVE ProposalInv'
  <2>1. PICK purpose \in {"print", "snapshot"} :
          calls' = [calls EXCEPT ![c] = [at |-> "dir", purpose |-> purpose, found |-> {}, told |-> Absent]]
    BY <1>8 DEF Proposals!BeginList, Proposals!Begin
  <2> DEFINE new == [at |-> "dir", purpose |-> purpose, found |-> {}, told |-> Absent]
  <2>2. ListingOK(new, past.decided) /\ new.at = "dir" BY DEF ListingOK, Listings
  <2>3. calls[c] = Absent /\ UNCHANGED <<disk, world, past>> BY <1>8 DEF Proposals!BeginList, Proposals!Begin
  <2>4. calls' = [calls EXCEPT ![c] = new] BY <2>1
  <2> HIDE DEF new
  <2>5. \A k \in Proposals!Proposed : ~Marks(calls[c], k) /\ ~Marks(new, k) BY <2>2, <2>3 DEF Marks
  <2>6. ProposalCallOK(new, disk, world, past.decided) BY <2>2 DEF ProposalCallOK
  <2>q. QED BY <2>3, <2>4, <2>5, <2>6, <1>1
<1>9. ASSUME NEW c \in Callers, Proposals!ReadDir(c) PROVE ProposalInv'
  <2> DEFINE found == {k \in Proposals!Proposed : world[k] # Absent}
             new == [calls[c] EXCEPT !.at = "tell", !.found = found]
  <2>1. ListingOK(calls[c], past.decided) /\ calls[c].at = "dir" BY <1>9, KindOfCall DEF Proposals!ReadDir
  <2>2. found \in SUBSET Proposals!Proposed OBVIOUS
  <2> HIDE DEF found
  <2>3. new \in Listings /\ new.at = "tell" BY <2>1, <2>2 DEF ListingOK, Listings
  <2>4. calls' = [calls EXCEPT ![c] = new] /\ UNCHANGED <<disk, world, past>> BY <1>9 DEF Proposals!ReadDir, found
  <2> HIDE DEF new
  <2>5. \A k \in Proposals!Proposed : ~Marks(calls[c], k) /\ ~Marks(new, k) BY <2>1, <2>3 DEF Marks
  <2>6. ProposalCallOK(new, disk, world, past.decided) BY <2>3 DEF ProposalCallOK, ListingOK
  <2>q. QED BY <2>4, <2>5, <2>6, <1>1
<1>10. ASSUME NEW c \in Callers, Proposals!Tell(c) PROVE ProposalInv'
  <2>0. PICK reviewed \in Proposals!Loaded :
          calls' = [calls EXCEPT ![c].told = [k \in calls[c].found |-> Proposals!StatusOf(reviewed[k])],
                                 ![c].at = IF calls[c].purpose = "snapshot" THEN "keep" ELSE "answer"]
    BY <1>10 DEF Proposals!Tell
  <2>11. reviewed \in Proposals!Reviews /\ Asked(reviewed, past.decided) BY <1>0, LoadedWereAsked
  <2> DEFINE told == [k \in calls[c].found |-> Proposals!StatusOf(reviewed[k])]
             at == IF calls[c].purpose = "snapshot" THEN "keep" ELSE "answer"
             new == [calls[c] EXCEPT !.told = told, !.at = at]
  <2>1. ListingOK(calls[c], past.decided) /\ calls[c].at = "tell" BY <1>10, KindOfCall DEF Proposals!Tell
  <2>2. calls[c] \in Listings /\ calls[c].found \in SUBSET Proposals!Proposed BY <2>1 DEF ListingOK, Listings
  <2>3. ASSUME NEW k \in calls[c].found
        PROVE /\ Proposals!StatusOf(reviewed[k]) \in {"proposed"} \cup Decisions
              /\ Proposals!StatusOf(reviewed[k]) = "proposed" \/ <<k, Proposals!StatusOf(reviewed[k])>> \in past.decided
    <3>1. k \in Proposals!Ids BY <2>2 DEF Proposals!Ids
    <3>2. reviewed[k] \in {Absent} \cup Decisions BY <3>1, <2>11 DEF Proposals!Reviews
    <3>3. reviewed[k] # Absent => <<k, reviewed[k]>> \in past.decided BY <3>1, <2>11 DEF Asked
    <3>q. QED BY <3>2, <3>3 DEF Proposals!StatusOf
  <2>4. told \in Lists
    <3>1. told \in [calls[c].found -> {"proposed"} \cup Decisions] BY <2>3
    <3>q. QED BY <3>1, <2>2 DEF Lists
  <2>5. AllDecided(told, past.decided) BY <2>3 DEF AllDecided
  <2>6. at \in {"keep", "answer"} OBVIOUS
  <2> HIDE DEF told, at
  <2>7. new \in Listings /\ new.at = at /\ new.told = told BY <2>2, <2>4, <2>6 DEF Listings
  <2>8. calls' = [calls EXCEPT ![c] = new] /\ UNCHANGED <<disk, world, past>> BY <2>0, <1>10 DEF Proposals!Tell, told, at
  <2> HIDE DEF new
  <2>9. \A k \in Proposals!Proposed : ~Marks(calls[c], k) /\ ~Marks(new, k) BY <2>1, <2>6, <2>7 DEF Marks
  <2>10. ProposalCallOK(new, disk, world, past.decided) BY <2>4, <2>5, <2>7 DEF ProposalCallOK, ListingOK
  <2>q. QED BY <2>8, <2>9, <2>10, <1>1
<1>11. ASSUME NEW c \in Callers, Proposals!Keep(c) PROVE ProposalInv'
  <2> DEFINE new == [calls[c] EXCEPT !.at = "answer"]
  <2>1. ListingOK(calls[c], past.decided) /\ calls[c].at = "keep" BY <1>11, KindOfCall DEF Proposals!Keep
  <2>2. calls[c].told \in Lists /\ AllDecided(calls[c].told, past.decided) BY <2>1 DEF ListingOK
  <2>3. past' = [past EXCEPT !.latest = calls[c].told] BY <1>11 DEF Proposals!Keep
  <2>4. /\ past' \in Kept /\ past'.decided = past.decided /\ past'.standing = past.standing /\ past'.latest = calls[c].told
        /\ past'.apart = past.apart
    BY <2>2, <2>3, <1>0 DEF Kept
  <2>5. new \in Listings /\ new.at = "answer" /\ new.told = calls[c].told BY <2>1 DEF ListingOK, Listings
  <2>6. calls' = [calls EXCEPT ![c] = new] /\ UNCHANGED <<disk, world>> BY <1>11 DEF Proposals!Keep, Proposals!Goto
  <2> HIDE DEF new
  <2>7. \A k \in Proposals!Proposed : ~Marks(calls[c], k) /\ ~Marks(new, k) BY <2>1, <2>5 DEF Marks
  <2>8. ProposalCallOK(new, disk, world, past'.decided) BY <2>2, <2>4, <2>5 DEF ProposalCallOK, ListingOK
  <2>9. AllDecided(past'.latest, past'.decided) BY <2>2, <2>4
  <2>q. QED BY <2>4, <2>6, <2>7, <2>8, <2>9, ProposalMoves
<1>12. ASSUME NEW c \in Callers, Proposals!Answer(c) PROVE ProposalInv'
  <2>1. calls' = [calls EXCEPT ![c] = Absent] /\ UNCHANGED <<disk, world, past>> BY <1>12 DEF Proposals!Answer, Proposals!Leave
  <2>2. \A k \in Proposals!Proposed : ~Marks(calls[c], k) /\ ~Marks(Absent, k) BY <1>12 DEF Marks, Proposals!Answer
  <2>q. QED BY <2>1, <2>2, <1>1
<1>13. ASSUME NEW c \in Callers, Proposals!Abort(c) PROVE ProposalInv'
  <2> DEFINE marking == calls[c].at \in {"match", "read", "rewrite"}
  <2>1. calls' = [calls EXCEPT ![c] = Absent] /\ UNCHANGED <<disk, world>> /\ calls[c] # Absent
    BY <1>13 DEF Proposals!Abort, Proposals!Leave
  <2>2. CASE marking
    <3>1. calls[c].id \in Proposals!Ids BY <2>1, <2>2, KindOfCall DEF ReviewingOK, Proposals!Reviewings
    <3>2. past' = [past EXCEPT !.apart = @ \cup {calls[c].id}] BY <2>2, <1>13 DEF Proposals!Abort
    <3>3. /\ past' \in Kept /\ past'.decided = past.decided /\ past'.standing = past.standing /\ past'.latest = past.latest
          /\ past'.apart = past.apart \cup {calls[c].id}
      BY <3>1, <3>2, <1>0 DEF Kept
    <3>4. \A k \in Proposals!Proposed : (Marks(calls[c], k) => k \in past'.apart) /\ ~Marks(Absent, k) BY <3>3 DEF Marks
    <3>q. QED BY <2>1, <3>3, <3>4, <1>0, ProposalMoves
  <2>3. CASE ~marking
    <3>1. UNCHANGED past BY <2>3, <1>13 DEF Proposals!Abort
    <3>2. \A k \in Proposals!Proposed : ~Marks(calls[c], k) /\ ~Marks(Absent, k) BY <2>3 DEF Marks
    <3>q. QED BY <2>1, <3>1, <3>2, <1>1
  <2>q. QED BY <2>2, <2>3
<1>q. QED
  BY <1>2, <1>3, <1>4, <1>5, <1>6, <1>7, <1>8, <1>9, <1>10, <1>11, <1>12, <1>13, WriteDraftSteps, WriteReviewsSteps, RewriteSteps
  DEF Proposals!ProposalNext

---------------------------------------------------------------------------
(* The chat service: ask, start and end *)

Latest(messages, n) == SubSeq(messages, Len(messages) - n + 1, Len(messages))
Fits(messages, n) == n <= 2 * MaxTurns /\ (n <= 2 \/ Chat!Chars(Latest(messages, n)) <= MaxChars)

\* trim keeps the longest end of the conversation that fits, two messages at the least.
LEMMA TrimKeeps ==
  ASSUME NEW S, NEW messages \in Seq(S)
  PROVE \E n \in 0..Len(messages) :
          /\ Chat!Trim(messages) = Latest(messages, n)
          /\ Fits(messages, n)
          /\ \A l \in (n + 1)..Len(messages) : ~Fits(messages, l)
<1> DEFINE L == Len(messages)
           T == {k \in 0..L : Fits(messages, k)}
           n == CHOOSE k \in 0..L : Fits(messages, k) /\ \A l \in (k + 1)..L : ~Fits(messages, l)
<1>1. L \in Nat OBVIOUS
<1>2. Fits(messages, 0) BY ChatAssumption DEF Fits
<1>3. PICK k \in T : \A m \in T : m <= k
  <2>1. 0 \in T /\ T \subseteq 0..L BY <1>1, <1>2
  <2> HIDE DEF T
  <2>q. QED BY <1>1, <2>1, Greatest
<1>4. \A l \in (k + 1)..L : ~Fits(messages, l) BY <1>1, <1>3
<1>5. n \in 0..L /\ Fits(messages, n) /\ \A l \in (n + 1)..L : ~Fits(messages, l)
  <2>1. \E i \in 0..L : Fits(messages, i) /\ \A l \in (i + 1)..L : ~Fits(messages, l) BY <1>3, <1>4
  <2> HIDE DEF L
  <2>q. QED BY <2>1
<1>6. Chat!Trim(messages) = Latest(messages, n) BY DEF Chat!Trim, Latest, Fits
<1> HIDE DEF n
<1>q. QED BY <1>5, <1>6

\* What is kept is the end of what there was.
LEMMA LatestIsTheEnd ==
  ASSUME NEW S, NEW messages \in Seq(S), NEW n \in 0..Len(messages)
  PROVE /\ Latest(messages, n) \in Seq(S) /\ Len(Latest(messages, n)) = n
        /\ \A i \in 1..n : Latest(messages, n)[i] = messages[Len(messages) - n + i]
<1> DEFINE m == Len(messages) - n + 1
<1>1. Len(messages) \in Nat /\ m \in Int /\ \A i \in m..Len(messages) : messages[i] \in S OBVIOUS
<1>2. /\ SubSeq(messages, m, Len(messages)) \in Seq(S)
      /\ Len(SubSeq(messages, m, Len(messages))) = IF m <= Len(messages) THEN Len(messages) - m + 1 ELSE 0
      /\ \A i \in 1..(Len(messages) - m + 1) : SubSeq(messages, m, Len(messages))[i] = messages[m + i - 1]
  BY <1>1, SubSeqProperties
<1>q. QED BY <1>1, <1>2 DEF Latest

MemoryOK(messages) ==
  /\ messages \in Seq(Chat!Messages)
  /\ Len(messages) <= 2 * MaxTurns
  /\ Len(messages) > 2 => Chat!Chars(messages) <= MaxChars

\* What trim keeps is within the limits of turns and of characters.
LEMMA TrimIsBounded ==
  ASSUME NEW messages \in Seq(Chat!Messages)
  PROVE MemoryOK(Chat!Trim(messages))
<1>1. PICK n \in 0..Len(messages) : Chat!Trim(messages) = Latest(messages, n) /\ Fits(messages, n) BY TrimKeeps
<1>2. Latest(messages, n) \in Seq(Chat!Messages) /\ Len(Latest(messages, n)) = n BY LatestIsTheEnd
<1>q. QED BY <1>1, <1>2 DEF Fits, MemoryOK

Sees(sent, before, question) ==
  Chat!IsSuffix(sent, Append(before, question)) /\ (before # <<>> => Len(sent) > 1)
Sending(messages, question) ==
  Append(IF messages = <<>> THEN <<>> ELSE Chat!Front(messages), question)

\* The messages sent are an end of the conversation and the question, with more than it
\* if there is more.
LEMMA ModelSeesIt ==
  ASSUME NEW before \in Seq(Chat!Messages), NEW question \in Chat!Messages, NEW messages,
         messages = Chat!Trim(Append(before, question))
  PROVE Sees(Sending(messages, question), before, question)
<1> DEFINE all == Append(before, question)
           sent == Sending(messages, question)
<1>1. all \in Seq(Chat!Messages) /\ Len(all) = Len(before) + 1 /\ all[Len(all)] = question /\ Len(before) \in Nat OBVIOUS
<1> HIDE DEF all
<1>2. PICK n \in 0..Len(all) : messages = Latest(all, n) /\ \A l \in (n + 1)..Len(all) : ~Fits(all, l)
  BY <1>1, TrimKeeps DEF all
<1>3. n >= 1 /\ (before # <<>> => n >= 2)
  <2>1. Fits(all, 1) /\ Fits(all, 2) BY ChatAssumption DEF Fits
  <2>2. before # <<>> => Len(before) >= 1 OBVIOUS
  <2>q. QED BY <2>1, <2>2, <1>1, <1>2
<1>4. messages \in Seq(Chat!Messages) /\ Len(messages) = n /\ \A i \in 1..n : messages[i] = all[Len(all) - n + i]
  <2>1. /\ Latest(all, n) \in Seq(Chat!Messages) /\ Len(Latest(all, n)) = n
        /\ \A i \in 1..n : Latest(all, n)[i] = all[Len(all) - n + i]
    BY <1>1, LatestIsTheEnd
  <2>q. QED BY <2>1, <1>2
<1>5. messages # <<>> BY <1>3, <1>4
<1> DEFINE front == Chat!Front(messages)
<1>6. front \in Seq(Chat!Messages) /\ Len(front) = n - 1 /\ \A i \in 1..(n - 1) : front[i] = messages[i]
  <2>1. front = SubSeq(messages, 1, n - 1) BY <1>4 DEF Chat!Front
  <2>2. \A i \in 1..(n - 1) : messages[i] \in Chat!Messages BY <1>4
  <2> HIDE DEF front
  <2>3. n - 1 \in Int /\ n - 1 - 1 + 1 = n - 1 BY <1>3
  <2>4. /\ SubSeq(messages, 1, n - 1) \in Seq(Chat!Messages)
        /\ Len(SubSeq(messages, 1, n - 1)) = IF 1 <= n - 1 THEN n - 1 - 1 + 1 ELSE 0
        /\ \A i \in 1..(n - 1 - 1 + 1) : SubSeq(messages, 1, n - 1)[i] = messages[1 + i - 1]
    BY <2>2, <2>3, SubSeqProperties
  <2>q. QED BY <2>1, <2>3, <2>4, <1>3
<1>7. sent = Append(front, question) BY <1>5 DEF Sending
<1> HIDE DEF front, sent
<1>8. sent \in Seq(Chat!Messages) /\ Len(sent) = n /\ sent[n] = question /\ \A i \in 1..(n - 1) : sent[i] = front[i]
  BY <1>3, <1>6, <1>7
<1>9. ASSUME NEW i \in 1..n PROVE sent[i] = all[Len(all) - n + i]
  <2>1. CASE i = n BY <2>1, <1>1, <1>2, <1>8
  <2>2. CASE i # n BY <2>2, <1>4, <1>6, <1>8
  <2>q. QED BY <2>1, <2>2
<1>10. Chat!IsSuffix(sent, all)
  <2> DEFINE rs == Chat!Reverse(sent)
             ra == Chat!Reverse(all)
  <2>1. rs = [i \in 1..n |-> sent[n - i + 1]] BY <1>8 DEF Chat!Reverse
  <2>2. ra = [i \in 1..Len(all) |-> all[Len(all) - i + 1]] BY DEF Chat!Reverse
  <2> HIDE DEF rs, ra
  <2>3. n \in Nat /\ Len(all) \in Nat /\ n <= Len(all) BY <1>1
  <2>4. \A i \in 1..n : sent[n - i + 1] \in Chat!Messages BY <1>8, <2>3
  <2>5. \A i \in 1..Len(all) : all[Len(all) - i + 1] \in Chat!Messages BY <1>1, <2>3
  <2>6. rs \in Seq(Chat!Messages) /\ Len(rs) = n BY <2>1, <2>3, <2>4
  <2>7. ra \in Seq(Chat!Messages) /\ Len(ra) = Len(all) BY <2>2, <2>3, <2>5
  <2>8. \A i \in 1..n : rs[i] = sent[n - i + 1] BY <2>1, <2>3
  <2>9. \A i \in 1..n : ra[i] = all[Len(all) - i + 1] BY <2>2, <2>3
  <2>10. ASSUME NEW i \in 1..n PROVE rs[i] = ra[i]
    <3>1. n - i + 1 \in 1..n /\ Len(all) - n + (n - i + 1) = Len(all) - i + 1 BY <2>3
    <3>2. sent[n - i + 1] = all[Len(all) - n + (n - i + 1)] BY <3>1, <1>9
    <3>q. QED BY <3>1, <3>2, <2>8, <2>9
  <2>11. /\ SubSeq(rs, 1, n) \in Seq(Chat!Messages) /\ Len(SubSeq(rs, 1, n)) = n
         /\ \A i \in 1..n : SubSeq(rs, 1, n)[i] = rs[i]
    BY <2>3, <2>6
  <2>12. /\ SubSeq(ra, 1, n) \in Seq(Chat!Messages) /\ Len(SubSeq(ra, 1, n)) = n
         /\ \A i \in 1..n : SubSeq(ra, 1, n)[i] = ra[i]
    BY <2>3, <2>7
  <2>13. SubSeq(rs, 1, n) = SubSeq(ra, 1, n) BY <2>10, <2>11, <2>12, SeqEqual
  <2>q. QED BY <2>3, <2>6, <2>7, <2>13 DEF Chat!IsSuffix, Chat!IsPrefix, rs, ra
<1>q. QED BY <1>3, <1>8, <1>10 DEF Sees, sent, all

---------------------------------------------------------------------------
\* The events an ask logs, and where it goes on after each.
Logged ==
  {<<"started", "say">>, <<"user-message", "retrieve">>, <<"context-retrieved", "prepare">>, <<"deterministic", "answer">>,
   <<"model-requested", "model">>, <<"model-response", "complete">>, <<"failed", "answer">>, <<"completed", "answer">>}
InLog == {"log", "draft", "rename"}
Phase(call) == IF call.at \in InLog THEN call.next ELSE call.at
EventOn(kind, call) == [kind |-> kind, ask |-> call.question.ask]

AskOK(call, files, chat) ==
  /\ call \in Chat!AskRecords
  /\ call.at \in InLog => <<call.event, call.next>> \in Logged /\ chat.session # Absent
  /\ Phase(call) \in {"create", "say", "retrieve", "prepare"} => call.sent = Absent
  /\ Phase(call) \in {"retrieve", "prepare"} =>
       call.before \in Seq(Chat!Messages) /\ (call.alone => chat.messages = Chat!Trim(Append(call.before, call.question)))
  /\ call.sent # Absent /\ call.alone => Sees(call.sent, call.before, call.question)
  /\ call.audited => chat.session # Absent
  /\ call.audited /\ Phase(call) \in {"retrieve", "prepare", "model"} /\ ~(call.at = "log" /\ call.event = "user-message") =>
       EventOn("user-message", call) \in files.jsonl
  /\ call.audited /\ Phase(call) = "model" /\ call.at # "log" => EventOn("model-requested", call) \in files.jsonl
  /\ chat.started

Journals == [json : {Absent} \cup Chat!Sessions, jsonl : SUBSET Chat!Events]
Chats ==
  [host : {"serial", "overlapping"}, provider : {"none", "model"}, started : BOOLEAN, ended : BOOLEAN,
   session : {Absent} \cup Chat!Sessions, messages : Seq(Chat!Messages), topic : {Absent} \cup Nat]
Spent == [asks : Nat, failures : Nat]

\* A serial host's files, while nothing has failed.
FilesOK(files, chat, cs) ==
  /\ chat.session = Absent => files.json = Absent /\ files.jsonl = {}
  /\ chat.session # Absent =>
       /\ chat.session.events = {Chat!Start} \cup files.jsonl /\ Chat!Start \notin files.jsonl
       /\ files.json = chat.session \/ \E a \in Callers : cs[a] # Absent /\ cs[a].at \in {"draft", "rename"}
  /\ \A a \in Callers : cs[a] # Absent /\ cs[a].at = "rename" => cs[a].draft = chat.session
SerialOK(files, chat, cs) ==
  /\ \A a, b \in Callers : cs[a] # Absent /\ cs[b] # Absent => a = b
  /\ \A a \in Callers : cs[a] # Absent /\ cs[a].at = "create" => chat.session = Absent
ChatInv ==
  /\ IsCalls
  /\ disk \in Journals /\ world \in Chats /\ spent \in Spent
  /\ MemoryOK(world.messages)
  /\ ~world.started => world.session = Absent
  /\ \A a \in Callers : calls[a] = Absent \/ AskOK(calls[a], disk, world)
  /\ \A a, b \in Callers : calls[a] # Absent /\ calls[a].alone /\ calls[b] # Absent => a = b
  /\ world.host = "serial" => SerialOK(disk, world, calls)
  /\ world.host = "serial" /\ spent.failures = 0 => FilesOK(disk, world, calls)

\* A service that has not started has no session.
LEMMA ChatStarts == Chat!ChatInit => ChatInv
<1> SUFFICES ASSUME Chat!ChatInit PROVE ChatInv OBVIOUS
<1>1. PICK host \in {"serial", "overlapping"}, provider \in {"none", "model"} :
        world = [host |-> host, provider |-> provider, started |-> FALSE, ended |-> FALSE,
                 session |-> Absent, messages |-> <<>>, topic |-> Absent]
  BY DEF Chat!ChatInit
<1>2. <<>> \in Seq(Chat!Messages) /\ Len(<<>>) = 0 OBVIOUS
<1>3. world \in Chats /\ world.session = Absent /\ world.messages = <<>> BY <1>1, <1>2 DEF Chats
<1>4. MemoryOK(world.messages) BY <1>2, <1>3, ChatAssumption DEF MemoryOK
<1>5. disk \in Journals /\ disk.json = Absent /\ disk.jsonl = {} /\ spent \in Spent BY DEF Chat!ChatInit, Journals, Spent
<1>q. QED BY <1>3, <1>4, <1>5 DEF Chat!ChatInit, ChatInv, IsCalls, SerialOK, FilesOK

\* What the model sees, what is remembered and what the session's files hold at rest.
LEMMA ChatAnswers ==
  ChatInv => Chat!ModelSeesConversation /\ Chat!MemoryBounded /\ Chat!AskedIsAudited /\ Chat!FilesAgreeAtRest
<1> SUFFICES ASSUME ChatInv
             PROVE Chat!ModelSeesConversation /\ Chat!MemoryBounded /\ Chat!AskedIsAudited /\ Chat!FilesAgreeAtRest
  OBVIOUS
<1>1. Chat!ModelSeesConversation BY DEF ChatInv, AskOK, Sees, Chat!ModelSeesConversation
<1>2. Chat!MemoryBounded BY DEF ChatInv, MemoryOK, Chat!MemoryBounded
<1>3. Chat!AskedIsAudited BY DEF ChatInv, AskOK, Phase, InLog, EventOn, Chat!AskedIsAudited, Chat!At
<1>4. Chat!FilesAgreeAtRest BY DEF ChatInv, FilesOK, Chat!FilesAgreeAtRest, Chat!Idle
<1>q. QED BY <1>1, <1>2, <1>3, <1>4

\* Nothing another ask does disturbs one, but that it is not alone.
LEMMA OthersStay ==
  ASSUME NEW call, NEW files, NEW later, NEW chat, NEW next, AskOK(call, files, chat), ~call.alone,
         files.jsonl \subseteq later.jsonl, chat.session # Absent => next.session # Absent, chat.started => next.started
  PROVE AskOK(call, later, next)
BY DEF AskOK

\* A step of one ask.
LEMMA ChatMoves ==
  ASSUME ChatInv, NEW a \in Callers, calls[a] # Absent, NEW new, calls' = [calls EXCEPT ![a] = new],
         disk' \in Journals, world' \in Chats, spent' \in Spent, MemoryOK(world'.messages),
         world'.host = world.host, world'.started = world.started, spent.failures <= spent'.failures,
         disk.jsonl \subseteq disk'.jsonl, world.session # Absent => world'.session # Absent,
         new = Absent \/ (AskOK(new, disk', world') /\ (new.alone => calls[a].alone) /\ new.at # "create"),
         world.host = "serial" /\ spent'.failures = 0 /\ spent.failures = 0 => FilesOK(disk', world', calls')
  PROVE ChatInv'
<1>1. IsCalls' /\ calls'[a] = new /\ \A b \in Callers : b # a => calls'[b] = calls[b] BY OneCallMoves DEF ChatInv
<1>2. ASSUME NEW b \in Callers PROVE calls'[b] = Absent \/ AskOK(calls'[b], disk', world')
  <2>1. CASE b = a BY <2>1, <1>1
  <2>2. CASE b # a /\ calls[b] # Absent
    <3>1. ~calls[b].alone /\ AskOK(calls[b], disk, world) BY <2>2 DEF ChatInv
    <3>q. QED BY <3>1, <2>2, <1>1, OthersStay
  <2>3. CASE b # a /\ calls[b] = Absent BY <2>3, <1>1
  <2>q. QED BY <2>1, <2>2, <2>3
<1>3. world.started BY DEF ChatInv, AskOK
<1>4. \A b, c \in Callers : calls'[b] # Absent /\ calls'[b].alone /\ calls'[c] # Absent => b = c BY <1>1 DEF ChatInv
<1>5. world.host = "serial" => SerialOK(disk', world', calls') BY <1>1 DEF ChatInv, SerialOK
<1>6. spent'.failures = 0 => spent.failures = 0 BY DEF ChatInv, Spent
<1>q. QED BY <1>1, <1>2, <1>3, <1>4, <1>5, <1>6 DEF ChatInv

\* A step of one ask that leaves the files and the session alone.
LEMMA ChatTalks ==
  ASSUME ChatInv, NEW a \in Callers, calls[a] # Absent, NEW new, calls' = [calls EXCEPT ![a] = new],
         UNCHANGED disk, world' \in Chats, spent' \in Spent, MemoryOK(world'.messages),
         world'.host = world.host, world'.started = world.started, spent.failures <= spent'.failures,
         world'.session = world.session,
         calls[a].at \notin {"draft", "rename"},
         new = Absent \/ (AskOK(new, disk, world') /\ (new.alone => calls[a].alone) /\ new.at \notin {"create", "draft", "rename"})
  PROVE ChatInv'
<1>1. calls'[a] = new /\ \A b \in Callers : b # a => calls'[b] = calls[b] BY OneCallMoves DEF ChatInv
<1>2. ASSUME world.host = "serial", spent.failures = 0 PROVE FilesOK(disk', world', calls')
  <2>1. FilesOK(disk, world, calls) /\ SerialOK(disk, world, calls) BY <1>2 DEF ChatInv
  <2>2. \A b \in Callers : b # a => calls[b] = Absent BY <2>1 DEF SerialOK
  <2>q. QED BY <2>1, <2>2, <1>1 DEF FilesOK
<1>3. disk \in Journals BY DEF ChatInv
<1>q. QED BY <1>2, <1>3, ChatMoves

---------------------------------------------------------------------------
Logging(call, at, event, next) == [call EXCEPT !.at = at, !.event = event, !.next = next]
\* The fields of an ask that is about to log an event.
LEMMA LoggingFields ==
  ASSUME NEW call \in Chat!AskRecords, NEW at \in Chat!AskSteps,
         NEW event \in Chat!EventNames, NEW next \in Chat!AskSteps
  PROVE LET new == Logging(call, at, event, next) IN
        /\ new \in Chat!AskRecords
        /\ new.at = at /\ new.event = event /\ new.next = next
        /\ new.question = call.question /\ new.sent = call.sent /\ new.before = call.before
        /\ (new.alone <=> call.alone) /\ (new.audited <=> call.audited)
BY DEF Logging, Chat!AskRecords

\* An ask logs an event, if there is a session, and goes on.
LogStep(call, event, next) == Logging(call, IF world.session = Absent THEN next ELSE "log", event, next)
LogStepOK(call, event, next) ==
  LET new == LogStep(call, event, next) IN
  /\ new \in Chat!AskRecords /\ new.at \notin {"create", "draft", "rename"} /\ Phase(new) = next
  /\ new.at = "log" => world.session # Absent
  /\ world.session # Absent => new.at = "log"
  /\ new.event = event /\ new.next = next
  /\ new.question = call.question /\ new.sent = call.sent /\ new.before = call.before
  /\ (new.alone <=> call.alone) /\ (new.audited <=> call.audited)
Nexts == {"retrieve", "prepare", "model", "complete", "answer"}
\* Without a session an ask goes on at once, with one it logs first.
LEMMA ToLogOK ==
  ASSUME NEW call \in Chat!AskRecords, NEW event \in Chat!EventNames,
         NEW next \in Nexts
  PROVE LogStepOK(call, event, next)
<1> DEFINE at == IF world.session = Absent THEN next ELSE "log"
<1>1. at \in Chat!AskSteps BY DEF Chat!AskSteps, Nexts
<1>2. (at = "log" <=> world.session # Absent) /\ (at # "log" => at = next) /\ next \in {"retrieve", "prepare", "model", "complete", "answer"}
  BY DEF Nexts
<1> HIDE DEF at
<1>3. next \in Chat!AskSteps BY DEF Chat!AskSteps, Nexts
<1>4. LET new == Logging(call, at, event, next) IN
        /\ new \in Chat!AskRecords
        /\ new.at = at /\ new.event = event /\ new.next = next
        /\ new.question = call.question /\ new.sent = call.sent /\ new.before = call.before
        /\ (new.alone <=> call.alone) /\ (new.audited <=> call.audited)
  BY <1>1, <1>3, LoggingFields
<1>5. LET new == Logging(call, at, event, next) IN
        /\ new \in Chat!AskRecords /\ new.at \notin {"create", "draft", "rename"} /\ Phase(new) = next
        /\ new.at = "log" => world.session # Absent
        /\ world.session # Absent => new.at = "log"
        /\ new.event = event /\ new.next = next
        /\ new.question = call.question /\ new.sent = call.sent /\ new.before = call.before
        /\ (new.alone <=> call.alone) /\ (new.audited <=> call.audited)
  BY <1>2, <1>4 DEF Phase, InLog
<1>q. QED BY <1>5 DEF at, LogStep, LogStepOK

AskRecord(question, at, alone, audited) ==
  [at |-> at, question |-> question, event |-> Absent, next |-> Absent, draft |-> Absent, sent |-> Absent, before |-> Absent,
   alone |-> alone, audited |-> audited]
NotAlone(call) == [call EXCEPT !.alone = FALSE]

\* An ask that is joined by another keeps what it holds, and is not alone.
LEMMA NotAloneOK ==
  ASSUME NEW call, NEW files, NEW chat, NEW next, AskOK(call, files, chat), next.session = chat.session, next.started
  PROVE AskOK(NotAlone(call), files, next) /\ ~NotAlone(call).alone /\ NotAlone(call).at = call.at /\ NotAlone(call).draft = call.draft
<1>1. call \in Chat!AskRecords BY DEF AskOK
<1>2. /\ NotAlone(call) \in Chat!AskRecords /\ ~NotAlone(call).alone
      /\ NotAlone(call).at = call.at /\ NotAlone(call).event = call.event /\ NotAlone(call).next = call.next
      /\ NotAlone(call).question = call.question /\ NotAlone(call).sent = call.sent /\ NotAlone(call).before = call.before
      /\ (NotAlone(call).audited <=> call.audited) /\ NotAlone(call).draft = call.draft
  BY <1>1 DEF NotAlone, Chat!AskRecords
<1>q. QED BY <1>1, <1>2 DEF AskOK, Phase, EventOn

\* A question is asked: who overlaps it is not alone any more.
LEMMA BeginSteps ==
  ASSUME ChatInv, NEW a \in Callers, Chat!Begin(a)
  PROVE ChatInv'
<1>1. PICK size \in Sizes[world.host], alone \in BOOLEAN, audited \in BOOLEAN :
        /\ alone <=> Chat!Idle
        /\ audited <=> world.session # Absent
        /\ calls' = [Chat!Shared(calls) EXCEPT ![a] =
             AskRecord([who |-> "user", ask |-> spent'.asks, size |-> size], IF world.started THEN "say" ELSE "create", alone, audited)]
  <2>1. PICK size \in Sizes[world.host] :
          calls' = [Chat!Shared(calls) EXCEPT ![a] =
             [at |-> IF world.started THEN "say" ELSE "create",
              question |-> [who |-> "user", ask |-> spent'.asks, size |-> size],
              event |-> Absent, next |-> Absent, draft |-> Absent, sent |-> Absent, before |-> Absent,
              alone |-> Chat!Idle, audited |-> world.session # Absent]]
    BY DEF Chat!Begin
  <2>2. Chat!Idle \in BOOLEAN /\ (world.session # Absent) \in BOOLEAN BY DEF Chat!Idle
  <2>q. QED BY <2>1, <2>2, Zenon DEF AskRecord
<1> DEFINE question == [who |-> "user", ask |-> spent'.asks, size |-> size]
           at == IF world.started THEN "say" ELSE "create"
           new == AskRecord(question, at, alone, audited)
<1>2. /\ UNCHANGED disk /\ calls[a] = Absent /\ (world.host = "serial" => Chat!Idle)
      /\ world' = [world EXCEPT !.started = TRUE] /\ spent' = [spent EXCEPT !.asks = @ + 1]
  BY DEF Chat!Begin
<1>3. disk \in Journals /\ world \in Chats /\ spent \in Spent BY DEF ChatInv
<1>4. /\ world' \in Chats /\ world'.host = world.host /\ world'.session = world.session /\ world'.messages = world.messages
      /\ world'.started /\ spent' \in Spent /\ spent'.failures = spent.failures
  <2>1. spent' \in Spent /\ spent'.failures = spent.failures BY <1>2, <1>3 DEF Spent
  <2>2. /\ world' \in Chats /\ world'.host = world.host /\ world'.session = world.session /\ world'.messages = world.messages
        /\ world'.started
    BY <1>2, <1>3 DEF Chats
  <2>q. QED BY <2>1, <2>2
<1>5. question \in Chat!Messages
  <2>1. world.host \in {"serial", "overlapping"} /\ spent'.asks \in Nat BY <1>3, <1>4 DEF Chats, Spent
  <2>q. QED BY <2>1 DEF Chat!Messages, Chat!MessageSizes
<1>6. at \in {"say", "create"} /\ at \in Chat!AskSteps /\ (at = "create" => ~world.started) BY DEF Chat!AskSteps
<1> HIDE DEF question, at
<1>7. /\ new \in Chat!AskRecords /\ new.at = at /\ new.sent = Absent /\ (new.alone <=> alone) /\ (new.audited <=> audited)
  BY <1>5, <1>6 DEF AskRecord, Chat!AskRecords
<1>8. calls' = [Chat!Shared(calls) EXCEPT ![a] = new] BY <1>1 DEF question, at
<1> HIDE DEF new
<1>9. AskOK(new, disk', world') BY <1>1, <1>4, <1>6, <1>7 DEF AskOK, Phase, InLog
<1>10. IsCalls' /\ calls'[a] = new BY <1>8 DEF IsCalls, Chat!Shared
<1>11. ASSUME NEW b \in Callers, b # a
       PROVE IF calls[b] = Absent THEN calls'[b] = Absent
             ELSE calls'[b] = NotAlone(calls[b]) /\ AskOK(calls'[b], disk', world') /\ ~calls'[b].alone
  <2>1. IF calls[b] = Absent THEN calls'[b] = Absent ELSE calls'[b] = NotAlone(calls[b])
    BY <1>8, <1>11 DEF Chat!Shared, NotAlone
  <2>2. calls[b] # Absent => AskOK(calls[b], disk, world) BY DEF ChatInv
  <2>3. ASSUME calls[b] # Absent PROVE AskOK(NotAlone(calls[b]), disk', world') /\ ~NotAlone(calls[b]).alone
    <3>1. AskOK(NotAlone(calls[b]), disk, world') /\ ~NotAlone(calls[b]).alone BY <2>2, <2>3, <1>4, NotAloneOK
    <3>q. QED BY <3>1, <1>2
  <2>q. QED BY <2>1, <2>3
<1>12. Chat!Idle => \A b \in Callers : b # a => calls'[b] = Absent BY <1>11 DEF Chat!Idle
<1>13. \A b \in Callers : calls'[b] = Absent \/ AskOK(calls'[b], disk', world') BY <1>9, <1>10, <1>11
<1>14. \A b, c \in Callers : calls'[b] # Absent /\ calls'[b].alone /\ calls'[c] # Absent => b = c
  <2>1. ASSUME NEW b \in Callers, NEW c \in Callers, calls'[b] # Absent, calls'[b].alone, calls'[c] # Absent PROVE b = c
    <3>1. b = a BY <2>1, <1>11
    <3>2. Chat!Idle BY <3>1, <2>1, <1>1, <1>7, <1>10
    <3>q. QED BY <3>1, <3>2, <2>1, <1>12
  <2>q. QED BY <2>1
<1>15. ASSUME world.host = "serial" PROVE SerialOK(disk', world', calls')
  <2>1. \A b \in Callers : b # a => calls'[b] = Absent BY <1>2, <1>12, <1>15
  <2>2. ~world.started => world.session = Absent BY DEF ChatInv
  <2>q. QED BY <2>1, <2>2, <1>4, <1>6, <1>7, <1>10 DEF SerialOK
<1>16. ASSUME world.host = "serial", spent.failures = 0 PROVE FilesOK(disk', world', calls')
  <2>1. \A b \in Callers : b # a => calls'[b] = Absent BY <1>2, <1>12, <1>16
  <2>2. FilesOK(disk, world, calls) BY <1>16 DEF ChatInv
  <2>3. \A b \in Callers : calls[b] = Absent BY <1>2, <1>16 DEF Chat!Idle
  <2>q. QED BY <2>1, <2>2, <2>3, <1>2, <1>4, <1>6, <1>7, <1>10 DEF FilesOK
<1>17. MemoryOK(world'.messages) BY <1>4 DEF ChatInv
<1>q. QED BY <1>2, <1>3, <1>4, <1>10, <1>13, <1>14, <1>15, <1>16, <1>17 DEF ChatInv

\* Remembering a message changes nothing but the memory, which stays bounded.
LEMMA RememberingOK ==
  ASSUME ChatInv, NEW message \in Chat!Messages, NEW next, next = Chat!Remembering(message)
  PROVE /\ next \in Chats /\ MemoryOK(next.messages) /\ next.messages = Chat!Trim(Append(world.messages, message))
        /\ next.host = world.host /\ next.started = world.started /\ next.session = world.session /\ next.topic = world.topic
<1>1. world \in Chats /\ world.messages \in Seq(Chat!Messages) BY DEF ChatInv, Chats
<1>2. Append(world.messages, message) \in Seq(Chat!Messages) BY <1>1
<1> DEFINE trimmed == Chat!Trim(Append(world.messages, message))
<1>3. MemoryOK(trimmed) /\ trimmed \in Seq(Chat!Messages) BY <1>2, TrimIsBounded DEF MemoryOK
<1>4. next = [world EXCEPT !.messages = trimmed] BY DEF Chat!Remembering
<1> HIDE DEF trimmed
<1>5. /\ next \in Chats /\ next.messages = trimmed
      /\ next.host = world.host /\ next.started = world.started /\ next.session = world.session /\ next.topic = world.topic
  BY <1>1, <1>3, <1>4 DEF Chats
<1>q. QED BY <1>3, <1>5 DEF trimmed

\* A reply is a message of the conversation.
LEMMA ReplyIsAMessage ==
  ASSUME ChatInv, NEW a \in Callers, calls[a] # Absent
  PROVE Chat!Reply(a) \in Chat!Messages
<1>1. calls[a] \in Chat!AskRecords BY DEF ChatInv, AskOK
<1>2. calls[a].question.ask \in Nat BY <1>1 DEF Chat!AskRecords, Chat!Messages
<1>3. 1 \in Chat!MessageSizes BY DEF Chat!MessageSizes
<1>4. Chat!Reply(a) = [who |-> "assistant", ask |-> calls[a].question.ask, size |-> 1] BY DEF Chat!Reply
<1>q. QED BY <1>2, <1>3, <1>4 DEF Chat!Messages

\* An ask that talks: to the memory or the model, and then to the log.
LEMMA TalkSteps ==
  ASSUME ChatInv, NEW a \in Callers, calls[a] # Absent, calls[a].at \in {"retrieve", "model", "complete"},
         NEW event \in Chat!EventNames, NEW next \in {"prepare", "complete", "answer"}, <<event, next>> \in Logged,
         next = "prepare" => calls[a].at = "retrieve" /\ world'.messages = world.messages,
         calls' = Chat!ToLog(a, event, next), UNCHANGED <<disk, spent>>,
         world' \in Chats, MemoryOK(world'.messages), world'.host = world.host, world'.started = world.started,
         world'.session = world.session
  PROVE ChatInv'
<1> DEFINE new == LogStep(calls[a], event, next)
<1>1. AskOK(calls[a], disk, world) BY DEF ChatInv
<1>2. calls[a] \in Chat!AskRecords BY <1>1 DEF AskOK
<1>3. calls' = [calls EXCEPT ![a] = new] BY DEF Chat!ToLog, Logging, LogStep
<1>4. /\ new \in Chat!AskRecords /\ new.at \notin {"create", "draft", "rename"} /\ Phase(new) = next
      /\ new.at = "log" => world.session # Absent
      /\ world.session # Absent => new.at = "log"
      /\ new.event = event /\ new.next = next
      /\ new.question = calls[a].question /\ new.sent = calls[a].sent /\ new.before = calls[a].before
      /\ (new.alone <=> calls[a].alone) /\ (new.audited <=> calls[a].audited)
  <2>1. next \in Nexts BY DEF Nexts
  <2>2. LogStepOK(calls[a], event, next) BY <1>2, <2>1, ToLogOK
  <2>q. QED BY <2>2 DEF LogStepOK
<1> HIDE DEF new
<1>5. Phase(calls[a]) = calls[a].at BY DEF Phase, InLog
<1>6. new.at \in InLog => <<new.event, new.next>> \in Logged /\ world'.session # Absent BY <1>4 DEF InLog
<1>7. next = "prepare" => event = "context-retrieved" BY DEF Logged
<1>8. AskOK(new, disk, world') BY <1>1, <1>4, <1>5, <1>6, <1>7 DEF AskOK, EventOn
<1>9. spent \in Spent /\ spent.failures <= spent.failures BY DEF ChatInv, Spent
<1>q. QED BY <1>3, <1>4, <1>8, <1>9, ChatTalks

WithBefore(call, messages) == [call EXCEPT !.before = messages]
WithSent(call, messages) == [call EXCEPT !.sent = messages]
\* The fields of an ask that keeps the conversation it began with or what it sends.
LEMMA WithFields ==
  ASSUME NEW call \in Chat!AskRecords, NEW messages \in Seq(Chat!Messages)
  PROVE /\ WithBefore(call, messages) \in Chat!AskRecords /\ WithBefore(call, messages).before = messages
        /\ WithBefore(call, messages).at = call.at /\ WithBefore(call, messages).event = call.event
        /\ WithBefore(call, messages).next = call.next /\ WithBefore(call, messages).question = call.question
        /\ WithBefore(call, messages).sent = call.sent
        /\ (WithBefore(call, messages).alone <=> call.alone) /\ (WithBefore(call, messages).audited <=> call.audited)
        /\ WithSent(call, messages) \in Chat!AskRecords /\ WithSent(call, messages).sent = messages
        /\ WithSent(call, messages).at = call.at /\ WithSent(call, messages).event = call.event
        /\ WithSent(call, messages).next = call.next /\ WithSent(call, messages).question = call.question
        /\ WithSent(call, messages).before = call.before
        /\ (WithSent(call, messages).alone <=> call.alone) /\ (WithSent(call, messages).audited <=> call.audited)
BY DEF WithBefore, WithSent, Chat!AskRecords

\* The question is remembered, with the conversation before it.
LEMMA SaySteps ==
  ASSUME ChatInv, NEW a \in Callers, Chat!Say(a)
  PROVE ChatInv'
<1> DEFINE q == calls[a].question
           step == LogStep(calls[a], "user-message", "retrieve")
           new == WithBefore(step, world.messages)
           remembered == Chat!Remembering(q)
<1>1. calls[a] # Absent /\ calls[a].at = "say" BY DEF Chat!Say, Chat!At
<1>2. AskOK(calls[a], disk, world) BY <1>1 DEF ChatInv
<1>3. calls[a] \in Chat!AskRecords BY <1>2 DEF AskOK
<1>4. q \in Chat!Messages /\ world.messages \in Seq(Chat!Messages) /\ world \in Chats BY <1>3 DEF ChatInv, Chat!AskRecords, Chats
<1>5. LogStepOK(calls[a], "user-message", "retrieve")
  <2>1. "user-message" \in Chat!EventNames /\ "retrieve" \in Nexts BY DEF Chat!EventNames, Nexts
  <2>q. QED BY <1>3, <2>1, ToLogOK
<1>6. calls' = [calls EXCEPT ![a] = new] BY DEF Chat!Say, Chat!ToLog, Logging, LogStep, WithBefore
<1>7. /\ new \in Chat!AskRecords /\ new.at \notin {"create", "draft", "rename"} /\ Phase(new) = "retrieve"
      /\ new.at = "log" => world.session # Absent
      /\ world.session # Absent => new.at = "log"
      /\ new.event = "user-message" /\ new.next = "retrieve" /\ new.before = world.messages
      /\ new.question = q /\ new.sent = calls[a].sent
      /\ (new.alone <=> calls[a].alone) /\ (new.audited <=> calls[a].audited)
  <2>1. step \in Chat!AskRecords BY <1>5 DEF LogStepOK
  <2> HIDE DEF step
  <2>2. /\ new \in Chat!AskRecords /\ new.before = world.messages /\ new.at = step.at /\ new.event = step.event
        /\ new.next = step.next /\ new.question = step.question /\ new.sent = step.sent
        /\ (new.alone <=> step.alone) /\ (new.audited <=> step.audited)
    BY <2>1, <1>4, WithFields
  <2> HIDE DEF new
  <2> USE DEF step
  <2>q. QED BY <2>2, <1>5 DEF LogStepOK, Phase
<1>8. /\ remembered \in Chats /\ MemoryOK(remembered.messages) /\ remembered.messages = Chat!Trim(Append(world.messages, q))
      /\ remembered.host = world.host /\ remembered.started = world.started /\ remembered.session = world.session
      /\ remembered.topic = world.topic
  BY <1>4, RememberingOK
<1>9. q.ask \in Nat BY <1>4 DEF Chat!Messages
<1>10. PICK topic \in {Absent} \cup Nat : world' = [remembered EXCEPT !.topic = topic]
  <2>1. world' = [remembered EXCEPT !.topic = IF @ = Absent \/ q.size > 1 THEN q.ask ELSE @] BY DEF Chat!Say
  <2>2. remembered.topic \in {Absent} \cup Nat BY <1>8 DEF Chats
  <2> HIDE DEF remembered, q
  <2>q. QED BY <2>1, <2>2, <1>9
<1> HIDE DEF remembered, new, step
<1>11. /\ world' \in Chats /\ MemoryOK(world'.messages) /\ world'.messages = Chat!Trim(Append(world.messages, q))
       /\ world'.host = world.host /\ world'.started = world.started /\ world'.session = world.session
  <2>1. /\ world' \in Chats /\ world'.messages = remembered.messages /\ world'.host = remembered.host
        /\ world'.started = remembered.started /\ world'.session = remembered.session
    BY <1>8, <1>10 DEF Chats
  <2>q. QED BY <2>1, <1>8
<1>12. Phase(calls[a]) = "say" BY <1>1 DEF Phase, InLog
<1>13. new.at \in InLog => <<new.event, new.next>> \in Logged /\ world'.session # Absent BY <1>7, <1>11 DEF InLog, Logged
<1>14. AskOK(new, disk, world') BY <1>2, <1>4, <1>7, <1>11, <1>12, <1>13 DEF AskOK
<1>15. spent' \in Spent /\ spent.failures <= spent'.failures /\ UNCHANGED disk BY DEF Chat!Say, ChatInv, Spent
<1>q. QED BY <1>1, <1>6, <1>7, <1>11, <1>14, <1>15, ChatTalks

\* The messages for the model are made from the memory, in place of its last one.
LEMMA PrepareSteps ==
  ASSUME ChatInv, NEW a \in Callers, Chat!Prepare(a)
  PROVE ChatInv'
<1> DEFINE q == calls[a].question
           step == LogStep(calls[a], "model-requested", "model")
           sent == Sending(world.messages, q)
           new == WithSent(step, sent)
<1>1. calls[a] # Absent /\ calls[a].at = "prepare" /\ UNCHANGED <<disk, world, spent>> BY DEF Chat!Prepare, Chat!At
<1>2. AskOK(calls[a], disk, world) BY <1>1 DEF ChatInv
<1>3. calls[a] \in Chat!AskRecords BY <1>2 DEF AskOK
<1>4. q \in Chat!Messages /\ world.messages \in Seq(Chat!Messages) /\ world \in Chats BY <1>3 DEF ChatInv, Chat!AskRecords, Chats
<1>5. LogStepOK(calls[a], "model-requested", "model")
  <2>1. "model-requested" \in Chat!EventNames /\ "model" \in Nexts BY DEF Chat!EventNames, Nexts
  <2>q. QED BY <1>3, <2>1, ToLogOK
<1>6. calls' = [calls EXCEPT ![a] = new]
  BY DEF Chat!Prepare, Chat!ToLog, Chat!History, Logging, LogStep, WithSent, Sending
<1>7. sent \in Seq(Chat!Messages)
  <2>1. world.messages # <<>> => Chat!Front(world.messages) \in Seq(Chat!Messages) BY <1>4 DEF Chat!Front
  <2>q. QED BY <2>1, <1>4 DEF Sending
<1> HIDE DEF sent
<1>8. /\ new \in Chat!AskRecords /\ new.at \notin {"create", "draft", "rename"} /\ Phase(new) = "model"
      /\ new.at = "log" => world.session # Absent
      /\ world.session # Absent => new.at = "log"
      /\ new.event = "model-requested" /\ new.next = "model" /\ new.before = calls[a].before
      /\ new.question = q /\ new.sent = sent
      /\ (new.alone <=> calls[a].alone) /\ (new.audited <=> calls[a].audited)
  <2>1. step \in Chat!AskRecords BY <1>5 DEF LogStepOK
  <2> HIDE DEF step
  <2>2. /\ new \in Chat!AskRecords /\ new.before = step.before /\ new.at = step.at /\ new.event = step.event
        /\ new.next = step.next /\ new.question = step.question /\ new.sent = sent
        /\ (new.alone <=> step.alone) /\ (new.audited <=> step.audited)
    BY <2>1, <1>7, WithFields
  <2> HIDE DEF new
  <2> USE DEF step
  <2>q. QED BY <2>2, <1>5 DEF LogStepOK, Phase
<1> HIDE DEF new, step
<1>9. Phase(calls[a]) = "prepare" BY <1>1 DEF Phase, InLog
<1>10. calls[a].before \in Seq(Chat!Messages) /\ (calls[a].alone => world.messages = Chat!Trim(Append(calls[a].before, q)))
  BY <1>2, <1>9 DEF AskOK
<1>11. calls[a].alone => Sees(sent, calls[a].before, q) BY <1>4, <1>10, ModelSeesIt DEF sent
<1>12. new.at \in InLog => <<new.event, new.next>> \in Logged /\ world.session # Absent BY <1>8 DEF InLog, Logged
<1>13. AskOK(new, disk, world)
  BY <1>2, <1>8, <1>9, <1>11, <1>12, <1>1 DEF AskOK, EventOn
<1>14. spent' \in Spent /\ spent.failures <= spent'.failures /\ MemoryOK(world.messages) /\ world \in Chats
  BY <1>1 DEF ChatInv, Spent
<1>15. AskOK(new, disk, world') BY <1>13, <1>1
<1>q. QED BY <1>1, <1>6, <1>8, <1>14, <1>15, ChatTalks

---------------------------------------------------------------------------
\* The first ask creates the session.
LEMMA CreateSteps ==
  ASSUME ChatInv, NEW a \in Callers, Chat!Create(a)
  PROVE ChatInv'
<1> DEFINE session == [events |-> {Chat!Start}]
           new == Logging(calls[a], "log", "started", "say")
<1>1. calls[a] # Absent /\ calls[a].at = "create" BY DEF Chat!Create, Chat!At
<1>2. AskOK(calls[a], disk, world) BY <1>1 DEF ChatInv
<1>3. calls[a] \in Chat!AskRecords /\ calls[a].sent = Absent BY <1>1, <1>2 DEF AskOK, Phase, InLog
<1>4. session \in Chat!Sessions /\ session # Absent /\ session.events = {Chat!Start}
  <2>1. Chat!Start \in Chat!Events BY DEF Chat!Start, Chat!Events, Chat!EventNames
  <2> HIDE DEF session
  <2>2. session \in Chat!Sessions /\ session.events = {Chat!Start} BY <2>1 DEF session, Chat!Sessions
  <2>q. QED BY <2>2, ChatAssumption
<1>5. /\ disk' = [disk EXCEPT !.json = session] /\ world' = [world EXCEPT !.session = session]
      /\ calls' = [calls EXCEPT ![a] = new] /\ UNCHANGED spent
  BY DEF Chat!Create, Logging
<1> HIDE DEF session
<1>6. disk' \in Journals /\ disk'.json = session /\ disk'.jsonl = disk.jsonl BY <1>4, <1>5 DEF ChatInv, Journals
<1>7. /\ world' \in Chats /\ world'.session = session /\ world'.messages = world.messages /\ world'.host = world.host
      /\ world'.started = world.started
  BY <1>4, <1>5 DEF ChatInv, Chats
<1>8. /\ new \in Chat!AskRecords /\ new.at = "log" /\ new.event = "started" /\ new.next = "say" /\ new.sent = Absent
      /\ (new.alone <=> calls[a].alone)
  <2>1. "log" \in Chat!AskSteps /\ "say" \in Chat!AskSteps /\ "started" \in Chat!EventNames BY DEF Chat!AskSteps, Chat!EventNames
  <2>q. QED BY <1>3, <2>1, LoggingFields
<1> HIDE DEF new
<1>9. AskOK(new, disk', world')
  BY <1>2, <1>4, <1>7, <1>8 DEF AskOK, Phase, InLog, Logged
<1>10. ASSUME world.host = "serial", spent.failures = 0 PROVE FilesOK(disk', world', calls')
  <2>1. FilesOK(disk, world, calls) /\ SerialOK(disk, world, calls) BY <1>10 DEF ChatInv
  <2>2. disk.jsonl = {} /\ \A b \in Callers : b # a => calls[b] = Absent BY <2>1, <1>1 DEF FilesOK, SerialOK
  <2>3. calls'[a] = new /\ \A b \in Callers : b # a => calls'[b] = calls[b] BY <1>5, OneCallMoves DEF ChatInv
  <2>q. QED BY <2>2, <2>3, <1>4, <1>6, <1>7, <1>8 DEF FilesOK
<1>11. spent' \in Spent /\ spent.failures <= spent'.failures /\ MemoryOK(world'.messages) BY <1>5, <1>7 DEF ChatInv, Spent
<1>q. QED BY <1>1, <1>4, <1>5, <1>6, <1>7, <1>8, <1>9, <1>10, <1>11, ChatMoves

AtOnly(call, at) == [call EXCEPT !.at = at]
Drafted(call, at, draft) == [call EXCEPT !.at = at, !.draft = draft]
\* The fields of an ask that goes on, or drafts the .json.
LEMMA AtFields ==
  ASSUME NEW call \in Chat!AskRecords, NEW at \in Chat!AskSteps, NEW draft \in {Absent} \cup Chat!Sessions
  PROVE /\ AtOnly(call, at) \in Chat!AskRecords /\ AtOnly(call, at).at = at /\ AtOnly(call, at).event = call.event
        /\ AtOnly(call, at).next = call.next /\ AtOnly(call, at).question = call.question
        /\ AtOnly(call, at).sent = call.sent /\ AtOnly(call, at).before = call.before
        /\ (AtOnly(call, at).alone <=> call.alone) /\ (AtOnly(call, at).audited <=> call.audited)
        /\ Drafted(call, at, draft) \in Chat!AskRecords /\ Drafted(call, at, draft).at = at /\ Drafted(call, at, draft).event = call.event
        /\ Drafted(call, at, draft).next = call.next /\ Drafted(call, at, draft).question = call.question
        /\ Drafted(call, at, draft).sent = call.sent /\ Drafted(call, at, draft).before = call.before
        /\ Drafted(call, at, draft).draft = draft
        /\ (Drafted(call, at, draft).alone <=> call.alone) /\ (Drafted(call, at, draft).audited <=> call.audited)
BY DEF AtOnly, Drafted, Chat!AskRecords

\* Between a push and a rename the phase of an ask stays, and what it logged is in the journal.
LEMMA LogSteps ==
  ASSUME ChatInv, NEW a \in Callers, Chat!Log(a)
  PROVE ChatInv'
<1> DEFINE event == Chat!EventOf(a)
           new == AtOnly(calls[a], "draft")
           session == [world.session EXCEPT !.events = @ \cup {event}]
<1>1. calls[a] # Absent /\ calls[a].at = "log" BY DEF Chat!Log, Chat!At
<1>2. AskOK(calls[a], disk, world) BY <1>1 DEF ChatInv
<1>3. /\ calls[a] \in Chat!AskRecords /\ <<calls[a].event, calls[a].next>> \in Logged /\ world.session # Absent
      /\ Phase(calls[a]) = calls[a].next
  BY <1>1, <1>2 DEF AskOK, InLog, Phase
<1>4. calls[a].event \in Chat!EventNames /\ calls[a].event # "session-start" /\ calls[a].next \in Chat!AskSteps
      /\ (calls[a].next = "model" => calls[a].event = "model-requested")
  BY <1>3 DEF Logged, Chat!EventNames, Chat!AskSteps
<1>5. event \in Chat!Events /\ event # Chat!Start /\ event = EventOn(calls[a].event, calls[a])
  <2>1. calls[a].question.ask \in Nat BY <1>3 DEF Chat!AskRecords, Chat!Messages
  <2>2. event = [kind |-> calls[a].event, ask |-> calls[a].question.ask] BY DEF Chat!EventOf
  <2>3. event.kind = calls[a].event /\ Chat!Start.kind = "session-start" BY <2>2 DEF Chat!Start
  <2>q. QED BY <2>1, <2>2, <2>3, <1>4 DEF Chat!Events, EventOn
<1> HIDE DEF event
<1>6. disk \in Journals /\ world \in Chats /\ world.session \in Chat!Sessions BY <1>3 DEF ChatInv, Chats
<1>7. session \in Chat!Sessions /\ session.events = world.session.events \cup {event} BY <1>5, <1>6 DEF Chat!Sessions
<1>8. session # Absent BY <1>7, ChatAssumption
<1>9. /\ disk' = [disk EXCEPT !.jsonl = @ \cup {event}] /\ world' = [world EXCEPT !.session = session]
      /\ calls' = [calls EXCEPT ![a] = new] /\ UNCHANGED spent
  BY DEF Chat!Log, AtOnly, event
<1> HIDE DEF session
<1>10. disk' \in Journals /\ disk'.json = disk.json /\ disk'.jsonl = disk.jsonl \cup {event} BY <1>5, <1>6, <1>9 DEF Journals
<1>11. /\ world' \in Chats /\ world'.session = session /\ world'.messages = world.messages /\ world'.host = world.host
       /\ world'.started = world.started
  BY <1>6, <1>7, <1>9 DEF Chats
<1>12. /\ new \in Chat!AskRecords /\ new.at = "draft" /\ new.event = calls[a].event /\ new.next = calls[a].next
       /\ new.question = calls[a].question /\ new.sent = calls[a].sent /\ new.before = calls[a].before
       /\ (new.alone <=> calls[a].alone) /\ (new.audited <=> calls[a].audited)
  <2>1. "draft" \in Chat!AskSteps BY DEF Chat!AskSteps
  <2>q. QED BY <1>3, <2>1, AtFields
<1> HIDE DEF new
<1>13. Phase(new) = Phase(calls[a]) BY <1>1, <1>12 DEF Phase, InLog
<1>14. \A kind \in Chat!EventNames : EventOn(kind, new) = EventOn(kind, calls[a]) BY <1>12 DEF EventOn
<1>15. AskOK(new, disk', world')
  <2>1. "user-message" \in Chat!EventNames /\ "model-requested" \in Chat!EventNames BY DEF Chat!EventNames
  <2>2. new.audited /\ Phase(new) \in {"retrieve", "prepare", "model"} => EventOn("user-message", new) \in disk'.jsonl
    BY <1>1, <1>2, <1>5, <1>10, <1>12, <1>13, <1>14, <2>1 DEF AskOK
  <2>3. new.audited /\ Phase(new) = "model" => EventOn("model-requested", new) \in disk'.jsonl
    BY <1>3, <1>4, <1>5, <1>10, <1>13, <1>14, <2>1
  <2>q. QED BY <1>2, <1>3, <1>8, <1>11, <1>12, <1>13, <2>2, <2>3 DEF AskOK
<1>16. new # Absent BY <1>12, ChatAssumption
<1>17. ASSUME world.host = "serial", spent.failures = 0 PROVE FilesOK(disk', world', calls')
  <2>1. FilesOK(disk, world, calls) /\ SerialOK(disk, world, calls) BY <1>17 DEF ChatInv
  <2>2. \A b \in Callers : b # a => calls[b] = Absent BY <2>1, <1>1 DEF SerialOK
  <2>3. calls'[a] = new /\ \A b \in Callers : b # a => calls'[b] = calls[b] BY <1>9, OneCallMoves DEF ChatInv
  <2>4. world'.session.events = {Chat!Start} \cup disk'.jsonl /\ Chat!Start \notin disk'.jsonl
    BY <2>1, <1>3, <1>5, <1>7, <1>10, <1>11 DEF FilesOK
  <2>q. QED BY <2>2, <2>3, <2>4, <1>8, <1>11, <1>12, <1>16 DEF FilesOK
<1>18. spent' \in Spent /\ spent.failures <= spent'.failures /\ MemoryOK(world'.messages) /\ disk.jsonl \subseteq disk'.jsonl
  BY <1>9, <1>10, <1>11 DEF ChatInv, Spent
<1>q. QED BY <1>1, <1>8, <1>9, <1>10, <1>11, <1>12, <1>15, <1>17, <1>18, ChatMoves

\* An event that was pushed is appended to the .jsonl and the .json drafted.
LEMMA DraftSteps ==
  ASSUME ChatInv, NEW a \in Callers, Chat!Draft(a)
  PROVE ChatInv'
<1> DEFINE new == Drafted(calls[a], "rename", world.session)
<1>1. calls[a] # Absent /\ calls[a].at = "draft" /\ UNCHANGED <<disk, world, spent>> BY DEF Chat!Draft, Chat!At
<1>2. AskOK(calls[a], disk, world) BY <1>1 DEF ChatInv
<1>3. /\ calls[a] \in Chat!AskRecords /\ <<calls[a].event, calls[a].next>> \in Logged /\ world.session # Absent
      /\ Phase(calls[a]) = calls[a].next
  BY <1>1, <1>2 DEF AskOK, InLog, Phase
<1>4. calls' = [calls EXCEPT ![a] = new] BY DEF Chat!Draft, Drafted
<1>5. /\ new \in Chat!AskRecords /\ new.at = "rename" /\ new.event = calls[a].event /\ new.next = calls[a].next
      /\ new.question = calls[a].question /\ new.sent = calls[a].sent /\ new.before = calls[a].before
      /\ new.draft = world.session
      /\ (new.alone <=> calls[a].alone) /\ (new.audited <=> calls[a].audited)
  <2>1. "rename" \in Chat!AskSteps /\ world.session \in {Absent} \cup Chat!Sessions BY DEF Chat!AskSteps, ChatInv, Chats
  <2>q. QED BY <1>3, <2>1, AtFields
<1> HIDE DEF new
<1>6. Phase(new) = Phase(calls[a]) BY <1>1, <1>5 DEF Phase, InLog
<1>7. AskOK(new, disk, world) BY <1>1, <1>2, <1>3, <1>5, <1>6 DEF AskOK, EventOn
<1>8. AskOK(new, disk', world') BY <1>1, <1>7
<1>9. new # Absent BY <1>5, ChatAssumption
<1>10. ASSUME world.host = "serial", spent.failures = 0 PROVE FilesOK(disk', world', calls')
  <2>1. FilesOK(disk, world, calls) /\ SerialOK(disk, world, calls) BY <1>10 DEF ChatInv
  <2>2. \A b \in Callers : b # a => calls[b] = Absent BY <2>1, <1>1 DEF SerialOK
  <2>3. calls'[a] = new /\ \A b \in Callers : b # a => calls'[b] = calls[b] BY <1>4, OneCallMoves DEF ChatInv
  <2>q. QED BY <2>1, <2>2, <2>3, <1>1, <1>5, <1>9 DEF FilesOK
<1>11. /\ spent' \in Spent /\ spent.failures <= spent'.failures /\ MemoryOK(world'.messages) /\ disk.jsonl \subseteq disk'.jsonl
       /\ disk' \in Journals /\ world' \in Chats
  BY <1>1 DEF ChatInv, Spent
<1>q. QED BY <1>1, <1>4, <1>5, <1>8, <1>10, <1>11, ChatMoves

\* The draft is renamed to the .json.
LEMMA RenameSteps ==
  ASSUME ChatInv, NEW a \in Callers, Chat!Rename(a)
  PROVE ChatInv'
<1> DEFINE new == Drafted(calls[a], calls[a].next, Absent)
<1>1. calls[a] # Absent /\ calls[a].at = "rename" /\ UNCHANGED <<world, spent>> BY DEF Chat!Rename, Chat!At
<1>2. AskOK(calls[a], disk, world) BY <1>1 DEF ChatInv
<1>3. /\ calls[a] \in Chat!AskRecords /\ <<calls[a].event, calls[a].next>> \in Logged /\ world.session # Absent
      /\ Phase(calls[a]) = calls[a].next
  BY <1>1, <1>2 DEF AskOK, InLog, Phase
<1>4. calls[a].next \in {"say", "retrieve", "prepare", "model", "complete", "answer"} BY <1>3 DEF Logged
<1>5. calls' = [calls EXCEPT ![a] = new] /\ disk' = [disk EXCEPT !.json = calls[a].draft] BY DEF Chat!Rename, Drafted
<1>6. /\ new \in Chat!AskRecords /\ new.at = calls[a].next /\ new.event = calls[a].event /\ new.next = calls[a].next
      /\ new.question = calls[a].question /\ new.sent = calls[a].sent /\ new.before = calls[a].before
      /\ (new.alone <=> calls[a].alone) /\ (new.audited <=> calls[a].audited)
  <2>1. calls[a].next \in Chat!AskSteps BY <1>4 DEF Chat!AskSteps
  <2>q. QED BY <1>3, <2>1, AtFields
<1> HIDE DEF new
<1>7. disk' \in Journals /\ disk'.json = calls[a].draft /\ disk'.jsonl = disk.jsonl
  <2>1. disk \in Journals /\ calls[a].draft \in {Absent} \cup Chat!Sessions BY <1>3 DEF ChatInv, Chat!AskRecords
  <2>q. QED BY <2>1, <1>5 DEF Journals
<1>8. Phase(new) = Phase(calls[a]) BY <1>3, <1>4, <1>6 DEF Phase, InLog
<1>9. new.at \notin InLog BY <1>4, <1>6 DEF InLog
<1>10. AskOK(new, disk', world') BY <1>1, <1>2, <1>3, <1>6, <1>7, <1>8, <1>9 DEF AskOK, EventOn
<1>11. ASSUME world.host = "serial", spent.failures = 0 PROVE FilesOK(disk', world', calls')
  <2>1. FilesOK(disk, world, calls) /\ SerialOK(disk, world, calls) BY <1>11 DEF ChatInv
  <2>2. \A b \in Callers : b # a => calls[b] = Absent BY <2>1, <1>1 DEF SerialOK
  <2>3. calls'[a] = new /\ \A b \in Callers : b # a => calls'[b] = calls[b] BY <1>5, OneCallMoves DEF ChatInv
  <2>4. disk'.json = world.session BY <2>1, <1>1, <1>7 DEF FilesOK
  <2>q. QED BY <2>1, <2>2, <2>3, <2>4, <1>1, <1>3, <1>4, <1>6, <1>7 DEF FilesOK
<1>12. /\ spent' \in Spent /\ spent.failures <= spent'.failures /\ MemoryOK(world'.messages) /\ disk.jsonl \subseteq disk'.jsonl
       /\ world' \in Chats
  BY <1>1, <1>7 DEF ChatInv, Spent
<1>q. QED BY <1>1, <1>4, <1>5, <1>6, <1>7, <1>10, <1>11, <1>12, ChatMoves

\* A file or the provider fails, and the ask with it.
LEMMA FailSteps ==
  ASSUME ChatInv, NEW a \in Callers, Chat!Fail(a)
  PROVE ChatInv'
<1> DEFINE event == Chat!EventOf(a)
<1>1. calls[a] # Absent /\ UNCHANGED disk /\ calls' = [calls EXCEPT ![a] = Absent] BY DEF Chat!Fail
<1>2. spent \in Spent /\ spent' = [spent EXCEPT !.failures = @ + 1] BY DEF Chat!Fail, ChatInv
<1>3. spent' \in Spent /\ spent.failures <= spent'.failures /\ spent'.failures # 0 BY <1>2 DEF Spent
<1>4. AskOK(calls[a], disk, world) /\ world \in Chats /\ disk \in Journals /\ MemoryOK(world.messages) BY <1>1 DEF ChatInv
<1>5. /\ world' \in Chats /\ world'.messages = world.messages /\ world'.host = world.host /\ world'.started = world.started
      /\ (world.session # Absent => world'.session # Absent)
  <2>1. CASE calls[a].at # "log" BY <2>1, <1>1, <1>4 DEF Chat!Fail, Chat!At
  <2>2. CASE calls[a].at = "log"
    <3>1. /\ calls[a] \in Chat!AskRecords /\ <<calls[a].event, calls[a].next>> \in Logged /\ world.session # Absent
      BY <2>2, <1>4 DEF AskOK, InLog
    <3>2. calls[a].event \in Chat!EventNames /\ calls[a].question.ask \in Nat BY <3>1 DEF Logged, Chat!EventNames, Chat!AskRecords, Chat!Messages
    <3>3. event \in Chat!Events BY <3>2 DEF Chat!Events, Chat!EventOf
    <3> HIDE DEF event
    <3> DEFINE session == [world.session EXCEPT !.events = @ \cup {event}]
    <3>4. session \in Chat!Sessions BY <3>1, <3>3, <1>4 DEF Chats, Chat!Sessions
    <3>5. world' = [world EXCEPT !.session = session] BY <2>2, <1>1 DEF Chat!Fail, Chat!At, event
    <3> HIDE DEF session
    <3>6. /\ world' \in Chats /\ world'.session = session /\ world'.messages = world.messages /\ world'.host = world.host
          /\ world'.started = world.started
      BY <3>4, <3>5, <1>4 DEF Chats
    <3>q. QED BY <3>4, <3>6, ChatAssumption
  <2>q. QED BY <2>1, <2>2
<1>q. QED BY <1>1, <1>3, <1>4, <1>5, ChatMoves

\* The host's own steps, while nobody asks.
LEMMA HostSteps ==
  ASSUME ChatInv, Chat!Clear \/ Chat!End
  PROVE ChatInv'
<1>1. \A b \in Callers : calls[b] = Absent BY DEF Chat!Clear, Chat!End, Chat!Idle
<1>2. UNCHANGED <<calls, spent>> BY DEF Chat!Clear, Chat!End
<1>3. world \in Chats /\ disk \in Journals /\ spent \in Spent BY DEF ChatInv
<1>4. CASE Chat!Clear
  <2>1. <<>> \in Seq(Chat!Messages) /\ MemoryOK(<<>>) BY ChatAssumption DEF MemoryOK
  <2>2. world' = [world EXCEPT !.messages = <<>>, !.topic = Absent] /\ UNCHANGED disk BY <1>4 DEF Chat!Clear
  <2>3. /\ world' \in Chats /\ world'.messages = <<>> /\ world'.host = world.host /\ world'.started = world.started
        /\ world'.session = world.session
    BY <2>1, <2>2, <1>3 DEF Chats
  <2>4. world.host = "serial" /\ spent.failures = 0 => FilesOK(disk', world', calls')
    BY <2>2, <2>3, <1>1, <1>2 DEF ChatInv, FilesOK
  <2>q. QED BY <2>1, <2>2, <2>3, <2>4, <1>1, <1>2, <1>3 DEF ChatInv, SerialOK, IsCalls
<1>5. CASE Chat!End
  <2> DEFINE end == [kind |-> "session-end", ask |-> 0]
             session == [events |-> world.session.events \cup {end}]
  <2>1. world.session # Absent /\ world.session \in Chat!Sessions BY <1>3, <1>5 DEF Chat!End, Chats
  <2>2. end \in Chat!Events /\ end # Chat!Start
    <3>1. end.kind = "session-end" /\ Chat!Start.kind = "session-start" BY DEF Chat!Start
    <3>q. QED BY <3>1 DEF Chat!Events, Chat!EventNames
  <2>3. disk' = [json |-> session, jsonl |-> disk.jsonl \cup {end}] /\ world' = [world EXCEPT !.session = session, !.ended = TRUE]
    BY <1>5 DEF Chat!End
  <2> HIDE DEF end
  <2>4. session \in Chat!Sessions /\ session.events = world.session.events \cup {end} BY <2>1, <2>2 DEF Chat!Sessions
  <2>5. session # Absent BY <2>4, ChatAssumption
  <2> HIDE DEF session
  <2>6. disk' \in Journals /\ disk'.json = session /\ disk'.jsonl = disk.jsonl \cup {end} BY <2>2, <2>3, <2>4, <1>3 DEF Journals
  <2>7. /\ world' \in Chats /\ world'.messages = world.messages /\ world'.host = world.host /\ world'.started = world.started
        /\ world'.session = session
    BY <2>3, <2>4, <1>3 DEF Chats
  <2>8. ASSUME world.host = "serial", spent.failures = 0 PROVE FilesOK(disk', world', calls')
    <3>1. world.session.events = {Chat!Start} \cup disk.jsonl /\ Chat!Start \notin disk.jsonl
      BY <2>1, <2>8 DEF ChatInv, FilesOK
    <3>q. QED BY <3>1, <2>2, <2>4, <2>5, <2>6, <2>7, <1>1, <1>2 DEF FilesOK
  <2>9. ~world.started => FALSE BY <2>1 DEF ChatInv
  <2>q. QED BY <2>6, <2>7, <2>8, <2>9, <1>1, <1>2, <1>3 DEF ChatInv, SerialOK, IsCalls
<1>q. QED BY <1>4, <1>5

\* Every step of the chat service.
LEMMA ChatSteps ==
  ASSUME ChatInv, Chat!ChatNext
  PROVE ChatInv'
<1> USE DEF Chat!At
<1>0. world \in Chats /\ MemoryOK(world.messages) BY DEF ChatInv
<1>1. /\ <<"context-retrieved", "prepare">> \in Logged /\ <<"deterministic", "answer">> \in Logged
      /\ <<"model-response", "complete">> \in Logged /\ <<"failed", "answer">> \in Logged /\ <<"completed", "answer">> \in Logged
      /\ {"context-retrieved", "deterministic", "model-response", "failed", "completed"} \subseteq Chat!EventNames
  BY DEF Logged, Chat!EventNames
<1>2. ASSUME NEW a \in Callers, Chat!Retrieve(a) PROVE ChatInv'
  BY <1>0, <1>1, <1>2, TalkSteps DEF Chat!Retrieve
<1>3. ASSUME NEW a \in Callers, Chat!Deterministic(a) \/ Chat!ModelAnswers(a) PROVE ChatInv'
  <2>1. calls[a] # Absent /\ world' = Chat!Remembering(Chat!Reply(a)) BY <1>3 DEF Chat!Deterministic, Chat!ModelAnswers
  <2>2. Chat!Reply(a) \in Chat!Messages BY <2>1, ReplyIsAMessage
  <2> DEFINE next == Chat!Remembering(Chat!Reply(a))
  <2>3. /\ next \in Chats /\ MemoryOK(next.messages) /\ next.host = world.host /\ next.started = world.started
        /\ next.session = world.session
    BY <2>2, RememberingOK
  <2>4. /\ world' \in Chats /\ MemoryOK(world'.messages) /\ world'.host = world.host /\ world'.started = world.started
        /\ world'.session = world.session
    BY <2>1, <2>3
  <2>5. CASE Chat!Deterministic(a) BY <2>4, <2>5, <1>1, TalkSteps DEF Chat!Deterministic
  <2>6. CASE Chat!ModelAnswers(a) BY <2>4, <2>6, <1>1, TalkSteps DEF Chat!ModelAnswers
  <2>q. QED BY <2>5, <2>6, <1>3
<1>4. ASSUME NEW a \in Callers, Chat!ModelFails(a) \/ Chat!Complete(a) PROVE ChatInv'
  BY <1>0, <1>1, <1>4, TalkSteps DEF Chat!ModelFails, Chat!Complete
<1>5. ASSUME NEW a \in Callers, Chat!Answer(a) PROVE ChatInv'
  <2>1. /\ calls[a] # Absent /\ calls[a].at = "answer" /\ calls' = [calls EXCEPT ![a] = Absent]
        /\ UNCHANGED disk /\ UNCHANGED world /\ UNCHANGED spent
    BY <1>5 DEF Chat!Answer
  <2>2. world' \in Chats /\ MemoryOK(world'.messages) /\ spent' \in Spent /\ spent.failures <= spent'.failures
    BY <2>1 DEF ChatInv, Spent
  <2>q. QED BY <2>1, <2>2, ChatTalks
<1>q. QED
  BY <1>2, <1>3, <1>4, <1>5, BeginSteps, CreateSteps, LogSteps, DraftSteps, RenameSteps, SaySteps, PrepareSteps, FailSteps, HostSteps
  DEF Chat!ChatNext

---------------------------------------------------------------------------
(* Edits: editFileSafe *)

\* A part of a sequence is one, of as many elements.
LEMMA PartOf ==
  ASSUME NEW S, NEW s \in Seq(S), NEW m \in 1..(Len(s) + 1), NEW n \in (m - 1)..Len(s)
  PROVE  /\ SubSeq(s, m, n) \in Seq(S)
         /\ Len(SubSeq(s, m, n)) = n - m + 1
         /\ \A i \in 1..(n - m + 1) : SubSeq(s, m, n)[i] = s[m + i - 1]
<1>1. Len(s) \in Nat /\ m \in Int /\ n \in Int BY LenProperties
<1>2. \A i \in m..n : s[i] \in S BY <1>1, ElementOfSeq
<1>3. IF m <= n THEN n - m + 1 >= 1 ELSE n - m + 1 = 0 BY <1>1
<1>q. QED BY <1>1, <1>2, <1>3, SubSeqProperties

\* What stands before, in and after the middle of three sequences.
LEMMA ThreeParts ==
  ASSUME NEW S, NEW r \in Seq(S), NEW s \in Seq(S), NEW t \in Seq(S)
  PROVE  /\ r \o s \o t \in Seq(S)
         /\ Len(r \o s \o t) = Len(r) + Len(s) + Len(t)
         /\ \A i \in 1..Len(r) : (r \o s \o t)[i] = r[i]
         /\ \A i \in 1..Len(s) : (r \o s \o t)[Len(r) + i] = s[i]
         /\ \A i \in 1..Len(t) : (r \o s \o t)[Len(r) + Len(s) + i] = t[i]
<1> DEFINE u == r \o s
<1>1. Len(r) \in Nat /\ Len(s) \in Nat /\ Len(t) \in Nat BY LenProperties
<1>2. /\ u \in Seq(S) /\ Len(u) = Len(r) + Len(s)
      /\ \A i \in 1..(Len(r) + Len(s)) : u[i] = IF i <= Len(r) THEN r[i] ELSE s[i - Len(r)]
  BY ConcatProperties
<1>3. /\ u \o t \in Seq(S) /\ Len(u \o t) = Len(u) + Len(t)
      /\ \A i \in 1..(Len(u) + Len(t)) : (u \o t)[i] = IF i <= Len(u) THEN u[i] ELSE t[i - Len(u)]
  BY <1>2, ConcatProperties
<1>4. ASSUME NEW i \in 1..Len(r) PROVE (u \o t)[i] = r[i]
  <2> HIDE DEF u
  <2>q. QED BY <1>1, <1>2, <1>3
<1>5. ASSUME NEW i \in 1..Len(s) PROVE (u \o t)[Len(r) + i] = s[i]
  <2> HIDE DEF u
  <2>q. QED BY <1>1, <1>2, <1>3
<1>6. ASSUME NEW i \in 1..Len(t) PROVE (u \o t)[Len(r) + Len(s) + i] = t[i]
  <2> HIDE DEF u
  <2>1. Len(r) + Len(s) + i \in 1..(Len(u) + Len(t)) /\ ~(Len(r) + Len(s) + i <= Len(u)) BY <1>1, <1>2
  <2>2. Len(r) + Len(s) + i - Len(u) = i BY <1>1, <1>2
  <2>q. QED BY <2>1, <2>2, <1>3
<1>q. QED BY <1>1, <1>2, <1>3, <1>4, <1>5, <1>6

LEMMA JoinedTexts ==
  ASSUME NEW r \in Text!Texts, NEW t \in Text!Texts
  PROVE  r \o t \in Text!Texts
BY ConcatProperties DEF Text!Texts

\* What replaces oldContent is a text, and the content itself where no "$" is in it: by
\* induction down the content, whose part from each place on is expanded before it.
LEMMA ExpandedIs ==
  ASSUME NEW content \in Text!Texts, NEW old \in Text!Texts, NEW head \in Text!Texts, NEW tail \in Text!Texts
  PROVE  /\ Text!Expanded(content, old, head, tail) \in Text!Texts
         /\ (\A i \in DOMAIN content : content[i] # "$") =>
              Text!Expanded(content, old, head, tail) = content
<1> DEFINE n == Len(content)
           StandsFor(char) == CASE char = "$" -> <<"$">>
                                [] char = "&" -> old
                                [] char = "backquote" -> head
                                [] char = "quote" -> tail
           Pattern(i) == content[i] = "$" /\ i < n /\ content[i + 1] \in Text!Patterns
           At(f, i) == IF i > n THEN <<>>
                       ELSE IF Pattern(i) THEN StandsFor(content[i + 1]) \o f[i + 2]
                       ELSE <<content[i]>> \o f[i + 1]
           Expands(f, k) == f = [i \in k..(n + 2) |-> At(f, i)]
           from == CHOOSE f : Expands(f, 1)
<1>1. n \in Nat /\ DOMAIN content = 1..n /\ \A i \in 1..n : content[i] \in EditChars
  BY LenProperties, ElementOfSeq DEF Text!Texts
<1>2. Text!Expanded(content, old, head, tail) = from[1]
  BY DEF Text!Expanded
<1>3. \A k \in 1..(n + 3) : \E f : Expands(f, k)
  <2> DEFINE bad == {k \in 1..(n + 3) : ~ \E f : Expands(f, k)}
  <2>1. SUFFICES ASSUME bad # {} PROVE FALSE
    <3> HIDE DEF Expands
    <3>q. QED OBVIOUS
  <2>2. PICK k \in bad : \A m \in bad : m <= k
    <3>1. bad \subseteq 0..(n + 3) /\ n + 3 \in Nat
      <4> HIDE DEF Expands
      <4>q. QED BY <1>1
    <3> HIDE DEF bad
    <3>q. QED BY <2>1, <3>1, Greatest
  <2>3. Expands([i \in (n + 3)..(n + 2) |-> 0], n + 3)
    <3>1. (n + 3)..(n + 2) = {} BY <1>1
    <3>q. QED BY <3>1
  <2>4. k \in 1..(n + 2)
    <3> HIDE DEF Expands
    <3>q. QED BY <1>1, <2>2, <2>3
  <2>5. k + 1 \in 1..(n + 3) /\ k + 1 \notin bad
    <3>1. k + 1 \in 1..(n + 3) /\ ~(k + 1 <= k) BY <1>1, <2>4
    <3> HIDE DEF bad
    <3>q. QED BY <2>2, <3>1
  <2>6. PICK f : Expands(f, k + 1)
    <3> HIDE DEF Expands
    <3>q. QED BY <2>5
  <2> DEFINE g == [i \in k..(n + 2) |-> At(f, i)]
  <2>7. ASSUME NEW i \in (k + 1)..(n + 2) PROVE g[i] = f[i]
    <3>1. i \in k..(n + 2) BY <1>1, <2>4, <2>7
    <3> HIDE DEF At
    <3>2. g[i] = At(f, i) BY <3>1
    <3> HIDE DEF g
    <3>3. f[i] = At(f, i) BY <2>6, <2>7
    <3>q. QED BY <3>2, <3>3
  <2>8. ASSUME NEW i \in k..(n + 2) PROVE At(f, i) = At(g, i)
    <3>1. CASE i > n BY <3>1
    <3>2. CASE ~(i > n)
      <4>1. i + 1 \in (k + 1)..(n + 2) /\ i + 2 \in (k + 1)..(n + 2) BY <1>1, <2>4, <3>2
      <4>2. g[i + 1] = f[i + 1] /\ g[i + 2] = f[i + 2] BY <4>1, <2>7
      <4> HIDE DEF g, Pattern, StandsFor
      <4>q. QED BY <4>2
    <3>q. QED BY <3>1, <3>2
  <2>9. Expands(g, k)
    <3> HIDE DEF At
    <3>1. g = [i \in k..(n + 2) |-> At(g, i)] BY <2>8
    <3> HIDE DEF g
    <3>q. QED BY <3>1
  <2>q. QED
    <3> HIDE DEF Expands, g
    <3>q. QED BY <2>2, <2>9
<1>4. Expands(from, 1)
  <2> HIDE DEF Expands
  <2>1. \E f : Expands(f, 1) BY <1>1, <1>3
  <2>q. QED BY <2>1, Zenon
<1>5. \A i \in 1..(n + 2) : from[i] = At(from, i)
  <2> HIDE DEF from, At
  <2>q. QED BY <1>4
<1> HIDE DEF from
<1>6. from[1] \in Text!Texts
  <2> DEFINE bad == {k \in 1..(n + 2) : from[k] \notin Text!Texts}
  <2>1. SUFFICES ASSUME bad # {} PROVE FALSE BY <1>1
  <2>2. PICK k \in bad : \A m \in bad : m <= k
    <3>1. bad \subseteq 0..(n + 2) /\ n + 2 \in Nat BY <1>1
    <3> HIDE DEF bad
    <3>q. QED BY <2>1, <3>1, Greatest
  <2>3. CASE k > n
    <3>1. from[k] = <<>> BY <1>5, <2>2, <2>3
    <3>q. QED BY <2>2, <3>1, EmptySeq DEF Text!Texts
  <2>4. CASE ~(k > n)
    <3>1. k \in 1..n /\ k + 1 \in 1..(n + 2) /\ k + 2 \in 1..(n + 2) /\ ~(k + 1 <= k) /\ ~(k + 2 <= k)
      BY <1>1, <2>2, <2>4
    <3>2. from[k + 1] \in Text!Texts /\ from[k + 2] \in Text!Texts
      <4>1. k + 1 \notin bad /\ k + 2 \notin bad
        <5> HIDE DEF bad
        <5>q. QED BY <2>2, <3>1
      <4>q. QED BY <3>1, <4>1
    <3>3. CASE Pattern(k)
      <4>1. content[k + 1] \in Text!Patterns /\ content[k] = "$" BY <3>3
      <4>2. StandsFor(content[k + 1]) \in Text!Texts
        <5>1. "$" \in EditChars BY <1>1, <3>1, <4>1
        <5>2. <<"$">> \in Text!Texts BY <5>1 DEF Text!Texts
        <5>q. QED BY <4>1, <5>2 DEF Text!Patterns
      <4> HIDE DEF StandsFor
      <4>3. from[k] = StandsFor(content[k + 1]) \o from[k + 2] BY <1>5, <3>1, <3>3, <2>4
      <4>q. QED BY <2>2, <3>2, <4>2, <4>3, JoinedTexts
    <3>4. CASE ~Pattern(k)
      <4>1. <<content[k]>> \in Text!Texts BY <1>1, <3>1 DEF Text!Texts
      <4>2. from[k] = <<content[k]>> \o from[k + 1]
        <5> HIDE DEF Pattern
        <5>q. QED BY <1>5, <3>1, <3>4, <2>4
      <4>q. QED BY <2>2, <3>2, <4>1, <4>2, JoinedTexts
    <3>q. QED BY <3>3, <3>4
  <2>q. QED BY <2>3, <2>4
<1>7. ASSUME \A i \in 1..n : content[i] # "$" PROVE from[1] = content
  <2> DEFINE Rest(k) == SubSeq(content, k, n)
             bad == {k \in 1..(n + 1) : from[k] # Rest(k)}
  <2>1. Rest(1) = content
    <3>1. content \in Seq(EditChars) BY DEF Text!Texts
    <3>q. QED BY <3>1, SubSeqFull
  <2>2. SUFFICES ASSUME bad # {} PROVE FALSE
    <3> HIDE DEF Rest
    <3>q. QED BY <1>1, <2>1
  <2>3. PICK k \in bad : \A m \in bad : m <= k
    <3>1. bad \subseteq 0..(n + 1) /\ n + 1 \in Nat
      <4> HIDE DEF Rest
      <4>q. QED BY <1>1
    <3> HIDE DEF bad
    <3>q. QED BY <2>2, <3>1, Greatest
  <2>4. CASE k > n
    <3>1. from[k] = <<>>
      <4>1. k \in 1..(n + 2) BY <1>1, <2>3
      <4>q. QED BY <4>1, <1>5, <2>4
    <3>2. Rest(k) = <<>> BY <1>1, <2>3, <2>4, SubSeqEmpty
    <3>q. QED BY <2>3, <3>1, <3>2
  <2>5. CASE ~(k > n)
    <3>1. k \in 1..n /\ k \in 1..(n + 2) /\ k + 1 \in 1..(n + 1) /\ ~(k + 1 <= k) BY <1>1, <2>3, <2>5
    <3>2. from[k + 1] = Rest(k + 1)
      <4>1. k + 1 \notin bad
        <5> HIDE DEF bad
        <5>q. QED BY <2>3, <3>1
      <4> HIDE DEF Rest
      <4>q. QED BY <3>1, <4>1
    <3>3. from[k] = <<content[k]>> \o from[k + 1] BY <1>5, <1>7, <3>1, <2>5
    <3>4. <<content[k]>> \o Rest(k + 1) = Rest(k)
      <4>1. content \in Seq(EditChars) /\ k \in 1..Len(content) /\ n \in k..Len(content)
        BY <1>1, <3>1 DEF Text!Texts
      <4>q. QED BY <4>1, SubSeqRecursiveFirst
    <3>q. QED
      <4> HIDE DEF Rest
      <4>q. QED BY <2>3, <3>2, <3>3, <3>4
  <2>q. QED BY <2>4, <2>5
<1>q. QED BY <1>1, <1>2, <1>6, <1>7

\* A part of a sequence with the elements of another one is that one.
LEMMA PartIs ==
  ASSUME NEW S, NEW u \in Seq(S), NEW p \in Seq(S), NEW m \in 1..(Len(u) + 1),
         m - 1 + Len(p) <= Len(u), \A i \in 1..Len(p) : u[m - 1 + i] = p[i]
  PROVE  SubSeq(u, m, m - 1 + Len(p)) = p
<1> DEFINE n == m - 1 + Len(p)
           cut == SubSeq(u, m, n)
<1>1. Len(p) \in Nat /\ Len(u) \in Nat BY LenProperties
<1>2. n \in (m - 1)..Len(u) /\ n - m + 1 = Len(p) BY <1>1
<1> HIDE DEF n
<1>3. /\ cut \in Seq(S) /\ Len(cut) = n - m + 1
      /\ \A i \in 1..(n - m + 1) : cut[i] = u[m + i - 1]
  BY <1>2, PartOf
<1> HIDE DEF cut
<1>4. ASSUME NEW i \in 1..Len(cut) PROVE cut[i] = p[i]
  <2>1. i \in 1..Len(p) /\ i \in 1..(n - m + 1) /\ m + i - 1 = m - 1 + i BY <1>1, <1>2, <1>3
  <2>q. QED BY <2>1, <1>3
<1>5. cut = p BY <1>2, <1>3, <1>4, SeqEqual
<1>q. QED BY <1>5 DEF cut, n

\* Cutting out what an edit put in, and putting back what it replaced, restores the text.
LEMMA ReplacesAreUndoable ==
  ASSUME NEW before \in EditTexts, NEW args \in EditArguments
  PROVE  Text!ReplaceIsUndoable(before, args)
<1> SUFFICES ASSUME Text!EditFile(before, args).ok, args.old # Absent, ~Text!RangeGiven(args)
             PROVE  Text!ReplaceIsUndoable(before, args)
  BY DEF Text!ReplaceIsUndoable
<1> DEFINE old == args.old
           found == Text!Occurrences(before, old)
           at == Text!FirstOf(found)
           head == SubSeq(before, 1, at - 1)
           tail == SubSeq(before, at + Len(old), Len(before))
           new == Text!Expanded(args.content, old, head, tail)
           text == head \o new \o tail
           grown == Len(text) - Len(before) + Len(old)
<1>1. before \in Text!Texts /\ args \in Text!EditArgs BY EditsAreArguments
<1>2. args.content # Absent
  <2>1. Text!Error("invalid_argument").ok = FALSE BY DEF Text!Error
  <2>q. QED BY <2>1 DEF Text!EditFile
<1>3. old \in Text!Texts /\ args.content \in Text!Texts BY <1>1, <1>2 DEF Text!EditArgs, Text!Optional
<1>4. Len(before) \in Nat /\ Len(old) \in Nat BY <1>1, <1>3, LenProperties DEF Text!Texts
<1>5. Text!EditFile(before, args) = Text!ReplaceOld(before, old, args.content) BY <1>2 DEF Text!EditFile
<1>6. found # {}
  <2>1. Text!Error("old_content_mismatch").ok = FALSE BY DEF Text!Error
  <2>q. QED BY <1>5, <2>1 DEF Text!ReplaceOld
<1>7. Text!EditFile(before, args).text = text
  <2>1. Text!EditFile(before, args) = Text!Written(text) BY <1>5, <1>6 DEF Text!ReplaceOld
  <2> HIDE DEF text
  <2>2. Text!Written(text).text = text BY DEF Text!Written
  <2>q. QED BY <2>1, <2>2
<1>8. at \in found /\ \A j \in found : at <= j
  <2>1. found \subseteq Nat
    <3>1. \A k \in Int : 1..k \subseteq Nat OBVIOUS
    <3>2. Len(before) - Len(old) + 1 \in Int BY <1>4
    <3> HIDE DEF old
    <3>3. found \subseteq 1..(Len(before) - Len(old) + 1) BY DEF Text!Occurrences
    <3>q. QED BY <3>1, <3>2, <3>3
  <2> HIDE DEF found
  <2>2. \E i \in found : \A j \in found : i <= j BY <1>6, <2>1, Least
  <2>q. QED BY <2>2 DEF Text!FirstOf
<1>9. at \in 1..(Len(before) - Len(old) + 1) /\ SubSeq(before, at, at + Len(old) - 1) = old
  BY <1>8 DEF Text!Occurrences, Text!OccursAt
<1> HIDE DEF found, at
<1>10. head \in Text!Texts /\ Len(head) = at - 1
  <2>1. 1 \in 1..(Len(before) + 1) /\ at - 1 \in (1 - 1)..Len(before) BY <1>4, <1>9
  <2>2. head \in Seq(EditChars) /\ Len(head) = at - 1 - 1 + 1 BY <1>1, <2>1, PartOf DEF Text!Texts
  <2>q. QED BY <2>2, <1>9 DEF Text!Texts
<1>11. tail \in Text!Texts /\ Len(tail) = Len(before) - (at + Len(old)) + 1
  <2>1. at + Len(old) \in 1..(Len(before) + 1) /\ Len(before) \in (at + Len(old) - 1)..Len(before) BY <1>4, <1>9
  <2>q. QED BY <1>1, <2>1, PartOf DEF Text!Texts
<1>12. before = head \o old \o tail
  <2> DEFINE k == at + Len(old) - 1
  <2>1. /\ before \in Seq(EditChars) /\ 1 \in 1..(Len(before) + 1)
        /\ at - 1 \in (1 - 1)..Len(before) /\ k \in (at - 1)..Len(before) /\ k \in (1 - 1)..Len(before)
        /\ Len(before) \in k..Len(before) /\ at - 1 + 1 = at /\ k + 1 = at + Len(old)
    BY <1>1, <1>4, <1>9 DEF Text!Texts
  <2> HIDE DEF k
  <2>2. SubSeq(before, 1, at - 1) \o SubSeq(before, at - 1 + 1, k) = SubSeq(before, 1, k) BY <2>1, ConcatAdjacentSubSeq
  <2>3. SubSeq(before, 1, k) \o SubSeq(before, k + 1, Len(before)) = SubSeq(before, 1, Len(before))
    BY <2>1, ConcatAdjacentSubSeq
  <2>4. SubSeq(before, 1, Len(before)) = before BY <2>1, SubSeqFull
  <2>5. SubSeq(before, at, k) = old BY <1>9 DEF k
  <2>q. QED BY <2>1, <2>2, <2>3, <2>4, <2>5
<1> HIDE DEF head, tail
<1>13. /\ new \in Text!Texts
       /\ (\A i \in DOMAIN args.content : args.content[i] # "$") => new = args.content
  BY <1>3, <1>10, <1>11, ExpandedIs
<1> HIDE DEF new
<1>14. Len(head) \in Nat /\ Len(new) \in Nat /\ Len(tail) \in Nat
  BY <1>10, <1>11, <1>13, LenProperties DEF Text!Texts
<1>15. /\ text \in Seq(EditChars) /\ Len(text) = Len(head) + Len(new) + Len(tail)
       /\ \A i \in 1..Len(head) : text[i] = head[i]
       /\ \A i \in 1..Len(new) : text[Len(head) + i] = new[i]
       /\ \A i \in 1..Len(tail) : text[Len(head) + Len(new) + i] = tail[i]
  <2>1. head \in Seq(EditChars) /\ new \in Seq(EditChars) /\ tail \in Seq(EditChars)
    BY <1>10, <1>11, <1>13 DEF Text!Texts
  <2>q. QED BY <2>1, ThreeParts
<1> HIDE DEF text, old
<1>16. grown = Len(new) /\ at = Len(head) + 1 BY <1>4, <1>9, <1>10, <1>11, <1>14, <1>15
<1> HIDE DEF grown
<1>17. SubSeq(text, 1, at - 1) = head
  <2>1. head \in Seq(EditChars) /\ 1 \in 1..(Len(text) + 1) /\ 1 - 1 + Len(head) <= Len(text)
    BY <1>10, <1>14, <1>15 DEF Text!Texts
  <2>2. \A i \in 1..Len(head) : text[1 - 1 + i] = head[i]
    <3>1. \A i \in 1..Len(head) : 1 - 1 + i = i OBVIOUS
    <3>q. QED BY <3>1, <1>15
  <2>3. SubSeq(text, 1, 1 - 1 + Len(head)) = head BY <2>1, <2>2, <1>15, PartIs
  <2>4. 1 - 1 + Len(head) = at - 1 BY <1>14, <1>16
  <2>q. QED BY <2>3, <2>4
<1>18. SubSeq(text, at, at + grown - 1) = new
  <2>1. new \in Seq(EditChars) /\ at \in 1..(Len(text) + 1) /\ at - 1 + Len(new) <= Len(text)
    BY <1>13, <1>14, <1>15, <1>16 DEF Text!Texts
  <2>2. \A i \in 1..Len(new) : text[at - 1 + i] = new[i]
    <3>1. at - 1 = Len(head) BY <1>14, <1>16
    <3>q. QED BY <3>1, <1>15
  <2>3. SubSeq(text, at, at - 1 + Len(new)) = new BY <2>1, <2>2, <1>15, PartIs
  <2>4. at - 1 + Len(new) = at + grown - 1 BY <1>14, <1>16
  <2>q. QED BY <2>3, <2>4
<1>19. SubSeq(text, at + grown, Len(text)) = tail
  <2>1. /\ tail \in Seq(EditChars) /\ at + grown \in 1..(Len(text) + 1)
        /\ at + grown - 1 + Len(tail) <= Len(text)
    BY <1>11, <1>14, <1>15, <1>16 DEF Text!Texts
  <2>2. \A i \in 1..Len(tail) : text[at + grown - 1 + i] = tail[i]
    <3>1. at + grown - 1 = Len(head) + Len(new) BY <1>14, <1>16
    <3>q. QED BY <3>1, <1>15
  <2>3. SubSeq(text, at + grown, at + grown - 1 + Len(tail)) = tail
    <3>1. at \in Nat /\ grown \in Nat /\ Len(tail) \in Nat BY <1>14, <1>16
    <3>2. PICK first \in 1..(Len(text) + 1) : first = at + grown BY <2>1
    <3>3. first - 1 + Len(tail) <= Len(text) BY <2>1, <3>1, <3>2
    <3>4. \A i \in 1..Len(tail) : text[first - 1 + i] = tail[i] BY <2>2, <3>1, <3>2
    <3>5. SubSeq(text, first, first - 1 + Len(tail)) = tail
      <4>1. text \in Seq(EditChars) /\ tail \in Seq(EditChars) BY <2>1, <1>15
      <4>q. QED BY <4>1, <3>3, <3>4, PartIs
    <3>q. QED BY <3>1, <3>2, <3>5
  <2>4. at + grown - 1 + Len(tail) = Len(text) BY <1>14, <1>15, <1>16
  <2>q. QED BY <2>3, <2>4
<1>20. /\ at \in found /\ \A j \in found : at <= j
       /\ before = SubSeq(text, 1, at - 1) \o old \o SubSeq(text, at + grown, Len(text))
       /\ (\A i \in DOMAIN args.content : args.content[i] # "$") =>
            SubSeq(text, at, at + grown - 1) = args.content
  BY <1>8, <1>12, <1>13, <1>17, <1>18, <1>19
<1>q. QED BY <1>7, <1>20 DEF Text!ReplaceIsUndoable, found, old, grown

\* What was read is a text, and what was asked are arguments of edit_file.
EditInv == disk = Absent \/ (disk \in EditTexts /\ calls \in EditArguments)

LEMMA EditAnswers ==
  EditInv /\ disk # Absent => Text!ReplaceIsUndoable(disk, calls)
BY ReplacesAreUndoable DEF EditInv

---------------------------------------------------------------------------
(* The services together *)

\* The invariant of the service a behaviour is of.
ServicesInv ==
  /\ subject = "twin" => TwinInv
  /\ subject = "graph" => GraphInv
  /\ subject = "session" => SessionInv
  /\ subject = "workspace" => SpaceInv
  /\ subject = "identity" => IdentityInv
  /\ subject = "knowledge" => KnowledgeInv
  /\ subject = "proposals" => ProposalInv
  /\ subject = "chat" => ChatInv
  /\ subject = "edit" => EditInv

\* Every service starts in its invariant ...
LEMMA InitInv == ServicesInit => ServicesInv
<1> SUFFICES ASSUME ServicesInit PROVE ServicesInv OBVIOUS
<1>1. (subject = "twin" => TwinInv) /\ (subject = "graph" => GraphInv) BY TwinStarts, GraphStarts DEF ServicesInit
<1>2. (subject = "session" => SessionInv) /\ (subject = "workspace" => SpaceInv) BY SessionStarts, SpaceStarts DEF ServicesInit
<1>3. (subject = "identity" => IdentityInv) /\ (subject = "knowledge" => KnowledgeInv)
  BY IdentityStarts, KnowledgeStarts DEF ServicesInit
<1>4. (subject = "proposals" => ProposalInv) /\ (subject = "chat" => ChatInv) BY ProposalStarts, ChatStarts DEF ServicesInit
<1>5. subject = "edit" => EditInv
  <2>1. subject = "edit" => Unused(disk) BY DEF ServicesInit
  <2>q. QED BY <2>1 DEF EditInv, Unused
<1>q. QED BY <1>1, <1>2, <1>3, <1>4, <1>5 DEF ServicesInv

\* ... and no step of its own leaves it.
LEMMA StepInv == ServicesInv /\ [ServicesNext]_vars => ServicesInv'
<1> SUFFICES ASSUME ServicesInv, [ServicesNext]_vars PROVE ServicesInv' OBVIOUS
<1>1. subject' = subject BY DEF ServicesNext, vars
<1>2. CASE ServicesNext
  <2>1. (subject = "twin" => TwinInv') /\ (subject = "graph" => GraphInv')
    BY <1>2, TwinSteps, GraphSteps DEF ServicesNext, ServicesInv
  <2>2. (subject = "session" => SessionInv') /\ (subject = "workspace" => SpaceInv')
    BY <1>2, SessionSteps, SpaceSteps DEF ServicesNext, ServicesInv
  <2>3. (subject = "identity" => IdentityInv') /\ (subject = "knowledge" => KnowledgeInv')
    BY <1>2, IdentitySteps, KnowledgeSteps DEF ServicesNext, ServicesInv
  <2>4. (subject = "proposals" => ProposalInv') /\ (subject = "chat" => ChatInv')
    BY <1>2, ProposalSteps, ChatSteps DEF ServicesNext, ServicesInv
  <2>5. subject = "edit" => EditInv' BY <1>2 DEF ServicesNext, AskedToEdit, EditInv
  <2>q. QED BY <1>1, <2>1, <2>2, <2>3, <2>4, <2>5 DEF ServicesInv
<1>3. CASE UNCHANGED vars
  <2>1. UNCHANGED <<disk, calls, world, past, spent>> BY <1>3 DEF vars
  <2>2. TwinInv => TwinInv' BY <2>1 DEF TwinInv, IsCalls
  <2>3. GraphInv => GraphInv' BY <2>1 DEF GraphInv, IsCalls
  <2>4. SessionInv => SessionInv' BY <2>1 DEF SessionInv, IsCalls, Session!Stored
  <2>5. SpaceInv => SpaceInv' BY <2>1 DEF SpaceInv, IsCalls
  <2>6. IdentityInv => IdentityInv' BY <2>1 DEF IdentityInv, IsCalls
  <2>7. KnowledgeInv => KnowledgeInv' BY <2>1 DEF KnowledgeInv, IsCalls
  <2>8. ProposalInv => ProposalInv' BY <2>1 DEF ProposalInv, IsCalls
  <2>9. ChatInv => ChatInv' BY <2>1 DEF ChatInv, IsCalls
  <2>10. EditInv => EditInv' BY <2>1 DEF EditInv
  <2>q. QED BY <1>1, <2>2, <2>3, <2>4, <2>5, <2>6, <2>7, <2>8, <2>9, <2>10 DEF ServicesInv
<1>q. QED BY <1>2, <1>3

\* Whatever overlaps, fails or dies, each service keeps its invariant.
THEOREM ServicesInvariant == ServicesSpec => []ServicesInv
<1>q. QED BY InitInv, StepInv, PTL DEF ServicesSpec

\* updateTwin, graphUpdate and the brain MCP server answer what they were asked for, however
\* calls overlap and the files change under them.
THEOREM CachesAreSoundAlways == ServicesSpec => []CachesAreSound
<1>1. ServicesInv => CachesAreSound
  BY TwinAnswers, GraphAnswers DEF ServicesInv, CachesAreSound, SessionInv, Session!BrainIsStored
<1>q. QED BY <1>1, ServicesInvariant, PTL

\* The model is sent the conversation and then the question, memory keeps its limits, and a
\* serial chat's session files agree whenever nobody asks.
THEOREM ConversationHoldsAlways == ServicesSpec => []ConversationHolds
<1>1. ServicesInv => ConversationHolds BY ChatAnswers DEF ServicesInv, ConversationHolds
<1>q. QED BY <1>1, ServicesInvariant, PTL

\* Knowledge that is approved, sessions, what they authorize, memberships and reviews come
\* from calls that earned them, whichever overlap.
THEOREM RecordsAreEarnedAlways == ServicesSpec => []RecordsAreEarned
<1>1. SpaceInv => Spaces!AddedAreMembers BY DEF SpaceInv, Spaces!AddedAreMembers
<1>2. ServicesInv => RecordsAreEarned
  BY <1>1, IdentityAnswers, KnowledgeAnswers, ProposalAnswers DEF ServicesInv, RecordsAreEarned
<1>q. QED BY <1>2, ServicesInvariant, PTL

\* Whatever text is read and whatever is put in place of whatever part of it, an oldContent
\* edit changes the first place where it occurs and no other, and a content without "$" is
\* what stands there then.
THEOREM ReplacesAreLocalAlways == ServicesSpec => []ReplacesAreLocal
<1>1. ServicesInv => ReplacesAreLocal BY EditAnswers DEF ServicesInv, ReplacesAreLocal, EditAsked
<1>q. QED BY <1>1, ServicesInvariant, PTL
=============================================================================
