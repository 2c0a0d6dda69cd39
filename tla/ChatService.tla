---------------------------- MODULE ChatService ----------------------------
(***************************************************************************)
(* Project chat and its audit session: ChatService of                      *)
(* src/agent/chat/service.ts, ChatMemory of src/agent/chat/memory.ts and   *)
(* the session files of src/platform/sessions/store.ts.                    *)
(*                                                                         *)
(* The CLI asks one question after the other; another host may overlap     *)
(* them on one service.  Every audit is a push on the session object, a    *)
(* line of its .jsonl and a new .json, any of which may fail; the events  *)
(* of each are a set, since no event comes twice.                          *)
(***************************************************************************)
EXTENDS Naturals, Sequences, FiniteSets, SequencesExt

CONSTANTS
  Askers,
  Absent,
  MaxAsks,      \* questions to a serial host, and to one that overlaps them
  MaxFailures,  \* and the failures either has
  Sizes,        \* and the sizes its questions have
  MaxTurns, MaxChars   \* the memory's limits

VARIABLES
  disk,         \* the session's .json and .jsonl
  service,      \* the object: host, provider, started, ended, session, messages, topic
  asks,         \* what each asker's call is at, or Absent
  spent         \* questions asked and failures had

chatVars == <<disk, service, asks, spent>>

\* The session object and its .json, messages, and an ask under way.
EventNames ==
  {"session-start", "session-end", "started", "user-message", "context-retrieved", "deterministic",
   "model-requested", "model-response", "failed", "completed"}
Events == [kind : EventNames, ask : Nat]
Sessions == [events : SUBSET Events]
MessageSizes == Sizes["serial"] \cup Sizes["overlapping"] \cup {1}
Messages == [who : {"user", "assistant"}, ask : Nat, size : MessageSizes]
AskSteps == {"create", "say", "retrieve", "prepare", "model", "complete", "answer", "log", "draft", "rename"}
AskRecords ==
  [at : AskSteps, question : Messages, event : {Absent} \cup EventNames, next : {Absent} \cup AskSteps,
   draft : {Absent} \cup Sessions, sent : {Absent} \cup Seq(Messages), before : {Absent} \cup Seq(Messages),
   alone : BOOLEAN, audited : BOOLEAN]

ChatInit ==
  /\ disk = [json |-> Absent, jsonl |-> {}]
  /\ \E host \in {"serial", "overlapping"}, provider \in {"none", "model"} :
       service = [host |-> host, provider |-> provider, started |-> FALSE, ended |-> FALSE,
                  session |-> Absent, messages |-> <<>>, topic |-> Absent]
  /\ asks = [a \in Askers |-> Absent]
  /\ spent = [asks |-> 0, failures |-> 0]

At(a, step) == asks[a] # Absent /\ asks[a].at = step
Idle == \A a \in Askers : asks[a] = Absent

\* asks[a] moves on; the others' asks are no longer alone on the service (history).
Shared(others) ==
  [b \in Askers |-> IF others[b] = Absent THEN Absent ELSE [others[b] EXCEPT !.alone = FALSE]]

\* ask calls start; audited (history): the session was there when it did.
Begin(a) ==
  /\ asks[a] = Absent /\ ~service.ended /\ spent.asks < MaxAsks[service.host]
  /\ service.host = "serial" => Idle
  /\ spent' = [spent EXCEPT !.asks = @ + 1]
  /\ \E size \in Sizes[service.host] :
       asks' = [Shared(asks) EXCEPT ![a] =
         [at |-> IF service.started THEN "say" ELSE "create",
          question |-> [who |-> "user", ask |-> spent'.asks, size |-> size],
          event |-> Absent, next |-> Absent, draft |-> Absent, sent |-> Absent, before |-> Absent,
          alone |-> Idle, audited |-> service.session # Absent]]
  /\ service' = [service EXCEPT !.started = TRUE]
  /\ UNCHANGED disk

Go(a, from, to) == At(a, from) /\ asks' = [asks EXCEPT ![a].at = to]

\* What an ask does once the event is logged, if there is a session to log it in.
ToLog(a, kind, next) ==
  [asks EXCEPT ![a].at = IF service.session = Absent THEN next ELSE "log",
               ![a].event = kind, ![a].next = next]

Start == [kind |-> "session-start", ask |-> 0]

\* createSession persists the session before anyone holds it.
Create(a) ==
  /\ At(a, "create")
  /\ LET session == [events |-> {Start}] IN
     /\ disk' = [disk EXCEPT !.json = session]
     /\ service' = [service EXCEPT !.session = session]
  /\ asks' = [asks EXCEPT ![a].at = "log", ![a].event = "started", ![a].next = "say"]
  /\ UNCHANGED spent

EventOf(a) == [kind |-> asks[a].event, ask |-> asks[a].question.ask]

\* appendSessionEvent: push, append to the .jsonl, ...
Log(a) ==
  /\ At(a, "log")
  /\ service' = [service EXCEPT !.session.events = @ \cup {EventOf(a)}]
  /\ disk' = [disk EXCEPT !.jsonl = @ \cup {EventOf(a)}]
  /\ asks' = [asks EXCEPT ![a].at = "draft"]
  /\ UNCHANGED spent

\* A slip that a run must notice: the text was made before the push.
Draft_BeforePush(a) ==
  /\ At(a, "draft")
  /\ asks' = [asks EXCEPT ![a].at = "rename", ![a].draft = [events |-> service.session.events \ {EventOf(a)}]]
  /\ UNCHANGED <<disk, service, spent>>

\* ... and write the whole session: its text is made after further awaits, and the
\* rename comes later still.
Draft(a) ==
  /\ At(a, "draft")
  /\ asks' = [asks EXCEPT ![a].at = "rename", ![a].draft = service.session]
  /\ UNCHANGED <<disk, service, spent>>

Rename(a) ==
  /\ At(a, "rename")
  /\ disk' = [disk EXCEPT !.json = asks[a].draft]
  /\ asks' = [asks EXCEPT ![a].at = asks[a].next, ![a].draft = Absent]
  /\ UNCHANGED <<service, spent>>

Chars(messages) == FoldSeq(LAMBDA m, n : n + m.size, 0, messages)

\* ChatMemory.trim: the oldest messages go while there are too many, or too many
\* characters in more than two.
Trim(messages) ==
  LET Kept(n) == SubSeq(messages, Len(messages) - n + 1, Len(messages))
      Fits(n) == n <= 2 * MaxTurns /\ (n <= 2 \/ Chars(Kept(n)) <= MaxChars)
      n == CHOOSE k \in 0..Len(messages) :
             Fits(k) /\ \A l \in (k + 1)..Len(messages) : ~Fits(l)
  IN Kept(n)

Remembering(message) == [service EXCEPT !.messages = Trim(Append(@, message))]

\* addUser: a first or long question is the topic; then CHAT_USER_MESSAGE.
Say(a) ==
  /\ At(a, "say")
  /\ LET q == asks[a].question IN
     service' = [Remembering(q) EXCEPT !.topic = IF @ = Absent \/ q.size > 1 THEN q.ask ELSE @]
  /\ asks' = [ToLog(a, "user-message", "retrieve") EXCEPT ![a].before = service.messages]
  /\ UNCHANGED <<disk, spent>>

\* retrieveProjectContext; without a provider the answer needs no model.
Retrieve(a) ==
  /\ At(a, "retrieve") /\ service.provider = "model"
  /\ asks' = ToLog(a, "context-retrieved", "prepare")
  /\ UNCHANGED <<disk, service, spent>>

Reply(a) == [who |-> "assistant", ask |-> asks[a].question.ask, size |-> 1]

Deterministic(a) ==
  /\ At(a, "retrieve") /\ service.provider = "none"
  /\ service' = Remembering(Reply(a))
  /\ asks' = ToLog(a, "deterministic", "answer")
  /\ UNCHANGED <<disk, spent>>

\* historyForModel without its last message, taken to be the question.
History == IF service.messages = <<>> THEN <<>> ELSE Front(service.messages)

Prepare(a) ==
  /\ At(a, "prepare")
  /\ asks' = [ToLog(a, "model-requested", "model") EXCEPT
               ![a].sent = Append(History, asks[a].question)]
  /\ UNCHANGED <<disk, service, spent>>

\* provider.chat answers, or reports an error, which leaves the question unanswered.
ModelAnswers(a) ==
  /\ At(a, "model")
  /\ service' = Remembering(Reply(a))
  /\ asks' = ToLog(a, "model-response", "complete")
  /\ UNCHANGED <<disk, spent>>

ModelFails(a) ==
  /\ At(a, "model")
  /\ asks' = ToLog(a, "failed", "answer")
  /\ UNCHANGED <<disk, service, spent>>

Complete(a) ==
  /\ At(a, "complete")
  /\ asks' = ToLog(a, "completed", "answer")
  /\ UNCHANGED <<disk, service, spent>>

Answer(a) ==
  /\ At(a, "answer")
  /\ asks' = [asks EXCEPT ![a] = Absent]
  /\ UNCHANGED <<disk, service, spent>>

\* A file operation or the retrieval throws, and the ask with it; a pushed event stays.
Fail(a) ==
  /\ asks[a] # Absent /\ asks[a].at \in {"create", "log", "rename", "retrieve"}
  /\ spent.failures < MaxFailures[service.host]
  /\ spent' = [spent EXCEPT !.failures = @ + 1]
  /\ service' = IF At(a, "log") THEN [service EXCEPT !.session.events = @ \cup {EventOf(a)}] ELSE service
  /\ asks' = [asks EXCEPT ![a] = Absent]
  /\ UNCHANGED disk

\* The CLI's /clear.
Clear ==
  /\ service.host = "serial" /\ Idle
  /\ service.messages # <<>>
  /\ service' = [service EXCEPT !.messages = <<>>, !.topic = Absent]
  /\ UNCHANGED <<disk, asks, spent>>

\* The host ends the chat: endSession.
End ==
  /\ Idle /\ service.session # Absent /\ ~service.ended
  /\ LET end == [kind |-> "session-end", ask |-> 0] session == [events |-> service.session.events \cup {end}] IN
     /\ disk' = [json |-> session, jsonl |-> disk.jsonl \cup {end}]
     /\ service' = [service EXCEPT !.session = session, !.ended = TRUE]
  /\ UNCHANGED <<asks, spent>>

ChatNext ==
  \/ \E a \in Askers :
       \/ Begin(a) \/ Create(a) \/ Log(a) \/ Draft(a) \/ Rename(a) \/ Say(a)
       \/ Retrieve(a) \/ Deterministic(a) \/ Prepare(a) \/ ModelAnswers(a) \/ ModelFails(a)
       \/ Complete(a) \/ Answer(a) \/ Fail(a)
  \/ Clear \/ End

ChatSpec == ChatInit /\ [][ChatNext]_chatVars

---------------------------------------------------------------------------
\* What goes to the model, when nobody else used the service meanwhile, is the
\* conversation as it was remembered before the question (its latest part, where the
\* limits cut it) and then the question, once.
ModelSeesConversation ==
  \A a \in Askers : asks[a] # Absent /\ asks[a].sent # Absent /\ asks[a].alone =>
    /\ IsSuffix(asks[a].sent, Append(asks[a].before, asks[a].question))
    /\ asks[a].before # <<>> => Len(asks[a].sent) > 1

\* The memory keeps to both of its limits, whoever added the last message.
MemoryBounded ==
  /\ Len(service.messages) <= 2 * MaxTurns
  /\ Len(service.messages) > 2 => Chars(service.messages) <= MaxChars

\* No question that was asked once the session was there reaches the model before the
\* journal holds it and the request.
AskedIsAudited ==
  \A a \in Askers : At(a, "model") /\ asks[a].audited =>
    \A kind \in {"user-message", "model-requested"} :
      [kind |-> kind, ask |-> asks[a].question.ask] \in disk.jsonl

\* Between the questions of a serial host none of whose writes failed, the session file
\* says what the journal says.
FilesAgreeAtRest ==
  Idle /\ service.host = "serial" /\ spent.failures = 0 /\ disk.json # Absent =>
    disk.json.events \ {Start} = disk.jsonl
=============================================================================
