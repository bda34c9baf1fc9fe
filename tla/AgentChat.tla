------------------------------- MODULE AgentChat -------------------------------
(***************************************************************************)
(* Chat turns of crates/agent: AgentServiceImpl::chat and AgentRuntime::chat *)
(*                                                                         *)
(* A turn saves the user's message, reads the history back, and starts a   *)
(* task that loops between the provider and the tools.  The task sends     *)
(* events into a bounded channel; the response stream takes them out when  *)
(* the client's connection is polled, and each event it maps spawns an     *)
(* insert of its own, which nobody awaits.  The module models one session, *)
(* whose first turn creates it, whose turns may overlap and which may be     *)
(* deleted under them.  Any statement may fail: an error of the request is  *)
(* returned, an error of a spawned insert or of an update of the session is  *)
(* dropped.                                                                  *)
(***************************************************************************)
EXTENDS Naturals, Sequences, FiniteSets, SequencesExt

CONSTANTS
  Turn,           \* requests on the session: chats, and messages saved without one
  Text,           \* what users type
  Window,         \* messages of history read back (50 in the code)
  MaxIterations,  \* provider calls of a turn (10 in the code)
  Capacity,       \* events the channel holds (100 in the code)
  MaxCalls        \* bound, for each turn: its tool calls

ASSUME ChatAssumption ==
  /\ {Window, MaxIterations, Capacity} \subseteq Nat \ {0}
  /\ MaxCalls \in [Turn -> Nat]

VARIABLES
  session,  \* the row of agent.chat_sessions: "none" yet, "open", "deleted"
  last,     \* its last_message, as the row it was taken from
  log,      \* rows of agent.chat_messages, in the order of created_at
  turn      \* the turns: what is local to the request, its task and its stream

vars == <<session, last, log, turn>>

\* An event, and the row that saves it: call is the iteration, and the number of
\* the tool call in its response (its id; 0 where the event is not about one).
NoCall == <<0, 0>>
NoText == "none"
Event(type, call) == [type |-> type, call |-> call]
RowOf(t, e) == [turn |-> t, type |-> e.type, call |-> e.call, text |-> NoText]
InputRow(t, role, text) == [turn |-> t, type |-> role, call |-> NoCall, text |-> text]
NoRow == [turn |-> "none", type |-> "none", call |-> NoCall, text |-> NoText]
open == session = "open"

\* A message of the context given to the provider; calls are those it makes or answers.
Message(t, role, calls, text) == [turn |-> t, role |-> role, calls |-> calls, text |-> text]
\* A client may save a message in any role; one that is unknown is read as the user's.
Role == {"user", "system", "assistant", "tool", "unknown"}
RoleOf(type) ==
  CASE type \in Role \ {"unknown"} -> type
    [] type = "unknown" -> "user"
    [] type = "tool_result" -> "tool"
    [] OTHER -> "assistant"
MessageOf(r) ==
  Message(r.turn, RoleOf(r.type), IF r.call[2] = 0 THEN {} ELSE {r.call}, r.text)

\* lost and unnamed are history: the rows whose insert, or whose update of the session,
\* failed, an error that nobody sees.
Fresh == [pc |-> "new", chat |-> TRUE, role |-> "user", text |-> NoText, messages |-> <<>>, iteration |-> 0,
          calls |-> <<>>, outbox |-> <<>>, channel |-> <<>>, connected |-> TRUE,
          sent |-> <<>>, saving |-> {}, touching |-> {}, lost |-> {}, unnamed |-> {}]

Init ==
  /\ session = "none"
  /\ last = NoRow
  /\ log = <<>>
  /\ turn = [t \in Turn |-> Fresh]

Input(t) == InputRow(t, turn[t].role, turn[t].text)
At(t, pc) == turn[t].pc = pc /\ turn[t].outbox = <<>>
Goto(t, locals) == turn' = [turn EXCEPT ![t] = locals]

-----------------------------------------------------------------------------
(* The request *)

\* chat without a session's id creates the session (create_session); with one it
\* takes it as it is, there or not.  What the client sends is the user's.
EnterChat(t) ==
  /\ At(t, "new")
  /\ session' = IF session = "none" THEN "open" ELSE session
  /\ Goto(t, [turn[t] EXCEPT !.pc = "entered"])
  /\ UNCHANGED <<last, log>>

\* A client saves a message by itself, in a role of its choice.
EnterNote(t) ==
  /\ At(t, "new")
  /\ session # "none"
  /\ \E role \in Role :
       Goto(t, [turn[t] EXCEPT !.pc = "entered", !.chat = FALSE, !.role = role])
  /\ UNCHANGED <<session, last, log>>

\* save_message, its insert: the foreign key refuses a row of a session that is gone.
Ask(t) ==
  /\ At(t, "entered")
  /\ \E text \in Text :
       \/ /\ open
          /\ log' = Append(log, InputRow(t, turn[t].role, text))
          /\ Goto(t, [turn[t] EXCEPT !.pc = "inserted", !.text = text])
       \/ /\ ~open
          /\ Goto(t, [turn[t] EXCEPT !.pc = "refused"])
          /\ UNCHANGED log
  /\ UNCHANGED <<session, last>>

\* create_session, the insert of the input, and the reads of its history and of its
\* user: the error of any of them is what chat or save_message returns.
FailRequest(t) ==
  /\ At(t, "entered") \/ At(t, "asked") \/ (At(t, "new") /\ session = "none")
  /\ Goto(t, [turn[t] EXCEPT !.pc = "refused"])
  /\ UNCHANGED <<session, last, log>>

\* The update of last_message: of no row if the session is gone, and its error is
\* dropped.
Named(row, done) == last' = IF done /\ open THEN row ELSE last
Unnamed(t, row, done) == IF done THEN turn[t].unnamed ELSE turn[t].unnamed \cup {row}

\* save_message, its update: awaited, so that a chat starts behind it.
NameInput(t) ==
  /\ At(t, "inserted")
  /\ \E done \in BOOLEAN :
       /\ Named(Input(t), done)
       /\ Goto(t, [turn[t] EXCEPT !.pc = IF turn[t].chat THEN "asked" ELSE "noted",
                                  !.unnamed = Unnamed(t, Input(t), done)])
  /\ UNCHANGED <<session, log>>

\* get_session_messages: the last rows, oldest first.
History ==
  LET skipped == IF Len(log) > Window THEN Len(log) - Window ELSE 0
  IN  [i \in 1 .. Len(log) - skipped |-> MessageOf(log[skipped + i])]

\* Mutant: the message just saved is left in the history.
WithInput(history, text) == history

\* "Remove the last message if it matches the current input"
WithoutInput(history, text) ==
  IF history # <<>> /\ Last(history).role = "user" /\ Last(history).text = text
  THEN Front(history) ELSE history

\* The system prompt, unless the history already begins with one.
Prompted(t, history) ==
  IF history # <<>> /\ Head(history).role = "system" THEN history
  ELSE <<Message(t, "system", {}, NoText)>> \o history

\* The prompt and the history, the input behind; the task starts.
Start(t) ==
  /\ At(t, "asked")
  /\ Goto(t, [turn[t] EXCEPT
        !.pc = "loop",
        !.messages = Append(Prompted(t, WithoutInput(History, turn[t].text)),
                            Message(t, "user", {}, turn[t].text))])
  /\ UNCHANGED <<session, last, log>>

-----------------------------------------------------------------------------
(* The task: AgentRuntime::chat *)

\* The stream's last event is an error.
GiveUp(t) ==
  Goto(t, [turn[t] EXCEPT !.pc = "end", !.outbox = <<Event("error", <<turn[t].iteration, 0>>)>>])

\* Mutant: one call to the provider too many.
LoopOnceMore(t) ==
  /\ At(t, "loop")
  /\ IF turn[t].iteration > MaxIterations
     THEN GiveUp(t)
     ELSE Goto(t, [turn[t] EXCEPT !.pc = "provider", !.iteration = @ + 1])
  /\ UNCHANGED <<session, last, log>>

Loop(t) ==
  /\ At(t, "loop")
  /\ IF turn[t].iteration = MaxIterations
     THEN GiveUp(t)
     ELSE Goto(t, [turn[t] EXCEPT !.pc = "provider", !.iteration = @ + 1])
  /\ UNCHANGED <<session, last, log>>

\* What the provider's answer makes of the turn: content and the number of tool
\* calls, "none" of which differs from a list of zero only where it is empty.
Respond(t, content, n, next) ==
  LET calls == [k \in 1 .. n |-> <<turn[t].iteration, k>>]
  IN  Goto(t, [turn[t] EXCEPT
        !.pc = next,
        !.messages = Append(@, Message(t, "assistant", ToSet(calls), NoText)),
        !.calls = calls,
        !.outbox = IF ~content THEN <<>>
                   ELSE <<Event(IF n = 0 THEN "answer" ELSE "thought", <<turn[t].iteration, 0>>)>>])

\* The tool calls of the turn so far.
Made(t) ==
  LET ms == turn[t].messages
  IN  Cardinality({i \in 1 .. Len(ms) : ms[i].turn = t /\ ms[i].role = "tool"})

\* What complete makes of a choice: the reasoning stands in for a content that is
\* absent or empty, and an empty content is a content.
HasContent(content, reasoning) == content # "none" \/ reasoning

\* The request fails, is answered by an error status, by no JSON, or by no choice;
\* or by a choice, of which the first counts.
Failed == [ok |-> FALSE, content |-> FALSE, calls |-> 0]
Replies(t) ==
  {Failed} \cup
  {[ok |-> TRUE, content |-> HasContent(c, r), calls |-> n] :
     c \in {"none", "empty", "text"}, r \in BOOLEAN,
     n \in {k \in 0 .. MaxCalls[t] : k + Made(t) <= MaxCalls[t]}}

\* Mutant: an empty list of tool calls no longer ends the loop.
CompleteAgain(t) ==
  /\ At(t, "provider")
  /\ \E reply \in Replies(t) :
       IF reply.ok THEN Respond(t, reply.content, reply.calls, "tools") ELSE GiveUp(t)
  /\ UNCHANGED <<session, last, log>>

\* Neither content nor tool calls: the provider is asked again.
Complete(t) ==
  /\ At(t, "provider")
  /\ \E reply \in Replies(t) :
       \/ /\ reply.ok
          /\ Respond(t, reply.content, reply.calls,
                     IF reply.content /\ reply.calls = 0 THEN "end" ELSE "tools")
       \/ ~reply.ok /\ GiveUp(t)
  /\ UNCHANGED <<session, last, log>>

CallTool(t) ==
  /\ At(t, "tools")
  /\ IF turn[t].calls = <<>>
     THEN Goto(t, [turn[t] EXCEPT !.pc = "loop"])
     ELSE Goto(t, [turn[t] EXCEPT !.pc = "execute",
                                  !.outbox = <<Event("tool_call", Head(turn[t].calls))>>])
  /\ UNCHANGED <<session, last, log>>

\* Mutant: a tool that fails leaves no message.
ExecuteOrSkip(t) ==
  /\ At(t, "execute")
  /\ LET call == Head(turn[t].calls)
     IN  \/ Goto(t, [turn[t] EXCEPT !.pc = "tools", !.calls = Tail(@),
                !.outbox = <<Event("tool_result", call)>>,
                !.messages = Append(@, Message(t, "tool", {call}, NoText))])
         \/ Goto(t, [turn[t] EXCEPT !.pc = "tools", !.calls = Tail(@)])
  /\ UNCHANGED <<session, last, log>>

\* The result, or the tool's error as its content.
Execute(t) ==
  /\ At(t, "execute")
  /\ LET call == Head(turn[t].calls)
     IN  Goto(t, [turn[t] EXCEPT !.pc = "tools", !.calls = Tail(@),
               !.outbox = <<Event("tool_result", call)>>,
               !.messages = Append(@, Message(t, "tool", {call}, NoText))])
  /\ UNCHANGED <<session, last, log>>

\* Mutant: a receiver that is gone is waited for.
SendToSomeone(t) ==
  /\ turn[t].outbox # <<>>
  /\ turn[t].connected /\ Len(turn[t].channel) < Capacity
  /\ Goto(t, [turn[t] EXCEPT !.outbox = Tail(@), !.channel = Append(@, Head(turn[t].outbox))])
  /\ UNCHANGED <<session, last, log>>

\* let _ = tx.send(..).await: waits while the channel is full, and goes on
\* without an error when the receiver is gone.
Send(t) ==
  /\ turn[t].outbox # <<>>
  /\ turn[t].connected => Len(turn[t].channel) < Capacity
  /\ Goto(t, [turn[t] EXCEPT
        !.outbox = Tail(@),
        !.channel = IF turn[t].connected THEN Append(@, Head(turn[t].outbox)) ELSE @])
  /\ UNCHANGED <<session, last, log>>

-----------------------------------------------------------------------------
(* The response stream *)

\* Mutant: results are not saved.
PollUnsaved(t) ==
  /\ turn[t].connected /\ turn[t].channel # <<>>
  /\ LET e == Head(turn[t].channel)
     IN  Goto(t, [turn[t] EXCEPT
            !.channel = Tail(@), !.sent = Append(@, e),
            !.saving = IF e.type \in {"error", "tool_result"} THEN @ ELSE @ \cup {RowOf(t, e)}])
  /\ UNCHANGED <<session, last, log>>

\* The next event is mapped: its insert is spawned, and it goes to the client.
Poll(t) ==
  /\ turn[t].connected /\ turn[t].channel # <<>>
  /\ LET e == Head(turn[t].channel)
     IN  Goto(t, [turn[t] EXCEPT
            !.channel = Tail(@), !.sent = Append(@, e),
            !.saving = IF e.type = "error" THEN @ ELSE @ \cup {RowOf(t, e)}])
  /\ UNCHANGED <<session, last, log>>

\* A spawned insert runs, in any order.  It fails when the session is gone, by the
\* foreign key, or for the database: the error is dropped, and the task of an answer
\* goes on to update last_message.
Insert(t) ==
  /\ \E r \in turn[t].saving, done \in BOOLEAN :
       /\ done => open
       /\ Goto(t, [turn[t] EXCEPT
             !.saving = @ \ {r},
             !.lost = IF done THEN @ ELSE @ \cup {r},
             !.touching = IF r.type = "answer" THEN @ \cup {r} ELSE @])
       /\ log' = IF done THEN Append(log, r) ELSE log
  /\ UNCHANGED <<session, last>>

\* Mutant: the update of the session is dropped.
NameNothing(t) ==
  /\ \E r \in turn[t].touching : Goto(t, [turn[t] EXCEPT !.touching = @ \ {r}])
  /\ UNCHANGED <<session, last, log>>

NameAnswer(t) ==
  /\ \E r \in turn[t].touching, done \in BOOLEAN :
       /\ Named(r, done)
       /\ Goto(t, [turn[t] EXCEPT !.touching = @ \ {r}, !.unnamed = Unnamed(t, r, done)])
  /\ UNCHANGED <<session, log>>

\* External: the client goes away.  A request still being set up is dropped;
\* a task that runs is not: only its events have nowhere to go.
HangUp(t) ==
  /\ turn[t].connected
  /\ turn[t].pc # "new"
  /\ Goto(t, [turn[t] EXCEPT
        !.connected = FALSE, !.channel = <<>>,
        !.pc = IF @ \in {"entered", "inserted", "asked"} THEN "refused" ELSE @])
  /\ UNCHANGED <<session, last, log>>

\* delete_session: the messages go with the session (on delete cascade).
DeleteSession ==
  /\ open
  /\ session' = "deleted" /\ last' = NoRow /\ log' = <<>>
  /\ UNCHANGED turn

-----------------------------------------------------------------------------

Task(t) == Loop(t) \/ CallTool(t) \/ Execute(t) \/ Send(t)
Request(t) == Ask(t) \/ NameInput(t) \/ Start(t)
Stream(t) == Poll(t) \/ Insert(t) \/ NameAnswer(t)
Serve(t) == Request(t) \/ Task(t) \/ Stream(t)

Next ==
  \/ \E t \in Turn : \/ EnterChat(t) \/ EnterNote(t) \/ Serve(t) \/ Complete(t)
                     \/ FailRequest(t) \/ HangUp(t)
  \/ DeleteSession

\* Tasks run, tools return, and a client that stays connected reads.  Nothing is
\* assumed of the provider: the request to it has no time limit.
Spec == Init /\ [][Next]_vars /\ \A t \in Turn : WF_vars(Serve(t))

-----------------------------------------------------------------------------
(* Properties *)

EventType == {"thought", "tool_call", "tool_result", "answer", "error"}
PC == {"new", "entered", "inserted", "noted", "refused", "asked", "loop", "provider",
       "tools", "execute", "end"}
Call == (0 .. MaxIterations) \X Nat
Events == [type : EventType, call : Call]
Rows == [turn : Turn, type : EventType \cup Role, call : Call,
         text : Text \cup {NoText}]

\* The types of the session and of the locals of its turns; the channel and the
\* iterations keep to their limits.
TypeOK ==
  /\ session \in {"none", "open", "deleted"}
  /\ last \in Rows \cup {NoRow}
  /\ log \in Seq(Rows)
  /\ \A t \in Turn :
       /\ turn[t].pc \in PC
       /\ turn[t].text \in Text \cup {NoText}
       /\ turn[t].iteration \in 0 .. MaxIterations
       /\ turn[t].channel \in Seq(Events) /\ Len(turn[t].channel) <= Capacity
       /\ turn[t].outbox \in Seq(Events) /\ turn[t].sent \in Seq(Events)
       /\ UNION {turn[t].saving, turn[t].touching, turn[t].lost, turn[t].unnamed} \subseteq Rows
       /\ turn[t].chat \in BOOLEAN /\ turn[t].role \in Role
       /\ turn[t].connected \in BOOLEAN

\* All a turn has emitted, as long as the client is there.
Emitted(t) == turn[t].sent \o turn[t].channel \o turn[t].outbox
Closing(e) == e.type \in {"answer", "error"}

\* A stream carries one answer or one error, as its last event, and a task that
\* is over has emitted it: whatever mix of contents and (empty) lists of tool
\* calls the provider returns over the iterations.
EndsOnce ==
  \A t \in Turn : turn[t].connected =>
    LET es == Emitted(t) IN
    /\ \A i \in 1 .. Len(es) : Closing(es[i]) => i = Len(es)
    /\ turn[t].pc = "end" <=> (es # <<>> /\ Closing(Last(es)))

\* Before the provider is asked, every tool call a turn has made so far is
\* answered by one tool message, in order, behind the message that made it.
CallsAnswered ==
  \A t \in Turn : turn[t].pc \in {"loop", "provider"} =>
    LET ms == turn[t].messages
        Mine(i) == ms[i].turn = t /\ ms[i].role = "tool"
    IN  \A i \in 1 .. Len(ms) : (ms[i].turn = t /\ ms[i].role = "assistant") =>
          \A c \in ms[i].calls :
            /\ i + c[2] <= Len(ms)
            /\ Mine(i + c[2]) /\ ms[i + c[2]].calls = {c}

\* The task appends the input to the history it was given: unless another turn
\* has written behind the user's message, that message is not in the history too,
\* whatever the earlier turns left there and however short the window.
InputOnce ==
  \A t \in Turn :
    LET ms == turn[t].messages
        mine == Input(t)
    IN  (turn[t].pc = "loop" /\ turn[t].iteration = 0 /\ log # <<>> /\ Last(log) = mine) =>
          {i \in 1 .. Len(ms) : ms[i].turn = t /\ ms[i].role = "user"} = {Len(ms)}
          /\ Last(ms) = MessageOf(mine)

\* When a turn that was read to its end has no insert left, the session holds its
\* user message and behind it, each once, every event it sent but an error and
\* those whose own insert failed: a failed insert takes no other row along.
SavedWhenQuiet ==
  \A t \in Turn :
    (open /\ turn[t].pc = "end" /\ turn[t].connected /\ turn[t].saving = {}) =>
      LET saved == {e \in ToSet(turn[t].sent) : e.type # "error"}
          mine == {i \in 1 .. Len(log) : log[i].turn = t}
      IN  /\ {log[i] : i \in mine} = {Input(t)} \cup ({RowOf(t, e) : e \in saved} \ turn[t].lost)
          /\ \A i, j \in mine : log[i] = log[j] => i = j
          /\ \A i, j \in mine : log[i] = Input(t) => i <= j
          /\ \A i, j \in 1 .. Len(turn[t].sent) :
               turn[t].sent[i] = turn[t].sent[j] => i = j

\* The session's last message is one of its rows, or an answer whose insert failed;
\* and unless an update for the answer failed, it is not older than the answer of
\* its turn: the input's update is awaited before the turn starts, so the answer's,
\* in a task nobody awaits, comes behind it.
AnswerIsLast ==
  open /\ last # NoRow =>
    LET t == last.turn
        Answers(rows) == \E r \in rows : r.type = "answer"
    IN
    /\ last \in ToSet(log) \/ (last \in turn[t].lost /\ last.type = "answer")
    /\ (turn[t].saving \cup turn[t].touching = {}
        /\ \E i \in 1 .. Len(turn[t].sent) : turn[t].sent[i].type = "answer") =>
          last.type = "answer" \/ Answers(turn[t].unnamed)

\* Every turn ends, its client gone or not, as long as the provider answers
\* each time it is asked.
ProviderAnswers == \A t \in Turn : []<>(turn[t].pc # "provider")
TurnsEnd ==
  ProviderAnswers => \A t \in Turn : turn[t].pc = "asked" ~> turn[t].pc \in {"end", "refused"}
=============================================================================
