---------------------------- MODULE AgentChatProofs ----------------------------
(***************************************************************************)
(* The safety properties of AgentChat, for any number of turns, texts,     *)
(* iterations and tool calls, and for any window and capacity.             *)
(***************************************************************************)
EXTENDS AgentChat, SequenceTheorems, TLAPS

(***************************************************************************)
(* The invariants.                                                         *)
(***************************************************************************)

Messages ==
  [turn : Turn, role : {"user", "system", "assistant", "tool"}, calls : SUBSET Call,
   text : Text \cup {NoText}]
Locals ==
  [pc : PC, chat : BOOLEAN, role : Role, text : Text \cup {NoText},
   messages : Seq(Messages), iteration : 0 .. MaxIterations, calls : Seq(Call),
   outbox : Seq(Events), channel : Seq(Events), connected : BOOLEAN,
   sent : Seq(Events), saving : SUBSET Rows, touching : SUBSET Rows,
   lost : SUBSET Rows, unnamed : SUBSET Rows]

SessionOK ==
  /\ session \in {"none", "open", "deleted"}
  /\ last \in Rows \cup {NoRow}
  /\ log \in Seq(Rows)

TypeInv ==
  /\ SessionOK
  /\ turn \in [Turn -> Locals]
  /\ \A t \in Turn : /\ Len(turn[t].channel) <= Capacity
                     /\ turn[t].pc = "execute" => turn[t].calls # <<>>
                     /\ turn[t].pc \in {"provider", "tools", "execute"} => turn[t].iteration # 0

\* Before its task starts a turn has emitted nothing, and only a chat of the user
\* starts one.  A session that is not open has no rows.
Setup == {"new", "entered", "inserted", "noted", "refused", "asked"}
Ready(t) ==
  /\ turn[t].pc \notin {"new", "refused"} => session # "none"
  /\ turn[t].pc \in Setup =>
       /\ turn[t].outbox = <<>> /\ turn[t].channel = <<>> /\ turn[t].sent = <<>>
       /\ turn[t].saving = {} /\ turn[t].touching = {}
       /\ turn[t].iteration = 0 /\ turn[t].calls = <<>>
  /\ turn[t].chat => turn[t].role = "user"
  /\ turn[t].pc \in {"asked"} \cup (PC \ Setup) => turn[t].chat
SetupInv == (~open => log = <<>>) /\ \A t \in Turn : Ready(t)

\* What the task may not emit again: the thought of an iteration after it was
\* answered, a call or a result that it no longer has in front of it.
Behind(l, e) ==
  /\ l.pc \in {"provider"} => e.call[1] < l.iteration
  /\ l.pc # "provider" => e.call[1] <= l.iteration
  /\ l.pc \in {"tools", "execute"} /\ e.type = "tool_result" =>
       \A j \in 1 .. Len(l.calls) : e.call # l.calls[j]
  /\ l.pc = "tools" /\ e.type = "tool_call" =>
       \A j \in 1 .. Len(l.calls) : e.call # l.calls[j]
  /\ l.pc = "execute" /\ e.type = "tool_call" =>
       \A j \in 2 .. Len(l.calls) : e.call # l.calls[j]
Tidy(l, es) ==
  /\ \A i \in 1 .. Len(es) : Behind(l, es[i])
  /\ \A i, j \in 1 .. Len(es) : es[i] = es[j] => i = j
Ending(l, es) ==
  /\ \A i \in 1 .. Len(es) : Closing(es[i]) => i = Len(es)
  /\ l.pc = "end" <=> (es # <<>> /\ Closing(Last(es)))
EventsOK(t) == turn[t].connected => Tidy(turn[t], Emitted(t)) /\ Ending(turn[t], Emitted(t))
EventsInv == \A t \in Turn : EventsOK(t)

\* The tool calls in front of the task are those of this iteration, from some number
\* on; they were made by the last assistant message, and those before are answered.
Mine(ms, t, i) == ms[i].turn = t /\ ms[i].role = "tool"
AnsweredBy(ms, t, i, c) == i + c[2] <= Len(ms) /\ Mine(ms, t, i + c[2]) /\ ms[i + c[2]].calls = {c}
Answered(ms, t, i) == \A c \in ms[i].calls : AnsweredBy(ms, t, i, c)
Asking(ms, t, i) == ms[i].turn = t /\ ms[i].role = "assistant"
Remaining(l, t, n) ==
  LET ms == l.messages
      a == Len(ms) - (n - Len(l.calls))
  IN  /\ Len(l.calls) <= n /\ a \in 1 .. Len(ms)
      /\ Asking(ms, t, a) /\ ms[a].calls = {<<l.iteration, k>> : k \in 1 .. n}
      /\ \A j \in 1 .. Len(l.calls) : l.calls[j] = <<l.iteration, n - Len(l.calls) + j>>
      /\ \A k \in 1 .. n - Len(l.calls) : AnsweredBy(ms, t, a, <<l.iteration, k>>)
      /\ \A i \in 1 .. Len(ms) : Asking(ms, t, i) /\ i # a => Answered(ms, t, i)
CallsOK(l, t) ==
  /\ l.pc \in {"loop", "provider"} =>
       \A i \in 1 .. Len(l.messages) : Asking(l.messages, t, i) => Answered(l.messages, t, i)
  /\ l.pc \in {"tools", "execute"} => \E n \in Nat : Remaining(l, t, n)
CallsInv == \A t \in Turn : CallsOK(turn[t], t)

\* A row of a turn is its input or an event it has sent that no insert is left for;
\* no row is there twice, and the input is the first.  What was sent and is not there
\* is still to be inserted, or its insert has failed.
SentRow(t, r) == \E i \in 1 .. Len(turn[t].sent) :
  turn[t].sent[i].type # "error" /\ r = RowOf(t, turn[t].sent[i])
Saved(r) == \E i \in 1 .. Len(log) : log[i] = r
RowOK(r) ==
  /\ turn[r.turn].pc \notin {"new", "entered"}
  /\ r = Input(r.turn) \/ SentRow(r.turn, r)
  /\ r \notin turn[r.turn].saving
Early == {"new", "entered", "refused"}
Kept(t) ==
  /\ open /\ turn[t].pc \notin Early => Saved(Input(t))
  /\ \A r \in turn[t].saving : SentRow(t, r)
  /\ \A r \in Rows : open /\ SentRow(t, r) => r \in turn[t].saving \/ Saved(r) \/ r \in turn[t].lost
  /\ \A r \in turn[t].lost : SentRow(t, r) /\ r \notin turn[t].saving /\ ~Saved(r)
  /\ \A r \in turn[t].touching :
       r.turn = t /\ r.type = "answer" /\ (open => Saved(r) \/ r \in turn[t].lost)
Opens(r) == r = Input(r.turn)
RowsInv ==
  /\ \A i \in 1 .. Len(log) : RowOK(log[i])
  /\ \A i, j \in 1 .. Len(log) : log[i] = log[j] => i = j
  /\ \A i, j \in 1 .. Len(log) : Opens(log[i]) /\ log[j].turn = log[i].turn => i <= j
  /\ \A t \in Turn : Kept(t)

\* The last message is a row, or an answer that was lost; behind an answer that was
\* sent, it is that answer, or the answer is still on its way, or its update failed.
Coming(l) == UNION {l.saving, l.touching, l.unnamed}
Newest(r) ==
  /\ Saved(r) \/ (r \in turn[r.turn].lost /\ r.type = "answer")
  /\ (\E i \in 1 .. Len(turn[r.turn].sent) : turn[r.turn].sent[i].type = "answer") =>
       \/ r.type = "answer"
       \/ \E s \in Coming(turn[r.turn]) : s.type = "answer"
LastInv == (~open => last = NoRow) /\ (last # NoRow => Newest(last))

IInv ==
  /\ TypeInv /\ SetupInv /\ EventsInv /\ CallsInv /\ RowsInv /\ LastInv /\ InputOnce
-----------------------------------------------------------------------------
(* What each step changes. *)

Others(t) == turn' \in [Turn -> Locals] /\ \A u \in Turn \ {t} : turn'[u] = turn[u]

LEMMA GotoOthers ==
  ASSUME turn \in [Turn -> Locals], NEW t \in Turn, NEW l \in Locals, Goto(t, l)
  PROVE  Others(t) /\ turn'[t] = l
BY DEF Goto, Others

LEMMA EventTyped ==
  ASSUME NEW type \in EventType, NEW call \in Call
  PROVE  Event(type, call) \in Events /\ Event(type, call).type = type /\ Event(type, call).call = call
BY DEF Event, Events

\* The steps of the task but Send: the session, what was emitted before and what is
\* being saved stay as they are.
Working(t) ==
  /\ Others(t) /\ UNCHANGED <<session, last, log>>
  /\ turn[t].pc \notin Setup /\ turn'[t].pc \notin Setup
  /\ turn'[t].chat = turn[t].chat /\ turn'[t].role = turn[t].role /\ turn'[t].text = turn[t].text
  /\ turn'[t].channel = turn[t].channel /\ turn'[t].sent = turn[t].sent
  /\ turn'[t].connected = turn[t].connected
  /\ turn'[t].saving = turn[t].saving /\ turn'[t].touching = turn[t].touching
  /\ turn'[t].lost = turn[t].lost /\ turn'[t].unnamed = turn[t].unnamed
  /\ turn[t].outbox = <<>>

LEMMA GiveUpWorks ==
  ASSUME TypeInv, NEW t \in Turn, At(t, "loop") \/ At(t, "provider"), GiveUp(t),
         UNCHANGED <<session, last, log>>
  PROVE  /\ Working(t)
         /\ turn'[t].pc = "end" /\ turn'[t].iteration = turn[t].iteration
         /\ turn'[t].outbox = <<Event("error", <<turn[t].iteration, 0>>)>>
<1> DEFINE e == Event("error", <<turn[t].iteration, 0>>)
           l == [turn[t] EXCEPT !.pc = "end", !.outbox = <<e>>]
<1>1. turn[t] \in Locals /\ turn \in [Turn -> Locals]
  BY DEF TypeInv
<1>2. e \in Events
  BY <1>1, EventTyped DEF Locals, Call, EventType
<1>3. l \in Locals
  <2> DEFINE pc == "end"
             outbox == <<e>>
  <2>1. pc \in PC /\ outbox \in Seq(Events)
    BY <1>2 DEF PC
  <2> HIDE DEF pc, outbox
  <2>2. [turn[t] EXCEPT !.pc = pc, !.outbox = outbox] \in Locals
    BY <1>1, <2>1 DEF Locals
  <2> QED
    BY <2>2 DEF pc, outbox
<1> HIDE DEF e
<1> HIDE DEF l
<1>4. Others(t) /\ turn'[t] = l
  BY <1>1, <1>3, GotoOthers DEF GiveUp, l, e
<1> QED
  BY <1>1, <1>4 DEF Working, At, l, e, Setup, Locals

LEMMA LoopWorks ==
  ASSUME TypeInv, NEW t \in Turn, Loop(t)
  PROVE  /\ Working(t) /\ turn[t].pc = "loop"
         /\ \/ turn'[t].pc = "end" /\ turn'[t].iteration = turn[t].iteration
               /\ turn'[t].outbox = <<Event("error", <<turn[t].iteration, 0>>)>>
            \/ turn'[t].pc = "provider" /\ turn'[t].iteration = turn[t].iteration + 1
               /\ turn'[t].outbox = <<>> /\ turn'[t].messages = turn[t].messages
               /\ turn'[t].calls = turn[t].calls
<1>1. turn[t] \in Locals /\ turn \in [Turn -> Locals]
  BY DEF TypeInv
<1>2. CASE turn[t].iteration = MaxIterations
  BY <1>2, GiveUpWorks DEF Loop, At
<1>3. CASE turn[t].iteration # MaxIterations
  <2> DEFINE pc == "provider"
             iteration == turn[t].iteration + 1
             l == [turn[t] EXCEPT !.pc = pc, !.iteration = iteration]
  <2>1. pc \in PC /\ iteration \in 0 .. MaxIterations
    BY <1>1, <1>3, ChatAssumption DEF PC, Locals
  <2>2. Goto(t, l) /\ At(t, "loop") /\ UNCHANGED <<session, last, log>>
    BY <1>3 DEF Loop
  <2> HIDE DEF pc, iteration
  <2>3. l \in Locals
    BY <1>1, <2>1 DEF Locals
  <2> HIDE DEF l
  <2>4. Others(t) /\ turn'[t] = l
    BY <1>1, <2>2, <2>3, GotoOthers
  <2> QED
    BY <1>1, <2>2, <2>4 DEF Working, At, l, pc, iteration, Setup, Locals
<1> QED
  BY <1>2, <1>3

LEMMA CompleteWorks ==
  ASSUME TypeInv, NEW t \in Turn, Complete(t)
  PROVE  /\ Working(t) /\ turn[t].pc = "provider"
         /\ turn'[t].iteration = turn[t].iteration
         /\ \/ turn'[t].pc = "end"
               /\ turn'[t].outbox = <<Event("error", <<turn[t].iteration, 0>>)>>
            \/ \E content \in BOOLEAN, n \in Nat :
                 LET calls == [k \in 1 .. n |-> <<turn[t].iteration, k>>] IN
                 /\ turn'[t].pc = IF content /\ n = 0 THEN "end" ELSE "tools"
                 /\ turn'[t].calls = calls
                 /\ turn'[t].messages =
                      Append(turn[t].messages, Message(t, "assistant", ToSet(calls), NoText))
                 /\ turn'[t].outbox =
                      IF ~content THEN <<>>
                      ELSE <<Event(IF n = 0 THEN "answer" ELSE "thought", <<turn[t].iteration, 0>>)>>
<1>1. turn[t] \in Locals /\ turn \in [Turn -> Locals]
  BY DEF TypeInv
<1>2. At(t, "provider") /\ UNCHANGED <<session, last, log>>
  BY DEF Complete
<1>3. PICK reply \in Replies(t) :
        \/ /\ reply.ok
           /\ Respond(t, reply.content, reply.calls,
                      IF reply.content /\ reply.calls = 0 THEN "end" ELSE "tools")
        \/ ~reply.ok /\ GiveUp(t)
  BY DEF Complete
<1>4. CASE ~reply.ok /\ GiveUp(t)
  BY <1>2, <1>4, GiveUpWorks DEF At
<1>5. CASE reply.ok /\ Respond(t, reply.content, reply.calls,
                               IF reply.content /\ reply.calls = 0 THEN "end" ELSE "tools")
  <2>1. reply.content \in BOOLEAN /\ reply.calls \in Nat
    <3>1. MaxCalls[t] \in Nat
      BY ChatAssumption
    <3> DEFINE N == {k \in 0 .. MaxCalls[t] : k + Made(t) <= MaxCalls[t]}
    <3>2. N \subseteq Nat
      BY <3>1
    <3> HIDE DEF N
    <3>3. reply \in {Failed} \cup {[ok |-> TRUE, content |-> HasContent(c, r), calls |-> n] :
             c \in {"none", "empty", "text"}, r \in BOOLEAN, n \in N}
      BY DEF Replies, N
    <3>4. reply # Failed
      <4>1. Failed.ok = FALSE
        BY DEF Failed
      <4> QED
        BY <1>5, <4>1, Zenon
    <3>5. PICK c \in {"none", "empty", "text"}, r \in BOOLEAN, n \in N :
             reply = [ok |-> TRUE, content |-> HasContent(c, r), calls |-> n]
      BY <3>3, <3>4
    <3> DEFINE has == HasContent(c, r)
    <3>6. has \in BOOLEAN
      BY DEF HasContent
    <3> HIDE DEF has
    <3>7. reply.content = has /\ reply.calls = n
      BY <3>5 DEF has
    <3> QED
      BY <3>2, <3>6, <3>7
  <2> DEFINE content == reply.content
             n == reply.calls
             pc == IF content /\ n = 0 THEN "end" ELSE "tools"
             calls == [k \in 1 .. n |-> <<turn[t].iteration, k>>]
             m == Message(t, "assistant", ToSet(calls), NoText)
             messages == Append(turn[t].messages, m)
             outbox == IF ~content THEN <<>>
                       ELSE <<Event(IF n = 0 THEN "answer" ELSE "thought", <<turn[t].iteration, 0>>)>>
             l == [turn[t] EXCEPT !.pc = pc, !.messages = messages, !.calls = calls, !.outbox = outbox]
  <2>2. Goto(t, l)
    BY <1>5, Zenon DEF Respond
  <2>3. calls \in Seq(Call) /\ pc \in PC
    <3>1. \A k \in 1 .. n : <<turn[t].iteration, k>> \in Call
      BY <1>1, <2>1 DEF Locals, Call
    <3>2. calls \in [1 .. n -> Call]
      BY <3>1
    <3> QED
      BY <2>1, <3>2 DEF PC
  <2>4. messages \in Seq(Messages)
    <3> HIDE DEF calls
    <3>1. ToSet(calls) \in SUBSET Call
      BY <2>3 DEF ToSet
    <3>2. m \in Messages
      BY <3>1 DEF Message, Messages
    <3> HIDE DEF m
    <3> QED
      BY <1>1, <3>2 DEF Locals
  <2>5. outbox \in Seq(Events)
    <3>1. <<turn[t].iteration, 0>> \in Call
      BY <1>1 DEF Locals, Call
    <3>2. \A type \in EventType : <<Event(type, <<turn[t].iteration, 0>>)>> \in Seq(Events)
      BY <3>1, EventTyped
    <3> QED
      BY <3>2 DEF EventType
  <2> HIDE DEF pc, messages, calls, outbox
  <2>6. l \in Locals
    BY <1>1, <2>3, <2>4, <2>5 DEF Locals
  <2>7. /\ l.pc = pc /\ l.messages = messages /\ l.calls = calls /\ l.outbox = outbox
        /\ l.iteration = turn[t].iteration /\ l.chat = turn[t].chat /\ l.role = turn[t].role
        /\ l.text = turn[t].text /\ l.channel = turn[t].channel /\ l.sent = turn[t].sent
        /\ l.connected = turn[t].connected /\ l.saving = turn[t].saving
        /\ l.touching = turn[t].touching /\ l.lost = turn[t].lost /\ l.unnamed = turn[t].unnamed
    BY <1>1 DEF Locals
  <2> HIDE DEF l
  <2>8. Others(t) /\ turn'[t] = l
    BY <1>1, <2>2, <2>6, GotoOthers
  <2>9. Working(t)
    BY <1>2, <2>7, <2>8 DEF Working, At, Setup, pc
  <2>10. /\ turn'[t].pc = pc /\ turn'[t].calls = calls /\ turn'[t].messages = messages
         /\ turn'[t].outbox = outbox /\ turn'[t].iteration = turn[t].iteration
    BY <2>7, <2>8
  <2>11. turn[t].pc = "provider"
    BY <1>2 DEF At
  <2> QED
    BY <2>1, <2>9, <2>10, <2>11, Zenon DEF pc, calls, messages, outbox
<1> QED
  BY <1>3, <1>4, <1>5

LEMMA CallToolWorks ==
  ASSUME TypeInv, NEW t \in Turn, CallTool(t)
  PROVE  /\ Working(t) /\ turn[t].pc = "tools"
         /\ turn'[t].iteration = turn[t].iteration /\ turn'[t].messages = turn[t].messages
         /\ turn'[t].calls = turn[t].calls
         /\ \/ turn[t].calls = <<>> /\ turn'[t].pc = "loop" /\ turn'[t].outbox = <<>>
            \/ turn[t].calls # <<>> /\ turn'[t].pc = "execute"
               /\ turn'[t].outbox = <<Event("tool_call", turn[t].calls[1])>>
<1>1. turn[t] \in Locals /\ turn \in [Turn -> Locals]
  BY DEF TypeInv
<1>2. At(t, "tools") /\ UNCHANGED <<session, last, log>>
  BY DEF CallTool
<1> DEFINE pc == IF turn[t].calls = <<>> THEN "loop" ELSE "execute"
           outbox == IF turn[t].calls = <<>> THEN <<>> ELSE <<Event("tool_call", turn[t].calls[1])>>
           l == [turn[t] EXCEPT !.pc = pc, !.outbox = outbox]
<1>3. pc \in PC /\ outbox \in Seq(Events)
  <2>1. CASE turn[t].calls # <<>>
    <3>1. turn[t].calls[1] \in Call
      BY <1>1, <2>1 DEF Locals
    <3> QED
      BY <2>1, <3>1, EventTyped DEF PC, EventType
  <2> QED
    BY <2>1 DEF PC
<1>4. Goto(t, l)
  <2>1. CASE turn[t].calls # <<>>
    <3>1. Head(turn[t].calls) = turn[t].calls[1]
      BY <1>1, <2>1 DEF Locals
    <3> QED
      BY <2>1, <3>1 DEF CallTool
  <2>2. CASE turn[t].calls = <<>>
    <3>1. [turn[t] EXCEPT !.pc = "loop"] = [turn[t] EXCEPT !.pc = "loop", !.outbox = <<>>]
      BY <1>1, <1>2 DEF At, Locals
    <3> QED
      BY <2>2, <3>1 DEF CallTool
  <2> QED
    BY <2>1, <2>2
<1> HIDE DEF pc, outbox
<1>5. l \in Locals
  BY <1>1, <1>3 DEF Locals
<1> HIDE DEF l
<1>6. Others(t) /\ turn'[t] = l
  BY <1>1, <1>4, <1>5, GotoOthers
<1> QED
  BY <1>1, <1>2, <1>6 DEF Working, At, l, pc, outbox, Setup, Locals

LEMMA ExecuteWorks ==
  ASSUME TypeInv, NEW t \in Turn, Execute(t)
  PROVE  /\ Working(t) /\ turn[t].pc = "execute" /\ turn'[t].pc = "tools"
         /\ turn[t].calls # <<>>
         /\ turn'[t].iteration = turn[t].iteration
         /\ turn'[t].calls = Tail(turn[t].calls)
         /\ turn'[t].outbox = <<Event("tool_result", turn[t].calls[1])>>
         /\ turn'[t].messages =
              Append(turn[t].messages, Message(t, "tool", {turn[t].calls[1]}, NoText))
<1>1. turn[t] \in Locals /\ turn \in [Turn -> Locals]
  BY DEF TypeInv
<1>2. At(t, "execute") /\ UNCHANGED <<session, last, log>>
  BY DEF Execute
<1>3. turn[t].calls # <<>>
  BY <1>2 DEF TypeInv, At
<1>4. Head(turn[t].calls) = turn[t].calls[1] /\ turn[t].calls[1] \in Call
      /\ Tail(turn[t].calls) \in Seq(Call)
  BY <1>1, <1>3 DEF Locals
<1> DEFINE pc == "tools"
           calls == Tail(turn[t].calls)
           outbox == <<Event("tool_result", turn[t].calls[1])>>
           m == Message(t, "tool", {turn[t].calls[1]}, NoText)
           messages == Append(turn[t].messages, m)
           l == [turn[t] EXCEPT !.pc = pc, !.calls = calls, !.outbox = outbox, !.messages = messages]
<1>5. Goto(t, l)
  BY <1>4, Zenon DEF Execute
<1>6. pc \in PC /\ calls \in Seq(Call) /\ outbox \in Seq(Events)
  BY <1>4, EventTyped DEF PC, EventType
<1>7. messages \in Seq(Messages)
  <2>1. m \in Messages
    BY <1>4 DEF Message, Messages
  <2> HIDE DEF m
  <2> QED
    BY <1>1, <2>1 DEF Locals
<1> HIDE DEF pc, calls, outbox, messages
<1>8. l \in Locals
  BY <1>1, <1>6, <1>7 DEF Locals
<1>9. /\ l.pc = pc /\ l.messages = messages /\ l.calls = calls /\ l.outbox = outbox
      /\ l.iteration = turn[t].iteration /\ l.chat = turn[t].chat /\ l.role = turn[t].role
      /\ l.text = turn[t].text /\ l.channel = turn[t].channel /\ l.sent = turn[t].sent
      /\ l.connected = turn[t].connected /\ l.saving = turn[t].saving
      /\ l.touching = turn[t].touching /\ l.lost = turn[t].lost /\ l.unnamed = turn[t].unnamed
  BY <1>1 DEF Locals
<1> HIDE DEF l
<1>10. Others(t) /\ turn'[t] = l
  BY <1>1, <1>5, <1>8, GotoOthers
<1> QED
  BY <1>2, <1>3, <1>9, <1>10 DEF Working, At, Setup, pc, calls, outbox, messages, m

\* What the stream and the inserts leave to the task and to the request.
Keeps(t) ==
  /\ Others(t)
  /\ turn'[t].pc = turn[t].pc /\ turn'[t].chat = turn[t].chat /\ turn'[t].role = turn[t].role
  /\ turn'[t].text = turn[t].text /\ turn'[t].messages = turn[t].messages
  /\ turn'[t].iteration = turn[t].iteration /\ turn'[t].calls = turn[t].calls

LEMMA SendKeeps ==
  ASSUME TypeInv, NEW t \in Turn, Send(t)
  PROVE  /\ Keeps(t) /\ UNCHANGED <<session, last, log>>
         /\ turn'[t].connected = turn[t].connected /\ turn'[t].sent = turn[t].sent
         /\ turn'[t].saving = turn[t].saving /\ turn'[t].touching = turn[t].touching
         /\ turn'[t].lost = turn[t].lost /\ turn'[t].unnamed = turn[t].unnamed
         /\ turn[t].outbox # <<>> /\ turn'[t].outbox = Tail(turn[t].outbox)
         /\ turn'[t].channel = IF turn[t].connected THEN Append(turn[t].channel, turn[t].outbox[1])
                               ELSE turn[t].channel
         /\ Len(turn'[t].channel) <= Capacity
<1>1. turn[t] \in Locals /\ turn \in [Turn -> Locals] /\ Len(turn[t].channel) <= Capacity
  BY DEF TypeInv
<1>2. turn[t].outbox # <<>> /\ (turn[t].connected => Len(turn[t].channel) < Capacity)
      /\ UNCHANGED <<session, last, log>>
  BY DEF Send
<1>3. /\ Head(turn[t].outbox) = turn[t].outbox[1] /\ turn[t].outbox[1] \in Events
      /\ Tail(turn[t].outbox) \in Seq(Events)
  BY <1>1, <1>2 DEF Locals
<1> DEFINE outbox == Tail(turn[t].outbox)
           channel == IF turn[t].connected THEN Append(turn[t].channel, turn[t].outbox[1])
                      ELSE turn[t].channel
           l == [turn[t] EXCEPT !.outbox = outbox, !.channel = channel]
<1>4. Goto(t, l)
  BY <1>3, Zenon DEF Send
<1>5. outbox \in Seq(Events) /\ channel \in Seq(Events)
  BY <1>1, <1>3 DEF Locals
<1>6. Len(channel) <= Capacity
  <2>1. CASE turn[t].connected
    BY <1>1, <1>2, <1>3, <2>1, ChatAssumption DEF Locals
  <2> QED
    BY <1>1, <2>1
<1> HIDE DEF outbox, channel
<1>7. l \in Locals
  BY <1>1, <1>5 DEF Locals
<1>8. /\ l.pc = turn[t].pc /\ l.messages = turn[t].messages /\ l.calls = turn[t].calls
      /\ l.outbox = outbox /\ l.channel = channel
      /\ l.iteration = turn[t].iteration /\ l.chat = turn[t].chat /\ l.role = turn[t].role
      /\ l.text = turn[t].text /\ l.sent = turn[t].sent /\ l.connected = turn[t].connected
      /\ l.saving = turn[t].saving /\ l.touching = turn[t].touching
      /\ l.lost = turn[t].lost /\ l.unnamed = turn[t].unnamed
  BY <1>1 DEF Locals
<1> HIDE DEF l
<1>9. Others(t) /\ turn'[t] = l
  BY <1>1, <1>4, <1>7, GotoOthers
<1> QED
  BY <1>2, <1>6, <1>8, <1>9, Zenon DEF Keeps, outbox, channel

LEMMA RowTyped ==
  ASSUME NEW t \in Turn, NEW e \in Events
  PROVE  RowOf(t, e) \in Rows /\ RowOf(t, e).turn = t /\ RowOf(t, e).type = e.type
         /\ RowOf(t, e).call = e.call
BY DEF RowOf, Rows, Events

LEMMA PollKeeps ==
  ASSUME TypeInv, NEW t \in Turn, Poll(t)
  PROVE  /\ Keeps(t) /\ UNCHANGED <<session, last, log>>
         /\ turn[t].connected /\ turn'[t].connected = turn[t].connected
         /\ turn'[t].outbox = turn[t].outbox /\ turn'[t].touching = turn[t].touching
         /\ turn'[t].lost = turn[t].lost /\ turn'[t].unnamed = turn[t].unnamed
         /\ turn[t].channel # <<>> /\ turn'[t].channel = Tail(turn[t].channel)
         /\ turn'[t].sent = Append(turn[t].sent, turn[t].channel[1])
         /\ turn'[t].saving = IF turn[t].channel[1].type = "error" THEN turn[t].saving
                              ELSE turn[t].saving \cup {RowOf(t, turn[t].channel[1])}
<1>1. turn[t] \in Locals /\ turn \in [Turn -> Locals]
  BY DEF TypeInv
<1>2. turn[t].connected /\ turn[t].channel # <<>> /\ UNCHANGED <<session, last, log>>
  BY DEF Poll
<1>3. /\ Head(turn[t].channel) = turn[t].channel[1] /\ turn[t].channel[1] \in Events
      /\ Tail(turn[t].channel) \in Seq(Events)
  BY <1>1, <1>2 DEF Locals
<1> DEFINE e == turn[t].channel[1]
           channel == Tail(turn[t].channel)
           sent == Append(turn[t].sent, e)
           saving == IF e.type = "error" THEN turn[t].saving
                     ELSE turn[t].saving \cup {RowOf(t, e)}
           l == [turn[t] EXCEPT !.channel = channel, !.sent = sent, !.saving = saving]
<1>4. Goto(t, l)
  BY <1>3, Zenon DEF Poll
<1>5. channel \in Seq(Events) /\ sent \in Seq(Events)
  BY <1>1, <1>3 DEF Locals
<1>6. saving \in SUBSET Rows
  BY <1>1, <1>3, RowTyped DEF Locals
<1> HIDE DEF channel, sent, saving
<1>7. l \in Locals
  BY <1>1, <1>5, <1>6 DEF Locals
<1>8. /\ l.pc = turn[t].pc /\ l.messages = turn[t].messages /\ l.calls = turn[t].calls
      /\ l.outbox = turn[t].outbox /\ l.channel = channel /\ l.sent = sent /\ l.saving = saving
      /\ l.iteration = turn[t].iteration /\ l.chat = turn[t].chat /\ l.role = turn[t].role
      /\ l.text = turn[t].text /\ l.connected = turn[t].connected
      /\ l.touching = turn[t].touching /\ l.lost = turn[t].lost /\ l.unnamed = turn[t].unnamed
  BY <1>1 DEF Locals
<1> HIDE DEF l
<1>9. Others(t) /\ turn'[t] = l
  BY <1>1, <1>4, <1>7, GotoOthers
<1> QED
  BY <1>2, <1>8, <1>9, Zenon DEF Keeps, channel, sent, saving

LEMMA InsertKeeps ==
  ASSUME TypeInv, NEW t \in Turn, Insert(t)
  PROVE  /\ Keeps(t) /\ UNCHANGED <<session, last>>
         /\ turn'[t].connected = turn[t].connected /\ turn'[t].sent = turn[t].sent
         /\ turn'[t].outbox = turn[t].outbox /\ turn'[t].channel = turn[t].channel
         /\ turn'[t].unnamed = turn[t].unnamed
         /\ \E r \in turn[t].saving, done \in BOOLEAN :
              /\ done => open
              /\ turn'[t].saving = turn[t].saving \ {r}
              /\ turn'[t].lost = IF done THEN turn[t].lost ELSE turn[t].lost \cup {r}
              /\ turn'[t].touching = IF r.type = "answer" THEN turn[t].touching \cup {r}
                                     ELSE turn[t].touching
              /\ log' = IF done THEN Append(log, r) ELSE log
<1>1. turn[t] \in Locals /\ turn \in [Turn -> Locals]
  BY DEF TypeInv
<1>2. PICK r \in turn[t].saving, done \in BOOLEAN :
       /\ done => open
       /\ Goto(t, [turn[t] EXCEPT
             !.saving = @ \ {r},
             !.lost = IF done THEN @ ELSE @ \cup {r},
             !.touching = IF r.type = "answer" THEN @ \cup {r} ELSE @])
       /\ log' = IF done THEN Append(log, r) ELSE log
  BY DEF Insert
<1> DEFINE saving == turn[t].saving \ {r}
           lost == IF done THEN turn[t].lost ELSE turn[t].lost \cup {r}
           touching == IF r.type = "answer" THEN turn[t].touching \cup {r} ELSE turn[t].touching
           l == [turn[t] EXCEPT !.saving = saving, !.lost = lost, !.touching = touching]
<1>3. Goto(t, l)
  BY <1>2, Zenon
<1>4. saving \in SUBSET Rows /\ lost \in SUBSET Rows /\ touching \in SUBSET Rows
  BY <1>1 DEF Locals
<1> HIDE DEF saving, lost, touching
<1>5. l \in Locals
  BY <1>1, <1>4 DEF Locals
<1>6. /\ l.pc = turn[t].pc /\ l.messages = turn[t].messages /\ l.calls = turn[t].calls
      /\ l.outbox = turn[t].outbox /\ l.channel = turn[t].channel /\ l.sent = turn[t].sent
      /\ l.saving = saving /\ l.lost = lost /\ l.touching = touching
      /\ l.unnamed = turn[t].unnamed
      /\ l.iteration = turn[t].iteration /\ l.chat = turn[t].chat /\ l.role = turn[t].role
      /\ l.text = turn[t].text /\ l.connected = turn[t].connected
  BY <1>1 DEF Locals
<1> HIDE DEF l
<1>7. Others(t) /\ turn'[t] = l
  BY <1>1, <1>3, <1>5, GotoOthers
<1>8. UNCHANGED <<session, last>>
  BY DEF Insert
<1> QED
  BY <1>2, <1>6, <1>7, <1>8, Zenon DEF Keeps, saving, lost, touching

LEMMA NameAnswerKeeps ==
  ASSUME TypeInv, NEW t \in Turn, NameAnswer(t)
  PROVE  /\ Keeps(t) /\ UNCHANGED <<session, log>>
         /\ turn'[t].connected = turn[t].connected /\ turn'[t].sent = turn[t].sent
         /\ turn'[t].outbox = turn[t].outbox /\ turn'[t].channel = turn[t].channel
         /\ turn'[t].saving = turn[t].saving /\ turn'[t].lost = turn[t].lost
         /\ \E r \in turn[t].touching, done \in BOOLEAN :
              /\ turn'[t].touching = turn[t].touching \ {r}
              /\ turn'[t].unnamed = Unnamed(t, r, done)
              /\ last' = IF done /\ open THEN r ELSE last
<1>1. turn[t] \in Locals /\ turn \in [Turn -> Locals]
  BY DEF TypeInv
<1>2. PICK r \in turn[t].touching, done \in BOOLEAN :
       Named(r, done) /\ Goto(t, [turn[t] EXCEPT !.touching = @ \ {r},
                                                !.unnamed = Unnamed(t, r, done)])
  BY DEF NameAnswer
<1> DEFINE touching == turn[t].touching \ {r}
           unnamed == Unnamed(t, r, done)
           l == [turn[t] EXCEPT !.touching = touching, !.unnamed = unnamed]
<1>3. Goto(t, l)
  BY <1>2, Zenon
<1>4. touching \in SUBSET Rows /\ unnamed \in SUBSET Rows
  BY <1>1 DEF Locals, Unnamed
<1> HIDE DEF touching, unnamed
<1>5. l \in Locals
  BY <1>1, <1>4 DEF Locals
<1>6. /\ l.pc = turn[t].pc /\ l.messages = turn[t].messages /\ l.calls = turn[t].calls
      /\ l.outbox = turn[t].outbox /\ l.channel = turn[t].channel /\ l.sent = turn[t].sent
      /\ l.saving = turn[t].saving /\ l.lost = turn[t].lost
      /\ l.touching = touching /\ l.unnamed = unnamed
      /\ l.iteration = turn[t].iteration /\ l.chat = turn[t].chat /\ l.role = turn[t].role
      /\ l.text = turn[t].text /\ l.connected = turn[t].connected
  BY <1>1 DEF Locals
<1> HIDE DEF l
<1>7. Others(t) /\ turn'[t] = l
  BY <1>1, <1>3, <1>5, GotoOthers
<1>8. UNCHANGED <<session, log>>
  BY DEF NameAnswer
<1> QED
  BY <1>2, <1>6, <1>7, <1>8, Zenon DEF Keeps, touching, unnamed, Named

LEMMA HangUpLeaves ==
  ASSUME TypeInv, NEW t \in Turn, HangUp(t)
  PROVE  /\ Others(t) /\ UNCHANGED <<session, last, log>>
         /\ turn[t].connected /\ turn[t].pc # "new"
         /\ turn'[t].connected = FALSE /\ turn'[t].channel = <<>>
         /\ turn'[t].pc = IF turn[t].pc \in {"entered", "inserted", "asked"} THEN "refused"
                          ELSE turn[t].pc
         /\ turn'[t].chat = turn[t].chat /\ turn'[t].role = turn[t].role
         /\ turn'[t].text = turn[t].text /\ turn'[t].messages = turn[t].messages
         /\ turn'[t].iteration = turn[t].iteration /\ turn'[t].calls = turn[t].calls
         /\ turn'[t].outbox = turn[t].outbox /\ turn'[t].sent = turn[t].sent
         /\ turn'[t].saving = turn[t].saving /\ turn'[t].touching = turn[t].touching
         /\ turn'[t].lost = turn[t].lost /\ turn'[t].unnamed = turn[t].unnamed
<1>1. turn[t] \in Locals /\ turn \in [Turn -> Locals]
  BY DEF TypeInv
<1> DEFINE pc == IF turn[t].pc \in {"entered", "inserted", "asked"} THEN "refused" ELSE turn[t].pc
           connected == FALSE
           channel == <<>>
           l == [turn[t] EXCEPT !.connected = connected, !.channel = channel, !.pc = pc]
<1>2. Goto(t, l) /\ turn[t].connected /\ turn[t].pc # "new" /\ UNCHANGED <<session, last, log>>
  BY Zenon DEF HangUp
<1>3. pc \in PC /\ connected \in BOOLEAN /\ channel \in Seq(Events)
  BY <1>1 DEF Locals, PC
<1> HIDE DEF pc, connected, channel
<1>4. l \in Locals
  BY <1>1, <1>3 DEF Locals
<1>5. /\ l.pc = pc /\ l.messages = turn[t].messages /\ l.calls = turn[t].calls
      /\ l.outbox = turn[t].outbox /\ l.channel = channel /\ l.sent = turn[t].sent
      /\ l.saving = turn[t].saving /\ l.touching = turn[t].touching
      /\ l.lost = turn[t].lost /\ l.unnamed = turn[t].unnamed
      /\ l.iteration = turn[t].iteration /\ l.chat = turn[t].chat /\ l.role = turn[t].role
      /\ l.text = turn[t].text /\ l.connected = connected
  BY <1>1 DEF Locals
<1> HIDE DEF l
<1>6. Others(t) /\ turn'[t] = l
  BY <1>1, <1>2, <1>4, GotoOthers
<1> QED
  BY <1>2, <1>5, <1>6, Zenon DEF pc, connected, channel

\* The steps of a request that is being set up.
SettingUp(t) ==
  /\ Others(t) /\ turn[t].pc \in Setup /\ turn[t].outbox = <<>>
  /\ turn'[t].connected = turn[t].connected /\ turn'[t].channel = turn[t].channel
  /\ turn'[t].outbox = turn[t].outbox /\ turn'[t].sent = turn[t].sent
  /\ turn'[t].saving = turn[t].saving /\ turn'[t].touching = turn[t].touching
  /\ turn'[t].lost = turn[t].lost /\ turn[t].unnamed \subseteq turn'[t].unnamed
  /\ turn'[t].iteration = turn[t].iteration /\ turn'[t].calls = turn[t].calls

LEMMA EnterSetsUp ==
  ASSUME TypeInv, NEW t \in Turn, EnterChat(t) \/ EnterNote(t)
  PROVE  /\ SettingUp(t) /\ UNCHANGED <<last, log>>
         /\ turn[t].pc = "new" /\ turn'[t].pc = "entered"
         /\ turn'[t].text = turn[t].text /\ turn'[t].messages = turn[t].messages
         /\ \/ session # "none" /\ session' = session
            \/ session = "none" /\ session' = "open"
         /\ \/ turn'[t].chat = turn[t].chat /\ turn'[t].role = turn[t].role
            \/ turn'[t].chat = FALSE
<1>1. turn[t] \in Locals /\ turn \in [Turn -> Locals]
  BY DEF TypeInv
<1>2. /\ At(t, "new") /\ UNCHANGED <<last, log>>
      /\ \/ session # "none" /\ session' = session
         \/ session = "none" /\ session' = "open"
  BY DEF EnterChat, EnterNote
<1>3. CASE EnterChat(t)
  <2> DEFINE pc == "entered"
             l == [turn[t] EXCEPT !.pc = pc]
  <2>1. Goto(t, l) /\ pc \in PC
    BY <1>3 DEF EnterChat, PC
  <2> HIDE DEF pc
  <2>2. l \in Locals
    BY <1>1, <2>1 DEF Locals
  <2> HIDE DEF l
  <2>3. Others(t) /\ turn'[t] = l
    BY <1>1, <2>1, <2>2, GotoOthers
  <2> QED
    BY <1>1, <1>2, <2>3 DEF SettingUp, At, Setup, l, pc, Locals
<1>4. CASE EnterNote(t)
  <2>1. PICK role \in Role :
          Goto(t, [turn[t] EXCEPT !.pc = "entered", !.chat = FALSE, !.role = role])
    BY <1>4 DEF EnterNote
  <2> DEFINE pc == "entered"
             chat == FALSE
             l == [turn[t] EXCEPT !.pc = pc, !.chat = chat, !.role = role]
  <2>2. Goto(t, l) /\ pc \in PC /\ chat \in BOOLEAN
    BY <2>1 DEF PC
  <2> HIDE DEF pc, chat
  <2>3. l \in Locals
    BY <1>1, <2>2 DEF Locals
  <2>4. /\ l.pc = pc /\ l.messages = turn[t].messages /\ l.calls = turn[t].calls
        /\ l.outbox = turn[t].outbox /\ l.channel = turn[t].channel /\ l.sent = turn[t].sent
        /\ l.saving = turn[t].saving /\ l.touching = turn[t].touching
        /\ l.lost = turn[t].lost /\ l.unnamed = turn[t].unnamed
        /\ l.iteration = turn[t].iteration /\ l.chat = chat
        /\ l.text = turn[t].text /\ l.connected = turn[t].connected
    BY <1>1 DEF Locals
  <2> HIDE DEF l
  <2>5. Others(t) /\ turn'[t] = l
    BY <1>1, <2>2, <2>3, GotoOthers
  <2>6. turn[t].pc = "new" /\ turn[t].outbox = <<>> /\ pc = "entered" /\ chat = FALSE /\ "new" \in Setup
    BY <1>2 DEF At, pc, chat, Setup
  <2> QED
    BY <1>2, <2>4, <2>5, <2>6, Zenon DEF SettingUp
<1> QED
  BY <1>3, <1>4

LEMMA InputTyped ==
  ASSUME NEW t \in Turn, NEW role \in Role, NEW text \in Text \cup {NoText}
  PROVE  InputRow(t, role, text) \in Rows /\ InputRow(t, role, text).turn = t
         /\ InputRow(t, role, text).type = role /\ InputRow(t, role, text).text = text
         /\ InputRow(t, role, text).call = NoCall
BY ChatAssumption DEF InputRow, Rows, NoCall, Call

LEMMA AskSetsUp ==
  ASSUME TypeInv, NEW t \in Turn, Ask(t)
  PROVE  /\ SettingUp(t) /\ UNCHANGED <<session, last>> /\ turn[t].pc = "entered"
         /\ turn'[t].chat = turn[t].chat /\ turn'[t].role = turn[t].role
         /\ turn'[t].messages = turn[t].messages
         /\ \/ ~open /\ turn'[t].pc = "refused" /\ turn'[t].text = turn[t].text /\ log' = log
            \/ open /\ turn'[t].pc = "inserted" /\ log' = Append(log, Input(t)')
<1>1. turn[t] \in Locals /\ turn \in [Turn -> Locals]
  BY DEF TypeInv
<1>2. At(t, "entered") /\ UNCHANGED <<session, last>>
  BY DEF Ask
<1>3. PICK text \in Text :
       \/ /\ open
          /\ log' = Append(log, InputRow(t, turn[t].role, text))
          /\ Goto(t, [turn[t] EXCEPT !.pc = "inserted", !.text = text])
       \/ /\ ~open
          /\ Goto(t, [turn[t] EXCEPT !.pc = "refused"])
          /\ UNCHANGED log
  BY DEF Ask
<1> DEFINE pc == IF open THEN "inserted" ELSE "refused"
           said == IF open THEN text ELSE turn[t].text
           l == [turn[t] EXCEPT !.pc = pc, !.text = said]
<1>4. pc \in PC /\ said \in Text \cup {NoText}
  BY <1>1 DEF Locals, PC
<1>5. Goto(t, l) /\ (open => log' = Append(log, InputRow(t, turn[t].role, text)))
      /\ (~open => log' = log)
  <2>1. CASE open
    BY <1>3, <2>1
  <2>2. CASE ~open
    <3>1. [turn[t] EXCEPT !.pc = "refused"] = [turn[t] EXCEPT !.pc = "refused", !.text = turn[t].text]
      BY <1>1 DEF Locals
    <3> QED
      BY <1>3, <2>2, <3>1
  <2> QED
    BY <2>1, <2>2
<1> HIDE DEF pc, said
<1>6. l \in Locals
  BY <1>1, <1>4 DEF Locals
<1>7. /\ l.pc = pc /\ l.messages = turn[t].messages /\ l.calls = turn[t].calls
      /\ l.outbox = turn[t].outbox /\ l.channel = turn[t].channel /\ l.sent = turn[t].sent
      /\ l.saving = turn[t].saving /\ l.touching = turn[t].touching
      /\ l.lost = turn[t].lost /\ l.unnamed = turn[t].unnamed
      /\ l.iteration = turn[t].iteration /\ l.chat = turn[t].chat /\ l.role = turn[t].role
      /\ l.text = said /\ l.connected = turn[t].connected
  BY <1>1 DEF Locals
<1> HIDE DEF l
<1>8. Others(t) /\ turn'[t] = l
  BY <1>1, <1>5, <1>6, GotoOthers
<1>9. SettingUp(t) /\ turn[t].pc = "entered"
  BY <1>2, <1>7, <1>8 DEF SettingUp, At, Setup
<1>10. Input(t)' = InputRow(t, turn[t].role, said)
  BY <1>7, <1>8 DEF Input
<1>11. turn'[t].pc = pc /\ turn'[t].text = said /\ turn'[t].chat = turn[t].chat
       /\ turn'[t].role = turn[t].role /\ turn'[t].messages = turn[t].messages
  BY <1>7, <1>8
<1> QED
  BY <1>2, <1>5, <1>9, <1>10, <1>11, Zenon DEF pc, said

LEMMA NameInputSetsUp ==
  ASSUME TypeInv, NEW t \in Turn, NameInput(t)
  PROVE  /\ SettingUp(t) /\ UNCHANGED <<session, log>> /\ turn[t].pc = "inserted"
         /\ turn'[t].chat = turn[t].chat /\ turn'[t].role = turn[t].role
         /\ turn'[t].text = turn[t].text /\ turn'[t].messages = turn[t].messages
         /\ turn'[t].pc = IF turn[t].chat THEN "asked" ELSE "noted"
         /\ last' = last \/ (open /\ last' = Input(t))
<1>1. turn[t] \in Locals /\ turn \in [Turn -> Locals]
  BY DEF TypeInv
<1>2. At(t, "inserted") /\ UNCHANGED <<session, log>>
  BY DEF NameInput
<1>3. PICK done \in BOOLEAN :
       /\ Named(Input(t), done)
       /\ Goto(t, [turn[t] EXCEPT !.pc = IF turn[t].chat THEN "asked" ELSE "noted",
                                  !.unnamed = Unnamed(t, Input(t), done)])
  BY DEF NameInput
<1> DEFINE pc == IF turn[t].chat THEN "asked" ELSE "noted"
           unnamed == Unnamed(t, Input(t), done)
           l == [turn[t] EXCEPT !.pc = pc, !.unnamed = unnamed]
<1>4. Goto(t, l) /\ pc \in PC
  BY <1>3 DEF PC
<1>5. unnamed \in SUBSET Rows /\ turn[t].unnamed \subseteq unnamed
  <2>1. Input(t) \in Rows
    BY <1>1, InputTyped DEF Locals, Input
  <2> QED
    BY <1>1, <2>1 DEF Locals, Unnamed
<1> HIDE DEF pc, unnamed
<1>6. l \in Locals
  BY <1>1, <1>4, <1>5 DEF Locals
<1>7. /\ l.pc = pc /\ l.messages = turn[t].messages /\ l.calls = turn[t].calls
      /\ l.outbox = turn[t].outbox /\ l.channel = turn[t].channel /\ l.sent = turn[t].sent
      /\ l.saving = turn[t].saving /\ l.touching = turn[t].touching /\ l.lost = turn[t].lost
      /\ l.unnamed = unnamed
      /\ l.iteration = turn[t].iteration /\ l.chat = turn[t].chat /\ l.role = turn[t].role
      /\ l.text = turn[t].text /\ l.connected = turn[t].connected
  BY <1>1 DEF Locals
<1> HIDE DEF l
<1>8. Others(t) /\ turn'[t] = l
  BY <1>1, <1>4, <1>6, GotoOthers
<1>9. SettingUp(t) /\ turn[t].pc = "inserted"
  BY <1>2, <1>5, <1>7, <1>8 DEF SettingUp, At, Setup
<1> QED
  BY <1>2, <1>3, <1>7, <1>8, <1>9, Zenon DEF pc, Named

LEMMA FailSetsUp ==
  ASSUME TypeInv, NEW t \in Turn, FailRequest(t)
  PROVE  /\ SettingUp(t) /\ UNCHANGED <<session, last, log>>
         /\ turn[t].pc \in {"new", "entered", "asked"} /\ turn'[t].pc = "refused"
         /\ turn[t].pc = "new" => session = "none"
         /\ turn'[t].chat = turn[t].chat /\ turn'[t].role = turn[t].role
         /\ turn'[t].text = turn[t].text /\ turn'[t].messages = turn[t].messages
<1>1. turn[t] \in Locals /\ turn \in [Turn -> Locals]
  BY DEF TypeInv
<1>2. /\ At(t, "entered") \/ At(t, "asked") \/ (At(t, "new") /\ session = "none")
      /\ UNCHANGED <<session, last, log>>
  BY DEF FailRequest
<1> DEFINE pc == "refused"
           l == [turn[t] EXCEPT !.pc = pc]
<1>3. Goto(t, l) /\ pc \in PC
  BY DEF FailRequest, PC
<1> HIDE DEF pc
<1>4. l \in Locals
  BY <1>1, <1>3 DEF Locals
<1> HIDE DEF l
<1>5. Others(t) /\ turn'[t] = l
  BY <1>1, <1>3, <1>4, GotoOthers
<1> QED
  BY <1>1, <1>2, <1>5 DEF SettingUp, At, Setup, l, pc, Locals

LEMMA MessageOfTyped ==
  ASSUME NEW r \in Rows
  PROVE  /\ MessageOf(r) \in Messages
         /\ MessageOf(r).turn = r.turn /\ MessageOf(r).role = RoleOf(r.type)
         /\ MessageOf(r).text = r.text
<1> DEFINE calls == IF r.call[2] = 0 THEN {} ELSE {r.call}
           role == RoleOf(r.type)
<1>1. calls \in SUBSET Call /\ role \in {"user", "system", "assistant", "tool"}
  BY DEF Rows, RoleOf, Role
<1>2. MessageOf(r) = Message(r.turn, role, calls, r.text)
  BY Zenon DEF MessageOf
<1> HIDE DEF calls, role
<1>3. Message(r.turn, role, calls, r.text) \in Messages
  BY <1>1 DEF Rows, Message, Messages
<1> QED
  BY <1>2, <1>3 DEF Message, role

\* What get_session_messages reads back is a suffix of the rows, as messages.
LEMMA HistoryRead ==
  ASSUME log \in Seq(Rows)
  PROVE  /\ History \in Seq(Messages) /\ Len(History) <= Len(log)
         /\ \A i \in 1 .. Len(History) : History[i] = MessageOf(log[Len(log) - Len(History) + i])
<1> DEFINE skipped == IF Len(log) > Window THEN Len(log) - Window ELSE 0
<1>1. skipped \in 0 .. Len(log)
  BY ChatAssumption
<1>2. History = [i \in 1 .. Len(log) - skipped |-> MessageOf(log[skipped + i])]
  BY DEF History
<1> HIDE DEF skipped
<1>3. \A i \in 1 .. Len(log) - skipped : log[skipped + i] \in Rows
  BY <1>1
<1>4. \A i \in 1 .. Len(log) - skipped : MessageOf(log[skipped + i]) \in Messages
  BY <1>3, MessageOfTyped
<1> DEFINE n == Len(log) - skipped
<1>5. n \in Nat
  BY <1>1
<1> HIDE DEF n
<1>6. History \in Seq(Messages) /\ Len(History) = n
  <2>1. History = [i \in 1 .. n |-> MessageOf(log[skipped + i])]
    BY <1>2 DEF n
  <2>2. \A i \in 1 .. n : MessageOf(log[skipped + i]) \in Messages
    BY <1>4 DEF n
  <2> QED
    BY <1>5, <2>1, <2>2
<1> QED
  BY <1>1, <1>2, <1>6 DEF n

\* Of the history, the last message goes if it is the input, and no other.
LEMMA InputTaken ==
  ASSUME NEW h \in Seq(Messages), NEW text
  PROVE  LET w == WithoutInput(h, text) IN
         /\ w \in Seq(Messages) /\ Len(w) <= Len(h)
         /\ \A i \in 1 .. Len(w) : w[i] = h[i]
         /\ \A i \in 1 .. Len(w) : i = Len(h) => ~(h[i].role = "user" /\ h[i].text = text)
<1> DEFINE w == WithoutInput(h, text)
<1>1. CASE h # <<>> /\ Last(h).role = "user" /\ Last(h).text = text
  <2>1. w = SubSeq(h, 1, Len(h) - 1)
    BY <1>1 DEF WithoutInput, Front
  <2>2. Len(h) - 1 \in Nat
    BY <1>1
  <2> HIDE DEF w
  <2>3. w \in Seq(Messages) /\ Len(w) = Len(h) - 1 /\ \A i \in 1 .. Len(h) - 1 : w[i] = h[i]
    <3> DEFINE n == Len(h) - 1
    <3>1. \A i \in 1 .. n : h[i] \in Messages
      BY <2>2
    <3>2. w = [i \in 1 .. n |-> h[i]]
      BY <2>1, <2>2
    <3> HIDE DEF n
    <3>3. n \in Nat
      BY <2>2 DEF n
    <3>4. w \in Seq(Messages) /\ Len(w) = n /\ \A i \in 1 .. n : w[i] = h[i]
      BY <3>1, <3>2, <3>3
    <3> QED
      BY <3>4 DEF n
  <2>4. \A i \in 1 .. Len(w) : i # Len(h)
    BY <2>3, <2>2
  <2> QED
    BY <2>2, <2>3, <2>4 DEF w
<1>2. CASE ~(h # <<>> /\ Last(h).role = "user" /\ Last(h).text = text)
  <2>1. w = h
    BY <1>2 DEF WithoutInput
  <2>2. \A i \in 1 .. Len(h) : i = Len(h) => ~(h[i].role = "user" /\ h[i].text = text)
    BY <1>2 DEF Last
  <2> QED
    BY <2>1, <2>2
<1> QED
  BY <1>1, <1>2

LEMMA PromptedFirst ==
  ASSUME NEW t \in Turn, NEW h \in Seq(Messages)
  PROVE  LET p == Prompted(t, h) IN
         /\ p \in Seq(Messages)
         /\ \A i \in 1 .. Len(p) : p[i] = Message(t, "system", {}, NoText)
                                   \/ \E k \in 1 .. Len(h) : p[i] = h[k]
<1> DEFINE m == Message(t, "system", {}, NoText)
           p == Prompted(t, h)
<1>1. CASE h # <<>> /\ Head(h).role = "system"
  <2>1. p = h
    BY <1>1 DEF Prompted
  <2> QED
    BY <2>1
<1>2. CASE ~(h # <<>> /\ Head(h).role = "system")
  <2>1. p = <<m>> \o h
    BY <1>2 DEF Prompted
  <2>2. m \in Messages
    BY DEF Message, Messages
  <2> HIDE DEF m, p
  <2>3. p \in Seq(Messages) /\ Len(p) = Len(h) + 1 /\ p[1] = m
        /\ \A i \in 2 .. Len(p) : i - 1 \in 1 .. Len(h) /\ p[i] = h[i - 1]
    BY <2>1, <2>2
  <2>4. \A i \in 1 .. Len(p) : p[i] = m \/ \E k \in 1 .. Len(h) : p[i] = h[k]
    BY <2>3
  <2> QED
    BY <2>3, <2>4 DEF m, p
<1> QED
  BY <1>1, <1>2

\* The context of a turn: the prompt and rows of the session, the last of which is
\* not the input, and the input behind.
Context(t, p) ==
  /\ p \in Seq(Messages)
  /\ \A i \in 1 .. Len(p) :
       \/ p[i] = Message(t, "system", {}, NoText)
       \/ \E k \in 1 .. Len(log) :
            /\ p[i] = MessageOf(log[k])
            /\ k = Len(log) => ~(MessageOf(log[k]).role = "user"
                                 /\ MessageOf(log[k]).text = turn[t].text)

LEMMA ContextRead ==
  ASSUME TypeInv, NEW t \in Turn
  PROVE  Context(t, Prompted(t, WithoutInput(History, turn[t].text)))
<1> DEFINE h == History
           text == turn[t].text
           w == WithoutInput(h, text)
           p == Prompted(t, w)
<1>1. log \in Seq(Rows)
  BY DEF TypeInv, SessionOK
<1>2. /\ h \in Seq(Messages) /\ Len(h) <= Len(log)
      /\ \A i \in 1 .. Len(h) : h[i] = MessageOf(log[Len(log) - Len(h) + i])
  BY <1>1, HistoryRead
<1> HIDE DEF h, text
<1>3. /\ w \in Seq(Messages) /\ Len(w) <= Len(h)
      /\ \A i \in 1 .. Len(w) : w[i] = h[i]
      /\ \A i \in 1 .. Len(w) : i = Len(h) => ~(h[i].role = "user" /\ h[i].text = text)
  BY <1>2, InputTaken
<1> HIDE DEF w
<1>4. /\ p \in Seq(Messages)
      /\ \A i \in 1 .. Len(p) : p[i] = Message(t, "system", {}, NoText)
                                \/ \E k \in 1 .. Len(w) : p[i] = w[k]
  BY <1>3, PromptedFirst
<1> HIDE DEF p
<1>5. ASSUME NEW j \in 1 .. Len(w)
      PROVE  \E k \in 1 .. Len(log) :
               /\ w[j] = MessageOf(log[k])
               /\ k = Len(log) => ~(MessageOf(log[k]).role = "user" /\ MessageOf(log[k]).text = text)
  <2> DEFINE k == Len(log) - Len(h) + j
  <2>1. k \in 1 .. Len(log) /\ (k = Len(log) => j = Len(h)) /\ j \in 1 .. Len(h)
    BY <1>1, <1>2, <1>3
  <2>2. w[j] = MessageOf(log[k]) /\ h[j] = MessageOf(log[k])
    BY <1>2, <1>3, <2>1
  <2> HIDE DEF k
  <2> QED
    BY <1>3, <2>1, <2>2
<1>6. Context(t, p)
  BY <1>4, <1>5, Zenon DEF Context, text
<1> QED
  BY <1>6 DEF p, w, h, text

LEMMA StartSetsUp ==
  ASSUME TypeInv, NEW t \in Turn, Start(t)
  PROVE  /\ SettingUp(t) /\ UNCHANGED <<session, last, log>> /\ turn[t].pc = "asked"
         /\ turn'[t].pc = "loop"
         /\ turn'[t].chat = turn[t].chat /\ turn'[t].role = turn[t].role
         /\ turn'[t].text = turn[t].text
         /\ \E p : /\ Context(t, p)
                   /\ turn'[t].messages = Append(p, Message(t, "user", {}, turn[t].text))
<1>1. turn[t] \in Locals /\ turn \in [Turn -> Locals]
  BY DEF TypeInv
<1>2. At(t, "asked") /\ UNCHANGED <<session, last, log>>
  BY DEF Start
<1> DEFINE pc == "loop"
           p == Prompted(t, WithoutInput(History, turn[t].text))
           m == Message(t, "user", {}, turn[t].text)
           messages == Append(p, m)
           l == [turn[t] EXCEPT !.pc = pc, !.messages = messages]
<1>3. Goto(t, l) /\ pc \in PC
  BY DEF Start, PC
<1>4. Context(t, p)
  BY ContextRead
<1>5. messages \in Seq(Messages)
  <2>1. m \in Messages
    BY <1>1 DEF Message, Messages, Locals
  <2> HIDE DEF m, p
  <2> QED
    BY <1>4, <2>1 DEF Context
<1> HIDE DEF pc, messages
<1>6. l \in Locals
  BY <1>1, <1>3, <1>5 DEF Locals
<1>7. /\ l.pc = pc /\ l.messages = messages /\ l.calls = turn[t].calls
      /\ l.outbox = turn[t].outbox /\ l.channel = turn[t].channel /\ l.sent = turn[t].sent
      /\ l.saving = turn[t].saving /\ l.touching = turn[t].touching
      /\ l.lost = turn[t].lost /\ l.unnamed = turn[t].unnamed
      /\ l.iteration = turn[t].iteration /\ l.chat = turn[t].chat /\ l.role = turn[t].role
      /\ l.text = turn[t].text /\ l.connected = turn[t].connected
  BY <1>1 DEF Locals
<1> HIDE DEF l
<1>8. Others(t) /\ turn'[t] = l
  BY <1>1, <1>3, <1>6, GotoOthers
<1>9. SettingUp(t)
  BY <1>2, <1>7, <1>8 DEF SettingUp, At, Setup
<1> QED
  BY <1>2, <1>4, <1>7, <1>8, <1>9, Zenon DEF pc, messages, p, m, At

-----------------------------------------------------------------------------
(* The types. *)

\* The steps of one turn, in the classes the proofs go through.
TaskStep(t) == Loop(t) \/ Complete(t) \/ CallTool(t) \/ Execute(t)
SetupStep(t) ==
  EnterChat(t) \/ EnterNote(t) \/ Ask(t) \/ FailRequest(t) \/ NameInput(t) \/ Start(t)

LEMMA StepCases ==
  ASSUME [Next]_vars
  PROVE  \/ UNCHANGED vars
         \/ DeleteSession
         \/ \E t \in Turn : TaskStep(t) \/ SetupStep(t) \/ Send(t) \/ Poll(t) \/ Insert(t)
                            \/ NameAnswer(t) \/ HangUp(t)
BY DEF Next, Serve, Task, Request, Stream, TaskStep, SetupStep

LEMMA TaskStepWorks ==
  ASSUME TypeInv, NEW t \in Turn, TaskStep(t)
  PROVE  /\ Working(t)
         /\ turn'[t].pc = "execute" => turn'[t].calls # <<>>
         /\ turn'[t].pc \in {"provider", "tools", "execute"} => turn'[t].iteration # 0
<1>1. turn[t].iteration \in Nat
  BY ChatAssumption DEF TypeInv, Locals
<1>2. turn[t].pc \in {"provider", "tools", "execute"} => turn[t].iteration # 0
  BY DEF TypeInv
<1>3. CASE Loop(t)
  <2>1. /\ Working(t)
        /\ turn'[t].pc = "end" \/ (turn'[t].pc = "provider" /\ turn'[t].iteration = turn[t].iteration + 1)
    BY <1>3, LoopWorks
  <2> QED
    BY <1>1, <2>1
<1>4. CASE Complete(t)
  <2>1. /\ Working(t) /\ turn[t].pc = "provider" /\ turn'[t].iteration = turn[t].iteration
        /\ turn'[t].pc \in {"end", "tools"}
    BY <1>4, CompleteWorks
  <2> QED
    BY <1>2, <2>1
<1>5. CASE CallTool(t)
  BY <1>2, <1>5, CallToolWorks
<1>6. CASE Execute(t)
  BY <1>2, <1>6, ExecuteWorks
<1> QED
  BY <1>3, <1>4, <1>5, <1>6 DEF TaskStep

LEMMA SetupStepSetsUp ==
  ASSUME TypeInv, NEW t \in Turn, SetupStep(t)
  PROVE  SettingUp(t) /\ turn'[t].pc \in Setup \cup {"loop"} /\ SessionOK'
<1>1. turn[t] \in Locals /\ SessionOK
  BY DEF TypeInv
<1>2. CASE EnterChat(t) \/ EnterNote(t)
  BY <1>1, <1>2, EnterSetsUp DEF SessionOK, Setup
<1>3. CASE Ask(t)
  <2>1. SettingUp(t) /\ turn'[t].pc \in Setup /\ UNCHANGED <<session, last>>
        /\ (log' = log \/ log' = Append(log, Input(t)'))
    BY <1>3, AskSetsUp DEF Setup
  <2>2. turn'[t] \in Locals
    BY <2>1 DEF SettingUp, Others
  <2>3. Input(t)' = InputRow(t, turn'[t].role, turn'[t].text)
    BY DEF Input
  <2>4. Input(t)' \in Rows
    BY <2>2, <2>3, InputTyped DEF Locals
  <2>5. log' \in Seq(Rows)
    BY <1>1, <2>1, <2>4 DEF SessionOK
  <2> QED
    BY <1>1, <2>1, <2>5 DEF SessionOK
<1>4. CASE NameInput(t)
  <2>1. SettingUp(t) /\ turn'[t].pc \in Setup /\ UNCHANGED <<session, log>>
        /\ (last' = last \/ last' = Input(t))
    BY <1>4, NameInputSetsUp DEF Setup
  <2>2. Input(t) \in Rows
    BY <1>1, InputTyped DEF Locals, Input
  <2> QED
    BY <1>1, <2>1, <2>2 DEF SessionOK
<1>5. CASE Start(t)
  BY <1>1, <1>5, StartSetsUp DEF SessionOK
<1>6. CASE FailRequest(t)
  BY <1>1, <1>6, FailSetsUp DEF SessionOK, Setup
<1> QED
  BY <1>2, <1>3, <1>4, <1>5, <1>6 DEF SetupStep

\* Every step but of another turn leaves a turn's channel within its capacity.
LEMMA TypeStep ==
  ASSUME TypeInv, [Next]_vars
  PROVE  TypeInv'
<1> DEFINE Bounded(u) == Len(turn[u].channel) <= Capacity
                         /\ (turn[u].pc = "execute" => turn[u].calls # <<>>)
                         /\ (turn[u].pc \in {"provider", "tools", "execute"} => turn[u].iteration # 0)
<1>1. SessionOK /\ turn \in [Turn -> Locals] /\ \A u \in Turn : Bounded(u)
  BY DEF TypeInv
<1>2. ASSUME NEW t \in Turn, Others(t), Bounded(t)', SessionOK'
      PROVE  TypeInv'
  <2>1. \A u \in Turn : Bounded(u)'
    BY <1>1, <1>2 DEF Others
  <2> QED
    BY <1>2, <2>1 DEF TypeInv, Others
<1>3. ASSUME NEW t \in Turn, TaskStep(t)
      PROVE  TypeInv'
  <2>1. /\ Working(t)
        /\ turn'[t].pc = "execute" => turn'[t].calls # <<>>
        /\ turn'[t].pc \in {"provider", "tools", "execute"} => turn'[t].iteration # 0
    BY <1>3, TaskStepWorks
  <2>2. Others(t) /\ Bounded(t)'
    BY <1>1, <2>1 DEF Working
  <2>3. SessionOK'
    BY <1>1, <2>1 DEF Working, SessionOK
  <2> QED
    BY <1>2, <2>2, <2>3
<1>4. ASSUME NEW t \in Turn, SetupStep(t)
      PROVE  TypeInv'
  <2>1. SettingUp(t) /\ turn'[t].pc \in Setup \cup {"loop"} /\ SessionOK'
    BY <1>4, SetupStepSetsUp
  <2>2. Others(t) /\ Bounded(t)'
    BY <1>1, <2>1 DEF SettingUp, Setup
  <2> QED
    BY <1>2, <2>1, <2>2
<1>5. ASSUME NEW t \in Turn, Send(t)
      PROVE  TypeInv'
  <2>1. Keeps(t) /\ UNCHANGED <<session, last, log>> /\ Len(turn'[t].channel) <= Capacity
    BY <1>5, SendKeeps
  <2>2. Others(t) /\ Bounded(t)' /\ SessionOK'
    BY <1>1, <2>1 DEF Keeps, SessionOK
  <2> QED
    BY <1>2, <2>2
<1>6. ASSUME NEW t \in Turn, Poll(t)
      PROVE  TypeInv'
  <2>1. Keeps(t) /\ UNCHANGED <<session, last, log>> /\ turn[t].channel # <<>>
        /\ turn'[t].channel = Tail(turn[t].channel)
    BY <1>6, PollKeeps
  <2>2. Len(turn'[t].channel) <= Capacity
    BY <1>1, <2>1, ChatAssumption DEF Locals
  <2>3. Others(t) /\ Bounded(t)' /\ SessionOK'
    BY <1>1, <2>1, <2>2 DEF Keeps, SessionOK
  <2> QED
    BY <1>2, <2>3
<1>7. ASSUME NEW t \in Turn, Insert(t)
      PROVE  TypeInv'
  <2>1. PICK r \in turn[t].saving : log' = Append(log, r) \/ log' = log
    BY <1>7, InsertKeeps
  <2>2. Keeps(t) /\ UNCHANGED <<session, last>> /\ turn'[t].channel = turn[t].channel
    BY <1>7, InsertKeeps
  <2>3. r \in Rows
    BY <1>1 DEF Locals
  <2>4. SessionOK'
    BY <1>1, <2>1, <2>2, <2>3 DEF SessionOK
  <2>5. Others(t) /\ Bounded(t)'
    BY <1>1, <2>2 DEF Keeps
  <2> QED
    BY <1>2, <2>4, <2>5
<1>8. ASSUME NEW t \in Turn, NameAnswer(t)
      PROVE  TypeInv'
  <2>1. PICK r \in turn[t].touching : last' = r \/ last' = last
    BY <1>8, NameAnswerKeeps
  <2>2. Keeps(t) /\ UNCHANGED <<session, log>> /\ turn'[t].channel = turn[t].channel
    BY <1>8, NameAnswerKeeps
  <2>3. r \in Rows
    BY <1>1 DEF Locals
  <2>4. SessionOK'
    BY <1>1, <2>1, <2>2, <2>3 DEF SessionOK
  <2>5. Others(t) /\ Bounded(t)'
    BY <1>1, <2>2 DEF Keeps
  <2> QED
    BY <1>2, <2>4, <2>5
<1>9. ASSUME NEW t \in Turn, HangUp(t)
      PROVE  TypeInv'
  <2>1. /\ Others(t) /\ UNCHANGED <<session, last, log>> /\ turn'[t].channel = <<>>
        /\ turn'[t].pc = IF turn[t].pc \in {"entered", "inserted", "asked"} THEN "refused"
                         ELSE turn[t].pc
        /\ turn'[t].calls = turn[t].calls /\ turn'[t].iteration = turn[t].iteration
    BY <1>9, HangUpLeaves
  <2>2. Bounded(t)' /\ SessionOK'
    BY <1>1, <2>1, ChatAssumption DEF SessionOK
  <2> QED
    BY <1>2, <2>1, <2>2
<1>10. CASE DeleteSession
  <2>1. session' = "deleted" /\ last' = NoRow /\ log' = <<>> /\ turn' = turn
    BY <1>10 DEF DeleteSession
  <2>2. SessionOK'
    BY <2>1 DEF SessionOK
  <2> QED
    BY <1>1, <2>1, <2>2 DEF TypeInv
<1>11. CASE UNCHANGED vars
  BY <1>1, <1>11 DEF TypeInv, SessionOK, vars
<1> QED
  BY StepCases, <1>3, <1>4, <1>5, <1>6, <1>7, <1>8, <1>9, <1>10, <1>11

LEMMA FreshTyped == Fresh \in Locals
<1> DEFINE chat == TRUE
           connected == TRUE
<1>1. 0 \in 0 .. MaxIterations /\ chat \in BOOLEAN /\ connected \in BOOLEAN
  BY ChatAssumption
<1>2. Fresh = [pc |-> "new", chat |-> chat, role |-> "user", text |-> NoText, messages |-> <<>>,
               iteration |-> 0, calls |-> <<>>, outbox |-> <<>>, channel |-> <<>>,
               connected |-> connected, sent |-> <<>>, saving |-> {}, touching |-> {},
               lost |-> {}, unnamed |-> {}]
  BY DEF Fresh
<1> HIDE DEF chat, connected
<1> QED
  BY <1>1, <1>2 DEF Locals, PC, Role

LEMMA TypeInit ==
  ASSUME Init PROVE TypeInv
<1>1. \A t \in Turn : turn[t] = Fresh
  BY DEF Init
<1>2. \A t \in Turn : Len(turn[t].channel) <= Capacity /\ turn[t].pc = "new"
  BY <1>1, ChatAssumption DEF Fresh
<1>3. turn \in [Turn -> Locals]
  BY FreshTyped DEF Init
<1> QED
  BY <1>2, <1>3 DEF Init, TypeInv, SessionOK

\* ChatTypes: the session and the locals of its turns keep their types, the channel
\* its capacity and a turn its number of provider calls.
THEOREM ChatTypes == Spec => []TypeOK
<1>1. Init => TypeInv
  BY TypeInit
<1>2. TypeInv /\ [Next]_vars => TypeInv'
  BY TypeStep
<1>3. TypeInv => TypeOK
  <2> SUFFICES ASSUME TypeInv PROVE TypeOK
    OBVIOUS
  <2>1. SessionOK /\ \A t \in Turn : turn[t] \in Locals /\ Len(turn[t].channel) <= Capacity
    BY DEF TypeInv
  <2> QED
    BY <2>1 DEF TypeOK, SessionOK, Locals
<1> QED
  BY <1>1, <1>2, <1>3, PTL DEF Spec

-----------------------------------------------------------------------------
(* Before a turn's task starts. *)

LEMMA SetupInit ==
  ASSUME Init PROVE SetupInv
<1>1. \A t \in Turn : turn[t] = Fresh
  BY DEF Init
<1> QED
  BY <1>1 DEF Init, SetupInv, Ready, Fresh, Setup, PC

LEMMA SetupStepKept ==
  ASSUME TypeInv, SetupInv, [Next]_vars
  PROVE  SetupInv'
<1>1. turn \in [Turn -> Locals] /\ SessionOK
  BY DEF TypeInv
<1>2. (~open => log = <<>>) /\ \A u \in Turn : Ready(u)
  BY DEF SetupInv
<1>3. ASSUME NEW t \in Turn, Others(t), Ready(t)',
             session # "none" => session' # "none",
             ~open' => log' = <<>>
      PROVE  SetupInv'
  <2>1. \A u \in Turn : Ready(u)'
    BY <1>2, <1>3 DEF Others, Ready
  <2> QED
    BY <1>3, <2>1 DEF SetupInv
<1>4. ASSUME NEW t \in Turn, TaskStep(t)
      PROVE  SetupInv'
  <2>1. Working(t)
    BY <1>4, TaskStepWorks
  <2>2. turn'[t].pc \in PC \ Setup /\ turn[t].pc \in PC \ Setup
    BY <1>1, <2>1 DEF Working, Others, Locals
  <2>3. Ready(t)'
    BY <1>2, <2>1, <2>2 DEF Ready, Working, Setup
  <2> QED
    BY <1>2, <1>3, <2>1, <2>3 DEF Working, open
<1>5. ASSUME NEW t \in Turn, EnterChat(t) \/ EnterNote(t)
      PROVE  SetupInv'
  <2>1. /\ SettingUp(t) /\ UNCHANGED <<last, log>>
        /\ turn[t].pc = "new" /\ turn'[t].pc = "entered"
        /\ \/ session # "none" /\ session' = session
           \/ session = "none" /\ session' = "open"
        /\ \/ turn'[t].chat = turn[t].chat /\ turn'[t].role = turn[t].role
           \/ turn'[t].chat = FALSE
    BY <1>5, EnterSetsUp
  <2>2. Ready(t)'
    BY <1>2, <2>1 DEF Ready, SettingUp, Setup
  <2> QED
    BY <1>2, <1>3, <2>1, <2>2 DEF SettingUp, open
<1>6. ASSUME NEW t \in Turn, Ask(t)
      PROVE  SetupInv'
  <2>1. /\ SettingUp(t) /\ UNCHANGED <<session, last>> /\ turn[t].pc = "entered"
        /\ turn'[t].chat = turn[t].chat /\ turn'[t].role = turn[t].role
        /\ turn'[t].pc \in {"refused", "inserted"} /\ (~open => log' = log)
    BY <1>6, AskSetsUp
  <2>2. Ready(t)'
    BY <1>2, <2>1 DEF Ready, SettingUp, Setup
  <2> QED
    BY <1>2, <1>3, <2>1, <2>2 DEF SettingUp, open
<1>7. ASSUME NEW t \in Turn, NameInput(t)
      PROVE  SetupInv'
  <2>1. /\ SettingUp(t) /\ UNCHANGED <<session, log>> /\ turn[t].pc = "inserted"
        /\ turn'[t].chat = turn[t].chat /\ turn'[t].role = turn[t].role
        /\ turn'[t].pc = IF turn[t].chat THEN "asked" ELSE "noted"
    BY <1>7, NameInputSetsUp
  <2>2. Ready(t)'
    BY <1>2, <2>1 DEF Ready, SettingUp, Setup
  <2> QED
    BY <1>2, <1>3, <2>1, <2>2 DEF SettingUp, open
<1>8. ASSUME NEW t \in Turn, Start(t)
      PROVE  SetupInv'
  <2>1. /\ SettingUp(t) /\ UNCHANGED <<session, last, log>> /\ turn[t].pc = "asked"
        /\ turn'[t].chat = turn[t].chat /\ turn'[t].role = turn[t].role /\ turn'[t].pc = "loop"
    BY <1>8, StartSetsUp
  <2>2. Ready(t)'
    BY <1>2, <2>1 DEF Ready, SettingUp, Setup
  <2> QED
    BY <1>2, <1>3, <2>1, <2>2 DEF SettingUp, open
<1>13. ASSUME NEW t \in Turn, FailRequest(t)
      PROVE  SetupInv'
  <2>1. /\ SettingUp(t) /\ UNCHANGED <<session, last, log>> /\ turn'[t].pc = "refused"
        /\ turn'[t].chat = turn[t].chat /\ turn'[t].role = turn[t].role
    BY <1>13, FailSetsUp
  <2>2. Ready(t)'
    BY <1>2, <2>1 DEF Ready, SettingUp, Setup
  <2> QED
    BY <1>2, <1>3, <2>1, <2>2 DEF SettingUp, open
<1>9. ASSUME NEW t \in Turn, Send(t) \/ Poll(t) \/ Insert(t) \/ NameAnswer(t)
      PROVE  SetupInv'
  <2>1. Keeps(t) /\ session' = session /\ (~open => log' = log)
    BY <1>9, SendKeeps, PollKeeps, InsertKeeps, NameAnswerKeeps
  <2>2. turn[t].pc \notin Setup
    BY <1>2, <1>9 DEF Ready, Send, Poll, Insert, NameAnswer
  <2>3. Ready(t)'
    BY <1>2, <2>1, <2>2 DEF Ready, Keeps
  <2> QED
    BY <1>2, <1>3, <2>1, <2>3 DEF Keeps, open
<1>10. ASSUME NEW t \in Turn, HangUp(t)
       PROVE  SetupInv'
  <2>1. /\ Others(t) /\ UNCHANGED <<session, last, log>> /\ turn'[t].channel = <<>>
        /\ turn[t].pc # "new"
        /\ turn'[t].pc = IF turn[t].pc \in {"entered", "inserted", "asked"} THEN "refused"
                         ELSE turn[t].pc
        /\ turn'[t].chat = turn[t].chat /\ turn'[t].role = turn[t].role
        /\ turn'[t].iteration = turn[t].iteration /\ turn'[t].calls = turn[t].calls
        /\ turn'[t].outbox = turn[t].outbox /\ turn'[t].sent = turn[t].sent
        /\ turn'[t].saving = turn[t].saving /\ turn'[t].touching = turn[t].touching
    BY <1>10, HangUpLeaves
  <2>2. Ready(t)'
    BY <1>2, <2>1 DEF Ready, Setup
  <2> QED
    BY <1>2, <1>3, <2>1, <2>2 DEF open
<1>11. CASE DeleteSession
  <2>1. session' = "deleted" /\ log' = <<>> /\ turn' = turn
    BY <1>11 DEF DeleteSession
  <2>2. \A u \in Turn : Ready(u)'
    BY <1>2, <2>1 DEF Ready
  <2> QED
    BY <2>1, <2>2 DEF SetupInv
<1>12. CASE UNCHANGED vars
  <2>1. turn' = turn /\ log' = log /\ session' = session
    BY <1>12 DEF vars
  <2>2. \A u \in Turn : Ready(u)'
    BY <1>2, <2>1 DEF Ready
  <2> QED
    BY <1>2, <2>1, <2>2 DEF SetupInv, open
<1> QED
  BY StepCases, <1>4, <1>5, <1>6, <1>7, <1>8, <1>9, <1>10, <1>11, <1>12, <1>13 DEF SetupStep

-----------------------------------------------------------------------------
(* The events of a turn. *)

LEMMA HeadMoves ==
  ASSUME NEW S, NEW s \in Seq(S), NEW c \in Seq(S), NEW o \in Seq(S)
  PROVE  /\ o # <<>> => (s \o Append(c, o[1])) \o Tail(o) = (s \o c) \o o
         /\ c # <<>> => (Append(s, c[1]) \o Tail(c)) \o o = (s \o c) \o o
<1>1. ASSUME o # <<>>
      PROVE  (s \o Append(c, o[1])) \o Tail(o) = (s \o c) \o o
  <2> DEFINE a == (s \o Append(c, o[1])) \o Tail(o)
             b == (s \o c) \o o
  <2>1. a \in Seq(S) /\ b \in Seq(S) /\ Len(a) = Len(b)
    BY <1>1
  <2>2. \A i \in 1 .. Len(b) : a[i] = b[i]
    BY <1>1
  <2> HIDE DEF a, b
  <2>3. a = b
    BY <2>1, <2>2, SeqEqual
  <2> QED
    BY <2>3 DEF a, b
<1>2. ASSUME c # <<>>
      PROVE  (Append(s, c[1]) \o Tail(c)) \o o = (s \o c) \o o
  <2> DEFINE a == (Append(s, c[1]) \o Tail(c)) \o o
             b == (s \o c) \o o
  <2>1. a \in Seq(S) /\ b \in Seq(S) /\ Len(a) = Len(b)
    BY <1>2
  <2>2. \A i \in 1 .. Len(b) : a[i] = b[i]
    BY <1>2
  <2> HIDE DEF a, b
  <2>3. a = b
    BY <2>1, <2>2, SeqEqual
  <2> QED
    BY <2>3 DEF a, b
<1> QED
  BY <1>1, <1>2

LEMMA SentFirst ==
  ASSUME NEW S, NEW s \in Seq(S), NEW c \in Seq(S), NEW o \in Seq(S)
  PROVE  /\ c # <<>> => /\ Len(s) + 1 \in 1 .. Len((s \o c) \o o)
                        /\ ((s \o c) \o o)[Len(s) + 1] = c[1]
         /\ \A i \in 1 .. Len(s) : i \in 1 .. Len((s \o c) \o o) /\ ((s \o c) \o o)[i] = s[i]
OBVIOUS

LEMMA EmittedTyped ==
  ASSUME TypeInv, NEW t \in Turn
  PROVE  Emitted(t) \in Seq(Events)
<1>1. turn[t] \in Locals
  BY DEF TypeInv
<1> QED
  BY <1>1 DEF Locals, Emitted

LEMMA WorkingEmits ==
  ASSUME TypeInv, NEW t \in Turn, Working(t)
  PROVE  /\ turn'[t].outbox = <<>> => Emitted(t)' = Emitted(t)
         /\ \A e \in Events : turn'[t].outbox = <<e>> => Emitted(t)' = Append(Emitted(t), e)
<1>1. turn[t] \in Locals
  BY DEF TypeInv
<1> DEFINE es == turn[t].sent \o turn[t].channel
<1>2. es \in Seq(Events) /\ Emitted(t) = es \o <<>> /\ Emitted(t)' = es \o turn'[t].outbox
  BY <1>1 DEF Locals, Working, Emitted
<1> HIDE DEF es
<1>3. es \o <<>> = es /\ \A e \in Events : es \o <<e>> = Append(es, e)
  BY <1>2
<1> QED
  BY <1>2, <1>3

LEMMA StreamEmits ==
  ASSUME TypeInv, NEW t \in Turn, Send(t) \/ Poll(t) \/ Insert(t) \/ NameAnswer(t)
  PROVE  turn[t].connected => Emitted(t)' = Emitted(t)
<1>1. turn[t] \in Locals
  BY DEF TypeInv
<1> DEFINE s == turn[t].sent
           c == turn[t].channel
           o == turn[t].outbox
<1>2. s \in Seq(Events) /\ c \in Seq(Events) /\ o \in Seq(Events) /\ Emitted(t) = (s \o c) \o o
      /\ Emitted(t)' = (turn'[t].sent \o turn'[t].channel) \o turn'[t].outbox
  BY <1>1 DEF Locals, Emitted
<1>3. CASE Send(t) /\ turn[t].connected
  <2>1. turn'[t].sent = s /\ turn'[t].channel = Append(c, o[1]) /\ turn'[t].outbox = Tail(o)
    BY <1>3, SendKeeps
  <2>2. o # <<>>
    BY <1>3 DEF Send
  <2>3. s \in Seq(Events) /\ c \in Seq(Events) /\ o \in Seq(Events)
    BY <1>2
  <2> HIDE DEF s, c, o
  <2>4. (s \o Append(c, o[1])) \o Tail(o) = (s \o c) \o o
    BY <2>2, <2>3, HeadMoves, SMTT(60)
  <2> QED
    BY <1>2, <2>1, <2>4
<1>4. CASE Poll(t)
  <2>1. turn'[t].sent = Append(s, c[1]) /\ turn'[t].channel = Tail(c) /\ turn'[t].outbox = o
    BY <1>4, PollKeeps
  <2>2. c # <<>>
    BY <1>4 DEF Poll
  <2>3. s \in Seq(Events) /\ c \in Seq(Events) /\ o \in Seq(Events)
    BY <1>2
  <2> HIDE DEF s, c, o
  <2>4. (Append(s, c[1]) \o Tail(c)) \o o = (s \o c) \o o
    BY <2>2, <2>3, HeadMoves, SMTT(60)
  <2> QED
    BY <1>2, <2>1, <2>4
<1>5. CASE Insert(t) \/ NameAnswer(t)
  BY <1>5, InsertKeeps, NameAnswerKeeps DEF Emitted
<1> QED
  BY <1>3, <1>4, <1>5

\* The calls in front of a task are of its iteration, and no two are the same.
LEMMA CallsNumbered ==
  ASSUME TypeInv, CallsInv, NEW t \in Turn, turn[t].pc \in {"tools", "execute"}
  PROVE  /\ \A j \in 1 .. Len(turn[t].calls) : turn[t].calls[j][1] = turn[t].iteration
         /\ \A j, k \in 1 .. Len(turn[t].calls) : turn[t].calls[j] = turn[t].calls[k] => j = k
<1>1. PICK n \in Nat : Remaining(turn[t], t, n)
  BY DEF CallsInv, CallsOK
<1>2. \A j \in 1 .. Len(turn[t].calls) :
        turn[t].calls[j] = <<turn[t].iteration, n - Len(turn[t].calls) + j>>
  BY <1>1 DEF Remaining
<1>3. Len(turn[t].calls) \in Nat
  BY DEF TypeInv, Locals
<1> DEFINE calls == turn[t].calls
           iteration == turn[t].iteration
<1> HIDE DEF calls, iteration
<1>4. Len(calls) \in Nat /\ \A j \in 1 .. Len(calls) : calls[j] = <<iteration, n - Len(calls) + j>>
  BY <1>2, <1>3 DEF calls, iteration
<1>5. \A j \in 1 .. Len(calls) : calls[j][1] = iteration /\ calls[j][2] = n - Len(calls) + j
  BY <1>4
<1>6. \A j, k \in 1 .. Len(calls) : calls[j] = calls[k] => j = k
  BY <1>4, <1>5
<1> QED
  BY <1>5, <1>6 DEF calls, iteration

\* An event that no event so far equals goes behind a tidy sequence without an end.
LEMMA EventAppended ==
  ASSUME NEW es \in Seq(Events), NEW e \in Events, NEW k, NEW l,
         Tidy(k, es), Ending(k, es), k.pc # "end",
         \A i \in 1 .. Len(es) : Behind(l, es[i]) /\ es[i] # e,
         Behind(l, e), l.pc = "end" <=> Closing(e)
  PROVE  Tidy(l, Append(es, e)) /\ Ending(l, Append(es, e))
<1>1. \A i \in 1 .. Len(es) : ~Closing(es[i])
  BY DEF Ending, Last
<1> DEFINE fs == Append(es, e)
<1>2. fs \in Seq(Events) /\ Len(fs) = Len(es) + 1 /\ fs[Len(fs)] = e
      /\ \A i \in 1 .. Len(fs) : i = Len(fs) \/ (i \in 1 .. Len(es) /\ fs[i] = es[i])
  OBVIOUS
<1> HIDE DEF fs
<1>3. fs # <<>> /\ Last(fs) = e
  BY <1>2 DEF Last
<1>4. Ending(l, fs)
  <2>1. \A i \in 1 .. Len(fs) : Closing(fs[i]) => i = Len(fs)
    BY <1>1, <1>2
  <2> QED
    BY <1>3, <2>1 DEF Ending
<1>5. Tidy(l, fs)
  <2>1. \A i \in 1 .. Len(fs) : Behind(l, fs[i])
    BY <1>2
  <2>2. \A i, j \in 1 .. Len(fs) : fs[i] = fs[j] => i = j
    BY <1>2 DEF Tidy
  <2> QED
    BY <2>1, <2>2 DEF Tidy
<1> QED
  BY <1>4, <1>5 DEF fs

LEMMA EventsInit ==
  ASSUME Init, NEW t \in Turn PROVE EventsOK(t)
<1>1. turn[t] = Fresh
  BY DEF Init
<1>2. Emitted(t) = <<>> /\ turn[t].pc = "new"
  BY <1>1 DEF Emitted, Fresh
<1> QED
  BY <1>2 DEF EventsOK, Tidy, Ending

\* What the task emits, it has not emitted before.
LEMMA TaskEvents ==
  ASSUME TypeInv, CallsInv, NEW t \in Turn, TaskStep(t), EventsOK(t)
  PROVE  EventsOK(t)'
<1> DEFINE l == turn[t]
           m == turn'[t]
           es == Emitted(t)
<1>1. Working(t)
  BY TaskStepWorks
<1>2. l \in Locals /\ m \in Locals /\ es \in Seq(Events)
  BY <1>1, EmittedTyped DEF TypeInv, Working, Others
<1>3. l.connected = m.connected
  BY <1>1 DEF Working
<1> SUFFICES ASSUME l.connected
             PROVE  Tidy(m, Emitted(t)') /\ Ending(m, Emitted(t)')
  BY <1>3 DEF EventsOK
<1>4. Tidy(l, es) /\ Ending(l, es)
  BY DEF EventsOK
<1>5. l.iteration \in Nat /\ l.calls \in Seq(Call) /\ \A i \in 1 .. Len(es) : es[i] \in Events
  <2>1. l.iteration \in 0 .. MaxIterations /\ l.calls \in Seq(Call)
    BY <1>2 DEF Locals
  <2>2. \A i \in 1 .. Len(es) : es[i] \in Events
    <3> HIDE DEF es
    <3> QED
      BY <1>2
  <2> QED
    BY <2>1, <2>2, ChatAssumption
<1>6. /\ m.outbox = <<>> => Emitted(t)' = es
      /\ \A e \in Events : m.outbox = <<e>> => Emitted(t)' = Append(es, e)
  BY <1>1, WorkingEmits
<1>7. ASSUME NEW type \in EventType, NEW call \in Call, l.pc # "end",
             m.outbox = <<Event(type, call)>>,
             \A i \in 1 .. Len(es) : Behind(m, es[i]) /\ es[i] # Event(type, call),
             Behind(m, Event(type, call)), m.pc = "end" <=> type \in {"answer", "error"}
      PROVE  Tidy(m, Emitted(t)') /\ Ending(m, Emitted(t)')
  <2> DEFINE e == Event(type, call)
  <2>1. e \in Events /\ e.type = type
    BY EventTyped
  <2>2. m.pc = "end" <=> Closing(e)
    BY <1>7, <2>1 DEF Closing
  <2> HIDE DEF e, m, l, es
  <2>3. Tidy(m, Append(es, e)) /\ Ending(m, Append(es, e))
    BY <1>2, <1>4, <1>7, <2>1, <2>2, EventAppended DEF e
  <2>4. Emitted(t)' = Append(es, e)
    BY <1>6, <1>7, <2>1 DEF e
  <2> QED
    BY <2>3, <2>4
<1>8. ASSUME l.pc # "end", m.pc # "end", m.outbox = <<>>, \A i \in 1 .. Len(es) : Behind(m, es[i])
      PROVE  Tidy(m, Emitted(t)') /\ Ending(m, Emitted(t)')
  BY <1>4, <1>6, <1>8 DEF Tidy, Ending
<1>9. \A i \in 1 .. Len(es) : Behind(l, es[i]) /\ (l.pc # "end" => ~Closing(es[i]))
  BY <1>2, <1>4 DEF Tidy, Ending, Last
<1>10. <<l.iteration, 0>> \in Call
  BY <1>2 DEF Locals, Call
<1>11. \A i \in 1 .. Len(es) : es[i].call[1] \in Nat
  <2>1. \A e \in Events : e.call[1] \in Nat
    BY ChatAssumption DEF Events, Call
  <2> QED
    BY <1>5, <2>1
<1>12. ASSUME l.pc \in {"loop", "provider"}, m.pc = "end", m.iteration = l.iteration,
              m.outbox = <<Event("error", <<l.iteration, 0>>)>>
       PROVE  Tidy(m, Emitted(t)') /\ Ending(m, Emitted(t)')
  <2> DEFINE e == Event("error", <<l.iteration, 0>>)
  <2>1. e.type = "error" /\ e.call = <<l.iteration, 0>>
    BY DEF Event
  <2>2. Behind(m, e)
    BY <1>5, <1>12, <2>1 DEF Behind
  <2>3. \A i \in 1 .. Len(es) : Behind(m, es[i]) /\ es[i] # e
    BY <1>5, <1>9, <1>11, <1>12, <2>1 DEF Behind, Closing
  <2> QED
    BY <1>7, <1>10, <1>12, <2>2, <2>3 DEF EventType
<1>13. CASE Loop(t)
  <2>1. l.pc = "loop"
    BY <1>13, LoopWorks
  <2>2. CASE m.pc = "end"
    BY <1>12, <1>13, <2>1, <2>2, LoopWorks
  <2>3. CASE m.pc # "end"
    <3>1. m.pc = "provider" /\ m.iteration = l.iteration + 1 /\ m.outbox = <<>>
      BY <1>13, <2>3, LoopWorks
    <3>2. \A i \in 1 .. Len(es) : Behind(m, es[i])
      BY <1>5, <1>9, <1>11, <2>1, <3>1 DEF Behind
    <3> QED
      BY <1>8, <2>1, <3>1, <3>2
  <2> QED
    BY <2>2, <2>3
<1>14. CASE Complete(t)
  <2>1. l.pc = "provider" /\ m.iteration = l.iteration
    BY <1>14, CompleteWorks
  <2>2. CASE m.pc = "end" /\ m.outbox = <<Event("error", <<l.iteration, 0>>)>>
    BY <1>12, <2>1, <2>2
  <2>3. ASSUME NEW content \in BOOLEAN, NEW n \in Nat,
               m.pc = IF content /\ n = 0 THEN "end" ELSE "tools",
               m.calls = [k \in 1 .. n |-> <<l.iteration, k>>],
               m.outbox = IF ~content THEN <<>>
                          ELSE <<Event(IF n = 0 THEN "answer" ELSE "thought", <<l.iteration, 0>>)>>
        PROVE  Tidy(m, Emitted(t)') /\ Ending(m, Emitted(t)')
    <3>1. Len(m.calls) = n /\ \A j \in 1 .. n : m.calls[j] = <<l.iteration, j>>
      BY <2>3
    <3>2. \A i \in 1 .. Len(es) : Behind(m, es[i]) /\ es[i].call # <<l.iteration, 0>>
      BY <1>5, <1>9, <1>11, <2>1, <2>3, <3>1 DEF Behind
    <3>3. CASE ~content
      BY <1>8, <2>1, <2>3, <3>2, <3>3
    <3>4. CASE content
      <4> DEFINE type == IF n = 0 THEN "answer" ELSE "thought"
                 e == Event(type, <<l.iteration, 0>>)
      <4>1. e.type = type /\ e.call = <<l.iteration, 0>> /\ type \in EventType
        BY DEF Event, EventType
      <4>2. Behind(m, e)
        BY <1>5, <2>1, <2>3, <4>1 DEF Behind
      <4>3. \A i \in 1 .. Len(es) : Behind(m, es[i]) /\ es[i] # e
        BY <3>2, <4>1
      <4>4. m.pc = "end" <=> type \in {"answer", "error"}
        BY <2>3, <3>4
      <4>5. m.outbox = <<e>>
        BY <2>3, <3>4
      <4> HIDE DEF type, m
      <4> QED
        BY <1>7, <1>10, <2>1, <4>1, <4>2, <4>3, <4>4, <4>5
    <3> QED
      BY <3>3, <3>4
  <2> QED
    BY <1>14, <2>2, <2>3, CompleteWorks
<1>15. CASE CallTool(t)
  <2>1. /\ l.pc = "tools" /\ m.iteration = l.iteration /\ m.calls = l.calls
        /\ \/ l.calls = <<>> /\ m.pc = "loop" /\ m.outbox = <<>>
           \/ l.calls # <<>> /\ m.pc = "execute" /\ m.outbox = <<Event("tool_call", l.calls[1])>>
    BY <1>15, CallToolWorks
  <2>2. CASE l.calls = <<>>
    <3>1. \A i \in 1 .. Len(es) : Behind(m, es[i])
      BY <1>9, <2>1, <2>2 DEF Behind
    <3> QED
      BY <1>8, <2>1, <2>2, <3>1
  <2>3. CASE l.calls # <<>>
    <3> DEFINE e == Event("tool_call", l.calls[1])
    <3>1. e.type = "tool_call" /\ e.call = l.calls[1]
      BY DEF Event
    <3>2. 1 \in 1 .. Len(l.calls) /\ l.calls[1] \in Call /\ l.calls[1][1] = l.iteration
          /\ \A j \in 2 .. Len(l.calls) : l.calls[j] # l.calls[1]
      BY <1>5, <2>1, <2>3, CallsNumbered
    <3>3. Behind(m, e)
      BY <1>5, <2>1, <2>3, <3>1, <3>2 DEF Behind
    <3>4. \A i \in 1 .. Len(es) : Behind(m, es[i]) /\ es[i] # e
      BY <1>5, <1>9, <2>1, <2>3, <3>1, <3>2 DEF Behind
    <3> QED
      BY <1>7, <2>1, <2>3, <3>2, <3>3, <3>4 DEF EventType
  <2> QED
    BY <2>2, <2>3
<1>16. CASE Execute(t)
  <2>1. /\ l.pc = "execute" /\ m.pc = "tools" /\ l.calls # <<>> /\ m.iteration = l.iteration
        /\ m.calls = Tail(l.calls) /\ m.outbox = <<Event("tool_result", l.calls[1])>>
    BY <1>16, ExecuteWorks
  <2> DEFINE e == Event("tool_result", l.calls[1])
  <2>2. e.type = "tool_result" /\ e.call = l.calls[1]
    BY DEF Event
  <2>3. 1 \in 1 .. Len(l.calls) /\ l.calls[1] \in Call /\ l.calls[1][1] = l.iteration
        /\ \A j \in 2 .. Len(l.calls) : l.calls[j] # l.calls[1]
    BY <1>5, <2>1, CallsNumbered
  <2>4. \A j \in 1 .. Len(m.calls) : j + 1 \in 2 .. Len(l.calls) /\ m.calls[j] = l.calls[j + 1]
    BY <1>5, <2>1
  <2>5. Behind(m, e)
    BY <1>5, <2>1, <2>2, <2>3, <2>4 DEF Behind
  <2>6. \A i \in 1 .. Len(es) : Behind(m, es[i]) /\ es[i] # e
    BY <1>5, <1>9, <2>1, <2>2, <2>3, <2>4 DEF Behind
  <2> QED
    BY <1>7, <2>1, <2>3, <2>5, <2>6 DEF EventType
<1> QED
  BY <1>13, <1>14, <1>15, <1>16 DEF TaskStep

\* While a turn is being set up it has emitted nothing.
LEMMA SetupSilent ==
  ASSUME TypeInv, SetupInv, NEW t \in Turn, SetupStep(t)
  PROVE  EventsOK(t)'
<1>1. SettingUp(t)
  BY SetupStepSetsUp
<1>2. turn'[t].sent = <<>> /\ turn'[t].channel = <<>> /\ turn'[t].outbox = <<>>
  BY <1>1 DEF SettingUp, SetupInv, Ready
<1>3. Emitted(t)' = <<>>
  BY <1>2 DEF Emitted
<1>4. turn'[t].pc # "end"
  BY EnterSetsUp, AskSetsUp, FailSetsUp, NameInputSetsUp, StartSetsUp DEF SetupStep
<1> QED
  BY <1>3, <1>4 DEF EventsOK, Tidy, Ending

LEMMA EventsStep ==
  ASSUME TypeInv, SetupInv, CallsInv, EventsInv, [Next]_vars
  PROVE  EventsInv'
<1> USE DEF EventsInv
<1>1. ASSUME NEW t \in Turn, Others(t), EventsOK(t)'
      PROVE  EventsInv'
  <2>1. ASSUME NEW u \in Turn, u # t PROVE EventsOK(u)'
    <3>1. turn'[u] = turn[u]
      BY <1>1, <2>1 DEF Others
    <3> QED
      BY <3>1 DEF EventsOK, Emitted
  <2> QED
    BY <1>1, <2>1
<1>2. ASSUME NEW t \in Turn, TaskStep(t) PROVE EventsInv'
  BY <1>1, <1>2, TaskEvents, TaskStepWorks DEF Working
<1>3. ASSUME NEW t \in Turn, SetupStep(t) PROVE EventsInv'
  BY <1>1, <1>3, SetupSilent, SetupStepSetsUp DEF SettingUp
<1>4. ASSUME NEW t \in Turn, Send(t) \/ Poll(t) \/ Insert(t) \/ NameAnswer(t)
      PROVE  EventsInv'
  <2>1. Keeps(t) /\ turn'[t].connected = turn[t].connected
    BY <1>4, SendKeeps, PollKeeps, InsertKeeps, NameAnswerKeeps
  <2>2. turn[t].connected => Emitted(t)' = Emitted(t)
    BY <1>4, StreamEmits
  <2>3. turn'[t].pc = turn[t].pc /\ turn'[t].iteration = turn[t].iteration
        /\ turn'[t].calls = turn[t].calls
    BY <2>1 DEF Keeps
  <2>4. \A e : Behind(turn'[t], e) <=> Behind(turn[t], e)
    BY <2>3 DEF Behind
  <2>5. \A es : /\ Tidy(turn[t], es) => Tidy(turn'[t], es)
                /\ Ending(turn[t], es) => Ending(turn'[t], es)
    BY <2>3, <2>4, Zenon DEF Tidy, Ending
  <2>6. EventsOK(t)'
    BY <2>1, <2>2, <2>5 DEF EventsOK
  <2> QED
    BY <1>1, <2>1, <2>6 DEF Keeps
<1>5. ASSUME NEW t \in Turn, HangUp(t) PROVE EventsInv'
  <2>1. Others(t) /\ ~turn'[t].connected
    BY <1>5, HangUpLeaves
  <2> QED
    BY <1>1, <2>1 DEF EventsOK
<1>6. CASE turn' = turn
  BY <1>6 DEF EventsOK, Emitted
<1> QED
  BY StepCases, <1>2, <1>3, <1>4, <1>5, <1>6 DEF DeleteSession, vars

-----------------------------------------------------------------------------
(* The tool calls of a turn. *)

LEMMA CallsInit ==
  ASSUME Init PROVE CallsInv
<1>1. \A t \in Turn : turn[t].pc = "new"
  BY DEF Init, Fresh
<1> QED
  BY <1>1 DEF CallsInv, CallsOK

\* A message that is answered stays answered when another is appended.
LEMMA AnsweredStays ==
  ASSUME NEW ms \in Seq(Messages), NEW m \in Messages, NEW t \in Turn, NEW i \in 1 .. Len(ms),
         Answered(ms, t, i)
  PROVE  Answered(Append(ms, m), t, i)
<1> DEFINE ns == Append(ms, m)
<1>1. Len(ns) = Len(ms) + 1 /\ \A j \in 1 .. Len(ms) : ns[j] = ms[j]
  OBVIOUS
<1>2. ms[i] \in Messages
  OBVIOUS
<1>3. \A c \in ms[i].calls : i + c[2] \in 1 .. Len(ms)
  <2>1. \A c \in Call : c[2] \in Nat
    BY DEF Call
  <2> QED
    BY <1>2, <2>1 DEF Answered, AnsweredBy, Messages
<1> HIDE DEF ns
<1>4. Answered(ns, t, i)
  BY <1>1, <1>3 DEF Answered, AnsweredBy, Mine
<1> QED
  BY <1>4 DEF ns

\* A new context asks for nothing: the rows of the turn are its input.
LEMMA StartAsksNothing ==
  ASSUME TypeInv, SetupInv, RowsInv, NEW t \in Turn, Start(t)
  PROVE  \A i \in 1 .. Len(turn'[t].messages) : ~Asking(turn'[t].messages, t, i)
<1>1. PICK p : /\ Context(t, p)
               /\ turn'[t].messages = Append(p, Message(t, "user", {}, turn[t].text))
  BY StartSetsUp
<1>2. turn[t].pc = "asked" /\ turn[t].sent = <<>> /\ turn[t].role = "user"
  BY StartSetsUp DEF SetupInv, Ready, Setup, TypeInv, Locals
<1>3. log \in Seq(Rows) /\ p \in Seq(Messages)
  BY <1>1 DEF TypeInv, SessionOK, Context
<1>4. ASSUME NEW k \in 1 .. Len(log), MessageOf(log[k]).turn = t
      PROVE  MessageOf(log[k]).role # "assistant"
  <2>1. log[k] \in Rows /\ log[k].turn = t
    BY <1>3, <1>4, MessageOfTyped
  <2>2. log[k] = Input(t)
    BY <1>2, <2>1 DEF RowsInv, RowOK, SentRow
  <2>3. log[k].type = "user"
    BY <1>2, <2>2 DEF Input, InputRow
  <2> QED
    BY <2>1, <2>3, MessageOfTyped DEF RoleOf, Role
<1>5. \A i \in 1 .. Len(p) : ~(p[i].turn = t /\ p[i].role = "assistant")
  BY <1>1, <1>4 DEF Context, Message
<1> DEFINE m == Message(t, "user", {}, turn[t].text)
<1>6. m.role = "user"
  BY DEF Message
<1> HIDE DEF m
<1>7. turn'[t].messages = Append(p, m)
  BY <1>1 DEF m
<1> QED
  BY <1>3, <1>5, <1>6, <1>7 DEF Asking

\* The response of the provider: its calls are all in front, the message that makes
\* them is the last.
LEMMA RespondCalls ==
  ASSUME TypeInv, NEW t \in Turn, CallsOK(turn[t], t), Complete(t)
  PROVE  CallsOK(turn'[t], t)
<1> DEFINE l == turn[t]
           m == turn'[t]
<1>1. /\ Working(t) /\ l.pc = "provider" /\ m.iteration = l.iteration
      /\ m.pc # "end" => m.pc = "tools"
  BY CompleteWorks
<1>2. l \in Locals /\ m \in Locals
  BY <1>1 DEF TypeInv, Working, Others
<1> SUFFICES ASSUME m.pc = "tools"
             PROVE  \E n \in Nat : Remaining(m, t, n)
  BY <1>1 DEF CallsOK
<1>3. PICK n \in Nat :
        /\ m.calls = [k \in 1 .. n |-> <<l.iteration, k>>]
        /\ m.messages = Append(l.messages, Message(t, "assistant", ToSet(m.calls), NoText))
  BY CompleteWorks
<1> DEFINE asks == Message(t, "assistant", ToSet(m.calls), NoText)
           a == Len(m.messages)
<1>4. Len(m.calls) = n /\ \A j \in 1 .. n : m.calls[j] = <<l.iteration, j>>
  BY <1>3
<1>5. asks.turn = t /\ asks.role = "assistant" /\ asks.calls = {<<l.iteration, k>> : k \in 1 .. n}
  <2>1. ToSet(m.calls) = {<<l.iteration, k>> : k \in 1 .. n}
    BY <1>3, <1>4 DEF ToSet
  <2> QED
    BY <2>1 DEF Message
<1>6. asks \in Messages
  <2>1. m.calls \in Seq(Call)
    BY <1>2 DEF Locals
  <2>2. ToSet(m.calls) \in SUBSET Call
    BY <2>1 DEF ToSet
  <2> QED
    BY <2>2 DEF Message, Messages
<1>7. l.messages \in Seq(Messages) /\ m.messages = Append(l.messages, asks)
  BY <1>2, <1>3 DEF Locals
<1> HIDE DEF asks
<1>8. /\ Len(m.messages) = Len(l.messages) + 1 /\ m.messages[a] = asks /\ a \in 1 .. Len(m.messages)
      /\ \A i \in 1 .. Len(m.messages) :
           i # a => i \in 1 .. Len(l.messages) /\ m.messages[i] = l.messages[i]
  BY <1>6, <1>7
<1>9. Asking(m.messages, t, a) /\ m.messages[a].calls = {<<m.iteration, k>> : k \in 1 .. n}
  BY <1>1, <1>5, <1>8 DEF Asking
<1>10. ASSUME NEW i \in 1 .. Len(m.messages), Asking(m.messages, t, i), i # a
       PROVE  Answered(m.messages, t, i)
  <2>1. i \in 1 .. Len(l.messages) /\ Asking(l.messages, t, i)
    BY <1>8, <1>10 DEF Asking
  <2>2. Answered(l.messages, t, i)
    BY <1>1, <2>1 DEF CallsOK
  <2> QED
    BY <1>6, <1>7, <2>1, <2>2, AnsweredStays
<1>11. a = Len(m.messages) - (n - Len(m.calls)) /\ n - Len(m.calls) = 0
  BY <1>4, <1>8
<1> HIDE DEF a, m
<1>12. Remaining(m, t, n)
  BY <1>1, <1>4, <1>8, <1>9, <1>10, <1>11 DEF Remaining
<1> QED
  BY <1>12

\* The loop is entered again when no call is in front: then all are answered.
LEMMA CallToolCalls ==
  ASSUME TypeInv, NEW t \in Turn, CallsOK(turn[t], t), CallTool(t)
  PROVE  CallsOK(turn'[t], t)
<1> DEFINE l == turn[t]
           m == turn'[t]
<1>1. /\ l.pc = "tools" /\ m.messages = l.messages /\ m.calls = l.calls /\ m.iteration = l.iteration
      /\ \/ l.calls = <<>> /\ m.pc = "loop"
         \/ l.calls # <<>> /\ m.pc = "execute"
  BY CallToolWorks
<1>2. PICK n \in Nat : Remaining(l, t, n)
  BY <1>1 DEF CallsOK
<1>3. CASE m.pc = "execute"
  <2>1. Remaining(m, t, n)
    BY <1>1, <1>2 DEF Remaining
  <2> QED
    BY <1>3, <2>1 DEF CallsOK
<1>4. CASE m.pc = "loop"
  <2> DEFINE ms == l.messages
             a == Len(ms) - n
  <2>1. Len(l.calls) = 0
    BY <1>1, <1>4
  <2>2. /\ a \in 1 .. Len(ms) /\ ms[a].calls = {<<l.iteration, k>> : k \in 1 .. n}
        /\ \A k \in 1 .. n : AnsweredBy(ms, t, a, <<l.iteration, k>>)
        /\ \A i \in 1 .. Len(ms) : Asking(ms, t, i) /\ i # a => Answered(ms, t, i)
    BY <1>2, <2>1 DEF Remaining
  <2>3. Answered(ms, t, a)
    BY <2>2 DEF Answered
  <2>4. \A i \in 1 .. Len(ms) : Asking(ms, t, i) => Answered(ms, t, i)
    BY <2>2, <2>3
  <2> QED
    BY <1>1, <1>4, <2>4 DEF CallsOK
<1> QED
  BY <1>1, <1>3, <1>4

\* A tool's message answers the first call in front.
LEMMA ExecuteCalls ==
  ASSUME TypeInv, NEW t \in Turn, CallsOK(turn[t], t), Execute(t)
  PROVE  CallsOK(turn'[t], t)
<1> DEFINE l == turn[t]
           m == turn'[t]
           c == l.calls[1]
           says == Message(t, "tool", {c}, NoText)
<1>1. /\ Working(t) /\ l.pc = "execute" /\ m.pc = "tools" /\ l.calls # <<>>
      /\ m.iteration = l.iteration /\ m.calls = Tail(l.calls)
      /\ m.messages = Append(l.messages, says)
  BY ExecuteWorks
<1>2. l.messages \in Seq(Messages) /\ l.calls \in Seq(Call)
  BY DEF TypeInv, Locals
<1>3. PICK n \in Nat : Remaining(l, t, n)
  BY <1>1 DEF CallsOK
<1> DEFINE ms == l.messages
           ns == m.messages
           a == Len(ms) - (n - Len(l.calls))
<1>4. says.turn = t /\ says.role = "tool" /\ says.calls = {c} /\ says \in Messages
  <2>1. c \in Call
    BY <1>1, <1>2
  <2> QED
    BY <2>1 DEF Message, Messages
<1> HIDE DEF says
<1> DEFINE p == Len(ms)
           q == Len(l.calls)
<1>5. /\ Len(ns) = p + 1 /\ ns[p + 1] = says /\ \A i \in 1 .. p : ns[i] = ms[i]
      /\ Len(m.calls) = q - 1 /\ p \in Nat /\ q \in Nat \ {0}
      /\ \A j \in 1 .. q - 1 : j + 1 \in 1 .. q /\ m.calls[j] = l.calls[j + 1]
  BY <1>1, <1>2, <1>4
<1>6. /\ q <= n /\ a \in 1 .. p /\ a = p - (n - q)
      /\ Asking(ms, t, a) /\ ms[a].calls = {<<l.iteration, k>> : k \in 1 .. n}
      /\ \A j \in 1 .. q : l.calls[j] = <<l.iteration, n - q + j>>
      /\ \A k \in 1 .. n - q : AnsweredBy(ms, t, a, <<l.iteration, k>>)
      /\ \A i \in 1 .. p : Asking(ms, t, i) /\ i # a => Answered(ms, t, i)
  BY <1>3 DEF Remaining
<1> HIDE DEF a, p, q
<1>7. a = Len(ns) - (n - Len(m.calls)) /\ a \in 1 .. Len(ns) /\ Len(m.calls) <= n
  BY <1>5, <1>6
<1>8. Asking(ns, t, a) /\ ns[a].calls = {<<m.iteration, k>> : k \in 1 .. n}
  <2>1. ns[a] = ms[a] /\ m.iteration = l.iteration
    BY <1>1, <1>5, <1>6
  <2> HIDE DEF ns, ms, m, l
  <2> QED
    BY <1>6, <2>1 DEF Asking
<1>9. \A j \in 1 .. Len(m.calls) : m.calls[j] = <<m.iteration, n - Len(m.calls) + j>>
  <2>1. ASSUME NEW j \in 1 .. q - 1
        PROVE  m.calls[j] = <<m.iteration, n - (q - 1) + j>>
    <3>1. m.calls[j] = <<l.iteration, n - q + (j + 1)>>
      BY <1>5, <1>6
    <3>2. n - q + (j + 1) = n - (q - 1) + j
      BY <1>5
    <3> QED
      BY <1>1, <3>1, <3>2
  <2> QED
    BY <1>5, <2>1
<1>10. ASSUME NEW k \in 1 .. n - Len(m.calls)
       PROVE  AnsweredBy(ns, t, a, <<m.iteration, k>>)
  <2> DEFINE d == <<l.iteration, k>>
  <2>1. d[2] = k
    OBVIOUS
  <2> HIDE DEF d
  <2>2. AnsweredBy(ns, t, a, d)
    <3>1. CASE k \in 1 .. n - q
      <4>1. AnsweredBy(ms, t, a, d)
        BY <1>6, <3>1 DEF d
      <4>2. a + k <= p
        BY <2>1, <4>1 DEF AnsweredBy, p
      <4>3. a + k \in 1 .. p
        BY <1>5, <1>6, <3>1, <4>2
      <4>4. a + k <= Len(ns) /\ ns[a + k] = ms[a + k]
        BY <1>5, <4>3
      <4> QED
        BY <2>1, <4>1, <4>4 DEF AnsweredBy, Mine
    <3>2. CASE k = n - q + 1
      <4>1. a + k = p + 1
        BY <1>5, <1>6, <3>2
      <4>2. c = d
        BY <1>5, <1>6, <3>2 DEF d
      <4> HIDE DEF c
      <4> QED
        BY <1>4, <1>5, <2>1, <4>1, <4>2 DEF AnsweredBy, Mine
    <3> QED
      BY <1>5, <1>6, <3>1, <3>2
  <2> QED
    BY <1>1, <2>2 DEF d
<1>11. ASSUME NEW i \in 1 .. Len(ns), Asking(ns, t, i), i # a
       PROVE  Answered(ns, t, i)
  <2>1. i # p + 1
    BY <1>4, <1>5, <1>11 DEF Asking
  <2>2. i \in 1 .. p
    BY <1>5, <2>1
  <2>3. Asking(ms, t, i)
    BY <1>5, <1>11, <2>2 DEF Asking
  <2>4. Answered(ms, t, i) /\ i \in 1 .. Len(ms)
    BY <1>6, <1>11, <2>2, <2>3 DEF p
  <2> QED
    BY <1>1, <1>2, <1>4, <2>4, AnsweredStays
<1>12. Remaining(m, t, n)
  <2> HIDE DEF a
  <2> QED
    BY <1>7, <1>8, <1>9, <1>10, <1>11 DEF Remaining
<1> QED
  BY <1>1, <1>12 DEF CallsOK

LEMMA CallsStep ==
  ASSUME TypeInv, SetupInv, RowsInv, CallsInv, [Next]_vars
  PROVE  CallsInv'
<1>1. ASSUME NEW t \in Turn, Others(t), CallsOK(turn'[t], t)
      PROVE  CallsInv'
  BY <1>1 DEF CallsInv, Others
<1>2. ASSUME NEW t \in Turn, TaskStep(t) PROVE CallsInv'
  <2>1. Others(t) /\ CallsOK(turn[t], t)
    BY <1>2, TaskStepWorks DEF Working, CallsInv
  <2>2. CASE Loop(t)
    BY <1>1, <2>1, <2>2, LoopWorks DEF CallsOK
  <2>3. CASE Complete(t) \/ CallTool(t) \/ Execute(t)
    BY <1>1, <2>1, <2>3, RespondCalls, CallToolCalls, ExecuteCalls
  <2> QED
    BY <1>2, <2>2, <2>3 DEF TaskStep
<1>3. ASSUME NEW t \in Turn, SetupStep(t) PROVE CallsInv'
  <2>1. Others(t)
    BY <1>3, SetupStepSetsUp DEF SettingUp
  <2>2. CASE Start(t)
    BY <1>1, <2>1, <2>2, StartAsksNothing, StartSetsUp DEF CallsOK
  <2>3. CASE ~Start(t)
    <3>1. turn'[t].pc \in Setup
      BY <1>3, <2>3, EnterSetsUp, AskSetsUp, FailSetsUp, NameInputSetsUp DEF SetupStep, Setup
    <3> QED
      BY <1>1, <2>1, <3>1 DEF CallsOK, Setup
  <2> QED
    BY <2>2, <2>3
<1>4. ASSUME NEW t \in Turn, Send(t) \/ Poll(t) \/ Insert(t) \/ NameAnswer(t)
      PROVE  CallsInv'
  <2>1. Keeps(t)
    BY <1>4, SendKeeps, PollKeeps, InsertKeeps, NameAnswerKeeps
  <2>2. turn'[t].pc = turn[t].pc
    BY <2>1 DEF Keeps
  <2>3. \A n : Remaining(turn[t], t, n) => Remaining(turn'[t], t, n)
    BY <2>1, Zenon DEF Keeps, Remaining
  <2>4. CallsOK(turn'[t], t)
    BY <2>1, <2>2, <2>3 DEF Keeps, CallsInv, CallsOK
  <2> QED
    BY <1>1, <2>1, <2>4 DEF Keeps
<1>5. ASSUME NEW t \in Turn, HangUp(t) PROVE CallsInv'
  <2>1. /\ Others(t) /\ turn'[t].messages = turn[t].messages
        /\ turn'[t].iteration = turn[t].iteration /\ turn'[t].calls = turn[t].calls
        /\ turn'[t].pc = turn[t].pc \/ turn'[t].pc = "refused"
    BY <1>5, HangUpLeaves
  <2>2. \A n : Remaining(turn[t], t, n) => Remaining(turn'[t], t, n)
    BY <2>1, Zenon DEF Remaining
  <2>3. CallsOK(turn'[t], t)
    BY <2>1, <2>2 DEF CallsInv, CallsOK
  <2> QED
    BY <1>1, <2>1, <2>3
<1>6. CASE turn' = turn
  BY <1>6 DEF CallsInv
<1> QED
  BY StepCases, <1>2, <1>3, <1>4, <1>5, <1>6 DEF DeleteSession, vars

-----------------------------------------------------------------------------
(* The rows of the session. *)

LEMMA RowsInit ==
  ASSUME Init PROVE RowsInv
<1>1. \A t \in Turn : turn[t] = Fresh
  BY DEF Init
<1>2. log = <<>> /\ ~open
  BY DEF Init, open
<1> QED
  BY <1>1, <1>2 DEF RowsInv, Kept, SentRow, Fresh

LEMMA SentTyped ==
  ASSUME TypeInv, NEW t \in Turn, NEW r, SentRow(t, r)
  PROVE  r \in Rows /\ r.turn = t /\ r.type \in EventType \ {"error"}
<1>1. turn[t].sent \in Seq(Events)
  BY DEF TypeInv, Locals
<1>2. PICK i \in 1 .. Len(turn[t].sent) :
        turn[t].sent[i].type # "error" /\ r = RowOf(t, turn[t].sent[i])
  BY DEF SentRow
<1>3. turn[t].sent[i] \in Events
  BY <1>1
<1> QED
  BY <1>2, <1>3, RowTyped DEF Events

LEMMA InputIsTyped ==
  ASSUME TypeInv, NEW t \in Turn
  PROVE  Input(t) \in Rows /\ Input(t).turn = t /\ Input(t).type \in Role
<1>1. turn[t] \in Locals
  BY DEF TypeInv
<1> QED
  BY <1>1, InputTyped DEF Locals, Input

LEMMA InputNotSent ==
  ASSUME TypeInv, NEW t \in Turn, NEW u \in Turn, NEW r, SentRow(u, r)
  PROVE  r # Input(t)
BY SentTyped, InputIsTyped DEF EventType, Role

\* A step of one turn changes nothing of the rows of another.
LEMMA OtherRows ==
  ASSUME TypeInv, NEW t \in Turn, Others(t), NEW u \in Turn, u # t
  PROVE  /\ Input(u)' = Input(u) /\ turn'[u] = turn[u]
         /\ \A r : SentRow(u, r)' <=> SentRow(u, r)
<1>1. turn'[u] = turn[u]
  BY DEF Others
<1> QED
  BY <1>1 DEF Input, SentRow

LEMMA LogTyped ==
  ASSUME TypeInv, NEW i \in 1 .. Len(log)
  PROVE  log[i] \in Rows /\ log[i].turn \in Turn
<1>1. log[i] \in Rows
  BY DEF TypeInv, SessionOK
<1> QED
  BY <1>1 DEF Rows

\* Steps that neither send an event nor save a row.
LEMMA RowsFrame ==
  ASSUME TypeInv, RowsInv, NEW t \in Turn, Others(t), log' = log, open' => open,
         turn'[t].sent = turn[t].sent, turn'[t].saving = turn[t].saving,
         turn'[t].touching \subseteq turn[t].touching, turn'[t].lost = turn[t].lost,
         Input(t)' = Input(t),
         turn'[t].pc \in {"new", "entered"} => turn[t].pc \in {"new", "entered"},
         open' /\ turn'[t].pc \notin Early => turn[t].pc \notin Early
  PROVE  RowsInv'
<1>1. \A r : SentRow(t, r)' <=> SentRow(t, r)
  BY DEF SentRow
<1>2. \A u \in Turn : /\ Input(u)' = Input(u) /\ turn'[u].saving = turn[u].saving
                      /\ \A r : SentRow(u, r)' <=> SentRow(u, r)
  BY <1>1, OtherRows
<1>3. \A u \in Turn : turn'[u].pc \in {"new", "entered"} => turn[u].pc \in {"new", "entered"}
  BY OtherRows
<1>4. \A i \in 1 .. Len(log) : RowOK(log[i])'
  <2> TAKE i \in 1 .. Len(log)
  <2>1. RowOK(log[i]) /\ log[i].turn \in Turn /\ log'[i] = log[i]
    BY LogTyped DEF RowsInv
  <2> DEFINE r == log[i]
             u == r.turn
  <2>2. Input(u)' = Input(u) /\ (SentRow(u, r)' <=> SentRow(u, r))
    BY <1>2, <2>1
  <2> QED
    BY <1>2, <1>3, <2>1, <2>2 DEF RowOK
<1>5. \A i \in 1 .. Len(log) : Opens(log[i])' <=> Opens(log[i])
  BY <1>2, LogTyped DEF Opens
<1>6. ASSUME NEW u \in Turn PROVE Kept(u)'
  <2>1. Kept(u) /\ turn'[u].touching \subseteq turn[u].touching /\ turn'[u].lost = turn[u].lost
        /\ (open' /\ turn'[u].pc \notin Early => turn[u].pc \notin Early)
    BY OtherRows DEF RowsInv
  <2>2. \A r : Saved(r)' <=> Saved(r)
    BY DEF Saved
  <2> QED
    BY <1>2, <2>1, <2>2 DEF Kept
<1> QED
  BY <1>4, <1>5, <1>6 DEF RowsInv

\* What has sent nothing has lost nothing.
LEMMA NothingLost ==
  ASSUME RowsInv, NEW t \in Turn, turn[t].sent = <<>>
  PROVE  turn[t].lost = {}
BY DEF RowsInv, Kept, SentRow

\* The session is entered: it has no row of the turn yet, and if it is created, none.
LEMMA RowsEntered ==
  ASSUME TypeInv, SetupInv, RowsInv, NEW t \in Turn, EnterChat(t) \/ EnterNote(t)
  PROVE  RowsInv'
<1>1. /\ SettingUp(t) /\ Others(t) /\ log' = log
      /\ turn[t].pc = "new" /\ turn'[t].pc = "entered"
      /\ session # "none" => session' = session
  BY EnterSetsUp DEF SettingUp
<1>2. /\ turn[t].sent = <<>> /\ turn[t].saving = {} /\ turn[t].touching = {}
      /\ turn'[t].sent = <<>> /\ turn'[t].saving = {} /\ turn'[t].touching = {}
      /\ turn'[t].lost = {}
  BY <1>1, NothingLost DEF SetupInv, Ready, Setup, SettingUp
<1>3. ASSUME NEW i \in 1 .. Len(log)
      PROVE  /\ RowOK(log[i])' /\ log[i].turn # t
             /\ Opens(log[i])' <=> Opens(log[i])
  <2>1. RowOK(log[i]) /\ log[i].turn \in Turn /\ log'[i] = log[i]
    BY <1>1, LogTyped DEF RowsInv
  <2>2. log[i].turn # t
    BY <1>1, <2>1 DEF RowOK
  <2> DEFINE r == log[i]
             u == r.turn
  <2>3. Input(u)' = Input(u) /\ turn'[u] = turn[u] /\ (SentRow(u, r)' <=> SentRow(u, r))
    BY <1>1, <2>1, <2>2, OtherRows
  <2> QED
    BY <1>1, <2>1, <2>2, <2>3 DEF RowOK, Opens
<1>4. \A r : ~SentRow(t, r)'
  BY <1>2 DEF SentRow
<1>5. Kept(t)'
  BY <1>1, <1>2, <1>4 DEF Kept, Early
<1>6. ASSUME NEW u \in Turn, u # t PROVE Kept(u)'
  <2>1. /\ Kept(u) /\ Input(u)' = Input(u) /\ turn'[u] = turn[u]
        /\ \A r : SentRow(u, r)' <=> SentRow(u, r)
    BY <1>1, <1>6, OtherRows DEF RowsInv
  <2>2. \A r : Saved(r)' <=> Saved(r)
    BY <1>1 DEF Saved
  <2>3. CASE session # "none"
    BY <1>1, <2>1, <2>2, <2>3 DEF Kept, open
  <2>4. CASE session = "none"
    <3>1. /\ turn[u].pc \in {"new", "refused"} /\ turn[u].sent = <<>>
          /\ turn[u].saving = {} /\ turn[u].touching = {} /\ turn[u].lost = {}
      BY <2>4, NothingLost DEF SetupInv, Ready, Setup
    <3>2. \A r : ~SentRow(u, r)'
      BY <2>1, <3>1 DEF SentRow
    <3> QED
      BY <2>1, <3>1, <3>2 DEF Kept, Early
  <2> QED
    BY <2>3, <2>4
<1>7. \A u \in Turn : Kept(u)'
  BY <1>5, <1>6
<1> QED
  BY <1>1, <1>3, <1>7 DEF RowsInv

\* A row that is not there yet goes behind the others.
LEMMA RowAppended ==
  ASSUME log \in Seq(Rows), NEW r \in Rows, log' = Append(log, r)
  PROVE  /\ Len(log') = Len(log) + 1 /\ Len(log) \in Nat /\ log'[Len(log')] = r
         /\ \A i \in 1 .. Len(log') : i = Len(log') \/ (i \in 1 .. Len(log) /\ log'[i] = log[i])
         /\ \A i \in 1 .. Len(log) : i \in 1 .. Len(log') /\ log'[i] = log[i]
         /\ \A s : Saved(s)' <=> Saved(s) \/ s = r
<1>1. /\ Len(log') = Len(log) + 1 /\ Len(log) \in Nat /\ log'[Len(log')] = r
      /\ \A i \in 1 .. Len(log') : i = Len(log') \/ (i \in 1 .. Len(log) /\ log'[i] = log[i])
      /\ \A i \in 1 .. Len(log) : i \in 1 .. Len(log') /\ log'[i] = log[i]
      /\ Len(log') \in 1 .. Len(log')
  OBVIOUS
<1> QED
  BY <1>1 DEF Saved

\* The input is the first row of its turn.
LEMMA RowsAsked ==
  ASSUME TypeInv, SetupInv, RowsInv, NEW t \in Turn, Ask(t), open
  PROVE  RowsInv'
<1>1. PICK r : r = Input(t)'
  OBVIOUS
<1>2. /\ SettingUp(t) /\ Others(t) /\ log' = Append(log, r) /\ open'
      /\ turn[t].pc = "entered" /\ turn'[t].pc = "inserted"
  BY <1>1, AskSetsUp DEF SettingUp, open
<1>3. /\ turn'[t].sent = <<>> /\ turn'[t].saving = {} /\ turn'[t].touching = {}
      /\ turn'[t].lost = {}
  BY <1>2, NothingLost DEF SetupInv, Ready, Setup, SettingUp
<1>4. r \in Rows /\ r.turn = t
  <2>1. turn'[t] \in Locals
    BY <1>2 DEF Others
  <2> QED
    BY <1>1, <2>1, InputTyped DEF Input, Locals
<1>5. log \in Seq(Rows)
  BY DEF TypeInv, SessionOK
<1>6. /\ Len(log') = Len(log) + 1 /\ Len(log) \in Nat /\ log'[Len(log')] = r
      /\ \A i \in 1 .. Len(log') : i = Len(log') \/ (i \in 1 .. Len(log) /\ log'[i] = log[i])
      /\ \A s : Saved(s)' <=> Saved(s) \/ s = r
  BY <1>2, <1>4, <1>5, RowAppended
<1>7. ASSUME NEW i \in 1 .. Len(log), NEW s, s = log[i]
      PROVE  RowOK(s)' /\ s.turn # t /\ s # r /\ (Opens(s)' <=> Opens(s))
  <2>1. RowOK(s) /\ s.turn \in Turn
    BY <1>7, LogTyped DEF RowsInv
  <2>2. s.turn # t
    BY <1>2, <2>1 DEF RowOK
  <2>3. Input(s.turn)' = Input(s.turn) /\ turn'[s.turn] = turn[s.turn]
        /\ (SentRow(s.turn, s)' <=> SentRow(s.turn, s))
    BY <1>2, <2>1, <2>2, OtherRows
  <2> QED
    BY <1>4, <2>1, <2>2, <2>3 DEF RowOK, Opens
<1>8. RowOK(r)'
  BY <1>1, <1>2, <1>3, <1>4 DEF RowOK
<1>9. \A i \in 1 .. Len(log') : RowOK(log[i])'
  BY <1>6, <1>7, <1>8
<1>10. /\ \A i, j \in 1 .. Len(log') : log'[i] = log'[j] => i = j
       /\ \A i, j \in 1 .. Len(log') : Opens(log[i])' /\ log'[j].turn = log'[i].turn => i <= j
  BY <1>4, <1>6, <1>7 DEF RowsInv
<1>11. Kept(t)'
  <2>1. \A s : ~SentRow(t, s)'
    BY <1>3 DEF SentRow
  <2>2. Saved(Input(t))'
    BY <1>1, <1>6
  <2> QED
    BY <1>3, <2>1, <2>2 DEF Kept, open
<1>12. ASSUME NEW u \in Turn, u # t PROVE Kept(u)'
  <2>1. /\ Kept(u) /\ Input(u)' = Input(u) /\ turn'[u] = turn[u]
        /\ \A s : SentRow(u, s)' <=> SentRow(u, s)
    BY <1>2, <1>12, OtherRows DEF RowsInv
  <2>2. \A s \in turn[u].lost : s # r
    BY <1>4, <1>12, <2>1, SentTyped DEF Kept
  <2> QED
    BY <1>2, <1>6, <2>1, <2>2 DEF Kept, open
<1>13. \A u \in Turn : Kept(u)'
  BY <1>11, <1>12
<1> QED
  BY <1>9, <1>10, <1>13 DEF RowsInv

\* What is sent was not sent before: no row of it is there.
LEMMA RowsPolled ==
  ASSUME TypeInv, RowsInv, NEW t \in Turn, EventsOK(t), Poll(t)
  PROVE  RowsInv'
<1> DEFINE e == turn[t].channel[1]
           n == Len(turn[t].sent)
<1>1. /\ Others(t) /\ log' = log /\ session' = session
      /\ turn[t].connected /\ turn[t].channel # <<>>
      /\ turn'[t].sent = Append(turn[t].sent, e) /\ turn'[t].touching = turn[t].touching
      /\ turn'[t].lost = turn[t].lost
      /\ turn'[t].saving = IF e.type = "error" THEN turn[t].saving
                           ELSE turn[t].saving \cup {RowOf(t, e)}
      /\ turn'[t].pc = turn[t].pc /\ turn'[t].role = turn[t].role /\ turn'[t].text = turn[t].text
  BY PollKeeps DEF Keeps
<1>2. turn[t].sent \in Seq(Events) /\ turn[t].channel \in Seq(Events) /\ turn[t].outbox \in Seq(Events)
      /\ n \in Nat /\ e \in Events
  BY <1>1 DEF TypeInv, Locals
<1>3. \A i \in 1 .. n : turn[t].sent[i] \in Events /\ turn[t].sent[i] # e
  <2> DEFINE es == Emitted(t)
  <2>1. \A i \in 1 .. Len(es) : \A j \in 1 .. Len(es) : es[i] = es[j] => i = j
    BY <1>1 DEF EventsOK, Tidy
  <2>2. /\ n + 1 \in 1 .. Len(es) /\ es[n + 1] = e
        /\ \A i \in 1 .. n : i \in 1 .. Len(es) /\ es[i] = turn[t].sent[i]
    <3> DEFINE s == turn[t].sent
               c == turn[t].channel
               o == turn[t].outbox
    <3>1. s \in Seq(Events) /\ c \in Seq(Events) /\ o \in Seq(Events) /\ c # <<>>
      BY <1>1, <1>2
    <3>2. es = (s \o c) \o o
      BY DEF Emitted
    <3> HIDE DEF s, c, o
    <3>3. /\ Len(s) + 1 \in 1 .. Len((s \o c) \o o) /\ ((s \o c) \o o)[Len(s) + 1] = c[1]
          /\ \A i \in 1 .. Len(s) : i \in 1 .. Len((s \o c) \o o) /\ ((s \o c) \o o)[i] = s[i]
      BY <3>1, SentFirst
    <3> HIDE DEF es
    <3> QED
      BY <3>2, <3>3 DEF s, c, o
  <2> HIDE DEF es, n, e
  <2>3. \A i \in 1 .. n : es[i] # es[n + 1]
    BY <1>2, <2>1, <2>2
  <2> QED
    BY <1>2, <2>2, <2>3 DEF n
<1> HIDE DEF e
<1>4. \A r : SentRow(t, r)' <=> SentRow(t, r) \/ (e.type # "error" /\ r = RowOf(t, e))
  <2>1. /\ Len(turn'[t].sent) = n + 1 /\ turn'[t].sent[n + 1] = e
        /\ \A i \in 1 .. n + 1 : i = n + 1 \/ (i \in 1 .. n /\ turn'[t].sent[i] = turn[t].sent[i])
        /\ \A i \in 1 .. n : i \in 1 .. n + 1 /\ turn'[t].sent[i] = turn[t].sent[i]
        /\ n + 1 \in 1 .. n + 1
    BY <1>1, <1>2
  <2> QED
    BY <2>1 DEF SentRow
<1>12. \A r : SentRow(t, r) => r # RowOf(t, e)
  <2> SUFFICES ASSUME NEW r, SentRow(t, r) PROVE r # RowOf(t, e)
    OBVIOUS
  <2>1. PICK j \in 1 .. n : r = RowOf(t, turn[t].sent[j])
    BY DEF SentRow
  <2>2. turn[t].sent[j] # e /\ turn[t].sent[j] \in Events
    BY <1>3
  <2> QED
    BY <1>2, <2>1, <2>2 DEF RowOf, Events
<1>5. Input(t)' = Input(t)
  BY <1>1 DEF Input
<1>6. ASSUME NEW i \in 1 .. Len(log), NEW r, r = log[i]
      PROVE  RowOK(r)' /\ (Opens(r)' <=> Opens(r))
  <2>1. RowOK(r) /\ r.turn \in Turn
    BY <1>6, LogTyped DEF RowsInv
  <2>2. CASE r.turn # t
    <3>1. Input(r.turn)' = Input(r.turn) /\ turn'[r.turn] = turn[r.turn]
          /\ (SentRow(r.turn, r)' <=> SentRow(r.turn, r))
      BY <1>1, <2>1, <2>2, OtherRows
    <3> QED
      BY <2>1, <3>1 DEF RowOK, Opens
  <2>3. CASE r.turn = t
    <3>1. ASSUME e.type # "error" PROVE r # RowOf(t, e)
      <4>1. RowOf(t, e).type \in EventType
        BY <1>2, RowTyped DEF Events
      <4>2. CASE r = Input(t)
        BY <4>1, <4>2, InputIsTyped DEF EventType, Role
      <4>3. CASE SentRow(t, r)
        BY <1>12, <4>3
      <4> QED
        BY <2>1, <2>3, <4>2, <4>3 DEF RowOK
    <3>2. r \notin turn'[t].saving
      BY <1>1, <2>1, <2>3, <3>1 DEF RowOK
    <3> QED
      BY <1>1, <1>4, <1>5, <2>1, <2>3, <3>2 DEF RowOK, Opens
  <2> QED
    BY <2>2, <2>3
<1>7. \A i \in 1 .. Len(log) : RowOK(log[i])' /\ (Opens(log[i])' <=> Opens(log[i]))
  BY <1>1, <1>6
<1>8. \A r : Saved(r)' <=> Saved(r)
  BY <1>1 DEF Saved
<1>9. Kept(t)'
  BY <1>1, <1>4, <1>5, <1>8, <1>12 DEF RowsInv, Kept, open
<1>10. ASSUME NEW u \in Turn, u # t PROVE Kept(u)'
  <2>1. /\ Kept(u) /\ Input(u)' = Input(u) /\ turn'[u] = turn[u]
        /\ \A s : SentRow(u, s)' <=> SentRow(u, s)
    BY <1>1, <1>10, OtherRows DEF RowsInv
  <2> QED
    BY <1>1, <1>8, <2>1 DEF Kept, open
<1>11. \A u \in Turn : Kept(u)'
  BY <1>9, <1>10
<1> QED
  BY <1>1, <1>7, <1>11 DEF RowsInv

\* What is inserted was waiting for it, so that it is not there yet.
LEMMA RowsInserted ==
  ASSUME TypeInv, SetupInv, RowsInv, NEW t \in Turn, Insert(t)
  PROVE  RowsInv'
<1>1. PICK r \in turn[t].saving, done \in BOOLEAN :
        /\ done => open
        /\ turn'[t].saving = turn[t].saving \ {r}
        /\ turn'[t].lost = IF done THEN turn[t].lost ELSE turn[t].lost \cup {r}
        /\ turn'[t].touching = IF r.type = "answer" THEN turn[t].touching \cup {r}
                               ELSE turn[t].touching
        /\ log' = IF done THEN Append(log, r) ELSE log
  BY InsertKeeps
<1>2. /\ Others(t) /\ session' = session /\ turn'[t].sent = turn[t].sent
      /\ turn'[t].pc = turn[t].pc /\ turn'[t].role = turn[t].role /\ turn'[t].text = turn[t].text
  BY InsertKeeps DEF Keeps
<1>3. SentRow(t, r) /\ r \in Rows /\ r.turn = t /\ r # Input(t) /\ Kept(t) /\ r \notin turn[t].lost
  BY SentTyped, InputNotSent DEF RowsInv, Kept
<1>4. turn[t].pc \notin Setup
  BY DEF SetupInv, Ready
<1>5. Input(t)' = Input(t) /\ \A s : SentRow(t, s)' <=> SentRow(t, s)
  BY <1>2 DEF Input, SentRow
<1>6. ASSUME NEW i \in 1 .. Len(log), NEW s, s = log[i]
      PROVE  RowOK(s)' /\ s # r /\ (Opens(s)' <=> Opens(s))
  <2>1. RowOK(s) /\ s.turn \in Turn
    BY <1>6, LogTyped DEF RowsInv
  <2>2. CASE s.turn # t
    <3>1. Input(s.turn)' = Input(s.turn) /\ turn'[s.turn] = turn[s.turn]
          /\ (SentRow(s.turn, s)' <=> SentRow(s.turn, s))
      BY <1>2, <2>1, <2>2, OtherRows
    <3> QED
      BY <1>3, <2>1, <2>2, <3>1 DEF RowOK, Opens
  <2>3. CASE s.turn = t
    BY <1>1, <1>2, <1>5, <2>1, <2>3 DEF RowOK, Opens
  <2> QED
    BY <2>2, <2>3
<1>7. RowOK(r)' /\ ~Opens(r)'
  BY <1>1, <1>2, <1>3, <1>4, <1>5 DEF RowOK, Opens, Setup
<1>8. CASE done
  <2>1. log \in Seq(Rows) /\ log' = Append(log, r) /\ turn'[t].lost = turn[t].lost /\ open
    BY <1>1, <1>8 DEF TypeInv, SessionOK
  <2>2. /\ Len(log') = Len(log) + 1 /\ Len(log) \in Nat /\ log'[Len(log')] = r
        /\ \A i \in 1 .. Len(log') : i = Len(log') \/ (i \in 1 .. Len(log) /\ log'[i] = log[i])
        /\ \A s : Saved(s)' <=> Saved(s) \/ s = r
    BY <1>3, <2>1, RowAppended
  <2>3. \A i \in 1 .. Len(log') : RowOK(log[i])'
    BY <1>6, <1>7, <2>2
  <2>4. /\ \A i, j \in 1 .. Len(log') : log'[i] = log'[j] => i = j
        /\ \A i, j \in 1 .. Len(log') : Opens(log[i])' /\ log'[j].turn = log'[i].turn => i <= j
    BY <1>6, <1>7, <2>2 DEF RowsInv
  <2>5. Kept(t)'
    BY <1>1, <1>2, <1>3, <1>5, <2>1, <2>2 DEF Kept, open
  <2>6. ASSUME NEW u \in Turn, u # t PROVE Kept(u)'
    <3>1. /\ Kept(u) /\ Input(u)' = Input(u) /\ turn'[u] = turn[u]
          /\ \A s : SentRow(u, s)' <=> SentRow(u, s)
      BY <1>2, <2>6, OtherRows DEF RowsInv
    <3>2. \A s \in turn[u].lost : s # r
      BY <1>3, <2>6, <3>1, SentTyped DEF Kept
    <3> QED
      BY <1>2, <2>2, <3>1, <3>2 DEF Kept, open
  <2>7. \A u \in Turn : Kept(u)'
    BY <2>5, <2>6
  <2> QED
    BY <2>3, <2>4, <2>7 DEF RowsInv
<1>9. CASE ~done
  <2>1. log' = log /\ turn'[t].lost = turn[t].lost \cup {r} /\ (open' <=> open)
    BY <1>1, <1>2, <1>9 DEF open
  <2>2. \A s : Saved(s)' <=> Saved(s)
    BY <2>1 DEF Saved
  <2>3. ~Saved(r)
    BY <1>6 DEF Saved
  <2>4. Kept(t)'
    BY <1>1, <1>2, <1>3, <1>5, <2>1, <2>2, <2>3 DEF Kept
  <2>5. ASSUME NEW u \in Turn, u # t PROVE Kept(u)'
    <3>1. /\ Kept(u) /\ Input(u)' = Input(u) /\ turn'[u] = turn[u]
          /\ \A s : SentRow(u, s)' <=> SentRow(u, s)
      BY <1>2, <2>5, OtherRows DEF RowsInv
    <3> QED
      BY <2>1, <2>2, <3>1 DEF Kept
  <2>6. \A i \in 1 .. Len(log) : RowOK(log[i])' /\ (Opens(log[i])' <=> Opens(log[i]))
    BY <1>6, <2>1
  <2>7. \A u \in Turn : Kept(u)'
    BY <2>4, <2>5
  <2> QED
    BY <2>1, <2>6, <2>7 DEF RowsInv
<1> QED
  BY <1>1, <1>8, <1>9

LEMMA RowsStep ==
  ASSUME TypeInv, SetupInv, RowsInv, EventsInv, [Next]_vars
  PROVE  RowsInv'
<1>1. ASSUME NEW t \in Turn, TaskStep(t) \/ Send(t) PROVE RowsInv'
  <2>1. /\ Others(t) /\ log' = log /\ session' = session
        /\ turn'[t].sent = turn[t].sent /\ turn'[t].saving = turn[t].saving
        /\ turn'[t].touching = turn[t].touching /\ turn'[t].lost = turn[t].lost
        /\ turn'[t].role = turn[t].role /\ turn'[t].text = turn[t].text
        /\ turn'[t].pc = turn[t].pc \/ (turn[t].pc \notin Setup /\ turn'[t].pc \notin Setup)
    BY <1>1, TaskStepWorks, SendKeeps DEF Working, Keeps
  <2>2. Input(t)' = Input(t) /\ (open' <=> open)
    BY <2>1 DEF Input, open
  <2>3. /\ turn'[t].pc \in {"new", "entered"} => turn[t].pc \in {"new", "entered"}
        /\ open' /\ turn'[t].pc \notin Early => turn[t].pc \notin Early
    BY <2>1 DEF Early, Setup
  <2> QED
    BY <2>1, <2>2, <2>3, RowsFrame
<1>2. ASSUME NEW t \in Turn, (Ask(t) /\ ~open) \/ FailRequest(t) \/ NameInput(t) \/ Start(t) PROVE RowsInv'
  <2>1. /\ SettingUp(t) /\ Others(t) /\ log' = log /\ session' = session
        /\ turn'[t].role = turn[t].role /\ turn'[t].text = turn[t].text
        /\ \/ turn'[t].pc = "refused"
           \/ turn[t].pc \in {"inserted", "asked"} /\ turn'[t].pc \in {"asked", "noted", "loop"}
    BY <1>2, AskSetsUp, FailSetsUp, NameInputSetsUp, StartSetsUp DEF SettingUp
  <2>2. Input(t)' = Input(t) /\ (open' <=> open)
    BY <2>1 DEF Input, open
  <2>3. /\ turn'[t].pc \in {"new", "entered"} => turn[t].pc \in {"new", "entered"}
        /\ open' /\ turn'[t].pc \notin Early => turn[t].pc \notin Early
    BY <2>1, <2>2 DEF Early
  <2> QED
    BY <2>1, <2>2, <2>3, RowsFrame DEF SettingUp
<1>3. ASSUME NEW t \in Turn, SetupStep(t) PROVE RowsInv'
  BY <1>2, <1>3, RowsEntered, RowsAsked DEF SetupStep
<1>4. ASSUME NEW t \in Turn, NameAnswer(t) PROVE RowsInv'
  <2>1. /\ Others(t) /\ log' = log /\ session' = session
        /\ turn'[t].sent = turn[t].sent /\ turn'[t].saving = turn[t].saving
        /\ turn'[t].touching \subseteq turn[t].touching /\ turn'[t].lost = turn[t].lost
        /\ turn'[t].role = turn[t].role /\ turn'[t].text = turn[t].text
        /\ turn'[t].pc = turn[t].pc
    BY <1>4, NameAnswerKeeps DEF Keeps
  <2>2. Input(t)' = Input(t) /\ (open' <=> open)
    BY <2>1 DEF Input, open
  <2> QED
    BY <2>1, <2>2, RowsFrame
<1>5. ASSUME NEW t \in Turn, HangUp(t) PROVE RowsInv'
  <2>1. /\ Others(t) /\ log' = log /\ session' = session
        /\ turn'[t].sent = turn[t].sent /\ turn'[t].saving = turn[t].saving
        /\ turn'[t].touching = turn[t].touching /\ turn'[t].lost = turn[t].lost
        /\ turn'[t].role = turn[t].role /\ turn'[t].text = turn[t].text
        /\ turn'[t].pc = turn[t].pc \/ turn'[t].pc = "refused"
    BY <1>5, HangUpLeaves
  <2>2. Input(t)' = Input(t) /\ (open' <=> open)
    BY <2>1 DEF Input, open
  <2>3. /\ turn'[t].pc \in {"new", "entered"} => turn[t].pc \in {"new", "entered"}
        /\ open' /\ turn'[t].pc \notin Early => turn[t].pc \notin Early
    BY <2>1 DEF Early
  <2> QED
    BY <2>1, <2>2, <2>3, RowsFrame
<1>6. CASE DeleteSession
  <2>1. turn' = turn /\ log' = <<>> /\ ~open'
    BY <1>6 DEF DeleteSession, open
  <2>2. \A u \in Turn : \A r : SentRow(u, r)' <=> SentRow(u, r)
    BY <2>1 DEF SentRow
  <2>3. \A r : ~Saved(r)'
    BY <2>1 DEF Saved
  <2>4. \A u \in Turn : Kept(u)'
    BY <2>1, <2>2, <2>3 DEF RowsInv, Kept
  <2> QED
    BY <2>1, <2>4 DEF RowsInv
<1>7. CASE UNCHANGED vars
  <2>1. turn' = turn /\ log' = log /\ (open' <=> open)
    BY <1>7 DEF vars, open
  <2>2. /\ \A u : Input(u)' = Input(u)
        /\ \A u, r : SentRow(u, r)' <=> SentRow(u, r)
        /\ \A r : Saved(r)' <=> Saved(r)
    BY <2>1 DEF Input, SentRow, Saved
  <2>3. \A r : (RowOK(r)' <=> RowOK(r)) /\ (Opens(r)' <=> Opens(r))
    BY <2>1, <2>2 DEF RowOK, Opens
  <2>4. \A u \in Turn : Kept(u)' <=> Kept(u)
    BY <2>1, <2>2 DEF Kept
  <2> QED
    BY <2>1, <2>3, <2>4 DEF RowsInv
<1> QED
  BY StepCases, <1>1, <1>3, <1>4, <1>5, <1>6, <1>7, RowsPolled, RowsInserted
     DEF EventsInv

-----------------------------------------------------------------------------
(* The last message, and the input. *)

-----------------------------------------------------------------------------
(* The last message, and the input. *)

LEMMA LastStep ==
  ASSUME TypeInv, SetupInv, RowsInv, TypeInv', RowsInv', LastInv, [Next]_vars
  PROVE  LastInv'
<1>1. last # NoRow => Newest(last) /\ last \in Rows /\ last.turn \in Turn /\ open
  BY DEF LastInv, TypeInv, SessionOK, Rows
<1>2. ASSUME NEW t \in Turn, Others(t), last' = last, open => open',
             \A r : Saved(r) => Saved(r)', turn[t].lost \subseteq turn'[t].lost,
             (\E i \in 1 .. Len(turn'[t].sent) : turn'[t].sent[i].type = "answer") =>
               \/ \E i \in 1 .. Len(turn[t].sent) : turn[t].sent[i].type = "answer"
               \/ \E s \in Coming(turn'[t]) : s.type = "answer",
             (\E s \in Coming(turn[t]) : s.type = "answer") =>
               \E s \in Coming(turn'[t]) : s.type = "answer"
      PROVE  LastInv'
  <2>1. CASE last = NoRow
    BY <1>2, <2>1 DEF LastInv
  <2>2. CASE last # NoRow
    <3>1. Newest(last)'
      <4>1. CASE last.turn = t
        BY <1>1, <1>2, <2>2, <4>1 DEF Newest
      <4>2. CASE last.turn # t
        <5>1. turn'[last.turn] = turn[last.turn]
          BY <1>1, <1>2, <2>2, <4>2 DEF Others
        <5> QED
          BY <1>1, <1>2, <2>2, <5>1 DEF Newest
      <4> QED
        BY <4>1, <4>2
    <3> QED
      BY <1>1, <1>2, <2>2, <3>1 DEF LastInv
  <2> QED
    BY <2>1, <2>2
<1>3. log' = log => \A r : Saved(r) => Saved(r)'
  BY DEF Saved
<1>4. ASSUME NEW t \in Turn, TaskStep(t) \/ Send(t) \/ HangUp(t) PROVE LastInv'
  <2>1. /\ Others(t) /\ UNCHANGED <<session, last, log>>
        /\ turn'[t].sent = turn[t].sent /\ turn'[t].saving = turn[t].saving
        /\ turn'[t].touching = turn[t].touching
        /\ turn'[t].lost = turn[t].lost /\ turn'[t].unnamed = turn[t].unnamed
    BY <1>4, TaskStepWorks, SendKeeps, HangUpLeaves DEF Working, Keeps
  <2>2. open => open'
    BY <2>1 DEF open
  <2> QED
    BY <1>2, <1>3, <2>1, <2>2 DEF Coming
<1>5. ASSUME NEW t \in Turn, SetupStep(t), ~NameInput(t) PROVE LastInv'
  <2>1. /\ SettingUp(t) /\ last' = last /\ (open => open')
        /\ log' = log \/ (open /\ log' = Append(log, Input(t)'))
    BY <1>5, EnterSetsUp, AskSetsUp, FailSetsUp, StartSetsUp DEF SetupStep, open
  <2>2. \A r : Saved(r) => Saved(r)'
    <3>1. log \in Seq(Rows) /\ log' \in Seq(Rows)
      BY DEF TypeInv, SessionOK
    <3> DEFINE r == Input(t)'
    <3> HIDE DEF r
    <3>2. CASE log' = Append(log, r)
      <4>1. Len(log') = Len(log) + 1 /\ \A i \in 1 .. Len(log) : i \in 1 .. Len(log') /\ log'[i] = log[i]
        BY <3>1, <3>2
      <4> QED
        BY <4>1 DEF Saved
    <3> QED
      BY <1>3, <2>1, <3>2 DEF r
  <2> QED
    BY <1>2, <2>1, <2>2 DEF SettingUp, Coming
<1>6. ASSUME NEW t \in Turn, NameInput(t) PROVE LastInv'
  <2>1. /\ SettingUp(t) /\ UNCHANGED <<session, log>> /\ turn[t].pc = "inserted"
        /\ last' = last \/ (open /\ last' = Input(t))
    BY <1>6, NameInputSetsUp
  <2>2. CASE last' = last
    <3>1. /\ Others(t) /\ turn'[t].sent = turn[t].sent /\ turn'[t].lost = turn[t].lost
          /\ turn'[t].saving = turn[t].saving /\ turn'[t].touching = turn[t].touching
          /\ turn[t].unnamed \subseteq turn'[t].unnamed /\ (open => open')
      BY <2>1 DEF SettingUp, open
    <3>2. Coming(turn[t]) \subseteq Coming(turn'[t])
      BY <3>1 DEF Coming
    <3> HIDE DEF Coming
    <3> QED
      BY <1>2, <1>3, <2>1, <2>2, <3>1, <3>2
  <2>3. CASE open /\ last' = Input(t)
    <3>1. PICK r : r = Input(t)
      OBVIOUS
    <3>2. r.turn = t /\ Saved(r)
      BY <2>1, <2>3, <3>1, InputIsTyped DEF RowsInv, Kept, Early
    <3>3. turn'[t].sent = <<>>
      BY <2>1 DEF SettingUp, SetupInv, Ready
    <3>4. Newest(r)'
      BY <1>3, <2>1, <3>2, <3>3 DEF Newest
    <3> QED
      BY <2>1, <2>3, <3>1, <3>4 DEF LastInv, open
  <2> QED
    BY <2>1, <2>2, <2>3
<1>7. ASSUME NEW t \in Turn, Poll(t) PROVE LastInv'
  <2> DEFINE e == turn[t].channel[1]
             n == Len(turn[t].sent)
  <2>1. /\ Others(t) /\ UNCHANGED <<session, last, log>> /\ turn[t].channel # <<>>
        /\ turn'[t].sent = Append(turn[t].sent, e) /\ turn'[t].touching = turn[t].touching
        /\ turn'[t].saving = IF e.type = "error" THEN turn[t].saving
                             ELSE turn[t].saving \cup {RowOf(t, e)}
        /\ turn'[t].lost = turn[t].lost /\ turn'[t].unnamed = turn[t].unnamed
    BY <1>7, PollKeeps DEF Keeps
  <2>2. turn[t].sent \in Seq(Events) /\ turn[t].channel \in Seq(Events) /\ e \in Events
    BY <2>1 DEF TypeInv, Locals
  <2>3. RowOf(t, e).type = e.type
    BY <2>2, RowTyped
  <2> HIDE DEF e
  <2>4. /\ Len(turn'[t].sent) = n + 1 /\ turn'[t].sent[n + 1] = e
        /\ \A i \in 1 .. n + 1 : i = n + 1 \/ (i \in 1 .. n /\ turn'[t].sent[i] = turn[t].sent[i])
    BY <2>1, <2>2
  <2>5. (\E i \in 1 .. Len(turn'[t].sent) : turn'[t].sent[i].type = "answer") =>
          \/ \E i \in 1 .. Len(turn[t].sent) : turn[t].sent[i].type = "answer"
          \/ \E s \in Coming(turn'[t]) : s.type = "answer"
    BY <2>1, <2>3, <2>4 DEF Coming
  <2>6. open => open'
    BY <2>1 DEF open
  <2> QED
    BY <1>2, <1>3, <2>1, <2>5, <2>6 DEF Coming
<1>8. ASSUME NEW t \in Turn, Insert(t) PROVE LastInv'
  <2>1. PICK r \in turn[t].saving, done \in BOOLEAN :
          /\ turn'[t].saving = turn[t].saving \ {r}
          /\ turn'[t].lost = IF done THEN turn[t].lost ELSE turn[t].lost \cup {r}
          /\ turn'[t].touching = IF r.type = "answer" THEN turn[t].touching \cup {r}
                                 ELSE turn[t].touching
          /\ log' = IF done THEN Append(log, r) ELSE log
    BY <1>8, InsertKeeps
  <2>2. /\ Others(t) /\ session' = session /\ last' = last /\ turn'[t].sent = turn[t].sent
        /\ turn'[t].unnamed = turn[t].unnamed
    BY <1>8, InsertKeeps DEF Keeps
  <2>3. \A s : Saved(s) => Saved(s)'
    <3>1. r \in Rows /\ log \in Seq(Rows)
      BY DEF TypeInv, SessionOK, Locals
    <3>2. CASE done
      BY <2>1, <3>1, <3>2, RowAppended
    <3> QED
      BY <1>3, <2>1, <3>2
  <2>4. open => open'
    BY <2>2 DEF open
  <2> QED
    BY <1>2, <2>1, <2>2, <2>3, <2>4 DEF Coming
<1>9. ASSUME NEW t \in Turn, NameAnswer(t) PROVE LastInv'
  <2>1. PICK r \in turn[t].touching, done \in BOOLEAN :
          /\ turn'[t].touching = turn[t].touching \ {r}
          /\ turn'[t].unnamed = Unnamed(t, r, done)
          /\ last' = IF done /\ open THEN r ELSE last
    BY <1>9, NameAnswerKeeps
  <2>2. /\ Others(t) /\ UNCHANGED <<session, log>> /\ turn'[t].lost = turn[t].lost
        /\ turn'[t].saving = turn[t].saving /\ turn'[t].sent = turn[t].sent
    BY <1>9, NameAnswerKeeps DEF Keeps
  <2>3. CASE ~open
    BY <2>1, <2>2, <2>3 DEF LastInv, open
  <2>4. CASE ~done
    <3>1. turn'[t].unnamed = turn[t].unnamed \cup {r} /\ last' = last
      BY <2>1, <2>4 DEF Unnamed
    <3> QED
      BY <1>2, <1>3, <2>1, <2>2, <3>1 DEF Coming, open
  <2>5. CASE done /\ open
    <3>1. r.type = "answer" /\ r.turn = t /\ (Saved(r) \/ r \in turn[t].lost)
      BY <2>5 DEF RowsInv, Kept
    <3>2. Newest(r)'
      BY <1>3, <2>2, <3>1 DEF Newest
    <3> QED
      BY <2>1, <2>2, <2>5, <3>2 DEF LastInv, open
  <2> QED
    BY <2>3, <2>4, <2>5
<1>10. CASE DeleteSession
  BY <1>10 DEF DeleteSession, LastInv
<1>11. CASE UNCHANGED vars
  BY <1>11 DEF LastInv, Newest, Saved, open, vars
<1> QED
  BY StepCases, <1>4, <1>5, <1>6, <1>7, <1>8, <1>9, <1>10, <1>11

\* InputOnce, of one turn.
InputOK(t) ==
  (turn[t].pc = "loop" /\ turn[t].iteration = 0 /\ log # <<>> /\ Last(log) = Input(t)) =>
    /\ {i \in 1 .. Len(turn[t].messages) :
          turn[t].messages[i].turn = t /\ turn[t].messages[i].role = "user"} = {Len(turn[t].messages)}
    /\ Last(turn[t].messages) = MessageOf(Input(t))

\* A new context has no other message of the user's turn than the input: what the
\* session holds of the turn is the input, and if it is the last row, it is removed.
LEMMA StartInputOnce ==
  ASSUME TypeInv, SetupInv, RowsInv, NEW t \in Turn, Start(t)
  PROVE  InputOK(t)'
<1>1. PICK p : /\ Context(t, p)
               /\ turn'[t].messages = Append(p, Message(t, "user", {}, turn[t].text))
  BY StartSetsUp
<1>2. /\ Others(t) /\ log' = log /\ turn[t].pc = "asked"
      /\ turn'[t].role = turn[t].role /\ turn'[t].text = turn[t].text
  BY StartSetsUp DEF SettingUp
<1>3. turn[t].sent = <<>> /\ turn[t].role = "user"
  BY <1>2 DEF SetupInv, Ready, Setup
<1>4. Input(t)' = Input(t)
  BY <1>2 DEF Input
<1> DEFINE m == Message(t, "user", {}, turn[t].text)
           ms == turn'[t].messages
<1>5. MessageOf(Input(t)) = m /\ m.turn = t /\ m.role = "user" /\ m \in Messages
  <2>1. turn[t].text \in Text \cup {NoText}
    BY DEF TypeInv, Locals
  <2> QED
    BY <1>3, <2>1 DEF Input, InputRow, MessageOf, NoCall, RoleOf, Role, Message, Messages
<1> SUFFICES ASSUME log # <<>>, Last(log) = Input(t)
             PROVE  /\ {i \in 1 .. Len(ms) : ms[i].turn = t /\ ms[i].role = "user"} = {Len(ms)}
                    /\ Last(ms) = m
  BY <1>2, <1>4, <1>5 DEF InputOK
<1>6. log \in Seq(Rows) /\ p \in Seq(Messages)
  BY <1>1 DEF TypeInv, SessionOK, Context
<1>7. ASSUME NEW k \in 1 .. Len(log), MessageOf(log[k]).turn = t
      PROVE  k = Len(log) /\ MessageOf(log[k]).role = "user" /\ MessageOf(log[k]).text = turn[t].text
  <2>1. log[k] \in Rows /\ log[k].turn = t
    BY <1>6, <1>7, MessageOfTyped
  <2>2. log[k] = Input(t)
    BY <1>3, <2>1 DEF RowsInv, RowOK, SentRow
  <2>3. k = Len(log)
    BY <1>6, <2>2 DEF RowsInv, Last
  <2> QED
    BY <1>5, <2>2, <2>3 DEF Message
<1>8. ASSUME NEW i \in 1 .. Len(p) PROVE ~(p[i].turn = t /\ p[i].role = "user")
  <2>1. CASE p[i] = Message(t, "system", {}, NoText)
    BY <2>1 DEF Message
  <2>2. CASE \E k \in 1 .. Len(log) :
               /\ p[i] = MessageOf(log[k])
               /\ k = Len(log) => ~(MessageOf(log[k]).role = "user"
                                    /\ MessageOf(log[k]).text = turn[t].text)
    BY <1>7, <2>2
  <2> QED
    BY <1>1, <2>1, <2>2 DEF Context
<1> HIDE DEF m
<1>9. ms = Append(p, m)
  BY <1>1 DEF m
<1> HIDE DEF ms
<1>10. /\ Len(ms) = Len(p) + 1 /\ Len(p) \in Nat /\ ms[Len(ms)] = m
       /\ \A i \in 1 .. Len(ms) : i = Len(ms) \/ (i \in 1 .. Len(p) /\ ms[i] = p[i])
  BY <1>5, <1>6, <1>9
<1>11. Len(ms) \in 1 .. Len(ms) /\ Last(ms) = m
  BY <1>10 DEF Last
<1> QED
  BY <1>5, <1>8, <1>10, <1>11

LEMMA InputStep ==
  ASSUME TypeInv, SetupInv, RowsInv, TypeInv', \A u \in Turn : InputOK(u), [Next]_vars
  PROVE  \A u \in Turn : InputOK(u)'
<1>1. ASSUME NEW t \in Turn, Others(t), log' = log, InputOK(t)', NEW u \in Turn
      PROVE  InputOK(u)'
  <2>1. CASE u # t
    <3>1. turn'[u] = turn[u] /\ Input(u)' = Input(u)
      BY <1>1, <2>1, OtherRows
    <3> QED
      BY <1>1, <3>1 DEF InputOK
  <2> QED
    BY <1>1, <2>1
<1>2. ASSUME NEW t \in Turn, turn'[t].pc # "loop" \/ turn'[t].iteration # 0
      PROVE  InputOK(t)'
  BY <1>2 DEF InputOK
<1>3. ASSUME NEW t \in Turn, InputOK(t), log' = log, turn'[t].pc = turn[t].pc,
             turn'[t].role = turn[t].role, turn'[t].text = turn[t].text,
             turn'[t].messages = turn[t].messages, turn'[t].iteration = turn[t].iteration
      PROVE  InputOK(t)'
  <2>1. Input(t)' = Input(t)
    BY <1>3 DEF Input
  <2> QED
    BY <1>3, <2>1 DEF InputOK
<1>4. ASSUME NEW t \in Turn, TaskStep(t), NEW u \in Turn PROVE InputOK(u)'
  <2>1. Working(t)
    BY <1>4, TaskStepWorks
  <2>2. turn'[t].pc # "loop" \/ turn'[t].iteration # 0
    BY <1>4, LoopWorks, CompleteWorks, CallToolWorks, ExecuteWorks DEF TaskStep, TypeInv
  <2> QED
    BY <1>1, <1>2, <2>1, <2>2 DEF Working
<1>5. ASSUME NEW t \in Turn, SetupStep(t), ~Ask(t), NEW u \in Turn PROVE InputOK(u)'
  <2>1. SettingUp(t) /\ log' = log /\ (Start(t) \/ turn'[t].pc # "loop")
    BY <1>5, EnterSetsUp, FailSetsUp, NameInputSetsUp, StartSetsUp DEF SetupStep
  <2> QED
    BY <1>1, <1>2, <2>1, StartInputOnce DEF SettingUp
<1>6. ASSUME NEW t \in Turn, Ask(t), NEW u \in Turn PROVE InputOK(u)'
  <2>1. /\ SettingUp(t) /\ turn'[t].pc # "loop"
        /\ log' = log \/ log' = Append(log, Input(t)')
    BY <1>6, AskSetsUp
  <2>2. CASE log' = log \/ u = t
    BY <1>1, <1>2, <2>1, <2>2 DEF SettingUp
  <2>3. CASE log' = Append(log, Input(t)') /\ u # t
    <3>1. PICK r : r = Input(t)'
      OBVIOUS
    <3>2. PICK v : v = Input(u)'
      OBVIOUS
    <3>3. r.turn = t /\ v.turn = u
      BY <3>1, <3>2 DEF Input, InputRow
    <3>4. log \in Seq(Rows) /\ log' \in Seq(Rows) /\ log' = Append(log, r)
      BY <2>3, <3>1 DEF TypeInv, SessionOK
    <3>5. Last(log)' = r
      BY <3>4 DEF Last
    <3> QED
      BY <2>3, <3>2, <3>3, <3>5 DEF InputOK
  <2> QED
    BY <2>1, <2>2, <2>3
<1>7. ASSUME NEW t \in Turn, Send(t) \/ Poll(t) \/ NameAnswer(t), NEW u \in Turn
      PROVE  InputOK(u)'
  <2>1. Keeps(t) /\ log' = log
    BY <1>7, SendKeeps, PollKeeps, NameAnswerKeeps
  <2> QED
    BY <1>1, <1>3, <2>1 DEF Keeps
<1>8. ASSUME NEW t \in Turn, Insert(t), NEW u \in Turn PROVE InputOK(u)'
  <2>1. Keeps(t) /\ \E r \in turn[t].saving : log' = Append(log, r) \/ log' = log
    BY <1>8, InsertKeeps
  <2>2. PICK r \in turn[t].saving : log' = Append(log, r) \/ log' = log
    BY <2>1
  <2>3. CASE log' = log
    BY <1>1, <1>3, <2>1, <2>3 DEF Keeps
  <2>4. CASE log' = Append(log, r)
    <3>1. SentRow(t, r) /\ r \in Rows /\ log \in Seq(Rows)
      BY SentTyped DEF RowsInv, Kept, TypeInv, SessionOK
    <3>2. r # Input(u)
      BY <3>1, InputNotSent
    <3>3. Input(u)' = Input(u)
      <4>1. CASE u = t
        BY <2>1, <4>1 DEF Keeps, Input
      <4> QED
        BY <2>1, <4>1, OtherRows DEF Keeps
    <3>4. Last(log)' = r
      BY <2>2, <2>4, <3>1 DEF Last
    <3> QED
      BY <3>2, <3>3, <3>4 DEF InputOK
  <2> QED
    BY <2>2, <2>3, <2>4
<1>9. ASSUME NEW t \in Turn, HangUp(t), NEW u \in Turn PROVE InputOK(u)'
  <2>1. /\ Others(t) /\ log' = log
        /\ turn'[t].pc = turn[t].pc \/ turn'[t].pc = "refused"
        /\ turn'[t].role = turn[t].role /\ turn'[t].text = turn[t].text
        /\ turn'[t].messages = turn[t].messages /\ turn'[t].iteration = turn[t].iteration
    BY <1>9, HangUpLeaves
  <2> QED
    BY <1>1, <1>2, <1>3, <2>1
<1>10. CASE DeleteSession
  BY <1>10 DEF DeleteSession, InputOK
<1>11. CASE UNCHANGED vars
  BY <1>11 DEF InputOK, Input, vars
<1> QED
  BY StepCases, <1>4, <1>5, <1>6, <1>7, <1>8, <1>9, <1>10, <1>11

-----------------------------------------------------------------------------
(* The theorems. *)

LEMMA IInvInit ==
  ASSUME Init PROVE IInv
<1>1. \A t \in Turn : turn[t].pc = "new"
  BY DEF Init, Fresh
<1>2. InputOnce
  BY <1>1 DEF InputOnce
<1>3. LastInv
  BY DEF Init, LastInv
<1>4. EventsInv
  BY EventsInit DEF EventsInv
<1> QED
  BY <1>2, <1>3, <1>4, TypeInit, SetupInit, CallsInit, RowsInit DEF IInv

LEMMA IInvStep ==
  ASSUME IInv, [Next]_vars PROVE IInv'
<1>1. TypeInv /\ SetupInv /\ EventsInv /\ CallsInv /\ RowsInv /\ LastInv /\ InputOnce
  BY DEF IInv
<1>2. TypeInv' /\ SetupInv' /\ EventsInv' /\ CallsInv' /\ RowsInv'
  BY <1>1, TypeStep, SetupStepKept, EventsStep, CallsStep, RowsStep
<1>3. LastInv'
  BY <1>1, <1>2, LastStep
<1>4. \A t \in Turn : InputOK(t)
  BY <1>1 DEF InputOnce, InputOK
<1>5. \A t \in Turn : InputOK(t)'
  BY <1>1, <1>2, <1>4, InputStep
<1>6. InputOnce'
  BY <1>5 DEF InputOnce, InputOK
<1> QED
  BY <1>2, <1>3, <1>6 DEF IInv

\* The inductive invariant of the turns: types, events, calls, messages, inserts and rows.
THEOREM ChatInvariant == Spec => []IInv
<1>1. Init => IInv
  BY IInvInit
<1>2. IInv /\ [Next]_vars => IInv'
  BY IInvStep
<1> QED
  BY <1>1, <1>2, PTL DEF Spec

\* ChatEndsOnce: the stream of a turn carries one answer or error, as its last event,
\* and a task that is over has emitted it.
THEOREM ChatEndsOnce == Spec => []EndsOnce
<1>1. IInv => EndsOnce
  BY DEF IInv, EventsInv, EventsOK, Ending, EndsOnce
<1> QED
  BY <1>1, ChatInvariant, PTL

\* ChatCallsAnswered: when the provider is asked, each tool call of the turn's
\* messages is answered by one tool message, in order.
THEOREM ChatCallsAnswered == Spec => []CallsAnswered
<1>1. IInv => CallsAnswered
  <2> SUFFICES ASSUME IInv, NEW t \in Turn, turn[t].pc \in {"loop", "provider"}
               PROVE  LET ms == turn[t].messages
                          Answers(i) == ms[i].turn = t /\ ms[i].role = "tool"
                      IN  \A i \in 1 .. Len(ms) : (ms[i].turn = t /\ ms[i].role = "assistant") =>
                            \A c \in ms[i].calls :
                              /\ i + c[2] <= Len(ms)
                              /\ Answers(i + c[2]) /\ ms[i + c[2]].calls = {c}
    BY DEF CallsAnswered
  <2>1. \A i \in 1 .. Len(turn[t].messages) :
          Asking(turn[t].messages, t, i) => Answered(turn[t].messages, t, i)
    BY DEF IInv, CallsInv, CallsOK
  <2> QED
    BY <2>1 DEF Asking, Answered, AnsweredBy, Mine
<1> QED
  BY <1>1, ChatInvariant, PTL

\* ChatInputOnce: the input is once in the context, whatever the history holds.
THEOREM ChatInputOnce == Spec => []InputOnce
<1>1. IInv => InputOnce
  BY DEF IInv
<1> QED
  BY <1>1, ChatInvariant, PTL

\* ChatSavedWhenQuiet: when a turn that was read to its end has no insert left, the
\* session holds its input and behind it, each once, the events it sent but an error
\* and those whose own insert failed.
THEOREM ChatSavedWhenQuiet == Spec => []SavedWhenQuiet
<1>1. IInv => SavedWhenQuiet
  <2> SUFFICES ASSUME IInv, NEW t \in Turn, open, turn[t].pc = "end", turn[t].connected,
                      turn[t].saving = {}
               PROVE  LET saved == {e \in ToSet(turn[t].sent) : e.type # "error"}
                          mine == {i \in 1 .. Len(log) : log[i].turn = t}
                      IN  /\ {log[i] : i \in mine} = {Input(t)} \cup ({RowOf(t, e) : e \in saved} \ turn[t].lost)
                          /\ \A i, j \in mine : log[i] = log[j] => i = j
                          /\ \A i, j \in mine : log[i] = Input(t) => i <= j
                          /\ \A i, j \in 1 .. Len(turn[t].sent) :
                               turn[t].sent[i] = turn[t].sent[j] => i = j
    BY DEF SavedWhenQuiet
  <2> DEFINE saved == {e \in ToSet(turn[t].sent) : e.type # "error"}
             mine == {i \in 1 .. Len(log) : log[i].turn = t}
  <2>1. TypeInv /\ RowsInv /\ Kept(t) /\ EventsOK(t)
    BY DEF IInv, RowsInv, EventsInv
  <2>2. turn[t].sent \in Seq(Events) /\ turn[t].channel \in Seq(Events)
        /\ turn[t].outbox \in Seq(Events)
    BY <2>1 DEF TypeInv, Locals
  <2>3. \A r : SentRow(t, r) <=> r \in {RowOf(t, e) : e \in saved}
    <3>1. \A e : e \in saved <=> \E i \in 1 .. Len(turn[t].sent) :
                                     e = turn[t].sent[i] /\ turn[t].sent[i].type # "error"
      BY <2>2 DEF ToSet
    <3> HIDE DEF saved
    <3> QED
      BY <3>1 DEF SentRow
  <2>4. \A i \in mine : log[i] = Input(t) \/ SentRow(t, log[i])
    BY <2>1 DEF RowsInv, RowOK
  <2>5. Saved(Input(t)) /\ \A r : SentRow(t, r) => Saved(r) \/ r \in turn[t].lost
    <3>1. \A r : SentRow(t, r) => r \in Rows
      BY <2>1, SentTyped
    <3> QED
      BY <2>1, <3>1 DEF Kept, Early
  <2>12. \A i \in mine : log[i] \notin turn[t].lost
    BY <2>1 DEF Kept, Saved
  <2>6. \A r : (r = Input(t) \/ (SentRow(t, r) /\ r \notin turn[t].lost)) => \E i \in mine : log[i] = r
    <3>1. \A r : (r = Input(t) \/ SentRow(t, r)) => r.turn = t
      BY <2>1, SentTyped, InputIsTyped
    <3> QED
      BY <2>5, <3>1 DEF Saved
  <2>7. {log[i] : i \in mine} = {Input(t)} \cup ({RowOf(t, e) : e \in saved} \ turn[t].lost)
    <3> HIDE DEF mine, saved
    <3> QED
      BY <2>3, <2>4, <2>6, <2>12
  <2>8. \A i, j \in mine : log[i] = log[j] => i = j
    BY <2>1 DEF RowsInv
  <2>9. \A i, j \in mine : log[i] = Input(t) => i <= j
    BY <2>1 DEF RowsInv, Opens
  <2>10. \A i, j \in 1 .. Len(turn[t].sent) : turn[t].sent[i] = turn[t].sent[j] => i = j
    <3> DEFINE es == Emitted(t)
    <3>1. \A i, j \in 1 .. Len(es) : es[i] = es[j] => i = j
      BY <2>1 DEF EventsOK, Tidy
    <3>2. \A i \in 1 .. Len(turn[t].sent) : i \in 1 .. Len(es) /\ es[i] = turn[t].sent[i]
      <4> DEFINE s == turn[t].sent
                 c == turn[t].channel
                 o == turn[t].outbox
      <4>1. s \in Seq(Events) /\ c \in Seq(Events) /\ o \in Seq(Events) /\ es = (s \o c) \o o
        BY <2>2 DEF Emitted
      <4> HIDE DEF s, c, o
      <4>2. \A i \in 1 .. Len(s) : i \in 1 .. Len((s \o c) \o o) /\ ((s \o c) \o o)[i] = s[i]
        BY <4>1, SentFirst
      <4> HIDE DEF es
      <4> QED
        BY <4>1, <4>2 DEF s
    <3> HIDE DEF es
    <3> QED
      BY <3>1, <3>2
  <2> HIDE DEF mine, saved
  <2>11. /\ {log[i] : i \in mine} = {Input(t)} \cup ({RowOf(t, e) : e \in saved} \ turn[t].lost)
         /\ \A i, j \in mine : log[i] = log[j] => i = j
         /\ \A i, j \in mine : log[i] = Input(t) => i <= j
         /\ \A i, j \in 1 .. Len(turn[t].sent) : turn[t].sent[i] = turn[t].sent[j] => i = j
    BY <2>7, <2>8, <2>9, <2>10
  <2> QED
    BY <2>11, Zenon DEF mine, saved
<1> QED
  BY <1>1, ChatInvariant, PTL

\* ChatAnswerIsLast: the last message of a session is one of its rows, or an answer
\* that was lost; and behind an answer that was sent and has no task of its own left,
\* it is an answer, unless the update for the answer failed.
THEOREM ChatAnswerIsLast == Spec => []AnswerIsLast
<1>1. IInv => AnswerIsLast
  <2> SUFFICES ASSUME IInv, open, last # NoRow
               PROVE  LET t == last.turn
                          Answers(rows) == \E r \in rows : r.type = "answer"
                      IN
                      /\ last \in ToSet(log) \/ (last \in turn[t].lost /\ last.type = "answer")
                      /\ (turn[t].saving \cup turn[t].touching = {}
                          /\ \E i \in 1 .. Len(turn[t].sent) : turn[t].sent[i].type = "answer") =>
                            last.type = "answer" \/ Answers(turn[t].unnamed)
    BY DEF AnswerIsLast
  <2>1. Newest(last)
    BY DEF IInv, LastInv
  <2> QED
    BY <2>1 DEF Newest, Coming, Saved, ToSet
<1> QED
  BY <1>1, ChatInvariant, PTL
=============================================================================
