-------------------------- MODULE ChatAnswers_proofs --------------------------
(***************************************************************************)
(* What the turns of ChatSession say to the server, for every bound and as *)
(* long as no turn is cancelled.  AskInv: an answer goes to the message    *)
(* that asked.  FreshInv, ToldInv, ChatInv: what the next turn is built on *)
(* finished, because the chat has heard of every run that did not before   *)
(* it hears of its end.  TwiceInv: of a turn nothing is shown that is      *)
(* still on its way, unless the chat is to be told first to drop what it   *)
(* shows.  They stand on the invariants of ChatTurns_proofs.               *)
(***************************************************************************)
EXTENDS ChatTurns_proofs, FiniteSetTheorems

----------------------------------------------------------------------------
(* Questions and their messages.                                           *)

\* The question at hand is that of the message at hand, and, while a turn runs, of
\* the message the turn is about.
AsksMatch ==
  /\ pending_interrupt # None => pending_interrupt.msg = message_id
  /\ pending_interrupt # None /\ turn # None => pending_interrupt.msg = task[turn].msg
  /\ question # None => question.msg = message_id

\* So is a question read from the store.
Matching(l) == l # None /\ l.pending # None => l.pending.msg = l.msg
LoadsMatch == \A i \in 1 .. Len(loaded) : Matching(loaded[i])

AnswersMatch ==
  \A t \in Turns : request[t] # None /\ request[t].kind = "Continue"
                     => request[t].msg = request[t].asked

AskInv == Uncancelled => AsksMatch /\ LoadsMatch /\ AnswersMatch

LEMMA InitAsk == Init => AskInv
  BY DEF Init, AskInv, AsksMatch, LoadsMatch, AnswersMatch

\* What the gate lets through comes from the loop's turn, and no question is open
\* while it runs.
LEMMA HeadIsTurns ==
  ASSUME IInv, TInv, OneTurn, events # <<>>, Current(Head(events))
  PROVE  /\ Head(events).turn = turn /\ turn \in Turns /\ turn # None
         /\ Head(events) \in GoodEvents /\ question = None
         /\ 1 \in Coming /\ Head(events) = events[1]
  <1>1. Len(events) \in Nat /\ Len(events) # 0 /\ Head(events) = events[1]
    BY OneTurnTypes
  <1>2. 1 \in Coming /\ 1 \in 1 .. Len(events)
    BY <1>1 DEF Coming
  <1>3. events[1].turn = turn /\ events[1] \in GoodEvents /\ turn \in Turns
    BY <1>2, OneTurnTypes DEF OneTurn
  <1>4. turn # None
    BY <1>3, OneTurnTypes
  <1>5. question = None
    BY <1>4 DEF TInv, QuestionsBetweenTurns
  <1>. QED BY <1>1, <1>2, <1>3, <1>4, <1>5

LEMMA AskTypes ==
  ASSUME IInv
  PROVE  /\ pending_interrupt # None => pending_interrupt.msg \in Msgs
         /\ question # None => question.msg \in Msgs
         /\ None \notin Msgs
         /\ request \in [Turns -> Requests \cup {None}]
         /\ task \in [Turns -> Tasks]
         /\ loaded \in Seq(Snapshots \cup {None}) /\ Len(loaded) \in Nat
         /\ server \in [Msgs -> Messages]
  <1>1. TypeOK
    BY DEF IInv
  <1>2. \A q \in Interrupts : q.msg \in Msgs
    BY DEF Interrupts
  <1>3. None \notin Msgs
    BY ChatAssumption DEF Msgs
  <1>. QED BY <1>1, <1>2, <1>3, LenProperties
           DEF TypeOK, ChatTypeOK, UiTypeOK, TasksTypeOK, ChannelsTypeOK

\* A cancel and a sign-out end what is said here.
LEMMA CancelEnds ==
  ASSUME IInv, Cancel \/ SignOut
  PROVE  ~Uncancelled'
  <1>1. PICK what \in {"cancel", "signout"} : Spend(what)
    BY DEF Cancel, SignOut
  <1>2. used'[what] = used[what] + 1 /\ used[what] \in Nat
    BY <1>1, AsideTypes DEF Spend, Budgets
  <1>. QED BY <1>1, <1>2 DEF Uncancelled

\* What touches neither the questions, the message at hand nor what was asked.
LEMMA AsideAsk ==
  ASSUME AskInv, Uncancelled' => Uncancelled,
         UNCHANGED <<message_id, pending_interrupt, turn, loaded, request>>,
         question' = question \/ question' = None,
         pending_interrupt # None /\ turn # None => task'[turn].msg = task[turn].msg
  PROVE  AskInv'
  BY DEF AskInv, AsksMatch, LoadsMatch, Matching, AnswersMatch

\* A turn starts without a question at hand.
LEMMA SpawnAsk ==
  ASSUME IInv, AskInv, Uncancelled' => Uncancelled, UNCHANGED loaded,
         spawned + 1 \in Turns, NEW req, NEW lines, NEW report,
         Spawn(req, lines, report), question' = None,
         Uncancelled /\ req.kind = "Continue" => req.msg = req.asked
  PROVE  AskInv'
  <1>. SUFFICES ASSUME Uncancelled, Uncancelled'
                PROVE  AsksMatch' /\ LoadsMatch' /\ AnswersMatch'
    BY DEF AskInv
  <1>1. /\ pending_interrupt' = None
        /\ request' = [request EXCEPT ![spawned + 1] = req]
    BY DEF Spawn
  <1>2. AsksMatch'
    BY <1>1 DEF AsksMatch
  <1>3. LoadsMatch'
    BY DEF AskInv, LoadsMatch, Matching
  <1>4. AnswersMatch'
    <2>. SUFFICES ASSUME NEW t \in Turns, request'[t] # None, request'[t].kind = "Continue"
                  PROVE  request'[t].msg = request'[t].asked
      BY DEF AnswersMatch
    <2>1. CASE t = spawned + 1
      <3>1. request'[t] = req
        BY <1>1, <2>1, AskTypes
      <3>. QED BY <3>1
    <2>2. CASE t # spawned + 1
      <3>1. request'[t] = request[t]
        BY <1>1, <2>2, AskTypes
      <3>. QED BY <3>1 DEF AskInv, AnswersMatch
    <2>. QED BY <2>1, <2>2
  <1>. QED BY <1>2, <1>3, <1>4

\* build_request answers the question at hand, with the message at hand.
LEMMA BuiltAnswers ==
  ASSUME NEW pending, NEW parent, pending # None => pending.msg = message_id,
         BuildRequest(pending, parent).kind = "Continue"
  PROVE  BuildRequest(pending, parent).msg = BuildRequest(pending, parent).asked
  BY DEF BuildRequest

LEMMA StartAsk ==
  ASSUME IInv, TInv, AskInv, Uncancelled' => Uncancelled,
         SendPrompt \/ RetryLast \/ ClickFurther \/ AnswerQuestion
  PROVE  AskInv'
  <1>1. spawned + 1 \in Turns /\ UNCHANGED loaded
    <2>1. RoomForTurn /\ UNCHANGED loading
      BY DEF SendPrompt, RetryLast, ClickFurther, AnswerQuestion, StartTurn
    <2>. QED BY <2>1, OneTurnTypes, ChatAssumption DEF RoomForTurn, Turns, loading
  <1>2. CASE SendPrompt \/ RetryLast \/ ClickFurther
    <2>. DEFINE req == BuildRequest(pending_interrupt, parent_message_id)
    <2>1. \E report : Spawn(req, messages, report)
      BY <1>2 DEF SendPrompt, RetryLast, ClickFurther, StartTurn
    <2>2. question' = None
      BY <1>2 DEF SendPrompt, RetryLast, ClickFurther, ui, TInv, QuestionsBetweenTurns
    <2>3. Uncancelled /\ req.kind = "Continue" => req.msg = req.asked
      BY BuiltAnswers DEF AskInv, AsksMatch
    <2>. HIDE DEF req
    <2>. QED BY <1>1, <2>1, <2>2, <2>3, SpawnAsk
  <1>3. CASE AnswerQuestion
    <2>1. question # None /\ question' = None
      BY <1>3 DEF AnswerQuestion
    <2>2. CASE chat_uid # None /\ message_id # None
      <3>. DEFINE req == [kind |-> "Continue", chat |-> chat_uid, msg |-> message_id,
                          parent |-> None, asked |-> question.msg, account |-> account]
      <3>1. Spawn(req, messages, Started)
        BY <1>3, <2>2 DEF AnswerQuestion
      <3>2. Uncancelled => req.msg = req.asked
        BY <2>1 DEF AskInv, AsksMatch
      <3>. HIDE DEF req
      <3>. QED BY <1>1, <2>1, <3>1, <3>2, SpawnAsk
    <2>3. CASE ~(chat_uid # None /\ message_id # None)
      <3>1. UNCHANGED <<message_id, pending_interrupt, turn, request, task>>
        BY <1>3, <2>3 DEF AnswerQuestion, ids
      <3>. QED BY <1>1, <2>1, <3>1, AsideAsk
    <2>. QED BY <2>2, <2>3
  <1>. QED BY <1>2, <1>3

\* The question a turn ends with is opened, or goes out with the queue.
LEMMA FinishAsk ==
  ASSUME IInv, TInv, SInv, AskInv, Uncancelled' => Uncancelled, ReceiveTurnFinished
  PROVE  AskInv'
  <1>. DEFINE failed == Head(events).error \/ turn_error
              pending == IF failed THEN None ELSE pending_interrupt
              parent == FinishedParent(failed)
              opens == pending # None /\ FullySelectable(pending)
              asked == IF opens THEN pending ELSE question
              waits == asked # None /\ HasConfirmation(asked)
              ended == [reported EXCEPT !.finishes = ReportFinish]
              queue == TakeQueued(waits)
  <1>1. /\ IF queue = <<>>
           THEN /\ pending_interrupt' = pending /\ turn' = None /\ question' = asked
                /\ UNCHANGED request
           ELSE /\ question' = None
                /\ Spawn(BuildRequest(pending, parent), FinishedLines(failed),
                         [ended EXCEPT !.starts = @ \cup {spawned + 1}])
        /\ UNCHANGED <<message_id, loaded>>
    BY DEF ReceiveTurnFinished, Receive, loading
  <1>2. Uncancelled => (pending # None => pending.msg = message_id)
    BY DEF AskInv, AsksMatch
  <1>3. CASE queue = <<>>
    <2>. SUFFICES ASSUME Uncancelled PROVE AsksMatch' /\ LoadsMatch' /\ AnswersMatch'
      BY DEF AskInv
    <2>. HIDE DEF queue, pending
    <2>1. AsksMatch'
      BY <1>1, <1>2, <1>3 DEF AskInv, AsksMatch
    <2>2. LoadsMatch' /\ AnswersMatch'
      BY <1>1, <1>3 DEF AskInv, LoadsMatch, Matching, AnswersMatch
    <2>. QED BY <2>1, <2>2
  <1>4. CASE queue # <<>>
    <2>1. spawned + 1 \in Turns
      BY <1>4, OneTurnTypes, ChatAssumption DEF TakeQueued, IInv, QueueHasRoom, Turns
    <2>. DEFINE req == BuildRequest(pending, parent)
    <2>2. Uncancelled /\ req.kind = "Continue" => req.msg = req.asked
      <3>. HIDE DEF pending, parent
      <3>. QED BY <1>2, BuiltAnswers
    <2>3. \E lines, report : Spawn(req, lines, report)
      BY <1>1, <1>4
    <2>. HIDE DEF req, queue
    <2>. QED BY <1>1, <1>4, <2>1, <2>2, <2>3, SpawnAsk
  <1>. QED BY <1>3, <1>4

\* A conversation taken from the store brings its own question.
LEMMA LoadAsk ==
  ASSUME IInv, AskInv, Uncancelled' => Uncancelled, ReceiveLoad
  PROVE  AskInv'
  <1>. DEFINE l == Head(loaded)
  <1>1. loaded # <<>> /\ loaded' = Tail(loaded) /\ UNCHANGED request
    BY DEF ReceiveLoad
  <1>. SUFFICES ASSUME Uncancelled PROVE AsksMatch' /\ LoadsMatch' /\ AnswersMatch'
    BY DEF AskInv
  <1>2. LoadsMatch /\ AnswersMatch /\ AsksMatch
    BY DEF AskInv
  <1>3. /\ Len(loaded') = Len(loaded) - 1 /\ Len(loaded) \in Nat
        /\ \A i \in 1 .. Len(loaded') : loaded'[i] = loaded[i + 1]
        /\ l = loaded[1] /\ 1 \in 1 .. Len(loaded)
    BY <1>1, AskTypes, HeadTailProperties
  <1>4. LoadsMatch'
    <2>. SUFFICES ASSUME NEW i \in 1 .. Len(loaded') PROVE Matching(loaded'[i])
      BY DEF LoadsMatch, Matching
    <2>1. loaded'[i] = loaded[i + 1] /\ i + 1 \in 1 .. Len(loaded)
      BY <1>3
    <2>. QED BY <1>2, <2>1 DEF LoadsMatch
  <1>5. AnswersMatch'
    BY <1>1, <1>2 DEF AnswersMatch
  <1>6. CASE l = None
    <2>1. UNCHANGED <<message_id, pending_interrupt, turn, task, question>>
      BY <1>6 DEF ReceiveLoad, chat, ids, ui
    <2>2. AsksMatch'
      BY <1>2, <2>1 DEF AsksMatch
    <2>. QED BY <1>4, <1>5, <2>2
  <1>7. CASE l # None
    <2>1. /\ message_id' = l.msg /\ pending_interrupt' = l.pending /\ turn' = None
          /\ question' = l.pending \/ question' = None
      BY <1>7 DEF ReceiveLoad, AbandonTurn, SwitchTo
    <2>2. Matching(l)
      BY <1>2, <1>3 DEF LoadsMatch
    <2>. HIDE DEF l
    <2>3. AsksMatch'
      BY <1>7, <2>1, <2>2 DEF AsksMatch, Matching
    <2>. QED BY <1>4, <1>5, <2>3
  <1>. QED BY <1>6, <1>7

\* load_detail takes the question from the message it takes as the last.
LEMMA StoreAsk ==
  ASSUME IInv, AskInv, FinishLoad
  PROVE  AskInv'
  <1>1. UNCHANGED <<message_id, pending_interrupt, turn, task, request, question, used>>
    BY DEF FinishLoad, chat, ids, ui
  <1>. SUFFICES ASSUME Uncancelled PROVE AsksMatch' /\ LoadsMatch' /\ AnswersMatch'
    BY <1>1 DEF AskInv, Uncancelled
  <1>2. AsksMatch' /\ AnswersMatch'
    BY <1>1 DEF AskInv, AsksMatch, AnswersMatch
  <1>3. PICK load \in loads :
          \E l \in Stored(load[1]) \cup {None} : loaded' = Append(loaded, l)
    BY DEF FinishLoad
  <1>3a. PICK l \in Stored(load[1]) \cup {None} : loaded' = Append(loaded, l)
    BY <1>3
  <1>4. Matching(l)
    BY DEF Matching, Stored, Pending
  <1>5. l \in Snapshots \cup {None}
    <2>1. load[1] \in Msgs
      BY DEF IInv, TypeOK, ChannelsTypeOK
    <2>. QED BY <2>1, StoredType
  <1>6. /\ Len(loaded') = Len(loaded) + 1 /\ Len(loaded) \in Nat
        /\ \A i \in 1 .. Len(loaded) : loaded'[i] = loaded[i]
        /\ loaded'[Len(loaded) + 1] = l
    BY <1>3a, <1>5, AskTypes, AppendProperties
  <1>7. LoadsMatch'
    <2>. SUFFICES ASSUME NEW i \in 1 .. Len(loaded') PROVE Matching(loaded'[i])
      BY DEF LoadsMatch, Matching
    <2>1. CASE i = Len(loaded) + 1
      BY <1>4, <1>6, <2>1
    <2>2. CASE i # Len(loaded) + 1
      <3>1. i \in 1 .. Len(loaded)
        BY <1>6, <2>2
      <3>. QED BY <1>6, <3>1 DEF AskInv, LoadsMatch
    <2>. QED BY <2>1, <2>2
  <1>. QED BY <1>2, <1>7

\* The events of a turn under way: two of them name its message.
LEMMA MidAsk ==
  ASSUME IInv, TInv, SInv, AskInv, Uncancelled' => Uncancelled,
         \/ ReceiveTurnStarted \/ ReceiveDelta \/ ReceiveToolStarted
         \/ ReceiveToolFinished \/ ReceiveMeta \/ ReceiveInterrupt
         \/ ReceiveTurnError \/ ReceiveStreamInterrupted
  PROVE  AskInv'
  <1>1. /\ events # <<>> /\ Current(Head(events))
        /\ UNCHANGED <<turn, task, question, loaded, request>>
    BY DEF Receive, MidTurn, ui, loading, ReceiveTurnStarted, ReceiveDelta,
           ReceiveToolStarted, ReceiveToolFinished, ReceiveMeta, ReceiveInterrupt,
           ReceiveTurnError, ReceiveStreamInterrupted
  <1>2. Uncancelled => Head(events).turn = turn /\ question = None
    BY <1>1, HeadIsTurns DEF SInv
  <1>3. CASE ReceiveTurnStarted \/ ReceiveInterrupt
    <2>. DEFINE m == task[Head(events).turn].msg
    <2>1. /\ message_id' = m
          /\ \/ pending_interrupt' = pending_interrupt
             \/ pending_interrupt'.msg = m
      BY <1>3 DEF ReceiveTurnStarted, ReceiveInterrupt
    <2>. SUFFICES ASSUME Uncancelled PROVE AsksMatch' /\ LoadsMatch' /\ AnswersMatch'
      BY DEF AskInv
    <2>2. AsksMatch /\ LoadsMatch /\ AnswersMatch /\ m = task[turn].msg
          /\ turn # None /\ question = None
      BY <1>1, <1>2, HeadIsTurns DEF AskInv, SInv
    <2>3. LoadsMatch' /\ AnswersMatch'
      BY <1>1, <2>2 DEF LoadsMatch, Matching, AnswersMatch
    <2>. HIDE DEF m
    <2>4. AsksMatch'
      BY <1>1, <2>1, <2>2 DEF AsksMatch
    <2>. QED BY <2>3, <2>4
  <1>4. CASE ~ReceiveTurnStarted /\ ~ReceiveInterrupt
    <2>1. UNCHANGED <<message_id, pending_interrupt>>
      BY <1>4 DEF ids, ReceiveDelta, ReceiveToolStarted, ReceiveToolFinished,
                  ReceiveMeta, ReceiveTurnError, ReceiveStreamInterrupted
    <2>. QED BY <1>1, <2>1, AsideAsk
  <1>. QED BY <1>3, <1>4

\* Only the server's acceptance gives a task its message.
LEMMA TaskGoesOn ==
  ASSUME IInv, NEW t \in Turns, Stream(t) \/ End(t) \/ AbortLands(t) \/ Disconnect(t)
  PROVE  /\ \A u \in Turns : /\ task'[u].msg = task[u].msg
                             /\ task'[u].st = "idle" => task[u].st = "idle"
                             /\ task[u].readback => task'[u].readback
         /\ \A u \in Turns : u # t => task'[u] = task[u]
  <1>1. CASE Stream(t)
    <2>1. \E what : task' = [task EXCEPT ![t].out = @ \cup what]
      BY <1>1 DEF Stream, Send
    <2>. QED BY <2>1, AskTypes DEF Tasks
  <1>2. CASE End(t) \/ AbortLands(t)
    <2>1. task' = [task EXCEPT ![t].st = "ended"]
      BY <1>2 DEF End, AbortLands
    <2>. QED BY <2>1, AskTypes DEF Tasks
  <1>3. CASE Disconnect(t)
    <2>1. /\ task[t].st # "idle" /\ ~task[t].readback
          /\ \E back : task' = [task EXCEPT ![t].out = {}, ![t].readback = back]
      BY <1>3 DEF Disconnect, Running
    <2>. QED BY <2>1, AskTypes DEF Tasks
  <1>. QED BY <1>1, <1>2, <1>3

\* A task changes the message it is about only when it is accepted, and a turn that
\* was not has no question at hand.
LEMMA TaskAsk ==
  ASSUME IInv, AskInv, Uncancelled' => Uncancelled, NEW t \in Turns,
         TurnTask(t) \/ Disconnect(t)
  PROVE  AskInv'
  <1>1. UNCHANGED <<message_id, pending_interrupt, turn, question, loaded, request>>
    BY DEF TurnTask, Accept, Stream, Send, End, AbortLands, Disconnect, chat, ids, ui,
           loading
  <1>2. CASE Accept(t)
    <2>. SUFFICES ASSUME Uncancelled' PROVE AskInv'
      BY DEF AskInv
    <2>1. task[t].msg = None
          /\ \A u \in Turns : u # t => task'[u].msg = task[u].msg
      BY <1>2, AskTypes DEF Accept
    <2>2. pending_interrupt # None => turn # t
      BY <2>1, AskTypes, OneTurnTypes DEF AskInv, AsksMatch
    <2>3. pending_interrupt # None /\ turn # None => task'[turn].msg = task[turn].msg
      BY <2>1, <2>2, OneTurnTypes
    <2>. QED BY <1>1, <2>3, AsideAsk
  <1>3. CASE ~Accept(t)
    <2>1. \A u \in Turns : task'[u].msg = task[u].msg
      BY <1>3, TaskGoesOn DEF TurnTask
    <2>2. turn # None => task'[turn].msg = task[turn].msg
      BY <2>1, OneTurnTypes
    <2>. QED BY <1>1, <2>2, AsideAsk
  <1>. QED BY <1>2, <1>3

LEMMA NextAsk == IInv /\ TInv /\ SInv /\ AskInv /\ [Next]_vars => AskInv'
  <1>. SUFFICES ASSUME IInv, TInv, SInv, AskInv, [Next]_vars PROVE AskInv'
    OBVIOUS
  <1>1. Uncancelled' => Uncancelled
    BY UncancelledBefore
  <1>2. CASE \/ QueuePrompt \/ Navigate \/ SignIn \/ RequestLoad \/ DropStale
             \/ UNCHANGED vars
             \/ \E m \in Msgs : Settle(m)
    <2>1. /\ UNCHANGED <<message_id, pending_interrupt, turn, loaded, request, task>>
          /\ question' = question \/ question' = None
      BY <1>2 DEF QueuePrompt, Navigate, SwitchTo, SignIn, RequestLoad, DropStale, Settle,
                  vars, chat, ids, ui, loading
    <2>. QED BY <1>1, <2>1, AsideAsk
  <1>3. CASE SendPrompt \/ RetryLast \/ ClickFurther \/ AnswerQuestion
    BY <1>1, <1>3, StartAsk
  <1>4. CASE Cancel \/ SignOut
    BY <1>4, CancelEnds DEF AskInv
  <1>5. CASE NewSession
    <2>1. /\ pending_interrupt' = None /\ question' = None
          /\ UNCHANGED <<loaded, request>>
      BY <1>5 DEF NewSession, SwitchTo, loading
    <2>. QED BY <1>1, <2>1 DEF AskInv, AsksMatch, LoadsMatch, Matching, AnswersMatch
  <1>6. CASE ReceiveLoad
    BY <1>1, <1>6, LoadAsk
  <1>7. CASE ReceiveTurnFinished
    BY <1>1, <1>7, FinishAsk
  <1>8. CASE Loop /\ ~ReceiveLoad /\ ~ReceiveTurnFinished /\ ~DropStale
    BY <1>1, <1>8, MidAsk DEF Loop
  <1>9. CASE FinishLoad
    BY <1>9, StoreAsk
  <1>10. CASE \E t \in Turns : TurnTask(t) \/ Disconnect(t)
    BY <1>1, <1>10, TaskAsk
  <1>. QED BY <1>2, <1>3, <1>4, <1>5, <1>6, <1>7, <1>8, <1>9, <1>10
           DEF Next, Reader, Loop

----------------------------------------------------------------------------
(* Messages exist once their turn is accepted, and keep what they finished *)
(* with.                                                                   *)

\* A task that was not accepted has no message, and the message named after a turn
\* is there only once that turn, or one that resumed it, was accepted.
FreshInv ==
  \A t \in Turns :
    /\ task[t].st = "idle" => task[t].msg = None
    /\ server[t].st # "absent" => task[t].msg # None
    /\ task[t].msg # None => server[task[t].msg].st # "absent"

LEMMA InitFresh == Init => FreshInv
  <1>. SUFFICES ASSUME Init, NEW t \in Turns
                PROVE  task[t].msg = None /\ server[t].st = "absent"
    BY DEF FreshInv
  <1>1. t \in Msgs /\ t > 0
    BY ChatAssumption DEF Turns, Msgs
  <1>2. server[t].st = "absent"
    BY <1>1 DEF Init
  <1>3. task[t].msg = None
    BY DEF Init
  <1>. QED BY <1>2, <1>3

\* How a step can change the tasks, what they were asked and the server.
Starts ==
  spawned + 1 \in Turns /\ \E req, lines, report : Spawn(req, lines, report)

LEMMA StepsOfTasks ==
  ASSUME IInv, [Next]_vars
  PROVE  \/ Starts /\ UNCHANGED server
         \/ AbandonTurn /\ UNCHANGED <<request, server>>
         \/ \E t \in Turns : Accept(t)
         \/ \E m \in Msgs : Settle(m)
         \/ \E t \in Turns : /\ Stream(t) \/ End(t) \/ AbortLands(t) \/ Disconnect(t)
                             /\ UNCHANGED <<request, server>>
         \/ UNCHANGED <<task, request, server>>
  <1>1. CASE SendPrompt \/ RetryLast \/ ClickFurther \/ AnswerQuestion
    <2>1. spawned + 1 \in Turns
      <3>1. RoomForTurn
        BY <1>1 DEF SendPrompt, RetryLast, ClickFurther, AnswerQuestion
      <3>. QED BY <3>1, OneTurnTypes, ChatAssumption DEF RoomForTurn, Turns
    <2>. QED BY <1>1, <2>1
             DEF Starts, SendPrompt, RetryLast, ClickFurther, AnswerQuestion, StartTurn
  <1>2. CASE ReceiveTurnFinished
    <2>1. queued # <<>> => spawned + 1 \in Turns
      BY OneTurnTypes, ChatAssumption DEF IInv, QueueHasRoom, Turns
    <2>2. \/ UNCHANGED <<task, request>>
          \/ queued # <<>> /\ \E req, lines, report : Spawn(req, lines, report)
      BY <1>2 DEF ReceiveTurnFinished, TakeQueued
    <2>3. UNCHANGED server
      BY <1>2 DEF ReceiveTurnFinished, Receive
    <2>. QED BY <2>1, <2>2, <2>3 DEF Starts
  <1>3. CASE Cancel \/ SignOut \/ NewSession \/ ReceiveLoad
    BY <1>3 DEF Cancel, SignOut, CancelTurn, NewSession, ReceiveLoad
  <1>4. CASE \/ QueuePrompt \/ Navigate \/ SignIn \/ RequestLoad \/ FinishLoad
             \/ UNCHANGED vars
    BY <1>4 DEF QueuePrompt, Navigate, SignIn, RequestLoad, FinishLoad, vars
  <1>5. CASE Loop /\ ~ReceiveLoad /\ ~ReceiveTurnFinished
    BY <1>5 DEF Loop, DropStale, Receive, MidTurn, ReceiveTurnStarted, ReceiveDelta,
          ReceiveToolStarted, ReceiveToolFinished, ReceiveMeta, ReceiveInterrupt,
          ReceiveTurnError, ReceiveStreamInterrupted
  <1>6. CASE \E t \in Turns : TurnTask(t) \/ Disconnect(t)
    <2>1. PICK t \in Turns : TurnTask(t) \/ Disconnect(t)
      BY <1>6
    <2>2. CASE Stream(t)
      BY <2>2 DEF Stream, Send
    <2>3. CASE End(t) \/ AbortLands(t) \/ Disconnect(t)
      BY <2>3 DEF End, AbortLands, Disconnect
    <2>. QED BY <2>1, <2>2, <2>3 DEF TurnTask
  <1>. QED BY <1>1, <1>2, <1>3, <1>4, <1>5, <1>6 DEF Next, Reader, Loop

\* What a start changes: the new turn's task and request.
LEMMA StartsOne ==
  ASSUME IInv, Starts
  PROVE  /\ turn' = spawned + 1 /\ task[spawned + 1].st = "idle"
         /\ task'[spawned + 1].st = "live" /\ task'[spawned + 1].msg = None
         /\ task'[spawned + 1].out = {} /\ task'[spawned + 1].generation = generation
         /\ \A t \in Turns : t # spawned + 1 =>
              task'[t] = task[t] /\ request'[t] = request[t]
         /\ pending_interrupt' = None
  <1>1. PICK req, lines, report : Spawn(req, lines, report)
    BY DEF Starts
  <1>. DEFINE t == spawned + 1
              new == [st |-> "live", generation |-> generation, thread |-> thread,
                      msg |-> None, out |-> {}, readback |-> FALSE]
  <1>2. /\ turn' = t /\ task' = [task EXCEPT ![t] = new]
        /\ request' = [request EXCEPT ![t] = req] /\ pending_interrupt' = None
    BY <1>1 DEF Spawn
  <1>3. new.st = "live" /\ new.generation = generation /\ new.msg = None /\ new.out = {}
    OBVIOUS
  <1>. HIDE DEF new
  <1>4. t \in Turns /\ task \in [Turns -> Tasks]
        /\ request \in [Turns -> Requests \cup {None}] /\ spawned \in Nat
    BY AskTypes, OneTurnTypes DEF Starts
  <1>5. task'[t] = new /\ \A u \in Turns : u # t =>
          task'[u] = task[u] /\ request'[u] = request[u]
    BY <1>2, <1>4
  <1>6. task[t].st = "idle"
    BY <1>4 DEF IInv, Spawned
  <1>. QED BY <1>2, <1>3, <1>5, <1>6

\* Dropping a turn changes no more than what the task is up to.
LEMMA AbandonsOne ==
  ASSUME IInv, AbandonTurn
  PROVE  \A t \in Turns : /\ task'[t].msg = task[t].msg
                          /\ task'[t].readback = task[t].readback
                          /\ task'[t].st = "idle" => task[t].st = "idle"
  <1>1. task' = Aborted
    BY DEF AbandonTurn
  <1>2. CASE turn = None \/ task[turn].st # "live"
    BY <1>1, <1>2 DEF Aborted
  <1>3. CASE turn # None /\ task[turn].st = "live"
    <2>1. task' = [task EXCEPT ![turn].st = "aborting"]
      BY <1>1, <1>3 DEF Aborted
    <2>. QED BY <2>1, AskTypes, OneTurnTypes DEF Tasks
  <1>. QED BY <1>2, <1>3

\* The server takes a new message for a turn without one, or resumes one that asks.
LEMMA AcceptsOne ==
  ASSUME IInv, NEW t \in Turns, Accept(t)
  PROVE  \E m \in Msgs :
           /\ task[t].st # "idle" /\ task[t].msg = None
           /\ request[t] \in Requests
           /\ \/ request[t].kind = "New" /\ m = t
              \/ request[t].kind = "Continue" /\ m = request[t].msg /\ server[m].st = "asking"
           /\ server'[m].st = "running"
           /\ server'[m].chat = IF request[t].chat = None THEN t ELSE request[t].chat
           /\ \A n \in Msgs : n # m => server'[n] = server[n]
           /\ task'[t].msg = m /\ task'[t].out = {"Started"}
           /\ task'[t].st = task[t].st /\ task'[t].readback = task[t].readback
           /\ \A u \in Turns : u # t => task'[u] = task[u]
           /\ UNCHANGED request
  <1>. DEFINE r == request[t]
              m == IF r.kind = "New" THEN t ELSE r.msg
              c == IF r.chat = None THEN t ELSE r.chat
              new == [st |-> "running", ask |-> None, owner |-> r.account, chat |-> c]
  <1>1. /\ Running(t) /\ task[t].msg = None
        /\ r.kind = "Continue" => server[m].st = "asking"
        /\ server' = [server EXCEPT ![m] = new]
        /\ task' = [task EXCEPT ![t].msg = m, ![t].out = {"Started"}]
        /\ UNCHANGED request
    BY DEF Accept
  <1>2. task[t].st # "idle" /\ r \in Requests
    BY <1>1 DEF Running, IInv, Spawned
  <1>3. m \in Msgs /\ (r.kind = "New" \/ r.kind = "Continue")
    <2>1. t \in Msgs
      BY ChatAssumption DEF Turns, Msgs
    <2>. QED BY <1>2, <2>1 DEF Requests
  <1>4. new.st = "running" /\ new.chat = c
    OBVIOUS
  <1>. HIDE DEF new, m
  <1>5. server'[m] = new /\ \A n \in Msgs : n # m => server'[n] = server[n]
    BY <1>1, <1>3, AskTypes
  <1>6. /\ task'[t].msg = m /\ task'[t].out = {"Started"}
        /\ task'[t].st = task[t].st /\ task'[t].readback = task[t].readback
        /\ \A u \in Turns : u # t => task'[u] = task[u]
    BY <1>1, AskTypes DEF Tasks
  <1>7. \/ r.kind = "New" /\ m = t
        \/ r.kind = "Continue" /\ m = r.msg /\ server[m].st = "asking"
    BY <1>1, <1>3 DEF m
  <1>. QED BY <1>1, <1>2, <1>3, <1>4, <1>5, <1>6, <1>7

\* A run that ends was running.
LEMMA SettlesOne ==
  ASSUME IInv, NEW m \in Msgs, Settle(m)
  PROVE  /\ server[m].st = "running" /\ server'[m].st \in {"finished", "failed", "asking"}
         /\ server'[m].chat = server[m].chat
         /\ \A n \in Msgs : n # m => server'[n] = server[n]
         /\ UNCHANGED <<task, request>>
  <1>1. server[m].st = "running" /\ UNCHANGED <<task, request>>
    BY DEF Settle
  <1>2. \/ \E st \in {"finished", "failed"} : server' = [server EXCEPT ![m].st = st]
        \/ \E a \in Asks : server' = [server EXCEPT ![m].st = "asking", ![m].ask = a]
    BY DEF Settle
  <1>. QED BY <1>1, <1>2, AskTypes DEF Messages

LEMMA NextFresh == IInv /\ FreshInv /\ [Next]_vars => FreshInv'
  <1>. SUFFICES ASSUME IInv, FreshInv, [Next]_vars PROVE FreshInv'
    OBVIOUS
  <1>1. ASSUME UNCHANGED <<request, server>>,
               \A t \in Turns : /\ task'[t].msg = task[t].msg
                                /\ task'[t].st = "idle" => task[t].st = "idle"
        PROVE  FreshInv'
    BY <1>1 DEF FreshInv
  <1>2. \A t \in Turns : t \in Msgs
    BY ChatAssumption DEF Turns, Msgs
  <1>3. CASE Starts /\ UNCHANGED server
    <2>. SUFFICES ASSUME NEW t \in Turns
         PROVE  /\ task'[t].st = "idle" => task'[t].msg = None
                /\ server'[t].st # "absent" => task'[t].msg # None
                /\ task'[t].msg # None =>
                     server'[task'[t].msg].st # "absent"
      BY DEF FreshInv
    <2>1. CASE t = spawned + 1
      <3>1. task[t].st = "idle" /\ task'[t].msg = None
        BY <1>3, <2>1, StartsOne
      <3>2. server[t].st = "absent"
        BY <3>1 DEF FreshInv
      <3>. QED BY <1>3, <3>1, <3>2
    <2>2. CASE t # spawned + 1
      <3>1. task'[t] = task[t] /\ request'[t] = request[t]
        BY <1>3, <2>2, StartsOne
      <3>. QED BY <1>3, <3>1 DEF FreshInv
    <2>. QED BY <2>1, <2>2
  <1>4. CASE AbandonTurn /\ UNCHANGED <<request, server>>
    BY <1>1, <1>4, AbandonsOne
  <1>5. ASSUME NEW t \in Turns, Accept(t) PROVE FreshInv'
    <2>1. PICK m \in Msgs :
           /\ task[t].st # "idle" /\ task[t].msg = None
           /\ request[t] \in Requests
           /\ \/ request[t].kind = "New" /\ m = t
              \/ request[t].kind = "Continue" /\ m = request[t].msg /\ server[m].st = "asking"
           /\ server'[m].st = "running"
           /\ \A n \in Msgs : n # m => server'[n] = server[n]
           /\ task'[t].msg = m
           /\ task'[t].st = task[t].st
           /\ \A u \in Turns : u # t => task'[u] = task[u]
           /\ UNCHANGED request
      BY <1>5, AcceptsOne
    <2>2. m # None
      BY AskTypes
    <2>. SUFFICES ASSUME NEW u \in Turns
         PROVE  /\ task'[u].st = "idle" => task'[u].msg = None
                /\ server'[u].st # "absent" => task'[u].msg # None
                /\ task'[u].msg # None =>
                     server'[task'[u].msg].st # "absent"
      BY DEF FreshInv
    <2>3. CASE u = t
      BY <2>1, <2>2, <2>3
    <2>4. CASE u # t
      <3>1. task'[u] = task[u] /\ request'[u] = request[u] /\ task[u] \in Tasks
        BY <2>1, <2>4, AskTypes
      <3>2. \A n \in Msgs : server'[n].st # "absent" => server[n].st # "absent" \/ n = t
        BY <2>1
      <3>3. \A n \in Msgs : server[n].st # "absent" => server'[n].st # "absent"
        BY <2>1
      <3>4. task[u].msg # None => task[u].msg \in Msgs
        BY <3>1 DEF Tasks
      <3>. QED BY <1>2, <2>4, <3>1, <3>2, <3>3, <3>4 DEF FreshInv
    <2>. QED BY <2>3, <2>4
  <1>6. ASSUME NEW m \in Msgs, Settle(m) PROVE FreshInv'
    <2>1. \A n \in Msgs : server'[n].st # "absent" <=> server[n].st # "absent"
      BY <1>6, SettlesOne
    <2>2. UNCHANGED <<task, request>>
      BY <1>6, SettlesOne
    <2>3. \A t \in Turns : task[t].msg # None => task[t].msg \in Msgs
      BY AskTypes DEF Tasks
    <2>. QED BY <1>2, <2>1, <2>2, <2>3 DEF FreshInv
  <1>7. ASSUME NEW t \in Turns, Stream(t) \/ End(t) \/ AbortLands(t) \/ Disconnect(t),
               UNCHANGED <<request, server>>
        PROVE  FreshInv'
    BY <1>1, <1>7, TaskGoesOn
  <1>8. CASE UNCHANGED <<task, request, server>>
    BY <1>1, <1>8
  <1>. QED BY <1>3, <1>4, <1>5, <1>6, <1>7, <1>8, StepsOfTasks

\* What the server has it keeps, and what it finished it never touches again.
LEMMA ServerKeeps ==
  ASSUME IInv, FreshInv, [Next]_vars, NEW m \in Msgs
  PROVE  /\ server[m].st = "finished" => server'[m] = server[m]
         /\ server[m].st # "absent" => server'[m].st # "absent"
  <1>1. ASSUME NEW t \in Turns, Accept(t)
        PROVE  /\ server[m].st = "finished" => server'[m] = server[m]
               /\ server[m].st # "absent" => server'[m].st # "absent"
    <2>1. PICK n \in Msgs :
           /\ task[t].msg = None
           /\ \/ request[t].kind = "New" /\ n = t
              \/ request[t].kind = "Continue" /\ n = request[t].msg /\ server[n].st = "asking"
           /\ server'[n].st = "running"
           /\ \A k \in Msgs : k # n => server'[k] = server[k]
      BY <1>1, AcceptsOne
    <2>2. server[n].st # "finished"
      BY <2>1 DEF FreshInv
    <2>. QED BY <2>1, <2>2
  <1>2. ASSUME NEW n \in Msgs, Settle(n)
        PROVE  /\ server[m].st = "finished" => server'[m] = server[m]
               /\ server[m].st # "absent" => server'[m].st # "absent"
    BY <1>2, SettlesOne
  <1>. QED BY <1>1, <1>2, StepsOfTasks

----------------------------------------------------------------------------
(* What a task sent and the loop has not taken yet.                        *)

Comes(kind) == \E i \in Coming : events[i].kind = kind
\* The last `kind` on its way comes after every `other`.
ComesAfter(kind, other) ==
  \E i \in Coming : events[i].kind = kind
                    /\ \A j \in Coming : j > i => events[j].kind # other
\* The first `kind` on its way comes before every `other`.
ComesBefore(kind, other) ==
  \E i \in Coming : events[i].kind = kind
                    /\ \A j \in Coming : j < i => events[j].kind # other

\* How a run ended is known to the chat, or comes before the turn's last event: a
\* question, a failure that no lost connection has voided, and, with a last event
\* that reports no error, one of them or a message that finished.
TurnIsCurrent == turn # None => task[turn].generation = generation
ToldAsk ==
  turn # None /\ "Ask" \in task[turn].out => pending_interrupt # None \/ Comes("Interrupt")
ToldError ==
  turn # None /\ "Error" \in task[turn].out =>
    \/ turn_error /\ ~Comes("StreamInterrupted")
    \/ ComesAfter("TurnError", "StreamInterrupted")
EndsWell(t) ==
  /\ task[t].msg # None
  /\ \/ Status(t) = "finished"
     \/ {"Ask", "Error"} \cap task[t].out # {}
     \/ task[t].readback
ToldEnd ==
  turn # None => \A i \in Coming : events[i].kind = "TurnFinished" /\ ~events[i].error
                                     => EndsWell(turn)

ToldInv == Uncancelled => TurnIsCurrent /\ ToldAsk /\ ToldError /\ ToldEnd

LEMMA InitTold == Init => ToldInv
  BY DEF Init, ToldInv, TurnIsCurrent, ToldAsk, ToldError, ToldEnd

\* Taking the first event, the others stay.
LEMMA TailKeeps ==
  ASSUME IInv, events # <<>>, events' = Tail(events), UNCHANGED generation
  PROVE  \A i \in Coming : i # 1 => i - 1 \in Coming' /\ events'[i - 1] = events[i]
  <1>1. Len(events') = Len(events) - 1 /\ Len(events) \in Nat
        /\ \A i \in 1 .. Len(events') : events'[i] = events[i + 1]
    BY OneTurnTypes, HeadTailProperties
  <1>. SUFFICES ASSUME NEW i \in Coming, i # 1
                PROVE  i - 1 \in Coming' /\ events'[i - 1] = events[i]
    OBVIOUS
  <1>2. i \in 1 .. Len(events) /\ i - 1 \in 1 .. Len(events')
    BY <1>1 DEF Coming
  <1>3. events'[i - 1] = events[i]
    BY <1>1, <1>2
  <1>. QED BY <1>2, <1>3 DEF Coming, Current

\* What comes when one more batch was sent.
LEMMA SentComing ==
  ASSUME IInv, NEW evs \in Seq(Events), events' = events \o evs, UNCHANGED generation
  PROVE  /\ \A i \in Coming : /\ i \in Coming' /\ events'[i] = events[i]
                              /\ i \in Nat /\ i <= Len(events)
         /\ \A i \in Coming' : i \in Nat /\ (i <= Len(events) => i \in Coming)
         /\ \A i \in Coming' : i > Len(events) =>
              /\ i - Len(events) \in 1 .. Len(evs)
              /\ events'[i] = evs[i - Len(events)]
         /\ \A k \in 1 .. Len(evs) : evs[k].generation = generation =>
              /\ Len(events) + k \in Coming' /\ Len(events) + k > Len(events)
              /\ events'[Len(events) + k] = evs[k]
  <1>. DEFINE n == Len(events)
  <1>. events \in Seq(Events)
    BY DEF IInv, TypeOK, ChannelsTypeOK
  <1>1. n \in Nat /\ Len(evs) \in Nat
    BY LenProperties
  <1>2. Len(events') = n + Len(evs)
        /\ \A i \in 1 .. n + Len(evs) : events'[i] = IF i <= n THEN events[i] ELSE evs[i - n]
    BY ConcatProperties
  <1>3. \A i \in 1 .. n : events'[i] = events[i] /\ i \in 1 .. Len(events')
    BY <1>1, <1>2
  <1>4. \A k \in 1 .. Len(evs) : n + k \in 1 .. Len(events') /\ events'[n + k] = evs[k]
                                 /\ n + k > n
    BY <1>1, <1>2
  <1>5. \A i \in 1 .. Len(events') : i \in Nat /\ i <= n => i \in 1 .. n
    BY <1>1, <1>2
  <1>6. \A i \in 1 .. Len(events') : i > n =>
          i - n \in 1 .. Len(evs) /\ events'[i] = evs[i - n]
    BY <1>1, <1>2
  <1>7. \A i \in Coming : i \in Coming' /\ events'[i] = events[i] /\ i \in Nat /\ i <= n
    BY <1>1, <1>3 DEF Coming, Current
  <1>8. \A i \in Coming' : i \in Nat /\ (i <= n => i \in Coming)
    BY <1>1, <1>2, <1>3, <1>5 DEF Coming, Current
  <1>9. \A i \in Coming' : i > n => i - n \in 1 .. Len(evs) /\ events'[i] = evs[i - n]
    BY <1>6 DEF Coming
  <1>10. \A k \in 1 .. Len(evs) : evs[k].generation = generation => n + k \in Coming'
    BY <1>4 DEF Coming, Current
  <1>. QED BY <1>4, <1>7, <1>8, <1>9, <1>10

\* What is neither of the loop's turn nor about what it sent.
LEMMA AsideTold ==
  ASSUME IInv, FreshInv, [Next]_vars, ToldInv, Uncancelled' => Uncancelled,
         UNCHANGED <<turn, generation, pending_interrupt, turn_error>>,
         Uncancelled => Coming' = Coming /\ \A i \in Coming : events'[i] = events[i],
         turn # None => /\ task'[turn].generation = task[turn].generation
                        /\ task'[turn].out = task[turn].out
                        /\ task[turn].msg # None => task'[turn].msg = task[turn].msg
                        /\ task'[turn].readback = task[turn].readback
  PROVE  ToldInv'
  <1>. SUFFICES ASSUME Uncancelled PROVE (TurnIsCurrent /\ ToldAsk /\ ToldError /\ ToldEnd)'
    BY DEF ToldInv
  <1>1. TurnIsCurrent /\ ToldAsk /\ ToldError /\ ToldEnd
    BY DEF ToldInv
  <1>2. Coming' = Coming /\ \A i \in Coming : events'[i] = events[i]
    OBVIOUS
  <1>3. \A kind, other : /\ Comes(kind)' <=> Comes(kind)
                         /\ ComesAfter(kind, other)' <=> ComesAfter(kind, other)
    BY <1>2 DEF Comes, ComesAfter
  <1>4. turn # None /\ EndsWell(turn) => EndsWell(turn)'
    <2>. SUFFICES ASSUME turn # None, EndsWell(turn) PROVE EndsWell(turn)'
      OBVIOUS
    <2>1. task[turn].msg \in Msgs /\ task'[turn].msg = task[turn].msg
      BY AskTypes, OneTurnTypes DEF EndsWell, Tasks
    <2>2. Status(turn) = "finished" => Status(turn)' = "finished"
      BY <2>1, ServerKeeps DEF Status
    <2>. QED BY <2>1, <2>2 DEF EndsWell
  <1>5. TurnIsCurrent'
    BY <1>1 DEF TurnIsCurrent
  <1>6. ToldAsk'
    BY <1>1, <1>3 DEF ToldAsk
  <1>7. ToldError'
    BY <1>1, <1>3 DEF ToldError
  <1>8. ToldEnd'
    BY <1>1, <1>2, <1>4 DEF ToldEnd
  <1>. QED BY <1>5, <1>6, <1>7, <1>8

\* The loop's turn sends a batch, which says what the batch adds to its account.
LEMMA SendTold ==
  ASSUME IInv, SInv, ToldInv, Uncancelled' => Uncancelled,
         UNCHANGED <<turn, generation, pending_interrupt, turn_error>>,
         turn \in Turns, Running(turn), NEW evs \in Seq(Events), events' = events \o evs,
         \A k \in 1 .. Len(evs) : evs[k].generation = task[turn].generation,
         task'[turn].generation = task[turn].generation,
         "Ask" \in task'[turn].out =>
           "Ask" \in task[turn].out \/ \E k \in 1 .. Len(evs) : evs[k].kind = "Interrupt",
         "Error" \in task'[turn].out =>
           /\ \A k \in 1 .. Len(evs) : evs[k].kind # "StreamInterrupted"
           /\ "Error" \in task[turn].out \/ \E k \in 1 .. Len(evs) : evs[k].kind = "TurnError",
         \A k \in 1 .. Len(evs) : evs[k].kind = "TurnFinished" /\ ~evs[k].error
                                    => EndsWell(turn)'
  PROVE  ToldInv'
  <1>. SUFFICES ASSUME Uncancelled PROVE (TurnIsCurrent /\ ToldAsk /\ ToldError /\ ToldEnd)'
    BY DEF ToldInv
  <1>. DEFINE n == Len(events)
  <1>1. TurnIsCurrent /\ ToldAsk /\ ToldError /\ ToldEnd /\ turn # None
    BY OneTurnTypes DEF ToldInv
  <1>2. \A k \in 1 .. Len(evs) : evs[k].generation = generation
    BY <1>1 DEF TurnIsCurrent
  <1>3. \A i \in Coming : i \in Coming' /\ events'[i] = events[i] /\ i \in Nat /\ i <= n
    BY SentComing
  <1>4. \A i \in Coming' : /\ i \in Nat
                           /\ i <= n => i \in Coming
                           /\ i > n => i - n \in 1 .. Len(evs) /\ events'[i] = evs[i - n]
    BY SentComing
  <1>5. \A k \in 1 .. Len(evs) : n + k \in Coming' /\ n + k > n /\ events'[n + k] = evs[k]
    BY <1>2, SentComing
  <1>6. n \in Nat
    BY OneTurnTypes
  <1>7. TurnIsCurrent'
    BY <1>1 DEF TurnIsCurrent
  <1>8. ToldAsk'
    <2>. SUFFICES ASSUME "Ask" \in task'[turn].out
                  PROVE  pending_interrupt # None \/ Comes("Interrupt")'
      BY DEF ToldAsk
    <2>1. CASE "Ask" \in task[turn].out
      BY <1>1, <1>3, <2>1 DEF ToldAsk, Comes
    <2>2. CASE \E k \in 1 .. Len(evs) : evs[k].kind = "Interrupt"
      BY <1>5, <2>2 DEF Comes
    <2>. QED BY <2>1, <2>2
  <1>9. ToldError'
    <2>. SUFFICES ASSUME "Error" \in task'[turn].out
                  PROVE  \/ turn_error /\ ~Comes("StreamInterrupted")'
                         \/ ComesAfter("TurnError", "StreamInterrupted")'
      BY DEF ToldError
    <2>1. \A i \in Coming' : i > n => events'[i].kind # "StreamInterrupted"
      <3>. SUFFICES ASSUME NEW i \in Coming', i > n
                    PROVE  events'[i].kind # "StreamInterrupted"
        OBVIOUS
      <3>1. i - n \in 1 .. Len(evs) /\ events'[i] = evs[i - n]
        BY <1>4
      <3>. QED BY <3>1
    <2>2. CASE turn_error /\ ~Comes("StreamInterrupted")
      <3>1. \A i \in Coming : events[i].kind # "StreamInterrupted"
        BY <2>2 DEF Comes
      <3>2. ASSUME NEW i \in Coming' PROVE events'[i].kind # "StreamInterrupted"
        <4>1. CASE i <= n
          BY <1>3, <1>4, <3>1, <4>1
        <4>2. CASE i > n
          BY <2>1, <4>2
        <4>3. i \in Nat
          BY <1>4
        <4>4. i <= n \/ i > n
          BY <1>6, <4>3
        <4>. QED BY <4>1, <4>2, <4>4
      <3>. QED BY <2>2, <3>2 DEF Comes
    <2>3. CASE ComesAfter("TurnError", "StreamInterrupted")
      <3>1. PICK i \in Coming : /\ events[i].kind = "TurnError"
                                /\ \A j \in Coming : j > i => events[j].kind # "StreamInterrupted"
        BY <2>3 DEF ComesAfter
      <3>2. \A j \in Coming' : j > i => events'[j].kind # "StreamInterrupted"
        BY <1>3, <1>4, <1>6, <2>1, <3>1
      <3>. QED BY <1>3, <3>1, <3>2 DEF ComesAfter
    <2>4. CASE \E k \in 1 .. Len(evs) : evs[k].kind = "TurnError"
      <3>1. PICK k \in 1 .. Len(evs) : evs[k].kind = "TurnError"
        BY <2>4
      <3>2. n + k \in Coming' /\ n + k > n /\ events'[n + k].kind = "TurnError"
        BY <1>5, <3>1
      <3>3. \A j \in Coming' : j > n + k => j > n
        BY <1>4, <1>6, <3>1
      <3>. QED BY <2>1, <3>2, <3>3 DEF ComesAfter
    <2>. QED BY <1>1, <2>2, <2>3, <2>4 DEF ToldError
  <1>10. ToldEnd'
    <2>. SUFFICES ASSUME NEW i \in Coming', events'[i].kind = "TurnFinished",
                         ~events'[i].error
                  PROVE  EndsWell(turn)'
      BY DEF ToldEnd
    <2>1. CASE i <= n
      <3>1. i \in Coming /\ events[i].kind = "TurnFinished"
        BY <1>3, <1>4, <2>1
      <3>. QED BY <3>1 DEF SInv, OneTurn, Running
    <2>2. CASE i > n
      <3>1. i - n \in 1 .. Len(evs) /\ events'[i] = evs[i - n]
        BY <1>4, <2>2
      <3>. QED BY <3>1
    <2>. QED BY <1>4, <1>6, <2>1, <2>2
  <1>. QED BY <1>7, <1>8, <1>9, <1>10

\* The loop takes an event of its turn, or drops one that is none: what it says is
\* known then.
LEMMA TakeTold ==
  ASSUME IInv, ToldInv, Uncancelled' => Uncancelled,
         events # <<>>, events' = Tail(events),
         UNCHANGED <<turn, generation, task, server>>,
         pending_interrupt # None => pending_interrupt' # None,
         Current(Head(events)) =>
           /\ Head(events).kind = "Interrupt" => pending_interrupt' # None
           /\ Head(events).kind = "TurnError" => turn_error'
           /\ turn_error /\ Head(events).kind # "StreamInterrupted" => turn_error',
         ~Current(Head(events)) => UNCHANGED turn_error
  PROVE  ToldInv'
  <1>. SUFFICES ASSUME Uncancelled PROVE (TurnIsCurrent /\ ToldAsk /\ ToldError /\ ToldEnd)'
    BY DEF ToldInv
  <1>1. TurnIsCurrent /\ ToldAsk /\ ToldError /\ ToldEnd
    BY DEF ToldInv
  <1>2. \A i \in Coming' : i \in Nat /\ i + 1 \in Coming /\ events'[i] = events[i + 1]
    BY TailComing
  <1>3. \A i \in Coming : i # 1 => i - 1 \in Coming' /\ events'[i - 1] = events[i]
    BY TailKeeps
  <1>4. /\ \A i \in Coming : i \in Nat
        /\ 1 \in Coming <=> Current(Head(events))
        /\ events[1] = Head(events)
    <2>1. Len(events) \in Nat /\ Len(events) # 0 /\ Head(events) = events[1]
      BY OneTurnTypes
    <2>. QED BY <2>1 DEF Coming
  <1>5. \A kind : Comes(kind) => \/ Comes(kind)'
                                 \/ Current(Head(events)) /\ Head(events).kind = kind
    BY <1>3, <1>4 DEF Comes
  <1>6. \A kind : Comes(kind)' => Comes(kind)
    BY <1>2 DEF Comes
  <1>7. TurnIsCurrent'
    BY <1>1 DEF TurnIsCurrent
  <1>8. ToldAsk'
    BY <1>1, <1>5 DEF ToldAsk
  <1>9. ToldError'
    <2>. SUFFICES ASSUME turn # None, "Error" \in task[turn].out
                  PROVE  \/ turn_error' /\ ~Comes("StreamInterrupted")'
                         \/ ComesAfter("TurnError", "StreamInterrupted")'
      BY DEF ToldError
    <2>1. CASE turn_error /\ ~Comes("StreamInterrupted")
      <3>1. Current(Head(events)) => Head(events).kind # "StreamInterrupted"
        BY <1>4, <2>1 DEF Comes
      <3>. QED BY <1>6, <2>1, <3>1
    <2>2. CASE ComesAfter("TurnError", "StreamInterrupted")
      <3>1. PICK i \in Coming : /\ events[i].kind = "TurnError"
                                /\ \A j \in Coming : j > i => events[j].kind # "StreamInterrupted"
        BY <2>2 DEF ComesAfter
      <3>2. CASE i = 1
        <4>1. ASSUME NEW j \in Coming' PROVE j + 1 > 1 /\ j + 1 \in Coming /\ events'[j] = events[j + 1]
          <5>1. j \in Nat /\ j # 0
            BY <1>2 DEF Coming
          <5>2. j + 1 > 1
            BY <5>1
          <5>. QED BY <1>2, <5>2
        <4>2. ~Comes("StreamInterrupted")'
          BY <3>1, <3>2, <4>1 DEF Comes
        <4>. QED BY <1>4, <3>1, <3>2, <4>2
      <3>3. CASE i # 1
        <4>1. i - 1 \in Coming' /\ events'[i - 1].kind = "TurnError"
          BY <1>3, <3>1, <3>3
        <4>2. ASSUME NEW j \in Coming', j > i - 1
              PROVE  j + 1 > i /\ j + 1 \in Coming /\ events'[j] = events[j + 1]
          <5>1. j \in Nat /\ i \in Nat
            BY <1>2, <1>4
          <5>2. j + 1 > i
            BY <4>2, <5>1
          <5>. QED BY <1>2, <5>2
        <4>. QED BY <3>1, <4>1, <4>2 DEF ComesAfter
      <3>. QED BY <3>2, <3>3
    <2>. QED BY <1>1, <2>1, <2>2 DEF ToldError
  <1>10. ToldEnd'
    <2>1. turn # None /\ EndsWell(turn) => EndsWell(turn)'
      BY DEF EndsWell, Status
    <2>. QED BY <1>1, <1>2, <2>1 DEF ToldEnd
  <1>. QED BY <1>7, <1>8, <1>9, <1>10

\* One event, sent.
LEMMA OneSent ==
  ASSUME IInv, NEW t \in Turns, NEW kind \in Kinds, NEW error \in BOOLEAN,
         NEW evs, evs = <<Event(t, kind, None, error)>>
  PROVE  /\ evs \in Seq(Events) /\ Len(evs) = 1 /\ 1 \in 1 .. Len(evs)
         /\ \A k \in 1 .. Len(evs) : /\ evs[k].generation = task[t].generation
                                     /\ evs[k].kind = kind /\ evs[k].error = error
         /\ Append(events, Event(t, kind, None, error)) = events \o evs
  <1>. DEFINE e == Event(t, kind, None, error)
  <1>1. e \in Events /\ e.turn = t /\ e.generation = task[t].generation /\ e.kind = kind
    <2>1. None \in Asks \cup {None}
      OBVIOUS
    <2>. QED BY <2>1, SentEvent
  <1>2. e.error = error
    BY DEF Event
  <1>3. events \in Seq(Events)
    BY DEF IInv, TypeOK, ChannelsTypeOK
  <1>. HIDE DEF e
  <1>4. Append(events, e) = events \o <<e>>
    BY <1>1, <1>3, AppendIsConcat
  <1>5. evs = <<e>>
    BY DEF e
  <1>6. evs \in Seq(Events) /\ Len(evs) = 1 /\ \A k \in 1 .. Len(evs) : evs[k] = e
    BY <1>1, <1>5
  <1>. QED BY <1>1, <1>2, <1>4, <1>5, <1>6 DEF e

\* An event that carries neither a question nor an error, sent.
LEMMA PlainSent ==
  ASSUME IInv, NEW t \in Turns, NEW kind \in Kinds, NEW evs, evs = <<Plain(t, kind)>>
  PROVE  /\ evs \in Seq(Events) /\ Len(evs) = 1 /\ 1 \in 1 .. Len(evs)
         /\ \A k \in 1 .. Len(evs) : /\ evs[k].generation = task[t].generation
                                     /\ evs[k].kind = kind
         /\ Append(events, Plain(t, kind)) = events \o evs
  <1>. DEFINE error == FALSE
  <1>1. Plain(t, kind) = Event(t, kind, None, error) /\ error \in BOOLEAN
    BY DEF Plain
  <1>. HIDE DEF error
  <1>. QED BY <1>1, OneSent

\* A task the loop no longer holds sends nothing the gate lets through.
LEMMA OthersSend ==
  ASSUME IInv, OneTurn, NEW t \in Turns, Running(t), t # turn, UNCHANGED generation,
         NEW evs \in Seq(Events), events' = events \o evs,
         \A k \in 1 .. Len(evs) : evs[k].generation = task[t].generation
  PROVE  Coming' = Coming /\ \A i \in Coming : events'[i] = events[i]
  <1>1. task[t].generation # generation
    BY DEF OneTurn
  <1>2. \A i \in Coming' : i <= Len(events)
    <2>. SUFFICES ASSUME NEW i \in Coming', i > Len(events) PROVE FALSE
      <3>1. Len(events) \in Nat /\ \A i \in Coming' : i \in Nat
        BY SentComing, OneTurnTypes
      <3>. QED BY <3>1
    <2>1. i - Len(events) \in 1 .. Len(evs) /\ events'[i] = evs[i - Len(events)]
      BY SentComing
    <2>2. events'[i].generation = task[t].generation
      BY <2>1
    <2>. QED BY <1>1, <2>2 DEF Coming, Current
  <1>. QED BY <1>2, SentComing

\* Every batch a task sends, and what it says of the task's own account.
LEMMA BatchTold ==
  ASSUME IInv, FreshInv, SInv, ToldInv, [Next]_vars, Uncancelled' => Uncancelled,
         NEW t \in Turns, Running(t),
         UNCHANGED <<turn, generation, pending_interrupt, turn_error>>,
         NEW evs \in Seq(Events), events' = events \o evs,
         \A k \in 1 .. Len(evs) : evs[k].generation = task[t].generation,
         task'[t].generation = task[t].generation,
         \A u \in Turns : u # t => task'[u] = task[u],
         "Ask" \in task'[t].out =>
           "Ask" \in task[t].out \/ \E k \in 1 .. Len(evs) : evs[k].kind = "Interrupt",
         "Error" \in task'[t].out =>
           /\ \A k \in 1 .. Len(evs) : evs[k].kind # "StreamInterrupted"
           /\ "Error" \in task[t].out \/ \E k \in 1 .. Len(evs) : evs[k].kind = "TurnError",
         \A k \in 1 .. Len(evs) : evs[k].kind = "TurnFinished" /\ ~evs[k].error => EndsWell(t)'
  PROVE  ToldInv'
  <1>1. CASE t = turn
    BY <1>1, SendTold
  <1>2. CASE t # turn
    <2>1. Uncancelled => Coming' = Coming /\ \A i \in Coming : events'[i] = events[i]
      BY <1>2, OthersSend DEF SInv
    <2>2. turn # None => task'[turn] = task[turn]
      BY <1>2, OneTurnTypes
    <2>. QED BY <2>1, <2>2, AsideTold
  <1>. QED BY <1>1, <1>2

LEMMA StreamTold ==
  ASSUME IInv, FreshInv, SInv, ToldInv, [Next]_vars, Uncancelled' => Uncancelled,
         NEW t \in Turns, Stream(t)
  PROVE  ToldInv'
  <1>1. Running(t) /\ task[t].msg # None /\ UNCHANGED <<server, used>>
    BY DEF Stream
  <1>2. ASSUME NEW evs, NEW what, Send(t, evs, what)
        PROVE  /\ UNCHANGED <<turn, generation, pending_interrupt, turn_error>>
               /\ events' = events \o evs
               /\ task'[t].generation = task[t].generation
               /\ task'[t].out = task[t].out \cup what
               /\ \A u \in Turns : u # t => task'[u] = task[u]
    BY <1>2, AskTypes DEF Send, chat, transcript, Tasks
  <1>3. ASSUME NEW kind \in Kinds \ {"TurnFinished", "StreamInterrupted"}, NEW what,
               Send(t, <<Plain(t, kind)>>, what), "Ask" \notin what,
               "Error" \in what => kind = "TurnError"
        PROVE  ToldInv'
    <2>. DEFINE evs == <<Plain(t, kind)>>
    <2>1. Send(t, evs, what)
      BY <1>3
    <2>2. evs = <<Plain(t, kind)>>
      OBVIOUS
    <2>. HIDE DEF evs
    <2>3. /\ evs \in Seq(Events) /\ 1 \in 1 .. Len(evs)
          /\ \A k \in 1 .. Len(evs) : evs[k].generation = task[t].generation /\ evs[k].kind = kind
      BY <2>2, PlainSent
    <2>. QED BY <1>1, <1>2, <1>3, <2>1, <2>3, BatchTold
  <1>4. ASSUME Send(t, <<Plain(t, "Delta"),
                        Event(t, "Interrupt", server[task[t].msg].ask, FALSE)>>, {"Ask"})
        PROVE  ToldInv'
    <2>. DEFINE d == Plain(t, "Delta")
                q == Event(t, "Interrupt", server[task[t].msg].ask, FALSE)
                evs == <<d, q>>
    <2>1. server[task[t].msg].ask \in Asks \cup {None}
      <3>1. task[t].msg \in Msgs
        BY <1>1, AskTypes DEF Tasks
      <3>. QED BY <3>1, AskTypes DEF Messages
    <2>2. /\ d \in Events /\ d.generation = task[t].generation /\ d.kind = "Delta"
          /\ q \in Events /\ q.generation = task[t].generation /\ q.kind = "Interrupt"
      <3>. DEFINE k1 == "Delta"
                  k2 == "Interrupt"
                  a == server[task[t].msg].ask
                  no == FALSE
      <3>1. /\ k1 \in Kinds /\ k1 = "Delta" /\ k2 \in Kinds /\ k2 = "Interrupt"
            /\ no \in BOOLEAN /\ None \in Asks \cup {None} /\ a \in Asks \cup {None}
        BY <2>1 DEF Kinds
      <3>2. d = Event(t, k1, None, no) /\ q = Event(t, k2, a, no)
        BY DEF Plain
      <3>. HIDE DEF k1, k2, a, no, d, q
      <3>. QED BY <3>1, <3>2, SentEvent
    <2>3. Send(t, evs, {"Ask"})
      BY <1>4
    <2>. HIDE DEF d, q
    <2>4. evs \in Seq(Events) /\ Len(evs) = 2 /\ evs[1] = d /\ evs[2] = q
      BY <2>2
    <2>. HIDE DEF evs
    <2>5. /\ 2 \in 1 .. Len(evs) /\ evs[2].kind = "Interrupt"
          /\ \A k \in 1 .. Len(evs) : k = 1 \/ k = 2
      BY <2>2, <2>4
    <2>6. \A k \in 1 .. Len(evs) : /\ evs[k].generation = task[t].generation
                                   /\ evs[k].kind \in {"Delta", "Interrupt"}
      BY <2>2, <2>4, <2>5
    <2>7. "Error" \in task'[t].out => "Error" \in task[t].out
      BY <1>2, <2>3
    <2>8. \A k \in 1 .. Len(evs) : evs[k].kind # "StreamInterrupted" /\ evs[k].kind # "TurnFinished"
      BY <2>6
    <2>. QED BY <1>1, <1>2, <2>3, <2>4, <2>5, <2>6, <2>7, <2>8, BatchTold
  <1>5. Feed \cap {"Ask", "Error"} = {}
    BY ChatAssumption
  <1>6. ASSUME Send(t, <<Plain(t, "ToolFinished"), Plain(t, "TurnError")>>, {"ToolDone"})
        PROVE  ToldInv'
    <2>. DEFINE k1 == "ToolFinished"
                k2 == "TurnError"
                evs == <<Plain(t, k1), Plain(t, k2)>>
    <2>1. /\ k1 \in Kinds /\ k2 \in Kinds
          /\ {k1, k2} \cap {"TurnFinished", "StreamInterrupted"} = {}
      BY DEF Kinds
    <2>2. Send(t, evs, {"ToolDone"}) /\ evs = <<Plain(t, k1), Plain(t, k2)>>
      BY <1>6
    <2>. HIDE DEF k1, k2, evs
    <2>3. /\ evs \in Seq(Events) /\ 1 .. Len(evs) = {1, 2}
          /\ evs[1].kind = k1 /\ evs[2].kind = k2
          /\ \A k \in 1 .. Len(evs) : evs[k].generation = task[t].generation
      BY <2>1, <2>2, PlainPair
    <2>4. \A k \in 1 .. Len(evs) : /\ evs[k].kind # "TurnFinished"
                                  /\ evs[k].kind # "StreamInterrupted"
      BY <2>1, <2>3
    <2>5. /\ "Ask" \in task'[t].out => "Ask" \in task[t].out
          /\ "Error" \in task'[t].out => "Error" \in task[t].out
      BY <1>2, <2>2
    <2>. QED BY <1>1, <1>2, <2>2, <2>3, <2>4, <2>5, BatchTold
  <1>. QED BY <1>3, <1>4, <1>5, <1>6 DEF Stream, Kinds

LEMMA AcceptTold ==
  ASSUME IInv, FreshInv, SInv, ToldInv, [Next]_vars, Uncancelled' => Uncancelled,
         NEW t \in Turns, Accept(t)
  PROVE  ToldInv'
  <1>. DEFINE kind == "TurnStarted"
              evs == <<Plain(t, kind)>>
  <1>1. /\ kind \in Kinds \ {"TurnFinished", "Interrupt"} /\ evs = <<Plain(t, kind)>>
        /\ events' = Append(events, Plain(t, kind))
    BY DEF Kinds, Accept
  <1>. HIDE DEF evs, kind
  <1>1a. /\ evs \in Seq(Events)
         /\ \A k \in 1 .. Len(evs) : evs[k].generation = task[t].generation /\ evs[k].kind = kind
         /\ events' = events \o evs
    BY <1>1, PlainSent
  <1>2. /\ Running(t)
        /\ UNCHANGED <<turn, generation, pending_interrupt, turn_error>>
    BY DEF Accept, chat, transcript
  <1>3. /\ task'[t].generation = task[t].generation /\ task'[t].out = {"Started"}
        /\ \A u \in Turns : u # t => task'[u] = task[u]
    <2>1. \E m : task' = [task EXCEPT ![t].msg = m, ![t].out = {"Started"}]
      BY DEF Accept
    <2>. QED BY <2>1, AskTypes DEF Tasks
  <1>4. \A k \in 1 .. Len(evs) : evs[k].kind # "TurnFinished"
    BY <1>1, <1>1a
  <1>5. "Ask" \notin task'[t].out /\ "Error" \notin task'[t].out
    BY <1>3
  <1>. QED BY <1>1a, <1>2, <1>3, <1>4, <1>5, BatchTold

LEMMA DisconnectTold ==
  ASSUME IInv, FreshInv, SInv, ToldInv, [Next]_vars, Uncancelled' => Uncancelled,
         NEW t \in Turns, Disconnect(t)
  PROVE  ToldInv'
  <1>. DEFINE kind == "StreamInterrupted"
              evs == <<Plain(t, kind)>>
  <1>1. /\ kind \in Kinds \ {"TurnFinished", "Interrupt"} /\ evs = <<Plain(t, kind)>>
        /\ events' = Append(events, Plain(t, kind))
    BY DEF Kinds, Disconnect
  <1>. HIDE DEF evs, kind
  <1>1a. /\ evs \in Seq(Events)
         /\ \A k \in 1 .. Len(evs) : evs[k].generation = task[t].generation /\ evs[k].kind = kind
         /\ events' = events \o evs
    BY <1>1, PlainSent
  <1>2. /\ Running(t)
        /\ UNCHANGED <<turn, generation, pending_interrupt, turn_error>>
    BY DEF Disconnect, chat, transcript
  <1>3. /\ task'[t].generation = task[t].generation /\ task'[t].out = {}
        /\ \A u \in Turns : u # t => task'[u] = task[u]
    <2>1. \E back : task' = [task EXCEPT ![t].out = {}, ![t].readback = back]
      BY DEF Disconnect
    <2>. QED BY <2>1, AskTypes DEF Tasks
  <1>4. \A k \in 1 .. Len(evs) : evs[k].kind # "TurnFinished"
    BY <1>1, <1>1a
  <1>5. "Ask" \notin task'[t].out /\ "Error" \notin task'[t].out
    BY <1>3
  <1>. QED BY <1>1a, <1>2, <1>3, <1>4, <1>5, BatchTold

LEMMA EndTold ==
  ASSUME IInv, FreshInv, SInv, ToldInv, [Next]_vars, Uncancelled' => Uncancelled,
         NEW t \in Turns, End(t)
  PROVE  ToldInv'
  <1>1. PICK error \in BOOLEAN :
          /\ ~error => EndsWell(t)
          /\ events' = events \o LastEvent(t, error)
    BY DEF End, EndsWell
  <1>. DEFINE evs == <<Event(t, "TurnFinished", None, error)>>
  <1>2. /\ evs \in Seq(Events) /\ Len(evs) = 1
        /\ \A k \in 1 .. Len(evs) : /\ evs[k].generation = task[t].generation
                                    /\ evs[k].kind = "TurnFinished" /\ evs[k].error = error
    BY OneSent DEF Kinds
  <1>3. events' = events \o evs
    BY <1>1 DEF LastEvent
  <1>4. /\ Running(t) /\ UNCHANGED server
        /\ UNCHANGED <<turn, generation, pending_interrupt, turn_error>>
    BY DEF End, chat, transcript
  <1>5. /\ task'[t].generation = task[t].generation /\ task'[t].out = task[t].out
        /\ task'[t].msg = task[t].msg /\ task'[t].readback = task[t].readback
        /\ \A u \in Turns : u # t => task'[u] = task[u]
    <2>1. task' = [task EXCEPT ![t].st = "ended"]
      BY DEF End
    <2>. QED BY <2>1, AskTypes DEF Tasks
  <1>6. ~error => EndsWell(t)'
    BY <1>1, <1>4, <1>5 DEF EndsWell, Status
  <1>. HIDE DEF evs
  <1>7. \A k \in 1 .. Len(evs) : evs[k].kind = "TurnFinished" /\ ~evs[k].error => EndsWell(t)'
    BY <1>2, <1>6
  <1>8. \A k \in 1 .. Len(evs) : evs[k].kind # "StreamInterrupted"
    BY <1>2
  <1>. QED BY <1>2, <1>3, <1>4, <1>5, <1>7, <1>8, BatchTold

\* What a start of a turn leaves behind: nothing on its way, and a request about the
\* chat and the message at hand.
StartsAfresh ==
  /\ Starts /\ Coming' = {}
  /\ UNCHANGED <<generation, server, loaded, chat_uid, message_id>>
  /\ request'[spawned + 1].chat = chat_uid
  /\ request'[spawned + 1].kind = "Continue" =>
       chat_uid # None /\ message_id # None /\ request'[spawned + 1].msg = message_id

Elsewhere ==
  UNCHANGED <<turn, generation, events, task, request, server, loaded, chat_uid,
              message_id, parent_message_id, pending_interrupt, turn_error>>

LEMMA SpawnsRequest ==
  ASSUME IInv, NEW req, NEW lines, NEW report, Spawn(req, lines, report),
         spawned + 1 \in Turns
  PROVE  request'[spawned + 1] = req
  <1>1. request' = [request EXCEPT ![spawned + 1] = req]
    BY DEF Spawn
  <1>. QED BY <1>1, AskTypes

LEMMA BuiltHere ==
  ASSUME NEW pending, NEW parent, NEW req, req = BuildRequest(pending, parent)
  PROVE  /\ req.chat = chat_uid
         /\ req.kind = "Continue" =>
              chat_uid # None /\ message_id # None /\ req.msg = message_id
  BY DEF BuildRequest

\* The reader starts a turn while nothing comes through the gate.
LEMMA ReaderStarts ==
  ASSUME IInv, TInv, SInv, Uncancelled,
         SendPrompt \/ RetryLast \/ ClickFurther \/ AnswerQuestion
  PROVE  \/ StartsAfresh /\ UNCHANGED parent_message_id
         \/ Elsewhere
  <1>1. turn = None
    BY DEF SendPrompt, RetryLast, ClickFurther, AnswerQuestion, IInv, BusyIffTurn,
           TInv, QuestionsBetweenTurns
  <1>2. UNCHANGED <<generation, events, server, loaded, chat_uid, message_id, parent_message_id>>
    BY DEF SendPrompt, RetryLast, ClickFurther, AnswerQuestion, StartTurn, ids, loading
  <1>3. Coming' = {}
    BY <1>1, <1>2, RestIsQuiet DEF SInv, Coming, Current
  <1>4. spawned + 1 \in Turns
    <2>1. RoomForTurn
      BY DEF SendPrompt, RetryLast, ClickFurther, AnswerQuestion
    <2>. QED BY <2>1, OneTurnTypes, ChatAssumption DEF RoomForTurn, Turns
  <1>5. CASE SendPrompt \/ RetryLast \/ ClickFurther
    <2>1. PICK req : /\ req = BuildRequest(pending_interrupt, parent_message_id)
                     /\ \E report : Spawn(req, messages, report)
      BY <1>5 DEF SendPrompt, RetryLast, ClickFurther, StartTurn
    <2>2. request'[spawned + 1] = req /\ Starts
      BY <1>4, <2>1, SpawnsRequest DEF Starts
    <2>3. /\ req.chat = chat_uid
          /\ req.kind = "Continue" =>
               chat_uid # None /\ message_id # None /\ req.msg = message_id
      BY <2>1, BuiltHere
    <2>. QED BY <1>2, <1>3, <2>2, <2>3 DEF StartsAfresh
  <1>6. CASE AnswerQuestion /\ chat_uid # None /\ message_id # None
    <2>. DEFINE req == [kind |-> "Continue", chat |-> chat_uid, msg |-> message_id,
                        parent |-> None, asked |-> question.msg, account |-> account]
    <2>1. Spawn(req, messages, Started) /\ req.chat = chat_uid /\ req.msg = message_id
      BY <1>6 DEF AnswerQuestion
    <2>. HIDE DEF req
    <2>2. request'[spawned + 1] = req /\ Starts
      BY <1>4, <2>1, SpawnsRequest DEF Starts
    <2>. QED BY <1>2, <1>3, <1>6, <2>1, <2>2 DEF StartsAfresh
  <1>7. CASE AnswerQuestion /\ ~(chat_uid # None /\ message_id # None)
    <2>1. UNCHANGED <<turn, task, request, pending_interrupt, turn_error>>
      BY <1>7 DEF AnswerQuestion, transcript
    <2>. QED BY <1>2, <2>1 DEF Elsewhere
  <1>. QED BY <1>5, <1>6, <1>7

\* A turn ends, and the queue goes out after it or none is left.
LEMMA LoopFinishes ==
  ASSUME IInv, TInv, SInv, Uncancelled, ReceiveTurnFinished
  PROVE  /\ \/ StartsAfresh
            \/ turn' = None /\ UNCHANGED <<task, request>>
         /\ UNCHANGED <<generation, server, loaded, chat_uid, message_id>>
         /\ parent_message_id' = FinishedParent(Head(events).error \/ turn_error)
  <1>. DEFINE failed == Head(events).error \/ turn_error
              pending == IF failed THEN None ELSE pending_interrupt
              parent == FinishedParent(failed)
              opens == pending # None /\ FullySelectable(pending)
              asked == IF opens THEN pending ELSE question
              waits == asked # None /\ HasConfirmation(asked)
              queue == TakeQueued(waits)
  <1>1. /\ Receive("TurnFinished") /\ parent_message_id' = parent
        /\ UNCHANGED <<generation, server, loaded, chat_uid, message_id>>
        /\ IF queue = <<>>
           THEN turn' = None /\ UNCHANGED <<task, request>>
           ELSE \E lines, report : Spawn(BuildRequest(pending, parent), lines, report)
    BY DEF ReceiveTurnFinished, Receive, loading
  <1>2. Coming' = {}
    BY <1>1, EndIsLast DEF SInv
  <1>3. CASE queue = <<>>
    BY <1>1, <1>3
  <1>4. CASE queue # <<>>
    <2>1. spawned + 1 \in Turns
      BY <1>4, OneTurnTypes, ChatAssumption DEF TakeQueued, IInv, QueueHasRoom, Turns
    <2>. DEFINE req == BuildRequest(pending, parent)
    <2>2. \E lines, report : Spawn(req, lines, report)
      BY <1>1, <1>4
    <2>3. /\ req.chat = chat_uid
          /\ req.kind = "Continue" =>
               chat_uid # None /\ message_id # None /\ req.msg = message_id
      <3>. HIDE DEF pending, parent
      <3>. QED BY BuiltHere
    <2>. HIDE DEF req, queue
    <2>4. request'[spawned + 1] = req /\ Starts
      BY <2>1, <2>2, SpawnsRequest DEF Starts
    <2>. QED BY <1>1, <1>2, <2>3, <2>4 DEF StartsAfresh
  <1>. QED BY <1>3, <1>4

\* The steps that are not of a turn.
LEMMA StepsElsewhere ==
  ASSUME IInv, \/ QueuePrompt \/ Navigate \/ SignIn \/ RequestLoad \/ UNCHANGED vars
               \/ ReceiveLoad /\ Head(loaded) = None
  PROVE  UNCHANGED <<turn, generation, events, task, request, server, chat_uid,
                     message_id, parent_message_id, pending_interrupt, turn_error>>
  BY DEF QueuePrompt, Navigate, SignIn, RequestLoad, ReceiveLoad, vars, chat, transcript,
         ids, history

LEMMA NextTold ==
  IInv /\ TInv /\ SInv /\ FreshInv /\ ToldInv /\ [Next]_vars => ToldInv'
  <1>. SUFFICES ASSUME IInv, TInv, SInv, FreshInv, ToldInv, [Next]_vars PROVE ToldInv'
    OBVIOUS
  <1>1. Uncancelled' => Uncancelled
    BY UncancelledBefore
  <1>2. CASE turn' = None
    BY <1>2 DEF ToldInv, TurnIsCurrent, ToldAsk, ToldError, ToldEnd
  <1>3. ASSUME UNCHANGED <<turn, generation, events, pending_interrupt, turn_error>>,
               \A t \in Turns : /\ task'[t].generation = task[t].generation
                                /\ task'[t].out = task[t].out /\ task'[t].msg = task[t].msg
                                /\ task'[t].readback = task[t].readback
        PROVE  ToldInv'
    <2>1. Coming' = Coming
      BY <1>3 DEF Coming, Current
    <2>. QED BY <1>1, <1>3, <2>1, OneTurnTypes, AsideTold
  <1>4. ASSUME Uncancelled, StartsAfresh PROVE ToldInv'
    <2>1. /\ task'[turn'].out = {} /\ task'[turn'].generation = generation'
          /\ Coming' = {}
      BY <1>4, StartsOne DEF StartsAfresh
    <2>. QED BY <2>1 DEF ToldInv, TurnIsCurrent, ToldAsk, ToldError, ToldEnd
  <1>5. CASE SendPrompt \/ RetryLast \/ ClickFurther \/ AnswerQuestion
    <2>1. CASE Uncancelled
      BY <1>3, <1>4, <1>5, <2>1, ReaderStarts DEF Elsewhere
    <2>. QED BY <1>1, <2>1 DEF ToldInv
  <1>6. CASE ReceiveTurnFinished
    <2>1. CASE Uncancelled
      BY <1>2, <1>4, <1>6, <2>1, LoopFinishes
    <2>. QED BY <1>1, <2>1 DEF ToldInv
  <1>7. CASE Cancel \/ SignOut
    BY <1>7, CancelEnds DEF ToldInv
  <1>8. CASE NewSession \/ (ReceiveLoad /\ Head(loaded) # None)
    BY <1>2, <1>8 DEF NewSession, ReceiveLoad, AbandonTurn
  <1>9. CASE \/ QueuePrompt \/ Navigate \/ SignIn \/ RequestLoad \/ UNCHANGED vars
             \/ ReceiveLoad /\ Head(loaded) = None
    BY <1>3, <1>9, StepsElsewhere
  <1>10. CASE FinishLoad \/ \E m \in Msgs : Settle(m)
    <2>1. UNCHANGED <<turn, generation, events, pending_interrupt, turn_error, task>>
      BY <1>10 DEF FinishLoad, Settle, chat, transcript
    <2>. QED BY <1>3, <2>1
  <1>11. CASE Loop /\ ~ReceiveLoad /\ ~ReceiveTurnFinished
    <2>1. /\ events # <<>> /\ events' = Tail(events)
          /\ UNCHANGED <<turn, generation, task, server>>
      BY <1>11 DEF Loop, DropStale, Receive, MidTurn, ReceiveTurnStarted, ReceiveDelta,
            ReceiveToolStarted, ReceiveToolFinished, ReceiveMeta, ReceiveInterrupt,
            ReceiveTurnError, ReceiveStreamInterrupted, chat
    <2>2. CASE DropStale
      <3>1. ~Current(Head(events)) /\ UNCHANGED <<pending_interrupt, turn_error>>
        BY <2>2 DEF DropStale, chat, transcript
      <3>. QED BY <1>1, <2>1, <3>1, TakeTold
    <2>3. CASE ReceiveInterrupt
      <3>1. /\ Head(events).kind = "Interrupt" /\ UNCHANGED turn_error
            /\ Current(Head(events))
            /\ \E m, a : pending_interrupt' = [msg |-> m, ask |-> a]
        BY <2>3 DEF ReceiveInterrupt, Receive
      <3>2. pending_interrupt' # None
        <4>1. IInv'
          BY NextIInv
        <4>2. pending_interrupt' \in Interrupts \cup {None}
          BY <4>1 DEF IInv, TypeOK, ChatTypeOK
        <4>3. pending_interrupt'.msg \in Msgs /\ pending_interrupt'.ask \in Asks
          <5>1. Head(events) \in GoodEvents /\ Head(events).turn \in Turns
            BY <2>3, ReceiveStep DEF ReceiveInterrupt, GoodEvents, Events
          <5>. QED BY <2>3, <3>1, <5>1 DEF ReceiveInterrupt, GoodEvents
        <4>. QED BY <3>1, <4>3, ChatAssumption DEF Interrupts
      <3>. QED BY <1>1, <2>1, <3>1, <3>2, TakeTold
    <2>4. CASE ReceiveTurnError \/ ReceiveStreamInterrupted
      <3>1. /\ Current(Head(events)) /\ UNCHANGED pending_interrupt
            /\ Head(events).kind \in {"TurnError", "StreamInterrupted"}
            /\ Head(events).kind = "TurnError" => turn_error'
        BY <2>4 DEF ReceiveTurnError, ReceiveStreamInterrupted, Receive
      <3>. QED BY <1>1, <2>1, <3>1, TakeTold
    <2>5. CASE ~DropStale /\ ~ReceiveInterrupt /\ ~ReceiveTurnError /\ ~ReceiveStreamInterrupted
      <3>1. /\ Current(Head(events)) /\ UNCHANGED <<pending_interrupt, turn_error>>
            /\ Head(events).kind \notin {"Interrupt", "TurnError", "StreamInterrupted"}
        BY <1>11, <2>5 DEF Loop, Receive, ReceiveTurnStarted, ReceiveDelta,
              ReceiveToolStarted, ReceiveToolFinished, ReceiveMeta
      <3>. QED BY <1>1, <2>1, <3>1, TakeTold
    <2>. QED BY <2>2, <2>3, <2>4, <2>5
  <1>12. ASSUME NEW t \in Turns, TurnTask(t) \/ Disconnect(t) PROVE ToldInv'
    <2>1. CASE AbortLands(t)
      <3>1. /\ UNCHANGED <<turn, generation, events, pending_interrupt, turn_error>>
            /\ task' = [task EXCEPT ![t].st = "ended"]
        BY <2>1 DEF AbortLands, chat, transcript
      <3>2. \A u \in Turns : /\ task'[u].generation = task[u].generation
                             /\ task'[u].out = task[u].out /\ task'[u].msg = task[u].msg
                             /\ task'[u].readback = task[u].readback
        BY <3>1, AskTypes DEF Tasks
      <3>. QED BY <1>3, <3>1, <3>2
    <2>. QED BY <1>1, <1>12, <2>1, StreamTold, AcceptTold, DisconnectTold, EndTold DEF TurnTask
  <1>. QED BY <1>5, <1>6, <1>7, <1>8, <1>9, <1>10, <1>11, <1>12 DEF Next, Reader, Loop

----------------------------------------------------------------------------
(* Messages and their chats.                                               *)

\* Message `m` is there, and of chat `c`.
IsOf(m, c) == server[m].st # "absent" /\ server[m].chat = c

\* The chat a turn is about: the one it asked for, or one of its own.
ChatOf(t) == IF request[t].chat = None THEN t ELSE request[t].chat

AcceptedOf ==
  \A t \in Turns :
    /\ task[t].msg # None => server[task[t].msg].chat = ChatOf(t)
    /\ task[t].st # "idle" /\ request[t].kind = "Continue" =>
         IsOf(request[t].msg, request[t].chat)

\* The message at hand is of the chat at hand.
IdsMatch == message_id # None /\ chat_uid # None => IsOf(message_id, chat_uid)

FinishedIn(m, c) == server[m].st = "finished" /\ server[m].chat = c
Whole(l) ==
  l # None => /\ IsOf(l.msg, l.chat)
              /\ l.parent # None => FinishedIn(l.parent, l.chat)
LoadsOf == \A i \in 1 .. Len(loaded) : Whole(loaded[i])

\* The chat knows which message its turn is about, or comes to know it before
\* anything is asked.
Begun == message_id = task[turn].msg /\ chat_uid = ChatOf(turn)
ToldStart ==
  turn # None /\ task[turn].msg # None => Begun \/ ComesBefore("TurnStarted", "Interrupt")

\* A message to build on: one that finished, or that a task had read back after its
\* connection was lost, whatever it was then.
Completed(m) ==
  \/ server[m].st = "finished"
  \/ \E t \in Turns : task[t].msg = m /\ task[t].readback

\* It is there, and of the chat that would build on it.
Buildable(m, c) == Completed(m) /\ IsOf(m, c)

\* So is the parent of the next turn; the turn that runs was asked of this chat.
ParentMatch ==
  parent_message_id # None =>
    /\ Buildable(parent_message_id, chat_uid)
    /\ turn # None => request[turn].chat = chat_uid

ChatInv == Uncancelled => AcceptedOf /\ IdsMatch /\ LoadsOf /\ ToldStart /\ ParentMatch

LEMMA InitChat == Init => ChatInv
  BY DEF Init, ChatInv, AcceptedOf, IdsMatch, LoadsOf, ToldStart, ParentMatch

\* A message stays in its chat: the server takes a resumed one where it is.
LEMMA ChatKeeps ==
  ASSUME IInv, FreshInv, AcceptedOf, [Next]_vars, NEW m \in Msgs, server[m].st # "absent"
  PROVE  server'[m].chat = server[m].chat /\ server'[m].st # "absent"
  <1>1. server'[m].st # "absent"
    BY ServerKeeps
  <1>2. ASSUME NEW t \in Turns, Accept(t) PROVE server'[m].chat = server[m].chat
    <2>1. PICK n \in Msgs :
           /\ task[t].st # "idle" /\ task[t].msg = None
           /\ request[t] \in Requests
           /\ \/ request[t].kind = "New" /\ n = t
              \/ request[t].kind = "Continue" /\ n = request[t].msg /\ server[n].st = "asking"
           /\ server'[n].chat = IF request[t].chat = None THEN t ELSE request[t].chat
           /\ \A k \in Msgs : k # n => server'[k] = server[k]
      BY <1>2, AcceptsOne
    <2>2. CASE m = n
      <3>1. request[t].kind = "Continue" /\ m = request[t].msg
        BY <2>1, <2>2 DEF FreshInv
      <3>2. server[m].chat = request[t].chat /\ request[t].chat # None
        <4>1. request[t].chat \in Msgs
          BY <2>1, <3>1 DEF Requests
        <4>. QED BY <2>1, <3>1, <4>1, AskTypes DEF AcceptedOf, IsOf
      <3>. QED BY <2>1, <2>2, <3>2
    <2>3. CASE m # n
      BY <2>1, <2>3
    <2>. QED BY <2>2, <2>3
  <1>3. ASSUME NEW n \in Msgs, Settle(n) PROVE server'[m].chat = server[m].chat
    BY <1>3, SettlesOne
  <1>. QED BY <1>1, <1>2, <1>3, StepsOfTasks

\* An accepted task keeps its message, and what was read back stays so.
LEMMA TasksKeep ==
  ASSUME IInv, FreshInv, [Next]_vars, NEW t \in Turns, task[t].msg # None
  PROVE  task'[t].msg = task[t].msg /\ (task[t].readback => task'[t].readback)
  <1>1. CASE Starts
    BY <1>1, StartsOne DEF FreshInv
  <1>2. CASE AbandonTurn
    BY <1>2, AbandonsOne
  <1>3. ASSUME NEW u \in Turns, Accept(u)
        PROVE  task'[t].msg = task[t].msg /\ (task[t].readback => task'[t].readback)
    BY <1>3, AcceptsOne
  <1>4. ASSUME NEW m \in Msgs, Settle(m)
        PROVE  task'[t].msg = task[t].msg /\ (task[t].readback => task'[t].readback)
    BY <1>4, SettlesOne
  <1>5. ASSUME NEW u \in Turns, Stream(u) \/ End(u) \/ AbortLands(u) \/ Disconnect(u)
        PROVE  task'[t].msg = task[t].msg /\ (task[t].readback => task'[t].readback)
    BY <1>5, TaskGoesOn
  <1>. QED BY <1>1, <1>2, <1>3, <1>4, <1>5, StepsOfTasks

LEMMA CompletedKeeps ==
  ASSUME IInv, FreshInv, [Next]_vars, NEW m \in Msgs, Completed(m)
  PROVE  Completed(m)'
  <1>1. CASE server[m].st = "finished"
    BY <1>1, ServerKeeps DEF Completed
  <1>2. CASE \E t \in Turns : task[t].msg = m /\ task[t].readback
    <2>1. PICK t \in Turns : task[t].msg = m /\ task[t].readback
      BY <1>2
    <2>2. task'[t].msg = m /\ task'[t].readback
      BY <2>1, TasksKeep, AskTypes
    <2>. QED BY <2>2 DEF Completed
  <1>. QED BY <1>1, <1>2 DEF Completed

LEMMA RequestKeeps ==
  ASSUME IInv, FreshInv, AcceptedOf, [Next]_vars, NEW t \in Turns,
         task[t].st # "idle", request[t].kind = "Continue", request'[t] = request[t]
  PROVE  IsOf(request[t].msg, request[t].chat)'
  <1>1. request[t].msg \in Msgs
    BY DEF IInv, Spawned, Requests
  <1>2. IsOf(request[t].msg, request[t].chat)
    BY DEF AcceptedOf
  <1>. QED BY <1>1, <1>2, ChatKeeps DEF IsOf

\* Nobody but the server moves messages, so what is known of them stays known.
LEMMA AcceptedKeeps ==
  ASSUME IInv, FreshInv, AcceptedOf, [Next]_vars, UNCHANGED request,
         \A t \in Turns : /\ task'[t].st # "idle" => task[t].st # "idle"
                          /\ task'[t].msg = task[t].msg
  PROVE  AcceptedOf'
  <1>. SUFFICES ASSUME NEW t \in Turns
       PROVE  /\ task'[t].msg # None => server'[task'[t].msg].chat = ChatOf(t)'
              /\ task'[t].st # "idle" /\ request'[t].kind = "Continue" =>
                   IsOf(request[t].msg, request[t].chat)'
    BY DEF AcceptedOf
  <1>1. ASSUME task'[t].msg # None PROVE server'[task'[t].msg].chat = ChatOf(t)'
    <2>1. task[t].msg \in Msgs /\ server[task[t].msg].st # "absent"
      BY <1>1, AskTypes DEF Tasks, FreshInv
    <2>. QED BY <1>1, <2>1, ChatKeeps DEF AcceptedOf, ChatOf
  <1>2. ASSUME task'[t].st # "idle", request'[t].kind = "Continue"
        PROVE  IsOf(request[t].msg, request[t].chat)'
    BY <1>2, RequestKeeps
  <1>. QED BY <1>1, <1>2

LEMMA AcceptedAccept ==
  ASSUME IInv, FreshInv, AcceptedOf, [Next]_vars, NEW t \in Turns, Accept(t)
  PROVE  AcceptedOf'
  <1>1. PICK m \in Msgs :
         /\ task[t].st # "idle" /\ task[t].msg = None
         /\ server'[m].chat = IF request[t].chat = None THEN t ELSE request[t].chat
         /\ task'[t].msg = m
         /\ task'[t].st = task[t].st
         /\ \A u \in Turns : u # t => task'[u] = task[u]
         /\ UNCHANGED request
    BY AcceptsOne
  <1>. SUFFICES ASSUME NEW u \in Turns
       PROVE  /\ task'[u].msg # None => server'[task'[u].msg].chat = ChatOf(u)'
              /\ task'[u].st # "idle" /\ request'[u].kind = "Continue" =>
                   IsOf(request[u].msg, request[u].chat)'
    BY DEF AcceptedOf
  <1>2. ASSUME task'[u].msg # None PROVE server'[task'[u].msg].chat = ChatOf(u)'
    <2>1. CASE u = t
      BY <1>1, <2>1 DEF ChatOf
    <2>2. CASE u # t
      <3>1. task'[u] = task[u]
        BY <1>1, <2>2
      <3>2. task[u].msg \in Msgs /\ server[task[u].msg].st # "absent"
        BY <1>2, <3>1, AskTypes DEF Tasks, FreshInv
      <3>. QED BY <1>1, <1>2, <3>1, <3>2, ChatKeeps DEF AcceptedOf, ChatOf
    <2>. QED BY <2>1, <2>2
  <1>3. ASSUME task'[u].st # "idle", request'[u].kind = "Continue"
        PROVE  IsOf(request[u].msg, request[u].chat)'
    <2>1. task[u].st # "idle"
      BY <1>1, <1>3
    <2>. QED BY <1>1, <1>3, <2>1, RequestKeeps
  <1>. QED BY <1>2, <1>3

\* A turn starts with a request about the chat and the message at hand.
LEMMA AcceptedStart ==
  ASSUME IInv, FreshInv, AcceptedOf, IdsMatch, [Next]_vars, StartsAfresh
  PROVE  AcceptedOf'
  <1>. DEFINE t == spawned + 1
  <1>1. /\ task'[t].msg = None /\ t \in Turns /\ UNCHANGED server
        /\ \A u \in Turns : u # t => task'[u] = task[u] /\ request'[u] = request[u]
    BY StartsOne DEF StartsAfresh, Starts
  <1>2. request'[t].kind = "Continue" => IsOf(request'[t].msg, request'[t].chat)
    BY DEF StartsAfresh, IdsMatch
  <1>. SUFFICES ASSUME NEW u \in Turns
       PROVE  /\ task'[u].msg # None => server'[task'[u].msg].chat = ChatOf(u)'
              /\ task'[u].st # "idle" /\ request'[u].kind = "Continue" =>
                   IsOf(request[u].msg, request[u].chat)'
    BY DEF AcceptedOf
  <1>. HIDE DEF t
  <1>3. CASE u = t
    BY <1>1, <1>2, <1>3 DEF IsOf
  <1>4. CASE u # t
    BY <1>1, <1>4 DEF AcceptedOf, ChatOf, IsOf
  <1>. QED BY <1>3, <1>4

\* So do the snapshots on their way, and the ids of the chat while it stays the same.
LEMMA WholeKeeps ==
  ASSUME IInv, FreshInv, AcceptedOf, [Next]_vars, NEW l \in Snapshots \cup {None}, Whole(l)
  PROVE  Whole(l)'
  <1>. SUFFICES ASSUME l # None PROVE Whole(l)'
    BY DEF Whole
  <1>1. l.msg \in Msgs /\ l.parent \in Msgs \cup {None}
    BY DEF Snapshots
  <1>2. IsOf(l.msg, l.chat)'
    BY <1>1, ChatKeeps DEF Whole, IsOf
  <1>3. l.parent # None => FinishedIn(l.parent, l.chat)'
    BY <1>1, ServerKeeps DEF Whole, FinishedIn
  <1>. QED BY <1>2, <1>3 DEF Whole

LEMMA LoadsKeep ==
  ASSUME IInv, FreshInv, AcceptedOf, LoadsOf, [Next]_vars, UNCHANGED loaded
  PROVE  LoadsOf'
  <1>. SUFFICES ASSUME NEW i \in 1 .. Len(loaded) PROVE Whole(loaded[i])'
    BY DEF LoadsOf
  <1>1. loaded[i] \in Snapshots \cup {None}
    BY AskTypes, ElementOfSeq
  <1>2. Whole(loaded[i])
    BY DEF LoadsOf
  <1>3. PICK l \in Snapshots \cup {None} : l = loaded[i] /\ Whole(l)
    BY <1>1, <1>2
  <1>4. Whole(l)'
    BY <1>3, WholeKeeps
  <1>. QED BY <1>3, <1>4 DEF Whole, IsOf, FinishedIn

LEMMA IdsKeep ==
  ASSUME IInv, FreshInv, AcceptedOf, IdsMatch, [Next]_vars,
         UNCHANGED <<chat_uid, message_id>>
  PROVE  IdsMatch'
  <1>. SUFFICES ASSUME message_id # None, chat_uid # None PROVE IsOf(message_id, chat_uid)'
    BY DEF IdsMatch
  <1>1. message_id \in Msgs
    BY DEF IInv, TypeOK, ChatTypeOK
  <1>. QED BY <1>1, ChatKeeps DEF IdsMatch, IsOf

\* What a chat could build on it can build on still.
LEMMA ParentNext ==
  ASSUME IInv, FreshInv, AcceptedOf, [Next]_vars,
         parent_message_id' \in Msgs \cup {None},
         parent_message_id' # None =>
           /\ Buildable(parent_message_id', chat_uid')
           /\ turn' # None => request'[turn'].chat = chat_uid'
  PROVE  ParentMatch'
  <1>. SUFFICES ASSUME parent_message_id' # None PROVE Buildable(parent_message_id, chat_uid)'
    BY DEF ParentMatch
  <1>1. PICK m \in Msgs : m = parent_message_id' /\ Buildable(m, chat_uid')
    OBVIOUS
  <1>2. Completed(m)'
    BY <1>1, CompletedKeeps DEF Buildable
  <1>3. server'[m].chat = chat_uid' /\ server'[m].st # "absent"
    BY <1>1, ChatKeeps DEF Buildable, IsOf
  <1>. QED BY <1>1, <1>2, <1>3 DEF Buildable, Completed, IsOf

LEMMA ParentStays ==
  ASSUME IInv, FreshInv, AcceptedOf, ParentMatch, [Next]_vars,
         UNCHANGED <<chat_uid, parent_message_id>>,
         \/ UNCHANGED <<turn, request>>
         \/ turn' # None => request'[turn'].chat = chat_uid
  PROVE  ParentMatch'
  <1>1. parent_message_id \in Msgs \cup {None}
    BY DEF IInv, TypeOK, ChatTypeOK
  <1>2. parent_message_id # None =>
          /\ Buildable(parent_message_id, chat_uid)
          /\ turn' # None => request'[turn'].chat = chat_uid
    BY DEF ParentMatch
  <1>. QED BY <1>1, <1>2, ParentNext

\* A batch sent after what tells of the turn's message tells of it no less.
LEMMA SendStart ==
  ASSUME IInv, ToldStart, UNCHANGED <<turn, generation, chat_uid, message_id, request>>,
         turn # None => task'[turn].msg = task[turn].msg,
         NEW evs \in Seq(Events), events' = events \o evs
  PROVE  ToldStart'
  <1>. SUFFICES ASSUME turn # None, task[turn].msg # None
                PROVE  Begun' \/ ComesBefore("TurnStarted", "Interrupt")'
    BY DEF ToldStart
  <1>1. CASE Begun
    BY <1>1 DEF Begun, ChatOf
  <1>2. CASE ComesBefore("TurnStarted", "Interrupt")
    <2>1. PICK i \in Coming : /\ events[i].kind = "TurnStarted"
                              /\ \A j \in Coming : j < i => events[j].kind # "Interrupt"
      BY <1>2 DEF ComesBefore
    <2>2. i \in Coming' /\ events'[i].kind = "TurnStarted" /\ i \in Nat /\ i <= Len(events)
      BY <2>1, SentComing
    <2>3. ASSUME NEW j \in Coming', j < i PROVE events'[j].kind # "Interrupt"
      <3>1. j \in Nat /\ Len(events) \in Nat
        BY SentComing, OneTurnTypes
      <3>2. j <= Len(events)
        BY <2>2, <2>3, <3>1
      <3>. QED BY <2>1, <2>3, <3>2, SentComing
    <2>. QED BY <2>2, <2>3 DEF ComesBefore
  <1>. QED BY <1>1, <1>2 DEF ToldStart

\* The start of a turn is the first it is told of.
LEMMA AcceptStart ==
  ASSUME IInv, OneTurn, TurnIsCurrent, ToldStart, NEW t \in Turns, Accept(t)
  PROVE  ToldStart'
  <1>. DEFINE kind == "TurnStarted"
              evs == <<Plain(t, kind)>>
  <1>1. /\ kind \in Kinds /\ kind = "TurnStarted" /\ evs = <<Plain(t, kind)>>
        /\ events' = Append(events, Plain(t, kind))
    BY DEF Kinds, Accept
  <1>. HIDE DEF evs, kind
  <1>2. /\ evs \in Seq(Events) /\ 1 \in 1 .. Len(evs)
        /\ \A k \in 1 .. Len(evs) : evs[k].generation = task[t].generation /\ evs[k].kind = kind
        /\ events' = events \o evs
    BY <1>1, PlainSent
  <1>3. UNCHANGED <<turn, generation, chat_uid, message_id, request>>
    BY DEF Accept, chat, ids
  <1>4. task[t].msg = None /\ \A u \in Turns : u # t => task'[u] = task[u]
    BY AcceptsOne
  <1>5. CASE turn = t
    <2>1. evs[1].generation = generation /\ evs[1].kind = "TurnStarted"
      BY <1>1, <1>2, <1>5, OneTurnTypes DEF TurnIsCurrent
    <2>2. Len(events) + 1 \in Coming' /\ events'[Len(events) + 1] = evs[1]
      BY <1>2, <1>3, <2>1, SentComing
    <2>3. ASSUME NEW j \in Coming', j < Len(events) + 1 PROVE events'[j].kind # "Interrupt"
      <3>1. j \in Nat /\ Len(events) \in Nat
        BY <1>2, <1>3, SentComing, OneTurnTypes
      <3>2. j <= Len(events)
        BY <2>3, <3>1
      <3>3. j \in Coming /\ events'[j] = events[j]
        BY <1>2, <1>3, <3>2, SentComing
      <3>4. events[j] \in GoodEvents /\ events[j].turn = t
        BY <1>5, <3>3, OneTurnTypes DEF OneTurn, Coming
      <3>5. events[j].kind # "Interrupt"
        BY <1>4, <3>4, AskTypes DEF GoodEvents
      <3>. QED BY <3>3, <3>5
    <2>. QED BY <2>1, <2>2, <2>3 DEF ToldStart, ComesBefore
  <1>6. CASE turn # t
    <2>1. turn # None => task'[turn].msg = task[turn].msg
      BY <1>4, <1>6, OneTurnTypes
    <2>. QED BY <1>2, <1>3, <2>1, SendStart
  <1>. QED BY <1>5, <1>6

\* Taking an event, the chat knows what the event says.
LEMMA TakeStart ==
  ASSUME IInv, ToldStart, events # <<>>, events' = Tail(events),
         UNCHANGED <<turn, generation, task, request>>,
         Begun => Begun',
         Current(Head(events)) /\ Head(events).kind = "TurnStarted" => Begun'
  PROVE  ToldStart'
  <1>. SUFFICES ASSUME turn # None, task[turn].msg # None
                PROVE  Begun' \/ ComesBefore("TurnStarted", "Interrupt")'
    BY DEF ToldStart
  <1>1. CASE Begun
    BY <1>1
  <1>2. CASE ComesBefore("TurnStarted", "Interrupt")
    <2>1. PICK i \in Coming : /\ events[i].kind = "TurnStarted"
                              /\ \A j \in Coming : j < i => events[j].kind # "Interrupt"
      BY <1>2 DEF ComesBefore
    <2>2. CASE i = 1
      <3>1. Head(events) = events[1]
        BY OneTurnTypes
      <3>. QED BY <2>1, <2>2, <3>1 DEF Coming
    <2>3. CASE i # 1
      <3>1. i - 1 \in Coming' /\ events'[i - 1].kind = "TurnStarted"
        BY <2>1, <2>3, TailKeeps
      <3>2. ASSUME NEW j \in Coming', j < i - 1 PROVE events'[j].kind # "Interrupt"
        <4>1. j \in Nat /\ j + 1 \in Coming /\ events'[j] = events[j + 1]
          BY TailComing
        <4>2. i \in Int
          BY DEF Coming
        <4>3. j + 1 < i
          BY <3>2, <4>1, <4>2
        <4>. QED BY <2>1, <4>1, <4>3
      <3>. QED BY <3>1, <3>2 DEF ComesBefore
    <2>. QED BY <2>2, <2>3
  <1>. QED BY <1>1, <1>2 DEF ToldStart

\* When a question arrives its turn has begun for the chat.
LEMMA BegunBefore ==
  ASSUME IInv, TInv, OneTurn, ToldStart, events # <<>>, Current(Head(events)),
         Head(events).kind \in {"Interrupt", "TurnFinished"}, task[turn].msg # None
  PROVE  Begun
  <1>1. turn # None /\ 1 \in Coming /\ Head(events) = events[1]
    BY HeadIsTurns
  <1>. SUFFICES ASSUME ComesBefore("TurnStarted", "Interrupt") PROVE FALSE
    BY <1>1 DEF ToldStart
  <1>2. PICK i \in Coming : /\ events[i].kind = "TurnStarted"
                            /\ \A j \in Coming : j < i => events[j].kind # "Interrupt"
    BY DEF ComesBefore
  <1>3. i # 1 /\ i \in Nat /\ i > 0
    BY <1>1, <1>2, OneTurnTypes DEF Coming
  <1>4. 1 < i
    BY <1>3
  <1>5. Head(events).kind = "TurnFinished"
    BY <1>1, <1>2, <1>4
  <1>6. i <= 1
    BY <1>1, <1>2, <1>5 DEF OneTurn
  <1>. QED BY <1>3, <1>4, <1>6

\* What a turn that ended clean leaves as the parent can be built on.
LEMMA CleanEnd ==
  ASSUME IInv, TInv, OneTurn, FreshInv, ToldAsk, ToldError, ToldEnd, AcceptedOf, ToldStart,
         Receive("TurnFinished"), ~Head(events).error, ~turn_error, pending_interrupt = None
  PROVE  message_id # None /\ Buildable(message_id, chat_uid)
  <1>1. /\ events # <<>> /\ Current(Head(events)) /\ Head(events).kind = "TurnFinished"
        /\ turn # None /\ turn \in Turns /\ 1 \in Coming /\ Head(events) = events[1]
    BY HeadIsTurns DEF Receive
  <1>2. EndsWell(turn)
    BY <1>1 DEF ToldEnd
  <1>3. task[turn].msg \in Msgs /\ task[turn].msg # None
    BY <1>1, <1>2, AskTypes DEF EndsWell, Tasks
  <1>4. Begun
    BY <1>1, <1>3, BegunBefore
  <1>5. message_id = task[turn].msg /\ server[message_id].chat = chat_uid
        /\ server[message_id].st # "absent"
    BY <1>1, <1>3, <1>4 DEF Begun, AcceptedOf, FreshInv
  <1>6. \A i \in Coming : events[i].kind = "TurnFinished"
    <2>1. \A i \in Coming : i <= 1 /\ i \in Nat /\ i # 0
      BY <1>1 DEF OneTurn, Coming
    <2>2. \A i \in Coming : i = 1
      BY <2>1
    <2>. QED BY <1>1, <2>2
  <1>7. {"Ask", "Error"} \cap task[turn].out = {}
    <2>1. "Ask" \notin task[turn].out
      BY <1>1, <1>6 DEF ToldAsk, Comes
    <2>2. "Error" \notin task[turn].out
      BY <1>1, <1>6 DEF ToldError, ComesAfter
    <2>. QED BY <2>1, <2>2
  <1>8. Completed(message_id)
    BY <1>1, <1>2, <1>5, <1>7 DEF EndsWell, Completed, Status
  <1>. QED BY <1>3, <1>5, <1>8 DEF Buildable, IsOf

\* What the loop's steps do to the ids, between the turn's start and its end.
LEMMA HearsChat ==
  ASSUME IInv, TInv, SInv, FreshInv, ChatInv, Uncancelled, [Next]_vars,
         \/ ReceiveTurnStarted \/ ReceiveDelta \/ ReceiveToolStarted
         \/ ReceiveToolFinished \/ ReceiveMeta \/ ReceiveInterrupt
         \/ ReceiveTurnError \/ ReceiveStreamInterrupted
  PROVE  AcceptedOf' /\ IdsMatch' /\ LoadsOf' /\ ToldStart' /\ ParentMatch'
  <1>1. /\ events # <<>> /\ Current(Head(events)) /\ events' = Tail(events)
        /\ UNCHANGED <<generation, turn, task, request, server, loaded, parent_message_id>>
    BY DEF Receive, MidTurn, loading, ids, ReceiveTurnStarted, ReceiveDelta,
           ReceiveToolStarted, ReceiveToolFinished, ReceiveMeta, ReceiveInterrupt,
           ReceiveTurnError, ReceiveStreamInterrupted
  <1>2. AcceptedOf /\ IdsMatch /\ LoadsOf /\ ToldStart /\ ParentMatch /\ OneTurn
    BY DEF ChatInv, SInv
  <1>3. Head(events).turn = turn /\ turn \in Turns /\ turn # None /\ Head(events) \in GoodEvents
    BY <1>1, <1>2, HeadIsTurns
  <1>4. AcceptedOf' /\ LoadsOf'
    BY <1>1, <1>2, AcceptedKeeps, LoadsKeep
  <1>5. ASSUME UNCHANGED <<chat_uid, message_id>>,
               Head(events).kind # "TurnStarted"
        PROVE  IdsMatch' /\ ToldStart' /\ ParentMatch'
    <2>1. Begun => Begun'
      BY <1>1, <1>5 DEF Begun, ChatOf
    <2>2. ToldStart'
      BY <1>1, <1>2, <1>5, <2>1, TakeStart
    <2>3. ParentMatch'
      BY <1>1, <1>2, <1>5, ParentStays
    <2>4. IdsMatch'
      BY <1>2, <1>5, IdsKeep
    <2>. QED BY <2>2, <2>3, <2>4
  <1>6. CASE ReceiveTurnStarted
    <2>. DEFINE m == task[turn].msg
    <2>1. chat_uid' = server[m].chat /\ message_id' = m /\ Head(events).kind = "TurnStarted"
      BY <1>3, <1>6 DEF ReceiveTurnStarted, Receive
    <2>2. m \in Msgs /\ m # None
      BY <1>3, <2>1, AskTypes DEF GoodEvents
    <2>3. server[m].chat = ChatOf(turn) /\ server[m].st # "absent"
      BY <1>2, <1>3, <2>2 DEF AcceptedOf, FreshInv
    <2>. HIDE DEF m
    <2>4. IdsMatch'
      BY <1>1, <2>1, <2>3 DEF IdsMatch, IsOf
    <2>5. Begun'
      BY <1>1, <2>1, <2>3 DEF Begun, ChatOf, m
    <2>6. ToldStart'
      BY <1>1, <1>2, <2>5, TakeStart
    <2>7. parent_message_id # None => chat_uid' = chat_uid /\ request[turn].chat = chat_uid
      <3>. SUFFICES ASSUME parent_message_id # None
                    PROVE  chat_uid' = chat_uid /\ request[turn].chat = chat_uid
        OBVIOUS
      <3>1. request[turn].chat = chat_uid /\ server[parent_message_id].chat = chat_uid
            /\ parent_message_id \in Msgs
        BY <1>2, <1>3 DEF ParentMatch, Buildable, IsOf, IInv, TypeOK, ChatTypeOK
      <3>2. chat_uid # None
        BY <3>1, AskTypes DEF Messages
      <3>. QED BY <2>1, <2>3, <3>1, <3>2 DEF ChatOf
    <2>8. parent_message_id \in Msgs \cup {None}
      BY DEF IInv, TypeOK, ChatTypeOK
    <2>9. parent_message_id # None => Buildable(parent_message_id, chat_uid)
      BY <1>2 DEF ParentMatch
    <2>10. ParentMatch'
      BY <1>1, <1>2, <2>7, <2>8, <2>9, ParentNext
    <2>. QED BY <1>4, <2>4, <2>6, <2>10
  <1>7. CASE ReceiveInterrupt
    <2>. DEFINE m == task[turn].msg
    <2>1. message_id' = m /\ Head(events).kind = "Interrupt" /\ UNCHANGED chat_uid
      BY <1>3, <1>7 DEF ReceiveInterrupt, Receive
    <2>2. m \in Msgs /\ m # None
      BY <1>3, <2>1, AskTypes DEF GoodEvents
    <2>3. Begun
      BY <1>1, <1>2, <2>1, <2>2, BegunBefore
    <2>. QED BY <1>4, <1>5, <2>1, <2>3 DEF Begun
  <1>8. CASE ~ReceiveTurnStarted /\ ~ReceiveInterrupt
    <2>1. UNCHANGED <<chat_uid, message_id>> /\ Head(events).kind # "TurnStarted"
      BY <1>8 DEF Receive, ids, ReceiveDelta, ReceiveToolStarted, ReceiveToolFinished,
                  ReceiveMeta, ReceiveTurnError, ReceiveStreamInterrupted
    <2>. QED BY <1>4, <1>5, <2>1
  <1>. QED BY <1>6, <1>7, <1>8

\* A load taken leaves the others on their way.
LEMMA LoadTaken ==
  ASSUME IInv, LoadsOf, loaded # <<>>, loaded' = Tail(loaded), UNCHANGED server
  PROVE  LoadsOf' /\ Whole(Head(loaded))
  <1>1. /\ Len(loaded') = Len(loaded) - 1 /\ Len(loaded) \in Nat
        /\ \A i \in 1 .. Len(loaded') : loaded'[i] = loaded[i + 1]
        /\ Head(loaded) = loaded[1] /\ 1 \in 1 .. Len(loaded)
    BY AskTypes, HeadTailProperties
  <1>2. ASSUME NEW i \in 1 .. Len(loaded') PROVE Whole(loaded[i])'
    <2>1. loaded'[i] = loaded[i + 1] /\ i + 1 \in 1 .. Len(loaded)
      BY <1>1
    <2>2. Whole(loaded[i + 1])
      BY <2>1 DEF LoadsOf
    <2>. QED BY <2>1, <2>2 DEF Whole, IsOf, FinishedIn
  <1>3. Whole(Head(loaded))
    BY <1>1 DEF LoadsOf
  <1>. QED BY <1>2, <1>3 DEF LoadsOf

\* A conversation taken from the store comes with a message and a parent of its own.
LEMMA LoadChat ==
  ASSUME IInv, FreshInv, ChatInv, Uncancelled, [Next]_vars, ReceiveLoad,
         Head(loaded) # None
  PROVE  AcceptedOf' /\ IdsMatch' /\ LoadsOf' /\ ToldStart' /\ ParentMatch'
  <1>. DEFINE l == Head(loaded)
  <1>1. /\ loaded # <<>> /\ loaded' = Tail(loaded) /\ UNCHANGED <<request, server>>
        /\ AbandonTurn /\ turn' = None
        /\ chat_uid' = l.chat /\ message_id' = l.msg /\ parent_message_id' = l.parent
    BY DEF ReceiveLoad, AbandonTurn
  <1>2. AcceptedOf /\ LoadsOf
    BY DEF ChatInv
  <1>3. l \in Snapshots \cup {None}
    BY <1>1, AskTypes, HeadTailProperties
  <1>4. Whole(l) /\ LoadsOf'
    BY <1>1, <1>2, LoadTaken
  <1>6. AcceptedOf'
    <2>1. \A t \in Turns : task'[t].st # "idle" => task[t].st # "idle"
      BY <1>1, AbandonStep DEF IInv
    <2>. QED BY <1>1, <1>2, <2>1, AbandonsOne, AcceptedKeeps
  <1>. HIDE DEF l
  <1>7. IdsMatch'
    BY <1>1, <1>4, l # None DEF IdsMatch, Whole, IsOf, l
  <1>8. ParentMatch'
    <2>1. l.parent # None => Buildable(l.parent, l.chat)
      BY <1>4 DEF Whole, FinishedIn, Buildable, IsOf, Completed, l
    <2>2. l.parent \in Msgs \cup {None}
      BY <1>3, l # None DEF Snapshots, l
    <2>. QED BY <1>1, <1>2, <2>1, <2>2, ParentNext
  <1>9. ToldStart'
    BY <1>1 DEF ToldStart
  <1>. QED BY <1>4, <1>6, <1>7, <1>8, <1>9

\* What load_detail reads is of the chat it was asked for.
LEMMA StoreChat ==
  ASSUME IInv, FreshInv, ChatInv, Uncancelled, [Next]_vars, FinishLoad
  PROVE  LoadsOf'
  <1>1. AcceptedOf /\ LoadsOf /\ UNCHANGED server
    BY DEF ChatInv, FinishLoad
  <1>2. PICK c \in Msgs : \E l \in Stored(c) \cup {None} : loaded' = Append(loaded, l)
    <2>1. PICK load \in loads :
            \E l \in Stored(load[1]) \cup {None} : loaded' = Append(loaded, l)
      BY DEF FinishLoad
    <2>2. load[1] \in Msgs
      BY DEF IInv, TypeOK, ChannelsTypeOK
    <2>. QED BY <2>1, <2>2
  <1>3. PICK l \in Stored(c) \cup {None} : loaded' = Append(loaded, l)
    BY <1>2
  <1>4. Whole(l)
    <2>. SUFFICES ASSUME l # None PROVE Whole(l)
      BY DEF Whole
    <2>1. PICK last \in Latest(MessagesOf(c)), parent \in LatestOrNone(Finished(c)) :
            \E pending \in Pending(last) :
               l = [chat |-> c, msg |-> last, parent |-> parent, pending |-> pending]
      BY DEF Stored
    <2>2. IsOf(last, c)
      BY DEF Latest, MessagesOf, IsOf
    <2>3. parent # None => FinishedIn(parent, c)
      BY DEF LatestOrNone, Latest, Finished, MessagesOf, FinishedIn
    <2>4. l.chat = c /\ l.msg = last /\ l.parent = parent
      BY <2>1
    <2>. QED BY <2>2, <2>3, <2>4 DEF Whole
  <1>5. l \in Snapshots \cup {None}
    BY StoredType
  <1>6. /\ Len(loaded') = Len(loaded) + 1 /\ Len(loaded) \in Nat
        /\ \A i \in 1 .. Len(loaded) : loaded'[i] = loaded[i]
        /\ loaded'[Len(loaded) + 1] = l
    BY <1>3, <1>5, AskTypes, AppendProperties
  <1>. SUFFICES ASSUME NEW i \in 1 .. Len(loaded') PROVE Whole(loaded[i])'
    BY DEF LoadsOf
  <1>7. CASE i = Len(loaded) + 1
    BY <1>1, <1>4, <1>6, <1>7 DEF Whole, IsOf, FinishedIn
  <1>8. CASE i # Len(loaded) + 1
    <2>1. i \in 1 .. Len(loaded)
      BY <1>6, <1>8
    <2>2. Whole(loaded[i])
      BY <1>1, <2>1 DEF LoadsOf
    <2>. QED BY <1>1, <1>6, <2>1, <2>2 DEF Whole, IsOf, FinishedIn
  <1>. QED BY <1>7, <1>8

\* What moves neither the chat, its turn nor the channel.
LEMMA AsideChat ==
  ASSUME IInv, FreshInv, ChatInv, Uncancelled, [Next]_vars, LoadsOf',
         UNCHANGED <<turn, generation, events, request, chat_uid, message_id,
                     parent_message_id>>,
         \A t \in Turns : /\ task'[t].st # "idle" => task[t].st # "idle"
                          /\ task'[t].msg = task[t].msg
  PROVE  ChatInv'
  <1>1. AcceptedOf /\ IdsMatch /\ ToldStart /\ ParentMatch
    BY DEF ChatInv
  <1>2. AcceptedOf'
    BY <1>1, AcceptedKeeps
  <1>3. IdsMatch'
    BY <1>1, IdsKeep
  <1>4. ParentMatch'
    BY <1>1, ParentStays
  <1>5. ToldStart'
    <2>1. Coming' = Coming /\ turn \in Turns \cup {None}
      BY OneTurnTypes DEF Coming, Current
    <2>. QED BY <1>1, <2>1 DEF ToldStart, Begun, ChatOf, ComesBefore
  <1>. QED BY <1>2, <1>3, <1>4, <1>5 DEF ChatInv

\* A turn that starts is asked of the chat at hand.
LEMMA StartChat ==
  ASSUME IInv, FreshInv, ChatInv, Uncancelled, [Next]_vars, StartsAfresh
  PROVE  /\ AcceptedOf' /\ IdsMatch' /\ LoadsOf' /\ ToldStart'
         /\ turn' # None => request'[turn'].chat = chat_uid
  <1>1. AcceptedOf /\ IdsMatch /\ LoadsOf
    BY DEF ChatInv
  <1>2. AcceptedOf' /\ IdsMatch' /\ LoadsOf'
    BY <1>1, AcceptedStart, IdsKeep, LoadsKeep DEF StartsAfresh
  <1>3. turn' = spawned + 1 /\ task'[turn'].msg = None
    BY StartsOne DEF StartsAfresh
  <1>4. request'[turn'].chat = chat_uid
    BY <1>3 DEF StartsAfresh
  <1>. QED BY <1>2, <1>3, <1>4 DEF ToldStart

\* A turn ends, and its message, if it ended clean, is the next one's parent.
LEMMA FinishChat ==
  ASSUME IInv, TInv, SInv, FreshInv, ToldInv, ChatInv, Uncancelled, [Next]_vars,
         ReceiveTurnFinished
  PROVE  ChatInv'
  <1>1. /\ OneTurn /\ AcceptedOf /\ IdsMatch /\ LoadsOf /\ ToldStart /\ ParentMatch
        /\ ToldAsk /\ ToldError /\ ToldEnd
    BY DEF SInv, ToldInv, ChatInv
  <1>2. /\ \/ StartsAfresh
           \/ turn' = None /\ UNCHANGED <<task, request>>
        /\ UNCHANGED <<generation, server, loaded, chat_uid, message_id>>
        /\ parent_message_id' = FinishedParent(Head(events).error \/ turn_error)
    BY LoopFinishes
  <1>3. /\ AcceptedOf' /\ IdsMatch' /\ LoadsOf' /\ ToldStart'
        /\ turn' # None => request'[turn'].chat = chat_uid
    <2>1. CASE StartsAfresh
      BY <2>1, StartChat
    <2>2. CASE turn' = None /\ UNCHANGED <<task, request>>
      BY <1>1, <1>2, <2>2, AcceptedKeeps, IdsKeep, LoadsKeep DEF ToldStart
    <2>. QED BY <1>2, <2>1, <2>2
  <1>4. Receive("TurnFinished")
    BY DEF ReceiveTurnFinished
  <1>5. ParentMatch'
    <2>1. CASE ~(Head(events).error \/ turn_error) /\ pending_interrupt = None
      <3>1. parent_message_id' = message_id
        BY <1>2, <2>1 DEF FinishedParent
      <3>2. message_id # None /\ Buildable(message_id, chat_uid)
        BY <1>1, <1>4, <2>1, CleanEnd
      <3>3. message_id \in Msgs
        BY <3>2 DEF IInv, TypeOK, ChatTypeOK
      <3>. QED BY <1>1, <1>2, <1>3, <3>1, <3>2, <3>3, ParentNext
    <2>2. CASE (Head(events).error \/ turn_error) \/ pending_interrupt # None
      <3>1. parent_message_id' = parent_message_id
        BY <1>2, <2>2 DEF FinishedParent
      <3>. QED BY <1>1, <1>2, <1>3, <3>1, ParentStays
    <2>. QED BY <2>1, <2>2
  <1>. QED BY <1>3, <1>5 DEF ChatInv

\* What a task sends is a batch of events.
LEMMA TaskSends ==
  ASSUME IInv, NEW t \in Turns, Stream(t) \/ End(t) \/ Disconnect(t)
  PROVE  \E evs \in Seq(Events) : events' = events \o evs
  <1>1. ASSUME NEW kind \in Kinds, NEW ask \in Asks \cup {None}, NEW error \in BOOLEAN
        PROVE  Event(t, kind, ask, error) \in Events
    BY SentEvent
  <1>2. ASSUME NEW kind \in Kinds
        PROVE  <<Plain(t, kind)>> \in Seq(Events)
    BY PlainSent
  <1>3. CASE Stream(t)
    <2>1. \/ \E kind \in Kinds : events' = events \o <<Plain(t, kind)>>
          \/ events' = events \o <<Plain(t, "Delta"),
                         Event(t, "Interrupt", server[task[t].msg].ask, FALSE)>>
          \/ events' = events \o <<Plain(t, "ToolFinished"), Plain(t, "TurnError")>>
      BY <1>3 DEF Stream, Send, Kinds
    <2>2. CASE \E kind \in Kinds : events' = events \o <<Plain(t, kind)>>
      BY <1>2, <2>2
    <2>3. CASE events' = events \o <<Plain(t, "Delta"),
                 Event(t, "Interrupt", server[task[t].msg].ask, FALSE)>>
      <3>. DEFINE k1 == "Delta"
                  k2 == "Interrupt"
                  a == server[task[t].msg].ask
                  no == FALSE
                  d == Event(t, k1, None, no)
                  q == Event(t, k2, a, no)
      <3>1. k1 \in Kinds /\ k2 \in Kinds /\ None \in Asks \cup {None} /\ no \in BOOLEAN
        BY DEF Kinds
      <3>2. a \in Asks \cup {None}
        <4>1. task[t].msg \in Msgs
          BY <1>3, AskTypes DEF Stream, Tasks
        <4>. QED BY <4>1, AskTypes DEF Messages
      <3>3. events' = events \o <<d, q>>
        BY <2>3 DEF Plain
      <3>. HIDE DEF k1, k2, a, no
      <3>4. d \in Events /\ q \in Events
        BY <1>1, <3>1, <3>2
      <3>. HIDE DEF d, q
      <3>5. <<d, q>> \in Seq(Events)
        BY <3>4
      <3>. QED BY <3>3, <3>5
    <2>4. CASE events' = events \o <<Plain(t, "ToolFinished"), Plain(t, "TurnError")>>
      <3>. DEFINE k1 == "ToolFinished"
                  k2 == "TurnError"
                  evs == <<Plain(t, k1), Plain(t, k2)>>
      <3>1. k1 \in Kinds /\ k2 \in Kinds /\ events' = events \o evs
        BY <2>4 DEF Kinds
      <3>2. evs = <<Plain(t, k1), Plain(t, k2)>>
        OBVIOUS
      <3>. HIDE DEF k1, k2, evs
      <3>3. evs \in Seq(Events)
        BY <3>1, <3>2, PlainPair
      <3>. QED BY <3>1, <3>3
    <2>. QED BY <2>1, <2>2, <2>3, <2>4
  <1>4. CASE End(t)
    <2>. DEFINE kind == "TurnFinished"
    <2>1. PICK error \in BOOLEAN : events' = events \o <<Event(t, kind, None, error)>>
      BY <1>4 DEF End, LastEvent
    <2>2. kind \in Kinds /\ None \in Asks \cup {None}
      BY DEF Kinds
    <2>. HIDE DEF kind
    <2>. DEFINE e == Event(t, kind, None, error)
    <2>3. e \in Events /\ events' = events \o <<e>>
      BY <1>1, <2>1, <2>2
    <2>. HIDE DEF e
    <2>4. <<e>> \in Seq(Events)
      BY <2>3
    <2>. QED BY <2>3, <2>4
  <1>5. CASE Disconnect(t)
    <2>. DEFINE kind == "StreamInterrupted"
    <2>1. kind \in Kinds /\ events' = Append(events, Plain(t, kind))
      BY <1>5 DEF Disconnect, Kinds
    <2>. HIDE DEF kind
    <2>2. events' = events \o <<Plain(t, kind)>>
      BY <2>1, PlainSent
    <2>. QED BY <1>2, <2>1, <2>2
  <1>. QED BY <1>3, <1>4, <1>5

\* What a task does on its own account.
LEMMA TaskChat ==
  ASSUME IInv, SInv, FreshInv, ToldInv, ChatInv, Uncancelled, [Next]_vars,
         NEW t \in Turns, TurnTask(t) \/ Disconnect(t)
  PROVE  ChatInv'
  <1>1. /\ OneTurn /\ TurnIsCurrent
        /\ AcceptedOf /\ IdsMatch /\ LoadsOf /\ ToldStart /\ ParentMatch
    BY DEF SInv, ToldInv, ChatInv
  <1>2. UNCHANGED <<turn, generation, request, loaded, chat_uid, message_id,
                    parent_message_id>>
    BY DEF TurnTask, Accept, Stream, Send, End, AbortLands, Disconnect, chat, ids, loading
  <1>3. IdsMatch' /\ LoadsOf' /\ ParentMatch'
    BY <1>1, <1>2, IdsKeep, LoadsKeep, ParentStays
  <1>4. CASE Accept(t)
    BY <1>1, <1>3, <1>4, AcceptedAccept, AcceptStart DEF ChatInv
  <1>5. CASE ~Accept(t)
    <2>1. Stream(t) \/ End(t) \/ AbortLands(t) \/ Disconnect(t)
      BY <1>5 DEF TurnTask
    <2>2. \A u \in Turns : task'[u].msg = task[u].msg
                           /\ (task'[u].st # "idle" => task[u].st # "idle")
      <3>1. task[t].st # "idle"
        BY <2>1 DEF Stream, End, AbortLands, Disconnect, Running
      <3>. QED BY <2>1, <3>1, TaskGoesOn
    <2>3. AcceptedOf'
      BY <1>1, <1>2, <2>2, AcceptedKeeps
    <2>4. turn # None => task'[turn].msg = task[turn].msg
      BY <2>2, OneTurnTypes
    <2>5. ASSUME NEW evs \in Seq(Events), events' = events \o evs PROVE ToldStart'
      BY <1>1, <1>2, <2>4, <2>5, SendStart
    <2>6. CASE AbortLands(t)
      <3>1. UNCHANGED events
        BY <2>6 DEF AbortLands
      <3>. QED BY <1>2, <1>3, <2>2, <3>1, AsideChat
    <2>7. CASE ~AbortLands(t)
      <3>1. \E evs \in Seq(Events) : events' = events \o evs
        BY <2>1, <2>7, TaskSends
      <3>. QED BY <1>3, <2>3, <2>5, <3>1 DEF ChatInv
    <2>. QED BY <2>6, <2>7
  <1>. QED BY <1>4, <1>5

LEMMA NextChat ==
  IInv /\ TInv /\ SInv /\ FreshInv /\ ToldInv /\ ChatInv /\ [Next]_vars => ChatInv'
  <1>. SUFFICES ASSUME IInv, TInv, SInv, FreshInv, ToldInv, ChatInv, [Next]_vars,
                       Uncancelled'
                PROVE  ChatInv'
    BY DEF ChatInv
  <1>1. Uncancelled
    BY UncancelledBefore
  <1>2. AcceptedOf /\ IdsMatch /\ LoadsOf /\ ToldStart /\ ParentMatch
    BY <1>1 DEF ChatInv
  <1>3. CASE SendPrompt \/ RetryLast \/ ClickFurther \/ AnswerQuestion
    <2>1. CASE StartsAfresh /\ UNCHANGED parent_message_id
      <3>1. UNCHANGED chat_uid
        BY <2>1 DEF StartsAfresh
      <3>2. /\ AcceptedOf' /\ IdsMatch' /\ LoadsOf' /\ ToldStart'
            /\ turn' # None => request'[turn'].chat = chat_uid
        BY <1>1, <2>1, StartChat
      <3>3. ParentMatch'
        BY <1>2, <2>1, <3>1, <3>2, ParentStays
      <3>. QED BY <3>2, <3>3 DEF ChatInv
    <2>2. CASE Elsewhere
      <3>1. LoadsOf'
        BY <1>2, <2>2, LoadsKeep DEF Elsewhere
      <3>. QED BY <1>1, <2>2, <3>1, AsideChat DEF Elsewhere
    <2>. QED BY <1>1, <1>3, <2>1, <2>2, ReaderStarts
  <1>4. CASE ReceiveTurnFinished
    BY <1>1, <1>4, FinishChat
  <1>5. CASE Cancel \/ SignOut
    BY <1>5, CancelEnds
  <1>6. CASE NewSession
    <2>1. /\ AbandonTurn /\ turn' = None /\ UNCHANGED <<request, loaded>>
          /\ chat_uid' = None /\ message_id' = None /\ parent_message_id' = None
      BY <1>6 DEF NewSession, AbandonTurn, loading
    <2>2. \A t \in Turns : task'[t].st # "idle" => task[t].st # "idle"
      BY <2>1, AbandonStep DEF IInv
    <2>3. AcceptedOf'
      BY <1>2, <2>1, <2>2, AbandonsOne, AcceptedKeeps
    <2>4. LoadsOf'
      BY <1>2, <2>1, LoadsKeep
    <2>. QED BY <2>1, <2>3, <2>4 DEF ChatInv, IdsMatch, ToldStart, ParentMatch
  <1>7. CASE ReceiveLoad /\ Head(loaded) # None
    BY <1>1, <1>7, LoadChat DEF ChatInv
  <1>8. CASE ReceiveLoad /\ Head(loaded) = None
    <2>1. loaded # <<>> /\ loaded' = Tail(loaded) /\ UNCHANGED server
      BY <1>8 DEF ReceiveLoad
    <2>2. LoadsOf'
      BY <1>2, <2>1, LoadTaken
    <2>3. UNCHANGED <<turn, generation, events, request, chat_uid, message_id,
                      parent_message_id, task>>
      BY <1>8, StepsElsewhere
    <2>. QED BY <1>1, <2>2, <2>3, AsideChat
  <1>9. CASE QueuePrompt \/ Navigate \/ SignIn \/ RequestLoad \/ UNCHANGED vars
    <2>1. UNCHANGED loaded
      BY <1>9 DEF QueuePrompt, Navigate, SignIn, RequestLoad, vars, loading
    <2>2. UNCHANGED <<turn, generation, events, request, chat_uid, message_id,
                      parent_message_id, task>>
      BY <1>9, StepsElsewhere
    <2>3. LoadsOf'
      BY <1>2, <2>1, LoadsKeep
    <2>. QED BY <1>1, <2>2, <2>3, AsideChat
  <1>10. CASE FinishLoad
    <2>1. UNCHANGED <<turn, generation, events, request, chat_uid, message_id,
                      parent_message_id, task>>
      BY <1>10 DEF FinishLoad, chat, ids
    <2>2. LoadsOf'
      BY <1>1, <1>10, StoreChat
    <2>. QED BY <1>1, <2>1, <2>2, AsideChat
  <1>11. CASE \E m \in Msgs : Settle(m)
    <2>1. UNCHANGED <<turn, generation, events, request, chat_uid, message_id,
                      parent_message_id, task, loaded>>
      BY <1>11 DEF Settle, chat, ids, loading
    <2>2. LoadsOf'
      BY <1>2, <2>1, LoadsKeep
    <2>. QED BY <1>1, <2>1, <2>2, AsideChat
  <1>12. CASE DropStale
    <2>1. /\ events # <<>> /\ events' = Tail(events) /\ ~Current(Head(events))
          /\ UNCHANGED <<turn, generation, request, chat_uid, message_id,
                         parent_message_id, task, server, loaded>>
      BY <1>12 DEF DropStale, chat, ids, loading
    <2>2. AcceptedOf' /\ IdsMatch' /\ LoadsOf' /\ ParentMatch'
      BY <1>2, <2>1, AcceptedKeeps, IdsKeep, LoadsKeep, ParentStays
    <2>3. Begun => Begun'
      BY <2>1 DEF Begun, ChatOf
    <2>4. ToldStart'
      BY <1>2, <2>1, <2>3, TakeStart
    <2>. QED BY <2>2, <2>4 DEF ChatInv
  <1>13. CASE Loop /\ ~ReceiveLoad /\ ~ReceiveTurnFinished /\ ~DropStale
    BY <1>1, <1>13, HearsChat DEF Loop, ChatInv
  <1>14. CASE \E t \in Turns : TurnTask(t) \/ Disconnect(t)
    BY <1>1, <1>14, TaskChat
  <1>. QED BY <1>3, <1>4, <1>5, <1>6, <1>7, <1>8, <1>9, <1>10, <1>11, <1>12, <1>13, <1>14
           DEF Next, Reader, Loop

----------------------------------------------------------------------------
(* What a turn shows comes from one connection.                            *)

\* A task that was not accepted has sent nothing that counts.
OutInv == \A t \in Turns : task[t].msg = None => task[t].out = {}

\* The lines of `lines` up to `n` are at rest, and among them a turn has one tool line
\* and one answer, whose text is all its own.
TextsOf(t) == IF "Ask" \in task[t].out THEN 2 ELSE 1
Counts(line) == line.role \in {"Tool", "Assistant"}
LineOnce(line) ==
  /\ line.by # <<>>
  /\ \A k \in 1 .. Len(line.by) : line.by[k] = line.by[1]
  /\ line.role = "Assistant" => Len(line.by) <= TextsOf(line.by[1])
LinesOnce(lines, n) ==
  \A i \in 1 .. n :
    /\ ~lines[i].running
    /\ Counts(lines[i]) =>
         /\ LineOnce(lines[i])
         /\ \A j \in 1 .. n : lines[j].role = lines[i].role /\ lines[j].by[1] = lines[i].by[1]
                                => i = j

\* The lines that are not of the turn under way: all, or those up to its prompt.
Old == IF turn = None THEN Len(messages) ELSE turn_started.from + 1
OldInv ==
  /\ LinesOnce(messages, Old)
  /\ \A i \in 1 .. Old : Counts(messages[i]) => messages[i].by[1] # turn

\* Of the turn under way at most one line is shown, its tool line, and of its text no
\* more than it has sent.
ScreenInv ==
  IF turn = None THEN Streamed = <<>>
  ELSE /\ Len(messages) \in {Old, Old + 1}
       /\ Len(messages) = Old + 1 =>
            messages[Old + 1].role = "Tool" /\ messages[Old + 1].by = <<turn>>
       /\ \A k \in 1 .. Len(Streamed) : Streamed[k] = turn
       /\ \/ Len(Streamed) <= 1
          \/ /\ Len(Streamed) = 2 /\ "Ask" \in task[turn].out
             /\ \A i \in Coming : events[i].kind # "Delta"

\* What may double something: what is on screen, what is on its way and what the task
\* may still send.
Twofold == {"ToolStarted", "ToolFinished", "Delta"}
Shown == (IF Len(messages) # Old + 1 THEN {}
          ELSE IF messages[Old + 1].running THEN {"ToolStarted"} ELSE {"ToolFinished"})
         \cup (IF Streamed = <<>> THEN {} ELSE {"Delta"})
At(p) == IF p = 0 THEN Shown ELSE {events[p].kind}
Left == (IF {"Tool", "ToolDone"} \cap task[turn].out = {} THEN {"ToolStarted"} ELSE {})
        \cup (IF "ToolDone" \in task[turn].out THEN {} ELSE {"ToolFinished"})
        \cup (IF ({"Delta"} \cup Outcome) \cap task[turn].out = {} THEN {"Delta"} ELSE {})

\* A tool line is begun and resolved once, and text comes once, but for that of a
\* question ...
Clash(a, b) == a \in Twofold /\ b \in Twofold /\ (a = b \/ (a = "ToolFinished" /\ b = "ToolStarted"))
Asked(q) == events[q].kind = "Delta" /\ q + 1 \in Coming /\ events[q + 1].kind = "Interrupt"
\* ... unless the connection that brought it first is announced void in between.
Cut(p, q) == \E k \in Coming : p < k /\ k < q /\ events[k].kind = "StreamInterrupted"
CutAfter(p) == \E k \in Coming : p < k /\ events[k].kind = "StreamInterrupted"
Places == {0} \cup Coming
NoneTwice ==
  turn # None =>
    /\ \A p \in Places, q \in Coming : p < q =>
         \A a \in At(p), b \in At(q) : Clash(a, b) => Cut(p, q) \/ Asked(q)
    /\ \A p \in Places : \A a \in At(p), b \in Left : Clash(a, b) => CutAfter(p)

\* A question is asked last.
AskOnce ==
  turn # None =>
    \A i \in Coming : events[i].kind = "Interrupt" =>
      /\ "Ask" \in task[turn].out
      /\ \A j \in Coming : i < j => events[j].kind # "Delta"

TwiceInv == OutInv /\ (Uncancelled => OldInv /\ ScreenInv /\ NoneTwice /\ AskOnce)

LEMMA OutKeeps ==
  ASSUME IInv, FreshInv, OutInv, [Next]_vars
  PROVE  OutInv' /\ \A t \in Turns : "Ask" \in task[t].out => "Ask" \in task'[t].out
  <1>. SUFFICES ASSUME NEW t \in Turns
       PROVE  /\ task'[t].msg = None => task'[t].out = {}
              /\ "Ask" \in task[t].out => "Ask" \in task'[t].out
    BY DEF OutInv
  <1>0. task[t].msg = None => task[t].out = {}
    BY DEF OutInv
  <1>1. CASE Starts
    <2>1. task[spawned + 1].msg = None
      BY <1>1, StartsOne DEF FreshInv, Starts
    <2>. QED BY <1>0, <1>1, <2>1, StartsOne
  <1>2. CASE AbandonTurn
    <2>1. task' = Aborted
      BY <1>2 DEF AbandonTurn
    <2>2. task'[t].msg = task[t].msg /\ task'[t].out = task[t].out
      BY <2>1, AskTypes, OneTurnTypes DEF Aborted, Tasks
    <2>. QED BY <1>0, <2>2
  <1>3. ASSUME NEW u \in Turns, Accept(u)
        PROVE  /\ task'[t].msg = None => task'[t].out = {}
               /\ "Ask" \in task[t].out => "Ask" \in task'[t].out
    <2>1. PICK m \in Msgs : /\ task[u].msg = None /\ task'[u].msg = m
                            /\ \A v \in Turns : v # u => task'[v] = task[v]
      BY <1>3, AcceptsOne
    <2>2. m # None
      BY AskTypes
    <2>. QED BY <1>0, <2>1, <2>2
  <1>4. ASSUME NEW u \in Turns, Stream(u) \/ End(u) \/ AbortLands(u) \/ Disconnect(u)
        PROVE  /\ task'[t].msg = None => task'[t].out = {}
               /\ "Ask" \in task[t].out => "Ask" \in task'[t].out
    <2>1. CASE t # u
      BY <1>0, <1>4, <2>1, TaskGoesOn
    <2>2. CASE t = u
      <3>1. CASE Stream(u)
        <4>1. task[u].msg # None /\ \E what : task' = [task EXCEPT ![u].out = @ \cup what]
          BY <3>1 DEF Stream, Send
        <4>. QED BY <2>2, <4>1, AskTypes DEF Tasks
      <3>2. CASE End(u) \/ AbortLands(u)
        <4>1. task' = [task EXCEPT ![u].st = "ended"]
          BY <3>2 DEF End, AbortLands
        <4>. QED BY <1>0, <2>2, <4>1, AskTypes DEF Tasks
      <3>3. CASE Disconnect(u)
        <4>1. /\ "Ask" \notin task[u].out
              /\ \E back : task' = [task EXCEPT ![u].out = {}, ![u].readback = back]
          BY <3>3 DEF Disconnect, Outcome
        <4>. QED BY <2>2, <4>1, AskTypes DEF Tasks
      <3>. QED BY <1>4, <3>1, <3>2, <3>3
    <2>. QED BY <2>1, <2>2
  <1>5. CASE UNCHANGED task
    BY <1>0, <1>5
  <1>6. ASSUME NEW m \in Msgs, Settle(m) PROVE UNCHANGED task
    BY <1>6, SettlesOne
  <1>. QED BY <1>1, <1>2, <1>3, <1>4, <1>5, <1>6, StepsOfTasks

\* The old lines stay, for whatever of them is counted.
LEMMA OldKeeps ==
  ASSUME IInv, OldInv, UNCHANGED turn, Old' = Old, Old \in Nat, Old <= Len(messages),
         \A i \in 1 .. Old : messages'[i] = messages[i],
         \A t \in Turns : "Ask" \in task[t].out => "Ask" \in task'[t].out
  PROVE  OldInv'
  <1>1. \A i \in 1 .. Old : messages[i] \in Lines
    <2>1. messages \in Seq(Lines)
      BY DEF IInv, TypeOK, ChatTypeOK
    <2>. QED BY <2>1, LenProperties, ElementOfSeq
  <1>2. ASSUME NEW i \in 1 .. Old, Counts(messages[i]) PROVE LineOnce(messages[i])'
    <2>1. LineOnce(messages[i])
      BY <1>2 DEF OldInv, LinesOnce
    <2>2. messages[i].by \in Seq(Turns) /\ messages[i].by # <<>>
      BY <1>1, <2>1 DEF LineOnce, Lines
    <2>3. messages[i].by[1] \in Turns
      BY <2>2, LenProperties, ElementOfSeq
    <2>4. TextsOf(messages[i].by[1]) <= TextsOf(messages[i].by[1])'
      BY <2>3 DEF TextsOf
    <2>. QED BY <2>1, <2>2, <2>3, <2>4 DEF LineOnce, TextsOf
  <1>. QED BY <1>1, <1>2 DEF OldInv, LinesOnce, Counts

LEMMA OldFacts ==
  ASSUME IInv, TInv
  PROVE  /\ Old \in Nat /\ Old <= Len(messages) /\ Len(messages) \in Nat
         /\ messages \in Seq(Lines) /\ Streamed \in Seq(Turns) /\ Len(Streamed) \in Nat
         /\ turn # None => Old = turn_started.from + 1 /\ turn_started # None
         /\ \A i \in 1 .. Len(messages) : messages[i] \in Lines
  <1>1. messages \in Seq(Lines) /\ Streamed \in Seq(Turns)
    <2>1. <<>> \in Seq(Turns)
      BY EmptySeq
    <2>. QED BY <2>1 DEF IInv, TypeOK, ChatTypeOK, Streamed
  <1>2. Len(messages) \in Nat /\ Len(Streamed) \in Nat
        /\ \A i \in 1 .. Len(messages) : messages[i] \in Lines
    BY <1>1, LenProperties, ElementOfSeq
  <1>3. CASE turn = None
    BY <1>1, <1>2, <1>3 DEF Old
  <1>4. CASE turn # None
    <2>1. turn_started # None /\ turn_started.from \in Nat
      BY <1>4 DEF TInv, StartIsTheTurns, IInv, TypeOK, ChatTypeOK
    <2>2. turn_started.from + 1 <= Len(messages)
      BY <2>1 DEF IInv, PromptShown
    <2>. QED BY <1>1, <1>2, <1>4, <2>1, <2>2 DEF Old
  <1>. QED BY <1>3, <1>4

\* The turn under way sends a batch: nothing of it comes a second time.
LEMMA SendsOnce ==
  ASSUME IInv, NoneTwice, AskOnce, turn # None,
         UNCHANGED <<turn, turn_started, generation, messages, streaming>>,
         NEW evs \in Seq(Events), events' = events \o evs,
         \A k \in 1 .. Len(evs) : evs[k].generation = generation,
         \A k \in 1 .. Len(evs) : evs[k].kind \in Twofold =>
           \/ evs[k].kind \in Left
           \/ /\ evs[k].kind = "Delta" /\ k + 1 \in 1 .. Len(evs)
              /\ evs[k + 1].kind = "Interrupt",
         \A k, l \in 1 .. Len(evs) : k < l => evs[l].kind \notin Twofold,
         \/ /\ Left' \subseteq Left
            /\ \A k \in 1 .. Len(evs) : \A b \in Left' : ~Clash(evs[k].kind, b)
         \/ 1 \in 1 .. Len(evs) /\ \A k \in 1 .. Len(evs) : evs[k].kind = "StreamInterrupted",
         \A k \in 1 .. Len(evs) : evs[k].kind = "Delta" => "Ask" \notin task[turn].out,
         \A k \in 1 .. Len(evs) : evs[k].kind = "Interrupt" => "Ask" \in task'[turn].out,
         "Ask" \in task[turn].out => "Ask" \in task'[turn].out
  PROVE  NoneTwice' /\ AskOnce'
  <1>. DEFINE n == Len(events)
  <1>1. n \in Nat /\ Len(evs) \in Nat
    BY OneTurnTypes, LenProperties
  <1>2. Shown' = Shown
    BY DEF Shown, Old, Streamed
  <1>3. \A p \in Coming : p \in Nat /\ p # 0 /\ p <= n
    BY SentComing, <1>1 DEF Coming
  <1>4. \A q \in Coming' : q \in Nat /\ q # 0
    BY SentComing DEF Coming
  <1>5. ASSUME NEW q \in Coming', q > n
        PROVE  /\ q - n \in 1 .. Len(evs) /\ events'[q] = evs[q - n]
    BY <1>5, SentComing
  <1>6. ASSUME NEW p \in Places', p <= n
        PROVE  p \in Places /\ At(p)' = At(p)
    <2>1. CASE p = 0
      BY <1>2, <2>1 DEF Places, At
    <2>2. CASE p # 0
      <3>1. p \in Coming /\ events'[p] = events[p]
        BY <1>6, <2>2, SentComing DEF Places
      <3>. QED BY <2>2, <3>1 DEF Places, At
    <2>. QED BY <2>1, <2>2
  <1>7. \A p \in Places' : p \in Nat
    BY <1>4 DEF Places
  <1>8. ASSUME NEW q \in Coming', q <= n PROVE q \in Coming /\ events'[q] = events[q]
    BY <1>8, SentComing
  <1>. HIDE DEF n
  <1>9. ASSUME NEW p \in Places', NEW q \in Coming', p < q,
               NEW a \in At(p)', NEW b \in At(q)', Clash(a, b)
        PROVE  Cut(p, q)' \/ Asked(q)'
    <2>0. p \in Nat /\ q \in Nat /\ q # 0 /\ (q <= n \/ q > n) /\ (p <= n \/ p > n)
      BY <1>1, <1>4, <1>7
    <2>1. CASE q <= n
      <3>1. p <= n
        BY <1>1, <1>9, <2>0, <2>1
      <3>2. p \in Places /\ a \in At(p) /\ q \in Coming /\ b \in At(q)
        <4>1. q \in Places' /\ q \in Coming
          BY <1>8, <2>1 DEF Places
        <4>. QED BY <1>6, <1>9, <2>1, <3>1, <4>1
      <3>3. Cut(p, q) \/ Asked(q)
        BY <1>9, <3>2 DEF NoneTwice
      <3>4. CASE Cut(p, q)
        BY <3>4, SentComing DEF Cut
      <3>5. CASE Asked(q)
        BY <2>1, <3>2, <3>5, SentComing DEF Asked
      <3>. QED BY <3>3, <3>4, <3>5
    <2>2. CASE q > n
      <3>. DEFINE k == q - n
      <3>0. k \in 1 .. Len(evs) /\ events'[q] = evs[k]
        BY <1>5, <2>2
      <3>0a. q = n + k
        BY <1>1, <2>0
      <3>. HIDE DEF k
      <3>1. k \in 1 .. Len(evs) /\ events'[q] = evs[k] /\ k \in Nat /\ q = n + k
        BY <3>0, <3>0a
      <3>2. b = evs[k].kind /\ b \in Twofold
        BY <1>9, <2>0, <3>1 DEF At, Clash
      <3>3. CASE p <= n
        <4>1. p \in Places /\ a \in At(p)
          BY <1>6, <1>9, <3>3
        <4>2. CASE b \in Left
          <5>1. PICK i \in Coming : p < i /\ events[i].kind = "StreamInterrupted"
            BY <1>9, <4>1, <4>2 DEF NoneTwice, CutAfter
          <5>2. i \in Nat /\ i <= n /\ i < q
            BY <1>1, <1>3, <2>0, <2>2, <5>1
          <5>3. i \in Coming' /\ events'[i].kind = "StreamInterrupted"
            BY <5>1, SentComing
          <5>. QED BY <5>1, <5>2, <5>3 DEF Cut
        <4>3. CASE b \notin Left
          <5>1. evs[k].kind = "Delta" /\ k + 1 \in 1 .. Len(evs) /\ evs[k + 1].kind = "Interrupt"
            BY <3>1, <3>2, <4>3
          <5>2. n + (k + 1) \in Coming' /\ events'[n + (k + 1)] = evs[k + 1]
            BY <5>1, SentComing DEF n
          <5>3. n + (k + 1) = q + 1
            BY <1>1, <3>1
          <5>. QED BY <3>1, <5>1, <5>2, <5>3 DEF Asked
        <4>. QED BY <4>2, <4>3
      <3>4. CASE p > n
        <4>1. p - n \in 1 .. Len(evs)
          <5>1. p \in Coming'
            BY <1>1, <3>4 DEF Places
          <5>. QED BY <1>5, <3>4, <5>1
        <4>2. p - n < k
          BY <1>1, <1>9, <2>0, <3>1
        <4>. QED BY <3>1, <3>2, <4>1, <4>2
      <3>. QED BY <2>0, <3>3, <3>4
    <2>. QED BY <2>0, <2>1, <2>2
  <1>10. ASSUME NEW p \in Places', NEW a \in At(p)', NEW b \in Left', Clash(a, b)
         PROVE  CutAfter(p)'
    <2>0. p \in Nat /\ (p <= n \/ p > n)
      BY <1>1, <1>7
    <2>1. CASE p <= n
      <3>1. p \in Places /\ a \in At(p)
        BY <1>6, <1>10, <2>1
      <3>2. CASE Left' \subseteq Left
        <4>1. CutAfter(p)
          BY <1>10, <3>1, <3>2 DEF NoneTwice
        <4>. QED BY <4>1, SentComing DEF CutAfter
      <3>3. CASE 1 \in 1 .. Len(evs)
                 /\ \A k \in 1 .. Len(evs) : evs[k].kind = "StreamInterrupted"
        <4>1. n + 1 \in Coming' /\ events'[n + 1] = evs[1]
          BY <3>3, SentComing DEF n
        <4>2. p < n + 1
          BY <1>1, <2>0, <2>1
        <4>. QED BY <3>3, <4>1, <4>2 DEF CutAfter
      <3>. QED BY <3>2, <3>3
    <2>2. CASE p > n
      <3>1. p \in Coming' /\ p # 0
        BY <1>1, <2>2 DEF Places
      <3>2. p - n \in 1 .. Len(evs) /\ events'[p] = evs[p - n]
        BY <1>5, <2>2, <3>1
      <3>3. a = evs[p - n].kind
        BY <1>10, <3>1, <3>2 DEF At
      <3>4. a # "StreamInterrupted"
        BY <1>10 DEF Clash, Twofold
      <3>. QED BY <1>10, <3>2, <3>3, <3>4
    <2>. QED BY <2>0, <2>1, <2>2
  <1>11. NoneTwice'
    BY <1>9, <1>10 DEF NoneTwice
  <1>12. ASSUME NEW i \in Coming', events'[i].kind = "Interrupt"
         PROVE  /\ "Ask" \in task'[turn].out
                /\ \A j \in Coming' : i < j => events'[j].kind # "Delta"
    <2>0. i \in Nat /\ (i <= n \/ i > n)
      BY <1>1, <1>4
    <2>1. CASE i <= n
      <3>1. i \in Coming /\ events[i].kind = "Interrupt"
        BY <1>8, <1>12, <2>1
      <3>2. "Ask" \in task[turn].out
        BY <3>1 DEF AskOnce
      <3>3. ASSUME NEW j \in Coming', i < j PROVE events'[j].kind # "Delta"
        <4>0. j \in Nat /\ (j <= n \/ j > n)
          BY <1>1, <1>4
        <4>1. CASE j <= n
          BY <1>8, <3>1, <3>3, <4>1 DEF AskOnce
        <4>2. CASE j > n
          BY <1>5, <3>2, <4>2
        <4>. QED BY <4>0, <4>1, <4>2
      <3>. QED BY <3>2, <3>3
    <2>2. CASE i > n
      <3>1. i - n \in 1 .. Len(evs) /\ events'[i] = evs[i - n]
        BY <1>5, <2>2
      <3>2. ASSUME NEW j \in Coming', i < j PROVE events'[j].kind # "Delta"
        <4>1. j > n /\ j \in Nat
          BY <1>1, <1>4, <2>0, <2>2, <3>2
        <4>2. j - n \in 1 .. Len(evs) /\ events'[j] = evs[j - n]
          BY <1>5, <4>1
        <4>3. i - n < j - n
          BY <1>1, <2>0, <3>2, <4>1
        <4>. QED BY <3>1, <4>2, <4>3 DEF Twofold
      <3>. QED BY <1>12, <3>1, <3>2
    <2>. QED BY <2>0, <2>1, <2>2
  <1>. QED BY <1>11, <1>12 DEF AskOnce

\* Taking an event: what it shows is shown of it, and a connection announced void takes
\* along what it showed.
LEMMA TakesOnce ==
  ASSUME IInv, NoneTwice, AskOnce, turn # None,
         UNCHANGED <<turn, generation, task>>, events # <<>>, events' = Tail(events),
         Shown' \subseteq Shown \cup {Head(events).kind},
         Shown' \subseteq Shown \/ Current(Head(events)),
         Current(Head(events)) /\ Head(events).kind = "StreamInterrupted" => Shown' = {}
  PROVE  NoneTwice' /\ AskOnce'
  <1>1. \A i \in Coming' : i \in Nat /\ i + 1 \in Coming /\ events'[i] = events[i + 1]
    BY TailComing
  <1>2. \A i \in Coming : i \in Nat /\ i # 0
    BY OneTurnTypes DEF Coming
  <1>2b. ASSUME NEW k \in Coming, k # 1
         PROVE  \E m \in Coming' : m \in Nat /\ m # 0 /\ k = m + 1 /\ events'[m] = events[k]
    <2>. DEFINE m == k - 1
    <2>1. m \in Coming' /\ events'[m] = events[k]
      BY <1>2b, TailKeeps
    <2>2. m \in Nat /\ m # 0 /\ k = m + 1
      BY <1>2, <1>2b
    <2>. HIDE DEF m
    <2>. QED BY <2>1, <2>2
  <1>2a. \A i \in Coming' : i # 0 /\ i \in Nat
    BY <1>1 DEF Coming
  <1>3. Current(Head(events)) => 1 \in Coming /\ events[1] = Head(events)
    BY OneTurnTypes DEF Coming
  <1>4. Left' = Left
    BY DEF Left
  <1>5. ASSUME NEW p \in Places', NEW a \in At(p)'
        PROVE  \E r \in Places : r <= p + 1 /\ a \in At(r)
                 /\ \A k \in Coming : r < k /\ events[k].kind = "StreamInterrupted"
                      => \E m \in Coming' : k = m + 1 /\ p < m /\ events'[m].kind = "StreamInterrupted"
    <2>1. CASE p # 0
      <3>1. p \in Coming' /\ p \in Nat /\ p + 1 \in Coming /\ events'[p] = events[p + 1]
        BY <1>1, <2>1 DEF Places
      <3>2. a \in At(p + 1) /\ p + 1 \in Places
        BY <1>2, <1>5, <2>1, <3>1 DEF At, Places
      <3>3. ASSUME NEW k \in Coming, p + 1 < k
            PROVE  \E m \in Coming' : k = m + 1 /\ p < m /\ events'[m] = events[k]
        <4>1. k # 1
          BY <1>2a, <3>1, <3>3
        <4>2. PICK m \in Coming' : m \in Nat /\ k = m + 1 /\ events'[m] = events[k]
          BY <1>2b, <4>1
        <4>3. p < m
          BY <3>1, <3>3, <4>2
        <4>. QED BY <4>2, <4>3
      <3>. DEFINE r == p + 1
      <3>4. r \in Places /\ a \in At(r) /\ r <= p + 1
        BY <3>1, <3>2
      <3>5. \A k \in Coming : r < k => \E m \in Coming' : k = m + 1 /\ p < m /\ events'[m] = events[k]
        BY <3>3
      <3>. HIDE DEF r
      <3>. QED BY <3>4, <3>5
    <2>2. CASE p = 0
      <3>1. a \in Shown'
        BY <1>5, <2>2 DEF At
      <3>2. CASE a \in Shown
        <4>1. 0 \in Places /\ a \in At(0)
          BY <3>2 DEF Places, At
        <4>2. ASSUME NEW k \in Coming, events[k].kind = "StreamInterrupted" PROVE k # 1
          <5>. SUFFICES ASSUME k = 1 PROVE FALSE
            OBVIOUS
          <5>1. Head(events) = events[1] /\ Current(Head(events))
            BY <4>2, OneTurnTypes DEF Coming
          <5>. QED BY <3>1, <4>2, <5>1
        <4>3. ASSUME NEW k \in Coming, events[k].kind = "StreamInterrupted"
              PROVE  \E m \in Coming' : k = m + 1 /\ 0 < m /\ events'[m] = events[k]
          <5>1. PICK m \in Coming' : m \in Nat /\ m # 0 /\ k = m + 1 /\ events'[m] = events[k]
            BY <1>2b, <4>2, <4>3
          <5>2. 0 < m
            BY <5>1
          <5>. QED BY <5>1, <5>2
        <4>4. 0 <= p + 1
          BY <2>2
        <4>. QED BY <2>2, <4>1, <4>3, <4>4
      <3>3. CASE a \notin Shown
        <4>1. a = Head(events).kind /\ Current(Head(events))
          BY <3>1, <3>3
        <4>2. 1 \in Places /\ a \in At(1)
          BY <1>3, <4>1 DEF Places, At
        <4>3. ASSUME NEW k \in Coming, 1 < k
              PROVE  \E m \in Coming' : k = m + 1 /\ 0 < m /\ events'[m] = events[k]
          <5>0. k # 1
            BY <4>3
          <5>1. PICK m \in Coming' : m \in Nat /\ m # 0 /\ k = m + 1 /\ events'[m] = events[k]
            BY <1>2b, <5>0
          <5>2. 0 < m
            BY <5>1
          <5>. QED BY <5>1, <5>2
        <4>4. 1 <= p + 1
          BY <2>2
        <4>. QED BY <2>2, <4>2, <4>3, <4>4
      <3>. QED BY <3>2, <3>3
    <2>. QED BY <2>1, <2>2
  <1>6. ASSUME NEW p \in Places', NEW q \in Coming', p < q,
               NEW a \in At(p)', NEW b \in At(q)', Clash(a, b)
        PROVE  Cut(p, q)' \/ Asked(q)'
    <2>0. p \in Nat /\ q \in Nat /\ q # 0
      BY <1>2a DEF Places
    <2>1. PICK r \in Places : r <= p + 1 /\ a \in At(r)
                 /\ \A k \in Coming : r < k /\ events[k].kind = "StreamInterrupted"
                      => \E m \in Coming' : k = m + 1 /\ p < m /\ events'[m].kind = "StreamInterrupted"
      BY <1>5
    <2>2. q + 1 \in Coming /\ b \in At(q + 1) /\ events'[q] = events[q + 1]
      <3>1. q + 1 \in Coming /\ events'[q] = events[q + 1]
        BY <1>1
      <3>2. q + 1 # 0
        BY <2>0
      <3>3. b = events'[q].kind
        BY <1>6, <2>0 DEF At
      <3>. QED BY <3>1, <3>2, <3>3 DEF At
    <2>3. r \in Nat /\ r < q + 1
      BY <1>2, <1>6, <2>0, <2>1 DEF Places
    <2>4. Cut(r, q + 1) \/ Asked(q + 1)
      BY <1>6, <2>1, <2>2, <2>3 DEF NoneTwice
    <2>5. CASE Cut(r, q + 1)
      <3>1. PICK k \in Coming : r < k /\ k < q + 1 /\ events[k].kind = "StreamInterrupted"
        BY <2>5 DEF Cut
      <3>2. PICK m \in Coming' : k = m + 1 /\ p < m /\ events'[m].kind = "StreamInterrupted"
        BY <2>1, <3>1
      <3>3. m < q
        BY <1>2a, <2>0, <3>1, <3>2
      <3>. QED BY <3>2, <3>3 DEF Cut
    <2>6. CASE Asked(q + 1)
      <3>1. events[q + 1].kind = "Delta" /\ (q + 1) + 1 \in Coming
            /\ events[(q + 1) + 1].kind = "Interrupt"
        BY <2>6 DEF Asked
      <3>2. (q + 1) + 1 # 1
        BY <2>0
      <3>2a. PICK m \in Coming' : m \in Nat /\ (q + 1) + 1 = m + 1 /\ events'[m] = events[(q + 1) + 1]
        BY <1>2b, <3>1, <3>2
      <3>2b. m = q + 1
        BY <2>0, <3>2a
      <3>3. q + 1 \in Coming' /\ events'[q + 1].kind = "Interrupt"
        BY <3>1, <3>2a, <3>2b
      <3>. QED BY <2>2, <3>1, <3>3 DEF Asked
    <2>. QED BY <2>4, <2>5, <2>6
  <1>7. ASSUME NEW p \in Places', NEW a \in At(p)', NEW b \in Left', Clash(a, b)
        PROVE  CutAfter(p)'
    <2>1. PICK r \in Places : r <= p + 1 /\ a \in At(r)
                 /\ \A k \in Coming : r < k /\ events[k].kind = "StreamInterrupted"
                      => \E m \in Coming' : k = m + 1 /\ p < m /\ events'[m].kind = "StreamInterrupted"
      BY <1>5
    <2>2. CutAfter(r)
      BY <1>4, <1>7, <2>1 DEF NoneTwice
    <2>. QED BY <2>1, <2>2 DEF CutAfter
  <1>8. NoneTwice'
    BY <1>6, <1>7 DEF NoneTwice
  <1>9. ASSUME NEW i \in Coming', events'[i].kind = "Interrupt"
        PROVE  /\ "Ask" \in task'[turn].out
               /\ \A j \in Coming' : i < j => events'[j].kind # "Delta"
    <2>1. i + 1 \in Coming /\ events[i + 1].kind = "Interrupt" /\ i \in Nat
      BY <1>1, <1>9
    <2>2. ASSUME NEW j \in Coming', i < j PROVE events'[j].kind # "Delta"
      <3>1. j + 1 \in Coming /\ events'[j] = events[j + 1] /\ j \in Nat
        BY <1>1
      <3>2. i + 1 < j + 1
        BY <2>1, <2>2, <3>1
      <3>. QED BY <2>1, <3>1, <3>2 DEF AskOnce
    <2>. QED BY <2>1, <2>2 DEF AskOnce
  <1>. QED BY <1>8, <1>9 DEF AskOnce

\* What touches neither the screen nor what the turn sends.
LEMMA AsideTwice ==
  ASSUME IInv, TInv, FreshInv, TwiceInv, [Next]_vars, Uncancelled' => Uncancelled,
         UNCHANGED <<turn, turn_started, messages, streaming>>,
         Uncancelled => Coming' = Coming /\ \A i \in Coming : events'[i] = events[i],
         turn # None => task'[turn].out = task[turn].out
  PROVE  TwiceInv'
  <1>. DEFINE keep == \A t \in Turns : "Ask" \in task[t].out => "Ask" \in task'[t].out
  <1>1. OutInv' /\ keep
    BY OutKeeps DEF TwiceInv
  <1>. SUFFICES ASSUME Uncancelled PROVE OldInv' /\ ScreenInv' /\ NoneTwice' /\ AskOnce'
    BY <1>1 DEF TwiceInv
  <1>2. Old' = Old /\ Streamed' = Streamed
    BY DEF Old, Streamed
  <1>3. OldInv /\ ScreenInv /\ NoneTwice /\ AskOnce
    BY DEF TwiceInv
  <1>4. OldInv'
    BY <1>1, <1>2, <1>3, OldFacts, OldKeeps
  <1>5. Coming' = Coming /\ \A i \in Coming : events'[i] = events[i]
    OBVIOUS
  <1>6. ScreenInv'
    BY <1>2, <1>3, <1>5 DEF ScreenInv
  <1>7. AskOnce'
    BY <1>3, <1>5 DEF AskOnce
  <1>8. NoneTwice'
    <2>. SUFFICES ASSUME turn # None PROVE NoneTwice'
      BY DEF NoneTwice
    <2>1. Shown' = Shown /\ Left' = Left /\ Places' = Places
      BY <1>2, <1>5 DEF Shown, Left, Places
    <2>2. \A p \in Places : At(p)' = At(p)
      BY <1>5, <2>1 DEF At, Places
    <2>3. \A q \in Coming : Asked(q) => Asked(q)'
      BY <1>5 DEF Asked
    <2>4. \A p \in Places : CutAfter(p) => CutAfter(p)'
      BY <1>5 DEF CutAfter
    <2>5. \A p \in Places, q \in Coming : Cut(p, q) => Cut(p, q)'
      BY <1>5 DEF Cut
    <2>6. \A q \in Coming : q \in Places
      BY DEF Places
    <2>. QED BY <1>3, <1>5, <2>1, <2>2, <2>3, <2>4, <2>5, <2>6 DEF NoneTwice
  <1>. QED BY <1>4, <1>6, <1>7, <1>8

TwiceParts == OldInv /\ ScreenInv /\ NoneTwice /\ AskOnce

\* The turn under way sends a batch, the screen as it was.
LEMMA SentTwice ==
  ASSUME IInv, TInv, FreshInv, TwiceInv, [Next]_vars, Uncancelled, turn # None,
         UNCHANGED <<turn, turn_started, generation, messages, streaming>>,
         NEW evs \in Seq(Events), events' = events \o evs,
         \A k \in 1 .. Len(evs) : evs[k].generation = generation,
         \A k \in 1 .. Len(evs) : evs[k].kind \in Twofold =>
           \/ evs[k].kind \in Left
           \/ /\ evs[k].kind = "Delta" /\ k + 1 \in 1 .. Len(evs)
              /\ evs[k + 1].kind = "Interrupt",
         \A k, l \in 1 .. Len(evs) : k < l => evs[l].kind \notin Twofold,
         \/ /\ Left' \subseteq Left
            /\ \A k \in 1 .. Len(evs) : \A b \in Left' : ~Clash(evs[k].kind, b)
         \/ 1 \in 1 .. Len(evs) /\ \A k \in 1 .. Len(evs) : evs[k].kind = "StreamInterrupted",
         \A k \in 1 .. Len(evs) : evs[k].kind = "Delta" => "Ask" \notin task[turn].out,
         \A k \in 1 .. Len(evs) : evs[k].kind = "Interrupt" => "Ask" \in task'[turn].out
  PROVE  TwiceParts'
  <1>1. /\ \A t \in Turns : "Ask" \in task[t].out => "Ask" \in task'[t].out
        /\ OldInv /\ ScreenInv /\ NoneTwice /\ AskOnce
    BY OutKeeps DEF TwiceInv
  <1>2. "Ask" \in task[turn].out => "Ask" \in task'[turn].out
    BY <1>1, OneTurnTypes
  <1>3. NoneTwice' /\ AskOnce'
    BY <1>1, <1>2, SendsOnce
  <1>4. Old' = Old /\ Streamed' = Streamed
    BY DEF Old, Streamed
  <1>5. OldInv'
    BY <1>1, <1>4, OldFacts, OldKeeps
  <1>6. ScreenInv'
    <2>1. ASSUME "Ask" \in task[turn].out, \A i \in Coming : events[i].kind # "Delta",
                 NEW i \in Coming'
          PROVE  events'[i].kind # "Delta"
      <3>1. CASE i <= Len(events)
        BY <2>1, <3>1, SentComing
      <3>2. CASE i > Len(events)
        <4>1. i - Len(events) \in 1 .. Len(evs) /\ events'[i] = evs[i - Len(events)]
          BY <3>2, SentComing
        <4>. QED BY <2>1, <4>1
      <3>3. i <= Len(events) \/ i > Len(events)
        <4>1. i \in Nat /\ Len(events) \in Nat
          BY SentComing, OneTurnTypes
        <4>. QED BY <4>1
      <3>. QED BY <3>1, <3>2, <3>3
    <2>. QED BY <1>1, <1>2, <1>4, <2>1 DEF ScreenInv
  <1>. QED BY <1>3, <1>5, <1>6 DEF TwiceParts

\* A batch of whichever task.
LEMMA BatchTwice ==
  ASSUME IInv, TInv, SInv, FreshInv, ToldInv, TwiceInv, [Next]_vars, Uncancelled, Uncancelled',
         NEW t \in Turns, Running(t),
         UNCHANGED <<turn, turn_started, generation, messages, streaming>>,
         NEW evs \in Seq(Events), events' = events \o evs,
         \A k \in 1 .. Len(evs) : evs[k].generation = task[t].generation,
         \A u \in Turns : u # t => task'[u] = task[u],
         turn = t =>
           /\ \A k \in 1 .. Len(evs) : evs[k].kind \in Twofold =>
                \/ evs[k].kind \in Left
                \/ /\ evs[k].kind = "Delta" /\ k + 1 \in 1 .. Len(evs)
                   /\ evs[k + 1].kind = "Interrupt"
           /\ \A k, l \in 1 .. Len(evs) : k < l => evs[l].kind \notin Twofold
           /\ \/ /\ Left' \subseteq Left
                 /\ \A k \in 1 .. Len(evs) : \A b \in Left' : ~Clash(evs[k].kind, b)
              \/ /\ 1 \in 1 .. Len(evs)
                 /\ \A k \in 1 .. Len(evs) : evs[k].kind = "StreamInterrupted",
         \A k \in 1 .. Len(evs) : evs[k].kind = "Delta" => "Ask" \notin task[t].out,
         \A k \in 1 .. Len(evs) : evs[k].kind = "Interrupt" => "Ask" \in task'[t].out
  PROVE  TwiceInv'
  <1>1. CASE turn = t
    <2>1. turn # None /\ task[turn].generation = generation
      BY <1>1, OneTurnTypes DEF ToldInv, TurnIsCurrent
    <2>2. TwiceParts'
      BY <1>1, <2>1, SentTwice
    <2>. QED BY <2>2, OutKeeps DEF TwiceInv, TwiceParts
  <1>2. CASE turn # t
    <2>1. Coming' = Coming /\ \A i \in Coming : events'[i] = events[i]
      BY <1>2, OthersSend DEF SInv
    <2>2. turn # None => task'[turn] = task[turn]
      BY <1>2, OneTurnTypes
    <2>. QED BY <2>1, <2>2, AsideTwice
  <1>. QED BY <1>1, <1>2

LEMMA StreamTwice ==
  ASSUME IInv, TInv, SInv, FreshInv, ToldInv, TwiceInv, [Next]_vars, Uncancelled, Uncancelled',
         NEW t \in Turns, Stream(t)
  PROVE  TwiceInv'
  <1>1. Running(t)
    BY DEF Stream
  <1>2. ASSUME NEW evs, NEW what, Send(t, evs, what)
        PROVE  /\ UNCHANGED <<turn, turn_started, generation, messages, streaming>>
               /\ events' = events \o evs
               /\ task'[t].out = task[t].out \cup what
               /\ \A u \in Turns : u # t => task'[u] = task[u]
    BY <1>2, AskTypes DEF Send, chat, transcript, Tasks
  <1>3. ASSUME NEW kind \in Kinds \ {"Interrupt", "StreamInterrupted"}, NEW what,
               Send(t, <<Plain(t, kind)>>, what),
               kind \in Twofold /\ turn = t => kind \in Left,
               turn = t => \A b \in Left' : ~Clash(kind, b),
               kind = "Delta" => "Ask" \notin task[t].out
        PROVE  TwiceInv'
    <2>. DEFINE evs == <<Plain(t, kind)>>
    <2>1. Send(t, evs, what)
      BY <1>3
    <2>2. evs = <<Plain(t, kind)>>
      OBVIOUS
    <2>. HIDE DEF evs
    <2>3. /\ evs \in Seq(Events) /\ Len(evs) = 1
          /\ \A k \in 1 .. Len(evs) : evs[k].generation = task[t].generation /\ evs[k].kind = kind
      BY <2>2, PlainSent
    <2>4. turn = t => Left' \subseteq Left
      BY <1>2, <2>1 DEF Left
    <2>5. \A k, l \in 1 .. Len(evs) : ~(k < l)
      BY <2>3
    <2>6. \A k \in 1 .. Len(evs) : /\ turn = t /\ evs[k].kind \in Twofold => evs[k].kind \in Left
                                   /\ turn = t => \A b \in Left' : ~Clash(evs[k].kind, b)
                                   /\ evs[k].kind = "Delta" => "Ask" \notin task[t].out
                                   /\ evs[k].kind # "Interrupt"
      BY <1>3, <2>3
    <2>. QED BY <1>1, <1>2, <2>1, <2>3, <2>4, <2>5, <2>6, BatchTwice
  <1>4. ASSUME Send(t, <<Plain(t, "Delta"),
                        Event(t, "Interrupt", server[task[t].msg].ask, FALSE)>>, {"Ask"}),
               "Ask" \notin task[t].out, task[t].msg # None
        PROVE  TwiceInv'
    <2>. DEFINE d == Plain(t, "Delta")
                q == Event(t, "Interrupt", server[task[t].msg].ask, FALSE)
                evs == <<d, q>>
    <2>1. server[task[t].msg].ask \in Asks \cup {None}
      <3>1. task[t].msg \in Msgs
        BY <1>4, AskTypes DEF Tasks
      <3>. QED BY <3>1, AskTypes DEF Messages
    <2>2. /\ d \in Events /\ d.generation = task[t].generation /\ d.kind = "Delta"
          /\ q \in Events /\ q.generation = task[t].generation /\ q.kind = "Interrupt"
      <3>. DEFINE k1 == "Delta"
                  k2 == "Interrupt"
                  a == server[task[t].msg].ask
                  no == FALSE
      <3>1. /\ k1 \in Kinds /\ k1 = "Delta" /\ k2 \in Kinds /\ k2 = "Interrupt"
            /\ no \in BOOLEAN /\ None \in Asks \cup {None} /\ a \in Asks \cup {None}
        BY <2>1 DEF Kinds
      <3>2. d = Event(t, k1, None, no) /\ q = Event(t, k2, a, no)
        BY DEF Plain
      <3>. HIDE DEF k1, k2, a, no, d, q
      <3>. QED BY <3>1, <3>2, SentEvent
    <2>3. Send(t, evs, {"Ask"})
      BY <1>4
    <2>. HIDE DEF d, q
    <2>4. evs \in Seq(Events) /\ Len(evs) = 2 /\ evs[1] = d /\ evs[2] = q
      BY <2>2
    <2>. HIDE DEF evs
    <2>5. /\ 2 \in 1 .. Len(evs) /\ evs[1].kind = "Delta" /\ evs[2].kind = "Interrupt"
          /\ \A k \in 1 .. Len(evs) : k = 1 \/ k = 2
      BY <2>2, <2>4
    <2>6. \A k \in 1 .. Len(evs) : evs[k].generation = task[t].generation
      BY <2>2, <2>4, <2>5
    <2>7. "Ask" \in task'[t].out
      BY <1>2, <2>3
    <2>8. turn = t => Left' \subseteq Left /\ "Delta" \notin Left'
      BY <1>2, <2>3, <2>7 DEF Left, Outcome
    <2>9. \A k, l \in 1 .. Len(evs) : k < l => evs[l].kind \notin Twofold
      <3>1. \A k, l \in 1 .. Len(evs) : k < l => l = 2
        BY <2>5
      <3>. QED BY <2>5, <3>1 DEF Twofold
    <2>10. \A k \in 1 .. Len(evs) : evs[k].kind \in Twofold =>
             /\ evs[k].kind = "Delta" /\ k + 1 \in 1 .. Len(evs) /\ evs[k + 1].kind = "Interrupt"
      <3>1. \A k \in 1 .. Len(evs) : evs[k].kind \in Twofold => k = 1
        BY <2>5 DEF Twofold
      <3>2. 1 + 1 = 2
        OBVIOUS
      <3>. QED BY <2>5, <3>1, <3>2
    <2>11. turn = t => \A k \in 1 .. Len(evs) : \A b \in Left' : ~Clash(evs[k].kind, b)
      BY <2>5, <2>8 DEF Clash, Twofold
    <2>12. UNCHANGED <<turn, turn_started, generation, messages, streaming>>
           /\ events' = events \o evs /\ \A u \in Turns : u # t => task'[u] = task[u]
      BY <1>2, <2>3
    <2>13. turn = t =>
             \A k \in 1 .. Len(evs) : evs[k].kind \in Twofold =>
               \/ evs[k].kind \in Left
               \/ /\ evs[k].kind = "Delta" /\ k + 1 \in 1 .. Len(evs)
                  /\ evs[k + 1].kind = "Interrupt"
      BY <2>10
    <2>14. turn = t =>
             \/ /\ Left' \subseteq Left
                /\ \A k \in 1 .. Len(evs) : \A b \in Left' : ~Clash(evs[k].kind, b)
             \/ /\ 1 \in 1 .. Len(evs)
                /\ \A k \in 1 .. Len(evs) : evs[k].kind = "StreamInterrupted"
      BY <2>8, <2>11
    <2>15. evs \in Seq(Events)
      BY <2>4
    <2>16. /\ \A k \in 1 .. Len(evs) : evs[k].kind = "Delta" => "Ask" \notin task[t].out
           /\ \A k \in 1 .. Len(evs) : evs[k].kind = "Interrupt" => "Ask" \in task'[t].out
      BY <1>4, <2>7
    <2>. QED BY <1>1, <2>6, <2>9, <2>12, <2>13, <2>14, <2>15, <2>16, BatchTwice
  <1>5. ASSUME NEW evs, NEW what, Send(t, evs, what), turn = t
        PROVE  turn' = turn /\ task'[turn].out = task[turn].out \cup what
    BY <1>2, <1>5
  <1>6. CASE Send(t, <<Plain(t, "TurnStarted")>>, {"Started"})
    BY <1>3, <1>6 DEF Kinds, Twofold, Clash
  <1>7. CASE /\ Send(t, <<Plain(t, "ToolStarted")>>, {"Tool"})
             /\ "Tool" \notin task[t].out /\ task[t].out \cap {"ToolDone", "Delta"} = {}
    <2>1. turn = t => "ToolStarted" \in Left /\ "ToolStarted" \notin Left'
      BY <1>5, <1>7 DEF Left
    <2>. QED BY <1>3, <1>7, <2>1 DEF Kinds, Clash
  <1>8. CASE Send(t, <<Plain(t, "ToolFinished")>>, {"ToolDone"}) /\ "ToolDone" \notin task[t].out
    <2>1. turn = t => /\ "ToolFinished" \in Left /\ "ToolFinished" \notin Left'
                      /\ "ToolStarted" \notin Left'
      BY <1>5, <1>8 DEF Left
    <2>. QED BY <1>3, <1>8, <2>1 DEF Kinds, Clash
  <1>9. CASE /\ Send(t, <<Plain(t, "Delta")>>, {"Delta"})
             /\ "Delta" \notin task[t].out /\ task[t].out \cap Outcome = {}
    <2>1. turn = t => "Delta" \in Left /\ "Delta" \notin Left'
      BY <1>5, <1>9 DEF Left, Outcome
    <2>2. "Ask" \notin task[t].out
      BY <1>9 DEF Outcome
    <2>. QED BY <1>3, <1>9, <2>1, <2>2 DEF Kinds, Clash
  <1>10. CASE Send(t, <<Plain(t, "Meta")>>, {"Meta"})
    BY <1>3, <1>10 DEF Kinds, Twofold, Clash
  <1>11. CASE Send(t, <<Plain(t, "TurnError")>>, {"Error"})
    BY <1>3, <1>11 DEF Kinds, Twofold, Clash
  <1>12. CASE /\ Send(t, <<Plain(t, "Delta"),
                        Event(t, "Interrupt", server[task[t].msg].ask, FALSE)>>, {"Ask"})
              /\ task[t].out \cap Outcome = {} /\ task[t].msg # None
    <2>1. "Ask" \notin task[t].out
      BY <1>12 DEF Outcome
    <2>. QED BY <1>4, <1>12, <2>1
  <1>13. CASE /\ Send(t, <<Plain(t, "ToolFinished"), Plain(t, "TurnError")>>, {"ToolDone"})
              /\ "ToolDone" \notin task[t].out
    <2>. DEFINE k1 == "ToolFinished"
                k2 == "TurnError"
                evs == <<Plain(t, k1), Plain(t, k2)>>
    <2>1. k1 \in Kinds /\ k2 \in Kinds /\ k1 = "ToolFinished" /\ k2 = "TurnError"
      BY DEF Kinds
    <2>2. Send(t, evs, {"ToolDone"}) /\ evs = <<Plain(t, k1), Plain(t, k2)>>
      BY <1>13
    <2>. HIDE DEF k1, k2, evs
    <2>3. /\ evs \in Seq(Events) /\ 1 .. Len(evs) = {1, 2}
          /\ evs[1].kind = "ToolFinished" /\ evs[2].kind = "TurnError"
          /\ \A k \in 1 .. Len(evs) : evs[k].generation = task[t].generation
      BY <2>1, <2>2, PlainPair
    <2>4. turn = t => /\ "ToolFinished" \in Left /\ "ToolFinished" \notin Left'
                      /\ "ToolStarted" \notin Left' /\ Left' \subseteq Left
      BY <1>5, <1>13 DEF Left
    <2>5. turn = t => \A b \in Left' : ~Clash("ToolFinished", b) /\ ~Clash("TurnError", b)
      BY <2>4 DEF Clash, Twofold
    <2>6. "TurnError" \notin Twofold
      BY DEF Twofold
    <2>7. \A k \in 1 .. Len(evs) : evs[k].kind \in {"ToolFinished", "TurnError"}
      BY <2>3
    <2>8. turn = t => \A k \in 1 .. Len(evs) : evs[k].kind \in Twofold => evs[k].kind \in Left
      BY <2>4, <2>6, <2>7
    <2>9. turn = t => \A k \in 1 .. Len(evs) : \A b \in Left' : ~Clash(evs[k].kind, b)
      BY <2>5, <2>7
    <2>10. \A k, l \in 1 .. Len(evs) : k < l => evs[l].kind \notin Twofold
      <3>1. \A k, l \in 1 .. Len(evs) : k < l => l = 2
        BY <2>3
      <3>. QED BY <2>3, <2>6, <3>1
    <2>11. \A k \in 1 .. Len(evs) : evs[k].kind # "Delta" /\ evs[k].kind # "Interrupt"
      BY <2>7
    <2>12. UNCHANGED <<turn, turn_started, generation, messages, streaming>>
           /\ events' = events \o evs /\ \A u \in Turns : u # t => task'[u] = task[u]
      BY <1>2, <2>2
    <2>. QED BY <1>1, <2>3, <2>4, <2>8, <2>9, <2>10, <2>11, <2>12, BatchTwice
  <1>. QED BY <1>6, <1>7, <1>8, <1>9, <1>10, <1>11, <1>12, <1>13 DEF Stream

\* The other batches: nothing of them can come twice, and a lost connection makes what
\* was shown void.
LEMMA SaysTwice ==
  ASSUME IInv, TInv, SInv, FreshInv, ToldInv, TwiceInv, [Next]_vars, Uncancelled, Uncancelled',
         NEW t \in Turns, Accept(t) \/ Disconnect(t) \/ End(t)
  PROVE  TwiceInv'
  <1>1. Running(t) /\ UNCHANGED <<turn, turn_started, generation, messages, streaming>>
    BY DEF Accept, Disconnect, End, chat, transcript
  <1>2. ASSUME NEW kind \in {"TurnStarted", "StreamInterrupted", "TurnFinished"},
               NEW error \in BOOLEAN, events' = events \o <<Event(t, kind, None, error)>>,
               kind # "StreamInterrupted" /\ turn = t => Left' = Left,
               \A u \in Turns : u # t => task'[u] = task[u]
        PROVE  TwiceInv'
    <2>. DEFINE evs == <<Event(t, kind, None, error)>>
    <2>1. kind \in Kinds /\ kind \notin Twofold /\ kind # "Delta" /\ kind # "Interrupt"
      BY DEF Kinds, Twofold
    <2>2. evs = <<Event(t, kind, None, error)>> /\ events' = events \o evs
      BY <1>2
    <2>. HIDE DEF evs
    <2>3. /\ evs \in Seq(Events) /\ Len(evs) = 1 /\ 1 \in 1 .. Len(evs)
          /\ \A k \in 1 .. Len(evs) : evs[k].generation = task[t].generation /\ evs[k].kind = kind
      BY <2>1, <2>2, OneSent
    <2>4. \A k, l \in 1 .. Len(evs) : ~(k < l)
      BY <2>3
    <2>5. \A k \in 1 .. Len(evs) : /\ evs[k].kind \notin Twofold /\ evs[k].kind # "Delta"
                                   /\ evs[k].kind # "Interrupt"
                                   /\ \A b : ~Clash(evs[k].kind, b)
      BY <2>1, <2>3 DEF Clash
    <2>6. turn = t => \/ Left' \subseteq Left
                      \/ \A k \in 1 .. Len(evs) : evs[k].kind = "StreamInterrupted"
      BY <1>2, <2>3
    <2>. QED BY <1>1, <1>2, <2>2, <2>3, <2>4, <2>5, <2>6, BatchTwice
  <1>3. ASSUME NEW kind \in Kinds PROVE Append(events, Plain(t, kind)) = events \o <<Event(t, kind, None, FALSE)>>
    <2>. DEFINE evs == <<Plain(t, kind)>>
    <2>1. evs = <<Plain(t, kind)>>
      OBVIOUS
    <2>. HIDE DEF evs
    <2>2. Append(events, Plain(t, kind)) = events \o evs
      BY <2>1, PlainSent
    <2>. QED BY <2>1, <2>2 DEF Plain
  <1>4. CASE Accept(t)
    <2>1. events' = Append(events, Plain(t, "TurnStarted"))
      BY <1>4 DEF Accept
    <2>2. events' = events \o <<Event(t, "TurnStarted", None, FALSE)>>
      BY <1>3, <2>1 DEF Kinds
    <2>3. /\ task'[t].out = {"Started"} /\ task[t].msg = None
          /\ \A u \in Turns : u # t => task'[u] = task[u]
      BY <1>4, AcceptsOne
    <2>4. task[t].out = {}
      BY <2>3 DEF TwiceInv, OutInv
    <2>5. turn = t => Left' = Left
      BY <1>1, <2>3, <2>4 DEF Left, Outcome
    <2>. QED BY <1>2, <2>2, <2>3, <2>5
  <1>5. CASE Disconnect(t)
    <2>1. events' = Append(events, Plain(t, "StreamInterrupted"))
      BY <1>5 DEF Disconnect
    <2>2. events' = events \o <<Event(t, "StreamInterrupted", None, FALSE)>>
      BY <1>3, <2>1 DEF Kinds
    <2>3. \A u \in Turns : u # t => task'[u] = task[u]
      BY <1>5, TaskGoesOn
    <2>. QED BY <1>2, <2>2, <2>3
  <1>6. CASE End(t)
    <2>1. PICK error \in BOOLEAN : events' = events \o <<Event(t, "TurnFinished", None, error)>>
      BY <1>6 DEF End, LastEvent
    <2>2. task' = [task EXCEPT ![t].st = "ended"]
      BY <1>6 DEF End
    <2>3. task'[t].out = task[t].out /\ \A u \in Turns : u # t => task'[u] = task[u]
      BY <2>2, AskTypes DEF Tasks
    <2>4. turn = t => Left' = Left
      BY <1>1, <2>3 DEF Left
    <2>. QED BY <1>2, <2>1, <2>3, <2>4
  <1>. QED BY <1>4, <1>5, <1>6

\* The first event through the gate while a turn runs, and what it takes off the rest.
LEMMA HeadTwice ==
  ASSUME IInv, TInv, OneTurn, ScreenInv, NoneTwice, AskOnce, events # <<>>,
         Current(Head(events)), NEW a \in Shown, Clash(a, Head(events).kind)
  PROVE  /\ Head(events).kind = "Delta"
         /\ "Ask" \in task[turn].out
         /\ \A j \in Coming : j # 1 => events[j].kind # "Delta"
  <1>1. /\ turn # None /\ 1 \in Coming /\ Head(events) = events[1]
        /\ \A j \in Coming : j \in Nat /\ j # 0
    BY HeadIsTurns, OneTurnTypes DEF Coming
  <1>2. 0 \in Places /\ a \in At(0) /\ Head(events).kind \in At(1)
    BY <1>1 DEF Places, At
  <1>3. Cut(0, 1) \/ Asked(1)
    <2>1. 0 < 1
      OBVIOUS
    <2>. QED BY <1>1, <1>2, <2>1 DEF NoneTwice
  <1>4. ~Cut(0, 1)
    <2>1. \A j \in Coming : ~(0 < j /\ j < 1)
      BY <1>1
    <2>. QED BY <2>1 DEF Cut
  <1>5. Asked(1)
    BY <1>3, <1>4
  <1>6. events[1].kind = "Delta" /\ 2 \in Coming /\ events[2].kind = "Interrupt"
    <2>1. 1 + 1 = 2
      OBVIOUS
    <2>. QED BY <1>5, <2>1 DEF Asked
  <1>7. ASSUME NEW j \in Coming, j # 1 PROVE events[j].kind # "Delta"
    <2>1. j = 2 \/ 2 < j
      BY <1>1, <1>7
    <2>. QED BY <1>1, <1>6, <2>1 DEF AskOnce
  <1>. QED BY <1>1, <1>6, <1>7 DEF AskOnce

\* What the gate lets through of the turn under way; which lines it leaves is told of
\* each kind below.
LEMMA HeardTwice ==
  ASSUME IInv, TInv, FreshInv, TwiceInv, [Next]_vars, Uncancelled, turn # None,
         UNCHANGED <<turn, turn_started, generation, task>>, events # <<>>, events' = Tail(events),
         \A i \in 1 .. Old : messages'[i] = messages[i],
         ScreenInv',
         Shown' \subseteq Shown \cup {Head(events).kind},
         Shown' \subseteq Shown \/ Current(Head(events)),
         Current(Head(events)) /\ Head(events).kind = "StreamInterrupted" => Shown' = {}
  PROVE  TwiceInv'
  <1>1. OldInv /\ NoneTwice /\ AskOnce
    BY DEF TwiceInv
  <1>2. NoneTwice' /\ AskOnce'
    BY <1>1, TakesOnce
  <1>3. Old' = Old
    BY DEF Old
  <1>4. OldInv'
    BY <1>1, <1>3, OldFacts, OldKeeps
  <1>. QED BY <1>2, <1>4, OutKeeps DEF TwiceInv

\* The screen stays as it is.
LEMMA PassesTwice ==
  ASSUME IInv, TInv, FreshInv, TwiceInv, [Next]_vars, Uncancelled, Uncancelled',
         UNCHANGED <<turn, turn_started, generation, task, messages, streaming>>,
         events # <<>>, events' = Tail(events),
         ~(Current(Head(events)) /\ Head(events).kind = "StreamInterrupted")
  PROVE  TwiceInv'
  <1>1. Shown' = Shown /\ Streamed' = Streamed /\ Old' = Old
    BY DEF Shown, Old, Streamed
  <1>2. \A i \in Coming' : i + 1 \in Coming /\ events'[i] = events[i + 1]
    BY TailComing
  <1>3. OldInv /\ ScreenInv
    BY DEF TwiceInv
  <1>4. ScreenInv'
    BY <1>1, <1>2, <1>3 DEF ScreenInv
  <1>5. CASE turn # None
    BY <1>1, <1>4, <1>5, HeardTwice
  <1>6. CASE turn = None
    <2>1. OldInv'
      BY <1>1, <1>3, OutKeeps, OldFacts, OldKeeps DEF TwiceInv
    <2>. QED BY <1>4, <1>6, <2>1, OutKeeps DEF TwiceInv, NoneTwice, AskOnce
  <1>. QED BY <1>5, <1>6

LEMMA DeltaTwice ==
  ASSUME IInv, TInv, SInv, FreshInv, TwiceInv, [Next]_vars, Uncancelled, ReceiveDelta
  PROVE  TwiceInv'
  <1>1. /\ events # <<>> /\ events' = Tail(events) /\ Current(Head(events))
        /\ Head(events).kind = "Delta"
        /\ UNCHANGED <<turn, turn_started, generation, task, messages>>
        /\ streaming' = Append(Streamed, Head(events).turn)
    BY DEF ReceiveDelta, Receive, MidTurn
  <1>2. turn # None /\ turn \in Turns /\ Head(events).turn = turn /\ OneTurn
        /\ 1 \in Coming
    BY <1>1, HeadIsTurns DEF SInv
  <1>3. Streamed \in Seq(Turns) /\ Len(Streamed) \in Nat
    BY OldFacts
  <1>4. \/ Streamed' = <<>>
        \/ /\ Len(Streamed') = Len(Streamed) + 1
           /\ \A k \in 1 .. Len(Streamed) : Streamed'[k] = Streamed[k]
           /\ Streamed'[Len(Streamed) + 1] = turn
    <2>1. Streamed' = <<>> \/ Streamed' = Append(Streamed, turn)
      BY <1>1, <1>2 DEF Streamed
    <2>2. CASE Streamed' = Append(Streamed, turn)
      BY <1>2, <1>3, <2>2, AppendProperties
    <2>. QED BY <2>1, <2>2
  <1>5. Old' = Old /\ ScreenInv /\ NoneTwice /\ AskOnce
    BY <1>1 DEF Old, TwiceInv
  <1>6. Shown' \subseteq Shown \cup {"Delta"}
    BY <1>1, <1>5 DEF Shown
  <1>7. \A k \in 1 .. Len(Streamed') : Streamed'[k] = turn
    <2>. SUFFICES ASSUME NEW k \in 1 .. Len(Streamed') PROVE Streamed'[k] = turn
      OBVIOUS
    <2>0. Streamed' # <<>>
      BY EmptySeq
    <2>1. k \in 1 .. Len(Streamed) \/ k = Len(Streamed) + 1
      BY <1>3, <1>4, <2>0
    <2>. QED BY <1>2, <1>4, <1>5, <2>0, <2>1 DEF ScreenInv
  <1>8. \/ Len(Streamed') <= 1
        \/ /\ Len(Streamed') = 2 /\ "Ask" \in task[turn].out
           /\ \A i \in Coming' : events'[i].kind # "Delta"
    <2>0. CASE Streamed' = <<>>
      <3>1. Len(Streamed') = 0
        BY <2>0
      <3>. QED BY <3>1
    <2>1. CASE Streamed' # <<>> /\ Streamed = <<>>
      <3>1. Len(Streamed) = 0
        BY <2>1
      <3>2. Len(Streamed') = 1
        BY <1>4, <2>1, <3>1
      <3>. QED BY <3>2
    <2>2. CASE Streamed' # <<>> /\ Streamed # <<>>
      <3>1. "Delta" \in Shown /\ Clash("Delta", Head(events).kind)
        BY <1>1, <2>2 DEF Shown, Clash, Twofold
      <3>2. "Ask" \in task[turn].out /\ \A j \in Coming : j # 1 => events[j].kind # "Delta"
        BY <1>1, <1>2, <1>5, <3>1, HeadTwice
      <3>3. ASSUME NEW i \in Coming' PROVE events'[i].kind # "Delta"
        <4>1. i \in Nat /\ i + 1 \in Coming /\ events'[i] = events[i + 1]
          BY <1>1, TailComing
        <4>2. i # 0
          BY DEF Coming
        <4>3. i + 1 # 1
          BY <4>1, <4>2
        <4>. QED BY <3>2, <4>1, <4>3
      <3>4. Len(Streamed) = 1
        <4>1. Len(Streamed) <= 1
          <5>1. events[1].kind = "Delta"
            BY <1>1, <1>2, HeadIsTurns
          <5>. QED BY <1>2, <1>5, <5>1 DEF ScreenInv
        <4>2. Len(Streamed) # 0
          BY <1>3, <2>2, EmptySeq
        <4>. DEFINE n == Len(Streamed)
        <4>3. n \in Nat /\ n <= 1 /\ n # 0
          BY <1>3, <4>1, <4>2
        <4>. HIDE DEF n
        <4>4. n = 1
          BY <4>3
        <4>. QED BY <4>4 DEF n
      <3>5. Len(Streamed') = 2
        BY <1>4, <2>2, <3>4
      <3>. QED BY <3>2, <3>3, <3>5
    <2>. QED BY <2>0, <2>1, <2>2
  <1>9. ScreenInv'
    BY <1>1, <1>2, <1>5, <1>7, <1>8 DEF ScreenInv
  <1>10. \A i \in 1 .. Old : messages'[i] = messages[i]
    BY <1>1
  <1>. QED BY <1>1, <1>2, <1>6, <1>9, <1>10, HeardTwice

LEMMA ToolTwice ==
  ASSUME IInv, TInv, SInv, FreshInv, TwiceInv, [Next]_vars, Uncancelled,
         ReceiveToolStarted \/ ReceiveToolFinished
  PROVE  TwiceInv'
  <1>1. /\ events # <<>> /\ events' = Tail(events) /\ Current(Head(events))
        /\ UNCHANGED <<turn, turn_started, generation, task, streaming>>
        /\ Head(events).kind \in {"ToolStarted", "ToolFinished"}
    BY DEF ReceiveToolStarted, ReceiveToolFinished, Receive, MidTurn
  <1>2. turn # None /\ turn \in Turns /\ Head(events).turn = turn /\ OneTurn
    BY <1>1, HeadIsTurns DEF SInv
  <1>3. /\ messages \in Seq(Lines) /\ Len(messages) \in Nat /\ Old \in Nat
        /\ Len(messages) \in {Old, Old + 1}
        /\ OldInv /\ ScreenInv /\ NoneTwice /\ AskOnce /\ Old' = Old /\ Streamed' = Streamed
    BY <1>1, <1>2, OldFacts DEF Old, TwiceInv, ScreenInv, Streamed
  <1>4. \A a \in Shown : ~Clash(a, Head(events).kind)
    BY <1>1, <1>2, <1>3, HeadTwice
  <1>5. \A i \in Coming' : i + 1 \in Coming /\ events'[i] = events[i + 1]
    BY <1>1, TailComing
  <1>. DEFINE now == Old + 1
              runs == Head(events).kind = "ToolStarted"
  <1>6. /\ Len(messages') = now /\ messages'[now].role = "Tool" /\ messages'[now].by = <<turn>>
        /\ messages'[now].running = runs
        /\ \A i \in 1 .. Old : messages'[i] = messages[i]
    <2>1. ASSUME NEW running \in BOOLEAN, Len(messages) = Old, running = runs,
                 messages' = Append(messages, Line("Tool", <<turn>>, running))
          PROVE  /\ Len(messages') = now /\ messages'[now].role = "Tool"
                 /\ messages'[now].by = <<turn>> /\ messages'[now].running = runs
                 /\ \A i \in 1 .. Old : messages'[i] = messages[i]
      <3>. DEFINE l == Line("Tool", <<turn>>, running)
      <3>1. l.role = "Tool" /\ l.by = <<turn>> /\ l.running = running
        BY DEF Line
      <3>2. l \in Lines
        <4>1. <<turn>> \in Seq(Turns)
          BY <1>2
        <4>. QED BY <4>1 DEF Lines, Line, Roles
      <3>. HIDE DEF l
      <3>3. /\ Len(messages') = Len(messages) + 1 /\ messages'[Len(messages) + 1] = l
            /\ \A i \in 1 .. Len(messages) : messages'[i] = messages[i]
        <4>1. messages' = Append(messages, l)
          BY <2>1 DEF l
        <4>. QED BY <1>3, <3>2, <4>1, AppendProperties
      <3>. HIDE DEF runs
      <3>. QED BY <2>1, <3>1, <3>3
    <2>2. CASE ReceiveToolStarted
      <3>1. /\ runs /\ Head(events).kind = "ToolStarted"
            /\ messages' = Append(messages, Line("Tool", <<turn>>, TRUE))
        BY <1>2, <2>2 DEF ReceiveToolStarted, Receive
      <3>2. Len(messages) = Old
        <4>. SUFFICES ASSUME Len(messages) = Old + 1 PROVE FALSE
          BY <1>3
        <4>1. "ToolStarted" \in Shown \/ "ToolFinished" \in Shown
          BY DEF Shown
        <4>. QED BY <1>4, <3>1, <4>1 DEF Clash, Twofold
      <3>. QED BY <2>1, <3>1, <3>2
    <2>3. CASE ReceiveToolFinished
      <3>. DEFINE open == {i \in DOMAIN messages : messages[i].role = "Tool" /\ messages[i].running}
                  last == CHOOSE i \in open : \A j \in open : j <= i
      <3>1. /\ ~runs /\ Head(events).kind = "ToolFinished"
            /\ messages' = ToolResolved(messages, turn)
        BY <1>2, <2>3 DEF ReceiveToolFinished, Receive
      <3>2. DOMAIN messages = 1 .. Len(messages)
        BY <1>3, LenProperties
      <3>3. \A i \in 1 .. Old : ~messages[i].running
        BY <1>3 DEF OldInv, LinesOnce
      <3>4. CASE Len(messages) = Old
        <4>1. open = {}
          BY <3>2, <3>3, <3>4
        <4>2. messages' = Append(messages, Line("Tool", <<turn>>, FALSE))
          BY <3>1, <4>1 DEF ToolResolved
        <4>. QED BY <2>1, <3>1, <3>4, <4>2
      <3>5. CASE Len(messages) = Old + 1
        <4>1. messages[now].role = "Tool" /\ messages[now].by = <<turn>>
          BY <1>2, <1>3, <3>5 DEF ScreenInv
        <4>2. messages[now].running
          <5>. SUFFICES ASSUME ~messages[now].running PROVE FALSE
            OBVIOUS
          <5>1. "ToolFinished" \in Shown
            BY <3>5 DEF Shown
          <5>. QED BY <1>4, <3>1, <5>1 DEF Clash, Twofold
        <4>3. now \in 1 .. Len(messages) /\ \A i \in 1 .. Len(messages) : i # now => i \in 1 .. Old
          BY <1>3, <3>5
        <4>4. open = {now}
          BY <3>2, <3>3, <4>1, <4>2, <4>3
        <4>. HIDE DEF open
        <4>5. last = now
          <5>1. now <= now
            BY <1>3
          <5>. HIDE DEF now
          <5>. QED BY <4>4, <5>1
        <4>6. messages' = [messages EXCEPT ![now].running = FALSE]
          <5>1. messages' = [messages EXCEPT ![last].running = FALSE]
            <6>1. open # {}
              BY <4>4
            <6>. QED BY <3>1, <6>1 DEF ToolResolved, open
          <5>. QED BY <4>5, <5>1
        <4>. HIDE DEF now, last
        <4>7. messages[now] \in Lines /\ messages \in [1 .. Len(messages) -> Lines]
          BY <1>3, <4>3, ElementOfSeq, LenProperties
        <4>8. /\ messages'[now] = [messages[now] EXCEPT !.running = FALSE]
              /\ DOMAIN messages' = 1 .. Len(messages)
              /\ \A i \in 1 .. Len(messages) : i # now => messages'[i] = messages[i]
          BY <4>3, <4>6, <4>7
        <4>9. messages'[now].role = "Tool" /\ messages'[now].by = <<turn>>
              /\ messages'[now].running = FALSE
          BY <4>1, <4>7, <4>8 DEF Lines
        <4>10. Len(messages') = Len(messages)
          BY <1>3, <4>6, <4>7, <4>8
        <4>11. now = Old + 1 /\ now \notin 1 .. Old
          BY <1>3 DEF now
        <4>12. \A i \in 1 .. Old : i \in 1 .. Len(messages)
          BY <1>3, <3>5
        <4>. QED BY <3>1, <3>5, <4>8, <4>9, <4>10, <4>11, <4>12
      <3>. QED BY <1>3, <3>4, <3>5
    <2>. QED BY <2>2, <2>3 DEF ReceiveToolStarted, ReceiveToolFinished
  <1>7. ScreenInv'
    BY <1>1, <1>2, <1>3, <1>5, <1>6 DEF ScreenInv
  <1>8. Shown' \subseteq Shown \cup {Head(events).kind}
    BY <1>1, <1>3, <1>6 DEF Shown
  <1>. QED BY <1>1, <1>2, <1>6, <1>7, <1>8, HeardTwice

LEMMA RewoundTwice ==
  ASSUME IInv, TInv, SInv, FreshInv, TwiceInv, [Next]_vars, Uncancelled,
         ReceiveStreamInterrupted
  PROVE  TwiceInv'
  <1>1. /\ events # <<>> /\ events' = Tail(events) /\ Current(Head(events))
        /\ UNCHANGED <<turn, turn_started, generation, task>>
        /\ messages' = Rewound /\ streaming' = <<>>
    BY DEF ReceiveStreamInterrupted, Receive, MidTurn
  <1>2. turn # None
    BY <1>1, HeadIsTurns DEF SInv
  <1>3. /\ messages \in Seq(Lines) /\ Old \in Nat /\ Old <= Len(messages)
        /\ Len(messages) \in Nat /\ Old' = Old
        /\ turn_started # None /\ Old = turn_started.from + 1
    BY <1>1, <1>2, OldFacts DEF Old
  <1>4. messages' = SubSeq(messages, 1, Old)
    BY <1>1, <1>3 DEF Rewound
  <1>5. Len(messages') = Old /\ \A i \in 1 .. Old : messages'[i] = messages[i]
    BY <1>3, <1>4
  <1>6. Streamed' = <<>>
    BY <1>1 DEF Streamed
  <1>7. Shown' = {}
    <2>1. Old # Old + 1
      BY <1>3
    <2>. QED BY <1>3, <1>5, <1>6, <2>1 DEF Shown
  <1>8. ScreenInv'
    <2>1. Old # Old + 1
      BY <1>3
    <2>. QED BY <1>1, <1>2, <1>3, <1>5, <1>6, <2>1 DEF ScreenInv
  <1>. QED BY <1>1, <1>2, <1>5, <1>7, <1>8, HeardTwice

\* What a turn leaves on screen: the old lines, its tool line, its answer and a note.
LEMMA FinishedLinesAre ==
  ASSUME IInv, TInv, TwiceInv, Uncancelled, turn # None, NEW failed \in BOOLEAN,
         NEW lines, lines = FinishedLines(failed)
  PROVE  /\ lines \in Seq(LinesOf(ThreadTurns))
         /\ LinesOnce(lines, Len(lines))
  <1>1. /\ messages \in Seq(Lines) /\ Len(messages) \in Nat /\ Old \in Nat
        /\ Streamed \in Seq(Turns) /\ Len(Streamed) \in Nat
        /\ Old <= Len(messages) /\ Len(messages) \in {Old, Old + 1}
        /\ OldInv /\ ScreenInv /\ turn \in Turns
        /\ \A i \in 1 .. Len(messages) : messages[i] \in Lines
    BY OldFacts, OneTurnTypes DEF TwiceInv, ScreenInv
  <1>2. lines \in Seq(LinesOf(ThreadTurns))
    BY FinishedLinesOf DEF IInv, Transcript
  <1>. DEFINE answer == IF Streamed = <<>> THEN <<>>
                        ELSE <<Line("Assistant", streaming, FALSE)>>
              note == CASE failed -> <<Line("Alert", <<>>, FALSE)>>
                        [] ~failed /\ answer = <<>> -> <<Line("System", <<>>, FALSE)>>
                        [] OTHER -> <<>>
              old == Settled(messages)
              N == Len(messages)
  <1>3. lines = (old \o answer) \o note
    BY DEF FinishedLines
  <1>4. /\ old \in Seq(Lines) /\ Len(old) = N
        /\ \A i \in 1 .. N : /\ old[i].role = messages[i].role /\ old[i].by = messages[i].by
                             /\ ~old[i].running
    <2>1. old = [i \in 1 .. N |-> [messages[i] EXCEPT !.running = FALSE]]
      BY <1>1, LenProperties DEF Settled
    <2>2. \A i \in 1 .. N : [messages[i] EXCEPT !.running = FALSE] \in Lines
      BY <1>1 DEF Lines
    <2>3. old \in Seq(Lines) /\ Len(old) = N
      BY <1>1, <2>1, <2>2
    <2>4. \A i \in 1 .. N : old[i] = [messages[i] EXCEPT !.running = FALSE]
      BY <2>1
    <2>. HIDE DEF old, N
    <2>5. \A i \in 1 .. N : /\ old[i].role = messages[i].role /\ old[i].by = messages[i].by
                            /\ ~old[i].running
      <3>. SUFFICES ASSUME NEW i \in 1 .. N
                    PROVE  /\ old[i].role = messages[i].role /\ old[i].by = messages[i].by
                           /\ ~old[i].running
        OBVIOUS
      <3>1. messages[i] \in Lines
        BY <1>1 DEF N
      <3>. QED BY <2>4, <3>1 DEF Lines
    <2>. QED BY <2>3, <2>5
  <1>5. /\ answer \in Seq(Lines) /\ Len(answer) \in {0, 1}
        /\ \A k \in 1 .. Len(answer) :
             /\ Streamed # <<>> /\ answer[k].role = "Assistant" /\ answer[k].by = Streamed
             /\ ~answer[k].running
    <2>1. CASE Streamed = <<>>
      BY <2>1
    <2>2. CASE Streamed # <<>>
      <3>. DEFINE a == Line("Assistant", streaming, FALSE)
      <3>1. streaming = Streamed
        BY <2>2 DEF Streamed
      <3>2. a \in Lines /\ a.role = "Assistant" /\ a.by = Streamed /\ ~a.running
        BY <1>1, <3>1 DEF Line, Lines, Roles
      <3>3. answer = <<a>>
        BY <2>2
      <3>. HIDE DEF a, answer
      <3>. QED BY <2>2, <3>2, <3>3
    <2>. QED BY <2>1, <2>2
  <1>6. /\ note \in Seq(Lines) /\ Len(note) \in {0, 1}
        /\ \A k \in 1 .. Len(note) : note[k].role \notin {"Tool", "Assistant"} /\ ~note[k].running
    <2>. DEFINE alert == Line("Alert", <<>>, FALSE)
                system == Line("System", <<>>, FALSE)
    <2>1. \A l \in {alert, system} : l \in Lines /\ l.role \notin {"Tool", "Assistant"} /\ ~l.running
      <3>1. <<>> \in Seq(Turns)
        BY EmptySeq
      <3>2. /\ alert \in Lines /\ alert.role = "Alert" /\ ~alert.running
            /\ system \in Lines /\ system.role = "System" /\ ~system.running
        BY <3>1 DEF Line, Lines, Roles
      <3>. HIDE DEF alert, system
      <3>. QED BY <3>2
    <2>2. note = <<alert>> \/ note = <<system>> \/ note = <<>>
      OBVIOUS
    <2>. HIDE DEF alert, system, note
    <2>3. CASE note = <<>>
      BY <2>3
    <2>4. CASE note = <<alert>>
      BY <2>1, <2>4
    <2>5. CASE note = <<system>>
      BY <2>1, <2>5
    <2>. QED BY <2>2, <2>3, <2>4, <2>5
  <1>. HIDE DEF old, answer, note
  <1>7. /\ Len(lines) \in Nat
        /\ \A i \in 1 .. Len(lines) :
             \/ i \in 1 .. N /\ lines[i] = old[i]
             \/ i = N + 1 /\ 1 \in 1 .. Len(answer) /\ lines[i] = answer[1]
             \/ \E k \in 1 .. Len(note) : lines[i] = note[k]
    <2>. DEFINE both == old \o answer
    <2>1. /\ both \in Seq(Lines) /\ Len(both) = N + Len(answer)
          /\ \A i \in 1 .. Len(both) : both[i] = IF i <= N THEN old[i] ELSE answer[i - N]
      <3>1. /\ both \in Seq(Lines) /\ Len(both) = Len(old) + Len(answer)
            /\ \A i \in 1 .. Len(old) + Len(answer) :
                 both[i] = IF i <= Len(old) THEN old[i] ELSE answer[i - Len(old)]
        BY <1>4, <1>5, ConcatProperties
      <3>. HIDE DEF both, N
      <3>. QED BY <1>4, <3>1
    <2>. HIDE DEF both, N
    <2>2. /\ Len(lines) = Len(both) + Len(note)
          /\ \A i \in 1 .. Len(lines) : lines[i] = IF i <= Len(both) THEN both[i] ELSE note[i - Len(both)]
      <3>1. lines = both \o note
        BY <1>3 DEF both
      <3>2. /\ Len(lines) = Len(both) + Len(note)
            /\ \A i \in 1 .. Len(both) + Len(note) :
                 lines[i] = IF i <= Len(both) THEN both[i] ELSE note[i - Len(both)]
        BY <1>6, <2>1, <3>1, ConcatProperties
      <3>. QED BY <3>2
    <2>3. N \in Nat /\ Len(answer) \in {0, 1} /\ Len(note) \in {0, 1} /\ Len(both) \in Nat
      BY <1>1, <1>5, <1>6, <2>1 DEF N
    <2>4. ASSUME NEW i \in 1 .. Len(lines)
          PROVE  \/ i \in 1 .. N /\ lines[i] = old[i]
                 \/ i = N + 1 /\ 1 \in 1 .. Len(answer) /\ lines[i] = answer[1]
                 \/ \E k \in 1 .. Len(note) : lines[i] = note[k]
      <3>1. i \in Nat /\ 1 <= i /\ i <= Len(both) + Len(note)
        BY <2>2, <2>3
      <3>2. CASE i <= N
        <4>1. i <= Len(both) /\ i \in 1 .. Len(both) /\ i \in 1 .. N
          BY <2>1, <2>3, <3>1, <3>2
        <4>. QED BY <2>1, <2>2, <3>2, <4>1
      <3>3. CASE ~(i <= N) /\ i <= Len(both)
        <4>1. i \in 1 .. Len(both) /\ i = N + 1 /\ i - N = 1 /\ 1 \in 1 .. Len(answer)
          BY <2>1, <2>3, <3>1, <3>3
        <4>2. lines[i] = both[i] /\ both[i] = answer[i - N]
          BY <2>1, <2>2, <3>3, <4>1
        <4>. QED BY <4>1, <4>2
      <3>4. CASE ~(i <= Len(both))
        <4>1. i - Len(both) \in 1 .. Len(note)
          BY <2>3, <3>1, <3>4
        <4>2. lines[i] = note[i - Len(both)]
          BY <2>2, <3>4
        <4>. QED BY <4>1, <4>2
      <3>. QED BY <3>2, <3>3, <3>4
    <2>. QED BY <2>2, <2>3, <2>4
  <1>8. ASSUME NEW i \in 1 .. Len(lines)
        PROVE  /\ ~lines[i].running
               /\ Counts(lines[i]) =>
                    \/ /\ i \in 1 .. Old /\ Counts(messages[i])
                       /\ lines[i].role = messages[i].role /\ lines[i].by = messages[i].by
                    \/ /\ i = Old + 1 /\ lines[i].role = "Tool" /\ lines[i].by = <<turn>>
                    \/ /\ i = N + 1 /\ lines[i].role = "Assistant" /\ lines[i].by = Streamed
                       /\ Streamed # <<>>
    <2>1. CASE i \in 1 .. N /\ lines[i] = old[i]
      <3>1. /\ lines[i].role = messages[i].role /\ lines[i].by = messages[i].by
            /\ ~lines[i].running
        BY <1>4, <2>1
      <3>2. i \in 1 .. Old \/ (i = Old + 1 /\ N = Old + 1)
        BY <1>1, <2>1
      <3>3. CASE i \in 1 .. Old
        BY <3>1, <3>3 DEF Counts
      <3>4. CASE i = Old + 1 /\ N = Old + 1
        BY <1>1, <3>1, <3>4 DEF ScreenInv
      <3>. QED BY <3>1, <3>2, <3>3, <3>4
    <2>2. CASE i = N + 1 /\ 1 \in 1 .. Len(answer) /\ lines[i] = answer[1]
      BY <1>5, <2>2
    <2>3. CASE \E k \in 1 .. Len(note) : lines[i] = note[k]
      BY <1>6, <2>3 DEF Counts
    <2>. QED BY <1>7, <2>1, <2>2, <2>3
  <1>9. Streamed # <<>> => /\ Len(Streamed) <= TextsOf(turn) /\ Streamed[1] = turn
                           /\ \A k \in 1 .. Len(Streamed) : Streamed[k] = Streamed[1]
    <2>. SUFFICES ASSUME Streamed # <<>>
                  PROVE  /\ Len(Streamed) <= TextsOf(turn) /\ Streamed[1] = turn
                         /\ \A k \in 1 .. Len(Streamed) : Streamed[k] = Streamed[1]
      OBVIOUS
    <2>1. 1 \in 1 .. Len(Streamed)
      <3>1. Len(Streamed) # 0
        BY <1>1, EmptySeq
      <3>. QED BY <1>1, <3>1
    <2>2. \A k \in 1 .. Len(Streamed) : Streamed[k] = turn
      BY <1>1 DEF ScreenInv
    <2>3. Len(Streamed) <= TextsOf(turn)
      <3>. DEFINE n == Len(Streamed)
      <3>1. n \in Nat /\ (n <= 1 \/ (n = 2 /\ "Ask" \in task[turn].out))
        BY <1>1 DEF ScreenInv
      <3>. HIDE DEF n
      <3>2. n <= TextsOf(turn)
        BY <3>1 DEF TextsOf
      <3>. QED BY <3>2 DEF n
    <2>. QED BY <2>1, <2>2, <2>3
  <1>10. ASSUME NEW i \in 1 .. Len(lines), Counts(lines[i]) PROVE LineOnce(lines[i])
    <2>1. CASE i \in 1 .. Old /\ Counts(messages[i])
               /\ lines[i].role = messages[i].role /\ lines[i].by = messages[i].by
      <3>1. LineOnce(messages[i])
        BY <1>1, <2>1 DEF OldInv, LinesOnce
      <3>. QED BY <2>1, <3>1 DEF LineOnce
    <2>2. CASE lines[i].role = "Tool" /\ lines[i].by = <<turn>>
      BY <2>2 DEF LineOnce
    <2>3. CASE lines[i].role = "Assistant" /\ lines[i].by = Streamed /\ Streamed # <<>>
      BY <1>9, <2>3 DEF LineOnce
    <2>. QED BY <1>8, <1>10, <2>1, <2>2, <2>3
  <1>11. ASSUME NEW i \in 1 .. Len(lines), NEW j \in 1 .. Len(lines), Counts(lines[i]),
                lines[j].role = lines[i].role, lines[j].by[1] = lines[i].by[1]
         PROVE  i = j
    <2>. DEFINE Kept(k) == /\ k \in 1 .. Old /\ Counts(messages[k])
                           /\ lines[k].role = messages[k].role /\ lines[k].by = messages[k].by
                Tool(k) == /\ k = Old + 1 /\ lines[k].role = "Tool" /\ lines[k].by = <<turn>>
                Answer(k) == /\ k = N + 1 /\ lines[k].role = "Assistant"
                             /\ lines[k].by = Streamed /\ Streamed # <<>>
    <2>1. Counts(lines[j])
      BY <1>11 DEF Counts
    <2>2. ASSUME NEW k \in 1 .. Len(lines), Counts(lines[k]) PROVE Kept(k) \/ Tool(k) \/ Answer(k)
      BY <1>8, <2>2
    <2>3. \A k \in 1 .. Len(lines) : Kept(k) => lines[k].by[1] # turn
      BY <1>1 DEF OldInv
    <2>4. \A k \in 1 .. Len(lines) : Tool(k) \/ Answer(k) => lines[k].by[1] = turn
      BY <1>9
    <2>5. CASE Kept(i) /\ Kept(j)
      BY <1>1, <1>11, <2>5 DEF OldInv, LinesOnce
    <2>6. CASE (Tool(i) /\ Tool(j)) \/ (Answer(i) /\ Answer(j))
      BY <2>6
    <2>7. ~(Tool(i) /\ Answer(j)) /\ ~(Tool(j) /\ Answer(i))
      BY <1>11
    <2>8. (Kept(i) \/ Tool(i) \/ Answer(i)) /\ (Kept(j) \/ Tool(j) \/ Answer(j))
      BY <1>11, <2>1, <2>2
    <2>. HIDE DEF Kept, Tool, Answer
    <2>. QED BY <1>11, <2>3, <2>4, <2>5, <2>6, <2>7, <2>8
  <1>. QED BY <1>2, <1>8, <1>10, <1>11 DEF LinesOnce

\* The lines a turn starts on become old lines, none of them its own.
LEMMA SpawnTwice ==
  ASSUME IInv, FreshInv, TwiceInv, [Next]_vars, spawned + 1 \in Turns,
         NEW req, NEW lines, NEW report, Spawn(req, lines, report),
         lines \in Seq(LinesOf(ThreadTurns)), LinesOnce(lines, Len(lines)), Coming' = {}
  PROVE  TwiceInv'
  <1>. DEFINE t == spawned + 1
              user == Line("User", <<t>>, FALSE)
              n == Len(lines)
  <1>1. /\ turn_started' = [from |-> n, turn |-> t] /\ messages' = Append(lines, user)
        /\ streaming' = <<>> /\ turn' = t
    BY DEF Spawn
  <1>2. n \in Nat /\ turn' # None /\ spawned \in Nat
    BY <1>1, LenProperties, OneTurnTypes
  <1>3. user.role = "User" /\ ~user.running /\ user \in LinesOf(Turns)
    <2>1. <<t>> \in Seq(Turns)
      OBVIOUS
    <2>. QED BY <2>1 DEF Line, LinesOf, Roles
  <1>4. \A i \in 1 .. n : lines[i] \in LinesOf(ThreadTurns)
    BY ElementOfSeq
  <1>. HIDE DEF user
  <1>5. /\ Len(messages') = n + 1 /\ messages'[n + 1] = user
        /\ \A i \in 1 .. n : messages'[i] = lines[i]
    <2>1. lines \in Seq(LinesOf(Turns))
      BY SeqLinesMono DEF ThreadTurns
    <2>. QED BY <1>1, <1>3, <2>1, AppendProperties
  <1>6. Old' = n + 1 /\ Streamed' = <<>>
    BY <1>1, <1>2 DEF Old, Streamed
  <1>7. Shown' = {}
    <2>1. n + 1 # (n + 1) + 1
      BY <1>2
    <2>. QED BY <1>5, <1>6, <2>1 DEF Shown
  <1>8. ScreenInv'
    <2>1. n + 1 # (n + 1) + 1 /\ Len(Streamed') = 0
      BY <1>2, <1>6
    <2>. QED BY <1>2, <1>5, <1>6, <2>1 DEF ScreenInv
  <1>9. NoneTwice' /\ AskOnce'
    <2>1. \A p \in Places' : At(p)' = {}
      BY <1>7 DEF Places, At
    <2>. QED BY <2>1 DEF NoneTwice, AskOnce
  <1>10. \A u \in Turns : "Ask" \in task[u].out => "Ask" \in task'[u].out
    BY OutKeeps DEF TwiceInv
  <1>11. ASSUME NEW i \in 1 .. n, Counts(lines[i])
         PROVE  LineOnce(lines[i])' /\ lines[i].by[1] # t
    <2>1. LineOnce(lines[i])
      BY <1>11 DEF LinesOnce
    <2>2. lines[i].by \in Seq(ThreadTurns) /\ lines[i].by # <<>>
      BY <1>4, <2>1 DEF LineOnce, LinesOf
    <2>3. lines[i].by[1] \in ThreadTurns
      BY <2>2, LenProperties, ElementOfSeq
    <2>4. lines[i].by[1] \in Turns /\ lines[i].by[1] # t
      BY <1>2, <2>3 DEF ThreadTurns
    <2>5. TextsOf(lines[i].by[1]) <= TextsOf(lines[i].by[1])'
      BY <1>10, <2>4 DEF TextsOf
    <2>6. Len(lines[i].by) \in Nat
      BY <2>2, LenProperties
    <2>. QED BY <2>1, <2>4, <2>5, <2>6 DEF LineOnce, TextsOf
  <1>12. \A i \in 1 .. n + 1 : i \in 1 .. n \/ i = n + 1
    BY <1>2
  <1>13. ~Counts(user)
    BY <1>3 DEF Counts
  <1>14. OldInv'
    <2>1. \A i \in 1 .. n + 1 : ~messages'[i].running
      BY <1>3, <1>5, <1>12 DEF LinesOnce
    <2>2. ASSUME NEW i \in 1 .. n + 1, Counts(messages'[i])
          PROVE  /\ i \in 1 .. n /\ messages'[i] = lines[i] /\ Counts(lines[i])
      BY <1>5, <1>12, <1>13, <2>2
    <2>3. ASSUME NEW i \in 1 .. n + 1, NEW j \in 1 .. n + 1, Counts(messages'[i]),
                 messages'[j].role = messages'[i].role, messages'[j].by[1] = messages'[i].by[1]
          PROVE  i = j
      <3>1. Counts(messages'[j])
        BY <2>3 DEF Counts
      <3>. QED BY <2>2, <2>3, <3>1 DEF LinesOnce
    <2>4. ASSUME NEW i \in 1 .. n + 1, Counts(messages'[i])
          PROVE  LineOnce(messages[i])' /\ messages'[i].by[1] # turn'
      <3>1. LineOnce(lines[i])' /\ lines[i].by[1] # t /\ messages'[i] = lines[i]
        BY <1>11, <2>2, <2>4
      <3>. QED BY <1>1, <3>1 DEF LineOnce
    <2>. HIDE DEF n, t
    <2>. QED BY <1>6, <2>1, <2>3, <2>4 DEF OldInv, LinesOnce, Counts, LineOnce
  <1>. QED BY <1>8, <1>9, <1>14, OutKeeps DEF TwiceInv

\* Between two turns the lines on screen are old lines.
LEMMA RestTwice ==
  ASSUME IInv, TwiceInv, Uncancelled, turn = None
  PROVE  /\ messages \in Seq(LinesOf(ThreadTurns))
         /\ LinesOnce(messages, Len(messages))
  BY DEF IInv, Transcript, TwiceInv, OldInv, Old

LEMMA ReaderTwice ==
  ASSUME IInv, TInv, SInv, FreshInv, TwiceInv, [Next]_vars, Uncancelled, Uncancelled',
         SendPrompt \/ RetryLast \/ ClickFurther \/ AnswerQuestion
  PROVE  TwiceInv'
  <1>1. turn = None
    <2>1. ~busy \/ view = "Question"
      BY DEF SendPrompt, RetryLast, ClickFurther, AnswerQuestion
    <2>. QED BY <2>1 DEF TInv, QuestionsBetweenTurns, IInv, BusyIffTurn
  <1>2. spawned + 1 \in Turns /\ UNCHANGED <<events, generation>>
    <2>1. RoomForTurn /\ UNCHANGED <<events, generation>>
      BY DEF SendPrompt, RetryLast, ClickFurther, AnswerQuestion, StartTurn
    <2>. QED BY <2>1, OneTurnTypes, ChatAssumption DEF RoomForTurn, Turns
  <1>3. Coming = {} /\ Coming' = {}
    <2>1. Coming = {}
      BY <1>1, RestIsQuiet DEF SInv
    <2>. QED BY <1>2, <2>1 DEF Coming, Current
  <1>4. \/ \E req, report : Spawn(req, messages, report)
        \/ UNCHANGED <<transcript, turn, task>>
    BY DEF SendPrompt, RetryLast, ClickFurther, AnswerQuestion, StartTurn
  <1>5. CASE \E req, report : Spawn(req, messages, report)
    BY <1>1, <1>2, <1>3, <1>5, RestTwice, SpawnTwice
  <1>6. CASE UNCHANGED <<transcript, turn, task>>
    BY <1>3, <1>6, AsideTwice DEF transcript
  <1>. QED BY <1>4, <1>5, <1>6

LEMMA FinishTwice ==
  ASSUME IInv, TInv, SInv, FreshInv, TwiceInv, [Next]_vars, Uncancelled, ReceiveTurnFinished
  PROVE  TwiceInv'
  <1>. DEFINE failed == Head(events).error \/ turn_error
              lines == FinishedLines(failed)
  <1>1. Receive("TurnFinished") /\ UNCHANGED generation /\ OneTurn
    BY DEF ReceiveTurnFinished, SInv
  <1>2. turn # None /\ Coming' = {}
    BY <1>1, EndIsLast, OneTurnTypes
  <1>3. failed \in BOOLEAN
    <2>1. events # <<>> /\ Current(Head(events))
      BY <1>1 DEF Receive
    <2>2. Head(events) \in GoodEvents
      BY <1>1, <2>1, HeadIsTurns
    <2>. QED BY <2>2 DEF GoodEvents, Events, IInv, TypeOK, ChatTypeOK
  <1>. HIDE DEF failed
  <1>4. lines \in Seq(LinesOf(ThreadTurns)) /\ LinesOnce(lines, Len(lines))
    BY <1>2, <1>3, FinishedLinesAre
  <1>5. \/ messages' = lines /\ streaming' = None /\ turn' = None /\ UNCHANGED task
        \/ spawned + 1 \in Turns /\ \E req, report : Spawn(req, lines, report)
    <2>1. \/ messages' = lines /\ streaming' = None /\ turn' = None /\ UNCHANGED task
          \/ queued # <<>> /\ \E req, report : Spawn(req, lines, report)
      BY DEF ReceiveTurnFinished, failed, TakeQueued
    <2>2. queued # <<>> => spawned + 1 \in Turns
      BY OneTurnTypes, ChatAssumption DEF IInv, QueueHasRoom, Turns
    <2>. QED BY <2>1, <2>2
  <1>. HIDE DEF lines
  <1>6. CASE messages' = lines /\ streaming' = None /\ turn' = None /\ UNCHANGED task
    <2>1. Old' = Len(messages') /\ Streamed' = <<>>
      BY <1>6 DEF Old, Streamed
    <2>2. OldInv'
      <3>1. ASSUME NEW i \in 1 .. Len(lines), Counts(lines[i]) PROVE lines[i].by[1] # None
        <4>1. lines[i] \in LinesOf(ThreadTurns) /\ LineOnce(lines[i])
          BY <1>4, <3>1, ElementOfSeq DEF LinesOnce
        <4>2. lines[i].by \in Seq(ThreadTurns) /\ lines[i].by # <<>>
          BY <4>1 DEF LinesOf, LineOnce
        <4>3. lines[i].by[1] \in ThreadTurns
          BY <4>2, LenProperties, ElementOfSeq
        <4>. QED BY <4>3, OneTurnTypes DEF ThreadTurns
      <3>. QED BY <1>4, <1>6, <2>1, <3>1 DEF OldInv, LinesOnce, LineOnce, TextsOf, Counts
    <2>. QED BY <1>6, <2>1, <2>2, OutKeeps DEF TwiceInv, ScreenInv, NoneTwice, AskOnce
  <1>7. CASE spawned + 1 \in Turns /\ \E req, report : Spawn(req, lines, report)
    BY <1>2, <1>4, <1>7, SpawnTwice
  <1>. QED BY <1>5, <1>6, <1>7

\* Another conversation brings no line that counts.
LEMMA LeaveTwice ==
  ASSUME IInv, FreshInv, TwiceInv, [Next]_vars,
         NewSession \/ (ReceiveLoad /\ Head(loaded) # None)
  PROVE  TwiceInv'
  <1>. DEFINE user == Line("User", <<>>, FALSE)
  <1>1. /\ turn' = None /\ streaming' = None
        /\ messages' = <<>> \/ messages' = <<user>>
    BY DEF NewSession, ReceiveLoad, AbandonTurn, ClearTurnState
  <1>2. Old' = Len(messages') /\ Streamed' = <<>>
    BY <1>1 DEF Old, Streamed
  <1>3. user.role = "User" /\ ~user.running
    BY DEF Line
  <1>. HIDE DEF user
  <1>4. \A i \in 1 .. Len(messages') : ~messages'[i].running /\ ~Counts(messages'[i])
    <2>1. CASE messages' = <<>>
      BY <2>1
    <2>2. CASE messages' = <<user>>
      BY <1>3, <2>2 DEF Counts
    <2>. QED BY <1>1, <2>1, <2>2
  <1>5. OldInv'
    BY <1>2, <1>4 DEF OldInv, LinesOnce, Counts
  <1>. QED BY <1>1, <1>2, <1>5, OutKeeps DEF TwiceInv, ScreenInv, NoneTwice, AskOnce

LEMMA InitTwice == Init => TwiceInv
  <1>. SUFFICES ASSUME Init PROVE TwiceInv
    OBVIOUS
  <1>1. OutInv
    BY DEF Init, OutInv
  <1>2. messages = <<>> /\ turn = None /\ streaming = None
    BY DEF Init
  <1>3. Old = 0 /\ Streamed = <<>>
    BY <1>2 DEF Old, Streamed
  <1>4. OldInv
    BY <1>3 DEF OldInv, LinesOnce
  <1>. QED BY <1>1, <1>2, <1>3, <1>4 DEF TwiceInv, ScreenInv, NoneTwice, AskOnce

LEMMA NextTwice ==
  IInv /\ TInv /\ SInv /\ FreshInv /\ ToldInv /\ TwiceInv /\ [Next]_vars => TwiceInv'
  <1>. SUFFICES ASSUME IInv, TInv, SInv, FreshInv, ToldInv, TwiceInv, [Next]_vars
                PROVE  TwiceInv'
    OBVIOUS
  <1>1. CASE ~Uncancelled'
    BY <1>1, OutKeeps DEF TwiceInv
  <1>. SUFFICES ASSUME Uncancelled' PROVE TwiceInv'
    BY <1>1
  <1>2. Uncancelled
    BY UncancelledBefore
  <1>3. CASE SendPrompt \/ RetryLast \/ ClickFurther \/ AnswerQuestion
    BY <1>2, <1>3, ReaderTwice
  <1>4. CASE Cancel \/ SignOut
    BY <1>4, CancelEnds
  <1>5. CASE NewSession \/ (ReceiveLoad /\ Head(loaded) # None)
    BY <1>5, LeaveTwice
  <1>6. ASSUME UNCHANGED <<turn, turn_started, messages, streaming, events, generation, task>>
        PROVE  TwiceInv'
    <2>1. Coming' = Coming
      BY <1>6 DEF Coming, Current
    <2>. QED BY <1>2, <1>6, <2>1, AsideTwice
  <1>7. CASE QueuePrompt \/ Navigate \/ SignIn \/ RequestLoad \/ UNCHANGED vars
             \/ (ReceiveLoad /\ Head(loaded) = None)
    BY <1>6, <1>7 DEF QueuePrompt, Navigate, SignIn, RequestLoad, ReceiveLoad, vars, chat,
                      transcript
  <1>8. CASE FinishLoad \/ (\E m \in Msgs : Settle(m))
    BY <1>6, <1>8 DEF FinishLoad, Settle, chat, transcript
  <1>9. CASE DropStale
    <2>1. /\ events # <<>> /\ events' = Tail(events) /\ ~Current(Head(events))
          /\ UNCHANGED <<turn, turn_started, generation, task, messages, streaming>>
      BY <1>9 DEF DropStale, chat, transcript
    <2>. QED BY <1>2, <2>1, PassesTwice
  <1>10. CASE ReceiveTurnStarted \/ ReceiveMeta \/ ReceiveInterrupt \/ ReceiveTurnError
    <2>1. /\ events # <<>> /\ events' = Tail(events)
          /\ Head(events).kind # "StreamInterrupted"
          /\ UNCHANGED <<turn, turn_started, generation, task, messages, streaming>>
      BY <1>10 DEF ReceiveTurnStarted, ReceiveMeta, ReceiveInterrupt, ReceiveTurnError,
                   Receive, MidTurn
    <2>. QED BY <1>2, <2>1, PassesTwice
  <1>11. CASE ReceiveDelta
    BY <1>2, <1>11, DeltaTwice
  <1>12. CASE ReceiveToolStarted \/ ReceiveToolFinished
    BY <1>2, <1>12, ToolTwice
  <1>13. CASE ReceiveStreamInterrupted
    BY <1>2, <1>13, RewoundTwice
  <1>14. CASE ReceiveTurnFinished
    BY <1>2, <1>14, FinishTwice
  <1>15. ASSUME NEW t \in Turns, TurnTask(t) \/ Disconnect(t)
         PROVE  TwiceInv'
    <2>1. CASE Stream(t)
      BY <1>2, <2>1, StreamTwice
    <2>2. CASE Accept(t) \/ Disconnect(t) \/ End(t)
      BY <1>2, <2>2, SaysTwice
    <2>3. CASE AbortLands(t)
      <3>1. /\ UNCHANGED <<turn, turn_started, messages, streaming, events, generation>>
            /\ task' = [task EXCEPT ![t].st = "ended"]
        BY <2>3 DEF AbortLands, chat, transcript
      <3>2. Coming' = Coming
        BY <3>1 DEF Coming, Current
      <3>3. \A u \in Turns : task'[u].out = task[u].out
        BY <3>1, AskTypes DEF Tasks
      <3>. QED BY <1>2, <3>1, <3>2, <3>3, OneTurnTypes, AsideTwice
    <2>. QED BY <1>15, <2>1, <2>2, <2>3 DEF TurnTask
  <1>. QED BY <1>3, <1>4, <1>5, <1>7, <1>8, <1>9, <1>10, <1>11, <1>12, <1>13, <1>14, <1>15
           DEF Next, Reader, Loop

LEMMA AtMostOne ==
  ASSUME NEW S, \A a, b \in S : a = b
  PROVE  Cardinality(S) \in Nat /\ Cardinality(S) <= 1
  <1>1. CASE S = {}
    BY <1>1, FS_EmptySet
  <1>2. CASE S # {}
    <2>1. PICK a : S = {a}
      BY <1>2
    <2>. QED BY <2>1, FS_Singleton
  <1>. QED BY <1>1, <1>2

LEMMA AtMostTwo ==
  ASSUME NEW S, NEW a, NEW b, S \subseteq {a, b}
  PROVE  Cardinality(S) \in Nat /\ Cardinality(S) <= 2
  <1>1. IsFiniteSet({a}) /\ Cardinality({a}) = 1
    BY FS_Singleton
  <1>2. /\ IsFiniteSet({a} \cup {b})
        /\ Cardinality({a} \cup {b}) = IF b \in {a} THEN Cardinality({a}) ELSE Cardinality({a}) + 1
    BY <1>1, FS_AddElement
  <1>3. S \subseteq {a} \cup {b}
    OBVIOUS
  <1>4. IsFiniteSet(S) /\ Cardinality(S) <= Cardinality({a} \cup {b})
    BY <1>2, <1>3, FS_Subset
  <1>5. Cardinality(S) \in Nat
    BY <1>4, FS_CardinalityType
  <1>6. Cardinality({a} \cup {b}) = 1 \/ Cardinality({a} \cup {b}) = 2
    BY <1>1, <1>2
  <1>. QED BY <1>4, <1>5, <1>6

\* Where a turn is shown.
ShowsTurn(line, t) == t \in {line.by[k] : k \in DOMAIN line.by}

LEMMA LinesOfTurn ==
  ASSUME IInv, TInv, TwiceInv, Uncancelled, NEW t \in Turns,
         NEW i \in DOMAIN messages, Counts(messages[i]), ShowsTurn(messages[i], t)
  PROVE  \/ i \in 1 .. Old /\ messages[i].by[1] = t /\ t # turn /\ LineOnce(messages[i])
         \/ i = Old + 1 /\ messages[i].role = "Tool" /\ t = turn
  <1>1. /\ DOMAIN messages = 1 .. Len(messages) /\ OldInv /\ ScreenInv
        /\ Len(messages) \in Nat /\ Old \in Nat /\ messages[i] \in Lines
        /\ turn = None => Old = Len(messages)
    <2>1. DOMAIN messages = 1 .. Len(messages)
      BY OldFacts, LenProperties
    <2>. QED BY <2>1, OldFacts DEF TwiceInv, Old
  <1>2. DOMAIN messages[i].by = 1 .. Len(messages[i].by)
    <2>1. messages[i].by \in Seq(Turns)
      BY <1>1 DEF Lines
    <2>. QED BY <2>1, LenProperties
  <1>3. CASE i \in 1 .. Old
    <2>1. LineOnce(messages[i]) /\ messages[i].by[1] # turn
      BY <1>1, <1>3 DEF OldInv, LinesOnce
    <2>2. messages[i].by[1] = t
      BY <1>2, <2>1 DEF ShowsTurn, LineOnce
    <2>. QED BY <1>3, <2>1, <2>2
  <1>4. CASE i \notin 1 .. Old
    <2>1. turn # None /\ i = Old + 1 /\ Len(messages) = Old + 1
      <3>1. turn # None /\ i \in 1 .. Len(messages) /\ Len(messages) # Old
        BY <1>1, <1>4
      <3>2. Len(messages) = Old + 1
        BY <1>1, <3>1 DEF ScreenInv
      <3>. QED BY <1>1, <1>4, <3>1, <3>2
    <2>2. messages[i].role = "Tool" /\ messages[i].by = <<turn>>
      BY <1>1, <2>1 DEF ScreenInv
    <2>3. t = turn
      BY <2>2 DEF ShowsTurn
    <2>. QED BY <2>1, <2>2, <2>3
  <1>. QED BY <1>3, <1>4

LEMMA TwiceNothing ==
  ASSUME IInv, TInv, TwiceInv
  PROVE  NothingTwice
  <1>. SUFFICES ASSUME NEW t \in Turns, Uncancelled
                PROVE  /\ Cardinality(LinesBy("Tool", t)) <= 1
                       /\ Cardinality(LinesBy("Assistant", t)) <= 1
                       /\ Cardinality(TextsStreamed(t)) + Cardinality(TextsAnswered(t))
                            <= TextsOf(t)
    BY DEF NothingTwice, TextsOf
  <1>. DEFINE lines(role) == LinesBy(role, t)
              shown == TextsStreamed(t)
              said == TextsAnswered(t)
  <1>. USE DEF LinesBy, TextsStreamed, TextsAnswered
  <1>1. OldInv /\ ScreenInv /\ Old \in Nat /\ Streamed \in Seq(Turns) /\ Len(Streamed) \in Nat
        /\ DOMAIN Streamed = 1 .. Len(Streamed)
    BY OldFacts, LenProperties DEF TwiceInv
  <1>2. ASSUME NEW role \in {"Tool", "Assistant"}, NEW i \in lines(role)
        PROVE  /\ i \in DOMAIN messages /\ messages[i].role = role
               /\ \/ i \in 1 .. Old /\ messages[i].by[1] = t /\ t # turn /\ LineOnce(messages[i])
                  \/ i = Old + 1 /\ role = "Tool" /\ t = turn
    BY <1>2, LinesOfTurn DEF Counts, ShowsTurn
  <1>3. ASSUME NEW role \in {"Tool", "Assistant"} PROVE \A i, j \in lines(role) : i = j
    <2>. SUFFICES ASSUME NEW i \in lines(role), NEW j \in lines(role) PROVE i = j
      OBVIOUS
    <2>. HIDE DEF lines
    <2>1. /\ messages[i].role = role /\ messages[j].role = role
          /\ \/ i = Old + 1 /\ j = Old + 1
             \/ /\ i \in 1 .. Old /\ j \in 1 .. Old
                /\ messages[i].by[1] = t /\ messages[j].by[1] = t
      BY <1>2
    <2>2. Counts(messages[i])
      BY <2>1 DEF Counts
    <2>. QED BY <1>1, <2>1, <2>2 DEF OldInv, LinesOnce
  <1>4. Cardinality(lines("Tool")) <= 1 /\ Cardinality(lines("Assistant")) <= 1
    <2>1. /\ \A i, j \in lines("Tool") : i = j
          /\ \A i, j \in lines("Assistant") : i = j
      BY <1>3
    <2>. HIDE DEF lines
    <2>. QED BY <2>1, AtMostOne
  <1>5. Cardinality(shown) + Cardinality(said) <= TextsOf(t)
    <2>1. CASE turn = t
      <3>1. said = {}
        <4>1. lines("Assistant") = {}
          BY <1>2, <2>1
        <4>. QED BY <4>1
      <3>2. turn # None
        BY <2>1, OneTurnTypes
      <3>3. Cardinality(shown) \in Nat /\ Cardinality(shown) <= TextsOf(t)
        <4>1. CASE Len(Streamed) <= 1
          <5>1. \A a, b \in shown : a = b
            BY <1>1, <4>1
          <5>2. Cardinality(shown) \in Nat /\ Cardinality(shown) <= 1
            BY <5>1, AtMostOne
          <5>. QED BY <5>2 DEF TextsOf
        <4>2. CASE Len(Streamed) = 2 /\ "Ask" \in task[turn].out
          <5>1. shown \subseteq {1, 2}
            BY <1>1, <4>2
          <5>2. Cardinality(shown) \in Nat /\ Cardinality(shown) <= 2
            BY <5>1, AtMostTwo
          <5>. QED BY <2>1, <4>2, <5>2 DEF TextsOf
        <4>. QED BY <1>1, <3>2, <4>1, <4>2 DEF ScreenInv
      <3>. HIDE DEF shown, said
      <3>4. Cardinality(said) = 0
        BY <3>1, FS_EmptySet
      <3>5. TextsOf(t) \in Nat
        BY DEF TextsOf
      <3>. QED BY <3>3, <3>4, <3>5
    <2>2. CASE turn # t
      <3>1. shown = {}
        BY <1>1, <2>2 DEF ScreenInv
      <3>2. Cardinality(shown) = 0
        BY <3>1, FS_EmptySet
      <3>3. Cardinality(said) \in Nat /\ Cardinality(said) <= TextsOf(t)
        <4>1. CASE lines("Assistant") = {}
          <5>1. said = {}
            BY <4>1
          <5>. HIDE DEF said
          <5>2. Cardinality(said) = 0
            BY <5>1, FS_EmptySet
          <5>. QED BY <5>2 DEF TextsOf
        <4>2. CASE lines("Assistant") # {}
          <5>1. PICK l \in lines("Assistant") : TRUE
            BY <4>2
          <5>2. /\ l \in DOMAIN messages /\ messages[l].role = "Assistant"
                /\ messages[l].by[1] = t /\ LineOnce(messages[l])
            BY <1>2, <5>1
          <5>. DEFINE n == Len(messages[l].by)
          <5>3. n \in Nat /\ DOMAIN messages[l].by = 1 .. n /\ n <= TextsOf(t)
            <6>1. messages \in Seq(Lines) /\ messages[l] \in Lines
              BY <5>2, OldFacts, LenProperties
            <6>2. messages[l].by \in Seq(Turns)
              BY <6>1 DEF Lines
            <6>. QED BY <5>2, <6>2, LenProperties DEF LineOnce
          <5>4. said \subseteq {<<l, k>> : k \in 1 .. n}
            <6>1. \A i \in lines("Assistant") : i = l
              BY <1>3, <5>1
            <6>2. \A p \in said : \E k \in 1 .. 4 : p = <<l, k>> /\ k \in 1 .. n
              <7>. SUFFICES ASSUME NEW p \in said PROVE \E k \in 1 .. 4 : p = <<l, k>> /\ k \in 1 .. n
                OBVIOUS
              <7>1. PICK i \in lines("Assistant"), k \in 1 .. 4 : p = <<i, k>>
                OBVIOUS
              <7>2. p = <<l, k>> /\ p[2] \in DOMAIN messages[p[1]].by
                BY <6>1, <7>1
              <7>3. k \in 1 .. n
                BY <5>3, <7>2
              <7>. QED BY <7>2, <7>3
            <6>. QED BY <6>2
          <5>. HIDE DEF said, n
          <5>5. CASE "Ask" \notin task[t].out
            <6>1. \A a, b \in said : a = b
              <7>1. n <= 1
                BY <5>3, <5>5 DEF TextsOf
              <7>2. \A k \in 1 .. n : k = 1
                BY <5>3, <7>1
              <7>. QED BY <5>4, <7>2
            <6>2. Cardinality(said) \in Nat /\ Cardinality(said) <= 1
              BY <6>1, AtMostOne
            <6>. QED BY <5>5, <6>2 DEF TextsOf
          <5>6. CASE "Ask" \in task[t].out
            <6>1. said \subseteq {<<l, 1>>, <<l, 2>>}
              <7>1. n <= 2
                BY <5>3, <5>6 DEF TextsOf
              <7>2. \A k \in 1 .. n : k = 1 \/ k = 2
                BY <5>3, <7>1
              <7>. QED BY <5>4, <7>2
            <6>2. Cardinality(said) \in Nat /\ Cardinality(said) <= 2
              BY <6>1, AtMostTwo
            <6>. QED BY <5>6, <6>2 DEF TextsOf
          <5>. QED BY <5>5, <5>6
        <4>. QED BY <4>1, <4>2
      <3>. HIDE DEF shown, said
      <3>4. TextsOf(t) \in Nat
        BY DEF TextsOf
      <3>. QED BY <3>2, <3>3, <3>4
    <2>. QED BY <2>1, <2>2
  <1>. QED BY <1>4, <1>5

----------------------------------------------------------------------------
(* The theorems.                                                           *)

\* Whatever order events, loads and the reader's steps come in, an answer is sent
\* to the very message whose question it answers, as long as no turn is cancelled.
THEOREM AnswersGoHome == Spec => []AnswersGoToTheirQuestion
  <1>1. Init => AllInv /\ AskInv
    BY InitIInv, InitTInv, InitSInv, InitRest, InitSignedOut, InitAsk DEF AllInv
  <1>2. AllInv /\ AskInv /\ [Next]_vars => AskInv'
    BY NextAsk DEF AllInv
  <1>3. AskInv => AnswersGoToTheirQuestion
    BY DEF AskInv, AnswersMatch, AnswersGoToTheirQuestion
  <1>. QED BY Together, <1>1, <1>2, <1>3, PTL DEF Spec

\* What the next turn is built on is there, of the chat at hand, and finished or read
\* back after a lost connection: whatever was resumed, failed or paused meanwhile.
THEOREM ParentIsBuildable ==
  Spec => [](Uncancelled /\ parent_message_id # None
               => Buildable(parent_message_id, chat_uid))
  <1>1. Init => AllInv /\ FreshInv /\ ToldInv /\ ChatInv
    BY InitIInv, InitTInv, InitSInv, InitRest, InitSignedOut, InitFresh, InitTold, InitChat
       DEF AllInv
  <1>2. AllInv /\ FreshInv /\ ToldInv /\ ChatInv /\ [Next]_vars
          => FreshInv' /\ ToldInv' /\ ChatInv'
    BY NextFresh, NextTold, NextChat DEF AllInv
  <1>3. ChatInv => (Uncancelled /\ parent_message_id # None
                      => Buildable(parent_message_id, chat_uid))
    BY DEF ChatInv, ParentMatch
  <1>. QED BY Together, <1>1, <1>2, <1>3, PTL DEF Spec

\* No task had the run of message m read back.
NotReadBack(m) == \A t \in Turns : task[t].msg = m => ~task[t].readback

\* A new turn is parented to a message of this chat that finished: all that breaks it
\* is that this very message was read back after a lost connection.
THEOREM ParentsComplete ==
  Spec => [](NotReadBack(parent_message_id) => ParentCompleted)
  <1>1. (Uncancelled /\ parent_message_id # None
           => Buildable(parent_message_id, chat_uid))
        => (NotReadBack(parent_message_id) => ParentCompleted)
    BY DEF ParentCompleted, NotReadBack, Buildable, Completed, IsOf
  <1>. QED BY ParentIsBuildable, <1>1, PTL

\* However often a turn's connection is lost and its run replayed, the transcript shows
\* one tool line and one answer of it, and no text beyond what it asked and said once,
\* as long as no turn is cancelled.
THEOREM ShownOnce == Spec => []NothingTwice
  <1>1. Init => AllInv /\ FreshInv /\ ToldInv /\ TwiceInv
    BY InitIInv, InitTInv, InitSInv, InitRest, InitSignedOut, InitFresh, InitTold, InitTwice
       DEF AllInv
  <1>2. AllInv /\ FreshInv /\ ToldInv /\ TwiceInv /\ [Next]_vars
          => FreshInv' /\ ToldInv' /\ TwiceInv'
    BY NextFresh, NextTold, NextTwice DEF AllInv
  <1>3. AllInv /\ TwiceInv => NothingTwice
    BY TwiceNothing DEF AllInv
  <1>. QED BY Together, <1>1, <1>2, <1>3, PTL DEF Spec
=============================================================================
