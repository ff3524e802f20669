-------------------------- MODULE ChatTurns_proofs --------------------------
(***************************************************************************)
(* More about the turns of ChatSession, for every bound.  TInv: however a  *)
(* turn is left, its end is reported; SInv: one turn at a time, and every  *)
(* event to its own; RestInv: nothing runs or waits between two turns;     *)
(* SignedOutInv: nothing goes out while nobody is signed in.  Each stands  *)
(* on the ones before it and on IInv of ChatSession_proofs.                *)
(***************************************************************************)
EXTENDS ChatSession_proofs

----------------------------------------------------------------------------
(* Every turn has its end reported.                                        *)

\* A question is open only in its own view, and only between two turns: so
\* answering it, which never asks whether a turn runs, drops none.
QuestionsBetweenTurns ==
  /\ view = "Question" => turn = None
  /\ question # None => view = "Question"

\* What the end of a turn is reported from is that turn's own start.
StartIsTheTurns ==
  IF turn = None THEN turn_started = None
  ELSE turn_started # None /\ turn_started.turn = turn

TInv == QuestionsBetweenTurns /\ StartIsTheTurns /\ StartsAreFinished

LEMMA InitTInv == Init => TInv
  BY DEF Init, TInv, QuestionsBetweenTurns, StartIsTheTurns, StartsAreFinished

\* What moves neither the turn nor what is told of it keeps the invariant.
LEMMA AsideTurns ==
  ASSUME TInv, UNCHANGED <<turn, turn_started, reported>>,
         view' = "Question" => view = "Question", question' # None => view' = "Question"
  PROVE  TInv'
  BY DEF TInv, QuestionsBetweenTurns, StartIsTheTurns, StartsAreFinished

\* A turn starts where every reported turn but none is finished.
LEMMA SpawnTurns ==
  ASSUME IInv, spawned + 1 \in Turns, NEW req, NEW lines, NEW report,
         Len(lines) \in Nat, Spawn(req, lines, report),
         \A t \in report.starts : t = spawned + 1 \/ t \in report.finishes,
         view' # "Question", question' = None
  PROVE  TInv'
  <1>1. /\ turn' = spawned + 1 /\ reported' = report
        /\ turn_started' = [from |-> Len(lines), turn |-> spawned + 1]
    BY DEF Spawn
  <1>2. turn_started' # None /\ turn_started'.turn = turn'
    BY <1>1, ChatAssumption
  <1>3. turn' # None
    BY <1>1, ChatAssumption DEF Turns
  <1>. QED BY <1>1, <1>2, <1>3
           DEF TInv, QuestionsBetweenTurns, StartIsTheTurns, StartsAreFinished

\* Dropping a turn reports its end, from the start recorded for it.
LEMMA AbandonTurns ==
  ASSUME IInv, TInv, AbandonTurn, turn_started' = None,
         view' = "Question" => view = "Question" \/ question' # None,
         question' # None => view' = "Question"
  PROVE  TInv'
  <1>1. turn' = None /\ reported' = AbandonReport
    BY DEF AbandonTurn
  <1>2. \A t \in reported'.starts : t \in reported'.finishes
    <2>1. reported \in Reports /\ \A t \in reported.starts : t # None
      BY ChatAssumption DEF IInv, TypeOK, HistoryTypeOK, Reports, Turns
    <2>2. CASE turn = None
      BY <1>1, <2>1, <2>2 DEF AbandonReport, TInv, StartsAreFinished
    <2>3. CASE turn # None
      <3>1. reported' = [reported EXCEPT !.finishes = ReportFinish]
        BY <1>1, <2>3 DEF AbandonReport
      <3>2. ReportFinish = reported.finishes \cup {turn}
        BY <2>3 DEF ReportFinish, TInv, StartIsTheTurns
      <3>. QED BY <2>1, <3>1, <3>2 DEF TInv, StartsAreFinished, Reports
    <2>. QED BY <2>2, <2>3
  <1>. QED BY <1>1, <1>2
           DEF TInv, QuestionsBetweenTurns, StartIsTheTurns, StartsAreFinished

\* Every way the reader starts a turn is open between two turns only, so the
\* last one's end is reported already.
LEMMA StartingTurns ==
  ASSUME IInv, TInv,
         SendPrompt \/ RetryLast \/ ClickFurther \/ AnswerQuestion
  PROVE  TInv'
  <1>1. TypeOK /\ spawned \in 0 .. MaxTurns /\ messages \in Seq(Lines)
        /\ reported \in Reports
    BY DEF IInv, TypeOK, ChatTypeOK, HistoryTypeOK, Reports
  <1>2. RoomForTurn /\ spawned + 1 \in Turns
    <2>1. RoomForTurn
      BY DEF SendPrompt, RetryLast, ClickFurther, AnswerQuestion
    <2>. QED BY <1>1, <2>1, ChatAssumption DEF RoomForTurn, Turns
  <1>3. Len(messages) \in Nat
    BY <1>1, LenProperties
  <1>4. turn = None
    <2>1. CASE AnswerQuestion
      BY <2>1 DEF AnswerQuestion, TInv, QuestionsBetweenTurns
    <2>2. CASE SendPrompt \/ RetryLast \/ ClickFurther
      BY <2>2 DEF SendPrompt, RetryLast, ClickFurther, IInv, BusyIffTurn
    <2>. QED BY <2>1, <2>2
  <1>5. \A t \in reported.starts : t \in reported.finishes
    BY <1>1, <1>4, ChatAssumption DEF TInv, StartsAreFinished, Reports, Turns
  <1>6. /\ Started.starts = reported.starts \cup {spawned + 1}
        /\ Started.finishes = reported.finishes
    BY <1>1 DEF Started, Reports
  <1>7. CASE SendPrompt \/ RetryLast
    <2>1. /\ view = "Chat" /\ UNCHANGED ui
          /\ Spawn(BuildRequest(pending_interrupt, parent_message_id), messages, Started)
      BY <1>7 DEF SendPrompt, RetryLast, StartTurn
    <2>2. view' # "Question" /\ question' = None
      BY <2>1 DEF ui, TInv, QuestionsBetweenTurns
    <2>. QED BY <1>2, <1>3, <1>5, <1>6, <2>1, <2>2, SpawnTurns
  <1>8. CASE ClickFurther
    <2>1. /\ view = "Chat" /\ UNCHANGED ui
          /\ Spawn(BuildRequest(pending_interrupt, parent_message_id), messages, reported)
      BY <1>8 DEF ClickFurther, ui
    <2>2. view' # "Question" /\ question' = None
      BY <2>1 DEF ui, TInv, QuestionsBetweenTurns
    <2>. QED BY <1>2, <1>3, <1>5, <2>1, <2>2, SpawnTurns
  <1>9. CASE AnswerQuestion
    <2>1. view' = "Chat" /\ question' = None
      BY <1>9 DEF AnswerQuestion
    <2>2. CASE chat_uid # None /\ message_id # None
      <3>. DEFINE req == [kind |-> "Continue", chat |-> chat_uid, msg |-> message_id,
                          parent |-> None, asked |-> question.msg, account |-> account]
      <3>1. Spawn(req, messages, Started)
        BY <1>9, <2>2 DEF AnswerQuestion
      <3>. HIDE DEF req
      <3>. QED BY <1>2, <1>3, <1>5, <1>6, <2>1, <3>1, SpawnTurns
    <2>3. CASE ~(chat_uid # None /\ message_id # None)
      <3>1. UNCHANGED <<turn, turn_started, reported>>
        BY <1>9, <2>3 DEF AnswerQuestion, transcript
      <3>. QED BY <2>1, <3>1, AsideTurns
    <2>. QED BY <2>2, <2>3
  <1>. QED BY <1>7, <1>8, <1>9

\* Every way out of a turn goes through abandon_turn.
LEMMA LeavingTurns ==
  ASSUME IInv, TInv, Cancel \/ SignOut \/ NewSession \/ ReceiveLoad
  PROVE  TInv'
  <1>1. CASE Cancel \/ SignOut
    <2>1. AbandonTurn /\ turn_started' = None /\ UNCHANGED ui
      BY <1>1 DEF Cancel, SignOut, CancelTurn
    <2>2. view' = view /\ question' = question
      BY <2>1 DEF ui
    <2>. QED BY <2>1, <2>2, AbandonTurns DEF TInv, QuestionsBetweenTurns
  <1>2. CASE NewSession
    <2>1. AbandonTurn /\ turn_started' = None /\ view' = "Chat" /\ question' = None
      BY <1>2 DEF NewSession, ClearTurnState, SwitchTo
    <2>. QED BY <2>1, AbandonTurns
  <1>3. CASE ReceiveLoad /\ Head(loaded) = None
    <2>1. UNCHANGED <<chat, ui, turn, history>>
      BY <1>3 DEF ReceiveLoad
    <2>2. UNCHANGED <<turn, turn_started, reported, view, question>>
      BY <2>1 DEF chat, transcript, ui, history
    <2>. QED BY <2>2, AsideTurns DEF TInv, QuestionsBetweenTurns
  <1>4. CASE ReceiveLoad /\ Head(loaded) # None
    <2>. DEFINE l == Head(loaded)
    <2>1. /\ AbandonTurn /\ turn_started' = None
          /\ IF l.pending # None /\ FullySelectable(l.pending)
             THEN question' = l.pending /\ view' = "Question"
             ELSE SwitchTo("Chat")
      BY <1>4 DEF ReceiveLoad, ClearTurnState
    <2>. HIDE DEF l
    <2>2. \/ view' = "Question" /\ question' # None
          \/ view' = "Chat" /\ question' = None
      BY <2>1 DEF SwitchTo
    <2>. QED BY <2>1, <2>2, AbandonTurns
  <1>. QED BY <1>1, <1>2, <1>3, <1>4

\* The end of a turn is reported, and the queue goes out as the next one.
LEMMA FinishingTurns ==
  ASSUME IInv, TInv, ReceiveTurnFinished
  PROVE  TInv'
  <1>. DEFINE failed == Head(events).error \/ turn_error
              pending == IF failed THEN None ELSE pending_interrupt
              parent == FinishedParent(failed)
              opens == pending # None /\ FullySelectable(pending)
              asked == IF opens THEN pending ELSE question
              shown == IF opens THEN "Question" ELSE view
              waits == asked # None /\ HasConfirmation(asked)
              ended == [reported EXCEPT !.finishes = ReportFinish]
              queue == TakeQueued(waits)
  <1>1. IF queue = <<>>
        THEN /\ turn_started' = None /\ turn' = None /\ question' = asked
             /\ view' = shown /\ reported' = ended
        ELSE /\ question' = None
             /\ view' = IF shown = "Question" THEN "Chat" ELSE shown
             /\ Spawn(BuildRequest(pending, parent), FinishedLines(failed),
                      [ended EXCEPT !.starts = @ \cup {spawned + 1}])
    BY DEF ReceiveTurnFinished
  <1>2. /\ spawned \in 0 .. MaxTurns /\ reported \in Reports
        /\ failed \in BOOLEAN
    <2>1. TypeOK
      BY DEF IInv
    <2>2. Head(events) \in GoodEvents
      BY ReceiveStep DEF ReceiveTurnFinished
    <2>. QED BY <2>1, <2>2 DEF GoodEvents, Events, TypeOK, ChatTypeOK, HistoryTypeOK, Reports
  <1>3. asked # None => shown = "Question"
    BY DEF TInv, QuestionsBetweenTurns
  <1>4. /\ ended.starts = reported.starts
        /\ \A t \in reported.starts : t \in ended.finishes
    <2>1. ended.starts = reported.starts /\ ended.finishes = ReportFinish
      BY <1>2 DEF Reports
    <2>2. CASE turn = None
      <3>1. ReportFinish = reported.finishes
        BY <2>2 DEF ReportFinish, TInv, StartIsTheTurns
      <3>2. \A t \in reported.starts : t # None
        BY <1>2, ChatAssumption DEF Reports, Turns
      <3>. QED BY <2>1, <2>2, <3>1, <3>2 DEF TInv, StartsAreFinished
    <2>3. CASE turn # None
      <3>1. ReportFinish = reported.finishes \cup {turn}
        BY <2>3 DEF ReportFinish, TInv, StartIsTheTurns
      <3>. QED BY <2>1, <3>1 DEF TInv, StartsAreFinished
    <2>. QED BY <2>2, <2>3
  <1>5. CASE queue = <<>>
    <2>. HIDE DEF queue, asked, shown, ended
    <2>1. /\ turn_started' = None /\ turn' = None /\ question' = asked
          /\ view' = shown /\ reported' = ended
      BY <1>1, <1>5
    <2>. QED BY <1>3, <1>4, <2>1
             DEF TInv, QuestionsBetweenTurns, StartIsTheTurns, StartsAreFinished
  <1>6. CASE queue # <<>>
    <2>. DEFINE next == [ended EXCEPT !.starts = @ \cup {spawned + 1}]
    <2>1. spawned + 1 \in Turns
      BY <1>2, <1>6, ChatAssumption DEF TakeQueued, IInv, QueueHasRoom, Turns
    <2>2. Len(FinishedLines(failed)) \in Nat
      <3>1. FinishedLines(failed) \in Seq(LinesOf(ThreadTurns))
        BY <1>2, FinishedLinesOf DEF IInv, Transcript
      <3>. QED BY <3>1, LenProperties
    <2>3. next.starts = reported.starts \cup {spawned + 1} /\ next.finishes = ended.finishes
      BY <1>2 DEF Reports
    <2>4. question' = None /\ view' # "Question"
          /\ Spawn(BuildRequest(pending, parent), FinishedLines(failed), next)
      BY <1>1, <1>6
    <2>. HIDE DEF next, ended, pending, parent, failed
    <2>. QED BY <1>4, <2>1, <2>2, <2>3, <2>4, SpawnTurns
  <1>. QED BY <1>5, <1>6

\* The rest of the events change what a turn shows, not which turn it is.
LEMMA OtherTurns ==
  ASSUME TInv,
         \/ QueuePrompt \/ Navigate \/ SignIn \/ RequestLoad \/ FinishLoad
         \/ DropStale \/ MidTurn
         \/ \E t \in Turns : TurnTask(t) \/ Disconnect(t)
         \/ \E m \in Msgs : Settle(m)
         \/ UNCHANGED vars
  PROVE  TInv'
  <1>1. CASE Navigate
    <2>1. UNCHANGED <<turn, turn_started, reported>>
      BY <1>1 DEF Navigate, chat, transcript, history
    <2>2. view' # "Question" /\ question' = None
      BY <1>1 DEF Navigate, SwitchTo
    <2>. QED BY <2>1, <2>2, AsideTurns
  <1>2. CASE ~Navigate
    <2>1. UNCHANGED <<turn, turn_started, reported, view, question>>
      BY <1>2 DEF QueuePrompt, SignIn, RequestLoad, FinishLoad, DropStale, MidTurn,
            TurnTask, Accept, Stream, Send, End, AbortLands, Disconnect, Settle,
            vars, chat, transcript, ui, history
    <2>. QED BY <2>1, AsideTurns DEF TInv, QuestionsBetweenTurns
  <1>. QED BY <1>1, <1>2

\* Whatever happens, in any order, the invariant is kept.
LEMMA NextTInv == IInv /\ TInv /\ [Next]_vars => TInv'
  <1>. SUFFICES ASSUME IInv, TInv, [Next]_vars PROVE TInv'
    OBVIOUS
  <1>1. CASE Reader
    BY <1>1, StartingTurns, LeavingTurns, OtherTurns DEF Reader
  <1>2. CASE Loop
    <2>1. CASE ReceiveTurnFinished \/ ReceiveLoad \/ DropStale
      BY <2>1, FinishingTurns, LeavingTurns, OtherTurns
    <2>2. CASE ~(ReceiveTurnFinished \/ ReceiveLoad \/ DropStale)
      <3>1. MidTurn
        BY <1>2, <2>2 DEF Loop, ReceiveTurnStarted, ReceiveDelta, ReceiveToolStarted,
              ReceiveToolFinished, ReceiveMeta, ReceiveInterrupt, ReceiveTurnError,
              ReceiveStreamInterrupted
      <3>. QED BY <3>1, OtherTurns
    <2>. QED BY <2>1, <2>2
  <1>. QED BY <1>1, <1>2, OtherTurns DEF Next

----------------------------------------------------------------------------
(* One turn at a time.  Of a session without a cancel or a sign-out: every *)
(* other way out of a turn moves the gate.                                 *)

\* The events on their way that the gate will let through.
Coming == {i \in 1 .. Len(events) : Current(events[i])}

\* Whoever may still send through the gate is the loop's turn, what is on its way
\* comes from it, and nothing comes after its end.
OneTurn ==
  /\ \A t \in Turns : Running(t) /\ task[t].generation = generation => turn = t
  /\ \A t \in Turns : task[t].st = "live" => task[t].generation = generation
  /\ \A i \in Coming : events[i].turn = turn
  /\ \A i \in Coming : events[i].kind = "TurnFinished" =>
       task[turn].st = "ended" /\ \A j \in Coming : j <= i

\* The gate only moves forward.
GenerationsPast == \A t \in Turns : task[t].generation <= generation

SInv == GenerationsPast /\ (Uncancelled => OneTurn)

LEMMA InitSInv == Init => SInv
  <1>. SUFFICES ASSUME Init PROVE SInv
    OBVIOUS
  <1>1. /\ events = <<>> /\ generation = 0
        /\ \A t \in Turns : task[t].st = "idle" /\ task[t].generation = 0
    BY DEF Init
  <1>2. Coming = {}
    BY <1>1 DEF Coming
  <1>. QED BY <1>1, <1>2 DEF SInv, GenerationsPast, OneTurn, Running

LEMMA OneTurnTypes ==
  ASSUME IInv
  PROVE  /\ task \in [Turns -> Tasks] /\ generation \in Nat
         /\ \A t \in Turns : task[t].generation \in Nat
         /\ events \in Seq(GoodEvents) /\ Len(events) \in Nat
         /\ \A i \in 1 .. Len(events) :
              /\ events[i] \in GoodEvents /\ events[i].turn \in Turns
              /\ events[i].generation = task[events[i].turn].generation
         /\ turn \in Turns \cup {None} /\ None \notin Turns
         /\ spawned \in 0 .. MaxTurns
  <1>1. /\ task \in [Turns -> Tasks] /\ generation \in Nat
        /\ events \in Seq(GoodEvents) /\ turn \in Turns \cup {None}
        /\ spawned \in 0 .. MaxTurns
    BY DEF IInv, TypeOK, TasksTypeOK, ChatTypeOK, UiTypeOK, HistoryTypeOK,
           EventsOfTasks
  <1>2. Len(events) \in Nat /\ \A i \in 1 .. Len(events) : events[i] \in GoodEvents
    BY <1>1, LenProperties, ElementOfSeq
  <1>3. \A e \in GoodEvents : e.turn \in Turns /\ e.generation = task[e.turn].generation
    BY DEF GoodEvents, Events
  <1>4. \A t \in Turns : task[t].generation \in Nat
    BY <1>1 DEF Tasks
  <1>5. None \notin Turns
    BY ChatAssumption DEF Turns
  <1>. QED BY <1>1, <1>2, <1>3, <1>4, <1>5

\* Steps that take at most the first event and send none.
LEMMA TakingStep ==
  ASSUME IInv, SInv, Uncancelled' => Uncancelled, UNCHANGED <<generation, turn>>,
         \A u \in Turns : /\ task'[u].generation = task[u].generation
                          /\ task'[u].st = task[u].st \/ task'[u].st = "ended",
         NEW k \in {0, 1},
         \A i \in Coming' : i \in Nat /\ i + k \in Coming /\ events'[i] = events[i + k]
  PROVE  SInv'
  <1>1. GenerationsPast'
    BY DEF SInv, GenerationsPast
  <1>. SUFFICES ASSUME Uncancelled' PROVE OneTurn'
    BY <1>1 DEF SInv
  <1>2. OneTurn
    BY DEF SInv
  <1>3. \A t \in Turns : (Running(t))' => Running(t)
    BY DEF Running
  <1>4. ASSUME NEW i \in Coming', events'[i].kind = "TurnFinished"
        PROVE  task'[turn].st = "ended" /\ \A j \in Coming' : j <= i
    <2>1. i + k \in Coming /\ events[i + k].kind = "TurnFinished"
          /\ events[i + k].turn = turn
      BY <1>2, <1>4 DEF OneTurn
    <2>2. turn \in Turns
      BY <2>1, OneTurnTypes DEF Coming
    <2>3. task[turn].st = "ended" /\ \A j \in Coming : j <= i + k
      BY <1>2, <2>1 DEF OneTurn
    <2>4. ASSUME NEW j \in Coming' PROVE j <= i
      <3>1. j + k <= i + k /\ i \in Nat /\ j \in Nat
        BY <1>4, <2>3, <2>4
      <3>. QED BY <3>1
    <2>. QED BY <2>2, <2>3, <2>4
  <1>. QED BY <1>2, <1>3, <1>4 DEF OneTurn

LEMMA SameEvents ==
  ASSUME IInv, SInv, Uncancelled' => Uncancelled,
         UNCHANGED <<generation, turn, events>>,
         \A u \in Turns : /\ task'[u].generation = task[u].generation
                          /\ task'[u].st = task[u].st \/ task'[u].st = "ended"
  PROVE  SInv'
  <1>1. \A i \in Coming' : i \in Nat /\ i + 0 \in Coming /\ events'[i] = events[i + 0]
    BY DEF Coming, Current
  <1>. QED BY <1>1, TakingStep

\* Taking the first event shifts the others.
LEMMA TailComing ==
  ASSUME IInv, events # <<>>, events' = Tail(events), UNCHANGED generation
  PROVE  \A i \in Coming' : i \in Nat /\ i + 1 \in Coming /\ events'[i] = events[i + 1]
  <1>1. Len(events') = Len(events) - 1
        /\ \A i \in 1 .. Len(events') : events'[i] = events[i + 1]
    BY OneTurnTypes, HeadTailProperties
  <1>. QED BY <1>1, OneTurnTypes DEF Coming, Current

LEMMA TakingOne ==
  ASSUME IInv, SInv, Uncancelled' => Uncancelled,
         events # <<>>, events' = Tail(events), UNCHANGED <<generation, turn, task>>
  PROVE  SInv'
  BY TailComing, TakingStep

\* A running task sends; its end, if it is among what it sends, comes alone.
LEMMA SendingTurn ==
  ASSUME IInv, SInv, Uncancelled' => Uncancelled, UNCHANGED <<generation, turn>>,
         NEW t \in Turns, Running(t), NEW evs \in Seq(Events),
         events' = events \o evs,
         \A i \in 1 .. Len(evs) :
            /\ evs[i].turn = t /\ evs[i].generation = task[t].generation
            /\ evs[i].kind = "TurnFinished" => i = Len(evs) /\ task'[t].st = "ended",
         \A u \in Turns : /\ task'[u].generation = task[u].generation
                          /\ task'[u].st = task[u].st \/ task'[u].st = "ended"
  PROVE  SInv'
  <1>1. GenerationsPast'
    BY DEF SInv, GenerationsPast
  <1>. SUFFICES ASSUME Uncancelled' PROVE OneTurn'
    BY <1>1 DEF SInv
  <1>2. OneTurn
    BY DEF SInv
  <1>. DEFINE n == Len(events)
  <1>. events \in Seq(Events)
    BY DEF IInv, TypeOK, ChannelsTypeOK
  <1>3. /\ n \in Nat /\ Len(evs) \in Nat /\ Len(events') = n + Len(evs)
        /\ \A i \in 1 .. n : events'[i] = events[i]
        /\ \A i \in n + 1 .. n + Len(evs) : events'[i] = evs[i - n] /\ i - n \in 1 .. Len(evs)
    <2>1. n \in Nat /\ Len(evs) \in Nat
      BY LenProperties
    <2>2. Len(events') = n + Len(evs)
          /\ \A i \in 1 .. n + Len(evs) : events'[i] = IF i <= n THEN events[i] ELSE evs[i - n]
      BY ConcatProperties
    <2>. QED BY <2>1, <2>2
  <1>4. \A i \in Coming' : i \in Nat /\ (i <= n => i \in Coming /\ events'[i] = events[i])
    BY <1>3 DEF Coming, Current
  <1>5. \A i \in Coming' : i > n =>
          /\ events'[i] = evs[i - n] /\ i - n \in 1 .. Len(evs) /\ i <= n + Len(evs)
          /\ task[t].generation = generation
    <2>. SUFFICES ASSUME NEW i \in Coming', i > n
                  PROVE  /\ events'[i] = evs[i - n] /\ i - n \in 1 .. Len(evs)
                         /\ i <= n + Len(evs) /\ task[t].generation = generation
      OBVIOUS
    <2>1. i \in n + 1 .. n + Len(evs)
      BY <1>3 DEF Coming
    <2>2. events'[i] = evs[i - n] /\ i - n \in 1 .. Len(evs)
      BY <1>3, <2>1
    <2>3. evs[i - n].generation = generation
      BY <2>2 DEF Coming, Current
    <2>. QED BY <1>3, <2>1, <2>2, <2>3
  <1>6. task[t].generation = generation =>
          turn = t /\ \A i \in Coming : events[i].kind # "TurnFinished"
    BY <1>2 DEF OneTurn, Running
  <1>7. \A u \in Turns : (Running(u))' => Running(u)
    BY DEF Running
  <1>8. ASSUME NEW i \in Coming' PROVE events'[i].turn = turn
    <2>1. CASE i <= n
      BY <1>2, <1>4, <2>1 DEF OneTurn
    <2>2. CASE i > n
      <3>1. events'[i] = evs[i - n] /\ i - n \in 1 .. Len(evs) /\ turn = t
        BY <1>5, <1>6, <2>2
      <3>2. \A j \in 1 .. Len(evs) : evs[j].turn = t
        OBVIOUS
      <3>3. evs[i - n].turn = t
        BY <3>1, <3>2
      <3>. QED BY <3>1, <3>3
    <2>3. i <= n \/ i > n
      BY <1>3, <1>4
    <2>. QED BY <2>1, <2>2, <2>3
  <1>9. ASSUME NEW i \in Coming', events'[i].kind = "TurnFinished"
        PROVE  task'[turn].st = "ended" /\ \A j \in Coming' : j <= i
    <2>1. CASE i <= n
      <3>1. i \in Coming /\ events[i].kind = "TurnFinished"
        BY <1>4, <1>9, <2>1
      <3>2. events[i].turn = turn /\ task[turn].st = "ended" /\ \A j \in Coming : j <= i
        BY <1>2, <3>1 DEF OneTurn
      <3>3. turn \in Turns
        BY <3>1, <3>2, OneTurnTypes DEF Coming
      <3>4. task[t].generation # generation
        BY <1>6, <3>1
      <3>5. \A j \in Coming' : j <= n
        BY <1>3, <1>4, <1>5, <3>4
      <3>. QED BY <1>4, <3>2, <3>3, <3>5
    <2>2. CASE i > n
      <3>1. i - n = Len(evs) /\ task'[t].st = "ended" /\ turn = t
        BY <1>5, <1>6, <1>9, <2>2
      <3>2. ASSUME NEW j \in Coming' PROVE j <= i
        <4>1. j \in Nat /\ i \in Nat
          BY <1>4
        <4>2. CASE j <= n
          BY <1>3, <2>2, <4>1, <4>2
        <4>3. CASE j > n
          <5>1. j <= n + Len(evs)
            BY <1>5, <4>3
          <5>. QED BY <1>3, <3>1, <4>1, <5>1
        <4>. QED BY <1>3, <4>1, <4>2, <4>3
      <3>. QED BY <3>1, <3>2
    <2>3. n \in Nat /\ i \in Nat
      BY <1>3, <1>4
    <2>. QED BY <2>1, <2>2, <2>3
  <1>. QED BY <1>2, <1>7, <1>8, <1>9 DEF OneTurn

LEMMA SentEvent ==
  ASSUME IInv, NEW t \in Turns, NEW kind \in Kinds, NEW ask \in Asks \cup {None},
         NEW error \in BOOLEAN
  PROVE  /\ Event(t, kind, ask, error) \in Events
         /\ Event(t, kind, ask, error).turn = t
         /\ Event(t, kind, ask, error).generation = task[t].generation
         /\ Event(t, kind, ask, error).kind = kind
  BY OneTurnTypes DEF Event, Events

\* Two plain events sent at once.
LEMMA PlainPair ==
  ASSUME IInv, NEW t \in Turns, NEW k1 \in Kinds, NEW k2 \in Kinds,
         NEW evs, evs = <<Plain(t, k1), Plain(t, k2)>>
  PROVE  /\ evs \in Seq(Events) /\ Len(evs) = 2 /\ 1 .. Len(evs) = {1, 2}
         /\ evs[1].kind = k1 /\ evs[2].kind = k2
         /\ \A i \in 1 .. Len(evs) : /\ evs[i].turn = t
                                     /\ evs[i].generation = task[t].generation
  <1>. DEFINE no == FALSE
              d == Event(t, k1, None, no)
              q == Event(t, k2, None, no)
  <1>1. no \in BOOLEAN /\ None \in Asks \cup {None} /\ evs = <<d, q>>
    BY DEF Plain
  <1>. HIDE DEF no
  <1>2. /\ d \in Events /\ d.turn = t /\ d.generation = task[t].generation /\ d.kind = k1
        /\ q \in Events /\ q.turn = t /\ q.generation = task[t].generation /\ q.kind = k2
    BY <1>1, SentEvent
  <1>. HIDE DEF d, q
  <1>3. /\ evs \in Seq(Events) /\ Len(evs) = 2 /\ 1 .. Len(evs) = {1, 2}
        /\ evs[1] = d /\ evs[2] = q
    BY <1>1, <1>2
  <1>. QED BY <1>2, <1>3

\* One event sent.
LEMMA SendingOne ==
  ASSUME IInv, SInv, Uncancelled' => Uncancelled, UNCHANGED <<generation, turn>>,
         NEW t \in Turns, Running(t), NEW kind \in Kinds,
         NEW error \in BOOLEAN, events' = events \o <<Event(t, kind, None, error)>>,
         kind = "TurnFinished" => task'[t].st = "ended",
         \A u \in Turns : /\ task'[u].generation = task[u].generation
                          /\ task'[u].st = task[u].st \/ task'[u].st = "ended"
  PROVE  SInv'
  <1>. DEFINE e == Event(t, kind, None, error)
  <1>1. e \in Events /\ e.turn = t /\ e.generation = task[t].generation /\ e.kind = kind
    BY SentEvent
  <1>. HIDE DEF e
  <1>2. <<e>> \in Seq(Events) /\ Len(<<e>>) = 1
        /\ \A i \in 1 .. Len(<<e>>) : <<e>>[i] = e /\ i = Len(<<e>>)
    BY <1>1
  <1>3. events' = events \o <<e>>
    BY DEF e
  <1>. QED BY <1>1, <1>2, <1>3, SendingTurn

\* What a connection delivers neither starts nor ends a task.
LEMMA StreamTurn ==
  ASSUME IInv, SInv, NEW t \in Turns, Stream(t)
  PROVE  SInv'
  <1>1. Running(t) /\ UNCHANGED <<server, used>>
    BY DEF Stream
  <1>2. Uncancelled' => Uncancelled
    BY <1>1 DEF Uncancelled
  <1>3. ASSUME NEW evs, NEW what, Send(t, evs, what)
        PROVE  /\ UNCHANGED <<generation, turn>> /\ events' = events \o evs
               /\ \A u \in Turns : /\ task'[u].generation = task[u].generation
                                   /\ task'[u].st = task[u].st
    BY <1>3, OneTurnTypes DEF Send, chat, Tasks
  <1>4. ASSUME NEW kind \in Kinds \ {"TurnFinished"}, NEW what,
               Send(t, <<Plain(t, kind)>>, what)
        PROVE  SInv'
    <2>1. events' = events \o <<Event(t, kind, None, FALSE)>>
      BY <1>3, <1>4 DEF Plain
    <2>2. UNCHANGED <<generation, turn>>
          /\ \A u \in Turns : /\ task'[u].generation = task[u].generation
                              /\ task'[u].st = task[u].st
      BY <1>3, <1>4
    <2>. QED BY <1>1, <1>2, <1>4, <2>1, <2>2, SendingOne
  <1>5. ASSUME Send(t, <<Plain(t, "Delta"),
                        Event(t, "Interrupt", server[task[t].msg].ask, FALSE)>>, {"Ask"}),
               task[t].msg # None
        PROVE  SInv'
    <2>. DEFINE d == Plain(t, "Delta")
                q == Event(t, "Interrupt", server[task[t].msg].ask, FALSE)
    <2>1. server[task[t].msg].ask \in Asks \cup {None}
      <3>1. task[t].msg \in Msgs
        BY <1>5, OneTurnTypes DEF Tasks
      <3>. QED BY <3>1, AsideTypes DEF Messages
    <2>2. /\ d \in Events /\ d.turn = t /\ d.generation = task[t].generation
          /\ d.kind # "TurnFinished"
      <3>. DEFINE kind == "Delta"
      <3>1. kind \in Kinds
        BY DEF Kinds
      <3>2. d = Event(t, kind, None, FALSE)
        BY DEF Plain
      <3>3. kind # "TurnFinished" /\ None \in Asks \cup {None}
        OBVIOUS
      <3>. HIDE DEF kind, d
      <3>. QED BY <3>1, <3>2, <3>3, SentEvent
    <2>3. /\ q \in Events /\ q.turn = t /\ q.generation = task[t].generation
          /\ q.kind # "TurnFinished"
      <3>. DEFINE kind == "Interrupt"
                  ask == server[task[t].msg].ask
      <3>1. kind \in Kinds
        BY DEF Kinds
      <3>2. q = Event(t, kind, ask, FALSE)
        OBVIOUS
      <3>3. kind # "TurnFinished"
        OBVIOUS
      <3>. HIDE DEF kind, q
      <3>. QED BY <2>1, <3>1, <3>2, <3>3, SentEvent
    <2>4. Send(t, <<d, q>>, {"Ask"})
      BY <1>5
    <2>. HIDE DEF d, q
    <2>5. <<d, q>> \in Seq(Events) /\ Len(<<d, q>>) = 2
          /\ \A i \in 1 .. Len(<<d, q>>) : <<d, q>>[i] \in {d, q}
      BY <2>2, <2>3
    <2>6. \A i \in 1 .. Len(<<d, q>>) :
             /\ <<d, q>>[i].turn = t /\ <<d, q>>[i].generation = task[t].generation
             /\ <<d, q>>[i].kind # "TurnFinished"
      BY <2>2, <2>3, <2>5
    <2>. QED BY <1>1, <1>2, <1>3, <2>4, <2>5, <2>6, SendingTurn
  <1>6. ASSUME Send(t, <<Plain(t, "ToolFinished"), Plain(t, "TurnError")>>, {"ToolDone"})
        PROVE  SInv'
    <2>. DEFINE k1 == "ToolFinished"
                k2 == "TurnError"
                evs == <<Plain(t, k1), Plain(t, k2)>>
    <2>1. /\ k1 \in Kinds /\ k2 \in Kinds /\ k1 # "TurnFinished" /\ k2 # "TurnFinished"
      BY DEF Kinds
    <2>2. Send(t, evs, {"ToolDone"}) /\ evs = <<Plain(t, k1), Plain(t, k2)>>
      BY <1>6
    <2>. HIDE DEF k1, k2, evs
    <2>3. /\ evs \in Seq(Events)
          /\ \A i \in 1 .. Len(evs) : /\ evs[i].turn = t
                                      /\ evs[i].generation = task[t].generation
                                      /\ evs[i].kind # "TurnFinished"
      BY <2>1, <2>2, PlainPair
    <2>. QED BY <1>1, <1>2, <1>3, <2>2, <2>3, SendingTurn
  <1>. QED BY <1>4, <1>5, <1>6 DEF Stream, Kinds

LEMMA SentTurn ==
  ASSUME IInv, SInv, NEW t \in Turns, Accept(t) \/ Disconnect(t) \/ End(t)
  PROVE  SInv'
  <1>1. /\ Running(t) /\ UNCHANGED <<generation, turn>>
        /\ Uncancelled' => Uncancelled
    BY AsideTypes DEF Accept, Disconnect, End, chat, Spend, Uncancelled, Budgets
  <1>2. ASSUME NEW e \in Events PROVE Append(events, e) = events \o <<e>>
    BY <1>2, AppendIsConcat DEF IInv, TypeOK, ChannelsTypeOK
  <1>3. ASSUME NEW kind \in Kinds PROVE Plain(t, kind) \in Events
    BY <1>3, SentEvent DEF Plain
  <1>4. CASE Accept(t)
    <2>1. events' = events \o <<Plain(t, "TurnStarted")>>
      BY <1>2, <1>3, <1>4 DEF Accept, Kinds
    <2>2. \A u \in Turns : /\ task'[u].generation = task[u].generation
                           /\ task'[u].st = task[u].st
      BY <1>4, OneTurnTypes DEF Accept, Tasks
    <2>. QED BY <1>1, <2>1, <2>2, SendingOne DEF Plain, Kinds
  <1>5. CASE Disconnect(t)
    <2>1. events' = events \o <<Plain(t, "StreamInterrupted")>>
      BY <1>2, <1>3, <1>5 DEF Disconnect, Kinds
    <2>2. \A u \in Turns : /\ task'[u].generation = task[u].generation
                           /\ task'[u].st = task[u].st
      BY <1>5, OneTurnTypes DEF Disconnect, Tasks
    <2>. QED BY <1>1, <2>1, <2>2, SendingOne DEF Plain, Kinds
  <1>6. CASE End(t)
    <2>1. PICK error \in BOOLEAN : events' = events \o LastEvent(t, error)
      BY <1>6 DEF End
    <2>2. task'[t].st = "ended"
          /\ \A u \in Turns : /\ task'[u].generation = task[u].generation
                              /\ task'[u].st = task[u].st \/ task'[u].st = "ended"
      BY <1>6, OneTurnTypes DEF End, Tasks
    <2>. QED BY <1>1, <2>1, <2>2, SendingOne DEF LastEvent, Kinds
  <1>. QED BY <1>4, <1>5, <1>6

\* A turn starts when nothing can come through the gate any more.
LEMMA SpawnOne ==
  ASSUME IInv, SInv, Uncancelled' => Uncancelled, UNCHANGED generation,
         spawned + 1 \in Turns, NEW req, NEW lines, NEW report,
         Spawn(req, lines, report),
         Uncancelled => /\ Coming' = {}
                        /\ \A t \in Turns : Running(t) => task[t].generation # generation
  PROVE  SInv'
  <1>. DEFINE t == spawned + 1
              new == [st |-> "live", generation |-> generation, thread |-> thread,
                      msg |-> None, out |-> {}, readback |-> FALSE]
  <1>1. turn' = t /\ task' = [task EXCEPT ![t] = new]
    BY DEF Spawn
  <1>2. new.st = "live" /\ new.generation = generation
    OBVIOUS
  <1>. HIDE DEF new
  <1>3. task'[t] = new /\ \A u \in Turns : u # t => task'[u] = task[u]
    BY <1>1, OneTurnTypes
  <1>4. GenerationsPast'
    BY <1>2, <1>3, OneTurnTypes DEF SInv, GenerationsPast
  <1>. SUFFICES ASSUME Uncancelled' PROVE OneTurn'
    BY <1>4 DEF SInv
  <1>. HIDE DEF t
  <1>5. OneTurn /\ Coming' = {}
        /\ \A u \in Turns : Running(u) => task[u].generation # generation
    BY DEF SInv
  <1>6. \A u \in Turns : u # t => (Running(u))' = Running(u)
    BY <1>3 DEF Running
  <1>7. \A u \in Turns : (Running(u))' /\ task'[u].generation = generation => turn' = u
    BY <1>1, <1>3, <1>5, <1>6
  <1>8. \A u \in Turns : task'[u].st = "live" => task'[u].generation = generation
    BY <1>2, <1>3, <1>5 DEF OneTurn
  <1>. QED BY <1>5, <1>7, <1>8 DEF OneTurn

\* While no turn runs nothing can come.
LEMMA RestIsQuiet ==
  ASSUME IInv, OneTurn, turn = None
  PROVE  Coming = {} /\ \A t \in Turns : Running(t) => task[t].generation # generation
  BY OneTurnTypes DEF OneTurn, Coming

\* Leaving the conversation moves the gate past everything on its way.
LEMMA LeaveOne ==
  ASSUME IInv, SInv, Uncancelled' => Uncancelled,
         AbandonTurn, BumpGeneration, UNCHANGED events
  PROVE  SInv'
  <1>1. generation' = generation + 1 /\ turn' = None /\ task' = Aborted
    BY DEF AbandonTurn, BumpGeneration
  <1>2. \A t \in Turns : /\ task'[t].generation = task[t].generation
                         /\ task'[t].generation <= generation
                         /\ task'[t].generation \in Nat
    BY OneTurnTypes, AbandonStep DEF IInv, SInv, GenerationsPast
  <1>3. GenerationsPast'
    BY <1>1, <1>2, OneTurnTypes DEF GenerationsPast
  <1>. SUFFICES ASSUME Uncancelled' PROVE OneTurn'
    BY <1>3 DEF SInv
  <1>4. OneTurn
    BY DEF SInv
  <1>5. Coming' = {}
    <2>1. \A t \in Turns : task[t].generation # generation + 1
      BY <1>2, OneTurnTypes
    <2>2. \A i \in 1 .. Len(events) : events[i].generation # generation + 1
      BY <2>1, OneTurnTypes
    <2>. QED BY <1>1, <2>2 DEF Coming, Current
  <1>6. \A t \in Turns : task'[t].generation # generation'
    BY <1>1, <1>2, OneTurnTypes
  <1>7. \A t \in Turns : task'[t].st # "live"
    <2>. SUFFICES ASSUME NEW t \in Turns, task'[t].st = "live" PROVE FALSE
      OBVIOUS
    <2>1. CASE turn = None \/ task[turn].st # "live"
      <3>1. task[t].st = "live"
        BY <1>1, <2>1 DEF Aborted
      <3>2. turn = t
        BY <1>4, <3>1 DEF OneTurn, Running
      <3>. QED BY <2>1, <3>1, <3>2, OneTurnTypes
    <2>2. CASE turn # None /\ task[turn].st = "live"
      <3>1. task' = [task EXCEPT ![turn].st = "aborting"] /\ turn \in Turns
        BY <1>1, <2>2, OneTurnTypes DEF Aborted
      <3>2. t # turn
        BY <3>1, OneTurnTypes DEF Tasks
      <3>3. task[t].st = "live"
        BY <3>1, <3>2, OneTurnTypes
      <3>. QED BY <1>4, <3>2, <3>3 DEF OneTurn, Running
    <2>. QED BY <2>1, <2>2
  <1>. QED BY <1>5, <1>6, <1>7 DEF OneTurn

\* The end of a turn is the last of it: nothing is left to come.
LEMMA EndIsLast ==
  ASSUME IInv, OneTurn, Receive("TurnFinished"), UNCHANGED generation
  PROVE  /\ turn = Head(events).turn /\ turn \in Turns
         /\ Coming' = {}
         /\ \A t \in Turns : Running(t) => task[t].generation # generation
  <1>1. events # <<>> /\ Current(Head(events)) /\ Head(events).kind = "TurnFinished"
        /\ events' = Tail(events)
    BY DEF Receive
  <1>2. 1 \in Coming /\ events[1] = Head(events)
    <2>1. Len(events) \in Nat /\ Len(events) # 0 /\ Head(events) = events[1]
      BY <1>1, OneTurnTypes
    <2>. QED BY <1>1, <2>1 DEF Coming
  <1>3. turn = Head(events).turn /\ turn \in Turns
    BY <1>2, OneTurnTypes DEF OneTurn, Coming
  <1>4. task[turn].st = "ended" /\ \A j \in Coming : j <= 1
    BY <1>1, <1>2 DEF OneTurn
  <1>5. Coming' = {}
    <2>. SUFFICES ASSUME NEW i \in Coming' PROVE FALSE
      OBVIOUS
    <2>1. i + 1 <= 1 /\ i \in Nat
      BY <1>1, <1>4, TailComing
    <2>2. i # 0
      BY DEF Coming
    <2>. QED BY <2>1, <2>2
  <1>6. \A t \in Turns : Running(t) => task[t].generation # generation
    BY <1>4 DEF OneTurn, Running
  <1>. QED BY <1>3, <1>5, <1>6

LEMMA FinishOne ==
  ASSUME IInv, SInv, ReceiveTurnFinished
  PROVE  SInv'
  <1>1. /\ Receive("TurnFinished") /\ UNCHANGED <<generation, used>>
        /\ events # <<>> /\ events' = Tail(events)
    BY DEF ReceiveTurnFinished, Receive
  <1>2. Uncancelled' <=> Uncancelled
    BY <1>1 DEF Uncancelled
  <1>3. Uncancelled => /\ Coming' = {}
                       /\ \A t \in Turns : Running(t) => task[t].generation # generation
    BY <1>1, EndIsLast DEF SInv
  <1>. DEFINE failed == Head(events).error \/ turn_error
              pending == IF failed THEN None ELSE pending_interrupt
              opens == pending # None /\ FullySelectable(pending)
              asked == IF opens THEN pending ELSE question
              waits == asked # None /\ HasConfirmation(asked)
  <1>4. CASE TakeQueued(waits) = <<>>
    <2>1. UNCHANGED task
      BY <1>4 DEF ReceiveTurnFinished
    <2>2. GenerationsPast'
      BY <1>1, <2>1 DEF SInv, GenerationsPast
    <2>3. Uncancelled => OneTurn'
      BY <1>1, <1>3, <2>1 DEF OneTurn, SInv, Running
    <2>. QED BY <1>2, <2>2, <2>3 DEF SInv
  <1>5. CASE TakeQueued(waits) # <<>>
    <2>1. spawned + 1 \in Turns
      <3>1. queued # <<>>
        BY <1>5 DEF TakeQueued
      <3>. QED BY <3>1, OneTurnTypes, ChatAssumption DEF IInv, QueueHasRoom, Turns
    <2>2. PICK req, lines, report : Spawn(req, lines, report)
      BY <1>5 DEF ReceiveTurnFinished
    <2>. HIDE DEF waits
    <2>. QED BY <1>1, <1>2, <1>3, <2>1, <2>2, SpawnOne
  <1>. QED BY <1>4, <1>5

LEMMA StartOne ==
  ASSUME IInv, TInv, SInv, Uncancelled' => Uncancelled,
         SendPrompt \/ RetryLast \/ ClickFurther \/ AnswerQuestion
  PROVE  SInv'
  <1>1. turn = None
    BY DEF SendPrompt, RetryLast, ClickFurther, AnswerQuestion, IInv, BusyIffTurn,
           TInv, QuestionsBetweenTurns
  <1>2. UNCHANGED <<generation, events>>
    BY DEF SendPrompt, RetryLast, ClickFurther, AnswerQuestion, StartTurn
  <1>3. spawned + 1 \in Turns
    <2>1. RoomForTurn
      BY DEF SendPrompt, RetryLast, ClickFurther, AnswerQuestion
    <2>. QED BY <2>1, OneTurnTypes, ChatAssumption DEF RoomForTurn, Turns
  <1>4. Uncancelled => /\ Coming' = {}
                       /\ \A t \in Turns : Running(t) => task[t].generation # generation
    BY <1>1, <1>2, RestIsQuiet DEF SInv, Coming, Current
  <1>5. ASSUME NEW req, NEW lines, NEW report, Spawn(req, lines, report) PROVE SInv'
    BY <1>2, <1>3, <1>4, <1>5, SpawnOne
  <1>6. CASE UNCHANGED <<turn, task>>
    BY <1>2, <1>6, SameEvents
  <1>. QED BY <1>5, <1>6
           DEF SendPrompt, RetryLast, ClickFurther, AnswerQuestion, StartTurn

\* What a session was spared is spared still.
LEMMA UncancelledBefore ==
  ASSUME IInv, [Next]_vars, Uncancelled'
  PROVE  Uncancelled
  <1>1. used \in [Budgets -> Nat]
    BY AsideTypes
  <1>2. CASE UNCHANGED used
    BY <1>2 DEF Uncancelled
  <1>3. ASSUME NEW what \in Budgets, Spend(what) PROVE Uncancelled
    <2>1. used' = [used EXCEPT ![what] = @ + 1]
      BY <1>3 DEF Spend
    <2>2. "cancel" \in Budgets /\ "signout" \in Budgets
      BY DEF Budgets
    <2>3. \A b \in Budgets : used'[b] = used[b] \/ used'[b] = used[b] + 1
      BY <1>1, <2>1
    <2>4. \A b \in Budgets : used'[b] = 0 => used[b] = 0
      BY <1>1, <2>3
    <2>. QED BY <2>2, <2>4 DEF Uncancelled
  <1>4. CASE UNCHANGED vars
    BY <1>2, <1>4 DEF vars
  <1>5. CASE Reader
    BY <1>2, <1>3, <1>5
    DEF Reader, QueuePrompt, SendPrompt, RetryLast, ClickFurther, AnswerQuestion,
        Navigate, Cancel, NewSession, SignOut, SignIn, RequestLoad, Budgets
  <1>6. CASE Loop
    BY <1>2, <1>6
    DEF Loop, DropStale, Receive, ReceiveTurnStarted, ReceiveDelta,
        ReceiveToolStarted, ReceiveToolFinished, ReceiveMeta, ReceiveInterrupt,
        ReceiveTurnError, ReceiveStreamInterrupted, ReceiveTurnFinished, ReceiveLoad
  <1>7. CASE FinishLoad \/ \E m \in Msgs : Settle(m)
    BY <1>2, <1>7 DEF FinishLoad, Settle
  <1>8. CASE \E t \in Turns : TurnTask(t) \/ Disconnect(t)
    BY <1>2, <1>3, <1>8
    DEF TurnTask, Accept, Stream, End, AbortLands, Disconnect, Budgets
  <1>. QED BY <1>4, <1>5, <1>6, <1>7, <1>8 DEF Next

\* A cancel and a sign-out leave the generations alone.
LEMMA CancelOne ==
  ASSUME IInv, SInv, Cancel \/ SignOut
  PROVE  SInv'
  <1>1. AbandonTurn /\ UNCHANGED generation
    BY DEF Cancel, SignOut, CancelTurn
  <1>2. \A t \in Turns : task'[t].generation = task[t].generation
    BY <1>1, AbandonStep DEF IInv
  <1>3. GenerationsPast'
    BY <1>1, <1>2 DEF SInv, GenerationsPast
  <1>4. PICK what \in {"cancel", "signout"} : Spend(what)
    BY DEF Cancel, SignOut
  <1>5. used'[what] = used[what] + 1 /\ used[what] \in Nat
    BY <1>4, AsideTypes DEF Spend, Budgets
  <1>6. ~Uncancelled'
    BY <1>4, <1>5 DEF Uncancelled
  <1>. QED BY <1>3, <1>6 DEF SInv

LEMMA NextSInv == IInv /\ TInv /\ SInv /\ [Next]_vars => SInv'
  <1>. SUFFICES ASSUME IInv, TInv, SInv, [Next]_vars PROVE SInv'
    OBVIOUS
  <1>1. Uncancelled' => Uncancelled
    BY UncancelledBefore
  <1>2. CASE \/ QueuePrompt \/ Navigate \/ SignIn \/ RequestLoad \/ FinishLoad
             \/ UNCHANGED vars
             \/ \E m \in Msgs : Settle(m)
    <2>1. UNCHANGED <<generation, turn, events, task>>
      BY <1>2 DEF QueuePrompt, Navigate, SignIn, RequestLoad, FinishLoad, Settle,
                  vars, chat
    <2>. QED BY <1>1, <2>1, SameEvents
  <1>3. CASE SendPrompt \/ RetryLast \/ ClickFurther \/ AnswerQuestion
    BY <1>1, <1>3, StartOne
  <1>4. CASE Cancel \/ SignOut
    BY <1>4, CancelOne
  <1>5. CASE NewSession
    BY <1>1, <1>5, LeaveOne DEF NewSession
  <1>6. CASE ReceiveLoad
    <2>1. CASE Head(loaded) = None
      <3>1. UNCHANGED <<generation, turn, events, task>>
        BY <1>6, <2>1 DEF ReceiveLoad, chat
      <3>. QED BY <1>1, <3>1, SameEvents
    <2>2. CASE Head(loaded) # None
      BY <1>1, <1>6, <2>2, LeaveOne DEF ReceiveLoad
    <2>. QED BY <2>1, <2>2
  <1>7. CASE ReceiveTurnFinished
    BY <1>7, FinishOne
  <1>8. CASE Loop /\ ~ReceiveLoad /\ ~ReceiveTurnFinished
    <2>1. /\ events # <<>> /\ events' = Tail(events)
          /\ UNCHANGED <<generation, turn, task>>
      BY <1>8 DEF Loop, DropStale, Receive, MidTurn, ReceiveTurnStarted, ReceiveDelta,
            ReceiveToolStarted, ReceiveToolFinished, ReceiveMeta, ReceiveInterrupt,
            ReceiveTurnError, ReceiveStreamInterrupted, chat
    <2>. QED BY <1>1, <2>1, TakingOne
  <1>9. ASSUME NEW t \in Turns, TurnTask(t) \/ Disconnect(t) PROVE SInv'
    <2>1. CASE AbortLands(t)
      <3>1. UNCHANGED <<generation, turn, events>>
            /\ \A u \in Turns : /\ task'[u].generation = task[u].generation
                                /\ task'[u].st = task[u].st \/ task'[u].st = "ended"
        BY <2>1, OneTurnTypes DEF AbortLands, chat, Tasks
      <3>. QED BY <1>1, <3>1, SameEvents
    <2>. QED BY <1>9, <2>1, StreamTurn, SentTurn DEF TurnTask
  <1>. QED BY <1>2, <1>3, <1>4, <1>5, <1>6, <1>7, <1>8, <1>9 DEF Next, Reader, Loop

----------------------------------------------------------------------------
(* Between two turns.                                                      *)

\* Lines that do not claim to be running.
Quiet == {l \in Lines : ~l.running}

LEMMA SettledQuiet ==
  ASSUME NEW lines \in Seq(Lines)
  PROVE  Settled(lines) \in Seq(Quiet)
  <1>1. Settled(lines) \in Seq(Lines) /\ Len(Settled(lines)) \in Nat
        /\ Settled(lines) \in [1 .. Len(Settled(lines)) -> Lines]
    BY SettledLines, LinesAreLines, LenProperties
  <1>2. DOMAIN Settled(lines) = DOMAIN lines
    BY DEF Settled
  <1>3. \A i \in DOMAIN lines : ~Settled(lines)[i].running
    <2>. SUFFICES ASSUME NEW i \in DOMAIN lines PROVE ~Settled(lines)[i].running
      OBVIOUS
    <2>1. Settled(lines)[i] = [lines[i] EXCEPT !.running = FALSE]
      BY DEF Settled
    <2>2. lines[i] \in Lines
      BY ElementOfSeq, LenProperties
    <2>. QED BY <2>1, <2>2 DEF Lines
  <1>4. \A i \in 1 .. Len(Settled(lines)) : Settled(lines)[i] \in Quiet
    BY <1>1, <1>2, <1>3 DEF Quiet
  <1>. QED BY <1>1, <1>4

LEMMA QuietLine ==
  ASSUME NEW role \in Roles, NEW by \in Seq(Turns)
  PROVE  <<Line(role, by, FALSE)>> \in Seq(Quiet)
  <1>1. Line(role, by, FALSE) \in Quiet
    BY DEF Line, Lines, Quiet
  <1>. QED BY <1>1, SingletonSeq

\* finish_turn leaves no line running.
LEMMA FinishedQuiet ==
  ASSUME IInv, NEW failed \in BOOLEAN
  PROVE  FinishedLines(failed) \in Seq(Quiet)
  <1>. DEFINE answer == IF Streamed = <<>> THEN <<>>
                        ELSE <<Line("Assistant", streaming, FALSE)>>
              note == CASE failed -> <<Line("Alert", <<>>, FALSE)>>
                        [] ~failed /\ answer = <<>> -> <<Line("System", <<>>, FALSE)>>
                        [] OTHER -> <<>>
  <1>1. Settled(messages) \in Seq(Quiet)
    BY SettledQuiet DEF IInv, TypeOK, ChatTypeOK
  <1>2. answer \in Seq(Quiet)
    <2>1. Streamed # <<>> => streaming \in Seq(Turns)
      BY DEF Streamed, IInv, TypeOK, ChatTypeOK
    <2>2. Streamed # <<>> => <<Line("Assistant", streaming, FALSE)>> \in Seq(Quiet)
      BY <2>1, QuietLine DEF Roles
    <2>3. <<>> \in Seq(Quiet)
      BY EmptySeq
    <2>. QED BY <2>2, <2>3
  <1>3. note \in Seq(Quiet)
    <2>1. /\ <<Line("Alert", <<>>, FALSE)>> \in Seq(Quiet)
          /\ <<Line("System", <<>>, FALSE)>> \in Seq(Quiet)
          /\ <<>> \in Seq(Quiet)
      BY QuietLine, EmptySeq DEF Roles
    <2>. HIDE DEF answer
    <2>. QED BY <2>1
  <1>4. FinishedLines(failed) = Settled(messages) \o answer \o note
    BY DEF FinishedLines
  <1>. HIDE DEF answer, note
  <1>5. Settled(messages) \o answer \in Seq(Quiet)
    BY <1>1, <1>2, ConcatProperties
  <1>6. (Settled(messages) \o answer) \o note \in Seq(Quiet)
    BY <1>3, <1>5, ConcatProperties
  <1>. QED BY <1>4, <1>6

\* Between two turns every line is at rest, and a queue is held back by a question
\* that asks for a confirmation.
RestInv ==
  Uncancelled /\ turn = None =>
    /\ messages \in Seq(Quiet)
    /\ queued # <<>> => pending_interrupt # None /\ HasConfirmation(pending_interrupt)

LEMMA InitRest == Init => RestInv
  BY EmptySeq DEF Init, RestInv

\* What leaves the transcript, the queue and the question alone.
LEMMA AsideRest ==
  ASSUME RestInv, Uncancelled' => Uncancelled, turn' = None => turn = None,
         turn' = None => UNCHANGED <<messages, queued, pending_interrupt>>
  PROVE  RestInv'
  BY DEF RestInv

LEMMA FinishRest ==
  ASSUME IInv, TInv, SInv, RestInv, Uncancelled' => Uncancelled, ReceiveTurnFinished
  PROVE  RestInv'
  <1>. DEFINE failed == Head(events).error \/ turn_error
              pending == IF failed THEN None ELSE pending_interrupt
              opens == pending # None /\ FullySelectable(pending)
              asked == IF opens THEN pending ELSE question
              waits == asked # None /\ HasConfirmation(asked)
  <1>1. CASE TakeQueued(waits) # <<>>
    <2>1. turn' = spawned + 1
      BY <1>1 DEF ReceiveTurnFinished, Spawn
    <2>2. turn' # None
      BY <2>1, OneTurnTypes, ChatAssumption
    <2>. QED BY <2>2 DEF RestInv
  <1>2. CASE TakeQueued(waits) = <<>>
    <2>. SUFFICES ASSUME Uncancelled, turn' = None
                  PROVE  /\ messages' \in Seq(Quiet)
                         /\ queued' # <<>> => /\ pending_interrupt' # None
                                              /\ HasConfirmation(pending_interrupt')
      BY DEF RestInv, HasConfirmation
    <2>1. messages' = FinishedLines(failed) /\ pending_interrupt' = pending
          /\ queued' = queued
      BY <1>2 DEF ReceiveTurnFinished
    <2>2. failed \in BOOLEAN
      <3>1. Head(events) \in GoodEvents
        BY ReceiveStep DEF ReceiveTurnFinished
      <3>. QED BY <3>1 DEF GoodEvents, Events, IInv, TypeOK, ChatTypeOK
    <2>3. messages' \in Seq(Quiet)
      <3>. HIDE DEF failed
      <3>. QED BY <2>1, <2>2, FinishedQuiet
    <2>4. turn # None
      BY EndIsLast, OneTurnTypes DEF ReceiveTurnFinished, SInv
    <2>5. question = None
      BY <2>4 DEF TInv, QuestionsBetweenTurns
    <2>6. ASSUME queued # <<>> PROVE pending # None /\ HasConfirmation(pending)
      <3>1. waits
        BY <1>2, <2>6 DEF TakeQueued
      <3>. QED BY <2>5, <3>1
    <2>. QED BY <2>1, <2>3, <2>6
  <1>. QED BY <1>1, <1>2

LEMMA NextRest == IInv /\ TInv /\ SInv /\ RestInv /\ [Next]_vars => RestInv'
  <1>. SUFFICES ASSUME IInv, TInv, SInv, RestInv, [Next]_vars PROVE RestInv'
    OBVIOUS
  <1>1. Uncancelled' => Uncancelled
    BY UncancelledBefore
  <1>2. turn # None <=> busy
    BY DEF IInv, BusyIffTurn
  <1>3. spawned + 1 # None
    BY OneTurnTypes, ChatAssumption
  <1>4. CASE \/ QueuePrompt \/ Navigate \/ SignIn \/ RequestLoad \/ FinishLoad
             \/ UNCHANGED vars \/ DropStale
             \/ \E m \in Msgs : Settle(m)
             \/ \E t \in Turns : TurnTask(t) \/ Disconnect(t)
    <2>1. UNCHANGED turn /\ (turn = None => UNCHANGED <<messages, queued, pending_interrupt>>)
      BY <1>2, <1>4
      DEF QueuePrompt, Navigate, SignIn, RequestLoad, FinishLoad, DropStale, Settle,
          TurnTask, Accept, Stream, Send, End, AbortLands, Disconnect,
          vars, chat, transcript
    <2>. QED BY <1>1, <2>1, AsideRest
  <1>5. CASE SendPrompt \/ RetryLast \/ ClickFurther
    BY <1>3, <1>5
    DEF SendPrompt, RetryLast, ClickFurther, StartTurn, Spawn, RestInv
  <1>6. CASE AnswerQuestion
    <2>1. CASE chat_uid # None /\ message_id # None
      BY <1>3, <1>6, <2>1 DEF AnswerQuestion, Spawn, RestInv
    <2>2. CASE ~(chat_uid # None /\ message_id # None)
      <3>1. UNCHANGED <<turn, messages, queued, pending_interrupt>>
        BY <1>6, <2>2 DEF AnswerQuestion, transcript
      <3>. QED BY <1>1, <3>1, AsideRest
    <2>. QED BY <2>1, <2>2
  <1>7. CASE Cancel \/ SignOut
    <2>1. PICK what \in {"cancel", "signout"} : Spend(what)
      BY <1>7 DEF Cancel, SignOut
    <2>2. used'[what] = used[what] + 1 /\ used[what] \in Nat
      BY <2>1, AsideTypes DEF Spend, Budgets
    <2>3. ~Uncancelled'
      BY <2>1, <2>2 DEF Uncancelled
    <2>. QED BY <2>3 DEF RestInv
  <1>8. CASE NewSession
    <2>1. messages' = <<>> /\ queued' = <<>>
      BY <1>8 DEF NewSession, ClearTurnState
    <2>. QED BY <2>1, EmptySeq DEF RestInv
  <1>9. CASE ReceiveLoad
    <2>1. CASE Head(loaded) = None
      <3>1. UNCHANGED <<turn, messages, queued, pending_interrupt>>
        BY <1>9, <2>1 DEF ReceiveLoad, chat, transcript
      <3>. QED BY <1>1, <3>1, AsideRest
    <2>2. CASE Head(loaded) # None
      <3>1. messages' = <<Line("User", <<>>, FALSE)>> /\ queued' = <<>>
        BY <1>9, <2>2 DEF ReceiveLoad, ClearTurnState
      <3>2. <<Line("User", <<>>, FALSE)>> \in Seq(Quiet)
        BY QuietLine, EmptySeq DEF Roles
      <3>. QED BY <3>1, <3>2 DEF RestInv
    <2>. QED BY <2>1, <2>2
  <1>10. CASE ReceiveTurnFinished
    BY <1>1, <1>10, FinishRest
  <1>11. CASE Loop /\ ~ReceiveLoad /\ ~ReceiveTurnFinished /\ ~DropStale
    <2>1. UNCHANGED turn /\ events # <<>> /\ Current(Head(events))
      BY <1>11 DEF Loop, Receive, MidTurn, ReceiveTurnStarted, ReceiveDelta,
            ReceiveToolStarted, ReceiveToolFinished, ReceiveMeta, ReceiveInterrupt,
            ReceiveTurnError, ReceiveStreamInterrupted
    <2>2. Uncancelled => turn # None
      <3>1. Len(events) \in Nat /\ Len(events) # 0 /\ Head(events) = events[1]
        BY <2>1, OneTurnTypes
      <3>2. 1 \in Coming
        BY <2>1, <3>1 DEF Coming
      <3>. QED BY <3>2, OneTurnTypes, RestIsQuiet DEF SInv
    <2>. QED BY <1>1, <2>1, <2>2 DEF RestInv
  <1>. QED BY <1>4, <1>5, <1>6, <1>7, <1>8, <1>9, <1>10, <1>11 DEF Next, Reader, Loop

----------------------------------------------------------------------------
(* Signed out.                                                             *)

\* As long as no question is answered, signing out ends what runs and empties what
\* waits, and nothing can be added to either.
SignedOutInv == ~ready /\ Unanswered => turn = None /\ queued = <<>>

LEMMA InitSignedOut == Init => SignedOutInv
  BY DEF Init, SignedOutInv

\* A request once sent stays what it was.
LEMMA SpawnUnanswered ==
  ASSUME IInv, NEW req, NEW lines, NEW report, Spawn(req, lines, report),
         spawned + 1 \in Turns
  PROVE  Unanswered' => Unanswered /\ req.kind = "New"
  <1>1. request' = [request EXCEPT ![spawned + 1] = req] /\ spawned' = spawned + 1
        /\ spawned \in Nat /\ request \in [Turns -> Requests \cup {None}]
    BY ChatAssumption DEF Spawn, IInv, TypeOK, HistoryTypeOK, TasksTypeOK
  <1>2. \A t \in 1 .. spawned : t \in 1 .. spawned + 1 /\ t # spawned + 1 /\ t \in Turns
    BY <1>1, ChatAssumption DEF Turns
  <1>3. \A t \in 1 .. spawned : request'[t] = request[t]
    BY <1>1, <1>2
  <1>4. request'[spawned + 1] = req /\ spawned + 1 \in 1 .. spawned + 1
    BY <1>1
  <1>. QED BY <1>1, <1>2, <1>3, <1>4 DEF Unanswered

\* While nobody is signed in, only an answer starts a turn.
LEMMA SignedOutStep ==
  ASSUME IInv, SignedOutInv, [Next]_vars, ~ready, Unanswered'
  PROVE  spawned' = spawned /\ Unanswered
  <1>1. UNCHANGED <<request, spawned>> => spawned' = spawned /\ Unanswered
    BY DEF Unanswered
  <1>2. ~SendPrompt /\ ~RetryLast /\ ~ClickFurther
    BY DEF SendPrompt, RetryLast, ClickFurther
  <1>3. CASE AnswerQuestion
    <2>1. spawned + 1 \in Turns
      <3>1. RoomForTurn
        BY <1>3 DEF AnswerQuestion
      <3>. QED BY <3>1, OneTurnTypes, ChatAssumption DEF RoomForTurn, Turns
    <2>. DEFINE req == [kind |-> "Continue", chat |-> chat_uid, msg |-> message_id,
                        parent |-> None, asked |-> question.msg, account |-> account]
    <2>2. req.kind # "New"
      OBVIOUS
    <2>3. Spawn(req, messages, Started) \/ UNCHANGED <<request, spawned>>
      BY <1>3 DEF AnswerQuestion
    <2>. HIDE DEF req
    <2>. QED BY <1>1, <2>1, <2>2, <2>3, SpawnUnanswered
  <1>4. CASE ReceiveTurnFinished
    <2>1. CASE queued = <<>>
      BY <1>1, <1>4, <2>1 DEF ReceiveTurnFinished, TakeQueued
    <2>2. CASE queued # <<>>
      <3>1. spawned + 1 \in Turns
        BY <2>2, OneTurnTypes, ChatAssumption DEF IInv, QueueHasRoom, Turns
      <3>2. \/ UNCHANGED <<request, spawned>>
            \/ \E req, lines, report : Spawn(req, lines, report)
        BY <1>4 DEF ReceiveTurnFinished
      <3>3. Unanswered
        BY <1>1, <3>1, <3>2, SpawnUnanswered
      <3>. QED BY <2>2, <3>3 DEF SignedOutInv
    <2>. QED BY <2>1, <2>2
  <1>5. CASE \/ QueuePrompt \/ Navigate \/ SignIn \/ RequestLoad \/ FinishLoad
             \/ Cancel \/ SignOut \/ NewSession \/ ReceiveLoad
             \/ UNCHANGED vars
             \/ \E m \in Msgs : Settle(m)
             \/ \E t \in Turns : TurnTask(t) \/ Disconnect(t)
    <2>1. UNCHANGED <<request, spawned>>
      BY <1>5
      DEF QueuePrompt, Navigate, SignIn, RequestLoad, FinishLoad, Cancel, SignOut,
          NewSession, ReceiveLoad, Settle, TurnTask, Accept, Stream, Send, End,
          AbortLands, Disconnect, vars, history
    <2>. QED BY <1>1, <2>1
  <1>6. CASE Loop /\ ~ReceiveLoad /\ ~ReceiveTurnFinished
    <2>1. UNCHANGED <<request, spawned>>
      BY <1>6 DEF Loop, DropStale, MidTurn, ReceiveTurnStarted, ReceiveDelta,
            ReceiveToolStarted, ReceiveToolFinished, ReceiveMeta, ReceiveInterrupt,
            ReceiveTurnError, ReceiveStreamInterrupted, history
    <2>. QED BY <1>1, <2>1
  <1>. QED BY <1>2, <1>3, <1>4, <1>5, <1>6 DEF Next, Reader, Loop

LEMMA NextSignedOut == IInv /\ SignedOutInv /\ [Next]_vars => SignedOutInv'
  <1>. SUFFICES ASSUME IInv, SignedOutInv, [Next]_vars, ~ready', Unanswered'
                PROVE  turn' = None /\ queued' = <<>>
    BY DEF SignedOutInv
  <1>1. CASE SignOut
    BY <1>1 DEF SignOut, CancelTurn, AbandonTurn
  <1>2. CASE SignIn
    BY <1>2 DEF SignIn
  <1>3. CASE ~SignOut /\ ~SignIn
    <2>1. ~ready
      BY <1>3 DEF Next, Reader, Loop, QueuePrompt, SendPrompt, RetryLast, ClickFurther,
            StartTurn, AnswerQuestion, Navigate, Cancel, NewSession, RequestLoad,
            FinishLoad, DropStale, Receive, ReceiveTurnStarted, ReceiveDelta,
            ReceiveToolStarted, ReceiveToolFinished, ReceiveMeta, ReceiveInterrupt,
            ReceiveTurnError, ReceiveStreamInterrupted, ReceiveTurnFinished,
            ReceiveLoad, Settle, TurnTask, Accept, Stream, Send, End, AbortLands,
            Disconnect, vars, auth
    <2>2. spawned' = spawned /\ Unanswered
      BY <2>1, SignedOutStep
    <2>3. turn = None /\ queued = <<>> /\ ~busy
      BY <2>1, <2>2 DEF SignedOutInv, IInv, BusyIffTurn
    <2>4. spawned \in Nat
      BY OneTurnTypes
    <2>5. CASE NewSession \/ ReceiveLoad
      <3>1. \/ turn' = None /\ queued' = <<>>
            \/ UNCHANGED <<turn, queued>>
        BY <2>5 DEF NewSession, ReceiveLoad, AbandonTurn, ClearTurnState, chat
      <3>. QED BY <2>3, <3>1
    <2>6. CASE ReceiveTurnFinished
      <3>1. \A waits : TakeQueued(waits) = <<>>
        BY <2>3 DEF TakeQueued
      <3>. QED BY <2>3, <2>6, <3>1 DEF ReceiveTurnFinished
    <2>7. CASE SendPrompt \/ RetryLast \/ ClickFurther \/ QueuePrompt \/ Cancel
      BY <2>1, <2>3, <2>7 DEF SendPrompt, RetryLast, ClickFurther, QueuePrompt, Cancel
    <2>8. CASE AnswerQuestion
      <3>1. UNCHANGED queued /\ (spawned' = spawned + 1 \/ UNCHANGED turn)
        BY <2>8 DEF AnswerQuestion, Spawn
      <3>2. spawned' # spawned + 1
        BY <2>2, <2>4
      <3>. QED BY <2>3, <3>1, <3>2
    <2>9. CASE \/ Navigate \/ RequestLoad \/ FinishLoad \/ UNCHANGED vars
               \/ \E m \in Msgs : Settle(m)
               \/ \E t \in Turns : TurnTask(t) \/ Disconnect(t)
      BY <2>3, <2>9
      DEF Navigate, RequestLoad, FinishLoad, Settle, TurnTask, Accept, Stream, Send,
          End, AbortLands, Disconnect, vars, chat
    <2>10. CASE Loop /\ ~ReceiveLoad /\ ~ReceiveTurnFinished
      BY <2>3, <2>10 DEF Loop, DropStale, MidTurn, ReceiveTurnStarted, ReceiveDelta,
            ReceiveToolStarted, ReceiveToolFinished, ReceiveMeta, ReceiveInterrupt,
            ReceiveTurnError, ReceiveStreamInterrupted, chat
    <2>. QED BY <1>3, <2>5, <2>6, <2>7, <2>8, <2>9, <2>10 DEF Next, Reader, Loop
  <1>. QED BY <1>1, <1>2, <1>3

----------------------------------------------------------------------------
(* The theorems.                                                           *)

AllInv == IInv /\ TInv /\ SInv /\ RestInv /\ SignedOutInv

LEMMA Together == Spec => []AllInv
  <1>1. Init => AllInv
    BY InitIInv, InitTInv, InitSInv, InitRest, InitSignedOut DEF AllInv
  <1>2. AllInv /\ [Next]_vars => AllInv'
    BY NextIInv, NextTInv, NextSInv, NextRest, NextSignedOut DEF AllInv
  <1>. QED BY <1>1, <1>2, PTL DEF Spec

\* However a turn is left - it ends, is cancelled, dropped by a sign-out, a new
\* conversation or a resumed one - its end is reported if its start was.
THEOREM StartsFinish == Spec => []StartsAreFinished
  <1>1. AllInv => StartsAreFinished
    BY DEF AllInv, TInv
  <1>. QED BY Together, <1>1, PTL

\* A question is open, and can be answered, only while no turn runs: an answer
\* never drops a running turn, though submit_answers does not check for one.
THEOREM QuestionsWait == Spec => []QuestionsBetweenTurns
  <1>1. AllInv => QuestionsBetweenTurns
    BY DEF AllInv, TInv
  <1>. QED BY Together, <1>1, PTL

\* Without a cancel or a sign-out no turn runs out of the loop's reach, however
\* conversations are left and resumed.
THEOREM NoneAstray == Spec => []NoStrayTask
  <1>1. AllInv => NoStrayTask
    BY DEF AllInv, SInv, OneTurn, NoStrayTask, Running
  <1>. QED BY Together, <1>1, PTL

\* Without a cancel or a sign-out the loop never applies an event to a turn other
\* than the one that sent it: what a late event breaks, it breaks after a cancel.
THEOREM EventsReachTheirTurn ==
  Spec => [][Uncancelled /\ events # <<>> /\ events' = Tail(events)
               /\ Current(Head(events)) => turn = Head(events).turn]_vars
  <1>1. ASSUME AllInv, Uncancelled, events # <<>>, Current(Head(events))
        PROVE  turn = Head(events).turn
    <2>1. Len(events) \in Nat /\ Len(events) # 0 /\ Head(events) = events[1]
      BY <1>1, OneTurnTypes DEF AllInv
    <2>2. 1 \in Coming
      BY <1>1, <2>1 DEF Coming
    <2>. QED BY <1>1, <2>1, <2>2 DEF AllInv, SInv, OneTurn
  <1>2. AllInv => (Uncancelled /\ events # <<>> /\ events' = Tail(events)
                     /\ Current(Head(events)) => turn = Head(events).turn)
    BY <1>1
  <1>. QED BY Together, <1>2, PTL

\* Between two turns no line claims to be running and only a confirmation holds
\* queued prompts back.
THEOREM RestIsRest == Spec => []AtRest
  <1>1. ASSUME AllInv, Uncancelled, ~busy
        PROVE  /\ \A i \in DOMAIN messages : ~messages[i].running
               /\ queued # <<>> => Confirming
    <2>1. turn = None
      BY <1>1 DEF AllInv, IInv, BusyIffTurn
    <2>2. messages \in Seq(Quiet)
          /\ (queued # <<>> => pending_interrupt # None
                               /\ HasConfirmation(pending_interrupt))
      BY <1>1, <2>1 DEF AllInv, RestInv
    <2>3. \A i \in DOMAIN messages : messages[i] \in Quiet
      BY <2>2, LenProperties, ElementOfSeq
    <2>. QED BY <2>2, <2>3 DEF Quiet, Confirming
  <1>2. AllInv => AtRest
    BY <1>1 DEF AtRest
  <1>. QED BY Together, <1>2, PTL

\* Signed out, nothing goes out but the answer to a question.
THEOREM SignedOutIsSilent == Spec => NoTurnWhileSignedOut
  <1>1. AllInv /\ [Next]_vars => (~ready /\ Unanswered' => spawned' = spawned)
    BY SignedOutStep DEF AllInv
  <1>. QED BY Together, <1>1, PTL DEF Spec, NoTurnWhileSignedOut
=============================================================================
