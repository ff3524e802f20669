------------------------- MODULE ChatSession_proofs -------------------------
(***************************************************************************)
(* Proofs about ChatSession, for every bound, every shape of question and  *)
(* every choice of what a stream carries.  IInv is the inductive invariant *)
(* behind the three theorems at the end.                                   *)
(***************************************************************************)
EXTENDS ChatSession, SequenceTheorems, TLAPS

----------------------------------------------------------------------------
(* The inductive invariant.                                                *)

\* The lines whose text comes from turns of S only.
LinesOf(S) == [role : Roles, by : Seq(S), running : BOOLEAN]

\* The turns spawned in the conversation on screen.
ThreadTurns == {t \in Turns : t <= spawned /\ task[t].thread = thread}

\* TranscriptOfThread as a type.
Transcript ==
  /\ messages \in Seq(LinesOf(ThreadTurns))
  /\ Streamed \in Seq(ThreadTurns)

\* The prompt a turn started with stays on screen as long as the turn.
PromptShown ==
  turn_started # None => turn_started.from + 1 <= Len(messages)

\* A spawned task has its request; only spawned turns are named.
Spawned ==
  /\ \A t \in Turns : task[t].st # "idle" => t <= spawned /\ request[t] \in Requests
  /\ turn # None => turn <= spawned

\* A queue keeps one turn of the bound for itself.
QueueHasRoom == queued # <<>> => spawned < MaxTurns

\* The generation counts the conversations.
GenerationIsThread ==
  /\ generation = thread
  /\ \A t \in Turns : task[t].generation = task[t].thread

\* What an event on its way says of its task, and needs of it.
GoodEvents ==
  {e \in Events :
     /\ e.turn <= spawned
     /\ e.generation = task[e.turn].generation
     /\ e.kind \in {"TurnStarted", "Interrupt"} => task[e.turn].msg \in Msgs
     /\ e.kind = "Interrupt" => e.ask \in Asks}
EventsOfTasks == events \in Seq(GoodEvents)

\* A message that asks has a question.
AskingHasAsk == \A m \in Msgs : server[m].st = "asking" => server[m].ask \in Asks

IInv ==
  /\ TypeOK
  /\ Transcript
  /\ PromptShown
  /\ Spawned
  /\ QueueHasRoom
  /\ GenerationIsThread
  /\ EventsOfTasks
  /\ AskingHasAsk
  /\ BusyIffTurn

----------------------------------------------------------------------------
(* The operators on lines keep whose text they show.                       *)

LEMMA LinesAreLines == Lines = LinesOf(Turns)
  BY DEF Lines, LinesOf

LEMMA SeqLinesMono ==
  ASSUME NEW S, NEW T, S \subseteq T, NEW lines \in Seq(LinesOf(S))
  PROVE  lines \in Seq(LinesOf(T))
  <1>1. \A b \in Seq(S) : b \in Seq(T)
    BY SeqMonotonic
  <1>2. LinesOf(S) \subseteq LinesOf(T)
    BY <1>1 DEF LinesOf
  <1>. QED BY <1>2, SeqMonotonic

LEMMA LineType ==
  ASSUME NEW S, NEW role \in Roles, NEW by \in Seq(S), NEW running \in BOOLEAN
  PROVE  Line(role, by, running) \in LinesOf(S)
  BY DEF Line, LinesOf

LEMMA SingletonSeq ==
  ASSUME NEW S, NEW e \in S
  PROVE  <<e>> \in Seq(S)
  OBVIOUS

LEMMA PairSeq ==
  ASSUME NEW S, NEW e \in S, NEW f \in S
  PROVE  <<e, f>> \in Seq(S)
  OBVIOUS

LEMMA SettledLines ==
  ASSUME NEW S, NEW lines \in Seq(LinesOf(S))
  PROVE  Settled(lines) \in Seq(LinesOf(S)) /\ Len(Settled(lines)) = Len(lines)
  <1>. DEFINE settled(i) == [lines[i] EXCEPT !.running = FALSE]
  <1>1. DOMAIN lines = 1 .. Len(lines) /\ Len(lines) \in Nat
    BY LenProperties
  <1>2. \A i \in 1 .. Len(lines) : lines[i] \in LinesOf(S)
    BY ElementOfSeq
  <1>3. \A i \in 1 .. Len(lines) : settled(i) \in LinesOf(S)
    BY <1>2 DEF LinesOf
  <1>4. Settled(lines) = [i \in 1 .. Len(lines) |-> settled(i)]
    BY <1>1 DEF Settled
  <1>5. Settled(lines) \in [1 .. Len(lines) -> LinesOf(S)]
    BY <1>3, <1>4
  <1>. QED BY <1>1, <1>5

LEMMA ToolResolvedLines ==
  ASSUME NEW S, NEW lines \in Seq(LinesOf(S)), NEW t \in S
  PROVE  /\ ToolResolved(lines, t) \in Seq(LinesOf(S))
         /\ Len(ToolResolved(lines, t)) >= Len(lines)
  <1>. DEFINE open == {i \in DOMAIN lines : lines[i].role = "Tool" /\ lines[i].running}
              last == CHOOSE i \in open : \A j \in open : j <= i
  <1>1. DOMAIN lines = 1 .. Len(lines) /\ Len(lines) \in Nat
    BY LenProperties
  <1>2. CASE open = {}
    <2>1. <<t>> \in Seq(S)
      OBVIOUS
    <2>2. Line("Tool", <<t>>, FALSE) \in LinesOf(S)
      BY <2>1, LineType DEF Roles
    <2>3. ToolResolved(lines, t) = Append(lines, Line("Tool", <<t>>, FALSE))
      BY <1>2 DEF ToolResolved
    <2>4. /\ Append(lines, Line("Tool", <<t>>, FALSE)) \in Seq(LinesOf(S))
          /\ Len(Append(lines, Line("Tool", <<t>>, FALSE))) = Len(lines) + 1
      BY <2>2, AppendProperties
    <2>5. ToolResolved(lines, t) \in Seq(LinesOf(S))
      BY <2>3, <2>4
    <2>6. Len(ToolResolved(lines, t)) = Len(lines) + 1
      BY <2>3, <2>4
    <2>. QED BY <1>1, <2>5, <2>6
  <1>3. CASE open # {}
    <2>1. ToolResolved(lines, t) = [lines EXCEPT ![last].running = FALSE]
      BY <1>3 DEF ToolResolved
    <2>2. \A i \in 1 .. Len(lines) : lines[i] \in LinesOf(S)
      BY ElementOfSeq
    <2>3. \A i \in 1 .. Len(lines) :
            [lines[i] EXCEPT !.running = FALSE] \in LinesOf(S)
      BY <2>2 DEF LinesOf
    <2>4. [lines EXCEPT ![last].running = FALSE] \in [1 .. Len(lines) -> LinesOf(S)]
      BY <1>1, <2>2, <2>3
    <2>. QED BY <1>1, <2>1, <2>4
  <1>. QED BY <1>2, <1>3

\* What finish_turn leaves on screen.
LEMMA FinishedLinesOf ==
  ASSUME NEW S, messages \in Seq(LinesOf(S)), Streamed \in Seq(S),
         NEW failed \in BOOLEAN
  PROVE  FinishedLines(failed) \in Seq(LinesOf(S))
  <1>. DEFINE answer == IF Streamed = <<>> THEN <<>>
                        ELSE <<Line("Assistant", streaming, FALSE)>>
              note == CASE failed -> <<Line("Alert", <<>>, FALSE)>>
                        [] ~failed /\ answer = <<>> -> <<Line("System", <<>>, FALSE)>>
                        [] OTHER -> <<>>
  <1>1. Settled(messages) \in Seq(LinesOf(S))
    BY SettledLines
  <1>2. answer \in Seq(LinesOf(S))
    <2>1. CASE Streamed = <<>>
      BY <2>1
    <2>2. CASE Streamed # <<>>
      <3>1. streaming \in Seq(S)
        BY <2>2 DEF Streamed
      <3>2. Line("Assistant", streaming, FALSE) \in LinesOf(S)
        BY <3>1, LineType DEF Roles
      <3>3. <<Line("Assistant", streaming, FALSE)>> \in Seq(LinesOf(S))
        BY <3>2, SingletonSeq
      <3>. QED BY <2>2, <3>3
    <2>. QED BY <2>1, <2>2
  <1>3. note \in Seq(LinesOf(S))
    <2>1. /\ Line("Alert", <<>>, FALSE) \in LinesOf(S)
          /\ Line("System", <<>>, FALSE) \in LinesOf(S)
      BY LineType, EmptySeq DEF Roles
    <2>2. /\ <<Line("Alert", <<>>, FALSE)>> \in Seq(LinesOf(S))
          /\ <<Line("System", <<>>, FALSE)>> \in Seq(LinesOf(S))
          /\ <<>> \in Seq(LinesOf(S))
      BY <2>1, SingletonSeq, EmptySeq
    <2>. HIDE DEF answer
    <2>. QED BY <2>2
  <1>4. FinishedLines(failed) = Settled(messages) \o answer \o note
    BY DEF FinishedLines
  <1>. HIDE DEF answer, note
  <1>5. Settled(messages) \o answer \in Seq(LinesOf(S))
    BY <1>1, <1>2, ConcatProperties
  <1>6. (Settled(messages) \o answer) \o note \in Seq(LinesOf(S))
    BY <1>3, <1>5, ConcatProperties
  <1>. QED BY <1>4, <1>6

\* What cancel leaves on screen.
LEMMA CancelledLinesOf ==
  ASSUME NEW S, messages \in Seq(LinesOf(S)), Streamed \in Seq(S)
  PROVE  CancelledLines \in Seq(LinesOf(S))
  <1>1. Settled(messages) \in Seq(LinesOf(S))
    BY SettledLines
  <1>2. CASE streaming = None
    BY <1>1, <1>2 DEF CancelledLines
  <1>3. CASE streaming # None
    <2>1. streaming \in Seq(S)
      BY <1>3 DEF Streamed
    <2>2. Line("Assistant", streaming, FALSE) \in LinesOf(S)
      BY <2>1, LineType DEF Roles
    <2>3. Append(Settled(messages), Line("Assistant", streaming, FALSE))
            \in Seq(LinesOf(S))
      BY <1>1, <2>2, AppendProperties
    <2>. QED BY <1>3, <2>3 DEF CancelledLines
  <1>. QED BY <1>2, <1>3

\* A replay keeps what was there before the turn, and the prompt.
LEMMA RewoundLines ==
  ASSUME NEW S, messages \in Seq(LinesOf(S)), PromptShown,
         turn_started \in [from : Nat, turn : Turns] \cup {None}
  PROVE  /\ Rewound \in Seq(LinesOf(S))
         /\ turn_started # None => turn_started.from + 1 <= Len(Rewound)
  <1>1. CASE turn_started = None
    BY <1>1 DEF Rewound
  <1>2. CASE turn_started # None
    <2>. DEFINE n == turn_started.from + 1
    <2>1. n \in Nat /\ n <= Len(messages) /\ 1 <= n
      BY <1>2 DEF PromptShown
    <2>. HIDE DEF n
    <2>2. Len(messages) \in Nat
      BY LenProperties
    <2>3. \A i \in 1 .. n : messages[i] \in LinesOf(S)
      BY <2>1, <2>2, ElementOfSeq
    <2>4. SubSeq(messages, 1, n) \in Seq(LinesOf(S)) /\ Len(SubSeq(messages, 1, n)) = n
      BY <2>1, <2>3, SubSeqProperties
    <2>5. Rewound = SubSeq(messages, 1, n)
      BY <1>2 DEF Rewound, n
    <2>6. Rewound \in Seq(LinesOf(S))
      BY <2>4, <2>5
    <2>7. Len(Rewound) = n
      BY <2>4, <2>5
    <2>. QED BY <2>1, <2>6, <2>7 DEF n
  <1>. QED BY <1>1, <1>2

----------------------------------------------------------------------------
(* What spawned tasks and named turns keep, whatever else a step does.     *)

Reports == [starts : SUBSET Turns, finishes : SUBSET Turns]

LEMMA SpendStep ==
  ASSUME used \in [Budgets -> Nat], NEW what \in Budgets, Spend(what)
  PROVE  used' \in [Budgets -> Nat]
  BY DEF Spend

\* A step that keeps the generations of spawned tasks and forgets no message
\* keeps the events on their way good.
LEMMA GoodEventsStay ==
  ASSUME TypeOK, spawned <= spawned', spawned' \in Nat,
         \A t \in Turns : t <= spawned =>
            /\ task'[t].generation = task[t].generation
            /\ task[t].msg \in Msgs => task'[t].msg \in Msgs
  PROVE  GoodEvents \subseteq GoodEvents'
  <1>. SUFFICES ASSUME NEW e \in GoodEvents PROVE e \in GoodEvents'
    OBVIOUS
  <1>1. e \in Events /\ e.turn \in Turns /\ e.turn <= spawned
    BY DEF GoodEvents, Events
  <1>2. e.turn <= spawned'
    BY <1>1 DEF TypeOK, HistoryTypeOK, Turns
  <1>3. /\ task'[e.turn].generation = task[e.turn].generation
        /\ task[e.turn].msg \in Msgs => task'[e.turn].msg \in Msgs
    BY <1>1
  <1>. QED BY <1>1, <1>2, <1>3 DEF GoodEvents

\* A step that keeps the conversation and the threads of spawned tasks keeps
\* its turns.
LEMMA ThreadTurnsStay ==
  ASSUME TypeOK, thread' = thread, spawned <= spawned', spawned' \in Nat,
         \A t \in Turns : t <= spawned => task'[t].thread = task[t].thread
  PROVE  ThreadTurns \subseteq ThreadTurns'
  BY DEF ThreadTurns, TypeOK, HistoryTypeOK, Turns

LEMMA TranscriptStays ==
  ASSUME Transcript, ThreadTurns \subseteq ThreadTurns',
         UNCHANGED <<messages, streaming>>
  PROVE  Transcript'
  <1>1. messages \in Seq(LinesOf(ThreadTurns'))
    BY SeqLinesMono DEF Transcript
  <1>2. Streamed \in Seq(ThreadTurns')
    BY SeqMonotonic DEF Transcript
  <1>. QED BY <1>1, <1>2 DEF Transcript, Streamed

LEMMA TranscriptType ==
  ASSUME Transcript
  PROVE  messages \in Seq(Lines) /\ Streamed \in Seq(Turns)
  <1>1. ThreadTurns \subseteq Turns
    BY DEF ThreadTurns
  <1>. QED BY <1>1, SeqLinesMono, SeqMonotonic, LinesAreLines DEF Transcript

\* Spawning a turn of this conversation.
LEMMA SpawnStep ==
  ASSUME TypeOK, Spawned, GenerationIsThread, spawned < MaxTurns,
         NEW req \in Requests, NEW lines \in Seq(LinesOf(ThreadTurns)),
         NEW report \in Reports,
         Spawn(req, lines, report), UNCHANGED <<generation, thread>>
  PROVE  /\ Transcript' /\ PromptShown' /\ Spawned' /\ GenerationIsThread'
         /\ BusyIffTurn' /\ GoodEvents \subseteq GoodEvents'
         /\ busy' \in BOOLEAN /\ further' \in BOOLEAN /\ turn_error' \in BOOLEAN
         /\ streaming' \in Seq(Turns) /\ messages' \in Seq(Lines)
         /\ turn_started' \in [from : Nat, turn : Turns]
         /\ pending_interrupt' = None
         /\ task' \in [Turns -> Tasks]
         /\ request' \in [Turns -> Requests \cup {None}]
         /\ turn' \in Turns /\ reported' \in Reports
         /\ spawned' \in 0 .. MaxTurns /\ spawned' = spawned + 1
  <1>. DEFINE t == spawned + 1
              new == [st |-> "live", generation |-> generation, thread |-> thread,
                      msg |-> None, out |-> {}, readback |-> FALSE]
  <1>1. t \in Turns /\ spawned \in Nat /\ t \in Nat /\ t \in 0 .. MaxTurns
    BY ChatAssumption DEF TypeOK, HistoryTypeOK, Turns
  <1>2. /\ spawned' = t /\ turn' = t /\ busy' = TRUE
        /\ task' = [task EXCEPT ![t] = new]
        /\ request' = [request EXCEPT ![t] = req]
        /\ messages' = Append(lines, Line("User", <<t>>, FALSE))
        /\ streaming' = <<>>
        /\ turn_started' = [from |-> Len(lines), turn |-> t]
        /\ reported' = report /\ pending_interrupt' = None
        /\ further' = FALSE /\ turn_error' = FALSE
        /\ generation' = generation /\ thread' = thread
    BY DEF Spawn
  <1>3. generation \in Nat /\ thread \in Nat /\ generation = thread
    BY DEF TypeOK, ChatTypeOK, HistoryTypeOK, GenerationIsThread
  <1>4. new \in Tasks
    BY <1>3 DEF Tasks
  <1>5. task \in [Turns -> Tasks] /\ request \in [Turns -> Requests \cup {None}]
    BY DEF TypeOK, TasksTypeOK
  <1>. HIDE DEF t, new
  <1>6. task' \in [Turns -> Tasks] /\ request' \in [Turns -> Requests \cup {None}]
    BY <1>1, <1>2, <1>4, <1>5
  <1>7. task'[t] = new /\ \A u \in Turns : u # t => task'[u] = task[u]
    BY <1>1, <1>2, <1>5
  <1>8. \A u \in Turns : u <= spawned => u # t
    BY <1>1 DEF t, Turns
  <1>9. GoodEvents \subseteq GoodEvents'
    BY <1>1, <1>2, <1>7, <1>8, GoodEventsStay DEF t
  <1>10. ThreadTurns \subseteq ThreadTurns'
    BY <1>1, <1>2, <1>7, <1>8, ThreadTurnsStay DEF t
  <1>11. t \in ThreadTurns'
    BY <1>1, <1>2, <1>3, <1>7 DEF ThreadTurns, new
  <1>12. Len(lines) \in Nat
    BY LenProperties
  <1>13. messages' \in Seq(LinesOf(ThreadTurns')) /\ Len(messages') = Len(lines) + 1
    <2>1. lines \in Seq(LinesOf(ThreadTurns'))
      BY <1>10, SeqLinesMono
    <2>2. Line("User", <<t>>, FALSE) \in LinesOf(ThreadTurns')
      BY <1>11, SingletonSeq, LineType DEF Roles
    <2>. QED BY <1>2, <2>1, <2>2, AppendProperties
  <1>14. Transcript'
    <2>1. Streamed' = <<>>
      BY <1>2 DEF Streamed
    <2>. QED BY <1>13, <2>1, EmptySeq DEF Transcript
  <1>15. messages' \in Seq(Lines)
    <2>1. ThreadTurns' \subseteq Turns
      BY DEF ThreadTurns
    <2>. QED BY <1>13, <2>1, SeqLinesMono, LinesAreLines
  <1>16. turn_started' \in [from : Nat, turn : Turns]
    BY <1>1, <1>2, <1>12
  <1>17. PromptShown'
    BY <1>2, <1>12, <1>13 DEF PromptShown
  <1>18. Spawned'
    <2>1. turn' <= spawned'
      BY <1>1, <1>2
    <2>2. request'[t] = req /\ \A u \in Turns : u # t => request'[u] = request[u]
      BY <1>1, <1>2, <1>5
    <2>3. \A u \in Turns : u <= spawned => u <= spawned'
      BY <1>1, <1>2 DEF t, Turns
    <2>4. t <= spawned'
      BY <1>1, <1>2
    <2>. QED BY <1>7, <2>1, <2>2, <2>3, <2>4 DEF Spawned
  <1>19. GenerationIsThread'
    BY <1>1, <1>2, <1>3, <1>7 DEF GenerationIsThread, new
  <1>20. BusyIffTurn'
    BY <1>1, <1>2, ChatAssumption DEF BusyIffTurn
  <1>21. streaming' \in Seq(Turns)
    BY <1>2, EmptySeq
  <1>. QED
    BY <1>1, <1>2, <1>6, <1>9, <1>14, <1>15, <1>16, <1>17, <1>18, <1>19, <1>20,
       <1>21 DEF t

LEMMA BuildRequestType ==
  ASSUME TypeOK, NEW pending \in Interrupts \cup {None},
         NEW parent \in Msgs \cup {None}
  PROVE  BuildRequest(pending, parent) \in Requests
  <1>1. /\ chat_uid \in Msgs \cup {None} /\ message_id \in Msgs \cup {None}
        /\ account \in Accounts
    BY DEF TypeOK, ChatTypeOK, UiTypeOK
  <1>2. pending # None => pending.msg \in Msgs
    BY DEF Interrupts
  <1>. QED BY <1>1, <1>2 DEF BuildRequest, Requests

LEMMA ReportTypes ==
  ASSUME TypeOK
  PROVE  /\ ReportFinish \in SUBSET Turns /\ AbandonReport \in Reports
         /\ [reported EXCEPT !.finishes = ReportFinish] \in Reports
         /\ spawned < MaxTurns =>
              /\ Started \in Reports
              /\ [[reported EXCEPT !.finishes = ReportFinish]
                    EXCEPT !.starts = @ \cup {spawned + 1}] \in Reports
  <1>1. reported \in Reports /\ turn_started \in [from : Nat, turn : Turns] \cup {None}
    BY DEF TypeOK, HistoryTypeOK, ChatTypeOK, Reports
  <1>2. ReportFinish \in SUBSET Turns
    BY <1>1 DEF ReportFinish, Reports
  <1>3. spawned < MaxTurns => spawned + 1 \in Turns
    BY ChatAssumption DEF TypeOK, HistoryTypeOK, Turns
  <1>. QED BY <1>1, <1>2, <1>3 DEF AbandonReport, Started, Reports

LEMMA AbandonStep ==
  ASSUME TypeOK, AbandonTurn
  PROVE  /\ task' \in [Turns -> Tasks]
         /\ \A t \in Turns : /\ task'[t].generation = task[t].generation
                             /\ task'[t].thread = task[t].thread
                             /\ task'[t].msg = task[t].msg
                             /\ task'[t].st # "idle" => task[t].st # "idle"
         /\ turn' = None /\ reported' \in Reports
  <1>1. task \in [Turns -> Tasks] /\ turn \in Turns \cup {None}
    BY DEF TypeOK, TasksTypeOK, UiTypeOK
  <1>2. /\ Aborted \in [Turns -> Tasks]
        /\ \A t \in Turns : /\ Aborted[t].generation = task[t].generation
                            /\ Aborted[t].thread = task[t].thread
                            /\ Aborted[t].msg = task[t].msg
                            /\ Aborted[t].st # "idle" => task[t].st # "idle"
    <2>1. CASE turn = None \/ task[turn].st # "live"
      BY <1>1, <2>1 DEF Aborted
    <2>2. CASE turn # None /\ task[turn].st = "live"
      BY <1>1, <2>2 DEF Aborted, Tasks
    <2>. QED BY <2>1, <2>2
  <1>. QED BY <1>2, ReportTypes DEF AbandonTurn

----------------------------------------------------------------------------
(* The initial states.                                                     *)

LEMMA InitIInv == Init => IInv
  <1>. SUFFICES ASSUME Init PROVE IInv
    OBVIOUS
  <1>1. ChatTypeOK
    BY EmptySeq DEF Init, ChatTypeOK
  <1>2. UiTypeOK /\ ChannelsTypeOK /\ HistoryTypeOK
    BY EmptySeq, ChatAssumption
    DEF Init, UiTypeOK, ChannelsTypeOK, HistoryTypeOK, Accounts
  <1>3. server \in [Msgs -> Messages] /\ AskingHasAsk
    <2>1. PICK past \in [{-1, 0} -> [st : Past, ask : Asks \cup {None}]] :
            /\ \A m \in {-1, 0} : past[m].ask = None <=> past[m].st # "asking"
            /\ server = [m \in Msgs |->
                 IF m > 0
                 THEN [st |-> "absent", ask |-> None, owner |-> 1, chat |-> m]
                 ELSE [st |-> past[m].st, ask |-> past[m].ask, owner |-> 1,
                       chat |-> 0]]
      BY DEF Init
    <2>2. \A m \in Msgs : m > 0 \/ m \in {-1, 0}
      BY ChatAssumption DEF Msgs
    <2>3. \A m \in {-1, 0} : /\ past[m].st \in {"finished", "failed", "asking"}
                             /\ past[m].ask \in Asks \cup {None}
      BY ChatAssumption
    <2>4. 0 \in Msgs
      BY ChatAssumption DEF Msgs
    <2>5. \A m \in Msgs : server[m] \in Messages
      BY <2>1, <2>2, <2>3, <2>4 DEF Messages, Accounts
    <2>6. AskingHasAsk
      BY <2>1, <2>2, <2>3 DEF AskingHasAsk
    <2>. QED BY <2>1, <2>5, <2>6
  <1>4. task \in [Turns -> Tasks] /\ request \in [Turns -> Requests \cup {None}]
    BY DEF Init, Tasks
  <1>5. TypeOK
    BY <1>1, <1>2, <1>3, <1>4 DEF TypeOK, TasksTypeOK
  <1>6. Transcript /\ EventsOfTasks
    BY EmptySeq DEF Init, Transcript, Streamed, EventsOfTasks
  <1>7. PromptShown /\ Spawned /\ QueueHasRoom /\ GenerationIsThread /\ BusyIffTurn
    BY DEF Init, PromptShown, Spawned, QueueHasRoom, GenerationIsThread, BusyIffTurn
  <1>. QED BY <1>3, <1>5, <1>6, <1>7 DEF IInv

----------------------------------------------------------------------------
(* The turn tasks.                                                         *)

\* Steps that leave the view alone: what the tasks, the events and the server
\* must keep.
LEMMA TaskStep ==
  ASSUME IInv, UNCHANGED <<chat, ui, turn, auth, loading, request, history>>,
         used' \in [Budgets -> Nat],
         server' \in [Msgs -> Messages], AskingHasAsk',
         task' \in [Turns -> Tasks],
         \A t \in Turns : /\ task'[t].generation = task[t].generation
                          /\ task'[t].thread = task[t].thread
                          /\ task[t].msg \in Msgs => task'[t].msg \in Msgs
                          /\ task'[t].st # "idle" => task[t].st # "idle",
         events \in Seq(GoodEvents') => events' \in Seq(GoodEvents')
  PROVE  IInv'
  <1>1. /\ UNCHANGED <<generation, messages, streaming, turn_error, further>>
        /\ UNCHANGED <<turn_started, busy, chat_uid, message_id>>
        /\ UNCHANGED <<parent_message_id, pending_interrupt, queued, view>>
        /\ UNCHANGED <<question, turn, ready, account, loads, loaded, request>>
        /\ UNCHANGED <<thread, reported, spawned>>
    BY DEF chat, transcript, ids, ui, auth, loading, history
  <1>2. TypeOK /\ spawned \in Nat
    BY ChatAssumption DEF IInv, TypeOK, HistoryTypeOK
  <1>3. GoodEvents \subseteq GoodEvents'
    BY <1>1, <1>2, GoodEventsStay
  <1>4. events' \in Seq(GoodEvents')
    BY <1>3, SeqMonotonic DEF IInv, EventsOfTasks
  <1>5. ThreadTurns \subseteq ThreadTurns'
    BY <1>1, <1>2, ThreadTurnsStay
  <1>6. Transcript'
    BY <1>1, <1>5, TranscriptStays DEF IInv
  <1>7. events' \in Seq(Events)
    BY <1>4, SeqMonotonic DEF GoodEvents
  <1>8. ChatTypeOK' /\ UiTypeOK'
    BY <1>1, <1>2 DEF TypeOK, ChatTypeOK, UiTypeOK
  <1>9. ChannelsTypeOK' /\ TasksTypeOK' /\ HistoryTypeOK'
    BY <1>1, <1>2, <1>7
    DEF TypeOK, ChannelsTypeOK, TasksTypeOK, HistoryTypeOK
  <1>10. PromptShown' /\ QueueHasRoom' /\ BusyIffTurn'
    BY <1>1 DEF IInv, PromptShown, QueueHasRoom, BusyIffTurn
  <1>11. Spawned' /\ GenerationIsThread'
    BY <1>1 DEF IInv, Spawned, GenerationIsThread
  <1>. QED BY <1>4, <1>6, <1>8, <1>9, <1>10, <1>11 DEF IInv, TypeOK, EventsOfTasks

\* An event of a running task is good in the next state.
LEMMA EventGood ==
  ASSUME IInv, NEW t \in Turns, Running(t), NEW kind \in Kinds,
         NEW ask \in Asks \cup {None}, NEW error \in BOOLEAN,
         kind \in {"TurnStarted", "Interrupt"} => task'[t].msg \in Msgs,
         kind = "Interrupt" => ask \in Asks,
         task'[t].generation = task[t].generation, spawned' = spawned
  PROVE  Event(t, kind, ask, error) \in GoodEvents'
  <1>1. t <= spawned /\ task[t].generation \in Nat
    BY DEF IInv, TypeOK, TasksTypeOK, Tasks, Spawned, Running
  <1>2. Event(t, kind, ask, error) \in Events
    BY <1>1 DEF Event, Events
  <1>. QED BY <1>1, <1>2 DEF Event, GoodEvents

LEMMA AcceptStep ==
  ASSUME IInv, NEW t \in Turns, Accept(t)
  PROVE  IInv'
  <1>. DEFINE r == request[t]
              m == IF r.kind = "New" THEN t ELSE r.msg
              asked == [st |-> "running", ask |-> None, owner |-> r.account,
                        chat |-> IF r.chat = None THEN t ELSE r.chat]
  <1>1. /\ Running(t) /\ task[t].msg = None
        /\ server' = [server EXCEPT ![m] = asked]
        /\ task' = [task EXCEPT ![t].msg = m, ![t].out = {"Started"}]
        /\ events' = Append(events, Plain(t, "TurnStarted"))
        /\ UNCHANGED <<chat, ui, turn, auth, loading, request, history, used>>
    BY DEF Accept
  <1>2. r \in Requests
    BY <1>1 DEF IInv, Spawned, Running
  <1>3. t \in Msgs
    BY ChatAssumption DEF Turns, Msgs
  <1>4. m \in Msgs /\ asked \in Messages
    BY <1>2, <1>3 DEF Requests, Messages
  <1>. HIDE DEF r, m, asked
  <1>5. server \in [Msgs -> Messages] /\ task \in [Turns -> Tasks]
        /\ used \in [Budgets -> Nat]
    BY DEF IInv, TypeOK, TasksTypeOK, HistoryTypeOK
  <1>6. server' \in [Msgs -> Messages] /\ AskingHasAsk'
    <2>1. server' \in [Msgs -> Messages]
      BY <1>1, <1>4, <1>5
    <2>2. server'[m].st = "running" /\ \A n \in Msgs : n # m => server'[n] = server[n]
      BY <1>1, <1>4, <1>5 DEF asked
    <2>. QED BY <2>1, <2>2 DEF IInv, AskingHasAsk
  <1>7. task' \in [Turns -> Tasks]
    <2>1. [task[t] EXCEPT !.msg = m, !.out = {"Started"}] \in Tasks
      BY <1>4, <1>5 DEF Tasks
    <2>2. task' = [task EXCEPT ![t] = [task[t] EXCEPT !.msg = m, !.out = {"Started"}]]
      BY <1>1, <1>5 DEF Tasks
    <2>. QED BY <1>5, <2>1, <2>2
  <1>8. \A u \in Turns : /\ task'[u].generation = task[u].generation
                         /\ task'[u].thread = task[u].thread
                         /\ task[u].msg \in Msgs => task'[u].msg \in Msgs
                         /\ task'[u].st # "idle" => task[u].st # "idle"
    BY <1>1, <1>4, <1>5 DEF Tasks
  <1>9. task'[t].msg \in Msgs /\ spawned' = spawned
    BY <1>1, <1>4, <1>5 DEF Tasks, history
  <1>10. Plain(t, "TurnStarted") \in GoodEvents'
    <2>1. task'[t].generation = task[t].generation
      BY <1>1, <1>5 DEF Tasks
    <2>. QED BY <1>1, <1>9, <2>1, EventGood DEF Plain, Kinds
  <1>11. events \in Seq(GoodEvents') => events' \in Seq(GoodEvents')
    BY <1>1, <1>10, AppendProperties
  <1>. QED BY <1>1, <1>5, <1>6, <1>7, <1>8, <1>11, TaskStep

\* Steps of one task that send and leave the server alone.
LEMMA SendingStep ==
  ASSUME IInv, NEW t \in Turns, Running(t),
         UNCHANGED <<chat, ui, turn, auth, loading, request, server, history>>,
         used' \in [Budgets -> Nat],
         task' \in [Turns -> Tasks],
         \A u \in Turns : /\ task'[u].generation = task[u].generation
                          /\ task'[u].thread = task[u].thread
                          /\ task'[u].msg = task[u].msg
                          /\ task'[u].st # "idle" => task[u].st # "idle",
         events \in Seq(GoodEvents') => events' \in Seq(GoodEvents')
  PROVE  IInv'
  <1>1. server' \in [Msgs -> Messages] /\ AskingHasAsk'
    BY DEF IInv, TypeOK, TasksTypeOK, AskingHasAsk
  <1>2. \A u \in Turns : /\ task'[u].generation = task[u].generation
                         /\ task'[u].thread = task[u].thread
                         /\ task[u].msg \in Msgs => task'[u].msg \in Msgs
                         /\ task'[u].st # "idle" => task[u].st # "idle"
    OBVIOUS
  <1>. QED BY <1>1, <1>2, TaskStep

LEMMA SendStep ==
  ASSUME IInv, NEW t \in Turns, NEW evs, NEW what,
         Send(t, evs, what), UNCHANGED <<server, used>>,
         what \subseteq Feed \cup Outcome \cup {"Started"},
         task'[t].generation = task[t].generation /\ task'[t].msg = task[t].msg
           /\ spawned' = spawned => evs \in Seq(GoodEvents')
  PROVE  IInv'
  <1>1. task \in [Turns -> Tasks] /\ used \in [Budgets -> Nat]
    BY DEF IInv, TypeOK, TasksTypeOK, HistoryTypeOK
  <1>2. /\ Running(t) /\ events' = events \o evs
        /\ task' = [task EXCEPT ![t].out = @ \cup what]
        /\ UNCHANGED <<chat, ui, turn, auth, loading, request, history>>
    BY DEF Send
  <1>3. task' \in [Turns -> Tasks]
    <2>1. task[t] \in Tasks
      BY <1>1
    <2>2. task[t].out \cup what \subseteq Feed \cup Outcome \cup {"Started"}
      BY <2>1 DEF Tasks
    <2>3. [task[t] EXCEPT !.out = @ \cup what] \in Tasks
      BY <2>1, <2>2 DEF Tasks
    <2>. QED BY <1>1, <1>2, <2>3
  <1>4. \A u \in Turns : /\ task'[u].generation = task[u].generation
                         /\ task'[u].thread = task[u].thread
                         /\ task'[u].msg = task[u].msg
                         /\ task'[u].st = task[u].st
    BY <1>1, <1>2 DEF Tasks
  <1>5. evs \in Seq(GoodEvents')
    BY <1>2, <1>4 DEF history
  <1>6. events \in Seq(GoodEvents') => events' \in Seq(GoodEvents')
    BY <1>2, <1>5, ConcatProperties
  <1>. QED BY <1>1, <1>2, <1>3, <1>4, <1>6, SendingStep

LEMMA StreamStep ==
  ASSUME IInv, NEW t \in Turns, Stream(t)
  PROVE  IInv'
  <1>. DEFINE same == /\ task'[t].generation = task[t].generation
                      /\ task'[t].msg = task[t].msg /\ spawned' = spawned
              m == task[t].msg
  <1>1. Running(t) /\ m \in Msgs /\ UNCHANGED <<server, used>>
    BY DEF Stream, IInv, TypeOK, TasksTypeOK, Tasks
  <1>2. ASSUME NEW kind \in Kinds, kind # "Interrupt", same
        PROVE  Plain(t, kind) \in GoodEvents'
    BY <1>1, <1>2, EventGood DEF Plain
  <1>3. ASSUME NEW kind \in Kinds, kind # "Interrupt", same
        PROVE  <<Plain(t, kind)>> \in Seq(GoodEvents')
    BY <1>2, <1>3, SingletonSeq
  <1>4. ASSUME Send(t, <<Plain(t, "TurnStarted")>>, {"Started"}) PROVE IInv'
    BY <1>1, <1>3, <1>4, SendStep DEF Kinds
  <1>5. ASSUME "Tool" \in Feed, Send(t, <<Plain(t, "ToolStarted")>>, {"Tool"})
        PROVE  IInv'
    BY <1>1, <1>3, <1>5, SendStep DEF Kinds
  <1>6. ASSUME "ToolDone" \in Feed,
               NEW evs \in {<<Plain(t, "ToolFinished")>>,
                            <<Plain(t, "ToolFinished"), Plain(t, "TurnError")>>},
               Send(t, evs, {"ToolDone"})
        PROVE  IInv'
    <2>1. same => <<Plain(t, "ToolFinished")>> \in Seq(GoodEvents')
      BY <1>3 DEF Kinds
    <2>2. same => /\ Plain(t, "ToolFinished") \in GoodEvents'
                  /\ Plain(t, "TurnError") \in GoodEvents'
      BY <1>2 DEF Kinds
    <2>3. same => <<Plain(t, "ToolFinished"), Plain(t, "TurnError")>> \in Seq(GoodEvents')
      BY <2>2, PairSeq
    <2>. QED BY <1>1, <1>6, <2>1, <2>3, SendStep
  <1>7. ASSUME "Delta" \in Feed, Send(t, <<Plain(t, "Delta")>>, {"Delta"})
        PROVE  IInv'
    BY <1>1, <1>3, <1>7, SendStep DEF Kinds
  <1>8. ASSUME Send(t, <<Plain(t, "Meta")>>, {"Meta"}) PROVE IInv'
    BY <1>1, <1>3, <1>8, SendStep DEF Kinds, Outcome
  <1>9. ASSUME Send(t, <<Plain(t, "TurnError")>>, {"Error"}) PROVE IInv'
    BY <1>1, <1>3, <1>9, SendStep DEF Kinds, Outcome
  <1>10. ASSUME Status(t) = "asking",
                Send(t, <<Plain(t, "Delta"),
                          Event(t, "Interrupt", server[m].ask, FALSE)>>, {"Ask"})
         PROVE  IInv'
    <2>1. server[m].ask \in Asks
      BY <1>1, <1>10 DEF IInv, AskingHasAsk, Status
    <2>2. same => Event(t, "Interrupt", server[m].ask, FALSE) \in GoodEvents'
      BY <1>1, <2>1, EventGood DEF Kinds
    <2>3. same => Plain(t, "Delta") \in GoodEvents'
      BY <1>2 DEF Kinds
    <2>4. same => <<Plain(t, "Delta"), Event(t, "Interrupt", server[m].ask, FALSE)>>
                    \in Seq(GoodEvents')
      BY <2>2, <2>3, PairSeq
    <2>. QED BY <1>1, <1>10, <2>4, SendStep DEF Outcome
  <1>. QED
    BY <1>4, <1>5, <1>6, <1>7, <1>8, <1>9, <1>10 DEF Stream

LEMMA DisconnectStep ==
  ASSUME IInv, NEW t \in Turns, Disconnect(t)
  PROVE  IInv'
  <1>1. task \in [Turns -> Tasks] /\ used \in [Budgets -> Nat]
    BY DEF IInv, TypeOK, TasksTypeOK, HistoryTypeOK
  <1>2. /\ Running(t) /\ events' = Append(events, Plain(t, "StreamInterrupted"))
        /\ UNCHANGED <<chat, ui, turn, auth, loading, request, server, history>>
        /\ used' \in [Budgets -> Nat]
    BY <1>1, SpendStep DEF Disconnect, Budgets
  <1>3. PICK back \in BOOLEAN :
          task' = [task EXCEPT ![t].out = {}, ![t].readback = back]
    BY DEF Disconnect
  <1>4. task' \in [Turns -> Tasks]
    <2>1. [task[t] EXCEPT !.out = {}, !.readback = back] \in Tasks
      BY <1>1 DEF Tasks
    <2>2. task' = [task EXCEPT ![t] = [task[t] EXCEPT !.out = {}, !.readback = back]]
      BY <1>1, <1>3 DEF Tasks
    <2>. QED BY <1>1, <2>1, <2>2
  <1>5. \A u \in Turns : /\ task'[u].generation = task[u].generation
                         /\ task'[u].thread = task[u].thread
                         /\ task'[u].msg = task[u].msg
                         /\ task'[u].st = task[u].st
    BY <1>1, <1>3 DEF Tasks
  <1>6. Plain(t, "StreamInterrupted") \in GoodEvents'
    BY <1>2, <1>5, EventGood DEF Plain, Kinds, history
  <1>7. events \in Seq(GoodEvents') => events' \in Seq(GoodEvents')
    BY <1>2, <1>6, AppendProperties
  <1>. QED BY <1>2, <1>4, <1>5, <1>7, SendingStep

LEMMA EndStep ==
  ASSUME IInv, NEW t \in Turns, End(t)
  PROVE  IInv'
  <1>1. task \in [Turns -> Tasks] /\ used \in [Budgets -> Nat]
    BY DEF IInv, TypeOK, TasksTypeOK, HistoryTypeOK
  <1>2. PICK error \in BOOLEAN : events' = events \o LastEvent(t, error)
    BY DEF End
  <1>3. /\ Running(t) /\ task' = [task EXCEPT ![t].st = "ended"]
        /\ UNCHANGED <<chat, ui, turn, auth, loading, request, server, history, used>>
    BY DEF End
  <1>4. task' \in [Turns -> Tasks]
    BY <1>1, <1>3 DEF Tasks
  <1>5. \A u \in Turns : /\ task'[u].generation = task[u].generation
                         /\ task'[u].thread = task[u].thread
                         /\ task'[u].msg = task[u].msg
                         /\ task'[u].st # "idle" => task[u].st # "idle"
    BY <1>1, <1>3 DEF Tasks, Running
  <1>6. Event(t, "TurnFinished", None, error) \in GoodEvents'
    BY <1>3, <1>5, EventGood DEF Kinds, history
  <1>7. LastEvent(t, error) \in Seq(GoodEvents')
    BY <1>6, SingletonSeq DEF LastEvent
  <1>8. events \in Seq(GoodEvents') => events' \in Seq(GoodEvents')
    BY <1>2, <1>7, ConcatProperties
  <1>9. UNCHANGED server /\ used' \in [Budgets -> Nat]
    BY <1>1, <1>3
  <1>. QED BY <1>3, <1>4, <1>5, <1>8, <1>9, SendingStep

LEMMA AbortLandsStep ==
  ASSUME IInv, NEW t \in Turns, AbortLands(t)
  PROVE  IInv'
  <1>1. task \in [Turns -> Tasks] /\ used \in [Budgets -> Nat]
        /\ server \in [Msgs -> Messages] /\ AskingHasAsk
    BY DEF IInv, TypeOK, TasksTypeOK, HistoryTypeOK
  <1>2. /\ task[t].st # "idle" /\ task' = [task EXCEPT ![t].st = "ended"]
        /\ UNCHANGED <<chat, ui, turn, auth, loading, request, history>>
        /\ UNCHANGED <<events, server, used>>
    BY DEF AbortLands
  <1>3. task' \in [Turns -> Tasks]
    BY <1>1, <1>2 DEF Tasks
  <1>4. \A u \in Turns : /\ task'[u].generation = task[u].generation
                         /\ task'[u].thread = task[u].thread
                         /\ task'[u].msg = task[u].msg
                         /\ task'[u].st # "idle" => task[u].st # "idle"
    BY <1>1, <1>2 DEF Tasks
  <1>5. AskingHasAsk'
    BY <1>1, <1>2 DEF AskingHasAsk
  <1>. QED BY <1>1, <1>2, <1>3, <1>4, <1>5, TaskStep

LEMMA SettleStep ==
  ASSUME IInv, NEW m \in Msgs, Settle(m)
  PROVE  IInv'
  <1>1. task \in [Turns -> Tasks] /\ used \in [Budgets -> Nat]
        /\ server \in [Msgs -> Messages] /\ AskingHasAsk
    BY DEF IInv, TypeOK, TasksTypeOK, HistoryTypeOK
  <1>2. /\ UNCHANGED <<chat, ui, turn, auth, loading, request, history>>
        /\ UNCHANGED <<events, task, used>>
    BY DEF Settle
  <1>3. server' \in [Msgs -> Messages] /\ AskingHasAsk'
    <2>1. CASE \E st \in {"finished", "failed"} :
                 server' = [server EXCEPT ![m].st = st]
      BY <1>1, <2>1 DEF Messages, AskingHasAsk
    <2>2. CASE \E a \in Asks :
                 server' = [server EXCEPT ![m].st = "asking", ![m].ask = a]
      <3>1. PICK a \in Asks :
              server' = [server EXCEPT ![m].st = "asking", ![m].ask = a]
        BY <2>2
      <3>. DEFINE new == [server[m] EXCEPT !.st = "asking", !.ask = a]
      <3>2. server' = [server EXCEPT ![m] = new]
        BY <1>1, <3>1 DEF Messages
      <3>3. new \in Messages /\ new.ask \in Asks
        <4>1. server[m] \in Messages
          BY <1>1
        <4>2. new \in Messages
          BY <4>1, <3>1 DEF Messages
        <4>3. new.ask = a
          BY <4>1 DEF Messages
        <4>. QED BY <4>2, <4>3, <3>1
      <3>4. /\ server' \in [Msgs -> Messages] /\ server'[m] = new
            /\ \A n \in Msgs : n # m => server'[n] = server[n]
        BY <1>1, <3>2, <3>3
      <3>. QED BY <1>1, <3>3, <3>4 DEF AskingHasAsk
    <2>. QED BY <2>1, <2>2 DEF Settle
  <1>. QED BY <1>1, <1>2, <1>3, TaskStep

----------------------------------------------------------------------------
(* The loop's turn_rx branch.                                              *)

\* What the loop takes from the channel is a good event of a turn of the
\* conversation on screen: this is what the generation gate is for.
LEMMA ReceiveStep ==
  ASSUME IInv, NEW kind, Receive(kind)
  PROVE  /\ Head(events) \in GoodEvents /\ Head(events).kind = kind
         /\ Head(events).turn \in ThreadTurns
         /\ events' \in Seq(GoodEvents) /\ ChannelsTypeOK'
         /\ UNCHANGED <<ready, account, loads, loaded, server, used>>
  <1>1. /\ events # <<>> /\ Head(events).generation = generation
        /\ Head(events).kind = kind /\ events' = Tail(events)
        /\ UNCHANGED <<ready, account, loads, loaded, server, used>>
    BY DEF Receive, Current, auth, loading
  <1>2. Head(events) \in GoodEvents /\ events' \in Seq(GoodEvents)
    BY <1>1, HeadTailProperties DEF IInv, EventsOfTasks
  <1>3. Head(events).turn \in ThreadTurns
    BY <1>1, <1>2 DEF GoodEvents, Events, ThreadTurns, IInv, GenerationIsThread
  <1>4. events' \in Seq(Events)
    BY <1>2, SeqMonotonic DEF GoodEvents
  <1>. QED BY <1>1, <1>2, <1>3, <1>4 DEF IInv, TypeOK, ChannelsTypeOK

LEMMA MidTurnStep ==
  ASSUME IInv, NEW kind, Receive(kind), MidTurn,
         messages' \in Seq(LinesOf(ThreadTurns)), PromptShown',
         streaming' = streaming \/ streaming' \in Seq(ThreadTurns),
         chat_uid' \in Msgs \cup {None}, message_id' \in Msgs \cup {None},
         parent_message_id' = parent_message_id,
         pending_interrupt' \in Interrupts \cup {None},
         turn_error' \in BOOLEAN, further' \in BOOLEAN
  PROVE  IInv'
  <1>1. /\ UNCHANGED <<generation, busy, queued, turn_started, view, question>>
        /\ UNCHANGED <<turn, task, request, thread, reported, spawned>>
    BY DEF MidTurn, ui, history
  <1>2. /\ events' \in Seq(GoodEvents) /\ ChannelsTypeOK'
        /\ UNCHANGED <<ready, account, loads, loaded, server, used>>
    BY ReceiveStep
  <1>3. ThreadTurns' = ThreadTurns /\ GoodEvents' = GoodEvents
    BY <1>1 DEF ThreadTurns, GoodEvents
  <1>4. Streamed' \in Seq(ThreadTurns)
    BY EmptySeq DEF Streamed, IInv, Transcript
  <1>5. Transcript'
    BY <1>3, <1>4 DEF Transcript
  <1>6. messages' \in Seq(Lines) /\ streaming' \in Seq(Turns) \cup {None}
    <2>1. ThreadTurns \subseteq Turns
      BY DEF ThreadTurns
    <2>2. \A s \in Seq(ThreadTurns) : s \in Seq(Turns)
      BY <2>1, SeqMonotonic
    <2>3. streaming \in Seq(Turns) \cup {None}
      BY DEF IInv, TypeOK, ChatTypeOK
    <2>. QED BY <2>1, <2>2, <2>3, SeqLinesMono, LinesAreLines
  <1>7. ChatTypeOK'
    BY <1>1, <1>6 DEF IInv, TypeOK, ChatTypeOK
  <1>8. UiTypeOK' /\ TasksTypeOK' /\ HistoryTypeOK'
    BY <1>1, <1>2 DEF IInv, TypeOK, UiTypeOK, TasksTypeOK, HistoryTypeOK
  <1>9. EventsOfTasks'
    BY <1>2, <1>3 DEF EventsOfTasks
  <1>10. Spawned' /\ QueueHasRoom' /\ GenerationIsThread' /\ AskingHasAsk' /\ BusyIffTurn'
    BY <1>1, <1>2 DEF IInv, Spawned, QueueHasRoom, GenerationIsThread, AskingHasAsk,
                     BusyIffTurn
  <1>. QED BY <1>2, <1>5, <1>7, <1>8, <1>9, <1>10 DEF IInv, TypeOK

\* The six events that only report progress, and the two that void it.
LEMMA ReceiveSteps ==
  ASSUME IInv,
         \/ ReceiveTurnStarted \/ ReceiveDelta \/ ReceiveToolStarted
         \/ ReceiveToolFinished \/ ReceiveMeta \/ ReceiveInterrupt
         \/ ReceiveTurnError \/ ReceiveStreamInterrupted
  PROVE  IInv'
  <1>. DEFINE e == Head(events)
  <1>1. /\ messages \in Seq(LinesOf(ThreadTurns)) /\ Streamed \in Seq(ThreadTurns)
        /\ Len(messages) \in Nat /\ PromptShown
        /\ turn_started \in [from : Nat, turn : Turns] \cup {None}
        /\ turn_error \in BOOLEAN /\ further \in BOOLEAN
        /\ chat_uid \in Msgs \cup {None} /\ message_id \in Msgs \cup {None}
        /\ pending_interrupt \in Interrupts \cup {None}
        /\ server \in [Msgs -> Messages]
    BY LenProperties DEF IInv, Transcript, TypeOK, ChatTypeOK, TasksTypeOK
  <1>2. MidTurn => turn_started' = turn_started
    BY DEF MidTurn
  <1>3. UNCHANGED <<messages, turn_started>> => PromptShown'
    BY <1>1 DEF PromptShown
  <1>4. CASE ReceiveTurnStarted
    <2>1. e \in GoodEvents /\ e.kind = "TurnStarted"
      BY <1>4, ReceiveStep DEF ReceiveTurnStarted
    <2>2. task[e.turn].msg \in Msgs
      BY <2>1 DEF GoodEvents
    <2>3. server[task[e.turn].msg].chat \in Msgs
      BY <1>1, <2>2 DEF Messages
    <2>. QED BY <1>1, <1>2, <1>3, <1>4, <2>2, <2>3, MidTurnStep DEF ReceiveTurnStarted
  <1>5. CASE ReceiveDelta
    <2>1. e.turn \in ThreadTurns
      BY <1>5, ReceiveStep DEF ReceiveDelta
    <2>2. streaming' \in Seq(ThreadTurns)
      BY <1>1, <1>5, <2>1, AppendProperties DEF ReceiveDelta
    <2>. QED BY <1>1, <1>2, <1>3, <1>5, <2>2, MidTurnStep DEF ReceiveDelta, ids
  <1>6. CASE ReceiveToolStarted
    <2>1. e.turn \in ThreadTurns
      BY <1>6, ReceiveStep DEF ReceiveToolStarted
    <2>2. Line("Tool", <<e.turn>>, TRUE) \in LinesOf(ThreadTurns)
      BY <2>1, SingletonSeq, LineType DEF Roles
    <2>3. /\ messages' \in Seq(LinesOf(ThreadTurns))
          /\ Len(messages') = Len(messages) + 1
      BY <1>1, <1>6, <2>2, AppendProperties DEF ReceiveToolStarted
    <2>4. PromptShown'
      BY <1>1, <1>2, <1>6, <2>3 DEF PromptShown, ReceiveToolStarted
    <2>. QED BY <1>1, <1>6, <2>3, <2>4, MidTurnStep DEF ReceiveToolStarted, ids
  <1>7. CASE ReceiveToolFinished
    <2>1. e.turn \in ThreadTurns
      BY <1>7, ReceiveStep DEF ReceiveToolFinished
    <2>2. messages' = ToolResolved(messages, e.turn)
      BY <1>7 DEF ReceiveToolFinished
    <2>3. messages' \in Seq(LinesOf(ThreadTurns))
      BY <1>1, <2>1, <2>2, ToolResolvedLines
    <2>4. Len(messages') >= Len(messages) /\ Len(messages') \in Nat
      BY <1>1, <2>1, <2>2, <2>3, ToolResolvedLines, LenProperties
    <2>5. PromptShown'
      BY <1>1, <1>2, <1>7, <2>4 DEF PromptShown, ReceiveToolFinished
    <2>. QED BY <1>1, <1>7, <2>3, <2>5, MidTurnStep DEF ReceiveToolFinished, ids
  <1>8. CASE ReceiveMeta
    BY <1>1, <1>2, <1>3, <1>8, MidTurnStep DEF ReceiveMeta, ids
  <1>9. CASE ReceiveInterrupt
    <2>1. e \in GoodEvents /\ e.kind = "Interrupt"
      BY <1>9, ReceiveStep DEF ReceiveInterrupt
    <2>2. task[e.turn].msg \in Msgs /\ e.ask \in Asks
      BY <2>1 DEF GoodEvents
    <2>3. [msg |-> task[e.turn].msg, ask |-> e.ask] \in Interrupts
      BY <2>2 DEF Interrupts
    <2>. QED BY <1>1, <1>2, <1>3, <1>9, <2>2, <2>3, MidTurnStep DEF ReceiveInterrupt
  <1>10. CASE ReceiveTurnError
    BY <1>1, <1>2, <1>3, <1>10, MidTurnStep DEF ReceiveTurnError, ids
  <1>11. CASE ReceiveStreamInterrupted
    <2>1. /\ messages' \in Seq(LinesOf(ThreadTurns))
          /\ turn_started # None => turn_started.from + 1 <= Len(messages')
      BY <1>1, <1>11, RewoundLines DEF ReceiveStreamInterrupted
    <2>2. PromptShown'
      BY <1>2, <1>11, <2>1 DEF PromptShown, ReceiveStreamInterrupted
    <2>3. streaming' \in Seq(ThreadTurns)
      BY <1>11, EmptySeq DEF ReceiveStreamInterrupted
    <2>. QED BY <1>1, <1>11, <2>1, <2>2, <2>3, MidTurnStep
             DEF ReceiveStreamInterrupted, ids
  <1>. QED BY <1>4, <1>5, <1>6, <1>7, <1>8, <1>9, <1>10, <1>11

LEMMA DropStaleStep ==
  ASSUME IInv, DropStale
  PROVE  IInv'
  <1>1. /\ events # <<>> /\ events' = Tail(events)
        /\ UNCHANGED <<chat, ui, turn, auth, loading, request, history>>
        /\ UNCHANGED <<task, server, used>>
    BY DEF DropStale
  <1>2. /\ task \in [Turns -> Tasks] /\ used \in [Budgets -> Nat]
        /\ server \in [Msgs -> Messages] /\ AskingHasAsk
    BY DEF IInv, TypeOK, TasksTypeOK, HistoryTypeOK
  <1>3. events \in Seq(GoodEvents') => events' \in Seq(GoodEvents')
    BY <1>1, HeadTailProperties
  <1>4. AskingHasAsk'
    BY <1>1, <1>2 DEF AskingHasAsk
  <1>. QED BY <1>1, <1>2, <1>3, <1>4, TaskStep

\* The end of a turn, and the queued prompt it may send.
LEMMA TurnFinishedStep ==
  ASSUME IInv, ReceiveTurnFinished
  PROVE  IInv'
  <1>. DEFINE failed == Head(events).error \/ turn_error
              pending == IF failed THEN None ELSE pending_interrupt
              parent == FinishedParent(failed)
              opens == pending # None /\ FullySelectable(pending)
              asked == IF opens THEN pending ELSE question
              shown == IF opens THEN "Question" ELSE view
              waits == asked # None /\ HasConfirmation(asked)
              ended == [reported EXCEPT !.finishes = ReportFinish]
  <1>1. /\ Head(events) \in GoodEvents /\ events' \in Seq(GoodEvents)
        /\ ChannelsTypeOK'
        /\ UNCHANGED <<ready, account, loads, loaded, server, used>>
    BY ReceiveStep DEF ReceiveTurnFinished
  <1>2. TypeOK /\ ChatTypeOK /\ UiTypeOK /\ TasksTypeOK /\ HistoryTypeOK
    BY DEF IInv, TypeOK
  <1>3. failed \in BOOLEAN
    BY <1>1, <1>2 DEF GoodEvents, Events, ChatTypeOK
  <1>4. /\ pending \in Interrupts \cup {None} /\ parent \in Msgs \cup {None}
        /\ asked \in Interrupts \cup {None}
        /\ shown \in {"Chat", "Question", "List"}
    BY <1>2 DEF ChatTypeOK, UiTypeOK, FinishedParent
  <1>5. FinishedLines(failed) \in Seq(LinesOf(ThreadTurns))
    BY <1>3, FinishedLinesOf DEF IInv, Transcript
  <1>6. ended \in Reports
    BY <1>2, ReportTypes
  <1>7. UNCHANGED <<generation, chat_uid, message_id, thread>> /\ parent_message_id' = parent
    BY DEF ReceiveTurnFinished
  <1>8. AskingHasAsk'
    BY <1>1 DEF IInv, AskingHasAsk
  <1>9. CASE TakeQueued(waits) = <<>>
    <2>1. /\ messages' = FinishedLines(failed) /\ streaming' = None
          /\ turn_error' = FALSE /\ turn_started' = None /\ busy' = FALSE
          /\ pending_interrupt' = pending /\ turn' = None /\ question' = asked
          /\ view' = shown /\ reported' = ended
          /\ UNCHANGED <<queued, further, request, task, spawned>>
      BY <1>9 DEF ReceiveTurnFinished
    <2>. HIDE DEF failed, pending, parent, asked, shown, ended
    <2>2. ThreadTurns' = ThreadTurns /\ GoodEvents' = GoodEvents
      BY <1>7, <2>1 DEF ThreadTurns, GoodEvents
    <2>3. Transcript'
      BY <1>5, <2>1, <2>2, EmptySeq DEF Transcript, Streamed
    <2>4. messages' \in Seq(Lines)
      <3>1. ThreadTurns \subseteq Turns
        BY DEF ThreadTurns
      <3>. QED BY <1>5, <2>1, <3>1, SeqLinesMono, LinesAreLines
    <2>5. ChatTypeOK' /\ UiTypeOK' /\ TasksTypeOK' /\ HistoryTypeOK'
      BY <1>1, <1>2, <1>4, <1>6, <1>7, <2>1, <2>4
      DEF ChatTypeOK, UiTypeOK, TasksTypeOK, HistoryTypeOK, Reports
    <2>6. /\ PromptShown' /\ Spawned' /\ QueueHasRoom' /\ GenerationIsThread'
          /\ EventsOfTasks' /\ BusyIffTurn'
      BY <1>1, <1>7, <2>1, <2>2
      DEF PromptShown, Spawned, QueueHasRoom, GenerationIsThread, EventsOfTasks,
          BusyIffTurn, IInv
    <2>. QED BY <1>1, <1>8, <2>3, <2>5, <2>6 DEF IInv, TypeOK
  <1>10. CASE TakeQueued(waits) # <<>>
    <2>. DEFINE report == [ended EXCEPT !.starts = @ \cup {spawned + 1}]
                req == BuildRequest(pending, parent)
    <2>1. /\ queued' = <<>> /\ question' = None
          /\ view' = IF shown = "Question" THEN "Chat" ELSE shown
          /\ Spawn(req, FinishedLines(failed), report)
      BY <1>10 DEF ReceiveTurnFinished
    <2>2. spawned < MaxTurns
      BY <1>10 DEF TakeQueued, IInv, QueueHasRoom
    <2>3. req \in Requests
      BY <1>2, <1>4, BuildRequestType
    <2>4. report \in Reports
      BY <1>2, <2>2, ReportTypes
    <2>. HIDE DEF failed, pending, parent, asked, shown, waits, ended, req, report
    <2>5. /\ Transcript' /\ PromptShown' /\ Spawned' /\ GenerationIsThread'
          /\ BusyIffTurn' /\ GoodEvents \subseteq GoodEvents'
          /\ busy' \in BOOLEAN /\ further' \in BOOLEAN /\ turn_error' \in BOOLEAN
          /\ streaming' \in Seq(Turns) /\ messages' \in Seq(Lines)
          /\ turn_started' \in [from : Nat, turn : Turns]
          /\ pending_interrupt' = None
          /\ task' \in [Turns -> Tasks]
          /\ request' \in [Turns -> Requests \cup {None}]
          /\ turn' \in Turns /\ reported' \in Reports
          /\ spawned' \in 0 .. MaxTurns
      BY <1>2, <1>5, <1>7, <2>1, <2>2, <2>3, <2>4, SpawnStep DEF IInv
    <2>6. ChatTypeOK'
      BY <1>2, <1>4, <1>7, <2>1, <2>5, EmptySeq DEF ChatTypeOK
    <2>7. UiTypeOK' /\ TasksTypeOK' /\ HistoryTypeOK'
      BY <1>1, <1>2, <1>4, <1>7, <2>1, <2>5
      DEF UiTypeOK, TasksTypeOK, HistoryTypeOK, Reports
    <2>8. EventsOfTasks' /\ QueueHasRoom'
      BY <1>1, <2>1, <2>5, SeqMonotonic DEF EventsOfTasks, QueueHasRoom
    <2>. QED BY <1>1, <1>8, <2>5, <2>6, <2>7, <2>8 DEF IInv, TypeOK
  <1>. QED BY <1>9, <1>10

----------------------------------------------------------------------------
(* The reader.                                                             *)

\* Steps that touch neither the conversation nor its turns.
LEMMA AsideStep ==
  ASSUME IInv,
         UNCHANGED <<generation, transcript, busy, ids, pending_interrupt, turn>>,
         UNCHANGED <<events, task, request, server, history>>,
         queued' \in Seq(Nat), QueueHasRoom',
         view' \in {"Chat", "Question", "List"}, question' \in Interrupts \cup {None},
         ready' \in BOOLEAN, account' \in Accounts,
         loads' \subseteq Msgs \X Nat, loaded' \in Seq(Snapshots \cup {None}),
         used' \in [Budgets -> Nat]
  PROVE  IInv'
  <1>1. /\ UNCHANGED <<generation, messages, streaming, turn_error, further>>
        /\ UNCHANGED <<turn_started, busy, chat_uid, message_id>>
        /\ UNCHANGED <<parent_message_id, pending_interrupt, turn>>
        /\ UNCHANGED <<events, task, request, server, thread, reported, spawned>>
    BY DEF transcript, ids, history
  <1>2. ThreadTurns' = ThreadTurns /\ GoodEvents' = GoodEvents
    BY <1>1 DEF ThreadTurns, GoodEvents
  <1>3. Transcript' /\ EventsOfTasks'
    BY <1>1, <1>2 DEF IInv, Transcript, Streamed, EventsOfTasks
  <1>4. ChatTypeOK' /\ UiTypeOK'
    BY <1>1 DEF IInv, TypeOK, ChatTypeOK, UiTypeOK
  <1>5. ChannelsTypeOK' /\ TasksTypeOK' /\ HistoryTypeOK'
    BY <1>1 DEF IInv, TypeOK, ChannelsTypeOK, TasksTypeOK, HistoryTypeOK
  <1>6. PromptShown' /\ Spawned' /\ GenerationIsThread' /\ AskingHasAsk' /\ BusyIffTurn'
    BY <1>1 DEF IInv, PromptShown, Spawned, GenerationIsThread, AskingHasAsk, BusyIffTurn
  <1>. QED BY <1>3, <1>4, <1>5, <1>6 DEF IInv, TypeOK

\* The parts of the state an AsideStep asks about, as they are.
LEMMA AsideTypes ==
  ASSUME IInv
  PROVE  /\ queued \in Seq(Nat) /\ QueueHasRoom
         /\ view \in {"Chat", "Question", "List"} /\ question \in Interrupts \cup {None}
         /\ ready \in BOOLEAN /\ account \in Accounts
         /\ loads \subseteq Msgs \X Nat /\ loaded \in Seq(Snapshots \cup {None})
         /\ used \in [Budgets -> Nat] /\ spawned \in Nat
         /\ server \in [Msgs -> Messages]
  BY ChatAssumption
  DEF IInv, TypeOK, ChatTypeOK, UiTypeOK, ChannelsTypeOK, HistoryTypeOK, TasksTypeOK

LEMMA QueuePromptStep ==
  ASSUME IInv, QueuePrompt
  PROVE  IInv'
  <1>1. /\ RoomForTurn /\ Spend("prompt") /\ queued' = Append(queued, used["prompt"])
        /\ UNCHANGED <<generation, transcript, busy, ids, pending_interrupt, turn>>
        /\ UNCHANGED <<events, task, request, server, history>>
        /\ UNCHANGED <<view, question, ready, account, loads, loaded>>
    BY DEF QueuePrompt, ui, auth, loading
  <1>2. used["prompt"] \in Nat /\ used' \in [Budgets -> Nat]
    BY <1>1, AsideTypes, SpendStep DEF Budgets
  <1>3. queued' \in Seq(Nat)
    BY <1>1, <1>2, AsideTypes, AppendProperties
  <1>4. spawned < MaxTurns
    BY <1>1, AsideTypes, ChatAssumption DEF RoomForTurn
  <1>5. QueueHasRoom'
    BY <1>1, <1>4 DEF QueueHasRoom, history
  <1>. QED BY <1>1, <1>2, <1>3, <1>5, AsideTypes, AsideStep

LEMMA NavigateStep ==
  ASSUME IInv, Navigate
  PROVE  IInv'
  <1>1. /\ UNCHANGED <<generation, transcript, busy, ids, pending_interrupt, turn>>
        /\ UNCHANGED <<events, task, request, server, history>>
        /\ UNCHANGED <<queued, ready, account, loads, loaded, used>>
    BY DEF Navigate, chat, auth, loading
  <1>2. view' \in {"Chat", "Question", "List"} /\ question' \in Interrupts \cup {None}
    BY AsideTypes DEF Navigate, SwitchTo
  <1>3. QueueHasRoom'
    BY <1>1, AsideTypes DEF QueueHasRoom, history
  <1>. QED BY <1>1, <1>2, <1>3, AsideTypes, AsideStep

LEMMA SignInStep ==
  ASSUME IInv, SignIn
  PROVE  IInv'
  <1>1. /\ UNCHANGED <<generation, transcript, busy, ids, pending_interrupt, turn>>
        /\ UNCHANGED <<events, task, request, server, history>>
        /\ UNCHANGED <<queued, view, question, loads, loaded>>
        /\ ready' = TRUE /\ account' \in Accounts /\ Spend("signin")
    BY DEF SignIn, chat, ui, loading
  <1>2. used' \in [Budgets -> Nat]
    BY <1>1, AsideTypes, SpendStep DEF Budgets
  <1>3. QueueHasRoom'
    BY <1>1, AsideTypes DEF QueueHasRoom, history
  <1>. QED BY <1>1, <1>2, <1>3, AsideTypes, AsideStep

LEMMA RequestLoadStep ==
  ASSUME IInv, RequestLoad
  PROVE  IInv'
  <1>1. /\ UNCHANGED <<generation, transcript, busy, ids, pending_interrupt, turn>>
        /\ UNCHANGED <<events, task, request, server, history>>
        /\ UNCHANGED <<queued, view, question, ready, account, loaded>>
        /\ Spend("load")
    BY DEF RequestLoad, chat, ui, auth
  <1>2. loads' \subseteq Msgs \X Nat
    <2>1. used["load"] \in Nat
      BY AsideTypes DEF Budgets
    <2>. QED BY <2>1, AsideTypes DEF RequestLoad
  <1>3. used' \in [Budgets -> Nat]
    BY <1>1, AsideTypes, SpendStep DEF Budgets
  <1>4. QueueHasRoom'
    BY <1>1, AsideTypes DEF QueueHasRoom, history
  <1>. QED BY <1>1, <1>2, <1>3, <1>4, AsideTypes, AsideStep

\* What is stored of a chat is a snapshot of it.
LEMMA StoredType ==
  ASSUME IInv, NEW c \in Msgs
  PROVE  Stored(c) \subseteq Snapshots
  <1>. SUFFICES ASSUME NEW l \in Stored(c) PROVE l \in Snapshots
    OBVIOUS
  <1>1. PICK last \in Latest(MessagesOf(c)) :
          \E parent \in LatestOrNone(Finished(c)), pending \in Pending(last) :
             l = [chat |-> c, msg |-> last, parent |-> parent, pending |-> pending]
    BY DEF Stored
  <1>2. PICK parent \in LatestOrNone(Finished(c)), pending \in Pending(last) :
          l = [chat |-> c, msg |-> last, parent |-> parent, pending |-> pending]
    BY <1>1
  <1>3. last \in Msgs
    BY <1>1 DEF Latest, MessagesOf
  <1>4. parent \in Msgs \cup {None}
    BY <1>2 DEF LatestOrNone, Latest, Finished, MessagesOf
  <1>5. pending \in Interrupts \cup {None}
    BY <1>2, <1>3 DEF Pending, Interrupts, IInv, AskingHasAsk
  <1>. QED BY <1>2, <1>3, <1>4, <1>5 DEF Snapshots

LEMMA FinishLoadStep ==
  ASSUME IInv, FinishLoad
  PROVE  IInv'
  <1>1. /\ UNCHANGED <<generation, transcript, busy, ids, pending_interrupt, turn>>
        /\ UNCHANGED <<events, task, request, server, history>>
        /\ UNCHANGED <<queued, view, question, ready, account, used>>
    BY DEF FinishLoad, chat, ui, auth
  <1>2. PICK load \in loads :
          /\ loads' = loads \ {load}
          /\ \/ \E l \in Stored(load[1]) : loaded' = Append(loaded, l)
             \/ loaded' = Append(loaded, None)
    BY DEF FinishLoad
  <1>3. loads' \subseteq Msgs \X Nat /\ load[1] \in Msgs
    BY <1>2, AsideTypes
  <1>4. loaded' \in Seq(Snapshots \cup {None})
    <2>1. PICK l \in Snapshots \cup {None} : loaded' = Append(loaded, l)
      BY <1>2, <1>3, StoredType
    <2>. QED BY <2>1, AsideTypes, AppendProperties
  <1>5. QueueHasRoom'
    BY <1>1, AsideTypes DEF QueueHasRoom, history
  <1>. QED BY <1>1, <1>3, <1>4, <1>5, AsideTypes, AsideStep

\* The reader's ways of starting a turn.
LEMMA StartingStep ==
  ASSUME IInv, RoomForTurn, NEW req \in Requests, NEW report \in Reports,
         Spawn(req, messages, report),
         UNCHANGED <<generation, ids, queued, auth, events, loading, server, thread>>,
         view' \in {"Chat", "Question", "List"}, question' \in Interrupts \cup {None},
         used' \in [Budgets -> Nat]
  PROVE  IInv'
  <1>1. /\ UNCHANGED <<generation, chat_uid, message_id, parent_message_id, queued>>
        /\ UNCHANGED <<ready, account, events, loads, loaded, server, thread>>
    BY DEF ids, auth, loading
  <1>2. TypeOK /\ ChatTypeOK /\ UiTypeOK /\ TasksTypeOK /\ HistoryTypeOK /\ ChannelsTypeOK
    BY DEF IInv, TypeOK
  <1>3. spawned < MaxTurns /\ (queued # <<>> => spawned + 1 < MaxTurns)
    BY ChatAssumption, AsideTypes DEF RoomForTurn
  <1>4. messages \in Seq(LinesOf(ThreadTurns))
    BY DEF IInv, Transcript
  <1>5. /\ Transcript' /\ PromptShown' /\ Spawned' /\ GenerationIsThread'
        /\ BusyIffTurn' /\ GoodEvents \subseteq GoodEvents'
        /\ busy' \in BOOLEAN /\ further' \in BOOLEAN /\ turn_error' \in BOOLEAN
        /\ streaming' \in Seq(Turns) /\ messages' \in Seq(Lines)
        /\ turn_started' \in [from : Nat, turn : Turns]
        /\ pending_interrupt' = None
        /\ task' \in [Turns -> Tasks]
        /\ request' \in [Turns -> Requests \cup {None}]
        /\ turn' \in Turns /\ reported' \in Reports
        /\ spawned' \in 0 .. MaxTurns /\ spawned' = spawned + 1
    BY <1>1, <1>2, <1>3, <1>4, SpawnStep DEF IInv
  <1>6. ChatTypeOK'
    BY <1>1, <1>2, <1>5 DEF ChatTypeOK
  <1>7. UiTypeOK' /\ TasksTypeOK' /\ HistoryTypeOK' /\ ChannelsTypeOK'
    BY <1>1, <1>2, <1>5
    DEF UiTypeOK, TasksTypeOK, HistoryTypeOK, ChannelsTypeOK, Reports
  <1>8. EventsOfTasks'
    BY <1>1, <1>5, SeqMonotonic DEF EventsOfTasks, IInv
  <1>9. QueueHasRoom' /\ AskingHasAsk'
    BY <1>1, <1>3, <1>5 DEF QueueHasRoom, AskingHasAsk, IInv
  <1>. QED BY <1>5, <1>6, <1>7, <1>8, <1>9 DEF IInv, TypeOK

LEMMA StartTurnStep ==
  ASSUME IInv, RoomForTurn, StartTurn, UNCHANGED ui, used' \in [Budgets -> Nat]
  PROVE  IInv'
  <1>1. TypeOK /\ pending_interrupt \in Interrupts \cup {None}
        /\ parent_message_id \in Msgs \cup {None}
    BY DEF IInv, TypeOK, ChatTypeOK
  <1>2. BuildRequest(pending_interrupt, parent_message_id) \in Requests
    BY <1>1, BuildRequestType
  <1>3. Started \in Reports
    BY <1>1, ReportTypes, AsideTypes, ChatAssumption DEF RoomForTurn
  <1>4. view' = view /\ question' = question
    BY DEF ui
  <1>. QED BY <1>2, <1>3, <1>4, AsideTypes, StartingStep DEF StartTurn

LEMMA SendPromptStep ==
  ASSUME IInv, SendPrompt \/ RetryLast
  PROVE  IInv'
  <1>1. used' \in [Budgets -> Nat]
    BY AsideTypes, SpendStep DEF SendPrompt, RetryLast, Budgets
  <1>. QED BY <1>1, StartTurnStep DEF SendPrompt, RetryLast

LEMMA ClickFurtherStep ==
  ASSUME IInv, ClickFurther
  PROVE  IInv'
  <1>1. TypeOK /\ pending_interrupt \in Interrupts \cup {None}
        /\ parent_message_id \in Msgs \cup {None} /\ reported \in Reports
    BY DEF IInv, TypeOK, ChatTypeOK, HistoryTypeOK, Reports
  <1>2. BuildRequest(pending_interrupt, parent_message_id) \in Requests
    BY <1>1, BuildRequestType
  <1>3. view' = view /\ question' = question /\ used' = used
    BY DEF ClickFurther, ui
  <1>. QED BY <1>1, <1>2, <1>3, AsideTypes, StartingStep DEF ClickFurther

LEMMA AnswerQuestionStep ==
  ASSUME IInv, AnswerQuestion
  PROVE  IInv'
  <1>1. /\ view' = "Chat" /\ question' = None /\ RoomForTurn /\ question # None
        /\ UNCHANGED <<generation, ids, queued, auth, events, loading, server, thread>>
        /\ used' = used
    BY DEF AnswerQuestion
  <1>2. CASE chat_uid # None /\ message_id # None
    <2>. DEFINE req == [kind |-> "Continue", chat |-> chat_uid, msg |-> message_id,
                        parent |-> None, asked |-> question.msg, account |-> account]
    <2>1. req \in Requests
      BY <1>1, <1>2, AsideTypes DEF Requests, Interrupts, IInv, TypeOK, ChatTypeOK
    <2>2. Started \in Reports
      BY <1>1, ReportTypes, AsideTypes, ChatAssumption DEF RoomForTurn, IInv
    <2>3. Spawn(req, messages, Started)
      BY <1>2 DEF AnswerQuestion
    <2>. HIDE DEF req
    <2>. QED BY <1>1, <2>1, <2>2, <2>3, AsideTypes, StartingStep
  <1>3. CASE ~(chat_uid # None /\ message_id # None)
    <2>1. /\ UNCHANGED <<generation, transcript, busy, ids, pending_interrupt, turn>>
          /\ UNCHANGED <<events, task, request, server, history>>
      BY <1>1, <1>3 DEF AnswerQuestion, history
    <2>2. UNCHANGED <<queued, ready, account, loads, loaded, used>>
      BY <1>1 DEF auth, loading
    <2>3. QueueHasRoom'
      BY <2>1, <2>2, AsideTypes DEF QueueHasRoom, history
    <2>. QED BY <1>1, <2>1, <2>2, <2>3, AsideTypes, AsideStep
  <1>. QED BY <1>2, <1>3

----------------------------------------------------------------------------
(* Dropping a turn.                                                        *)

\* Cancelling keeps the conversation: its lines stay those of its turns.
LEMMA CancelTurnStep ==
  ASSUME IInv, CancelTurn,
         chat_uid' \in Msgs \cup {None}, message_id' \in Msgs \cup {None},
         parent_message_id' \in Msgs \cup {None},
         UNCHANGED <<ui, events, loading, request, server, spawned>>,
         ready' \in BOOLEAN, account' \in Accounts, used' \in [Budgets -> Nat]
  PROVE  IInv'
  <1>1. /\ AbandonTurn /\ messages' = CancelledLines /\ streaming' = None
        /\ busy' = FALSE /\ queued' = <<>> /\ pending_interrupt' = None
        /\ turn_error' = FALSE /\ turn_started' = None
        /\ UNCHANGED <<generation, further, thread>>
        /\ UNCHANGED <<view, question, events, loads, loaded, request, server, spawned>>
    BY DEF CancelTurn, ui, loading
  <1>2. TypeOK /\ ChatTypeOK /\ UiTypeOK /\ TasksTypeOK /\ HistoryTypeOK /\ ChannelsTypeOK
    BY DEF IInv, TypeOK
  <1>3. /\ task' \in [Turns -> Tasks]
        /\ \A t \in Turns : /\ task'[t].generation = task[t].generation
                            /\ task'[t].thread = task[t].thread
                            /\ task'[t].msg = task[t].msg
                            /\ task'[t].st # "idle" => task[t].st # "idle"
        /\ turn' = None /\ reported' \in Reports
    BY <1>1, <1>2, AbandonStep
  <1>4. GoodEvents \subseteq GoodEvents' /\ ThreadTurns \subseteq ThreadTurns'
    BY <1>1, <1>2, <1>3, AsideTypes, GoodEventsStay, ThreadTurnsStay
  <1>5. CancelledLines \in Seq(LinesOf(ThreadTurns))
    BY CancelledLinesOf DEF IInv, Transcript
  <1>6. messages' \in Seq(LinesOf(ThreadTurns')) /\ messages' \in Seq(Lines)
    <2>1. ThreadTurns \subseteq Turns
      BY DEF ThreadTurns
    <2>. QED BY <1>1, <1>4, <1>5, <2>1, SeqLinesMono, LinesAreLines
  <1>7. Transcript'
    BY <1>1, <1>6, EmptySeq DEF Transcript, Streamed
  <1>8. ChatTypeOK'
    BY <1>1, <1>2, <1>6, EmptySeq DEF ChatTypeOK
  <1>9. UiTypeOK' /\ TasksTypeOK' /\ HistoryTypeOK' /\ ChannelsTypeOK'
    BY <1>1, <1>2, <1>3
    DEF UiTypeOK, TasksTypeOK, HistoryTypeOK, ChannelsTypeOK, Reports
  <1>10. EventsOfTasks'
    BY <1>1, <1>4, SeqMonotonic DEF EventsOfTasks, IInv
  <1>11. PromptShown' /\ QueueHasRoom' /\ BusyIffTurn' /\ AskingHasAsk'
    BY <1>1, <1>3 DEF PromptShown, QueueHasRoom, BusyIffTurn, AskingHasAsk, IInv
  <1>12. Spawned' /\ GenerationIsThread'
    BY <1>1, <1>3 DEF Spawned, GenerationIsThread, IInv
  <1>. QED BY <1>7, <1>8, <1>9, <1>10, <1>11, <1>12 DEF IInv, TypeOK

LEMMA CancelStep ==
  ASSUME IInv, Cancel
  PROVE  IInv'
  <1>1. UNCHANGED <<chat_uid, message_id, parent_message_id, ready, account>>
    BY DEF Cancel, ids, auth
  <1>2. used' \in [Budgets -> Nat]
    BY AsideTypes, SpendStep DEF Cancel, Budgets
  <1>. QED BY <1>1, <1>2, AsideTypes, CancelTurnStep
           DEF Cancel, IInv, TypeOK, ChatTypeOK

LEMMA SignOutStep ==
  ASSUME IInv, SignOut
  PROVE  IInv'
  <1>1. used' \in [Budgets -> Nat]
    BY AsideTypes, SpendStep DEF SignOut, Budgets
  <1>. QED BY <1>1, AsideTypes, CancelTurnStep DEF SignOut

\* Leaving the conversation moves the gate past all its turns, and nothing of
\* theirs stays on screen.
LEMMA LeaveStep ==
  ASSUME IInv, AbandonTurn, BumpGeneration, ClearTurnState, thread' = thread + 1,
         messages' \in Seq(LinesOf({})),
         chat_uid' \in Msgs \cup {None}, message_id' \in Msgs \cup {None},
         parent_message_id' \in Msgs \cup {None},
         pending_interrupt' \in Interrupts \cup {None},
         view' \in {"Chat", "Question", "List"}, question' \in Interrupts \cup {None},
         loads' \subseteq Msgs \X Nat, loaded' \in Seq(Snapshots \cup {None}),
         UNCHANGED <<auth, events, request, server, spawned>>,
         used' \in [Budgets -> Nat]
  PROVE  IInv'
  <1>1. /\ generation' = generation + 1 /\ streaming' = None /\ busy' = FALSE
        /\ queued' = <<>> /\ further' = FALSE /\ turn_error' = FALSE
        /\ turn_started' = None
        /\ UNCHANGED <<ready, account, events, request, server, spawned>>
    BY DEF BumpGeneration, ClearTurnState, auth
  <1>2. TypeOK /\ ChatTypeOK /\ UiTypeOK /\ TasksTypeOK /\ HistoryTypeOK /\ ChannelsTypeOK
    BY DEF IInv, TypeOK
  <1>3. /\ task' \in [Turns -> Tasks]
        /\ \A t \in Turns : /\ task'[t].generation = task[t].generation
                            /\ task'[t].thread = task[t].thread
                            /\ task'[t].msg = task[t].msg
                            /\ task'[t].st # "idle" => task[t].st # "idle"
        /\ turn' = None /\ reported' \in Reports
    BY <1>2, AbandonStep
  <1>4. GoodEvents \subseteq GoodEvents'
    BY <1>1, <1>2, <1>3, AsideTypes, GoodEventsStay
  <1>5. messages' \in Seq(LinesOf(ThreadTurns')) /\ messages' \in Seq(Lines)
    BY SeqLinesMono, LinesAreLines
  <1>6. Transcript'
    BY <1>1, <1>5, EmptySeq DEF Transcript, Streamed
  <1>7. ChatTypeOK'
    <2>1. queued' \in Seq(Nat) /\ generation' \in Nat
      BY <1>1, <1>2, EmptySeq DEF ChatTypeOK
    <2>. QED BY <1>1, <1>5, <2>1 DEF ChatTypeOK
  <1>8. UiTypeOK' /\ TasksTypeOK' /\ HistoryTypeOK' /\ ChannelsTypeOK'
    BY <1>1, <1>2, <1>3
    DEF UiTypeOK, TasksTypeOK, HistoryTypeOK, ChannelsTypeOK, Reports
  <1>9. EventsOfTasks'
    BY <1>1, <1>4, SeqMonotonic DEF EventsOfTasks, IInv
  <1>10. PromptShown' /\ QueueHasRoom' /\ BusyIffTurn' /\ AskingHasAsk'
    BY <1>1, <1>3 DEF PromptShown, QueueHasRoom, BusyIffTurn, AskingHasAsk, IInv
  <1>11. Spawned' /\ GenerationIsThread'
    BY <1>1, <1>3 DEF Spawned, GenerationIsThread, IInv
  <1>. QED BY <1>6, <1>7, <1>8, <1>9, <1>10, <1>11 DEF IInv, TypeOK

LEMMA NewSessionStep ==
  ASSUME IInv, NewSession
  PROVE  IInv'
  <1>1. used' \in [Budgets -> Nat]
    BY AsideTypes, SpendStep DEF NewSession, Budgets
  <1>2. view' = "Chat" /\ question' = None
    BY DEF NewSession, SwitchTo
  <1>3. messages' \in Seq(LinesOf({}))
    BY EmptySeq DEF NewSession
  <1>4. UNCHANGED <<auth, events, request, server, spawned, loads, loaded>>
    BY DEF NewSession, loading
  <1>. QED BY <1>1, <1>2, <1>3, <1>4, AsideTypes, LeaveStep DEF NewSession

LEMMA ReceiveLoadStep ==
  ASSUME IInv, ReceiveLoad
  PROVE  IInv'
  <1>. DEFINE l == Head(loaded)
  <1>1. /\ loaded # <<>> /\ loaded' = Tail(loaded)
        /\ UNCHANGED <<auth, events, loads, request, server, used>>
    BY DEF ReceiveLoad
  <1>2. l \in Snapshots \cup {None} /\ loaded' \in Seq(Snapshots \cup {None})
    BY <1>1, AsideTypes, HeadTailProperties
  <1>3. CASE l = None
    <2>1. UNCHANGED <<chat, ui, turn, task, history>>
      BY <1>3 DEF ReceiveLoad
    <2>2. /\ UNCHANGED <<generation, transcript, busy, ids, pending_interrupt, turn>>
          /\ UNCHANGED <<events, task, request, server, history>>
          /\ UNCHANGED <<queued, view, question, ready, account, loads, used>>
      BY <1>1, <2>1 DEF chat, ui, auth
    <2>3. QueueHasRoom'
      BY <2>2, AsideTypes DEF QueueHasRoom, history
    <2>. QED BY <1>2, <2>2, <2>3, AsideTypes, AsideStep
  <1>4. CASE l # None
    <2>1. /\ AbandonTurn /\ BumpGeneration /\ ClearTurnState
          /\ chat_uid' = l.chat /\ message_id' = l.msg /\ parent_message_id' = l.parent
          /\ pending_interrupt' = l.pending
          /\ messages' = <<Line("User", <<>>, FALSE)>>
          /\ IF l.pending # None /\ FullySelectable(l.pending)
             THEN question' = l.pending /\ view' = "Question"
             ELSE SwitchTo("Chat")
          /\ thread' = thread + 1 /\ UNCHANGED spawned
      BY <1>4 DEF ReceiveLoad
    <2>. HIDE DEF l
    <2>2. /\ l.chat \in Msgs /\ l.msg \in Msgs /\ l.parent \in Msgs \cup {None}
          /\ l.pending \in Interrupts \cup {None}
      BY <1>2, <1>4 DEF Snapshots
    <2>3. view' \in {"Chat", "Question", "List"} /\ question' \in Interrupts \cup {None}
      BY <2>1, <2>2 DEF SwitchTo
    <2>4. messages' \in Seq(LinesOf({}))
      BY <2>1, LineType, EmptySeq, SingletonSeq DEF Roles
    <2>5. used' \in [Budgets -> Nat] /\ loads' \subseteq Msgs \X Nat
      BY <1>1, AsideTypes
    <2>. QED BY <1>1, <1>2, <2>1, <2>2, <2>3, <2>4, <2>5, LeaveStep
  <1>. QED BY <1>3, <1>4

----------------------------------------------------------------------------
(* The theorems.                                                           *)

LEMMA StutterStep ==
  ASSUME IInv, UNCHANGED vars
  PROVE  IInv'
  <1>1. /\ UNCHANGED <<generation, transcript, busy, ids, pending_interrupt, turn>>
        /\ UNCHANGED <<events, task, request, server, history>>
        /\ UNCHANGED <<queued, view, question, ready, account, loads, loaded, used>>
    BY DEF vars, chat, ui, auth, loading
  <1>2. QueueHasRoom'
    BY <1>1, AsideTypes DEF QueueHasRoom, history
  <1>. QED BY <1>1, <1>2, AsideTypes, AsideStep

\* Whatever happens, in any order, the invariant is kept.
LEMMA NextIInv == IInv /\ [Next]_vars => IInv'
  <1>. SUFFICES ASSUME IInv, [Next]_vars PROVE IInv'
    OBVIOUS
  <1>1. CASE Reader
    BY <1>1, QueuePromptStep, SendPromptStep, ClickFurtherStep, AnswerQuestionStep,
       NavigateStep, CancelStep, NewSessionStep, SignOutStep, SignInStep,
       RequestLoadStep
    DEF Reader
  <1>2. CASE Loop
    BY <1>2, DropStaleStep, ReceiveSteps, TurnFinishedStep, ReceiveLoadStep DEF Loop
  <1>3. CASE FinishLoad
    BY <1>3, FinishLoadStep
  <1>4. CASE \E t \in Turns : TurnTask(t) \/ Disconnect(t)
    BY <1>4, AcceptStep, StreamStep, EndStep, AbortLandsStep, DisconnectStep
    DEF TurnTask
  <1>5. CASE \E m \in Msgs : Settle(m)
    BY <1>5, SettleStep
  <1>6. CASE UNCHANGED vars
    BY <1>6, StutterStep
  <1>. QED BY <1>1, <1>2, <1>3, <1>4, <1>5, <1>6 DEF Next

THEOREM Invariant == Spec => []IInv
  BY InitIInv, NextIInv, PTL DEF Spec

\* Every variable keeps its type: in particular a queue never outlives the
\* room for its turn, and a request always names what it resumes.
THEOREM TypeCorrect == Spec => []TypeOK
  <1>1. IInv => TypeOK
    BY DEF IInv
  <1>. QED BY Invariant, <1>1, PTL

\* The busy flag and the loop's task handle never disagree.
THEOREM BusyIsTurn == Spec => []BusyIffTurn
  <1>1. IInv => BusyIffTurn
    BY DEF IInv
  <1>. QED BY Invariant, <1>1, PTL

\* However late a turn's events arrive, the conversation on screen shows only
\* its own turns.
THEOREM TranscriptIsOwn == Spec => []TranscriptOfThread
  <1>1. ASSUME IInv PROVE TranscriptOfThread
    <2>1. messages \in Seq(LinesOf(ThreadTurns)) /\ Streamed \in Seq(ThreadTurns)
      BY <1>1 DEF IInv, Transcript
    <2>2. ASSUME NEW i \in DOMAIN messages, NEW k \in DOMAIN messages[i].by
          PROVE  messages[i].by[k] \in ThreadTurns
      <3>1. messages[i] \in LinesOf(ThreadTurns)
        BY <2>1, ElementOfSeq, LenProperties
      <3>2. messages[i].by \in Seq(ThreadTurns)
        BY <3>1 DEF LinesOf
      <3>. QED BY <3>2, ElementOfSeq, LenProperties
    <2>3. ASSUME NEW k \in DOMAIN Streamed PROVE Streamed[k] \in ThreadTurns
      BY <2>1, ElementOfSeq, LenProperties
    <2>. QED BY <2>2, <2>3 DEF TranscriptOfThread, ThreadTurns
  <1>. QED BY Invariant, <1>1, PTL
=============================================================================
