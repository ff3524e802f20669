---------------------------- MODULE ChatSession ----------------------------
(***************************************************************************)
(* The conversation of the `longbridge ai` view: ChatState (ai/state.rs),  *)
(* the event loop and the key handlers that drive it (ai/tui.rs), the turn *)
(* task it spawns (ai/runtime.rs), and restoring a stored conversation     *)
(* (ai/session_store.rs).                                                  *)
(*                                                                         *)
(* A turn is one request to the agent.  Its task streams what the server   *)
(* says into one unbounded channel shared by every turn; the event loop    *)
(* takes one event at a time, drops it when its generation is not the      *)
(* current one, and applies it otherwise.  The reader meanwhile submits,   *)
(* cancels, starts over, resumes another conversation, signs out and in.   *)
(*                                                                         *)
(* Turns are numbered in the order they are spawned; a message of the      *)
(* server is named after the turn that created it, a chat after its first  *)
(* message.  Chat 0, of messages -1 and 0, was stored before the view      *)
(* opened.                                                                 *)
(***************************************************************************)
EXTENDS Integers, Sequences, FiniteSets

CONSTANTS
  MaxTurns,      \* bound: turns spawned in one session of the view
  MaxInFlight,   \* bound: events waiting in the (unbounded) channel
  Limits,        \* bounds: how often each thing happens in a course of events
  Feed,          \* what a stream may carry besides its start and its end
  Asks,          \* the shapes of question the agent may pause on
  Past,          \* how the runs of the stored conversation may have ended
  None           \* Rust's None

Budgets == {"prompt", "cancel", "switch", "load", "signout", "signin", "drop"}
Turns == 1 .. MaxTurns
Msgs == -1 .. MaxTurns
Accounts == 1 .. 2
Interrupts == [msg : Msgs, ask : Asks]

ASSUME ChatAssumption ==
  /\ MaxTurns \in Nat \ {0}
  /\ MaxInFlight \in Nat \ {0, 1}
  /\ Limits \subseteq [Budgets -> Nat]
  /\ Feed \subseteq {"Tool", "ToolDone", "Delta", "Meta"}
  /\ Asks \subseteq {"options", "text", "confirm", "unanswerable"}
  /\ Past \subseteq {"finished", "failed", "asking"}
  /\ None \notin Int
  /\ None \notin Interrupts
  /\ None \notin [from : Nat, turn : Turns]

VARIABLES
  \* ChatState
  generation, messages, streaming, busy, chat_uid, message_id,
  parent_message_id, pending_interrupt, turn_error, queued, further,
  turn_started,
  \* Ui, and the loop's handle on the running task
  view, question, turn,
  \* the process: whether it is signed in, and as whom
  ready, account,
  \* the channels into the loop, and the session loads under way
  events, loads, loaded,
  \* the turn tasks, what each was asked to do, and the server's messages
  task, request, server,
  \* history: the conversation on screen, what analytics was told, and the
  \* turns and bounds used up
  thread, reported, spawned, used

ids == <<chat_uid, message_id, parent_message_id>>
transcript == <<messages, streaming, turn_error, further, turn_started>>
chat == <<generation, transcript, busy, ids, pending_interrupt, queued>>
ui == <<view, question>>
auth == <<ready, account>>
loading == <<loads, loaded>>
history == <<thread, reported, spawned>>
vars == <<chat, ui, turn, auth, events, loading, task, request, server,
          history, used>>

----------------------------------------------------------------------------
(* Shapes.                                                                 *)

\* A line of the transcript; `by` names the turns whose text it shows.
Line(role, by, running) == [role |-> role, by |-> by, running |-> running]
Roles == {"User", "Assistant", "Tool", "Alert", "System"}
Lines == [role : Roles, by : Seq(Turns), running : BOOLEAN]

Kinds == {"TurnStarted", "Delta", "ToolStarted", "ToolFinished", "Meta",
          "Interrupt", "TurnError", "StreamInterrupted", "TurnFinished"}
Events == [turn : Turns, generation : Nat, kind : Kinds,
           ask : Asks \cup {None}, error : BOOLEAN]

Snapshots == [chat : Msgs, msg : Msgs, parent : Msgs \cup {None},
              pending : Interrupts \cup {None}]

Outcome == {"Meta", "Ask", "Error"}   \* what says how a run ended
Tasks == [st : {"idle", "live", "aborting", "ended"}, generation : Nat,
          thread : Nat, msg : Msgs \cup {None},
          out : SUBSET (Feed \cup Outcome \cup {"Started"}), readback : BOOLEAN]

Requests == [kind : {"New"}, chat : Msgs \cup {None}, msg : {None},
             parent : Msgs \cup {None}, asked : {None}, account : Accounts]
       \cup [kind : {"Continue"}, chat : Msgs, msg : Msgs, parent : {None},
             asked : Msgs, account : Accounts]

Messages == [st : {"absent", "running", "finished", "failed", "asking"},
             chat : Msgs, ask : Asks \cup {None}, owner : Accounts]

Answerable(i) == i.ask # "unanswerable"
FullySelectable(i) == i.ask \in {"options", "confirm"}
HasConfirmation(i) == i.ask = "confirm"

Spend(what) ==
  /\ used' = [used EXCEPT ![what] = @ + 1]
  /\ \E limit \in Limits : \A b \in Budgets : used'[b] <= limit[b]

\* A waiting queue keeps one turn of the bound for itself.
RoomForTurn == spawned + (IF queued = <<>> THEN 0 ELSE 1) < MaxTurns

----------------------------------------------------------------------------
(* What ChatState does to its own fields.                                  *)

\* Mutant: running tool lines are left as they are.
NotSettled(lines) == lines

\* settle_running_tools
Settled(lines) == [i \in DOMAIN lines |-> [lines[i] EXCEPT !.running = FALSE]]

\* The latest tool line of the turn still running, resolved; a line of its own
\* when no start was seen.
ToolResolved(lines, t) ==
  LET open == {i \in DOMAIN lines : lines[i].role = "Tool" /\ lines[i].running}
  IN  IF open = {}
      THEN Append(lines, Line("Tool", <<t>>, FALSE))
      ELSE LET last == CHOOSE i \in open : \A j \in open : j <= i
           IN  [lines EXCEPT ![last].running = FALSE]

Streamed == IF streaming = None THEN <<>> ELSE streaming

\* Mutant: an answer is committed even when none was being streamed.
FinishedLinesUnchecked(failed) ==
  Settled(messages) \o
  (IF streaming = <<>> THEN <<Line("System", <<>>, FALSE)>>
   ELSE <<Line("Assistant", streaming, FALSE)>>)

\* finish_turn: the transcript once the answer is folded in.
FinishedLines(failed) ==
  LET answer == IF Streamed = <<>> THEN <<>>
                ELSE <<Line("Assistant", streaming, FALSE)>>
      note == CASE failed -> <<Line("Alert", <<>>, FALSE)>>
                [] ~failed /\ answer = <<>> -> <<Line("System", <<>>, FALSE)>>
                [] OTHER -> <<>>
  IN  Settled(messages) \o answer \o note

\* Mutant: every turn becomes the next one's parent.
AnyParent(failed) == message_id

\* finish_turn: only a turn that ended clean becomes the next one's parent.
FinishedParent(failed) ==
  IF ~failed /\ pending_interrupt = None THEN message_id ELSE parent_message_id

\* Mutant: the queue is drained only while the chat is on screen.
TakeQueuedOnScreen(waits) == IF waits \/ view # "Chat" THEN <<>> ELSE queued

\* take_queued, unless a confirmation is awaited.
TakeQueued(waits) == IF waits THEN <<>> ELSE queued

\* analytics::turn_finish says nothing when no start is recorded.
ReportFinish == IF turn_started = None THEN reported.finishes
                ELSE reported.finishes \cup {turn_started.turn}

----------------------------------------------------------------------------
(* Starting a turn.                                                        *)

\* runtime::build_request, from the state the turn starts in.
BuildRequest(pending, parent) ==
  IF pending # None /\ chat_uid # None /\ message_id # None
     /\ Answerable(pending)
  THEN [kind |-> "Continue", chat |-> chat_uid, msg |-> message_id,
        parent |-> None, asked |-> pending.msg, account |-> account]
  ELSE [kind |-> "New", chat |-> chat_uid, msg |-> None, parent |-> parent,
        asked |-> None, account |-> account]

\* UserPrompt applied to `lines`, the question dropped, the task spawned.
Spawn(req, lines, report) ==
  LET t == spawned + 1 IN
  /\ turn_started' = [from |-> Len(lines), turn |-> t]
  /\ messages' = Append(lines, Line("User", <<t>>, FALSE))
  /\ busy' = TRUE
  /\ streaming' = <<>>
  /\ further' = FALSE
  /\ turn_error' = FALSE
  /\ pending_interrupt' = None
  /\ turn' = t
  /\ request' = [request EXCEPT ![t] = req]
  /\ task' = [task EXCEPT ![t] =
                [st |-> "live", generation |-> generation, thread |-> thread,
                 msg |-> None, out |-> {}, readback |-> FALSE]]
  /\ reported' = report
  /\ spawned' = t

Started == [reported EXCEPT !.starts = @ \cup {spawned + 1}]

\* start_turn, from an idle chat.
StartTurn ==
  /\ Spawn(BuildRequest(pending_interrupt, parent_message_id), messages, Started)
  /\ UNCHANGED <<generation, ids, queued, auth, events, loading, server, thread>>

----------------------------------------------------------------------------
(* The reader.                                                             *)

\* submit while a turn runs: the prompt joins the queue.
QueuePrompt ==
  /\ view = "Chat" /\ busy /\ RoomForTurn
  /\ Spend("prompt")
  /\ queued' = Append(queued, used["prompt"])
  /\ UNCHANGED <<generation, transcript, busy, ids, pending_interrupt, ui, turn,
                 auth, events, loading, task, request, server, history>>

\* submit on an idle chat.
SendPrompt ==
  /\ view = "Chat" /\ ~busy /\ ready /\ RoomForTurn
  /\ Spend("prompt")
  /\ StartTurn
  /\ UNCHANGED ui

\* /retry
RetryLast ==
  /\ view = "Chat" /\ ~busy /\ ready /\ RoomForTurn
  /\ \E i \in DOMAIN messages : messages[i].role = "User"
  /\ StartTurn
  /\ UNCHANGED <<ui, used>>

\* click_chip on a suggested follow-up: the turn start is not reported.
ClickFurther ==
  /\ view = "Chat" /\ ~busy /\ ready /\ further /\ RoomForTurn
  /\ Spawn(BuildRequest(pending_interrupt, parent_message_id), messages, reported)
  /\ UNCHANGED <<generation, ids, queued, ui, auth, events, loading, server,
                 thread, used>>

\* answer_selected and skip_question, at the last question; submit_answers.
\* Neither asks whether a turn runs or anyone is signed in.
AnswerQuestion ==
  /\ view = "Question" /\ question # None /\ RoomForTurn
  /\ question' = None
  /\ view' = "Chat"
  /\ IF chat_uid # None /\ message_id # None
     THEN Spawn([kind |-> "Continue", chat |-> chat_uid, msg |-> message_id,
                 parent |-> None, asked |-> question.msg, account |-> account],
                messages, Started)
     ELSE UNCHANGED <<transcript, busy, pending_interrupt, turn, request, task,
                      reported, spawned>>
  /\ UNCHANGED <<generation, ids, queued, auth, events, loading, server,
                 thread, used>>

\* Ui::switch to `v`
SwitchTo(v) ==
  /\ view' = v
  /\ question' = IF v = "Question" THEN question ELSE None

\* Esc in the question view; /resume and /settings; Esc in a list.
Navigate ==
  /\ \/ view = "Question" /\ SwitchTo("Chat")
     \/ view = "Chat" /\ SwitchTo("List")
     \/ view = "List" /\ SwitchTo("Chat")
  /\ UNCHANGED <<chat, turn, auth, events, loading, task, request, server,
                 history, used>>

----------------------------------------------------------------------------
(* Dropping a turn.                                                        *)

\* Mutant: the handle is dropped and the task left running.
Detached == task

\* abandon_turn: abort the task, if there is one.  An abort lands at the
\* task's next await, so what it sends before that still arrives.
Aborted == IF turn = None \/ task[turn].st # "live" THEN task
           ELSE [task EXCEPT ![turn].st = "aborting"]
\* Mutant: a path that forgets to report the turn it drops.
NoReport == reported
AbandonReport == IF turn = None THEN reported
                 ELSE [reported EXCEPT !.finishes = ReportFinish]

AbandonTurn ==
  /\ task' = Aborted
  /\ turn' = None
  /\ reported' = AbandonReport

\* ChatState::cancel
CancelledLines ==
  IF streaming = None THEN Settled(messages)
  ELSE Append(Settled(messages), Line("Assistant", streaming, FALSE))

\* Mutant: what was queued behind the cancelled turn stays.
CancelTurnKeepsQueue ==
  /\ AbandonTurn
  /\ messages' = CancelledLines
  /\ streaming' = None
  /\ busy' = FALSE
  /\ queued' = queued
  /\ pending_interrupt' = None
  /\ turn_error' = FALSE
  /\ turn_started' = None
  /\ UNCHANGED <<generation, further, thread>>

CancelTurn ==
  /\ AbandonTurn
  /\ messages' = CancelledLines
  /\ streaming' = None
  /\ busy' = FALSE
  /\ queued' = <<>>
  /\ pending_interrupt' = None
  /\ turn_error' = FALSE
  /\ turn_started' = None
  /\ UNCHANGED <<generation, further, thread>>

\* Esc in the chat, Ctrl+C or the stop button anywhere.
Cancel ==
  /\ busy
  /\ Spend("cancel")
  /\ CancelTurn
  /\ UNCHANGED <<ids, ui, auth, events, loading, request, server, spawned>>

\* Mutant: the busy flag outlives the turn.
ClearTurnStateStaysBusy ==
  /\ streaming' = None
  /\ busy' = busy
  /\ queued' = <<>>
  /\ further' = FALSE
  /\ turn_error' = FALSE
  /\ turn_started' = None

\* ChatState::clear_turn_state
ClearTurnState ==
  /\ streaming' = None
  /\ busy' = FALSE
  /\ queued' = <<>>
  /\ further' = FALSE
  /\ turn_error' = FALSE
  /\ turn_started' = None

\* Mutant: the fields are cleared and the gate is not moved.
KeepGeneration == UNCHANGED generation

\* ChatState::bump_generation, for a chat that leaves its conversation.
BumpGeneration == generation' = generation + 1

\* /new and "New session" (new_session), /agent (switch_agent).
NewSession ==
  /\ view \in {"Chat", "List"}
  /\ Spend("switch")
  /\ AbandonTurn
  /\ BumpGeneration
  /\ ClearTurnState
  /\ messages' = <<>>
  /\ chat_uid' = None /\ message_id' = None /\ parent_message_id' = None
  /\ pending_interrupt' = None
  /\ SwitchTo("Chat")
  /\ thread' = thread + 1
  /\ UNCHANGED <<auth, events, loading, request, server, spawned>>

\* Signing out, once the token is cleared.
SignOut ==
  /\ view \in {"Chat", "List"}
  /\ Spend("signout")
  /\ CancelTurn
  /\ ready' = FALSE
  /\ chat_uid' = None /\ message_id' = None /\ parent_message_id' = None
  /\ UNCHANGED <<account, ui, events, loading, request, server, spawned>>

\* A sign-in that succeeded (login_rx): the contexts are built anew.
SignIn ==
  /\ Spend("signin")
  /\ ready' = TRUE
  /\ account' \in Accounts
  /\ UNCHANGED <<chat, ui, turn, events, loading, task, request, server, history>>

----------------------------------------------------------------------------
(* Resuming a stored conversation.                                         *)

MessagesOf(c) == {m \in Msgs : server[m].st # "absent" /\ server[m].chat = c}

\* The latest of some messages, as a set: empty if there are none.
Latest(ms) == {m \in ms : \A n \in ms : n <= m}
LatestOrNone(ms) == IF ms = {} THEN {None} ELSE Latest(ms)

\* activate, on a row of the session list.  Each load has a number: a second
\* Enter on the same row starts a second one.
RequestLoad ==
  /\ view = "List"
  /\ Spend("load")
  /\ \E c \in Msgs :
       /\ MessagesOf(c) # {} /\ server[c].owner = account
       /\ loads' = loads \cup {<<c, used["load"]>>}
  /\ UNCHANGED <<chat, ui, turn, auth, events, loaded, task, request, server,
                 history>>

\* The question a stored message holds, if its history has one to show: what the
\* run asked is sometimes kept without a payload that can be answered.
Pending(m) == IF server[m].st = "asking"
              THEN {None, [msg |-> m, ask |-> server[m].ask]} ELSE {None}
Finished(c) == {m \in MessagesOf(c) : server[m].st = "finished"}

\* Mutant: the last question asked is resumed, whatever came after it.
StoredAnyQuestion(c) ==
  {[chat |-> c, msg |-> last, parent |-> parent, pending |-> pending] :
     last \in Latest(MessagesOf(c)), parent \in LatestOrNone(Finished(c)),
     pending \in UNION {Pending(m) : m \in MessagesOf(c)}}

\* Mutant: the last message is the parent, however it ended.
StoredLastParent(c) ==
  UNION {{[chat |-> c, msg |-> last, parent |-> last, pending |-> pending] :
            pending \in Pending(last)} : last \in Latest(MessagesOf(c))}

\* load_detail: what the server has of chat `c` at that moment.  The pending
\* question is that of the last message, the parent the last finished one.
Stored(c) ==
  UNION {{[chat |-> c, msg |-> last, parent |-> parent, pending |-> pending] :
            parent \in LatestOrNone(Finished(c)), pending \in Pending(last)} :
           last \in Latest(MessagesOf(c))}

FinishLoad ==
  /\ \E load \in loads :
       /\ loads' = loads \ {load}
       /\ \/ /\ ready /\ server[load[1]].owner = account
             /\ \E l \in Stored(load[1]) : loaded' = Append(loaded, l)
          \/ loaded' = Append(loaded, None)
  /\ UNCHANGED <<chat, ui, turn, auth, events, task, request, server, history,
                 used>>

\* load_rx: a failed load leaves a notice; any other takes the view over.
ReceiveLoad ==
  /\ loaded # <<>>
  /\ loaded' = Tail(loaded)
  /\ LET l == Head(loaded) IN
     IF l = None
     THEN UNCHANGED <<chat, ui, turn, task, history>>
     ELSE /\ AbandonTurn
          /\ BumpGeneration
          /\ ClearTurnState
          /\ chat_uid' = l.chat
          /\ message_id' = l.msg
          /\ parent_message_id' = l.parent
          /\ pending_interrupt' = l.pending
          /\ messages' = <<Line("User", <<>>, FALSE)>>
          /\ IF l.pending # None /\ FullySelectable(l.pending)
             THEN question' = l.pending /\ view' = "Question"
             ELSE SwitchTo("Chat")
          /\ thread' = thread + 1
          /\ UNCHANGED spawned
  /\ UNCHANGED <<auth, events, loads, request, server, used>>

----------------------------------------------------------------------------
(* The turn tasks.  Each streams its run into the channel: a run that      *)
(* settles tells how, and a connection that dies is announced and either   *)
(* replayed from the start or read back from history (cli/agent/client.rs).*)

Event(t, kind, ask, error) ==
  [turn |-> t, generation |-> task[t].generation, kind |-> kind, ask |-> ask,
   error |-> error]
Plain(t, kind) == Event(t, kind, None, FALSE)

Running(t) == task[t].st \in {"live", "aborting"}

\* Task `t` sends `evs`, its connection having delivered `what`.
Send(t, evs, what) ==
  /\ Running(t)
  /\ Len(events) + Len(evs) <= MaxInFlight
  /\ events' = events \o evs
  /\ task' = [task EXCEPT ![t].out = @ \cup what]
  /\ UNCHANGED <<chat, ui, turn, auth, loading, request, history>>

Status(t) == server[task[t].msg].st

\* chat_started: the server took the request and named the message.
Accept(t) ==
  LET r == request[t]
      m == IF r.kind = "New" THEN t ELSE r.msg
  IN  /\ Running(t) /\ task[t].msg = None
      /\ Len(events) < MaxInFlight
      /\ r.kind = "New" /\ r.chat # None => server[r.chat].owner = r.account
      /\ r.kind = "Continue" => /\ server[m].st = "asking"
                                /\ server[m].owner = r.account
      /\ server' = [server EXCEPT ![m] =
                      [st |-> "running", ask |-> None, owner |-> r.account,
                       chat |-> IF r.chat = None THEN t ELSE r.chat]]
      /\ task' = [task EXCEPT ![t].msg = m, ![t].out = {"Started"}]
      /\ events' = Append(events, Plain(t, "TurnStarted"))
      /\ UNCHANGED <<chat, ui, turn, auth, loading, request, history, used>>

\* One more frame of the run, each kind at most once on a connection.
Stream(t) ==
  /\ Running(t) /\ task[t].msg # None
  /\ LET live == ~task[t].readback
         fresh(k) == k \in Feed /\ k \notin task[t].out
         over == task[t].out \cap Outcome # {}
     IN  \/ /\ live /\ "Started" \notin task[t].out
            /\ Send(t, <<Plain(t, "TurnStarted")>>, {"Started"})
         \/ /\ live /\ fresh("Tool") /\ ~over
            /\ task[t].out \cap {"ToolDone", "Delta"} = {}
            /\ Send(t, <<Plain(t, "ToolStarted")>>, {"Tool"})
         \/ /\ live /\ fresh("ToolDone") /\ ~over
            \* a tool that failed on the trade password fails the turn as well
            /\ \E evs \in {<<Plain(t, "ToolFinished")>>,
                          <<Plain(t, "ToolFinished"), Plain(t, "TurnError")>>} :
                 Send(t, evs, {"ToolDone"})
         \/ /\ fresh("Delta") /\ ~over
            /\ task[t].readback => Status(t) # "running"
            /\ Send(t, <<Plain(t, "Delta")>>, {"Delta"})
         \/ /\ fresh("Meta") /\ Status(t) = "finished"
            /\ Send(t, <<Plain(t, "Meta")>>, {"Meta"})
         \/ /\ live /\ ~over /\ Status(t) = "asking"
            /\ Send(t, <<Plain(t, "Delta"),
                        Event(t, "Interrupt", server[task[t].msg].ask, FALSE)>>,
                    {"Ask"})
         \/ /\ ~over /\ Status(t) = "failed"
            /\ Send(t, <<Plain(t, "TurnError")>>, {"Error"})
  /\ UNCHANGED <<server, used>>

\* The connection dies before the run's outcome arrived: what it delivered is
\* announced void.  Re-attaching may fail too, and then the run is waited out.
Disconnect(t) ==
  /\ Running(t) /\ ~task[t].readback
  /\ task[t].out \cap Outcome = {}
  /\ Len(events) < MaxInFlight
  /\ Spend("drop")
  /\ events' = Append(events, Plain(t, "StreamInterrupted"))
  /\ \E back \in {FALSE} \cup {task[t].msg # None} :
       task' = [task EXCEPT ![t].out = {}, ![t].readback = back]
  /\ UNCHANGED <<chat, ui, turn, auth, loading, request, server, history>>

\* Mutant: a stream that failed ends its task in silence.
LastEventIfOk(t, error) ==
  IF error THEN <<>> ELSE <<Event(t, "TurnFinished", None, FALSE)>>

\* The last event, whether stream_conversation returned Ok or Err.
LastEvent(t, error) == <<Event(t, "TurnFinished", None, error)>>

\* stream_conversation returns and the task sends its last event.
End(t) ==
  /\ Running(t)
  /\ Len(events) < MaxInFlight
  /\ \E error \in BOOLEAN :
       /\ IF error
          THEN task[t].out \cap {"Meta", "Ask"} = {}
          ELSE /\ task[t].msg # None
               /\ \/ Status(t) = "finished"
                  \/ Status(t) = "failed" /\ "Error" \in task[t].out
                  \/ Status(t) = "asking" /\ "Ask" \in task[t].out
                  \* a paused run read back is a plain message
                  \/ Status(t) = "asking" /\ task[t].readback
       /\ events' = events \o LastEvent(t, error)
  /\ task' = [task EXCEPT ![t].st = "ended"]
  /\ UNCHANGED <<chat, ui, turn, auth, loading, request, server, history, used>>

\* An abort reaches the task.
AbortLands(t) ==
  /\ task[t].st = "aborting"
  /\ task' = [task EXCEPT ![t].st = "ended"]
  /\ UNCHANGED <<chat, ui, turn, auth, events, loading, request, server,
                 history, used>>

\* The server's run of message `m` ends, whoever listens.
Settle(m) ==
  /\ server[m].st = "running"
  /\ \/ \E st \in {"finished", "failed"} :
          server' = [server EXCEPT ![m].st = st]
     \/ \E a \in Asks :
          server' = [server EXCEPT ![m].st = "asking", ![m].ask = a]
  /\ UNCHANGED <<chat, ui, turn, auth, events, loading, task, request,
                 history, used>>

----------------------------------------------------------------------------
(* The event loop's turn_rx branch.                                        *)

\* current_turn_event: the gate.
Current(e) == e.generation = generation

Receive(kind) ==
  /\ events # <<>>
  /\ Current(Head(events)) /\ Head(events).kind = kind
  /\ events' = Tail(events)
  /\ UNCHANGED <<auth, loading, server, used>>

\* What all but the turn's last event leave alone.
MidTurn == UNCHANGED <<generation, busy, queued, turn_started, ui, turn, task,
                       request, history>>

DropStale ==
  /\ events # <<>> /\ ~Current(Head(events))
  /\ events' = Tail(events)
  /\ UNCHANGED <<chat, ui, turn, auth, loading, task, request, server, history,
                 used>>

ReceiveTurnStarted ==
  /\ Receive("TurnStarted") /\ MidTurn
  /\ LET m == task[Head(events).turn].msg IN
     chat_uid' = server[m].chat /\ message_id' = m
  /\ UNCHANGED <<messages, streaming, turn_error, further, parent_message_id,
                 pending_interrupt>>

ReceiveDelta ==
  /\ Receive("Delta") /\ MidTurn
  /\ streaming' = Append(Streamed, Head(events).turn)
  /\ UNCHANGED <<messages, turn_error, further, ids, pending_interrupt>>

ReceiveToolStarted ==
  /\ Receive("ToolStarted") /\ MidTurn
  /\ messages' = Append(messages, Line("Tool", <<Head(events).turn>>, TRUE))
  /\ UNCHANGED <<streaming, turn_error, further, ids, pending_interrupt>>

ReceiveToolFinished ==
  /\ Receive("ToolFinished") /\ MidTurn
  /\ messages' = ToolResolved(messages, Head(events).turn)
  /\ UNCHANGED <<streaming, turn_error, further, ids, pending_interrupt>>

ReceiveMeta ==
  /\ Receive("Meta") /\ MidTurn
  /\ further' = TRUE
  /\ UNCHANGED <<messages, streaming, turn_error, ids, pending_interrupt>>

ReceiveInterrupt ==
  /\ Receive("Interrupt") /\ MidTurn
  /\ LET m == task[Head(events).turn].msg IN
     /\ message_id' = m
     /\ pending_interrupt' = [msg |-> m, ask |-> Head(events).ask]
  /\ UNCHANGED <<messages, streaming, turn_error, further, chat_uid,
                 parent_message_id>>

ReceiveTurnError ==
  /\ Receive("TurnError") /\ MidTurn
  /\ turn_error' = TRUE
  /\ UNCHANGED <<messages, streaming, further, ids, pending_interrupt>>

\* Mutant: the lines of the dead connection stay.
NotRewound == messages

\* The turn's lines after its prompt go; the replay brings them again.
Rewound == IF turn_started = None THEN messages
           ELSE SubSeq(messages, 1, turn_started.from + 1)

ReceiveStreamInterrupted ==
  /\ Receive("StreamInterrupted") /\ MidTurn
  /\ messages' = Rewound
  /\ streaming' = <<>>
  /\ turn_error' = FALSE
  /\ further' = FALSE
  /\ UNCHANGED <<ids, pending_interrupt>>

\* The turn is over: the answer is folded in, a question it left is opened,
\* and what the reader typed meanwhile goes out as the next turn, unless the
\* question asks for a confirmation.
ReceiveTurnFinished ==
  /\ Receive("TurnFinished")
  /\ LET failed == Head(events).error \/ turn_error
         pending == IF failed THEN None ELSE pending_interrupt
         parent == FinishedParent(failed)
         opens == pending # None /\ FullySelectable(pending)
         asked == IF opens THEN pending ELSE question
         shown == IF opens THEN "Question" ELSE view
         waits == asked # None /\ HasConfirmation(asked)
         ended == [reported EXCEPT !.finishes = ReportFinish]
     IN  /\ parent_message_id' = parent
         /\ IF TakeQueued(waits) = <<>>
            THEN /\ messages' = FinishedLines(failed)
                 /\ streaming' = None
                 /\ turn_error' = FALSE
                 /\ turn_started' = None
                 /\ busy' = FALSE
                 /\ pending_interrupt' = pending
                 /\ turn' = None
                 /\ question' = asked
                 /\ view' = shown
                 /\ reported' = ended
                 /\ UNCHANGED <<queued, further, request, task, spawned>>
            ELSE /\ queued' = <<>>
                 /\ question' = None
                 /\ view' = IF shown = "Question" THEN "Chat" ELSE shown
                 /\ Spawn(BuildRequest(pending, parent), FinishedLines(failed),
                          [ended EXCEPT !.starts = @ \cup {spawned + 1}])
  /\ UNCHANGED <<generation, chat_uid, message_id, thread>>

----------------------------------------------------------------------------
Reader == \/ QueuePrompt \/ SendPrompt \/ RetryLast \/ ClickFurther
          \/ AnswerQuestion \/ Navigate \/ Cancel \/ NewSession
          \/ SignOut \/ SignIn \/ RequestLoad

Loop == \/ DropStale \/ ReceiveTurnStarted \/ ReceiveDelta
        \/ ReceiveToolStarted \/ ReceiveToolFinished \/ ReceiveMeta
        \/ ReceiveInterrupt \/ ReceiveTurnError \/ ReceiveStreamInterrupted
        \/ ReceiveTurnFinished \/ ReceiveLoad

TurnTask(t) == Accept(t) \/ Stream(t) \/ End(t) \/ AbortLands(t)

Next ==
  \/ Reader \/ Loop \/ FinishLoad
  \/ \E t \in Turns : TurnTask(t) \/ Disconnect(t)
  \/ \E m \in Msgs : Settle(m)

Init ==
  /\ generation = 0
  /\ messages = <<>> /\ streaming = None /\ busy = FALSE
  /\ chat_uid = None /\ message_id = None /\ parent_message_id = None
  /\ pending_interrupt = None /\ turn_error = FALSE
  /\ queued = <<>> /\ further = FALSE /\ turn_started = None
  /\ view = "Chat" /\ question = None /\ turn = None
  /\ ready = TRUE /\ account = 1
  /\ events = <<>> /\ loads = {} /\ loaded = <<>>
  /\ task = [t \in Turns |-> [st |-> "idle", generation |-> 0, thread |-> 0,
                              msg |-> None, out |-> {}, readback |-> FALSE]]
  /\ request = [t \in Turns |-> None]
  /\ \E past \in [{-1, 0} -> [st : Past, ask : Asks \cup {None}]] :
       /\ \A m \in {-1, 0} : past[m].ask = None <=> past[m].st # "asking"
       /\ server = [m \in Msgs |->
                     IF m > 0
                     THEN [st |-> "absent", ask |-> None, owner |-> 1, chat |-> m]
                     ELSE [st |-> past[m].st, ask |-> past[m].ask, owner |-> 1,
                           chat |-> 0]]
  /\ thread = 0 /\ reported = [starts |-> {}, finishes |-> {}] /\ spawned = 0
  /\ used = [b \in Budgets |-> 0]

Spec == Init /\ [][Next]_vars

\* The loop keeps polling its channels, a spawned task keeps being polled and
\* its stream cannot stay silent for ever (each read is under a timeout), and
\* a run on the server ends.
Fairness ==
  /\ WF_vars(Loop) /\ WF_vars(FinishLoad)
  /\ \A t \in Turns : WF_vars(TurnTask(t))
  /\ \A m \in Msgs : WF_vars(Settle(m))

FairSpec == Spec /\ Fairness

----------------------------------------------------------------------------
(* Properties.                                                             *)

\* Every variable stays in its type: the transcript only ever holds lines of
\* spawned turns, a request always names what it resumes, no queue is left
\* without a turn to go out in.
ChatTypeOK ==
  /\ generation \in Nat /\ messages \in Seq(Lines)
  /\ streaming \in Seq(Turns) \cup {None} /\ busy \in BOOLEAN
  /\ chat_uid \in Msgs \cup {None} /\ message_id \in Msgs \cup {None}
  /\ parent_message_id \in Msgs \cup {None}
  /\ pending_interrupt \in Interrupts \cup {None}
  /\ turn_error \in BOOLEAN /\ queued \in Seq(Nat) /\ further \in BOOLEAN
  /\ turn_started \in [from : Nat, turn : Turns] \cup {None}

UiTypeOK ==
  /\ view \in {"Chat", "Question", "List"}
  /\ question \in Interrupts \cup {None} /\ turn \in Turns \cup {None}
  /\ ready \in BOOLEAN /\ account \in Accounts

ChannelsTypeOK ==
  /\ events \in Seq(Events) /\ loads \subseteq Msgs \X Nat
  /\ loaded \in Seq(Snapshots \cup {None})

TasksTypeOK ==
  /\ task \in [Turns -> Tasks]
  /\ request \in [Turns -> Requests \cup {None}]
  /\ server \in [Msgs -> Messages]

HistoryTypeOK ==
  /\ thread \in Nat /\ spawned \in 0 .. MaxTurns
  /\ reported \in [starts : SUBSET Turns, finishes : SUBSET Turns]
  /\ used \in [Budgets -> Nat]

TypeOK == ChatTypeOK /\ UiTypeOK /\ ChannelsTypeOK /\ TasksTypeOK /\ HistoryTypeOK

\* The busy flag, which decides whether a prompt is queued or sent, and the
\* loop's task handle, which decides what a cancel aborts, are kept by
\* different code on every path and must agree.
BusyIffTurn == busy <=> turn # None

\* Nothing a turn of a conversation left behind (by /new, /agent or a resume)
\* sent late shows up in the conversation on screen.
TranscriptOfThread ==
  /\ \A i \in DOMAIN messages : \A k \in DOMAIN messages[i].by :
       task[messages[i].by[k]].thread = thread
  /\ \A k \in DOMAIN Streamed : task[Streamed[k]].thread = thread

\* Every turn start analytics was told of is followed by an end, whichever
\* way the turn was left (abandon_turn's promise).
StartsAreFinished ==
  \A t \in reported.starts : t = turn \/ t \in reported.finishes

\* A turn nobody aborted is the one the loop holds: no second turn runs
\* beside it, out of reach of Esc.  Of a session in which no turn was cancelled,
\* since then EventsReachTheirOwnTurn fails and the loop can lose its handle.
Uncancelled == used["cancel"] = 0 /\ used["signout"] = 0
NoStrayTask == Uncancelled => \A t \in Turns : task[t].st = "live" => turn = t

\* An event is applied to the turn that sent it, never to another one.
EventsReachTheirOwnTurn ==
  [][events # <<>> /\ events' = Tail(events) /\ Current(Head(events))
     => turn \in {None, Head(events).turn}]_vars

\* The lines of a turn, and the texts of it under way and said.
LinesBy(role, t) ==
  {i \in DOMAIN messages : messages[i].role = role
     /\ t \in {messages[i].by[k] : k \in DOMAIN messages[i].by}}
TextsStreamed(t) == {k \in DOMAIN Streamed : Streamed[k] = t}
TextsAnswered(t) ==
  {p \in {<<i, k>> : i \in LinesBy("Assistant", t), k \in 1 .. 4} :
     p[2] \in DOMAIN messages[p[1]].by /\ messages[p[1]].by[p[2]] = t}

\* What a turn shows comes from one connection: a replay doubles no tool line
\* and no answer text.  Of a session without a cancel, as NoStrayTask.
NothingTwice ==
  \A t \in Turns : Uncancelled =>
    /\ Cardinality(LinesBy("Tool", t)) <= 1
    /\ Cardinality(LinesBy("Assistant", t)) <= 1
    /\ Cardinality(TextsStreamed(t)) + Cardinality(TextsAnswered(t))
         <= IF "Ask" \in task[t].out THEN 2 ELSE 1

\* A new turn is parented to a message of this chat that the server finished;
\* a failed or paused one cannot be built on.  Of a session without a cancel, as
\* NoStrayTask; a pause read back after a lost connection breaks it all the same.
ParentCompleted ==
  Uncancelled /\ parent_message_id # None =>
    /\ server[parent_message_id].st = "finished"
    /\ server[parent_message_id].chat = chat_uid

\* An answer resumes the very message that asked.
\* Of a session without a cancel, as NoStrayTask.
AnswersGoToTheirQuestion ==
  \A t \in Turns : Uncancelled /\ request[t] # None /\ request[t].kind = "Continue"
                     => request[t].msg = request[t].asked

\* Whenever no turn runs, whichever way the last one ended: no tool line claims to
\* be running, and queued prompts wait for nothing but a confirmation.
\* Of a session without a cancel, as NoStrayTask.
Confirming == \E q \in {question, pending_interrupt} \ {None} : HasConfirmation(q)
AtRest ==
  Uncancelled /\ ~busy => /\ \A i \in DOMAIN messages : ~messages[i].running
                          /\ queued # <<>> => Confirming

\* Nothing goes out while nobody is signed in, whatever was queued or left to
\* arrive late when the reader signed out.  Of a session in which no question was
\* answered: submit_answers asks for no sign-in.
Unanswered == \A t \in 1 .. spawned : request[t].kind = "New"
NoTurnWhileSignedOut == [][~ready /\ Unanswered' => spawned' = spawned]_vars

\* Whoever is signed in, requests go to that account's own conversations.
OwnAccount ==
  \A t \in Turns : request[t] # None /\ request[t].chat # None
                     => server[request[t].chat].owner = request[t].account

\* Every turn ends.
TurnsEnd == \A t \in Turns : turn = t ~> turn # t

\* Queued prompts go out, unless a confirmation holds them back.
QueueGoesOut == queued # <<>> ~> queued = <<>> \/ (~busy /\ Confirming)
=============================================================================
