----------------------------- MODULE AgentStream -----------------------------
(* stream_conversation (cli/agent/client.rs): one conversation round over a  *)
(* connection that may break, the server's runs it talks to, and the         *)
(* ChatAggregator (cli/agent/events.rs) that folds what it is told.          *)
(*                                                                           *)
(* A run writes its answer in chunks; a connection brings the frames of one  *)
(* run in order and may die between any two of them, which covers an error,  *)
(* an early end of the stream and a minute of silence alike. Backoffs are    *)
(* part of the step that ends in them: nobody but the server moves meanwhile.*)
EXTENDS Naturals, Sequences

CONSTANTS Tries,       \* length of RECONNECT_BACKOFF_SECS
          Handshakes,  \* length of HANDSHAKE_BACKOFF_SECS
          Polls,       \* READ_BACK_WINDOW_SECS over READ_BACK_POLL
          MaxText,     \* bound: chunks a run writes
          None

ASSUME TriesAssumption == Tries \in Nat \ {0}
ASSUME HandshakesAssumption == Handshakes \in Nat
ASSUME PollsAssumption == Polls \in Nat \ {0}
ASSUME MaxTextAssumption == MaxText \in Nat
ASSUME NoneAssumption == None \notin Nat

\* Every accepted POST starts a run; at most one per try is accepted.
Runs == 1 .. Tries
Verdicts == {"succeeded", "failed", "paused"}

VARIABLES
  made, st,      \* the server: chunks a run has written, and how it stands
  posts,         \* conversation POSTs the server accepted
  kind,          \* ConversationRequest: "New" or "Continue"
  pc,            \* where the client is
  ident,         \* the run the client knows by name, or None
  mode,          \* which loop drains: "post", or "attach" in reattach
  attempt,       \* index into RECONNECT_BACKOFF_SECS
  rejected,      \* 429002 answers to this handshake
  reads,         \* history reads of this loop so far
  pristine,      \* reattach: the announced restart is still unspent
  conn,          \* the connection: its run, the frame it is at, chunks brought
  outcome, closing,          \* drain_stream's two flags
  answer, status, interrupt, \* ChatOutcome, as the aggregator has it; a status
                 \* that is still empty is "untold"
  result         \* what stream_conversation returned, "no" while it runs

server == <<made, st>>
consumer == <<answer, status, interrupt>>
flags == <<outcome, closing>>
vars == <<made, st, posts, kind, pc, ident, mode, attempt, rejected, reads,
          pristine, conn, outcome, closing, answer, status, interrupt, result>>

\* A connection; tells: it will carry the run's outcome before it ends.
Connections ==
  [run : Runs, at : {"start", "text", "asked", "closing", "closed"},
   n : 0 .. MaxText, tells : BOOLEAN]

\* The first n chunks of a run's answer; all it has written.
Told(r, n) == [k \in 1 .. n |-> <<r, k>>]
Text(r) == Told(r, made[r])
Over(r) == st[r] \in Verdicts

TypeOK ==
  /\ made \in [Runs -> 0 .. MaxText]
  /\ st \in [Runs -> {"none", "going"} \cup Verdicts]
  /\ posts \in 0 .. Tries
  /\ kind \in {"New", "Continue"}
  /\ pc \in {"opening", "draining", "attaching", "finalizing", "polling",
             "returned"}
  /\ ident \in Runs \cup {None}
  /\ mode \in {"post", "attach"}
  /\ attempt \in 0 .. Tries - 1
  /\ rejected \in 0 .. Handshakes
  /\ reads \in 0 .. (Tries + Polls)
  /\ conn \in Connections \cup {None}
  /\ pristine \in BOOLEAN /\ outcome \in BOOLEAN /\ closing \in BOOLEAN
  /\ answer \in Seq(Runs \X (1 .. MaxText))
  /\ status \in {"untold", "succeeded", "failed", "interrupted"}
  /\ interrupt \in BOOLEAN
  /\ result \in {"no", "ok", "err"}

Init ==
  /\ made = [r \in Runs |-> 0] /\ st = [r \in Runs |-> "none"] /\ posts = 0
  /\ \/ kind = "New" /\ ident = None
     \/ kind = "Continue" /\ ident = 1     \* ConversationRequest::ident
  /\ pc = "opening" /\ mode = "post"
  /\ attempt = 0 /\ rejected = 0 /\ reads = 0 /\ pristine = FALSE
  /\ conn = None /\ outcome = FALSE /\ closing = FALSE
  /\ answer = <<>> /\ status = "untold" /\ interrupt = FALSE
  /\ result = "no"

-----------------------------------------------------------------------------
(* The server *)

Produce(r) ==
  /\ st[r] = "going" /\ made[r] < MaxText
  /\ made' = [made EXCEPT ![r] = @ + 1]
  /\ UNCHANGED <<st, posts, kind, pc, ident, mode, attempt, rejected, reads,
                 pristine, conn, outcome, closing, answer, status, interrupt,
                 result>>

EndRun(r) ==
  /\ st[r] = "going"
  /\ \E v \in Verdicts : st' = [st EXCEPT ![r] = v]
  /\ UNCHANGED <<made, posts, kind, pc, ident, mode, attempt, rejected, reads,
                 pristine, conn, outcome, closing, answer, status, interrupt,
                 result>>

-----------------------------------------------------------------------------
(* What the aggregator makes of an event *)

\* StreamInterrupted: the replay starts the message over.
Restarted == answer' = <<>> /\ status' = "untold" /\ interrupt' = FALSE

\* WorkflowFinished: an interrupt's verdict is not overwritten.
Concluded(s) == status' = IF status = "untold" THEN s ELSE status

\* status_str and recovered_status of how the run ended ("failed" stands for
\* stopped as well).
StatusOf(v) == IF v = "paused" THEN "interrupted" ELSE v

-----------------------------------------------------------------------------
(* The handshake *)

Connect(r, tells) ==
  /\ conn' = [run |-> r, at |-> "start", n |-> 0, tells |-> tells]
  /\ outcome' = FALSE /\ closing' = FALSE
  /\ pc' = "draining"

Return(r) == pc' = "returned" /\ result' = r /\ conn' = None

\* The POST is accepted: a run starts, unnamed until its first frame arrives.
OpenStream ==
  /\ pc = "opening"
  /\ posts' = posts + 1
  /\ st' = [st EXCEPT ![posts + 1] = "going"]
  /\ Connect(posts + 1, TRUE)
  /\ UNCHANGED <<made, kind, ident, mode, attempt, rejected, reads, pristine,
                 answer, status, interrupt, result>>

\* 429002: tried again Handshakes times, and not once more.
HandshakeRejected ==
  /\ pc = "opening"
  /\ IF rejected < Handshakes
     THEN /\ rejected' = rejected + 1
          /\ UNCHANGED <<pc, result, conn>>
     ELSE Return("err") /\ UNCHANGED rejected
  /\ UNCHANGED <<made, st, posts, kind, ident, mode, attempt, reads, pristine,
                 outcome, closing, answer, status, interrupt>>

\* Any other error ends the call: the POST is not repeated.
HandshakeFailed ==
  /\ pc = "opening"
  /\ Return("err")
  /\ UNCHANGED <<made, st, posts, kind, ident, mode, attempt, rejected, reads,
                 pristine, outcome, closing, answer, status, interrupt>>

-----------------------------------------------------------------------------
(* drain_stream: one frame of the connection *)

Draining == pc = "draining"
Rest == <<made, st, posts, kind, pc, mode, attempt, rejected, reads, pristine,
          result>>

\* chat_started names the run.
DeliverStarted ==
  /\ Draining /\ conn.at = "start"
  /\ ident' = conn.run
  /\ conn' = [conn EXCEPT !.at = "text"]
  /\ UNCHANGED <<outcome, closing, answer, status, interrupt>>
  /\ UNCHANGED Rest

DeliverText ==
  /\ Draining /\ conn.at = "text" /\ conn.n < made[conn.run]
  /\ answer' = Append(answer, <<conn.run, conn.n + 1>>)
  /\ conn' = [conn EXCEPT !.n = @ + 1]
  /\ UNCHANGED <<ident, outcome, closing, status, interrupt>>
  /\ UNCHANGED Rest

AllTold == conn.at = "text" /\ conn.n = made[conn.run] /\ Over(conn.run)

\* human_interaction_required: the pause, with what it asks.
DeliverAsk ==
  /\ Draining /\ AllTold /\ st[conn.run] = "paused" /\ conn.tells
  /\ outcome' = TRUE
  /\ status' = "interrupted" /\ interrupt' = TRUE
  /\ conn' = [conn EXCEPT !.at = "asked"]
  /\ UNCHANGED <<ident, closing, answer>>
  /\ UNCHANGED Rest

\* chat_finished: the message is complete, its verdict not yet told.
DeliverFinished ==
  /\ Draining
  /\ \/ conn.at = "asked"
     \/ AllTold /\ ~(st[conn.run] = "paused" /\ conn.tells)
  /\ closing' = TRUE
  /\ conn' = [conn EXCEPT !.at = "closing"]
  /\ UNCHANGED <<ident, outcome, answer, status, interrupt>>
  /\ UNCHANGED Rest

\* workflow_finished: how the run ended.
DeliverOutcome ==
  /\ Draining /\ conn.at = "closing" /\ conn.tells
  /\ outcome' = TRUE
  /\ Concluded(StatusOf(st[conn.run]))
  /\ conn' = [conn EXCEPT !.at = "closed"]
  /\ UNCHANGED <<ident, closing, answer, interrupt>>
  /\ UNCHANGED Rest

-----------------------------------------------------------------------------
(* The stream stops delivering *)

\* Mutant: a stream that ends early is taken for one that ends without its
\* verdict.
EndedEarly(told, over) == IF told THEN "Complete" ELSE "EndedWithoutOutcome"

Ended(told, over) ==
  CASE told -> "Complete"
    [] ~told /\ over -> "EndedWithoutOutcome"
    [] OTHER -> "Broken"

\* Mutant: one try too many.
MayTryOnceMore(a) == a < Tries
MayTryAgain(a) == a + 1 < Tries

\* Mutant: a fresh round is sent again, named or not.
FreshRound == kind = "New"
Unnamed == ident = None

\* Mutant: the last restart is taken to be unspent still.
NeedsNoReset(p) == FALSE
NeedsReset(p) == ~p

\* The top of reattach's loop: the restart is announced, then the request sent.
Attach(a) ==
  /\ attempt' = a
  /\ Restarted
  /\ pristine' = TRUE
  /\ pc' = "attaching" /\ mode' = "attach" /\ conn' = None

\* read_back_answer: a restart nothing was delivered after is not announced
\* again.
ReadBack(p) ==
  /\ pc' = "polling" /\ reads' = 0 /\ conn' = None
  /\ IF NeedsReset(p) THEN Restarted ELSE UNCHANGED consumer

\* The run told its outcome: the call is done.
StopComplete ==
  /\ Draining /\ Ended(outcome, closing) = "Complete"
  /\ Return("ok")
  /\ UNCHANGED <<made, st, posts, kind, ident, mode, attempt, rejected, reads,
                 pristine, outcome, closing, answer, status, interrupt>>

\* Everything is there but the verdict.
StopWithoutOutcome ==
  /\ Draining /\ Ended(outcome, closing) = "EndedWithoutOutcome"
  /\ IF ident = None
     THEN Return("ok") /\ UNCHANGED reads
     ELSE pc' = "finalizing" /\ reads' = 0 /\ conn' = None /\ UNCHANGED result
  /\ UNCHANGED <<made, st, posts, kind, ident, mode, attempt, rejected,
                 pristine, outcome, closing, answer, status, interrupt>>

Broken == Draining /\ Ended(outcome, closing) = "Broken"

\* The run has no name yet: the request goes out again, Tries times in all.
Resend ==
  /\ Broken /\ mode = "post" /\ Unnamed
  /\ Restarted
  /\ IF MayTryAgain(attempt)
     THEN /\ attempt' = attempt + 1 /\ rejected' = 0
          /\ pc' = "opening" /\ conn' = None
          /\ UNCHANGED result
     ELSE Return("err") /\ UNCHANGED <<attempt, rejected>>
  /\ UNCHANGED <<made, st, posts, kind, ident, mode, reads, pristine, outcome,
                 closing>>

\* The run has a name: it is attached to, never started again.
StartReattach ==
  /\ Broken /\ mode = "post" /\ ~Unnamed
  /\ Attach(0)
  /\ UNCHANGED <<made, st, posts, kind, ident, rejected, reads, outcome,
                 closing, result>>

\* The next turn of reattach's loop, or its end.
NextAttach ==
  /\ IF MayTryAgain(attempt)
     THEN Attach(attempt + 1) /\ UNCHANGED reads
     ELSE ReadBack(pristine) /\ UNCHANGED <<attempt, pristine, mode>>
  /\ UNCHANGED <<made, st, posts, kind, ident, rejected, outcome, closing,
                 result>>

BreakAgain == Broken /\ mode = "attach" /\ NextAttach

-----------------------------------------------------------------------------
(* reattach *)

\* Replayed from the start. A replay of a message already finished may end
\* without its outcome.
Reattached ==
  /\ pc = "attaching"
  /\ \E tells \in BOOLEAN : (Over(ident) \/ tells) /\ Connect(ident, tells)
  /\ pristine' = FALSE
  /\ UNCHANGED <<made, st, posts, kind, ident, mode, attempt, rejected, reads,
                 answer, status, interrupt, result>>

AttachFailed == pc = "attaching" /\ NextAttach

\* endpoint_missing: the loop is left at once.
AttachMissing ==
  /\ pc = "attaching"
  /\ ReadBack(pristine)
  /\ UNCHANGED <<made, st, posts, kind, ident, mode, attempt, rejected,
                 pristine, outcome, closing, result>>

-----------------------------------------------------------------------------
(* Chat history *)

\* Mutant: the deadline is set anew at every poll.
WaitedAnew(n) == n

\* Polls made since the deadline was set.
Waited(n) == n + 1

\* The message is stored once the run is over: its whole text and its verdict,
\* of a pause not what it asks.
PollFinds ==
  /\ pc = "polling" /\ Over(ident)
  /\ answer' = answer \o Text(ident)
  /\ Concluded(StatusOf(st[ident]))
  /\ Return("ok")
  /\ UNCHANGED <<made, st, posts, kind, ident, mode, attempt, rejected, reads,
                 pristine, outcome, closing, interrupt>>

\* Still generating, not listed, or the read failed.
PollFindsNothing ==
  /\ pc = "polling"
  /\ IF Waited(reads) < Polls
     THEN reads' = Waited(reads) /\ UNCHANGED <<pc, result, conn>>
     ELSE Return("err") /\ UNCHANGED reads
  /\ UNCHANGED <<made, st, posts, kind, ident, mode, attempt, rejected,
                 pristine, outcome, closing, answer, status, interrupt>>

\* finalize_from_history: the verdict alone.
FinalizeReads ==
  /\ pc = "finalizing"
  /\ Concluded(StatusOf(st[ident]))
  /\ Return("ok")
  /\ UNCHANGED <<made, st, posts, kind, ident, mode, attempt, rejected, reads,
                 pristine, outcome, closing, answer, interrupt>>

\* A read that failed is repeated; a message that is not there ends the call.
FinalizeFails ==
  /\ pc = "finalizing"
  /\ \/ /\ reads + 1 < Tries
        /\ reads' = reads + 1 /\ UNCHANGED <<pc, result, conn>>
     \/ Return("err") /\ UNCHANGED reads
  /\ UNCHANGED <<made, st, posts, kind, ident, mode, attempt, rejected,
                 pristine, outcome, closing, answer, status, interrupt>>

-----------------------------------------------------------------------------
Serve == \E r \in Runs : Produce(r) \/ EndRun(r)

Client ==
  \/ OpenStream \/ HandshakeRejected \/ HandshakeFailed
  \/ DeliverStarted \/ DeliverText \/ DeliverAsk \/ DeliverFinished
  \/ DeliverOutcome
  \/ StopComplete \/ StopWithoutOutcome \/ Resend \/ StartReattach
  \/ BreakAgain \/ Reattached \/ AttachFailed \/ AttachMissing
  \/ PollFinds \/ PollFindsNothing \/ FinalizeReads \/ FinalizeFails

Next == Serve \/ Client

Spec == Init /\ [][Next]_vars

\* Every wait of the client is bounded: a connection delivers or is given up
\* after a minute without a frame, a handshake answers or times out, a sleep
\* ends. The server owes nothing.
FairSpec == Spec /\ WF_vars(Client)

-----------------------------------------------------------------------------
(* Properties *)

\* However often the connection broke, the listener is shown one answer, its
\* chunks in order and none twice, and "ok" comes with the whole of it.
Delivery == INSTANCE AnswerDelivery WITH
  text <- IF ident = None THEN <<>> ELSE Text(ident),
  over <- ident # None /\ Over(ident),
  shown <- answer
Delivers == Delivery!Spec

\* A run the client knows by name is never started a second time.
NoSecondRun == [][posts > 0 /\ ident # None => posts' = posts]_vars

\* A call that returns "ok" knows how the run ended, and nothing but a pause
\* is reported as one.
VerdictIsTheRuns ==
  /\ result = "ok" => /\ ident # None /\ Over(ident)
                      /\ status = StatusOf(st[ident])
  /\ interrupt => ident # None /\ st[ident] = "paused"

\* The call returns, whatever the server and the network do.
Returns == <>(result # "no")
=============================================================================
