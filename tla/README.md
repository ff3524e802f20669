# longbridge-terminal in TLA+

A verification project for the `longbridge` command line program: TLA+ models of
the parts of it whose correctness depends on the order things happen in, TLC
runs that check them on small instances, and TLAPS proofs of the properties that
matter most for every value of the constants. Paths below are relative to the
repository's `src/` directory (`ai/state.rs` is `src/ai/state.rs`).

## The system

One binary: some eighty one-shot commands (quotes, orders, fundamentals), a
market TUI, a chat view on an AI agent (`longbridge ai`), the same agent on the
command line, and a JSON-RPC server on stdin. All of them share one process-wide
sign-in, one set of SDK contexts and one rate limiter.

| Component | State it keeps | Operations | What is hard about it | Model |
|---|---|---|---|---|
| **AI chat session** `ai/state.rs`, `ai/tui.rs`, `ai/runtime.rs`, `ai/session_store.rs`, `ai/analytics.rs` | transcript, busy flag, generation, conversation ids, queue, pending question, handle of the turn's task | submit, queue, cancel, retry, follow-up, answer, new session, resume, sign out and in; one branch of the select loop per channel | turn tasks outlive the turn; one channel for all turns; session loads and sign-ins arrive whenever they like | `ChatSession` |
| **Rate limiter** `openapi/rate_limiter.rs` | recent grants, common pause | `acquire`, `execute`, `pause_until` | a mutex held across a sleep, a clock read before it, rejections racing, aborted waiters | `RateLimiter` |
| **Agent stream client** `cli/agent/client.rs`, `cli/agent/events.rs` | run name, attempt, drain flags, the aggregate | post, drain, resend, reattach, read back, finalize | the run survives the connection; a replay must not double, a resend must not start a second run | `AgentStream`, `AnswerDelivery` |
| JSON-RPC server `cli/serve/` | request permits, in-flight calls, cancellation tokens | one task per line of stdin, cancel, drain at end of input | 8 permits, out-of-order answers, 5 s drain, a subscription racing its snapshot | `Serve` |
| **Signing in** `auth.rs`, `secure_storage.rs`, `openapi/context.rs`, the login panel of `ai/tui.rs` | the stored token, the registered client, the panel, one command slot, the process-wide contexts and the signed-out flag | ask for a code, poll two data centers, store, report, rebuild the contexts; revoke and delete | a login's task outlives its panel, and several run beside a loop that is itself waiting for the network | `DeviceLogin` |
| Authentication, the rest | token expiry, legacy stores | refresh, login through a browser callback, migration | several processes refresh one token | left |
| **Market TUI, stock page** `tui/systems/stock_detail.rs`, `tui/systems/mod.rs`, `tui/kline.rs` | the stock on screen, refresh generation and task, books subscribed, chart series and those in flight | enter, move the cursor, refresh, change the layout, leave; draw; fetch in order of need, subscribe, release, read ahead | every keystroke supersedes a task that has half its requests out; subscriptions by one task, given back by another | `StockPage` |
| Market TUI, the rest `tui/`, and stores `data/` | watchlist, orders, portfolio, news, popups; the fields of the quotes | Bevy systems, background fetches, pushes | answers to a popup that was replaced, a store that reads, clones and writes | not modelled |
| Region, update, analytics `region.rs`, `update.rs`, `analytics/` | cached probe, cached release check, event queue | probe and repin, check and refresh, batch and flush | caches that expire, detached refreshes, flush at exit | left |
| Agent REPL `cli/agent/chat.rs`, `cli/agent/mod.rs` | current chat and pause | one round at a time, answers | verdicts that decide the exit code | left |
| Trading and query commands `cli/*.rs` | none between steps | one request each | the confirmation and dry-run gate of an order | the preview codes in `Serve`; rest not modelled |

How they interact: the chat view spawns a task per turn that runs
`stream_conversation`; what that reports is mapped to chat events and sent into
the view's one channel. `stream_conversation`, and every OpenAPI call, first
acquires a grant of the rate limiter. The view's sign-in and sign-out go through
`auth.rs` and replace the contexts the calls use.

What makes each correct:

- *Chat*: the screen shows only the conversation it is on; one turn at a time;
  a prompt typed meanwhile goes out once and only when it may; a turn is built
  on a message that finished; a replay doubles nothing; every turn ends and is
  reported; nobody's conversation is continued by somebody else.
- *Limiter*: the gap and the window, whatever the schedule; a rejection holds
  everybody back; first come, first served; nobody waits for ever.
- *Stream client*: one answer, whole and once; one run per request; a verdict
  that is the run's own; it returns.
- *Serve*: one answer per request and none to a notification, never more than the
  permits at work, a burst paced and not dropped, no change of a quote lost between a
  subscription and its snapshot, an order through the gate only with the digits of a
  preview, a bounded drain that is complete when it is not cut short.
- *Stock page*: the reader who stops gets the chart and the order book, whatever
  was superseded on the way; no order book is streamed that nobody will give back;
  an answer says nothing of another stock.
- *Signing in*: what the process asks and trades with is the account of the stored
  token; every login ends, a granted one with its token; a login the reader called off
  stays off. Of the refresh (left): a newer token is never replaced by an older one.

## Modules

| Module | What it is |
|---|---|
| `ChatSession` | state machine of the chat view, with the turn tasks, the loads and the server's messages |
| `MCChatSession` | what the reader and the network may do in each TLC instance |
| `MCChatScenarios` | three courses of events of a chat in one instance |
| `ChatSession_proofs` | `TypeOK`, `BusyIffTurn`, `TranscriptOfThread` for every instance |
| `ChatTurns_proofs` | `StartsAreFinished`, `NoStrayTask`, `AtRest`, `NoTurnWhileSignedOut` for every instance |
| `ChatAnswers_proofs` | `AnswersGoToTheirQuestion`, `NothingTwice`, and `ParentCompleted` but for a read-back, for every instance |
| `RateLimiter` | state machine of the limiter, its callers and the clock |
| `MCRateLimiter` | a scheduler that is late so often, for TLC |
| `RateLimiter_proofs` | `TypeOK`, `GapKept`, `WindowKept`, `RejectionsQuiet`, `InOrder` for every instance |
| `AgentStream` | state machine of `stream_conversation`, the server's runs, the aggregator |
| `AnswerDelivery` | abstract: what `stream_conversation` promises its listener |
| `AgentStream_proofs` | `AgentStream` implements `AnswerDelivery`, `TypeOK`, `NoSecondRun`, `VerdictIsTheRuns` |
| `Serve` | state machine of the JSON-RPC server: read loop, request tasks, writer, pusher, the order gate |
| `MCServe` | what each kind of client may write |
| `Serve_proofs` | `TypeOK`, `Paced`, `AnsweredOnce`, `DrainIsComplete`, `NoTickLost`, `OrdersWereVouchedFor` |
| `StockPage` | state machine of the stock page: UI thread, refresh tasks, the SDK's commands, the server's streams |
| `MCStockPage` | the watchlist, and a bound that trades a failure for a refresh |
| `StockPage_proofs` | `TypeOK`, `OnTheBooks`, `NotFoundIsTheStocks`, `OnlyTheNewestAsks` |
| `DeviceLogin` | state machine of signing in and out: the loop, the logins' tasks, the stored token, the contexts |
| `MCDeviceLogin` | remembers which logins the reader called off |
| `DeviceLogin_proofs` | `TypeOK`, `AccountIsTheStored` |

### ChatSession

State: the fields of `ChatState` that decide anything (`generation`, `messages`,
`streaming`, `busy`, the three ids, `pending_interrupt`, `turn_error`, `queued`,
`further`, `turn_started`), the view and the question panel of `Ui`, the loop's
`turn` handle, `ready` and `account` of the process, and the channels: `events`
(the turns' shared channel), `loads` (session loads under way), `loaded` (their
channel). The other side: `task` (a turn's task and what it has sent), `request`
(what it asked for), `server` (the stored messages).
`thread`, `reported`, `spawned` and `used` are history: the conversation on screen counted by
every change of it, what analytics was told, the bounds spent.

Actions: one per handler. `SendPrompt`, `RetryLast`, `ClickFurther`,
`AnswerQuestion`, `Cancel`, `NewSession`, `SignOut`, `SignIn`, `RequestLoad` and
`Navigate` are the reader's; `Receive...` are the branches of `turn_rx`, one per
kind of event; `ReceiveLoad` is `load_rx`; `Accept`, `Stream`, `Disconnect`, `End`
are a turn task's polls, `AbortLands` the moment tokio drops an aborted one;
`Settle` ends a run on the server. A tool that failed on the trade password fails the
turn while its run goes on (`TurnError` behind `ToolFinished` in `Stream`). A load is
numbered, since a second Enter on the same session starts a second one; what it finds
of a paused message may lack a payload that can be answered, and then the chat comes
back with no question (`Pending`).

A line of the transcript is a record of its role, the turns whose text it shows
and whether it claims to run; the text itself, reasoning, token usage, titles,
references and the welcome line are left out (nothing branches on them). An
aborted task may still send what it had ready: abort lands at its next await.
A resumed turn whose stream breaks before its start is treated as one that was
accepted. Every stored message has an id: one without (`m.id == 0` in `load_detail`) would
restore a chat with neither a message to answer nor a question.

### RateLimiter

`TakeLock`, `Look`, `Decide` (`Grant` or `Pace`) and `Wake` are `acquire` between
its awaits; `Execute`, `Reject`, `Resume` and `Return` are `execute`; `Drop` is a
task aborted at an await. `Look` reads the clock and trims the window, `Decide`
uses what was read: the clock and other callers' rejections may come between, as
they may between `Instant::now()` and the grant. Time is in ticks. A sleeper wakes
at its time or later.

### AgentStream

`OpenStream`, `HandshakeRejected`, `HandshakeFailed` are the POST;
`Deliver...` one frame of the connection each, with what the aggregator makes of
it; `StopComplete`, `StopWithoutOutcome`, `Resend`, `StartReattach`, `BreakAgain`
what follows a stream that stops, by `ended`'s verdict, the loop and the name;
`Reattached`, `AttachFailed`, `AttachMissing` the reconnect; `PollFinds...`,
`Finalize...` the two reads of history. A connection may die between any two
frames: an error, an end of stream and a minute of silence look the same to
`ended`. Backoffs belong to the step that ends in them, since nothing but the
server moves meanwhile. The server (external): a run starts when its POST is
accepted, writes up to `MaxText` chunks, ends or does not; a replay of a message
that had finished may end without its verdict; a stored message is whole once
its run is over. The text of a resumed message is counted from its resumption.

`AnswerDelivery` has four variables (what is written, whether that is all, what is
shown, what was returned) and no connection. `AgentStream!Delivery` maps the
text of the named run to what is written, the aggregate to what is shown.

### Serve

`loop` is `run`'s place, `input` the lines it read (a request's id is its place),
`stage` and `outcome` the spawned task of each request, `free` the semaphore,
`channel` the unbounded channel every sender shares, `writer` and `pusher` the two
tasks beside them, `stdout` what the client has. Upstream is `tick` (the quote,
counted by its changes), `subscribed`, `feed` (pushes under way) and `exchange`
(orders sent). `ReadLine`, `ReadShutdown`, `ReadEof`, `ReadError`, `Drained` and
`DrainTimesOut` are `run`; `Write`, `WriteFails`, `WriterEnds` the writer;
`Push`, `PusherStops` the pusher; `Acquire`, `Call` and `Finish` a task between
its awaits, `Hang` a call that never comes back. `QuoteSubscribe` has the two
halves of `quote.subscribe`, since a change may come between them. `CallOrder` is
the gate of `utils/dry_run.rs`: no code previews, digits that are not the scope's refuse,
digits that are send. `Digest` gives each scope its three digits and need not tell two
scopes apart: `Scope::code` is a hash modulo 1000, and `utils/dry_run.rs:414` says that
codes "will collide by design". So what the gate promises, and `OrdersWereVouchedFor`
states, is of the digits: they stood on the preview of an earlier request. That the very
order was previewed is not true of the code: not when its scope shares the code of another
(`CollidingDigest` in the run), and not of terms the scope leaves out. `CallPost` is
`api.post` sent to an endpoint that takes orders: no gate at all. A call that hangs may
have had its order taken. Clients (external) write any lines, but quote only codes they
were shown. The other methods are one call each (`CallPlain`).

### StockPage

`Open`, `Select`, `Leave` and `ToggleLayout` are the reader's. `Refresh` bumps the
generation and spawns; `Supersede` replaces `REFRESH_TASK` and aborts the older
task, a step of its own because the runtime may run tasks between. `Frame` draws:
it learns how many candles fit, and asks for the chart if it is settled and
nobody else does. A refresh task is a record of what it awaits: `Settle`, then
one action per answer in the order of `refresh_stock_debounced` (`GotQuote`,
`GotChart`, `GotTrades`, `Subscribed`, `GotCorrection`, `GotStatic`, `Released`),
then `Rested`, `GotAheadChart`, `GotAheadTrades` for `read_ahead`. `Drop` is the
runtime dropping an aborted task, and the `InflightGuard` with it. `books` is what
`WsManager` believes subscribed, `streams` what the server pushes, `wire` the
commands between the two in the order they were given; `Serve` and `Fail` answer
the first, and the answer of a task that is gone is dropped. `Unmount` is the task
`exit_stock` spawns.

Assumed: a stretch of a task between two awaits is one step (`is_current` is
checked and acted on within it); the 80 ms debounce outlasts the scheduling of
what was ready when it began (`Prompt`); the SDK serves its commands in order, one
at a time. One period of chart stands for all; the pages of history, and
whether trades are stored, are left out (`ToStatic` and `AheadTrades` may go
either way).

### DeviceLogin

`loop` is where `run` is: at its select, in a burst of keys it drains before it looks at
`ui.pending`, or inside one of the awaits of the two commands and of the `login_rx`
branch. `login` is the panel (the login it shows), `login_rx` the channel, `task`, `poll`
and `client` the spawned tasks with their two pollers and the client they poll as.
`token` and `registration` are the two files, `temp` the one beside the first that every
saver writes and renames, `context` the token the contexts were
built from, `loaded` the one they are being built from, `ready` what `is_ready` says.
`code`, `decided` and `revoked` are the authorization server and the reader's browser
(external). Tokens and clients are named after the login that asked for them.

`AskSignIn`, `AskSignOut`, `AskNewSession`, `Cancel` and `AskQuit` are keys and clicks (a
new session matters here only in a burst that asked for something else before, since they
share the slot `pending`); `Command`,
`Start`, `StartFails`, `Revoke`, `Delete`, `DeleteFails` the commands; `Receive`, `Refresh`,
`Refreshed`, `Restored`, `Load`, `Install`, `BuildFails` the report of a login, with the
rebuilding of the contexts: the stored token refreshed if it has expired (written back
over whatever a task stored meanwhile), read, installed; `Granted`, `Rejected`, `RequestFails` and `TimesOut`
one poll each, `Write`, `Rename` and `Report` the end of the task. A refreshed token keeps
its login's name.

Assumed: a poll answered "pending" or "slow_down" changes nothing, and intervals are
left out; every request is answered or fails (the client sets no timeout); what a code
is granted in its last interval counts as not granted; building the contexts fails or
succeeds as one step after the read. The tasks end with the process at `Leave`, so the
`abort` of `login_task` there is part of it. The code is known
to both data centers once it is polled there: were one to answer `invalid_grant` for a code
of the other, that would end the login (`auth.rs:837`). A file is written in one step, and
a write that fails leaves the temporary file as it was. Tokens refreshed by other processes,
or by the SDK once the contexts are built, are not modelled.
`ChatSession` keeps of all this that a sign-in may succeed at any time.

## Runs

| Run | Asks | Bounds | Result |
|---|---|---|---|
| `Chat` | does anything of a conversation left behind reach the one on screen; one turn at a time, on a finished parent, answered to the message that asked; do flag, handle and analytics agree; is anything doubled, stuck, left running, or sent while signed out (the answer to a question apart) | 2 turns and one of three courses: 2 prompts and 1 new conversation or 1 sign-out and sign-in; 1 stored chat that finished, failed or asks, two shapes of question, opened once between prompts or twice over; 1 lost connection, tools and text | holds |
| `ChatLive` | does every turn end, does the queue go out | 2 turns, 1 cancel, questions that confirm | holds |
| `ChatLateEvent` | are events applied only to the turn that sent them, with a cancel | as `ChatLive`, with text | **violated** |
| `ChatReadBack` | is the parent always a finished message, with a lost connection | 2 turns, 1 lost connection, questions | **violated** |
| `ChatAccount` | are requests sent only to the account's own conversations | 1 turn, 1 load, sign-out and sign-in | **violated** |
| `AgentStream` | one answer, one run, the right verdict, an end | 3 posts, 3 attaches (the code's numbers), 1 handshake retry, 2 polls, 2 chunks | holds |
| `RateGrants` | gap, window, pause, retry bound, order; does every call return | 2 callers, window of 3 with 2 grants, 17 ticks, of which 2 find a caller late | holds |
| `Serve` | one answer each, permits, the drain, the feed, the gate; does a burst get answered, does it leave | 3 lines of a caller or of a trader, 2 of a subscriber, 4 scopes of which two share a code, 2 permits, 1 hung call, 2 changes of the quote | holds |
| `StockPage` | are streams given back, is it the right stock, does only the newest ask, does the page fill | 3 refreshes of 3 stocks (2 in the watchlist, 1 unknown) or 2 and a failed command, 1 leave | holds |
| `StockClosed` | does a page that was left stream nothing | 2 refreshes, 1 leave, no failure | **violated** |
| `DeviceLogin` | is the process signed in as what is stored; does every panel close, is a granted code collected | 2 requests to sign in or out, 2 data centers | holds |
| `LoginCancelled` | does a login the reader called off stay off | 1 login | **violated** |

Why the bounds are enough to be interesting. Every hazard of the chat is between
two turns, or a turn and a load, or a turn and a sign-in: two turns with two
events in flight hold a late event, its successor's events and a queued prompt
at once, and `Chat`'s three courses cross one disturbance each with turns.
`RateGrants`' horizon spans five windows and
a retry with its backoff for each caller; two late ticks put a caller behind at any
two of its steps. `Serve`'s two permits are held by a hung call and a slow one while a
third request waits. `StockPage`'s three refreshes hold one task aborted with a command
out, its successor aborted in the debounce, and the newest; a failure takes the
place of a refresh (`Bounded`). `DeviceLogin`'s two requests are two logins at once, a
login and a sign-out in either order or in one burst, or two sign-outs; a third adds no
new pair. `AgentStream` keeps the code's three tries; handshake
retries and polls only repeat, and two chunks tell a doubled prefix from a whole
answer. Deadlock checking is off: a session the reader leaves alone, a call that
returned and a clock at its horizon stop rightly.

Each property has a mutant in `PROJECT.json`: a definition next to the one it
replaces, marked *Mutant*, that breaks the code the way a slip would and that TLC
must catch with that property.

### What the violations show

- `ChatLateEvent`. `ai/state.rs:200` promises that late events of an aborted turn
  "can never be applied to its successor". `cancel_turn` leaves the generation
  alone, so after a cancel the events already in the channel pass the gate, and
  are applied to the next turn: its `TurnFinished` ends it on screen while it runs.
  `NoStrayTask`, `ParentCompleted`, `AnswersGoToTheirQuestion`, `AtRest` and
  `NothingTwice` are stated of sessions without a cancel or a sign-out, since this
  breaks them too; in those no event reaches a turn not its own
  (`EventsReachTheirTurn`, proved).
- `ChatReadBack`. `ai/state.rs:213` says a turn paused for answers cannot be built
  on. A paused run read back from history ends like a clean one and becomes the
  parent.
- `ChatAccount`. `ai/tui.rs:1241` says the thread on screen is not the next
  account's to add to. A load under way across a sign-out and a sign-in restores
  the old account's ids under the new one. `AccountSpec` lets the account change
  only through a sign-out.
- `StockClosed`. `tui/systems/mod.rs:45` says the order book belongs to whichever
  stock the detail view shows, and that leaving it subscribed is what made a session
  slow. `exit_stock` spawns the unmount but leaves the refresh running and current:
  one that still waits for its chart or its trades subscribes after the unmount, and
  the book is pushed, with no page to draw it, until another stock is loaded.
- `LoginCancelled`. Esc in the login panel is called cancelling (`ai/tui.rs:1607`), and
  the reader is told "Sign-in cancelled." Only the panel goes: the task polls on, and a
  code confirmed in the browser afterwards is stored and signs the process in.

Met while modelling and not given a run: `click_chip`'s Further branch
(`ai/tui.rs:2832`) starts a turn without reporting it to analytics, while its end
is reported; `docs/rate_limiting.md:105` says at most 3 retries where the code does
5, and `:91` a burst of 20 without throttling where the code spaces every call; a
pause read back by the command line client has no payload to answer. `serve`'s
`trade.submit_order` calls a code good for one order (`cli/serve/methods.rs:168`),
but `Scope::verify` keeps no record, so a code sends its order as often as it is
quoted; the same line says that it "only applies to this exact request", and
`utils/dry_run.rs:198` that it "only works for this exact order", where any order whose
scope has the same three digits is sent by it; and `cli/serve/methods.rs:156` calls the three
gated methods the only ones that move real money, while `api.post` beside them
(`:267`) takes an order to its endpoint. `KLINES.spawn_request` (`tui/kline.rs:165`) asks for no redraw, so a chart
fetched by a frame waits for the next key or push to be drawn. The news list and
the article share one generation (`tui/systems/stock_news.rs:239`), so changing the
stock supersedes a fetch of the article and leaves it loading. In the login, `pending` is one
slot, so a `/logout` and a `/login` of one burst lose the sign-out; a sign-out between a
login's report and the building of the contexts makes the chat leave; a login given up
after its client was registered anew has replaced the registration; the request
of a poll has no timeout (`auth.rs:653`), so a login may outlive its code; two tasks that store
at once share the temporary file, so one may store the other's token and the other then
report that its own could not be saved; and two
`slow_down` answers, one per data center, count twice. `data/stocks.rs:37` calls
`modify` atomic where it reads, clones and inserts.

## Fairness

- `ChatSession!FairSpec`: weak fairness of the event loop, of each load task, of
  each turn task and of the end of a server run. The loop is one task that polls
  its channels for ever; a task is polled by tokio until it returns; every read
  of a stream is under a timeout, so a turn task cannot be silent for ever. None
  of the reader's actions is fair: nobody has to press anything. An aborted task
  is fair like a live one.
- `RateLimiter!PromptSpec`: a caller that can move does so within the tick it can
  move in, and ticks go on (strong fairness, since callers that come and are
  dropped may keep an instant busy, though not for ever). The safety
  runs use `Spec`, in which wake-ups may be late by any amount.
- `AgentStream!FairSpec`: weak fairness of the client alone. A connection delivers
  or is given up after 60 s without a frame, a handshake times out, a sleep ends.
  The server owes nothing: `Returns` holds for a run that never ends. A run that
  sends heartbeats for ever and nothing else is not in the model; the call would
  wait on it, as it should.
- `MCRateLimiter!LateSpec`: `PromptSpec` with at most `MaxLate` ticks that find a
  caller ready to move, so that one run checks safety under late callers and liveness.
- `Serve!FairSpec`: weak fairness of the writer, of the pusher's stop, of the end of
  the drain (its timeout fires) and of every request's task: tokio polls what is
  ready. Clients owe no line, upstream no change of the quote, and a call may hang:
  `BurstIsAnswered` excuses the call that hangs and a session where every permit does.
- `StockPage!Fairness`: weak fairness of the UI thread's `Supersede` and `Frame`, of
  the tasks, of an unmount and of the connection. The reader owes nothing; `Fail` is
  not fair and `NewestIsFilled` excuses a page whose own request failed.

- `DeviceLogin!Fairness`: weak fairness of the loop's own steps, of each poller's answers
  (not of its failures), of the end of a task and of the life of a code: tokio polls what
  is ready, `expires_in` is finite. The reader owes no decision; `LoginsSettle` excuses a
  grant whose own poller failed, whose client a sign-out revoked, or that the end of the
  process overtook.

## Proofs

`tlapm` proves, for every value of the constants under the `ASSUME`s of the
modules (bounds are natural numbers, `None` is none of the values it stands
beside; TLC evaluates them in every run):

- **ChatSession.** `Invariant == Spec => []IInv`, and from it `TypeCorrect`,
  `BusyIsTurn` and `TranscriptIsOwn`. `TranscriptOfThread` alone is not inductive:
  what an event in flight adds to the transcript depends on the task that sent
  it. `IInv` adds that every event carries its task's generation
  (`EventsOfTasks`), that generations count conversations (`GenerationIsThread`),
  that lines and streamed text come from spawned turns of this conversation
  (`Transcript`), that the prompt a turn began with is still on screen
  (`PromptShown`, which `cancel` and `StreamInterrupted` truncate to), that tasks
  under way have a request (`Spawned`), and that a queue has a turn left to go out in
  (`QueueHasRoom`). One lemma per action.
  `ChatTurns_proofs` builds four invariants on it, each on those before: `TInv` (a question
  is open only between turns, and the start recorded is that of the turn under way) gives
  `StartsFinish` and `QuestionsWait`, cancels included; `SInv` (of the tasks at the gate's
  generation only the loop's still runs, all that is on its way comes from it, and its end comes
  last), for sessions without a cancel or a sign-out, gives `NoneAstray` and
  `EventsReachTheirTurn`; `RestInv` gives `RestIsRest`; `SignedOutInv` (signed out, no
  turn and no queue, unless a question is answered) gives `SignedOutIsSilent`.
  `ChatAnswers_proofs` goes on, for sessions without a cancel or a sign-out, to what the
  turns say to the server. `AskInv`: the question at hand is that of the message at hand
  and, while a turn runs, of the turn's own; the same of snapshots still to be taken;
  hence `AnswersGoHome`. Why a parent finished takes three more: `FreshInv` (messages
  exist once their turn is accepted, a turn resumes at most a message there before it),
  `ToldInv` (what a task has said of its run, a question or an error, is known to the chat
  or on its way; a clean end is only sent of a run that ended well) and `ChatInv`
  (messages, requests, snapshots and parent are of the chats they are taken for; the chat
  knows its turn's message before any question of it). They give `ParentIsBuildable`, and
  `ParentsComplete`: the parent finished unless that very message was read back after a
  lost connection. That hypothesis is the finding `ChatReadBack` shows, not a
  convenience.
  `TwiceInv` gives `ShownOnce`, the theorem about replays. Its heart is `NoneTwice`: no
  tool line and no text on screen is also on its way or still to be sent, nor on its way
  twice, unless a `StreamInterrupted` comes in between, which makes the chat drop what it
  shows of the turn; a text is excepted when it is the question that an interrupt brings at
  once. Around it: `OldInv` (the lines before the turn's own are
  at rest, one tool line and one answer of each turn), `ScreenInv` (after them at most one
  line, the turn's tool line, and no more text than the turn has sent), `AskOnce` (a question
  is asked last) and `OutInv` (a task not yet accepted has sent nothing that counts). Every
  action is one of four shapes (a batch sent, an event taken, a turn begun or ended, no
  change to these), and the lines are counted only in the last lemma.
- **RateLimiter.** `GapsAreKept`, `WindowsAreKept` and `RejectionsAreRespected` for
  any number of callers. The invariant adds that the one past the mutex is its
  holder (`Exclusive`), that the pause is the latest deadline asked for
  (`PauseIsLatest`), and how the trimmed window is a suffix of the log of grants
  as old as the clock last read. `InLine` (the callers not granted yet, in the order they
  came, are the holder of the mutex followed by its queue, each once) gives
  `GrantsAreInOrder`.
- **AgentStream.** `Refinement == Spec => Delivers`: the initial state maps to
  `Delivery!Init` and each step to a step of `AnswerDelivery` or a stutter;
  `NeverResent`, `VerdictsAreTheRuns`, `TypeCorrect`. `IInv` adds `Control` (where the
  client is fits the loop, the name and the POSTs made), `Shown` (while a
  connection drains, the listener has exactly the chunks it has brought; before
  a replay or a read-back, nothing) and `RunsInOrder` (nothing is known of runs not
  started). `Shown` is what makes the `pristine` flag of `reattach` matter: it is what
  the reader has when the whole text is appended.

- **Serve.** `PacedTheorem`, `AnsweredOnceTheorem`, `DrainIsCompleteTheorem`,
  `OrdersWereVouchedForTheorem`, `TypeCorrect`, for any clients and any digest of
  scopes to codes. `IInv` adds that the
  permits not free are held one each by the tasks at work (`PermitsAreHeld`), that
  what is in the channel or on stdout was sent by a task that is done (`SentIsDone`,
  `DoneIsSent`), that the writer ends last (`WriterEndsLast`), and of the gate
  (`Gated`) that the codes in the input were shown to earlier requests
  (`CodesWereShown`), that only requests without a code are answered with a preview
  (`PreviewsAreUncoded`) and that the orders sent are each that of one call past its turn
  (`OrdersAreCalled`). `TickInv` (subscribed while
  subscriptions stand; a snapshot about to be sent, or sent, is the quote as it is unless a
  later change is on its way) gives `NoTickLostTheorem`.
- **StockPage.** `OnTheBooksTheorem`, `NotFoundIsTheStocksTheorem`,
  `OnlyTheNewestAsksTheorem`, `TypeCorrect`, for any stocks and any number of refreshes.
  `IInv` adds which tasks are alive (`TasksExist`: the handle's and one newer, in its
  debounce), that the page shows the newest refresh's stock (`ShownIsNewest`), that the
  command a task awaits is on the wire once (`AwaitedIsOnTheWire`), what an empty answer
  means (`EmptyIsMissing`), that a book off the books is taken back by an unmount already
  on the wire (`Covered`), and that while a release is under way nothing is subscribed
  behind it (`Releasing`). `Releasing` is the heart: a release strikes every book
  but its own off, having told the server of those it found when it was sent, which is
  right only because none is booked and subscribed meanwhile.
  Each action of a task is first shown to be one of three shapes (it rests or ends, it
  sends a command, it strikes off books), and the invariant is kept by the shapes.
  `OnlyItsStreamsTheorem` follows the newest refresh through its stages (`Mounting`): what
  others have on the wire is served before its own answer comes, from `subscribe` on its
  stock is booked, from the answer on it is streamed, and past the release nothing else is.

- **DeviceLogin.** `AccountIsTheStoredTheorem` and `TypeCorrect`, for any number of
  requests. `AccountIsTheStored` speaks of the loop at its select; `Agree` says the same
  of the other places it may wait in, tasks storing tokens meanwhile, and what is true
  between the read of the token and the new contexts. Whoever renames reports, so that a
  token stored is followed by a report of some login, if not of its own. `Asked` adds that a login not yet
  begun has no task, so that beginning it forgets nobody's token.

Model-checked only: liveness (`TurnsEnd`, `QueueGoesOut`, `CallsReturn`, `Returns`,
`BurstIsAnswered`, `Leaves`, `NewestIsFilled`, `LoginsSettle`), which is out of the prover's
reach. In `Chat` no run that asks something is read back, so `ParentCompleted` holds there
as it stands; its theorem asks that the parent itself was not read back.

## Plan

Done: 1 `ChatSession`, 2 `RateLimiter`, 3 `AgentStream` over `AnswerDelivery`,
4 `Serve`, 5 `StockPage`, 6 `DeviceLogin`.

What is left, in this order:

7. `TurnStream`: `ChatSession`'s turn task replaced by `AgentStream`, so that the
   events the chat receives are exactly those the client can produce.
8. The other views of the market TUI: orders and its popups, news, the watchlist.
9. The refresh of one token by several processes (`auth.rs`, `secure_storage.rs`), and
   the migration between stores.
10. Pure functions: the line editor and prompt history (`ai/editor.rs`,
   `ai/history.rs`), `utils/cycle.rs`, `utils/counter.rs`, checked against
   reference definitions.
11. Caches with an expiry: `region.rs`, `update.rs`; the flush of `analytics/core.rs`.

## Not modelled

Rendering, layout, widgets, Markdown and charts; the parsing of frames and of
command lines; the one-request query commands (no state between steps); the SDK and the
server, except as the code relies on them; the log, the locale and the start-up
of the process. The hazards known and not covered yet are in `PROJECT.json`, each
with a note, among them a restored question answered while signed out and a request resent
after a handshake that died.
