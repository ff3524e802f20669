----------------------------- MODULE StockPage -----------------------------
(***************************************************************************)
(* The stock page of the market terminal (tui/systems/stock_detail.rs,     *)
(* tui/systems/mod.rs, tui/kline.rs).  Three kinds of process share its    *)
(* state: the UI thread, which handles keys and draws frames; one refresh  *)
(* task per selection, of which the newest speaks for the page; and the    *)
(* connection of the quote SDK, which serves one command at a time.        *)
(*                                                                         *)
(* A refresh waits out a debounce, then asks for what the panel lacks, the *)
(* most visible first, streams the order book of its stock, and gives back *)
(* the books of the stocks passed over.  A newer refresh bumps the         *)
(* generation, then aborts the task of the older one.                      *)
(*                                                                         *)
(* A task's stretch between two awaits is one step.  One period of chart:  *)
(* another is another series, fetched alike.                               *)
(***************************************************************************)
EXTENDS Naturals, Sequences, FiniteSets

CONSTANTS
  Counters,      \* stocks the reader may select
  Watchlist,     \* the rows of the watchlist, which STOCKS always holds
  Snapshots,     \* rows the watchlist has a quote of
  Missing,       \* symbols the server does not know
  MaxRefreshes,  \* bound: refreshes
  MaxLeaves,     \* bound: times the page is left
  MaxFailures,   \* bound: commands that fail
  None           \* Rust's None

Refreshes == 1 .. MaxRefreshes
Rows == {Watchlist[i] : i \in DOMAIN Watchlist}

ASSUME StockPageAssumption ==
  /\ Watchlist \in Seq(Counters) /\ Snapshots \subseteq Rows
  /\ Missing \subseteq Counters /\ Missing \cap Rows = {}
  /\ MaxRefreshes \in Nat /\ MaxLeaves \in Nat /\ MaxFailures \in Nat
  /\ None \notin Counters /\ None \notin Refreshes /\ None \notin {"ok", "empty", "error"}

\* A task rests in an await: the debounce, a command, the pause before reading
\* ahead.  It ends "done", "stopped" short, or "aborted", then "gone".
Requests == {"quote", "chart", "trades", "subscribe", "correction", "static",
             "release", "ahead_chart", "ahead_trades"}
Ends == {"done", "stopped", "aborted", "gone"}
Stages == {"debounce", "rest"} \cup Requests \cup Ends

\* What the SDK is sent: "unmount" and a frame's "chart" have no refresh behind.
Commands == [op : Requests \cup {"unmount"}, of : SUBSET Counters,
             by : Refreshes \cup {None}]
Answers == {None, "ok", "empty", "error"}

\* snapshot, count: the locals has_snapshot and count; mark: the InflightGuard
\* held; ahead: neighbours still to read.
Tasks == [counter : Counters, stage : Stages, answer : Answers, snapshot : BOOLEAN,
          count : BOOLEAN, mark : Counters \cup {None}, ahead : Seq(Counters)]

VARIABLES
  \* the UI thread: the page is on screen, of which stock, how often it was left
  open, shown, leaves,
  generation,  \* REFRESH_GENERATION
  handle,      \* REFRESH_TASK: the refresh it holds the task of
  task,        \* the refresh tasks
  unmounts,    \* unmount tasks not polled yet
  settled,     \* SETTLED
  not_found,   \* STOCK_NOT_FOUND
  count,       \* CHART_COUNT > 0
  dirty,       \* a frame is asked for
  books,       \* WS.detail["stock_detail"]
  quoted,      \* stocks STOCKS has a snapshot of
  charts,      \* series KLINES holds
  inflight,    \* KLINES.inflight
  wire,        \* commands the SDK has not served
  streams,     \* whose DEPTH and TRADE the server pushes
  failed       \* history: the commands that failed

page == <<open, shown, leaves>>
stores == <<quoted, charts>>
server == <<wire, streams, failed>>
vars == <<page, generation, handle, task, unmounts, settled, not_found, count, dirty,
          books, stores, inflight, server>>

TypeOK ==
  /\ open \in BOOLEAN /\ shown \in Counters \cup {None} /\ leaves \in 0 .. MaxLeaves
  /\ generation \in 0 .. MaxRefreshes /\ handle \in 0 .. MaxRefreshes
  /\ task \in [Refreshes -> Tasks \cup {None}]
  /\ unmounts \in 0 .. MaxLeaves
  /\ settled \in Counters \cup {None}
  /\ not_found \in BOOLEAN /\ count \in BOOLEAN /\ dirty \in BOOLEAN
  /\ books \subseteq Counters /\ quoted \subseteq Counters /\ charts \subseteq Counters
  /\ inflight \subseteq Counters
  /\ wire \in Seq(Commands) /\ streams \subseteq Counters /\ failed \subseteq Commands

Init ==
  /\ open = FALSE /\ shown = None /\ leaves = 0
  /\ generation = 0 /\ handle = 0 /\ task = [g \in Refreshes |-> None]
  /\ unmounts = 0 /\ settled = None /\ not_found = FALSE /\ count = FALSE /\ dirty = FALSE
  /\ books = {} /\ quoted = Snapshots /\ charts = {} /\ inflight = {}
  /\ wire = <<>> /\ streams = {} /\ failed = {}

-----------------------------------------------------------------------------
(* The UI thread.                                                          *)

\* Between the two steps of a refresh the thread does nothing else.
Free == handle = generation

\* refresh_stock_debounced, up to the spawn.
Refresh(c) ==
  /\ generation < MaxRefreshes
  /\ generation' = generation + 1
  /\ not_found' = FALSE
  /\ task' = [task EXCEPT ![generation + 1] =
       [counter |-> c, stage |-> "debounce", answer |-> None, snapshot |-> FALSE,
        count |-> FALSE, mark |-> None, ahead |-> <<>>]]

\* Its end: REFRESH_TASK is replaced, and the previous task aborted.
Supersede ==
  /\ ~Free
  /\ handle' = generation
  /\ task' = IF handle = 0 \/ task[handle].stage \in Ends THEN task
             ELSE [task EXCEPT ![handle].stage = "aborted"]
  /\ UNCHANGED <<page, generation, unmounts, settled, not_found, count, dirty, books,
                 stores, inflight, server>>

\* enter_stock.
Open(c) ==
  /\ Free /\ ~open
  /\ open' = TRUE /\ shown' = c /\ dirty' = TRUE
  /\ Refresh(c)
  /\ UNCHANGED <<leaves, handle, unmounts, settled, count, books, stores, inflight, server>>

\* The cursor moves to another row, or R asks for the same stock again.
Select(c) ==
  /\ Free /\ open
  /\ shown' = c /\ dirty' = TRUE
  /\ Refresh(c)
  /\ UNCHANGED <<open, leaves, handle, unmounts, settled, count, books, stores, inflight,
                 server>>

\* exit_stock.  The refresh is neither aborted nor outdated.
Exit ==
  /\ leaves < MaxLeaves /\ leaves' = leaves + 1
  /\ settled' = None
  /\ unmounts' = unmounts + 1

Leave ==
  /\ Free /\ open
  /\ open' = FALSE /\ not_found' = FALSE
  /\ Exit
  /\ UNCHANGED <<shown, generation, handle, task, count, dirty, books, stores, inflight, server>>

\* The other layout of the same page: exit_stock, then enter_stock.
ToggleLayout ==
  /\ Free /\ open
  /\ Exit
  /\ dirty' = TRUE
  /\ Refresh(shown)
  /\ UNCHANGED <<open, shown, handle, count, books, stores, inflight, server>>

Send(op, of, by) == wire' = Append(wire, [op |-> op, of |-> of, by |-> by])

\* A frame.  It draws a chart only of a stock STOCKS knows, and asks for a series
\* it lacks if the reader has stopped on it and nobody else is asking.
Asks == /\ shown \in Rows \cup quoted
        /\ shown \notin charts /\ settled = shown /\ shown \notin inflight

Frame ==
  /\ Free /\ open /\ dirty
  /\ dirty' = FALSE
  /\ count' = (count \/ shown \in Rows \cup quoted)
  /\ IF Asks THEN Send("chart", {shown}, None) /\ inflight' = inflight \cup {shown}
             ELSE UNCHANGED <<wire, inflight>>
  /\ UNCHANGED <<page, generation, handle, task, unmounts, settled, not_found, books,
                 stores, streams, failed>>

\* A push marks the page dirty.
Push ==
  /\ open /\ shown \in streams /\ ~dirty
  /\ dirty' = TRUE
  /\ UNCHANGED <<page, generation, handle, task, unmounts, settled, not_found, count,
                 books, stores, inflight, server>>

-----------------------------------------------------------------------------
(* A refresh task.                                                         *)

is_current(g) == generation = g
Mine(g) == {task[g].counter}

\* The task goes on to await `stage`; r is its record with what it learnt.
Await(g, r, stage) == task' = [task EXCEPT ![g] = [r EXCEPT !.stage = stage, !.answer = None]]
Call(g, r, op, of) == Await(g, r, op) /\ Send(op, of, g)
End(g, stage) ==
  task' = [task EXCEPT ![g] = [@ EXCEPT !.stage = stage, !.answer = None, !.mark = None, !.ahead = <<>>]]

Answered(g, op) == task[g] # None /\ task[g].stage = op /\ task[g].answer # None

\* The chart, if a frame has told how wide it is and KLINES.ensure finds nobody
\* fetching it, then the trades.
ToChart(g, r) ==
  LET c == r.counter IN
  IF count /\ c \notin charts \cup inflight
    THEN /\ Call(g, [r EXCEPT !.count = count, !.mark = c], "chart", {c})
         /\ inflight' = inflight \cup {c}
    ELSE /\ Call(g, [r EXCEPT !.count = count], "trades", {c})
         /\ UNCHANGED inflight

\* Assumed: the 80 ms debounce outlasts the scheduling of what was ready to run
\* when it began, the abort of the task before and an unmount.
Prompt == /\ Free /\ unmounts = 0
          /\ \A g \in 1 .. generation : task[g].stage # "aborted"

Settle(g) ==
  /\ task[g] # None /\ task[g].stage = "debounce"
  /\ Prompt
  /\ is_current(g)
  /\ LET r == [task[g] EXCEPT !.snapshot = task[g].counter \in quoted] IN
     /\ settled' = r.counter
     /\ dirty' = TRUE
     /\ IF r.snapshot THEN ToChart(g, r)
        ELSE Call(g, r, "quote", {r.counter}) /\ UNCHANGED inflight
  /\ UNCHANGED <<page, generation, handle, unmounts, not_found, count, books, stores,
                 streams, failed>>

\* Mutant: fetch_snapshot does not ask whom it speaks for.
AbsentAnyway(g) == task[g].answer = "empty"

\* The server knows no such symbol.
Absent(g) == is_current(g) /\ task[g].answer = "empty"

\* fetch_snapshot for a stock with nothing to show.
GotQuote(g) ==
  /\ Answered(g, "quote")
  /\ LET c == task[g].counter
         stored == is_current(g) /\ task[g].answer = "ok"
     IN  /\ quoted' = IF stored THEN quoted \cup {c} ELSE quoted
         /\ not_found' = (not_found \/ Absent(g))
         /\ dirty' = (dirty \/ Absent(g) \/ (stored /\ count /\ c \in charts \cup inflight))
         /\ IF stored THEN ToChart(g, task[g])
            ELSE End(g, "stopped") /\ UNCHANGED <<wire, inflight>>
  /\ UNCHANGED <<page, generation, handle, unmounts, settled, count, books, charts,
                 streams, failed>>

\* KLINES.update and the end of the guard happen whatever became of the reader.
GotChart(g) ==
  /\ Answered(g, "chart")
  /\ charts' = IF task[g].answer = "ok" THEN charts \cup Mine(g) ELSE charts
  /\ inflight' = inflight \ Mine(g)
  /\ dirty' = (dirty \/ is_current(g))
  /\ IF is_current(g) THEN Call(g, [task[g] EXCEPT !.mark = None], "trades", Mine(g))
     ELSE End(g, "stopped") /\ UNCHANGED wire
  /\ UNCHANGED <<page, generation, handle, unmounts, settled, not_found, count, books,
                 quoted, streams, failed>>

\* Mutant: the mount holds the newest stock only.
BookedAlone(g) == Mine(g)

\* WS.quote_detail books the stock before it asks for the stream; what was booked
\* before is left to release_stale.
Booked(g) == books \cup Mine(g)

GotTrades(g) ==
  /\ Answered(g, "trades")
  /\ dirty' = (dirty \/ (is_current(g) /\ task[g].answer = "ok"))
  /\ IF is_current(g)
       THEN Call(g, task[g], "subscribe", Mine(g)) /\ books' = Booked(g)
       ELSE End(g, "stopped") /\ UNCHANGED <<books, wire>>
  /\ UNCHANGED <<page, generation, handle, unmounts, settled, not_found, count, stores,
                 inflight, streams, failed>>

\* Nothing left to ask for: the other stocks on the books are given back, then
\* the neighbours are read ahead.
ToRest(g, r) ==
  (IF r.count THEN Await(g, r, "rest") ELSE End(g, "done")) /\ UNCHANGED wire
ToRelease(g, r) ==
  IF is_current(g) /\ books \ {r.counter} # {}
    THEN Call(g, r, "release", books \ {r.counter})
    ELSE ToRest(g, r)

\* Mutant: the static data is asked for whoever is selected by now.
ToStaticAnyway(g) == Call(g, task[g], "static", Mine(g)) \/ ToRelease(g, task[g])

\* The static data, if STOCKS has none yet.
ToStatic(g) ==
  \/ is_current(g) /\ Call(g, task[g], "static", Mine(g))
  \/ ToRelease(g, task[g])

Subscribed(g) ==
  /\ Answered(g, "subscribe")
  /\ IF task[g].snapshot /\ is_current(g) THEN Call(g, task[g], "correction", Mine(g))
     ELSE ToStatic(g)
  /\ UNCHANGED <<page, generation, handle, unmounts, settled, not_found, count, dirty,
                 books, stores, inflight, streams, failed>>

\* fetch_snapshot once more, its verdict ignored.
GotCorrection(g) ==
  /\ Answered(g, "correction")
  /\ ToStatic(g)
  /\ not_found' = (not_found \/ Absent(g)) /\ dirty' = (dirty \/ Absent(g))
  /\ UNCHANGED <<page, generation, handle, unmounts, settled, count, books, stores,
                 inflight, streams, failed>>

GotStatic(g) ==
  /\ Answered(g, "static")
  /\ ToRelease(g, task[g])
  /\ UNCHANGED <<page, generation, handle, unmounts, settled, not_found, count, dirty,
                 books, stores, inflight, streams, failed>>

\* Mutant: the `?` of release_stale is missed.
ForgottenAnyway(g) == books \cap Mine(g)

\* A stock leaves the books only once the server has been told.
Forgotten(g) == IF task[g].answer = "ok" THEN books \cap Mine(g) ELSE books

Released(g) ==
  /\ Answered(g, "release")
  /\ books' = Forgotten(g)
  /\ ToRest(g, task[g])
  /\ UNCHANGED <<page, generation, handle, unmounts, settled, not_found, count, dirty,
                 stores, inflight, streams, failed>>

\* Mutant: no bound on the index.
RowAnyway(i) == <<IF i \in DOMAIN Watchlist THEN Watchlist[i] ELSE None>>

Row(i) == IF i \in DOMAIN Watchlist THEN <<Watchlist[i]>> ELSE <<>>

\* watchlist_neighbours: the row below, then the row above.
Neighbours(c) ==
  LET at == CHOOSE i \in DOMAIN Watchlist : Watchlist[i] = c
  IN  IF c \in Rows THEN Row(at + 1) \o Row(at - 1) ELSE <<>>

\* read_ahead from the neighbours left: a chart nobody has or fetches, then the
\* trades, unless the neighbour has some.
Onward(g, r) ==
  IF Len(r.ahead) = 1 THEN End(g, "done") ELSE Await(g, [r EXCEPT !.ahead = Tail(r.ahead)], "rest")
AheadTrades(g, r) ==
  \/ Call(g, r, "ahead_trades", {Head(r.ahead)})
  \/ Onward(g, r) /\ UNCHANGED wire
ReadAhead(g, r) ==
  IF ~is_current(g) \/ r.ahead = <<>> THEN End(g, "done") /\ UNCHANGED <<wire, inflight>>
  ELSE IF Head(r.ahead) \notin charts \cup inflight
         THEN /\ Call(g, [r EXCEPT !.mark = Head(r.ahead)], "ahead_chart", {Head(r.ahead)})
              /\ inflight' = inflight \cup {Head(r.ahead)}
         ELSE AheadTrades(g, r) /\ UNCHANGED inflight

\* READ_AHEAD_IDLE is over, or the next neighbour is due.
Rested(g) ==
  /\ task[g] # None /\ task[g].stage = "rest"
  /\ ReadAhead(g, IF task[g].ahead = <<>>
                  THEN [task[g] EXCEPT !.ahead = Neighbours(task[g].counter)] ELSE task[g])
  /\ UNCHANGED <<page, generation, handle, unmounts, settled, not_found, count, dirty,
                 books, stores, streams, failed>>

GotAheadChart(g) ==
  /\ Answered(g, "ahead_chart")
  /\ LET n == Head(task[g].ahead) IN
     /\ charts' = IF task[g].answer = "ok" THEN charts \cup {n} ELSE charts
     /\ inflight' = inflight \ {n}
  /\ IF ~is_current(g) THEN End(g, "done") /\ UNCHANGED wire
     ELSE AheadTrades(g, [task[g] EXCEPT !.mark = None])
  /\ UNCHANGED <<page, generation, handle, unmounts, settled, not_found, count, dirty,
                 books, quoted, streams, failed>>

GotAheadTrades(g) ==
  /\ Answered(g, "ahead_trades")
  /\ IF is_current(g) THEN Onward(g, task[g]) ELSE End(g, "done")
  /\ UNCHANGED <<page, generation, handle, unmounts, settled, not_found, count, dirty,
                 books, stores, inflight, server>>

\* Mutant: no guard clears the mark of a task dropped part-way through.
UnmarkedNot(g) == inflight

Unmarked(g) == inflight \ {task[g].mark}

\* The runtime drops an aborted task, and with it its InflightGuard.
Drop(g) ==
  /\ task[g] # None /\ task[g].stage = "aborted"
  /\ inflight' = Unmarked(g)
  /\ End(g, "gone")
  /\ UNCHANGED <<page, generation, handle, unmounts, settled, not_found, count, dirty,
                 books, stores, server>>

Step(g) ==
  \/ Settle(g) \/ GotQuote(g) \/ GotChart(g) \/ GotTrades(g) \/ Subscribed(g)
  \/ GotCorrection(g) \/ GotStatic(g) \/ Released(g) \/ Rested(g)
  \/ GotAheadChart(g) \/ GotAheadTrades(g) \/ Drop(g)

\* WS.unmount: off the books first, then off the server, whatever it answers.
Unmount ==
  /\ unmounts > 0 /\ unmounts' = unmounts - 1
  /\ books' = {}
  /\ IF books # {} THEN Send("unmount", books, None) ELSE UNCHANGED wire
  /\ UNCHANGED <<page, generation, handle, task, settled, not_found, count, dirty, stores,
                 inflight, streams, failed>>

-----------------------------------------------------------------------------
(* The connection.  The answer of a command whose task is gone is dropped; a *)
(* frame's request stores its chart and ends its guard.                      *)

Effect(cmd) ==
  CASE cmd.op = "subscribe" -> streams \cup cmd.of
    [] cmd.op \in {"release", "unmount"} -> streams \ cmd.of
    [] OTHER -> streams

Reply(cmd, answer) ==
  IF cmd.by = None
    THEN /\ UNCHANGED task
         /\ inflight' = IF cmd.op = "chart" THEN inflight \ cmd.of ELSE inflight
         /\ charts' = IF cmd.op = "chart" /\ answer = "ok" THEN charts \cup cmd.of ELSE charts
    ELSE /\ task' = IF task[cmd.by].stage \in Ends THEN task
                    ELSE [task EXCEPT ![cmd.by].answer = answer]
         /\ UNCHANGED <<inflight, charts>>

Serve ==
  /\ wire # <<>> /\ wire' = Tail(wire)
  /\ LET cmd == Head(wire)
         none == cmd.op \in {"quote", "correction"} /\ cmd.of \subseteq Missing
     IN  /\ streams' = Effect(cmd)
         /\ Reply(cmd, IF none THEN "empty" ELSE "ok")
  /\ UNCHANGED <<page, generation, handle, unmounts, settled, not_found, count, dirty,
                 books, quoted, failed>>

Fail ==
  /\ wire # <<>> /\ wire' = Tail(wire)
  /\ Cardinality(failed) < MaxFailures /\ failed' = failed \cup {Head(wire)}
  /\ Reply(Head(wire), "error")
  /\ UNCHANGED <<page, generation, handle, unmounts, settled, not_found, count, dirty,
                 books, quoted, streams>>

Next ==
  \/ \E c \in Counters : Open(c) \/ Select(c)
  \/ Leave \/ ToggleLayout \/ Supersede \/ Frame \/ Push
  \/ \E g \in Refreshes : Step(g)
  \/ Unmount \/ Serve \/ Fail

Spec == Init /\ [][Next]_vars

\* The UI thread, the runtime and the connection go on; the reader owes nothing.
Fairness ==
  /\ WF_vars(Supersede) /\ WF_vars(Frame) /\ WF_vars(Unmount) /\ WF_vars(Serve)
  /\ \A g \in Refreshes : WF_vars(Step(g))

FairSpec == Spec /\ Fairness

-----------------------------------------------------------------------------
(* Properties.                                                             *)

\* What will be streamed once the commands on the wire are served: what is, or is
\* subscribed at i, unless a later command takes it back.
Taken(i, c) == \E j \in DOMAIN wire :
                 j > i /\ wire[j].op \in {"release", "unmount"} /\ c \in wire[j].of
WillStream ==
  {c \in Counters :
     \/ c \in streams /\ ~Taken(0, c)
     \/ \E i \in DOMAIN wire : wire[i].op = "subscribe" /\ c \in wire[i].of /\ ~Taken(i, c)}

\* An order book the server streams, or will, is on the books of WS, so that a
\* release can find it: WS.quote_detail books before it subscribes, release_stale
\* forgets only after the server has been told, and an aborted task forgets
\* nothing.  The unmount forgets first: one that fails strands its stocks.
OnTheBooks ==
  \A c \in WillStream \ books : \E cmd \in failed : cmd.op = "unmount" /\ c \in cmd.of

\* When the newest refresh has done all but read ahead, the stock on screen and no
\* other is streamed and booked, whichever stocks the reader passed over, left
\* and came back to on the way (WsManager: the feeds "belong to whichever single
\* stock the detail view is showing").
Ready == {"rest", "ahead_chart", "ahead_trades", "done"}
OnlyItsStreams ==
  open /\ generation > 0 /\ Free /\ unmounts = 0 /\ failed = {}
    => (task[generation].stage \in Ready => streams = {shown} /\ books = {shown})

\* "Not found" is only said of a stock the server does not know, never of the one
\* selected while the answer about another was under way.
NotFoundIsTheStocks == open /\ not_found => shown \in Missing

\* A superseded refresh puts nothing more on the wire, where the newest would wait
\* behind it (REFRESH_TASK's comment).
OnlyTheNewestAsks ==
  [][\A i \in DOMAIN wire' \ DOMAIN wire : wire'[i].by \in {None, generation}]_vars

\* The reader cannot stay on a page that lacks its chart or its order book for
\* ever, however many refreshes were superseded before, unless the request for one
\* of them fails or there is no such stock.  (Refreshes are bounded, so this is
\* about the last.)
Failed(ops) == \E cmd \in failed : cmd.op \in ops
Filled == shown \in charts /\ shown \in streams
NewestIsFilled ==
  []<>(open => Filled \/ shown \in Missing
                 \/ Failed({"quote", "chart", "ahead_chart", "subscribe"}))

\* A closed page streams nothing: once every task has ended and every command is
\* served, no order book is pushed for a view that shows none.
ClosedPageStreamsNothing ==
  ~open /\ unmounts = 0 /\ wire = <<>> /\ failed = {}
    /\ (\A g \in 1 .. generation : task[g].stage \in Ends)
    => streams = {}

=============================================================================
