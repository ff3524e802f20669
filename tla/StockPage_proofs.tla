-------------------------- MODULE StockPage_proofs --------------------------
(***************************************************************************)
(* Proofs about StockPage, for any stocks, watchlist and bounds.           *)
(***************************************************************************)
EXTENDS StockPage, SequenceTheorems, TLAPS

----------------------------------------------------------------------------
(* The inductive invariant.                                                *)

Live(g) == task[g].stage \notin Ends

\* A refresh has a task from its beginning; of those alive one is the handle's,
\* and one a newer refresh's that still waits out its debounce.
TasksExist ==
  /\ \A g \in Refreshes : IF g <= generation THEN task[g] \in Tasks ELSE task[g] = None
  /\ handle <= generation /\ generation <= handle + 1
  /\ ~Free => task[generation].stage = "debounce"
  /\ \A g \in 1 .. generation : Live(g) => g \in {handle, generation}
  /\ \A g \in 1 .. generation :
       task[g].stage \in {"ahead_chart", "ahead_trades"} => task[g].ahead # <<>>
  /\ unmounts <= leaves

\* The page shows the stock of the newest refresh.
ShownIsNewest == open => generation \in Refreshes /\ task[generation].counter = shown

\* A command on the wire of a task alive is the one it awaits; a question about a
\* quote is about the task's stock.
AwaitedIsOnTheWire ==
  /\ \A i \in DOMAIN wire :
       /\ wire[i].by # None => wire[i].by \in 1 .. generation
       /\ wire[i].op \in {"quote", "correction"} =>
            wire[i].by # None /\ wire[i].of = {task[wire[i].by].counter}
       /\ wire[i].by # None /\ Live(wire[i].by) =>
            wire[i].op = task[wire[i].by].stage /\ task[wire[i].by].answer = None
  /\ \A i, j \in DOMAIN wire :
       i # j /\ wire[i].by # None /\ wire[i].by = wire[j].by => ~Live(wire[i].by)

\* Only of a missing stock does the server know nothing.
EmptyIsMissing ==
  \A g \in 1 .. generation : task[g].answer = "empty" => task[g].counter \in Missing

\* An order book off the books is taken back by an unmount on the wire.
UnmountAfter(i, c) == \E j \in DOMAIN wire : j > i /\ wire[j].op = "unmount" /\ c \in wire[j].of
Lost(c) == \E cmd \in failed : cmd.op = "unmount" /\ c \in cmd.of
Covered ==
  \A c \in Counters \ books :
    \/ Lost(c)
    \/ /\ c \in streams => UnmountAfter(0, c)
       /\ \A i \in DOMAIN wire :
            wire[i].op = "subscribe" /\ c \in wire[i].of => UnmountAfter(i, c)

\* While a refresh gives books back nothing is subscribed, and what it will strike
\* off is off the server once it was answered.
NoSubscribeAfter(k) == \A j \in DOMAIN wire : j > k => wire[j].op # "subscribe"
ReleaseAt(g, k) ==
  /\ wire[k].by = g /\ wire[k].op = "release"
  /\ books \ Mine(g) \subseteq wire[k].of
  /\ NoSubscribeAfter(k)
Releasing ==
  \A g \in 1 .. generation : task[g].stage = "release" =>
    /\ task[g].answer = None => \E k \in DOMAIN wire : ReleaseAt(g, k)
    /\ task[g].answer = "ok" => NoSubscribeAfter(0) /\ streams \cap books \subseteq Mine(g)

IInv ==
  /\ TypeOK
  /\ TasksExist
  /\ ShownIsNewest
  /\ AwaitedIsOnTheWire
  /\ EmptyIsMissing
  /\ NotFoundIsTheStocks
  /\ Covered
  /\ Releasing

----------------------------------------------------------------------------
(* The wire.                                                               *)

LEMMA AppendAt ==
  ASSUME NEW S, NEW s \in Seq(S), NEW m \in S
  PROVE  /\ Append(s, m) \in Seq(S) /\ Len(Append(s, m)) = Len(s) + 1
         /\ Len(s) \in Nat /\ DOMAIN s = 1 .. Len(s)
         /\ DOMAIN Append(s, m) = 1 .. Len(s) + 1
         /\ \A i \in 1 .. Len(s) : Append(s, m)[i] = s[i]
         /\ Append(s, m)[Len(s) + 1] = m
  BY AppendProperties, LenProperties

LEMMA TailAt ==
  ASSUME NEW S, NEW s \in Seq(S), s # <<>>
  PROVE  /\ Head(s) \in S /\ Head(s) = s[1] /\ 1 \in DOMAIN s
         /\ Tail(s) \in Seq(S) /\ Len(s) \in Nat \ {0}
         /\ DOMAIN s = 1 .. Len(s) /\ DOMAIN Tail(s) = 1 .. Len(s) - 1
         /\ \A i \in 1 .. Len(s) - 1 : Tail(s)[i] = s[i + 1]
  <1>1. /\ Len(s) \in Nat /\ Len(s) # 0 /\ DOMAIN s = 1 .. Len(s)
    BY LenProperties, EmptySeq
  <1>2. /\ Head(s) \in S /\ Head(s) = s[1] /\ Tail(s) \in Seq(S)
        /\ Len(Tail(s)) = Len(s) - 1
        /\ \A i \in 1 .. Len(Tail(s)) : Tail(s)[i] = s[i + 1]
    BY HeadTailProperties
  <1>3. DOMAIN Tail(s) = 1 .. Len(Tail(s))
    BY <1>2, LenProperties
  <1>. QED BY <1>1, <1>2, <1>3

\* What the wire becomes when a command is sent, and when one is served.
Sent(cmd) ==
  /\ DOMAIN wire' = 1 .. Len(wire) + 1 /\ wire'[Len(wire) + 1] = cmd
  /\ \A i \in 1 .. Len(wire) : wire'[i] = wire[i]
Shifted ==
  /\ DOMAIN wire' = 1 .. Len(wire) - 1
  /\ \A i \in 1 .. Len(wire) - 1 : wire'[i] = wire[i + 1]

LEMMA SendAppends ==
  ASSUME TypeOK, NEW cmd \in Commands, wire' = Append(wire, cmd)
  PROVE  /\ Sent(cmd) /\ wire' \in Seq(Commands)
         /\ Len(wire) \in Nat /\ DOMAIN wire = 1 .. Len(wire)
  BY AppendAt DEF TypeOK, Sent

LEMMA ServeShifts ==
  ASSUME TypeOK, wire # <<>>, wire' = Tail(wire)
  PROVE  /\ Shifted /\ wire' \in Seq(Commands)
         /\ Head(wire) \in Commands /\ Head(wire) = wire[1]
         /\ Len(wire) \in Nat \ {0} /\ DOMAIN wire = 1 .. Len(wire)
  BY TailAt DEF TypeOK, Shifted

----------------------------------------------------------------------------
(* What a step of a refresh task does.                                     *)

Becomes(g, r) ==
  /\ task' = [task EXCEPT ![g] = r]
  /\ r.counter = task[g].counter /\ r.answer = None
  /\ r.stage \in {"ahead_chart", "ahead_trades"} => r.ahead # <<>>
  /\ r.stage \notin Ends => Live(g)

\* It rests or ends, ...
Quiet(g, r) ==
  /\ Becomes(g, r) /\ r.stage \in {"rest", "done", "stopped", "gone"}
  /\ wire' = wire /\ books' = books
\* ... is the newest and sends a command, ...
Calls(g, r, of) ==
  /\ is_current(g) /\ Free
  /\ Becomes(g, r) /\ r.stage \in Requests
  /\ r.stage \in {"quote", "correction", "subscribe"} => of = Mine(g)
  /\ r.stage = "release" => of = books \ Mine(g)
  /\ wire' = Append(wire, [op |-> r.stage, of |-> of, by |-> g])
  /\ books' = IF r.stage = "subscribe" THEN books \cup Mine(g) ELSE books
\* ... or strikes off what it gave back.
Strikes(g, r) ==
  /\ task[g].stage = "release" /\ task[g].answer # None
  /\ Becomes(g, r) /\ r.stage \in {"rest", "done"}
  /\ wire' = wire /\ books' = Forgotten(g)

Shape(g) ==
  \E r \in Tasks : Quiet(g, r) \/ Strikes(g, r) \/ \E of \in SUBSET Counters : Calls(g, r, of)

Known(g) == g \in Refreshes /\ task[g] \in Tasks /\ Live(g) /\ (is_current(g) => Free)
\* The record a task goes on with.
Own(g, r) == r \in Tasks /\ r.counter = task[g].counter

LEMMA CallShape ==
  ASSUME TypeOK, NEW g, Known(g), is_current(g), NEW r, Own(g, r),
         NEW op \in Requests, NEW of \in SUBSET Counters, Call(g, r, op, of),
         op \in {"ahead_chart", "ahead_trades"} => r.ahead # <<>>,
         op \in {"quote", "correction", "subscribe"} => of = Mine(g),
         op = "release" => of = books \ Mine(g),
         books' = IF op = "subscribe" THEN books \cup Mine(g) ELSE books
  PROVE  Shape(g)
  <1>. DEFINE q == [r EXCEPT !.stage = op, !.answer = None]
  <1>1. q \in Tasks /\ q.stage = op /\ q.answer = None /\ q.counter = r.counter /\ q.ahead = r.ahead
    BY DEF Own, Tasks, Stages, Answers
  <1>2. Calls(g, q, of)
    BY <1>1 DEF Calls, Becomes, Call, Await, Send, Known, Own
  <1>. QED BY <1>1, <1>2 DEF Shape

LEMMA RestShape ==
  ASSUME NEW g, Known(g), NEW r, Own(g, r), Await(g, r, "rest"),
         wire' = wire, books' = books
  PROVE  Shape(g)
  <1>. DEFINE q == [r EXCEPT !.stage = "rest", !.answer = None]
  <1>1. q \in Tasks /\ q.stage = "rest" /\ q.answer = None /\ q.counter = r.counter
    BY DEF Own, Tasks, Stages, Answers
  <1>2. Quiet(g, q)
    BY <1>1 DEF Quiet, Becomes, Await, Own, Known
  <1>. QED BY <1>1, <1>2 DEF Shape

LEMMA EndShape ==
  ASSUME TypeOK, NEW g \in Refreshes, task[g] \in Tasks,
         NEW stage \in {"done", "stopped", "gone"}, End(g, stage),
         wire' = wire, books' = books
  PROVE  Shape(g)
  <1>. DEFINE q == [task[g] EXCEPT !.stage = stage, !.answer = None, !.mark = None, !.ahead = <<>>]
  <1>1. q \in Tasks /\ q.stage = stage /\ q.answer = None /\ q.counter = task[g].counter
    BY EmptySeq DEF Tasks, Stages, Ends, Answers
  <1>2. task' = [task EXCEPT ![g] = q]
    BY DEF End, TypeOK
  <1>3. Quiet(g, q)
    BY <1>1, <1>2 DEF Quiet, Becomes, Ends
  <1>. QED BY <1>1, <1>3 DEF Shape

LEMMA ToReleaseShape ==
  ASSUME TypeOK, NEW g, Known(g), NEW r, Own(g, r), ToRelease(g, r), books' = books
  PROVE  Shape(g)
  <1>1. CASE is_current(g) /\ books \ {r.counter} # {}
    <2>1. /\ Call(g, r, "release", books \ {r.counter}) /\ {r.counter} = Mine(g)
          /\ books \ {r.counter} \in SUBSET Counters
      BY <1>1 DEF ToRelease, Own, Mine, TypeOK
    <2>. QED BY <1>1, <2>1, CallShape DEF Requests
  <1>2. CASE ~(is_current(g) /\ books \ {r.counter} # {})
    <2>1. ToRest(g, r)
      BY <1>2 DEF ToRelease
    <2>2. wire' = wire /\ (Await(g, r, "rest") \/ End(g, "done"))
      BY <2>1 DEF ToRest
    <2>. QED BY <2>2, RestShape, EndShape DEF Known
  <1>. QED BY <1>1, <1>2

LEMMA ToStaticShape ==
  ASSUME TypeOK, NEW g, Known(g), ToStatic(g), books' = books
  PROVE  Shape(g)
  <1>1. Own(g, task[g])
    BY DEF Own, Known
  <1>2. Mine(g) \in SUBSET Counters
    BY DEF Mine, Known, Tasks
  <1>3. CASE is_current(g) /\ Call(g, task[g], "static", Mine(g))
    BY <1>1, <1>2, <1>3, CallShape DEF Requests
  <1>4. CASE ToRelease(g, task[g])
    BY <1>1, <1>4, ToReleaseShape
  <1>. QED BY <1>3, <1>4 DEF ToStatic

LEMMA ToChartShape ==
  ASSUME TypeOK, NEW g, Known(g), is_current(g), NEW r, Own(g, r), ToChart(g, r), books' = books
  PROVE  Shape(g) /\ inflight' \subseteq Counters
  <1>. DEFINE r1 == [r EXCEPT !.count = count, !.mark = r.counter]
              r2 == [r EXCEPT !.count = count]
  <1>1. Own(g, r1) /\ Own(g, r2) /\ r.counter \in Counters
    BY DEF Own, Tasks, TypeOK
  <1>2. "chart" \in Requests /\ "trades" \in Requests /\ {r.counter} \in SUBSET Counters
    BY <1>1 DEF Requests
  <1>. HIDE DEF r1, r2
  <1>3. ASSUME Call(g, r1, "chart", {r.counter}) PROVE Shape(g)
    BY <1>1, <1>2, <1>3, CallShape
  <1>4. ASSUME Call(g, r2, "trades", {r.counter}) PROVE Shape(g)
    BY <1>1, <1>2, <1>4, CallShape
  <1>5. Call(g, r1, "chart", {r.counter}) \/ Call(g, r2, "trades", {r.counter})
    BY DEF ToChart, r1, r2
  <1>6. inflight' \subseteq Counters
    BY <1>1 DEF ToChart, TypeOK
  <1>. QED BY <1>3, <1>4, <1>5, <1>6

LEMMA OnwardShape ==
  ASSUME TypeOK, NEW g, Known(g), NEW r, Own(g, r), r.ahead # <<>>, Onward(g, r),
         wire' = wire, books' = books
  PROVE  Shape(g)
  <1>. DEFINE q == [r EXCEPT !.ahead = Tail(r.ahead)]
  <1>1. r \in Tasks /\ r.ahead \in Seq(Counters) /\ Tail(r.ahead) \in Seq(Counters)
    BY TailAt DEF Own, Tasks
  <1>2. Own(g, q)
    BY <1>1 DEF Own, Tasks
  <1>3. End(g, "done") \/ Await(g, q, "rest")
    BY DEF Onward
  <1>. HIDE DEF q
  <1>. QED BY <1>2, <1>3, RestShape, EndShape DEF Known

LEMMA AheadTradesShape ==
  ASSUME TypeOK, NEW g, Known(g), is_current(g), NEW r, Own(g, r), r.ahead # <<>>,
         AheadTrades(g, r), books' = books
  PROVE  Shape(g)
  <1>1. r.ahead \in Seq(Counters) /\ Head(r.ahead) \in Counters
    BY TailAt DEF Own, Tasks
  <1>2. "ahead_trades" \in Requests /\ {Head(r.ahead)} \in SUBSET Counters
    BY <1>1 DEF Requests
  <1>3. CASE Call(g, r, "ahead_trades", {Head(r.ahead)})
    BY <1>2, <1>3, CallShape
  <1>4. CASE Onward(g, r) /\ wire' = wire
    BY <1>4, OnwardShape
  <1>. QED BY <1>3, <1>4 DEF AheadTrades

LEMMA ReadAheadShape ==
  ASSUME TypeOK, NEW g, Known(g), NEW r, Own(g, r), ReadAhead(g, r), books' = books
  PROVE  Shape(g) /\ inflight' \subseteq Counters
  <1>1. CASE ~is_current(g) \/ r.ahead = <<>>
    BY <1>1, EndShape DEF ReadAhead, Known, TypeOK
  <1>2. CASE is_current(g) /\ r.ahead # <<>>
    <2>. DEFINE q == [r EXCEPT !.mark = Head(r.ahead)]
    <2>1. r.ahead \in Seq(Counters) /\ Head(r.ahead) \in Counters
      BY <1>2, TailAt DEF Own, Tasks
    <2>2. /\ "ahead_chart" \in Requests /\ {Head(r.ahead)} \in SUBSET Counters
          /\ Own(g, q) /\ q.ahead # <<>>
      BY <1>2, <2>1 DEF Requests, Own, Tasks
    <2>3. inflight' \subseteq Counters
      BY <1>2, <2>1 DEF ReadAhead, TypeOK
    <2>4. Call(g, q, "ahead_chart", {Head(r.ahead)}) \/ AheadTrades(g, r)
      BY <1>2 DEF ReadAhead
    <2>. HIDE DEF q
    <2>5. ASSUME Call(g, q, "ahead_chart", {Head(r.ahead)}) PROVE Shape(g)
      BY <1>2, <2>2, <2>5, CallShape
    <2>6. ASSUME AheadTrades(g, r) PROVE Shape(g)
      BY <1>2, <2>6, AheadTradesShape
    <2>. QED BY <2>3, <2>4, <2>5, <2>6
  <1>. QED BY <1>1, <1>2

\* All that a step of a task does.
Moves(g) ==
  /\ g \in 1 .. generation /\ Shape(g)
  /\ task[g].stage \in {"debounce", "rest"} \cup Ends \/ task[g].answer # None
  /\ task[g].stage = "debounce" => Free
  /\ UNCHANGED <<open, shown, leaves, generation, handle, unmounts, count, streams, failed>>
  /\ settled' \in Counters \cup {None} /\ dirty' \in BOOLEAN
  /\ not_found' = not_found \/ not_found' = (not_found \/ Absent(g))
  /\ quoted' \subseteq Counters /\ charts' \subseteq Counters /\ inflight' \subseteq Counters

LEMMA KnownTask ==
  ASSUME IInv, NEW g \in Refreshes, task[g] # None
  PROVE  /\ g \in 1 .. generation /\ task[g] \in Tasks
         /\ Live(g) /\ (task[g].stage # "debounce" \/ Free) => Known(g)
         /\ task[g].counter \in Counters /\ Mine(g) \in SUBSET Counters
         /\ Own(g, task[g])
  <1>1. generation \in Nat /\ g \in Nat /\ g >= 1
    BY StockPageAssumption DEF IInv, TypeOK, Refreshes
  <1>2. g \in 1 .. generation /\ task[g] \in Tasks
    BY <1>1 DEF IInv, TasksExist
  <1>3. ASSUME Live(g), task[g].stage # "debounce" \/ Free PROVE Known(g)
    BY <1>2, <1>3 DEF IInv, TasksExist, Known, is_current
  <1>. QED BY <1>2, <1>3 DEF Tasks, Mine, Own

LEMMA SettleMoves ==
  ASSUME IInv, NEW g \in Refreshes, Settle(g)
  PROVE  Moves(g)
  <1>1. /\ TypeOK /\ g \in 1 .. generation /\ task[g] \in Tasks /\ Known(g)
        /\ Own(g, task[g]) /\ Mine(g) \in SUBSET Counters /\ task[g].counter \in Counters
    BY KnownTask DEF IInv, Settle, Prompt, Live, Ends
  <1>. DEFINE has_snapshot == task[g].counter \in quoted
              r == [task[g] EXCEPT !.snapshot = has_snapshot]
  <1>3. Own(g, r) /\ r.counter = task[g].counter
    <2>1. has_snapshot \in BOOLEAN
      OBVIOUS
    <2>. HIDE DEF has_snapshot
    <2>. QED BY <1>1, <2>1 DEF Own, Tasks
  <1>4. is_current(g) /\ books' = books
    BY DEF Settle
  <1>5. ToChart(g, r) \/ (Call(g, r, "quote", {r.counter}) /\ inflight' = inflight)
    BY DEF Settle
  <1>6. "quote" \in Requests /\ {r.counter} \in SUBSET Counters /\ {r.counter} = Mine(g)
    BY <1>1, <1>3 DEF Requests, Mine
  <1>7. settled' = r.counter
    BY DEF Settle
  <1>. HIDE DEF r
  <1>8. ASSUME ToChart(g, r) PROVE Shape(g) /\ inflight' \subseteq Counters
    BY <1>1, <1>3, <1>4, <1>8, ToChartShape
  <1>9. ASSUME Call(g, r, "quote", {r.counter}) PROVE Shape(g)
    BY <1>1, <1>3, <1>4, <1>6, <1>9, CallShape
  <1>2. /\ Shape(g) /\ inflight' \subseteq Counters /\ settled' \in Counters
        /\ Free /\ dirty' \in BOOLEAN
    BY <1>1, <1>3, <1>5, <1>7, <1>8, <1>9 DEF TypeOK, Settle, Prompt
  <1>. QED BY <1>1, <1>2 DEF Moves, TypeOK, page, stores, server, Settle

LEMMA GotQuoteMoves ==
  ASSUME IInv, NEW g \in Refreshes, GotQuote(g)
  PROVE  Moves(g)
  <1>1. /\ TypeOK /\ g \in 1 .. generation /\ task[g] \in Tasks /\ Known(g)
        /\ Own(g, task[g]) /\ Mine(g) \in SUBSET Counters /\ task[g].counter \in Counters
    BY KnownTask DEF IInv, GotQuote, Answered, Live, Ends
  <1>3. books' = books /\ (\/ is_current(g) /\ ToChart(g, task[g])
                           \/ End(g, "stopped") /\ wire' = wire /\ inflight' = inflight)
    BY DEF GotQuote
  <1>4. ASSUME is_current(g), ToChart(g, task[g])
        PROVE  Shape(g) /\ inflight' \subseteq Counters
    BY <1>1, <1>3, <1>4, ToChartShape
  <1>5. ASSUME End(g, "stopped"), wire' = wire
        PROVE  Shape(g)
    BY <1>1, <1>3, <1>5, EndShape
  <1>6. quoted' \subseteq Counters /\ dirty' \in BOOLEAN
    BY <1>1 DEF GotQuote, TypeOK
  <1>2. /\ Shape(g) /\ inflight' \subseteq Counters /\ quoted' \subseteq Counters
        /\ dirty' \in BOOLEAN /\ task[g].stage = "quote" /\ task[g].answer # None
    BY <1>3, <1>4, <1>5, <1>6 DEF TypeOK, IInv, GotQuote, Answered
  <1>. QED BY <1>1, <1>2 DEF Moves, TypeOK, page, stores, server, GotQuote

LEMMA GotChartMoves ==
  ASSUME IInv, NEW g \in Refreshes, GotChart(g)
  PROVE  Moves(g)
  <1>1. /\ TypeOK /\ g \in 1 .. generation /\ task[g] \in Tasks /\ Known(g)
        /\ Own(g, task[g]) /\ Mine(g) \in SUBSET Counters /\ task[g].counter \in Counters
    BY KnownTask DEF IInv, GotChart, Answered, Live, Ends
  <1>. DEFINE r == [task[g] EXCEPT !.mark = None]
  <1>3. Own(g, r)
    BY <1>1 DEF Own, Tasks
  <1>4. "trades" \in Requests /\ books' = books
    BY DEF Requests, GotChart
  <1>5. \/ is_current(g) /\ Call(g, r, "trades", Mine(g))
        \/ End(g, "stopped") /\ wire' = wire
    BY DEF GotChart
  <1>. HIDE DEF r
  <1>6. Shape(g)
    BY <1>1, <1>3, <1>4, <1>5, CallShape, EndShape
  <1>2. /\ Shape(g) /\ inflight' \subseteq Counters /\ charts' \subseteq Counters
        /\ dirty' \in BOOLEAN /\ task[g].stage = "chart" /\ task[g].answer # None
    BY <1>1, <1>6 DEF TypeOK, GotChart, Answered
  <1>. QED BY <1>1, <1>2 DEF Moves, TypeOK, page, stores, server, GotChart

LEMMA GotTradesMoves ==
  ASSUME IInv, NEW g \in Refreshes, GotTrades(g)
  PROVE  Moves(g)
  <1>1. /\ TypeOK /\ g \in 1 .. generation /\ task[g] \in Tasks /\ Known(g)
        /\ Own(g, task[g]) /\ Mine(g) \in SUBSET Counters /\ task[g].counter \in Counters
    BY KnownTask DEF IInv, GotTrades, Answered, Live, Ends
  <1>3. "subscribe" \in Requests
    BY DEF Requests
  <1>4. \/ is_current(g) /\ Call(g, task[g], "subscribe", Mine(g)) /\ books' = books \cup Mine(g)
        \/ End(g, "stopped") /\ wire' = wire /\ books' = books
    BY DEF GotTrades, Booked
  <1>5. Shape(g)
    BY <1>1, <1>3, <1>4, CallShape, EndShape
  <1>2. /\ Shape(g) /\ dirty' \in BOOLEAN /\ task[g].stage = "trades" /\ task[g].answer # None
    BY <1>1, <1>5 DEF TypeOK, GotTrades, Answered
  <1>. QED BY <1>1, <1>2 DEF Moves, TypeOK, page, stores, server, GotTrades

LEMMA SubscribedMoves ==
  ASSUME IInv, NEW g \in Refreshes, Subscribed(g)
  PROVE  Moves(g)
  <1>1. /\ TypeOK /\ g \in 1 .. generation /\ task[g] \in Tasks /\ Known(g)
        /\ Own(g, task[g]) /\ Mine(g) \in SUBSET Counters /\ task[g].counter \in Counters
    BY KnownTask DEF IInv, Subscribed, Answered, Live, Ends
  <1>3. "correction" \in Requests /\ books' = books
    BY DEF Requests, Subscribed
  <1>4. (is_current(g) /\ Call(g, task[g], "correction", Mine(g))) \/ ToStatic(g)
    BY DEF Subscribed
  <1>5. Shape(g)
    BY <1>1, <1>3, <1>4, CallShape, ToStaticShape
  <1>2. Shape(g) /\ task[g].stage = "subscribe" /\ task[g].answer # None
    BY <1>5 DEF Subscribed, Answered
  <1>. QED BY <1>1, <1>2 DEF Moves, TypeOK, page, stores, server, Subscribed

LEMMA GotCorrectionMoves ==
  ASSUME IInv, NEW g \in Refreshes, GotCorrection(g)
  PROVE  Moves(g)
  <1>1. /\ TypeOK /\ g \in 1 .. generation /\ task[g] \in Tasks /\ Known(g)
        /\ Own(g, task[g]) /\ Mine(g) \in SUBSET Counters /\ task[g].counter \in Counters
    BY KnownTask DEF IInv, GotCorrection, Answered, Live, Ends
  <1>3. Shape(g)
    BY <1>1, ToStaticShape DEF GotCorrection
  <1>2. /\ Shape(g) /\ dirty' \in BOOLEAN
        /\ task[g].stage = "correction" /\ task[g].answer # None
    BY <1>1, <1>3 DEF TypeOK, GotCorrection, Answered
  <1>. QED BY <1>1, <1>2 DEF Moves, TypeOK, page, stores, server, GotCorrection

LEMMA GotStaticMoves ==
  ASSUME IInv, NEW g \in Refreshes, GotStatic(g)
  PROVE  Moves(g)
  <1>1. /\ TypeOK /\ g \in 1 .. generation /\ task[g] \in Tasks /\ Known(g)
        /\ Own(g, task[g]) /\ Mine(g) \in SUBSET Counters /\ task[g].counter \in Counters
    BY KnownTask DEF IInv, GotStatic, Answered, Live, Ends
  <1>3. Shape(g)
    BY <1>1, ToReleaseShape DEF GotStatic
  <1>2. Shape(g) /\ task[g].stage = "static" /\ task[g].answer # None
    BY <1>3 DEF GotStatic, Answered
  <1>. QED BY <1>1, <1>2 DEF Moves, TypeOK, page, stores, server, GotStatic

LEMMA ReleasedMoves ==
  ASSUME IInv, NEW g \in Refreshes, Released(g)
  PROVE  Moves(g)
  <1>1. /\ TypeOK /\ g \in 1 .. generation /\ task[g] \in Tasks /\ Known(g)
        /\ Own(g, task[g]) /\ Mine(g) \in SUBSET Counters /\ task[g].counter \in Counters
    BY KnownTask DEF IInv, Released, Answered, Live, Ends
  <1>3. task[g].stage = "release" /\ task[g].answer # None
    BY DEF Released, Answered
  <1>4. wire' = wire /\ books' = Forgotten(g)
        /\ (Await(g, task[g], "rest") \/ End(g, "done"))
    BY DEF Released, ToRest
  <1>5. ASSUME NEW q \in Tasks, task' = [task EXCEPT ![g] = q], q.counter = task[g].counter,
               q.answer = None, q.stage \in {"rest", "done"}
        PROVE  Shape(g)
    <2>1. Becomes(g, q)
      BY <1>1, <1>5 DEF Becomes, Known
    <2>2. Strikes(g, q)
      BY <1>3, <1>4, <1>5, <2>1 DEF Strikes
    <2>. QED BY <2>2 DEF Shape
  <1>6. CASE Await(g, task[g], "rest")
    <2>. DEFINE q == [task[g] EXCEPT !.stage = "rest", !.answer = None]
    <2>1. q \in Tasks /\ q.stage = "rest" /\ q.answer = None /\ q.counter = task[g].counter
      BY <1>1 DEF Tasks, Stages, Answers
    <2>2. task' = [task EXCEPT ![g] = q]
      BY <1>6 DEF Await
    <2>. HIDE DEF q
    <2>3. Shape(g)
      BY <1>5, <2>1, <2>2
    <2>. QED BY <1>1, <1>3, <2>3 DEF Moves, TypeOK, page, stores, server, Released
  <1>7. CASE End(g, "done")
    <2>. DEFINE q == [task[g] EXCEPT !.stage = "done", !.answer = None, !.mark = None, !.ahead = <<>>]
    <2>1. q \in Tasks /\ q.stage = "done" /\ q.answer = None /\ q.counter = task[g].counter
      BY <1>1, EmptySeq DEF Tasks, Stages, Ends, Answers
    <2>2. task' = [task EXCEPT ![g] = q]
      BY <1>1, <1>7 DEF End, TypeOK
    <2>. HIDE DEF q
    <2>3. Shape(g)
      BY <1>5, <2>1, <2>2
    <2>. QED BY <1>1, <1>3, <2>3 DEF Moves, TypeOK, page, stores, server, Released
  <1>2. Moves(g)
    BY <1>4, <1>6, <1>7
  <1>. QED BY <1>1, <1>2 DEF Moves, TypeOK, page, stores, server, Released

LEMMA NeighboursType ==
  ASSUME NEW c \in Counters
  PROVE  Neighbours(c) \in Seq(Counters)
  <1>1. ASSUME NEW i \in Int PROVE Row(i) \in Seq(Counters)
    <2>1. <<>> \in Seq(Counters)
      BY EmptySeq
    <2>2. ASSUME i \in DOMAIN Watchlist PROVE <<Watchlist[i]>> \in Seq(Counters)
      <3>1. Watchlist[i] \in Counters
        BY <2>2, ElementOfSeq, LenProperties, StockPageAssumption
      <3>. QED BY <3>1
    <2>. QED BY <2>1, <2>2 DEF Row
  <1>2. CASE c \in Rows
    <2>. DEFINE at == CHOOSE i \in DOMAIN Watchlist : Watchlist[i] = c
    <2>1. at \in DOMAIN Watchlist
      BY <1>2 DEF Rows
    <2>2. DOMAIN Watchlist = 1 .. Len(Watchlist) /\ Len(Watchlist) \in Nat
      BY StockPageAssumption, LenProperties
    <2>. HIDE DEF at
    <2>3. at + 1 \in Int /\ at - 1 \in Int
      BY <2>1, <2>2
    <2>4. Row(at + 1) \o Row(at - 1) \in Seq(Counters)
      BY <1>1, <2>3, ConcatProperties
    <2>. QED BY <1>2, <2>4 DEF Neighbours, at
  <1>3. CASE c \notin Rows
    BY <1>3, EmptySeq DEF Neighbours
  <1>. QED BY <1>2, <1>3

LEMMA RestedMoves ==
  ASSUME IInv, NEW g \in Refreshes, Rested(g)
  PROVE  Moves(g)
  <1>1. /\ TypeOK /\ g \in 1 .. generation /\ task[g] \in Tasks /\ Known(g)
        /\ Own(g, task[g]) /\ Mine(g) \in SUBSET Counters /\ task[g].counter \in Counters
    BY KnownTask DEF IInv, Rested, Live, Ends
  <1>. DEFINE r == [task[g] EXCEPT !.ahead = Neighbours(task[g].counter)]
  <1>3. Neighbours(task[g].counter) \in Seq(Counters)
    BY <1>1, NeighboursType
  <1>4. Own(g, r)
    BY <1>1, <1>3 DEF Own, Tasks
  <1>5. books' = books /\ (ReadAhead(g, r) \/ ReadAhead(g, task[g]))
    BY DEF Rested
  <1>. HIDE DEF r
  <1>6. Shape(g) /\ inflight' \subseteq Counters
    BY <1>1, <1>4, <1>5, ReadAheadShape
  <1>2. Shape(g) /\ inflight' \subseteq Counters /\ task[g].stage = "rest"
    BY <1>6 DEF Rested
  <1>. QED BY <1>1, <1>2 DEF Moves, TypeOK, page, stores, server, Rested

LEMMA GotAheadChartMoves ==
  ASSUME IInv, NEW g \in Refreshes, GotAheadChart(g)
  PROVE  Moves(g)
  <1>1. /\ TypeOK /\ g \in 1 .. generation /\ task[g] \in Tasks /\ Known(g)
        /\ Own(g, task[g]) /\ Mine(g) \in SUBSET Counters /\ task[g].counter \in Counters
    BY KnownTask DEF IInv, GotAheadChart, Answered, Live, Ends
  <1>. DEFINE r == [task[g] EXCEPT !.mark = None]
  <1>3. task[g].stage = "ahead_chart" /\ task[g].answer # None
    BY DEF GotAheadChart, Answered
  <1>4. task[g].ahead # <<>> /\ task[g].ahead \in Seq(Counters)
    BY <1>1, <1>3 DEF IInv, TasksExist, Tasks
  <1>5. Head(task[g].ahead) \in Counters
    BY <1>4, TailAt
  <1>6. Own(g, r) /\ r.ahead # <<>>
    BY <1>1, <1>4 DEF Own, Tasks
  <1>7. books' = books /\ (\/ is_current(g) /\ AheadTrades(g, r)
                           \/ End(g, "done") /\ wire' = wire)
    BY DEF GotAheadChart
  <1>8. charts' \subseteq Counters /\ inflight' \subseteq Counters
    BY <1>1, <1>5 DEF GotAheadChart, TypeOK
  <1>. HIDE DEF r
  <1>9. Shape(g)
    BY <1>1, <1>6, <1>7, AheadTradesShape, EndShape
  <1>2. /\ Shape(g) /\ charts' \subseteq Counters /\ inflight' \subseteq Counters
        /\ task[g].stage = "ahead_chart" /\ task[g].answer # None
    BY <1>3, <1>8, <1>9
  <1>. QED BY <1>1, <1>2 DEF Moves, TypeOK, page, stores, server, GotAheadChart

LEMMA GotAheadTradesMoves ==
  ASSUME IInv, NEW g \in Refreshes, GotAheadTrades(g)
  PROVE  Moves(g)
  <1>1. /\ TypeOK /\ g \in 1 .. generation /\ task[g] \in Tasks /\ Known(g)
        /\ Own(g, task[g]) /\ Mine(g) \in SUBSET Counters /\ task[g].counter \in Counters
    BY KnownTask DEF IInv, GotAheadTrades, Answered, Live, Ends
  <1>3. task[g].stage = "ahead_trades" /\ task[g].answer # None
    BY DEF GotAheadTrades, Answered
  <1>4. task[g].ahead # <<>>
    BY <1>1, <1>3 DEF IInv, TasksExist
  <1>5. books' = books /\ wire' = wire /\ (Onward(g, task[g]) \/ End(g, "done"))
    BY DEF GotAheadTrades, server
  <1>2. Shape(g) /\ task[g].stage = "ahead_trades" /\ task[g].answer # None
    BY <1>1, <1>3, <1>4, <1>5, OnwardShape, EndShape
  <1>. QED BY <1>1, <1>2 DEF Moves, TypeOK, page, stores, server, GotAheadTrades

LEMMA DropMoves ==
  ASSUME IInv, NEW g \in Refreshes, Drop(g)
  PROVE  Moves(g)
  <1>1. TypeOK /\ g \in 1 .. generation /\ task[g] \in Tasks /\ task[g].stage = "aborted"
    BY KnownTask DEF IInv, Drop
  <1>2. Shape(g) /\ inflight' \subseteq Counters
    BY <1>1, EndShape DEF Drop, Unmarked, server, TypeOK
  <1>. QED BY <1>1, <1>2 DEF Moves, TypeOK, page, stores, server, Drop, Ends

LEMMA StepMoves ==
  ASSUME IInv, NEW g \in Refreshes, Step(g)
  PROVE  Moves(g)
  BY SettleMoves, GotQuoteMoves, GotChartMoves, GotTradesMoves, SubscribedMoves,
     GotCorrectionMoves, GotStaticMoves, ReleasedMoves, RestedMoves, GotAheadChartMoves,
     GotAheadTradesMoves, DropMoves DEF Step

----------------------------------------------------------------------------
(* Steps of the tasks preserve the invariant.                              *)

LEMMA NothingIsNone ==
  /\ \A g \in Refreshes : g # None
  /\ "ok" # None /\ "empty" # None /\ "error" # None
  BY StockPageAssumption

\* The parts of the invariant about the tasks and the page.
Basics == TypeOK /\ TasksExist /\ ShownIsNewest /\ EmptyIsMissing /\ NotFoundIsTheStocks

LEMMA CallIsCommand ==
  ASSUME TypeOK, NEW g \in Refreshes, NEW r, NEW of \in SUBSET Counters, Calls(g, r, of)
  PROVE  /\ [op |-> r.stage, of |-> of, by |-> g] \in Commands
         /\ Sent([op |-> r.stage, of |-> of, by |-> g]) /\ wire' \in Seq(Commands)
         /\ Len(wire) \in Nat /\ DOMAIN wire = 1 .. Len(wire)
  <1>1. [op |-> r.stage, of |-> of, by |-> g] \in Commands
    BY DEF Calls, Commands
  <1>. QED BY <1>1, SendAppends DEF Calls

LEMMA MovesBasics ==
  ASSUME IInv, NEW g \in Refreshes, Moves(g)
  PROVE  Basics'
  <1>1. /\ TypeOK /\ g \in 1 .. generation /\ task[g] \in Tasks /\ Mine(g) \subseteq Counters
        /\ generation \in 0 .. MaxRefreshes /\ MaxRefreshes \in Nat
    <2>1. g \in 1 .. generation /\ generation \in 0 .. MaxRefreshes
      BY DEF Moves, IInv, TypeOK
    <2>. QED BY <2>1, StockPageAssumption DEF IInv, TasksExist, Mine, Tasks
  <1>2. PICK r \in Tasks :
          /\ Becomes(g, r)
          /\ \/ wire' = wire /\ books' \subseteq books
             \/ \E of \in SUBSET Counters : Calls(g, r, of)
    BY DEF Moves, Shape, Quiet, Strikes, Calls, Forgotten
  <1>3. wire' \in Seq(Commands) /\ books' \subseteq Counters
    <2>1. CASE wire' = wire /\ books' \subseteq books
      BY <1>1, <2>1 DEF TypeOK
    <2>2. ASSUME NEW of \in SUBSET Counters, Calls(g, r, of)
          PROVE  wire' \in Seq(Commands) /\ books' \subseteq Counters
      <3>1. wire' \in Seq(Commands)
        BY <1>1, <2>2, CallIsCommand
      <3>. QED BY <1>1, <2>2, <3>1 DEF Calls, TypeOK
    <2>. QED BY <1>2, <2>1, <2>2
  <1>4. task' = [task EXCEPT ![g] = r] /\ task' \in [Refreshes -> Tasks \cup {None}]
    BY <1>1, <1>2 DEF Becomes, TypeOK
  <1>5. \A h \in Refreshes : h # g => task'[h] = task[h]
    BY <1>1, <1>4 DEF TypeOK
  <1>6. task'[g] = r /\ r.counter = task[g].counter /\ r.answer = None
    BY <1>1, <1>2, <1>4 DEF Becomes, TypeOK
  <1>7. not_found' \in BOOLEAN
    BY <1>1 DEF Moves, TypeOK
  <1>8. TypeOK'
    BY <1>1, <1>3, <1>4, <1>7 DEF Moves, TypeOK
  <1>9. TasksExist'
    <2>1. UNCHANGED <<generation, handle, unmounts, leaves>> /\ TasksExist
      BY DEF Moves, IInv
    <2>2. \A h \in 1 .. generation : Live(h)' => Live(h)
      BY <1>1, <1>2, <1>5, <1>6 DEF Live, Becomes, Refreshes
    <2>3. ~Free => generation # g
      BY <2>1 DEF Moves, TasksExist, IInv, AwaitedIsOnTheWire, Ends
    <2>. QED BY <1>1, <1>2, <1>4, <1>5, <1>6, <2>1, <2>2, <2>3
         DEF TasksExist, Refreshes, Becomes, Free
  <1>10. ShownIsNewest'
    BY <1>1, <1>5, <1>6 DEF Moves, IInv, ShownIsNewest
  <1>11. EmptyIsMissing'
    BY <1>1, <1>5, <1>6, NothingIsNone DEF Moves, IInv, EmptyIsMissing, Refreshes
  <1>12. NotFoundIsTheStocks'
    <2>1. UNCHANGED <<open, shown, generation>>
      BY DEF Moves
    <2>2. ASSUME open, not_found' PROVE shown \in Missing
      <3>1. CASE not_found
        BY <2>2, <3>1 DEF IInv, NotFoundIsTheStocks
      <3>2. CASE Absent(g)
        BY <1>1, <2>2, <3>2 DEF Absent, is_current, IInv, EmptyIsMissing, ShownIsNewest
      <3>. QED BY <2>2, <3>1, <3>2 DEF Moves
    <2>. QED BY <2>1, <2>2 DEF NotFoundIsTheStocks
  <1>. QED BY <1>8, <1>9, <1>10, <1>11, <1>12 DEF Basics

LEMMA WireType ==
  ASSUME TypeOK
  PROVE  /\ Len(wire) \in Nat /\ DOMAIN wire = 1 .. Len(wire)
         /\ \A i \in DOMAIN wire : wire[i] \in Commands
  BY LenProperties, ElementOfSeq DEF TypeOK

\* A task that takes a step has nothing on the wire.
LEMMA NothingOnTheWire ==
  ASSUME IInv, NEW g \in Refreshes, Moves(g), Live(g)
  PROVE  \A i \in DOMAIN wire : wire[i].by # g
  <1>1. ASSUME NEW i \in DOMAIN wire, wire[i].by = g PROVE FALSE
    <2>1. wire[i].op = task[g].stage /\ task[g].answer = None
      BY <1>1, NothingIsNone DEF IInv, AwaitedIsOnTheWire
    <2>2. wire[i].op \in Requests \cup {"unmount"}
      BY WireType DEF IInv, Commands
    <2>. QED BY <2>1, <2>2 DEF Moves, Live, Requests
  <1>. QED BY <1>1

LEMMA MovesAwaited ==
  ASSUME IInv, NEW g \in Refreshes, Moves(g)
  PROVE  AwaitedIsOnTheWire'
  <1>1. PICK r \in Tasks :
          /\ Becomes(g, r)
          /\ \/ wire' = wire /\ r.stage \in {"rest"} \cup Ends
             \/ \E of \in SUBSET Counters : Calls(g, r, of)
    BY DEF Moves, Shape, Quiet, Strikes, Calls, Ends
  <1>2. /\ \A h \in Refreshes : h # g => task'[h] = task[h]
        /\ task'[g] = r /\ r.counter = task[g].counter /\ r.answer = None
        /\ r.stage \notin Ends => Live(g)
    BY <1>1 DEF Becomes, IInv, TypeOK
  <1>3. /\ generation' = generation /\ generation \in Nat /\ g \in 1 .. generation
        /\ \A h \in 1 .. generation : h \in Refreshes
    BY StockPageAssumption DEF Moves, IInv, TypeOK, Refreshes
  <1>4. ASSUME NEW i \in DOMAIN wire
        PROVE  /\ wire[i].by # None => wire[i].by \in 1 .. generation
               /\ wire[i].op \in {"quote", "correction"} =>
                    wire[i].by # None /\ wire[i].of = {task'[wire[i].by].counter}
               /\ wire[i].by # None /\ task'[wire[i].by].stage \notin Ends =>
                    /\ Live(wire[i].by) /\ wire[i].by # g
                    /\ wire[i].op = task'[wire[i].by].stage /\ task'[wire[i].by].answer = None
    <2>1. /\ wire[i].by # None => wire[i].by \in 1 .. generation
          /\ wire[i].op \in {"quote", "correction"} =>
               wire[i].by # None /\ wire[i].of = {task[wire[i].by].counter}
          /\ wire[i].by # None /\ Live(wire[i].by) =>
               wire[i].op = task[wire[i].by].stage /\ task[wire[i].by].answer = None
      BY DEF IInv, AwaitedIsOnTheWire
    <2>2. CASE wire[i].by = g
      <3>1. ~Live(g)
        BY <2>2, NothingOnTheWire
      <3>2. task'[g].stage \in Ends
        BY <1>2, <3>1 DEF Live
      <3>. QED BY <1>2, <2>1, <2>2, <3>2
    <2>3. CASE wire[i].by # g
      <3>1. wire[i].by # None => task'[wire[i].by] = task[wire[i].by]
        BY <1>2, <1>3, <2>1, <2>3
      <3>. QED BY <2>1, <2>3, <3>1 DEF Live
    <2>. QED BY <2>2, <2>3
  <1>5. CASE wire' = wire
    <2>1. \A i, j \in DOMAIN wire :
            i # j /\ wire[i].by # None /\ wire[i].by = wire[j].by =>
              task'[wire[i].by].stage \in Ends
      BY <1>4 DEF IInv, AwaitedIsOnTheWire
    <2>. QED BY <1>3, <1>4, <1>5, <2>1 DEF AwaitedIsOnTheWire, Live
  <1>6. ASSUME NEW of \in SUBSET Counters, Calls(g, r, of)
        PROVE  AwaitedIsOnTheWire'
    <2>. DEFINE n == Len(wire) + 1
    <2>1. /\ DOMAIN wire = 1 .. Len(wire) /\ Len(wire) \in Nat /\ DOMAIN wire' = 1 .. n
          /\ wire'[n] = [op |-> r.stage, of |-> of, by |-> g]
          /\ \A i \in DOMAIN wire : wire'[i] = wire[i]
      BY <1>6, CallIsCommand DEF IInv, Sent
    <2>2. Live(g) /\ (r.stage \in {"quote", "correction"} => of = {r.counter})
      BY <1>2, <1>6 DEF Calls, Requests, Ends, Mine
    <2>3. \A i \in DOMAIN wire : wire[i].by # g
      BY <2>2, NothingOnTheWire
    <2>4. ASSUME NEW i \in DOMAIN wire'
          PROVE  /\ wire'[i].by # None => wire'[i].by \in 1 .. generation
                 /\ wire'[i].op \in {"quote", "correction"} =>
                      wire'[i].by # None /\ wire'[i].of = {task'[wire'[i].by].counter}
                 /\ wire'[i].by # None /\ task'[wire'[i].by].stage \notin Ends =>
                      wire'[i].op = task'[wire'[i].by].stage /\ task'[wire'[i].by].answer = None
      <3>1. CASE i = n
        BY <1>2, <1>3, <2>1, <2>2, <3>1, NothingIsNone
      <3>2. CASE i \in DOMAIN wire
        BY <1>4, <2>1, <3>2 DEF Live
      <3>. QED BY <2>1, <3>1, <3>2
    <2>5. ASSUME NEW i \in DOMAIN wire', NEW j \in DOMAIN wire', i # j,
                 wire'[i].by # None, wire'[i].by = wire'[j].by
          PROVE  task'[wire'[i].by].stage \in Ends
      <3>1. i \in DOMAIN wire /\ j \in DOMAIN wire
        BY <2>1, <2>3, <2>5
      <3>2. ~Live(wire[i].by)
        BY <2>1, <2>5, <3>1 DEF IInv, AwaitedIsOnTheWire
      <3>3. task'[wire[i].by].stage \in Ends
        BY <1>4, <2>1, <2>5, <3>1, <3>2
      <3>. QED BY <2>1, <3>1, <3>3 DEF Live
    <2>. QED BY <1>3, <2>4, <2>5 DEF AwaitedIsOnTheWire, Live
  <1>. QED BY <1>1, <1>5, <1>6

LEMMA MovesCovered ==
  ASSUME IInv, NEW g \in Refreshes, Moves(g)
  PROVE  Covered'
  <1>1. UNCHANGED <<streams, failed>> /\ DOMAIN wire = 1 .. Len(wire) /\ Len(wire) \in Nat
    BY WireType DEF Moves, IInv
  <1>2. PICK r \in Tasks : Quiet(g, r) \/ Strikes(g, r) \/ \E of \in SUBSET Counters : Calls(g, r, of)
    BY DEF Moves, Shape
  <1>3. CASE Quiet(g, r)
    BY <1>1, <1>3 DEF Quiet, IInv, Covered, UnmountAfter, Lost
  <1>4. CASE Strikes(g, r)
    <2>1. wire' = wire /\ task[g].stage = "release" /\ g \in 1 .. generation
      BY <1>4 DEF Strikes, Moves
    <2>2. ASSUME NEW c \in books, c \notin books'
          PROVE  c \notin streams /\ \A i \in DOMAIN wire : wire[i].op # "subscribe"
      <3>1. task[g].answer = "ok" /\ c \notin Mine(g)
        BY <1>4, <2>2 DEF Strikes, Forgotten
      <3>2. NoSubscribeAfter(0) /\ streams \cap books \subseteq Mine(g)
        BY <2>1, <3>1 DEF IInv, Releasing
      <3>. QED BY <1>1, <2>2, <3>1, <3>2 DEF NoSubscribeAfter
    <2>. QED BY <1>1, <2>1, <2>2 DEF IInv, Covered, UnmountAfter, Lost
  <1>5. ASSUME NEW of \in SUBSET Counters, Calls(g, r, of)
        PROVE  Covered'
    <2>. DEFINE n == Len(wire) + 1
    <2>1. /\ DOMAIN wire' = 1 .. n /\ wire'[n] = [op |-> r.stage, of |-> of, by |-> g]
          /\ \A i \in DOMAIN wire : wire'[i] = wire[i]
      BY <1>1, <1>5, CallIsCommand DEF IInv, Sent
    <2>2. ASSUME NEW c \in Counters, c \notin books', ~Lost(c)
          PROVE  /\ c \in streams => UnmountAfter(0, c)'
                 /\ \A i \in DOMAIN wire' :
                      wire'[i].op = "subscribe" /\ c \in wire'[i].of => UnmountAfter(i, c)'
      <3>1. c \notin books /\ (r.stage = "subscribe" => c \notin of)
        BY <1>5, <2>2 DEF Calls
      <3>2. \A i : UnmountAfter(i, c) => UnmountAfter(i, c)'
        BY <1>1, <2>1 DEF UnmountAfter
      <3>. QED BY <1>1, <2>1, <2>2, <3>1, <3>2 DEF IInv, Covered
    <2>. QED BY <1>1, <2>2 DEF Covered, Lost
  <1>. QED BY <1>2, <1>3, <1>4, <1>5

LEMMA MovesReleasing ==
  ASSUME IInv, NEW g \in Refreshes, Moves(g)
  PROVE  Releasing'
  <1>1. /\ UNCHANGED <<streams, generation>> /\ g \in 1 .. generation /\ generation \in Nat
        /\ \A h \in 1 .. generation : h \in Refreshes
    BY StockPageAssumption DEF Moves, IInv, TypeOK, Refreshes
  <1>2. PICK r \in Tasks : Quiet(g, r) \/ Strikes(g, r) \/ \E of \in SUBSET Counters : Calls(g, r, of)
    BY DEF Moves, Shape
  <1>3. /\ \A h \in Refreshes : h # g => task'[h] = task[h]
        /\ task'[g] = r /\ r.counter = task[g].counter /\ r.answer = None
        /\ r.stage \notin Ends => Live(g)
    BY <1>2 DEF Quiet, Strikes, Calls, Becomes, IInv, TypeOK
  \* Of the tasks alive at most one is past its debounce.
  <1>4. ASSUME NEW h \in 1 .. generation, h # g, task[h].stage = "release"
        PROVE  ~Free \/ ~Live(g) \/ ~is_current(g)
    <2>1. Live(h)
      BY <1>4 DEF Live, Ends
    <2>. QED BY <1>1, <1>4, <2>1 DEF IInv, TasksExist, Free, is_current
  <1>5. ASSUME NEW h \in 1 .. generation, task'[h].stage = "release"
        PROVE  /\ task'[h].answer = None => \E i \in DOMAIN wire' : ReleaseAt(h, i)'
               /\ task'[h].answer = "ok" =>
                    NoSubscribeAfter(0)' /\ streams' \cap books' \subseteq Mine(h)'
    <2>1. CASE Quiet(g, r)
      <3>1. h # g /\ task'[h] = task[h] /\ UNCHANGED <<wire, books, streams>>
        BY <1>1, <1>3, <1>5, <2>1 DEF Quiet
      <3>. QED BY <1>5, <3>1 DEF IInv, Releasing, ReleaseAt, NoSubscribeAfter, Mine
    <2>2. CASE Strikes(g, r)
      <3>1. h # g /\ task'[h] = task[h]
        BY <1>1, <1>3, <1>5, <2>2 DEF Strikes
      <3>2. Live(h) /\ Live(g) /\ task[g].stage = "release" /\ task[h].stage = "release"
        BY <1>5, <2>2, <3>1 DEF Strikes, Live, Ends
      <3>. QED BY <1>1, <3>1, <3>2 DEF IInv, TasksExist, Free
    <2>3. ASSUME NEW of \in SUBSET Counters, Calls(g, r, of)
          PROVE  /\ task'[h].answer = None => \E i \in DOMAIN wire' : ReleaseAt(h, i)'
                 /\ task'[h].answer = "ok" =>
                      NoSubscribeAfter(0)' /\ streams' \cap books' \subseteq Mine(h)'
      <3>0. PICK n \in Nat : n = Len(wire) + 1
        BY WireType DEF IInv
      <3>1. /\ DOMAIN wire' = 1 .. n /\ n \in Nat \ {0}
            /\ wire'[n] = [op |-> r.stage, of |-> of, by |-> g]
        BY <2>3, <3>0, CallIsCommand DEF IInv, Sent
      <3>2. h = g
        <4>1. Free /\ is_current(g) /\ r.stage \notin Ends
          BY <2>3 DEF Calls, Requests, Ends
        <4>2. Live(g)
          BY <1>3, <4>1
        <4>. QED BY <1>1, <1>3, <1>4, <1>5, <4>1, <4>2
      <3>3. r.stage = "release" /\ of = books \ Mine(g) /\ books' = books /\ Mine(g)' = Mine(g)
        BY <1>3, <1>5, <2>3, <3>2 DEF Calls, Mine
      <3>4. ReleaseAt(g, n)' /\ n \in DOMAIN wire'
        BY <3>1, <3>3 DEF ReleaseAt, NoSubscribeAfter
      <3>. QED BY <1>3, <3>2, <3>4, NothingIsNone
    <2>. QED BY <1>2, <2>1, <2>2, <2>3
  <1>. QED BY <1>1, <1>5 DEF Releasing

LEMMA StepKeepsIInv ==
  ASSUME IInv, NEW g \in Refreshes, Step(g)
  PROVE  IInv'
  BY StepMoves, MovesBasics, MovesAwaited, MovesCovered, MovesReleasing DEF IInv, Basics

----------------------------------------------------------------------------
(* Steps of the UI thread preserve the invariant.                          *)

LEMMA RefreshKeeps ==
  ASSUME IInv, Free, NEW c \in Counters, Refresh(c), open' = TRUE, shown' = c,
         UNCHANGED <<handle, wire, streams, failed, books>>, unmounts' <= leaves'
  PROVE  /\ TasksExist' /\ ShownIsNewest' /\ AwaitedIsOnTheWire' /\ EmptyIsMissing'
         /\ NotFoundIsTheStocks' /\ Covered' /\ Releasing'
         /\ task' \in [Refreshes -> Tasks \cup {None}] /\ generation' \in 0 .. MaxRefreshes
         /\ not_found' \in BOOLEAN
  <1>. DEFINE new == [counter |-> c, stage |-> "debounce", answer |-> None, snapshot |-> FALSE,
                      count |-> FALSE, mark |-> None, ahead |-> <<>>]
  <1>1. /\ generation' = generation + 1 /\ generation \in Nat /\ MaxRefreshes \in Nat
        /\ generation' \in 0 .. MaxRefreshes /\ generation' \in Refreshes
        /\ handle = generation /\ TypeOK
        /\ \A h \in 1 .. generation : h \in Refreshes /\ h # generation'
        /\ not_found' = FALSE /\ task' = [task EXCEPT ![generation'] = new]
    BY StockPageAssumption DEF Refresh, IInv, TypeOK, Refreshes, Free
  <1>2. /\ new \in Tasks /\ new.counter = c /\ new.stage = "debounce" /\ new.answer = None
    BY EmptySeq DEF Tasks, Stages, Answers
  <1>. HIDE DEF new
  <1>3. /\ task' \in [Refreshes -> Tasks \cup {None}] /\ task'[generation'] = new
        /\ \A h \in Refreshes : h # generation' => task'[h] = task[h]
    BY <1>1, <1>2 DEF TypeOK
  <1>4. \A h \in 1 .. generation' : h \in 1 .. generation \/ h = generation'
    BY <1>1
  <1>5. TasksExist'
    <2>1. \A h \in Refreshes : IF h <= generation' THEN task'[h] \in Tasks ELSE task'[h] = None
      BY <1>1, <1>2, <1>3 DEF IInv, TasksExist, Refreshes
    <2>2. \A h \in 1 .. generation' : task'[h].stage \notin Ends => h \in {handle, generation'}
      BY <1>1, <1>3, <1>4 DEF IInv, TasksExist, Live
    <2>3. \A h \in 1 .. generation' :
            task'[h].stage \in {"ahead_chart", "ahead_trades"} => task'[h].ahead # <<>>
      BY <1>1, <1>2, <1>3, <1>4 DEF IInv, TasksExist
    <2>. QED BY <1>1, <1>2, <1>3, <2>1, <2>2, <2>3 DEF TasksExist, Live, Free
  <1>6. ShownIsNewest' /\ NotFoundIsTheStocks'
    BY <1>1, <1>2, <1>3 DEF ShownIsNewest, NotFoundIsTheStocks
  <1>7. AwaitedIsOnTheWire'
    <2>1. \A i \in DOMAIN wire : wire[i].by # None =>
            /\ wire[i].by \in 1 .. generation /\ wire[i].by \in 1 .. generation'
            /\ task'[wire[i].by] = task[wire[i].by]
      BY <1>1, <1>3 DEF IInv, AwaitedIsOnTheWire
    <2>. QED BY <2>1 DEF IInv, AwaitedIsOnTheWire, Live
  <1>8. EmptyIsMissing'
    BY <1>1, <1>2, <1>3, <1>4, NothingIsNone DEF IInv, EmptyIsMissing
  <1>9. Covered'
    BY DEF IInv, Covered, UnmountAfter, Lost
  <1>10. Releasing'
    BY <1>1, <1>2, <1>3, <1>4 DEF IInv, Releasing, ReleaseAt, NoSubscribeAfter, Mine
  <1>. QED BY <1>1, <1>3, <1>5, <1>6, <1>7, <1>8, <1>9, <1>10

LEMMA OpenKeeps ==
  ASSUME IInv, NEW c \in Counters, Open(c)
  PROVE  IInv'
  <1>1. unmounts' <= leaves'
    BY DEF Open, IInv, TasksExist
  <1>2. TypeOK'
    BY <1>1, RefreshKeeps DEF Open, IInv, TypeOK, stores, server
  <1>. QED BY <1>1, <1>2, RefreshKeeps DEF Open, IInv, server

LEMMA SelectKeeps ==
  ASSUME IInv, NEW c \in Counters, Select(c)
  PROVE  IInv'
  <1>1. unmounts' <= leaves' /\ open' = TRUE
    BY DEF Select, IInv, TasksExist, TypeOK
  <1>2. TypeOK'
    BY <1>1, RefreshKeeps DEF Select, IInv, TypeOK, stores, server
  <1>. QED BY <1>1, <1>2, RefreshKeeps DEF Select, IInv, server

LEMMA ExitTypes ==
  ASSUME IInv, Exit
  PROVE  /\ leaves' \in 0 .. MaxLeaves /\ unmounts' \in 0 .. MaxLeaves /\ unmounts' <= leaves'
         /\ settled' = None
  BY StockPageAssumption DEF Exit, IInv, TypeOK, TasksExist

LEMMA ToggleLayoutKeeps ==
  ASSUME IInv, ToggleLayout
  PROVE  IInv'
  <1>1. /\ open' = TRUE /\ shown \in Counters /\ shown' = shown /\ Exit /\ Refresh(shown)
        /\ Free /\ UNCHANGED <<handle, wire, streams, failed, books>>
    <2>1. open /\ generation \in Refreshes /\ task[generation].counter = shown
      BY DEF ToggleLayout, IInv, ShownIsNewest
    <2>2. generation \in Nat /\ task[generation] \in Tasks
      BY <2>1, StockPageAssumption DEF IInv, TypeOK, TasksExist
    <2>. QED BY <2>1, <2>2 DEF ToggleLayout, Tasks, server, IInv, TypeOK
  <1>2. TypeOK'
    BY <1>1, ExitTypes, RefreshKeeps DEF ToggleLayout, IInv, TypeOK, stores, server
  <1>. QED BY <1>1, <1>2, ExitTypes, RefreshKeeps DEF IInv

LEMMA LeaveKeeps ==
  ASSUME IInv, Leave
  PROVE  IInv'
  <1>1. Exit /\ UNCHANGED <<shown, generation, handle, task, count, dirty, books, quoted, charts,
                            inflight, wire, streams, failed>> /\ open' = FALSE /\ not_found' = FALSE
    BY DEF Leave, stores, server
  <1>2. TypeOK'
    BY <1>1, ExitTypes DEF IInv, TypeOK
  <1>3. TasksExist'
    BY <1>1, ExitTypes DEF IInv, TasksExist, Live, Free
  <1>4. ShownIsNewest' /\ NotFoundIsTheStocks' /\ EmptyIsMissing'
    BY <1>1 DEF IInv, ShownIsNewest, NotFoundIsTheStocks, EmptyIsMissing
  <1>5. AwaitedIsOnTheWire' /\ Covered'
    BY <1>1 DEF IInv, AwaitedIsOnTheWire, Live, Covered, UnmountAfter, Lost
  <1>6. Releasing'
    BY <1>1 DEF IInv, Releasing, ReleaseAt, NoSubscribeAfter, Mine
  <1>. QED BY <1>2, <1>3, <1>4, <1>5, <1>6 DEF IInv

LEMMA SupersedeKeeps ==
  ASSUME IInv, Supersede
  PROVE  IInv'
  <1>1. /\ handle' = generation /\ generation = handle + 1 /\ generation \in Nat /\ handle \in Nat
        /\ task[generation].stage = "debounce"
        /\ \A h \in 1 .. generation : h \in Refreshes
        /\ UNCHANGED <<open, shown, leaves, generation, unmounts, settled, not_found, count, dirty,
                       books, quoted, charts, inflight, wire, streams, failed>>
    BY StockPageAssumption
    DEF Supersede, IInv, TypeOK, TasksExist, Free, Refreshes, page, stores, server
  <1>2. /\ task' \in [Refreshes -> Tasks \cup {None}]
        /\ \A h \in Refreshes : h # handle => task'[h] = task[h]
        /\ handle \in Refreshes =>
             /\ task'[handle] \in Tasks /\ task'[handle].stage \in Ends
             /\ task'[handle].counter = task[handle].counter
             /\ task'[handle].answer = task[handle].answer
    <2>1. CASE handle = 0 \/ task[handle].stage \in Ends
      <3>1. task' = task /\ (handle \in Refreshes => task[handle] \in Tasks)
        BY <1>1, <2>1 DEF Supersede, IInv, TasksExist
      <3>. QED BY <2>1, <3>1 DEF IInv, TypeOK, Refreshes
    <2>2. CASE handle # 0 /\ task[handle].stage \notin Ends
      <3>. DEFINE q == [task[handle] EXCEPT !.stage = "aborted"]
      <3>1. handle \in Refreshes /\ task[handle] \in Tasks
        BY <1>1, <2>2 DEF IInv, TasksExist
      <3>2. /\ q \in Tasks /\ q.stage \in Ends /\ q.counter = task[handle].counter
            /\ q.answer = task[handle].answer
        BY <3>1 DEF Tasks, Stages, Ends
      <3>3. task' = [task EXCEPT ![handle] = q]
        BY <2>2 DEF Supersede
      <3>. HIDE DEF q
      <3>. QED BY <3>1, <3>2, <3>3 DEF IInv, TypeOK
    <2>. QED BY <2>1, <2>2
  <1>3. TypeOK'
    BY <1>1, <1>2 DEF IInv, TypeOK
  <1>4. TasksExist'
    <2>1. \A h \in Refreshes : IF h <= generation THEN task'[h] \in Tasks ELSE task'[h] = None
      BY <1>1, <1>2 DEF IInv, TasksExist
    <2>2. \A h \in 1 .. generation : task'[h].stage \notin Ends => h = generation
      BY <1>1, <1>2 DEF IInv, TasksExist, Live
    <2>3. \A h \in 1 .. generation :
            task'[h].stage \in {"ahead_chart", "ahead_trades"} => task'[h].ahead # <<>>
      BY <1>1, <1>2 DEF IInv, TasksExist, Ends
    <2>. QED BY <1>1, <2>1, <2>2, <2>3 DEF IInv, TasksExist, Live, Free
  <1>5. ShownIsNewest' /\ NotFoundIsTheStocks' /\ EmptyIsMissing'
    BY <1>1, <1>2 DEF IInv, ShownIsNewest, NotFoundIsTheStocks, EmptyIsMissing
  <1>6. AwaitedIsOnTheWire'
    <2>1. \A i \in DOMAIN wire : wire[i].by # None =>
            /\ task'[wire[i].by].counter = task[wire[i].by].counter
            /\ task'[wire[i].by].stage \notin Ends => task'[wire[i].by] = task[wire[i].by]
      BY <1>1, <1>2 DEF IInv, AwaitedIsOnTheWire
    <2>. QED BY <1>1, <2>1 DEF IInv, AwaitedIsOnTheWire, Live
  <1>7. Covered'
    BY <1>1 DEF IInv, Covered, UnmountAfter, Lost
  <1>8. Releasing'
    <2>1. \A h \in 1 .. generation : task'[h].stage = "release" => task'[h] = task[h]
      BY <1>1, <1>2 DEF Ends
    <2>. QED BY <1>1, <2>1 DEF IInv, Releasing, ReleaseAt, NoSubscribeAfter, Mine
  <1>. QED BY <1>3, <1>4, <1>5, <1>6, <1>7, <1>8 DEF IInv

\* What the UI thread and the unmount tasks send has no refresh behind.
LEMMA SentByNobody ==
  ASSUME IInv, NEW op \in {"chart", "unmount"}, NEW of \in SUBSET Counters, Send(op, of, None),
         UNCHANGED <<task, generation, streams, failed>>,
         op = "chart" => books' = books,
         op = "unmount" => books' = {} /\ of = books
  PROVE  wire' \in Seq(Commands) /\ AwaitedIsOnTheWire' /\ Covered' /\ Releasing'
  <1>1. PICK n \in Nat : n = Len(wire) + 1
    BY WireType DEF IInv
  <1>. DEFINE cmd == [op |-> op, of |-> of, by |-> None]
  <1>2. cmd \in Commands /\ cmd.op = op /\ cmd.of = of /\ cmd.by = None
    BY DEF Commands, Requests
  <1>3. wire' = Append(wire, cmd)
    BY DEF Send
  <1>. HIDE DEF cmd
  <1>4. /\ wire' \in Seq(Commands) /\ DOMAIN wire = 1 .. Len(wire) /\ Len(wire) \in Nat
        /\ DOMAIN wire' = 1 .. n /\ wire'[n] = cmd
        /\ \A i \in DOMAIN wire : wire'[i] = wire[i]
    BY <1>1, <1>2, <1>3, SendAppends DEF IInv, Sent
  <1>5. \A i \in DOMAIN wire' : i \in DOMAIN wire \/ i = n
    BY <1>1, <1>4
  <1>6. AwaitedIsOnTheWire'
    BY <1>2, <1>4, <1>5 DEF IInv, AwaitedIsOnTheWire, Live
  <1>7. \A i, c : UnmountAfter(i, c) => UnmountAfter(i, c)'
    BY <1>1, <1>4 DEF UnmountAfter
  <1>8. \A i \in 0 .. Len(wire), c \in Counters :
          op = "unmount" /\ c \in of => UnmountAfter(i, c)'
    BY <1>1, <1>2, <1>4 DEF UnmountAfter
  <1>9. Covered'
    <2>1. ASSUME NEW c \in Counters, c \notin books', ~Lost(c)
          PROVE  /\ c \in streams => UnmountAfter(0, c)'
                 /\ \A i \in DOMAIN wire' :
                      wire'[i].op = "subscribe" /\ c \in wire'[i].of => UnmountAfter(i, c)'
      <3>1. CASE c \notin books
        BY <1>2, <1>4, <1>5, <1>7, <2>1, <3>1 DEF IInv, Covered
      <3>2. CASE c \in books
        BY <1>2, <1>4, <1>5, <1>8, <2>1, <3>2
      <3>. QED BY <3>1, <3>2
    <2>. QED BY <2>1 DEF Covered, Lost
  <1>10. Releasing'
    <2>1. \A k \in 0 .. Len(wire) : NoSubscribeAfter(k) => NoSubscribeAfter(k)'
      BY <1>2, <1>4, <1>5 DEF NoSubscribeAfter
    <2>2. books' \subseteq books /\ \A h : Mine(h)' = Mine(h)
      BY DEF Mine
    <2>3. ASSUME NEW h, NEW k \in DOMAIN wire, ReleaseAt(h, k)
          PROVE  ReleaseAt(h, k)' /\ k \in DOMAIN wire'
      BY <1>1, <1>4, <2>1, <2>2, <2>3 DEF ReleaseAt
    <2>. QED BY <1>4, <2>1, <2>2, <2>3 DEF IInv, Releasing
  <1>. QED BY <1>4, <1>6, <1>9, <1>10

\* The parts that speak of no command.
LEMMA BasicsStay ==
  ASSUME IInv, TypeOK',
         UNCHANGED <<open, shown, leaves, generation, handle, task, not_found>>, unmounts' <= unmounts
  PROVE  Basics'
  <1>1. TasksExist'
    BY DEF IInv, TypeOK, TasksExist, Live, Free
  <1>. QED BY <1>1 DEF IInv, Basics, ShownIsNewest, NotFoundIsTheStocks, EmptyIsMissing

\* Nothing happened to the wire, the books and the streams.
LEMMA WireStays ==
  ASSUME IInv, UNCHANGED <<task, generation, wire, books, streams, failed>>
  PROVE  AwaitedIsOnTheWire' /\ Covered' /\ Releasing'
  <1>1. AwaitedIsOnTheWire' /\ Covered'
    BY DEF IInv, AwaitedIsOnTheWire, Live, Covered, UnmountAfter, Lost
  <1>2. Releasing'
    BY DEF IInv, Releasing, ReleaseAt, NoSubscribeAfter, Mine
  <1>. QED BY <1>1, <1>2

LEMMA PushKeeps ==
  ASSUME IInv, Push
  PROVE  IInv'
  <1>1. /\ UNCHANGED <<open, shown, leaves, generation, handle, task, unmounts, not_found, settled,
                       count, books, quoted, charts, inflight, wire, streams, failed>>
        /\ dirty' = TRUE
    BY DEF Push, page, stores, server
  <1>2. TypeOK'
    BY <1>1 DEF IInv, TypeOK
  <1>3. unmounts' <= unmounts
    BY <1>1 DEF IInv, TypeOK
  <1>. QED BY <1>1, <1>2, <1>3, BasicsStay, WireStays DEF IInv, Basics

LEMMA FrameShows ==
  ASSUME IInv, Frame
  PROVE  shown \in Counters
  <1>1. generation \in Refreshes /\ task[generation].counter = shown
    BY DEF Frame, IInv, ShownIsNewest
  <1>2. generation \in Nat /\ task[generation] \in Tasks
    BY <1>1, StockPageAssumption DEF IInv, TypeOK, TasksExist
  <1>. QED BY <1>1, <1>2 DEF Tasks

LEMMA FrameKeeps ==
  ASSUME IInv, Frame
  PROVE  IInv'
  <1>1. /\ UNCHANGED <<open, shown, leaves, generation, handle, task, unmounts, not_found, settled,
                       books, quoted, charts, streams, failed>>
        /\ open /\ dirty' = FALSE
    BY DEF Frame, page, stores
  <1>2. shown \in Counters
    BY FrameShows
  <1>3. \/ Send("chart", {shown}, None) /\ inflight' = inflight \cup {shown}
        \/ wire' = wire /\ inflight' = inflight
    BY DEF Frame
  <1>4. wire' \in Seq(Commands) /\ AwaitedIsOnTheWire' /\ Covered' /\ Releasing'
    BY <1>1, <1>2, <1>3, SentByNobody, WireStays DEF IInv, TypeOK
  <1>5. count' \in BOOLEAN
    BY DEF Frame
  <1>6. TypeOK'
    BY <1>1, <1>2, <1>3, <1>4, <1>5 DEF IInv, TypeOK
  <1>7. unmounts' <= unmounts
    BY <1>1 DEF IInv, TypeOK
  <1>. QED BY <1>1, <1>4, <1>6, <1>7, BasicsStay DEF IInv, Basics

LEMMA UnmountKeeps ==
  ASSUME IInv, Unmount
  PROVE  IInv'
  <1>1. /\ UNCHANGED <<open, shown, leaves, generation, handle, task, not_found, settled, count,
                       dirty, quoted, charts, inflight, streams, failed>>
        /\ unmounts > 0 /\ unmounts' = unmounts - 1 /\ books' = {}
    BY DEF Unmount, page, stores
  <1>2. \/ Send("unmount", books, None)
        \/ wire' = wire /\ books' = books
    BY DEF Unmount
  <1>3. books \in SUBSET Counters
    BY DEF IInv, TypeOK
  <1>4. wire' \in Seq(Commands) /\ AwaitedIsOnTheWire' /\ Covered' /\ Releasing'
    BY <1>1, <1>2, <1>3, SentByNobody, WireStays DEF IInv, TypeOK
  <1>5. unmounts' <= unmounts /\ unmounts' \in 0 .. MaxLeaves
    BY <1>1, StockPageAssumption DEF IInv, TypeOK
  <1>6. TypeOK'
    BY <1>1, <1>4, <1>5 DEF IInv, TypeOK
  <1>. QED BY <1>1, <1>4, <1>5, <1>6, BasicsStay DEF IInv, Basics

----------------------------------------------------------------------------
(* Steps of the connection preserve the invariant.                         *)

\* A command leaves the wire and is answered.
Replies(cmd, answer) ==
  /\ wire # <<>> /\ cmd = Head(wire) /\ wire' = Tail(wire) /\ Reply(cmd, answer)
  /\ UNCHANGED <<open, shown, leaves, generation, handle, unmounts, settled, not_found, count,
                 dirty, books, quoted>>

LEMMA RepliesTasks ==
  ASSUME IInv, NEW cmd, NEW answer \in {"ok", "empty", "error"}, Replies(cmd, answer)
  PROVE  /\ cmd \in Commands /\ cmd = wire[1] /\ Shifted /\ wire' \in Seq(Commands)
         /\ Len(wire) \in Nat \ {0} /\ DOMAIN wire = 1 .. Len(wire)
         /\ task' \in [Refreshes -> Tasks \cup {None}]
         /\ charts' \subseteq Counters /\ inflight' \subseteq Counters
         /\ \A h \in Refreshes : h # cmd.by => task'[h] = task[h]
         /\ \A h \in 1 .. generation :
              /\ h \in Refreshes /\ task'[h] \in Tasks
              /\ task'[h].counter = task[h].counter /\ task'[h].stage = task[h].stage
              /\ task'[h].ahead = task[h].ahead
              /\ task'[h].answer \in {task[h].answer, answer}
              /\ h = cmd.by /\ Live(h) => task'[h].answer = answer
  <1>1. /\ cmd \in Commands /\ cmd = wire[1] /\ Shifted /\ wire' \in Seq(Commands)
        /\ Len(wire) \in Nat \ {0} /\ DOMAIN wire = 1 .. Len(wire) /\ 1 \in DOMAIN wire
    BY ServeShifts DEF Replies, IInv
  <1>2. charts' \subseteq Counters /\ inflight' \subseteq Counters
    <2>1. cmd.of \subseteq Counters
      BY <1>1 DEF Commands
    <2>. QED BY <2>1 DEF Replies, Reply, IInv, TypeOK
  <1>3. \A h \in 1 .. generation : h \in Refreshes /\ task[h] \in Tasks
    BY StockPageAssumption DEF IInv, TypeOK, TasksExist, Refreshes
  <1>4. CASE cmd.by = None \/ task[cmd.by].stage \in Ends
    <2>1. task' = task
      BY <1>4 DEF Replies, Reply
    <2>2. \A h \in 1 .. generation : ~(h = cmd.by /\ Live(h))
      BY <1>3, <1>4, NothingIsNone DEF Live
    <2>. QED BY <1>1, <1>2, <1>3, <2>1, <2>2 DEF IInv, TypeOK
  <1>5. CASE cmd.by # None /\ task[cmd.by].stage \notin Ends
    <2>. DEFINE q == [task[cmd.by] EXCEPT !.answer = answer]
    <2>1. cmd.by \in 1 .. generation
      BY <1>1, <1>5 DEF IInv, AwaitedIsOnTheWire
    <2>2. task' = [task EXCEPT ![cmd.by] = q]
      BY <1>5 DEF Replies, Reply
    <2>3. /\ q \in Tasks /\ q.counter = task[cmd.by].counter /\ q.stage = task[cmd.by].stage
          /\ q.ahead = task[cmd.by].ahead /\ q.answer = answer
      BY <1>3, <2>1 DEF Tasks, Answers
    <2>. HIDE DEF q
    <2>. QED BY <1>1, <1>2, <1>3, <2>1, <2>2, <2>3 DEF IInv, TypeOK
  <1>. QED BY <1>4, <1>5

LEMMA RepliesBasics ==
  ASSUME IInv, NEW cmd, NEW answer \in {"ok", "empty", "error"}, Replies(cmd, answer),
         streams' \subseteq Counters, failed' \subseteq Commands,
         answer = "empty" => cmd.op \in {"quote", "correction"} /\ cmd.of \subseteq Missing
  PROVE  Basics' /\ AwaitedIsOnTheWire'
  <1>1. TypeOK'
    BY RepliesTasks DEF Replies, IInv, TypeOK
  <1>2. TasksExist'
    <2>1. \A h \in Refreshes : IF h <= generation THEN task'[h] \in Tasks ELSE task'[h] = None
      <3>1. ASSUME NEW h \in Refreshes, ~(h <= generation) PROVE task'[h] = None
        <4>1. h # cmd.by
          <5>1. 1 \in DOMAIN wire /\ cmd = wire[1]
            BY RepliesTasks
          <5>2. cmd.by # None => cmd.by \in 1 .. generation
            BY <5>1 DEF IInv, AwaitedIsOnTheWire
          <5>. QED BY <3>1, <5>2, NothingIsNone DEF IInv, TypeOK, Refreshes
        <4>. QED BY <3>1, <4>1, RepliesTasks DEF IInv, TasksExist
      <3>2. ASSUME NEW h \in Refreshes, h <= generation PROVE task'[h] \in Tasks
        <4>1. h \in 1 .. generation
          BY <3>2, StockPageAssumption DEF IInv, TypeOK, Refreshes
        <4>. QED BY <4>1, RepliesTasks
      <3>. QED BY <3>1, <3>2
    <2>2. ~Free => generation \in 1 .. generation
      BY StockPageAssumption DEF Free, IInv, TypeOK, TasksExist
    <2>. QED BY <2>1, <2>2, RepliesTasks DEF Replies, IInv, TasksExist, Live, Free
  <1>3. ShownIsNewest' /\ NotFoundIsTheStocks'
    <2>1. open => generation \in 1 .. generation
      BY StockPageAssumption DEF IInv, ShownIsNewest, Refreshes, TypeOK
    <2>. QED BY <2>1, RepliesTasks DEF Replies, IInv, ShownIsNewest, NotFoundIsTheStocks
  <1>4. EmptyIsMissing'
    <2>1. ASSUME NEW h \in 1 .. generation, task'[h].answer = "empty"
          PROVE  task[h].counter \in Missing
      <3>1. CASE h # cmd.by
        BY <2>1, <3>1, RepliesTasks DEF IInv, EmptyIsMissing
      <3>2. CASE h = cmd.by /\ answer = "empty"
        <4>1. 1 \in DOMAIN wire /\ cmd = wire[1]
          BY RepliesTasks
        <4>2. cmd.of = {task[h].counter}
          BY <3>2, <4>1 DEF IInv, AwaitedIsOnTheWire
        <4>. QED BY <3>2, <4>2
      <3>3. CASE answer # "empty"
        BY <2>1, <3>3, RepliesTasks DEF IInv, EmptyIsMissing
      <3>. QED BY <3>1, <3>2, <3>3
    <2>. QED BY <2>1, RepliesTasks DEF Replies, EmptyIsMissing
  <1>5. AwaitedIsOnTheWire'
    <2>1. ASSUME NEW i \in DOMAIN wire'
          PROVE  /\ i + 1 \in DOMAIN wire /\ wire'[i] = wire[i + 1] /\ i + 1 # 1 /\ 1 \in DOMAIN wire
                 /\ wire'[i].by # None =>
                      /\ wire'[i].by \in 1 .. generation
                      /\ task'[wire'[i].by].counter = task[wire'[i].by].counter
                      /\ task'[wire'[i].by].stage = task[wire'[i].by].stage
      BY RepliesTasks DEF Shifted, IInv, AwaitedIsOnTheWire
    <2>2. ASSUME NEW i \in DOMAIN wire', wire'[i].by # None, task'[wire'[i].by].stage \notin Ends
          PROVE  wire'[i].op = task'[wire'[i].by].stage /\ task'[wire'[i].by].answer = None
      <3>1. Live(wire[i + 1].by) /\ wire[i + 1].by # None
        BY <2>1, <2>2 DEF Live
      <3>2. wire[i + 1].by # wire[1].by
        BY <2>1, <3>1 DEF IInv, AwaitedIsOnTheWire
      <3>3. task'[wire'[i].by] = task[wire'[i].by]
        BY <2>1, <2>2, <3>2, RepliesTasks
      <3>. QED BY <2>1, <3>1, <3>3 DEF IInv, AwaitedIsOnTheWire
    <2>3. ASSUME NEW i \in DOMAIN wire', NEW j \in DOMAIN wire', i # j, wire'[i].by # None,
                 wire'[i].by = wire'[j].by
          PROVE  task'[wire'[i].by].stage \in Ends
      <3>1. i + 1 # j + 1
        BY <2>3, RepliesTasks DEF Shifted
      <3>. QED BY <2>1, <2>3, <3>1 DEF IInv, AwaitedIsOnTheWire, Live
    <2>4. \A i \in DOMAIN wire' : wire'[i].op \in {"quote", "correction"} =>
            wire'[i].by # None /\ wire'[i].of = {task'[wire'[i].by].counter}
      BY <2>1 DEF IInv, AwaitedIsOnTheWire
    <2>. QED BY <2>1, <2>2, <2>3, <2>4 DEF Replies, AwaitedIsOnTheWire, Live
  <1>. QED BY <1>1, <1>2, <1>3, <1>4, <1>5 DEF Basics

\* What is left on the wire keeps its order.
LEMMA ShiftAfter ==
  ASSUME IInv, NEW cmd, NEW answer \in {"ok", "empty", "error"}, Replies(cmd, answer)
  PROVE  /\ \A i \in 0 .. Len(wire) - 1 : \A c : UnmountAfter(i + 1, c) => UnmountAfter(i, c)'
         /\ \A c : UnmountAfter(0, c) =>
              UnmountAfter(0, c)' \/ (cmd.op = "unmount" /\ c \in cmd.of)
         /\ \A i \in 0 .. Len(wire) - 1 : NoSubscribeAfter(i + 1) => NoSubscribeAfter(i)'
         /\ NoSubscribeAfter(0) => NoSubscribeAfter(0)' /\ cmd.op # "subscribe"
  <1>1. /\ Shifted /\ cmd = wire[1] /\ Len(wire) \in Nat \ {0} /\ DOMAIN wire = 1 .. Len(wire)
    BY RepliesTasks
  <1>2. /\ \A j \in DOMAIN wire : j > 1 => j - 1 \in DOMAIN wire' /\ wire'[j - 1] = wire[j]
        /\ \A j \in DOMAIN wire' : j + 1 \in DOMAIN wire /\ wire'[j] = wire[j + 1]
    BY <1>1 DEF Shifted
  <1>3. ASSUME NEW i \in 0 .. Len(wire) - 1, NEW c, UnmountAfter(i + 1, c)
        PROVE  UnmountAfter(i, c)'
    <2>1. PICK j \in DOMAIN wire : j > i + 1 /\ wire[j].op = "unmount" /\ c \in wire[j].of
      BY <1>3 DEF UnmountAfter
    <2>2. j - 1 \in DOMAIN wire' /\ j - 1 > i /\ wire'[j - 1] = wire[j]
      BY <1>1, <1>2, <2>1
    <2>. QED BY <2>1, <2>2 DEF UnmountAfter
  <1>4. ASSUME NEW c, UnmountAfter(0, c), ~(cmd.op = "unmount" /\ c \in cmd.of)
        PROVE  UnmountAfter(0, c)'
    <2>1. PICK j \in DOMAIN wire : j > 0 /\ wire[j].op = "unmount" /\ c \in wire[j].of
      BY <1>4 DEF UnmountAfter
    <2>2. j # 1
      BY <1>1, <1>4, <2>1
    <2>3. j - 1 \in DOMAIN wire' /\ j - 1 > 0 /\ wire'[j - 1] = wire[j]
      BY <1>1, <1>2, <2>1, <2>2
    <2>. QED BY <2>1, <2>3 DEF UnmountAfter
  <1>5. ASSUME NEW i \in 0 .. Len(wire) - 1, NoSubscribeAfter(i + 1)
        PROVE  NoSubscribeAfter(i)'
    <2>1. ASSUME NEW j \in DOMAIN wire', j > i PROVE wire'[j].op # "subscribe"
      <3>1. j + 1 \in DOMAIN wire /\ wire'[j] = wire[j + 1] /\ j + 1 > i + 1
        BY <1>1, <1>2, <2>1 DEF Shifted
      <3>. QED BY <1>5, <3>1 DEF NoSubscribeAfter
    <2>. QED BY <2>1 DEF NoSubscribeAfter
  <1>6. ASSUME NoSubscribeAfter(0)
        PROVE  NoSubscribeAfter(0)' /\ cmd.op # "subscribe"
    <2>1. cmd.op # "subscribe"
      BY <1>1, <1>6 DEF NoSubscribeAfter
    <2>2. NoSubscribeAfter(0 + 1)
      BY <1>1, <1>6 DEF NoSubscribeAfter
    <2>3. 0 \in 0 .. Len(wire) - 1
      BY <1>1
    <2>. QED BY <1>5, <2>1, <2>2, <2>3
  <1>. QED BY <1>3, <1>4, <1>5, <1>6

LEMMA RepliesCovered ==
  ASSUME IInv, NEW cmd, NEW answer \in {"ok", "empty", "error"}, Replies(cmd, answer),
         \/ streams' = Effect(cmd) /\ failed' = failed
         \/ streams' = streams /\ failed' = failed \cup {cmd}
  PROVE  Covered'
  <1>1. /\ DOMAIN wire = 1 .. Len(wire) /\ Len(wire) \in Nat \ {0} /\ cmd = wire[1] /\ Shifted
    BY RepliesTasks
  <1>2. ASSUME NEW c \in Counters, c \notin books, ~Lost(c)'
        PROVE  /\ c \in streams' => UnmountAfter(0, c)'
               /\ \A i \in DOMAIN wire' :
                    wire'[i].op = "subscribe" /\ c \in wire'[i].of => UnmountAfter(i, c)'
    <2>1. ~Lost(c)
      BY <1>2 DEF Lost
    <2>2. /\ c \in streams => UnmountAfter(0, c)
          /\ \A i \in DOMAIN wire :
               wire[i].op = "subscribe" /\ c \in wire[i].of => UnmountAfter(i, c)
      BY <1>2, <2>1 DEF IInv, Covered
    <2>3. ASSUME NEW i \in DOMAIN wire', wire'[i].op = "subscribe", c \in wire'[i].of
          PROVE  UnmountAfter(i, c)'
      <3>1. i \in 0 .. Len(wire) - 1 /\ i + 1 \in DOMAIN wire /\ wire'[i] = wire[i + 1]
        BY <1>1 DEF Shifted
      <3>. QED BY <2>2, <2>3, <3>1, ShiftAfter
    <2>4. ASSUME c \in streams'
          PROVE  UnmountAfter(0, c)'
      <3>1. CASE cmd.op = "subscribe" /\ c \in cmd.of
        <4>1. UnmountAfter(0 + 1, c) /\ 0 \in 0 .. Len(wire) - 1
          BY <1>1, <2>2, <3>1
        <4>. QED BY <4>1, ShiftAfter
      <3>2. CASE ~(cmd.op = "subscribe" /\ c \in cmd.of)
        <4>1. CASE streams' = Effect(cmd)
          <5>1. c \in streams /\ ~(cmd.op = "unmount" /\ c \in cmd.of)
            BY <2>4, <3>2, <4>1 DEF Effect
          <5>. QED BY <2>2, <5>1, ShiftAfter
        <4>2. CASE streams' = streams /\ failed' = failed \cup {cmd}
          <5>1. c \in streams /\ ~(cmd.op = "unmount" /\ c \in cmd.of)
            BY <1>2, <2>4, <4>2 DEF Lost
          <5>. QED BY <2>2, <5>1, ShiftAfter
        <4>. QED BY <4>1, <4>2
      <3>. QED BY <3>1, <3>2
    <2>. QED BY <2>3, <2>4
  <1>. QED BY <1>2 DEF Replies, Covered

LEMMA RepliesReleasing ==
  ASSUME IInv, NEW cmd, NEW answer \in {"ok", "empty", "error"}, Replies(cmd, answer),
         \/ streams' = Effect(cmd)
         \/ streams' = streams /\ answer = "error"
  PROVE  Releasing'
  <1>1. /\ DOMAIN wire = 1 .. Len(wire) /\ Len(wire) \in Nat \ {0} /\ 1 \in DOMAIN wire
        /\ cmd = wire[1] /\ Shifted /\ books' = books /\ generation' = generation
    BY RepliesTasks DEF Replies
  <1>2. ASSUME NEW h \in 1 .. generation, task'[h].stage = "release"
        PROVE  /\ task'[h].answer = None => \E k \in DOMAIN wire' : ReleaseAt(h, k)'
               /\ task'[h].answer = "ok" =>
                    NoSubscribeAfter(0)' /\ streams' \cap books' \subseteq Mine(h)'
    <2>1. /\ task[h].stage = "release" /\ Live(h) /\ Mine(h)' = Mine(h) /\ h # None
          /\ h \in Refreshes
      BY <1>2, RepliesTasks, NothingIsNone DEF Live, Ends, Mine
    <2>2. /\ task[h].answer = None => \E k \in DOMAIN wire : ReleaseAt(h, k)
          /\ task[h].answer = "ok" => NoSubscribeAfter(0) /\ streams \cap books \subseteq Mine(h)
      BY <2>1 DEF IInv, Releasing
    <2>3. CASE h # cmd.by
      <3>1. task'[h] = task[h]
        BY <2>1, <2>3, RepliesTasks
      <3>2. ASSUME task[h].answer = None
            PROVE  \E k \in DOMAIN wire' : ReleaseAt(h, k)'
        <4>1. PICK k \in DOMAIN wire : ReleaseAt(h, k)
          BY <2>2, <3>2
        <4>2. PICK i \in 0 .. Len(wire) - 1 : k = i + 1
          BY <1>1
        <4>3. i # 0
          BY <1>1, <2>3, <4>1, <4>2 DEF ReleaseAt
        <4>4. i \in DOMAIN wire' /\ wire'[i] = wire[k]
          BY <1>1, <4>2, <4>3 DEF Shifted
        <4>5. NoSubscribeAfter(i)'
          BY <4>1, <4>2, ShiftAfter DEF ReleaseAt
        <4>6. ReleaseAt(h, i)'
          BY <1>1, <2>1, <4>1, <4>4, <4>5 DEF ReleaseAt
        <4>. QED BY <4>4, <4>6
      <3>3. ASSUME task[h].answer = "ok"
            PROVE  NoSubscribeAfter(0)' /\ streams' \cap books' \subseteq Mine(h)'
        <4>1. NoSubscribeAfter(0)' /\ cmd.op # "subscribe"
          BY <2>2, <3>3, ShiftAfter
        <4>2. streams' \subseteq streams
          BY <4>1 DEF Effect
        <4>. QED BY <1>1, <2>1, <2>2, <3>3, <4>1, <4>2
      <3>. QED BY <3>1, <3>2, <3>3
    <2>4. CASE h = cmd.by
      <3>1. task[h].answer = None /\ cmd.op = "release"
        BY <1>1, <2>1, <2>4 DEF IInv, AwaitedIsOnTheWire
      <3>2. task'[h].answer = answer
        BY <2>1, <2>4, RepliesTasks
      <3>3. PICK k \in DOMAIN wire : ReleaseAt(h, k)
        BY <2>2, <3>1
      <3>4. k = 1
        BY <1>1, <2>1, <2>4, <3>3 DEF ReleaseAt, IInv, AwaitedIsOnTheWire
      <3>5. books \ Mine(h) \subseteq cmd.of /\ NoSubscribeAfter(0 + 1) /\ 0 \in 0 .. Len(wire) - 1
        BY <1>1, <3>3, <3>4 DEF ReleaseAt
      <3>6. NoSubscribeAfter(0)'
        BY <3>5, ShiftAfter
      <3>7. answer = "ok" => streams' \cap books' \subseteq Mine(h)'
        BY <1>1, <2>1, <3>1, <3>5 DEF Effect
      <3>. QED BY <3>2, <3>6, <3>7, NothingIsNone
    <2>. QED BY <2>3, <2>4
  <1>. QED BY <1>1, <1>2 DEF Releasing

LEMMA ServeKeeps ==
  ASSUME IInv, Serve
  PROVE  IInv'
  <1>. DEFINE cmd == Head(wire)
              none == cmd.op \in {"quote", "correction"} /\ cmd.of \subseteq Missing
              answer == IF none THEN "empty" ELSE "ok"
  <1>1. /\ answer \in {"ok", "empty", "error"} /\ streams' = Effect(cmd) /\ failed' = failed
        /\ answer = "empty" => cmd.op \in {"quote", "correction"} /\ cmd.of \subseteq Missing
    BY DEF Serve
  <1>2. Replies(cmd, answer)
    BY DEF Serve, Replies, page
  <1>. HIDE DEF cmd, answer
  <1>3. streams' \subseteq Counters /\ failed' \subseteq Commands
    <2>1. cmd \in Commands
      BY <1>1, <1>2, RepliesTasks
    <2>. QED BY <1>1, <2>1 DEF Effect, Commands, IInv, TypeOK
  <1>4. Basics' /\ AwaitedIsOnTheWire'
    BY <1>1, <1>2, <1>3, RepliesBasics
  <1>5. Covered' /\ Releasing'
    BY <1>1, <1>2, RepliesCovered, RepliesReleasing
  <1>. QED BY <1>4, <1>5 DEF IInv, Basics

LEMMA FailKeeps ==
  ASSUME IInv, Fail
  PROVE  IInv'
  <1>. DEFINE cmd == Head(wire)
  <1>1. Replies(cmd, "error") /\ streams' = streams /\ failed' = failed \cup {cmd}
    BY DEF Fail, Replies, page
  <1>. HIDE DEF cmd
  <1>2. cmd \in Commands
    BY <1>1, RepliesTasks
  <1>3. streams' \subseteq Counters /\ failed' \subseteq Commands
    BY <1>1, <1>2 DEF IInv, TypeOK
  <1>4. Basics' /\ AwaitedIsOnTheWire'
    BY <1>1, <1>3, RepliesBasics
  <1>5. Covered' /\ Releasing'
    BY <1>1, RepliesCovered, RepliesReleasing
  <1>. QED BY <1>4, <1>5 DEF IInv, Basics

----------------------------------------------------------------------------
(* Every step preserves the invariant.                                     *)

LEMMA InitIInv ==
  ASSUME Init
  PROVE  IInv
  <1>1. TypeOK
    <2>1. Rows \subseteq Counters
      BY StockPageAssumption, ElementOfSeq, LenProperties DEF Rows
    <2>2. /\ open \in BOOLEAN /\ not_found \in BOOLEAN /\ count \in BOOLEAN /\ dirty \in BOOLEAN
      BY DEF Init
    <2>3. /\ leaves \in 0 .. MaxLeaves /\ unmounts \in 0 .. MaxLeaves
          /\ generation \in 0 .. MaxRefreshes /\ handle \in 0 .. MaxRefreshes
      BY StockPageAssumption DEF Init
    <2>4. task \in [Refreshes -> Tasks \cup {None}]
      BY DEF Init
    <2>5. wire \in Seq(Commands)
      BY EmptySeq DEF Init
    <2>6. /\ shown \in Counters \cup {None} /\ settled \in Counters \cup {None}
          /\ books \subseteq Counters /\ quoted \subseteq Counters /\ charts \subseteq Counters
          /\ inflight \subseteq Counters /\ streams \subseteq Counters /\ failed \subseteq Commands
      BY <2>1, StockPageAssumption DEF Init
    <2>. QED BY <2>2, <2>3, <2>4, <2>5, <2>6 DEF TypeOK
  <1>2. TasksExist
    BY StockPageAssumption DEF Init, TasksExist, Free, Refreshes
  <1>3. /\ ShownIsNewest /\ EmptyIsMissing /\ NotFoundIsTheStocks /\ AwaitedIsOnTheWire
        /\ Covered /\ Releasing
    BY EmptySeq
    DEF Init, ShownIsNewest, EmptyIsMissing, NotFoundIsTheStocks, AwaitedIsOnTheWire, Covered,
        Releasing
  <1>. QED BY <1>1, <1>2, <1>3 DEF IInv

LEMMA NextKeeps ==
  ASSUME IInv, [Next]_vars
  PROVE  IInv'
  <1>1. CASE UNCHANGED vars
    <2>1. UNCHANGED <<open, shown, leaves, generation, handle, task, unmounts, settled, not_found,
                      count, dirty, books, quoted, charts, inflight, wire, streams, failed>>
      BY <1>1 DEF vars, page, stores, server
    <2>2. TypeOK' /\ unmounts' <= unmounts
      BY <2>1 DEF IInv, TypeOK
    <2>. QED BY <2>1, <2>2, BasicsStay, WireStays DEF IInv, Basics
  <1>2. ASSUME NEW c \in Counters, Open(c) \/ Select(c) PROVE IInv'
    BY <1>2, OpenKeeps, SelectKeeps
  <1>3. ASSUME NEW g \in Refreshes, Step(g) PROVE IInv'
    BY <1>3, StepKeepsIInv
  <1>4. CASE Leave \/ ToggleLayout \/ Supersede \/ Frame \/ Push
    BY <1>4, LeaveKeeps, ToggleLayoutKeeps, SupersedeKeeps, FrameKeeps, PushKeeps
  <1>5. CASE Unmount \/ Serve \/ Fail
    BY <1>5, UnmountKeeps, ServeKeeps, FailKeeps
  <1>. QED BY <1>1, <1>2, <1>3, <1>4, <1>5 DEF Next

LEMMA Inductive == Spec => []IInv
  BY InitIInv, NextKeeps, PTL DEF Spec

----------------------------------------------------------------------------
(* What the newest refresh has made of the stream.                         *)

Newest == task[generation]
Stock == Newest.counter

\* The newest refresh is not dropped, and what it asked for it still awaits.
NewestLives ==
  generation > 0 =>
    /\ Newest.stage \notin {"aborted", "gone"}
    /\ \A i \in DOMAIN wire : wire[i].by = generation => Newest.stage \notin Ends

Effective(i) == wire[i].op \in {"subscribe", "release", "unmount"}
Late == {"correction", "static", "release"} \cup Ready

\* What an earlier refresh or an unmount still has on the wire is served before
\* the newest refresh gets its own answer, and so before it subscribes.
OthersFirst ==
  \A i \in DOMAIN wire : Effective(i) /\ wire[i].by # generation =>
    Newest.stage \notin Late /\ \E k \in DOMAIN wire : k > i /\ wire[k].by = generation

\* The newest refresh subscribes its stock and gives back others.
OwnCommands ==
  \A i \in DOMAIN wire : wire[i].by = generation =>
    /\ wire[i].op = "subscribe" => Stock \in wire[i].of
    /\ wire[i].op = "release" => Stock \notin wire[i].of

\* Nothing it asked for was refused.
Granted == Newest.answer \in {None, "ok"}
           \/ (Newest.answer = "empty" /\ Newest.stage \in {"quote", "correction"})

IsBooked == Newest.stage \in {"subscribe"} \cup Late => Stock \in books
IsStreamed == Newest.stage \in Late \/ (Newest.stage = "subscribe" /\ Newest.answer # None) =>
                Stock \in streams
IsAlone == Newest.stage \in Ready => books = {Stock} /\ streams = {Stock}

\* All this of a page on screen, past the debounce, while nothing has failed.
Mounted == open /\ failed = {} /\ Newest.stage # "debounce"
Mounting ==
  Mounted => /\ unmounts = 0 /\ OthersFirst /\ OwnCommands
             /\ Granted /\ IsBooked /\ IsStreamed /\ IsAlone

\* Where a step takes a task that is the newest.
Early == {"quote", "chart", "trades"}
Middle == {"subscribe", "correction", "static"}
Advance(s, t, g) ==
  \/ s = "debounce" /\ t \in Early /\ unmounts = 0
  \/ s \in Early /\ t \in Early \cup {"stopped"}
  \/ s = "trades" /\ t = "subscribe"
  \/ s \in Middle /\ t \in {"correction", "static", "release"}
  \/ s \in Middle /\ t \in {"rest", "done"} /\ books \subseteq Mine(g)
  \/ s = "release" /\ t \in {"rest", "done"} /\ books' = Forgotten(g)
  \/ s \in Ready /\ t \in Ready
Advances(g) == Advance(task[g].stage, task'[g].stage, g)

LEMMA StageAfter ==
  ASSUME TypeOK, NEW g \in Refreshes, task[g] \in Tasks, NEW r \in Tasks, NEW stage
  PROVE  /\ Await(g, r, stage) => task'[g].stage = stage
         /\ \A op, of : Call(g, r, op, of) => task'[g].stage = op
         /\ End(g, stage) => task'[g].stage = stage
  <1>. DEFINE q(s) == [r EXCEPT !.stage = s, !.answer = None]
              e == [task[g] EXCEPT !.stage = stage, !.answer = None, !.mark = None, !.ahead = <<>>]
  <1>1. e.stage = stage /\ \A s : q(s).stage = s
    BY DEF Tasks
  <1>2. /\ \A s : Await(g, r, s) => task' = [task EXCEPT ![g] = q(s)]
        /\ End(g, stage) => task' = [task EXCEPT ![g] = e]
    BY DEF Await, End, TypeOK
  <1>. HIDE DEF q, e
  <1>3. /\ \A s : Await(g, r, s) => task'[g].stage = s
        /\ End(g, stage) => task'[g].stage = stage
    BY <1>1, <1>2 DEF TypeOK
  <1>. QED BY <1>3 DEF Call

LEMMA StageAfterChart ==
  ASSUME TypeOK, NEW g \in Refreshes, task[g] \in Tasks, NEW r \in Tasks, ToChart(g, r)
  PROVE  task'[g].stage \in {"chart", "trades"}
  <1>. DEFINE r1 == [r EXCEPT !.count = count, !.mark = r.counter]
              r2 == [r EXCEPT !.count = count]
  <1>1. r1 \in Tasks /\ r2 \in Tasks
    BY DEF Tasks, TypeOK
  <1>2. Call(g, r1, "chart", {r.counter}) \/ Call(g, r2, "trades", {r.counter})
    BY DEF ToChart
  <1>. HIDE DEF r1, r2
  <1>. QED BY <1>1, <1>2, StageAfter

LEMMA StageAfterStatic ==
  ASSUME TypeOK, NEW g \in Refreshes, task[g] \in Tasks, is_current(g),
         ToStatic(g) \/ ToRelease(g, task[g])
  PROVE  \/ task'[g].stage \in {"static", "release"}
         \/ task'[g].stage \in {"rest", "done"} /\ books \subseteq Mine(g)
  <1>1. CASE Call(g, task[g], "static", Mine(g))
    BY <1>1, StageAfter
  <1>2. CASE ToRelease(g, task[g])
    <2>1. CASE books \ Mine(g) # {}
      BY <1>2, <2>1, StageAfter DEF ToRelease, Mine
    <2>2. CASE books \ Mine(g) = {}
      <3>1. Await(g, task[g], "rest") \/ End(g, "done")
        BY <1>2, <2>2 DEF ToRelease, ToRest, Mine
      <3>. QED BY <2>2, <3>1, StageAfter
    <2>. QED BY <2>1, <2>2
  <1>. QED BY <1>1, <1>2 DEF ToStatic

LEMMA StageAfterOnward ==
  ASSUME TypeOK, NEW g \in Refreshes, task[g] \in Tasks, NEW r \in Tasks,
         r.ahead # <<>>, Onward(g, r) \/ AheadTrades(g, r)
  PROVE  task'[g].stage \in Ready
  <1>. DEFINE q == [r EXCEPT !.ahead = Tail(r.ahead)]
  <1>1. q \in Tasks
    <2>1. Tail(r.ahead) \in Seq(Counters)
      BY TailAt DEF Tasks
    <2>. QED BY <2>1 DEF Tasks
  <1>2. \/ Call(g, r, "ahead_trades", {Head(r.ahead)})
        \/ End(g, "done") \/ Await(g, q, "rest")
    BY DEF Onward, AheadTrades
  <1>. HIDE DEF q
  <1>. QED BY <1>1, <1>2, StageAfter DEF Ready

LEMMA StageAfterAhead ==
  ASSUME TypeOK, NEW g \in Refreshes, task[g] \in Tasks, NEW r \in Tasks, ReadAhead(g, r)
  PROVE  task'[g].stage \in Ready
  <1>1. CASE ~is_current(g) \/ r.ahead = <<>>
    BY <1>1, StageAfter DEF ReadAhead, Ready
  <1>2. CASE is_current(g) /\ r.ahead # <<>>
    <2>. DEFINE q == [r EXCEPT !.mark = Head(r.ahead)]
    <2>1. q \in Tasks
      <3>1. Head(r.ahead) \in Counters
        BY <1>2, TailAt DEF Tasks
      <3>. QED BY <3>1 DEF Tasks
    <2>2. Call(g, q, "ahead_chart", {Head(r.ahead)}) \/ AheadTrades(g, r)
      BY <1>2 DEF ReadAhead
    <2>. HIDE DEF q
    <2>. QED BY <1>2, <2>1, <2>2, StageAfter, StageAfterOnward DEF Ready
  <1>. QED BY <1>1, <1>2

LEMMA StepAdvances ==
  ASSUME IInv, NEW g \in Refreshes, is_current(g), NewestLives, Step(g)
  PROVE  Advances(g) /\ Live(g)
  <1>1. /\ TypeOK /\ task[g] # None /\ task[g].stage # "aborted"
        /\ g > 0
    BY StockPageAssumption
    DEF IInv, Step, Settle, GotQuote, GotChart, GotTrades, Subscribed, GotCorrection, GotStatic,
        Released, Rested, GotAheadChart, GotAheadTrades, Drop, Answered, NewestLives, Newest,
        is_current, Refreshes
  <1>2. task[g] \in Tasks /\ task[g].counter \in Counters
    BY <1>1, KnownTask
  <1>3. CASE Settle(g)
    <2>. DEFINE has_snapshot == task[g].counter \in quoted
                r == [task[g] EXCEPT !.snapshot = has_snapshot]
    <2>1. r \in Tasks
      <3>1. has_snapshot \in BOOLEAN
        OBVIOUS
      <3>. HIDE DEF has_snapshot
      <3>. QED BY <1>2, <3>1 DEF Tasks
    <2>2. /\ ToChart(g, r) \/ Call(g, r, "quote", {r.counter})
          /\ task[g].stage = "debounce" /\ unmounts = 0
      BY <1>3 DEF Settle, Prompt
    <2>. HIDE DEF r
    <2>3. task'[g].stage \in Early
      BY <1>1, <1>2, <2>1, <2>2, StageAfter, StageAfterChart DEF Early
    <2>. QED BY <2>2, <2>3 DEF Advances, Advance, Live, Ends
  <1>4. CASE GotQuote(g)
    <2>1. task[g].stage = "quote" /\ (ToChart(g, task[g]) \/ End(g, "stopped"))
      BY <1>4 DEF GotQuote, Answered
    <2>. QED BY <1>1, <1>2, <2>1, StageAfter, StageAfterChart DEF Advances, Advance, Early, Live, Ends
  <1>5. CASE GotChart(g)
    <2>. DEFINE r == [task[g] EXCEPT !.mark = None]
    <2>1. r \in Tasks
      BY <1>2 DEF Tasks
    <2>2. task[g].stage = "chart" /\ Call(g, r, "trades", Mine(g))
      BY <1>5 DEF GotChart, Answered
    <2>. HIDE DEF r
    <2>. QED BY <1>1, <1>2, <2>1, <2>2, StageAfter DEF Advances, Advance, Early, Live, Ends
  <1>6. CASE GotTrades(g)
    <2>1. task[g].stage = "trades" /\ Call(g, task[g], "subscribe", Mine(g))
      BY <1>6 DEF GotTrades, Answered
    <2>. QED BY <1>1, <1>2, <2>1, StageAfter DEF Advances, Advance, Live, Ends
  <1>7. CASE Subscribed(g)
    <2>1. /\ task[g].stage = "subscribe"
          /\ Call(g, task[g], "correction", Mine(g)) \/ ToStatic(g)
      BY <1>7 DEF Subscribed, Answered
    <2>. QED BY <1>1, <1>2, <2>1, StageAfter, StageAfterStatic
         DEF Advances, Advance, Middle, Live, Ends
  <1>8. CASE GotCorrection(g) \/ GotStatic(g)
    <2>1. /\ task[g].stage \in {"correction", "static"}
          /\ ToStatic(g) \/ ToRelease(g, task[g])
      BY <1>8 DEF GotCorrection, GotStatic, Answered
    <2>. QED BY <1>1, <1>2, <2>1, StageAfterStatic DEF Advances, Advance, Middle, Live, Ends
  <1>9. CASE Released(g)
    <2>1. /\ task[g].stage = "release" /\ books' = Forgotten(g)
          /\ Await(g, task[g], "rest") \/ End(g, "done")
      BY <1>9 DEF Released, Answered, ToRest
    <2>. QED BY <1>1, <1>2, <2>1, StageAfter DEF Advances, Advance, Live, Ends
  <1>10. CASE Rested(g)
    <2>. DEFINE r == [task[g] EXCEPT !.ahead = Neighbours(task[g].counter)]
    <2>1. r \in Tasks
      <3>1. Neighbours(task[g].counter) \in Seq(Counters)
        BY <1>2, NeighboursType
      <3>. QED BY <1>2, <3>1 DEF Tasks
    <2>2. task[g].stage = "rest" /\ (ReadAhead(g, r) \/ ReadAhead(g, task[g]))
      BY <1>10 DEF Rested
    <2>. HIDE DEF r
    <2>. QED BY <1>1, <1>2, <2>1, <2>2, StageAfterAhead DEF Advances, Advance, Ready, Live, Ends
  <1>11. CASE GotAheadChart(g)
    <2>. DEFINE r == [task[g] EXCEPT !.mark = None]
    <2>1. task[g].stage = "ahead_chart" /\ AheadTrades(g, r)
      BY <1>11 DEF GotAheadChart, Answered
    <2>2. r \in Tasks /\ r.ahead # <<>>
      <3>1. task[g].ahead # <<>>
        BY <1>1, <1>2, <2>1, KnownTask DEF IInv, TasksExist
      <3>. QED BY <1>2, <3>1 DEF Tasks
    <2>. HIDE DEF r
    <2>. QED BY <1>1, <1>2, <2>1, <2>2, StageAfterOnward DEF Advances, Advance, Ready, Live, Ends
  <1>12. CASE GotAheadTrades(g)
    <2>1. task[g].stage = "ahead_trades" /\ Onward(g, task[g])
      BY <1>12 DEF GotAheadTrades, Answered
    <2>2. task[g].ahead # <<>>
      BY <1>1, <1>2, <2>1, KnownTask DEF IInv, TasksExist
    <2>. QED BY <1>1, <1>2, <2>1, <2>2, StageAfterOnward DEF Advances, Advance, Ready, Live, Ends
  <1>13. CASE Drop(g)
    BY <1>1, <1>13 DEF Drop
  <1>. QED BY <1>3, <1>4, <1>5, <1>6, <1>7, <1>8, <1>9, <1>10, <1>11, <1>12, <1>13 DEF Step

MInv == IInv /\ NewestLives /\ Mounting

\* Once the newest refresh has been answered, nothing on the wire changes what is
\* streamed; and while no unmount is under way, what is streamed is booked.
LEMMA QuietWire ==
  ASSUME MInv, Mounted, \A i \in DOMAIN wire : wire[i].by # generation
  PROVE  (\A i \in DOMAIN wire : ~Effective(i)) /\ streams \subseteq books
  <1>1. \A i \in DOMAIN wire : ~Effective(i)
    BY DEF MInv, Mounting, OthersFirst
  <1>2. ASSUME NEW c \in streams, c \notin books PROVE FALSE
    <2>1. c \in Counters /\ ~Lost(c)
      BY DEF MInv, IInv, TypeOK, Mounted, Lost
    <2>2. UnmountAfter(0, c)
      BY <1>2, <2>1 DEF MInv, IInv, Covered
    <2>. QED BY <1>1, <2>2 DEF UnmountAfter, Effective
  <1>. QED BY <1>1, <1>2

\* Nothing that concerns the newest refresh happens.
LEMMA MountingAside ==
  ASSUME MInv, task'[generation] = Newest,
         UNCHANGED <<open, generation, unmounts, wire, books, streams, failed>>
  PROVE  NewestLives' /\ Mounting'
  <1>1. NewestLives'
    BY DEF MInv, NewestLives, Newest
  <1>2. Mounting'
    BY DEF MInv, Mounting, Mounted, OthersFirst, OwnCommands, Granted, IsBooked, IsStreamed,
           IsAlone, Effective, Newest, Stock
  <1>. QED BY <1>1, <1>2

\* A step of an older refresh's task.
LEMMA OtherMounting ==
  ASSUME MInv, NEW g \in Refreshes, Moves(g), g # generation
  PROVE  NewestLives' /\ Mounting'
  <1>1. PICK r \in Tasks : Quiet(g, r) \/ Strikes(g, r) \/ \E of \in SUBSET Counters : Calls(g, r, of)
    BY DEF Moves, Shape
  <1>2. Becomes(g, r) /\ (Quiet(g, r) \/ Strikes(g, r)) /\ wire' = wire
    BY <1>1 DEF Quiet, Strikes, Calls, is_current
  <1>3. /\ task'[generation] = Newest /\ g \in 1 .. generation
        /\ UNCHANGED <<open, generation, unmounts, streams, failed>>
    BY <1>2, StockPageAssumption DEF Becomes, Moves, Newest, MInv, IInv, TypeOK, Refreshes
  <1>4. CASE books' = books
    BY <1>2, <1>3, <1>4, MountingAside
  <1>5. CASE Strikes(g, r)
    <2>1. Newest.stage = "debounce"
      BY <1>3, <1>5 DEF Strikes, MInv, IInv, TasksExist, Live, Ends, Free, Newest
    <2>2. NewestLives'
      BY <1>2, <1>3, <2>1 DEF NewestLives, Newest, Ends
    <2>3. ~Mounted'
      BY <1>3, <2>1 DEF Mounted, Newest
    <2>. QED BY <2>2, <2>3 DEF Mounting
  <1>. QED BY <1>2, <1>4, <1>5 DEF Quiet

\* A step of the newest refresh's own task.
LEMMA OwnMounting ==
  ASSUME MInv, NEW g \in Refreshes, Moves(g), g = generation, Advances(g), Live(g)
  PROVE  NewestLives' /\ Mounting'
  <1>1. \A i \in DOMAIN wire : wire[i].by # g
    BY NothingOnTheWire DEF MInv
  <1>2. PICK r \in Tasks : Quiet(g, r) \/ Strikes(g, r) \/ \E of \in SUBSET Counters : Calls(g, r, of)
    BY DEF Moves, Shape
  <1>3. /\ Becomes(g, r) /\ Newest' = r /\ Stock' = Stock /\ r.answer = None
        /\ Mine(g) = {Stock} /\ Advance(Newest.stage, r.stage, g)
        /\ UNCHANGED <<open, generation, unmounts, streams, failed>>
    BY <1>2 DEF Quiet, Strikes, Calls, Becomes, Moves, Newest, Stock, Advances, Mine,
                MInv, IInv, TypeOK
  <1>. DEFINE n == Len(wire) + 1
  \* What it sends, if it sends.
  <1>4. \/ wire' = wire
        \/ /\ r.stage \in Requests /\ DOMAIN wire' = 1 .. n /\ wire'[n].by = g
           /\ wire'[n].op = r.stage
           /\ r.stage = "subscribe" => wire'[n].of = Mine(g)
           /\ r.stage = "release" => wire'[n].of = books \ Mine(g)
    <2>1. ASSUME NEW of \in SUBSET Counters, Calls(g, r, of)
          PROVE  /\ r.stage \in Requests /\ DOMAIN wire' = 1 .. n /\ wire'[n].by = g
                 /\ wire'[n].op = r.stage
                 /\ r.stage = "subscribe" => wire'[n].of = Mine(g)
                 /\ r.stage = "release" => wire'[n].of = books \ Mine(g)
      BY <2>1, CallIsCommand DEF MInv, IInv, Sent, Calls
    <2>. QED BY <1>2, <2>1 DEF Quiet, Strikes
  <1>5. /\ Len(wire) \in Nat /\ DOMAIN wire = 1 .. Len(wire)
        /\ \A i \in DOMAIN wire : i \in DOMAIN wire' /\ wire'[i] = wire[i]
        /\ \A i \in DOMAIN wire' : i \in DOMAIN wire \/ (i = n /\ wire' # wire)
    <2>1. Len(wire) \in Nat /\ DOMAIN wire = 1 .. Len(wire)
      BY WireType DEF MInv, IInv
    <2>2. ASSUME NEW of \in SUBSET Counters, Calls(g, r, of)
          PROVE  \A i \in DOMAIN wire : wire'[i] = wire[i]
      BY <2>1, <2>2, CallIsCommand DEF MInv, IInv, Sent
    <2>3. \A i \in DOMAIN wire : wire'[i] = wire[i]
      BY <1>2, <2>2 DEF Quiet, Strikes
    <2>4. \A i \in DOMAIN wire' : i \in DOMAIN wire \/ (i = n /\ wire' # wire)
      BY <1>4, <2>1
    <2>5. \A i \in DOMAIN wire : i \in DOMAIN wire'
      BY <1>4, <2>1
    <2>. QED BY <2>1, <2>3, <2>4, <2>5
  <1>. HIDE DEF n
  <1>6. NewestLives'
    <2>1. r.stage \notin {"aborted", "gone"}
      BY <1>3 DEF Advance, Early, Ready
    <2>2. ASSUME NEW i \in DOMAIN wire', wire'[i].by = g PROVE r.stage \notin Ends
      BY <1>1, <1>4, <1>5, <2>2 DEF Requests, Ends
    <2>. QED BY <1>3, <2>1, <2>2 DEF NewestLives
  <1>7. ASSUME Mounted', Newest.stage = "debounce"
        PROVE  /\ unmounts' = 0 /\ OthersFirst' /\ OwnCommands'
               /\ Granted' /\ IsBooked' /\ IsStreamed' /\ IsAlone'
    <2>1. r.stage \in Early /\ unmounts = 0
      BY <1>3, <1>7 DEF Advance, Early, Middle, Ready
    <2>2. wire' # wire
      <3>1. ~Quiet(g, r) /\ ~Strikes(g, r)
        BY <2>1 DEF Quiet, Strikes, Early
      <3>2. PICK of \in SUBSET Counters : Calls(g, r, of)
        BY <1>2, <3>1
      <3>3. DOMAIN wire' = 1 .. Len(wire) + 1
        BY <3>2, CallIsCommand DEF MInv, IInv, Sent
      <3>4. Len(wire) + 1 \in DOMAIN wire' /\ Len(wire) + 1 \notin DOMAIN wire
        BY <1>5, <3>3
      <3>. QED BY <3>4
    <2>3. n \in DOMAIN wire' /\ wire'[n].by = g /\ \A i \in DOMAIN wire : n > i
      BY <1>4, <1>5, <2>2 DEF n
    <2>4. r.stage \notin Late /\ r.stage \notin Requests \ Early /\ r.stage # "subscribe"
      BY <2>1 DEF Early, Late, Ready, Requests
    <2>5. OthersFirst'
      BY <1>3, <1>5, <2>3, <2>4 DEF OthersFirst, Effective
    <2>6. OwnCommands'
      BY <1>1, <1>3, <1>4, <1>5, <2>1 DEF OwnCommands, Early
    <2>7. Granted' /\ IsBooked' /\ IsStreamed' /\ IsAlone'
      BY <1>3, <2>4 DEF Granted, IsBooked, IsStreamed, IsAlone, Late
    <2>. QED BY <1>3, <2>1, <2>5, <2>6, <2>7
  <1>8. ASSUME Mounted', Newest.stage # "debounce"
        PROVE  /\ unmounts' = 0 /\ OthersFirst' /\ OwnCommands'
               /\ Granted' /\ IsBooked' /\ IsStreamed' /\ IsAlone'
    <2>1. /\ Mounted /\ unmounts = 0 /\ Granted /\ IsBooked /\ IsStreamed /\ IsAlone
      BY <1>3, <1>8 DEF Mounted, MInv, Mounting
    <2>2. (\A i \in DOMAIN wire : ~Effective(i)) /\ streams \subseteq books
      BY <1>1, <2>1, QuietWire
    <2>3. OthersFirst'
      BY <1>3, <1>4, <1>5, <2>2 DEF OthersFirst, Effective
    <2>4. OwnCommands'
      BY <1>1, <1>3, <1>4, <1>5 DEF OwnCommands
    <2>5. Granted'
      BY <1>3 DEF Granted
    \* Which books it keeps.
    <2>6. /\ r.stage = "subscribe" => books' = books \cup Mine(g)
          /\ r.stage \in Late /\ Newest.stage # "release" => books' = books
      BY <1>2 DEF Quiet, Strikes, Calls, Newest, Late, Ready
    <2>7. ASSUME Newest.stage = "release"
          PROVE  r.stage \in Ready /\ books' = {Stock} /\ streams = {Stock}
      <3>1. task[g].answer = "ok"
        BY <2>1, <2>7 DEF Moves, Granted, Newest, Ends
      <3>2. streams \cap books \subseteq Mine(g)
        BY <2>7, <3>1 DEF MInv, IInv, Releasing, Moves, Newest
      <3>3. r.stage \in {"rest", "done"} /\ books' = books \cap Mine(g)
        BY <1>3, <2>7, <3>1 DEF Advance, Early, Middle, Ready, Forgotten
      <3>4. Stock \in books /\ Stock \in streams
        BY <2>1, <2>7 DEF IsBooked, IsStreamed, Late
      <3>. QED BY <1>3, <2>2, <3>2, <3>3, <3>4 DEF Ready
    <2>8. ASSUME Newest.stage # "release", r.stage \in Ready
          PROVE  books' = {Stock} /\ streams = {Stock}
      <3>1. books' = books
        BY <2>6, <2>8 DEF Late
      <3>2. CASE Newest.stage \in Ready
        BY <2>1, <3>1, <3>2 DEF IsAlone
      <3>3. CASE Newest.stage \in Middle /\ books \subseteq Mine(g)
        <4>1. Newest.answer # None
          BY <3>3 DEF Moves, Newest, Middle, Ends
        <4>2. Stock \in books /\ Stock \in streams
          BY <2>1, <3>3, <4>1 DEF IsBooked, IsStreamed, Late, Middle
        <4>. QED BY <1>3, <2>2, <3>1, <3>3, <4>2
      <3>4. Newest.stage \in Ready \/ (Newest.stage \in Middle /\ books \subseteq Mine(g))
        BY <1>3, <2>8 DEF Advance, Early, Ready
      <3>. QED BY <3>2, <3>3, <3>4
    <2>9. ASSUME r.stage \in Late
          PROVE  Stock \in books' /\ Stock \in streams
      <3>1. CASE r.stage \in Ready
        BY <2>7, <2>8, <3>1
      <3>2. CASE r.stage \notin Ready
        <4>1. Newest.stage \in Middle
          BY <1>3, <2>9, <3>2 DEF Advance, Early, Late, Ready
        <4>2. Newest.answer # None /\ Newest.stage # "release"
          BY <4>1 DEF Moves, Newest, Middle, Ends
        <4>3. Stock \in books /\ Stock \in streams
          BY <2>1, <4>1, <4>2 DEF IsBooked, IsStreamed, Late, Middle
        <4>. QED BY <2>6, <2>9, <4>2, <4>3
      <3>. QED BY <3>1, <3>2
    <2>10. IsBooked'
      BY <1>3, <2>6, <2>9 DEF IsBooked
    <2>11. IsStreamed'
      BY <1>3, <2>9 DEF IsStreamed
    <2>12. IsAlone'
      BY <1>3, <2>7, <2>8 DEF IsAlone
    <2>. QED BY <1>3, <2>1, <2>3, <2>4, <2>5, <2>10, <2>11, <2>12
  <1>. QED BY <1>6, <1>7, <1>8 DEF Mounting

\* A command with no refresh behind it is sent: a frame's chart, or an unmount,
\* which finds nothing mounted.
LEMMA SentMounting ==
  ASSUME MInv, NEW cmd \in Commands, cmd.by = None, wire' = Append(wire, cmd),
         UNCHANGED <<open, generation, task, streams, failed>>,
         Mounted => UNCHANGED <<unmounts, books>> /\ cmd.op = "chart"
  PROVE  NewestLives' /\ Mounting'
  <1>. DEFINE n == Len(wire) + 1
  <1>1. /\ Len(wire) \in Nat /\ DOMAIN wire = 1 .. Len(wire) /\ DOMAIN wire' = 1 .. n
        /\ wire'[n] = cmd /\ \A i \in DOMAIN wire : wire'[i] = wire[i]
    BY SendAppends DEF MInv, IInv, Sent
  <1>2. \A i \in DOMAIN wire' : i \in DOMAIN wire \/ i = n
    BY <1>1
  <1>3. \A i \in DOMAIN wire : i \in DOMAIN wire'
    BY <1>1
  <1>. HIDE DEF n
  <1>4. generation > 0 => generation # None
    BY NothingIsNone, StockPageAssumption DEF MInv, IInv, TypeOK, Refreshes
  <1>5. NewestLives'
    BY <1>1, <1>2, <1>4 DEF MInv, NewestLives, Newest
  <1>6. ASSUME Mounted'
        PROVE  /\ unmounts' = 0 /\ OthersFirst' /\ OwnCommands'
               /\ Granted' /\ IsBooked' /\ IsStreamed' /\ IsAlone'
    <2>1. /\ Mounted /\ UNCHANGED <<unmounts, books>> /\ cmd.op = "chart" /\ generation > 0
      BY <1>6, StockPageAssumption DEF Mounted, Newest, MInv, IInv, ShownIsNewest, Refreshes
    <2>2. /\ unmounts = 0 /\ OthersFirst /\ OwnCommands
          /\ Granted /\ IsBooked /\ IsStreamed /\ IsAlone
      BY <2>1 DEF MInv, Mounting
    <2>3. OthersFirst'
      BY <1>1, <1>2, <1>3, <2>1, <2>2 DEF OthersFirst, Effective, Newest
    <2>4. OwnCommands'
      BY <1>1, <1>2, <1>4, <2>1, <2>2 DEF OwnCommands, Newest, Stock
    <2>. QED BY <2>1, <2>2, <2>3, <2>4 DEF Granted, IsBooked, IsStreamed, IsAlone, Newest, Stock
  <1>. QED BY <1>5, <1>6 DEF Mounting

\* The connection serves a command, and refuses none.
LEMMA ServeMounting ==
  ASSUME MInv, NEW cmd, NEW answer \in {"ok", "empty"}, Replies(cmd, answer),
         answer = "empty" => cmd.op \in {"quote", "correction"},
         streams' = Effect(cmd), failed' = failed
  PROVE  NewestLives' /\ Mounting'
  <1>1. /\ cmd \in Commands /\ cmd = wire[1] /\ Shifted /\ 1 \in DOMAIN wire
        /\ Len(wire) \in Nat \ {0} /\ DOMAIN wire = 1 .. Len(wire)
        /\ UNCHANGED <<open, generation, unmounts, books>>
    BY RepliesTasks DEF Replies, MInv
  <1>2. /\ \A j \in DOMAIN wire : j > 1 => j - 1 \in DOMAIN wire' /\ wire'[j - 1] = wire[j]
        /\ \A j \in DOMAIN wire' : j + 1 \in DOMAIN wire /\ wire'[j] = wire[j + 1] /\ j \in Nat
    BY <1>1 DEF Shifted
  <1>3. ASSUME generation > 0
        PROVE  /\ generation \in 1 .. generation /\ generation \in Refreshes
               /\ Newest'.stage = Newest.stage /\ Stock' = Stock
               /\ cmd.by # generation => Newest' = Newest
               /\ cmd.by = generation => Live(generation) /\ Newest'.answer = answer
    <2>1. generation \in 1 .. generation /\ generation \in Refreshes
      BY <1>3, StockPageAssumption DEF MInv, IInv, TypeOK, Refreshes
    <2>2. cmd.by = generation => Live(generation)
      BY <1>1, <1>3 DEF MInv, NewestLives, Newest, Live
    <2>. QED BY <1>1, <2>1, <2>2, RepliesTasks DEF MInv, Newest, Stock
  <1>4. NewestLives'
    BY <1>1, <1>2, <1>3 DEF MInv, NewestLives
  <1>5. ASSUME Mounted'
        PROVE  /\ unmounts' = 0 /\ OthersFirst' /\ OwnCommands'
               /\ Granted' /\ IsBooked' /\ IsStreamed' /\ IsAlone'
    <2>1. generation > 0
      BY <1>1, <1>5, StockPageAssumption DEF Mounted, MInv, IInv, ShownIsNewest, Refreshes
    <2>2. Mounted
      BY <1>1, <1>3, <1>5, <2>1 DEF Mounted
    <2>3. /\ unmounts = 0 /\ OthersFirst /\ OwnCommands
          /\ Granted /\ IsBooked /\ IsStreamed /\ IsAlone
      BY <2>2 DEF MInv, Mounting
    \* A command of the newest refresh is the one it awaits.
    <2>4. \A i \in DOMAIN wire : wire[i].by = generation =>
            Live(generation) /\ wire[i].op = Newest.stage /\ Newest.answer = None
      <3>1. generation # None
        BY <1>3, <2>1, NothingIsNone
      <3>. QED BY <2>1, <3>1 DEF MInv, NewestLives, Live, Newest, IInv, AwaitedIsOnTheWire
    <2>5. OthersFirst'
      <3>1. ASSUME NEW i \in DOMAIN wire', Effective(i)', wire'[i].by # generation
            PROVE  Newest.stage \notin Late /\ \E k \in DOMAIN wire' : k > i /\ wire'[k].by = generation
        <4>1. i + 1 \in DOMAIN wire /\ Effective(i + 1) /\ wire[i + 1].by # generation
          BY <1>2, <3>1 DEF Effective
        <4>2. Newest.stage \notin Late
          BY <2>3, <4>1 DEF OthersFirst
        <4>3. PICK k \in DOMAIN wire : k > i + 1 /\ wire[k].by = generation
          BY <2>3, <4>1 DEF OthersFirst
        <4>4. k - 1 \in DOMAIN wire' /\ k - 1 > i /\ wire'[k - 1] = wire[k]
          BY <1>1, <1>2, <3>1, <4>3
        <4>. QED BY <4>2, <4>3, <4>4
      <3>. QED BY <1>1, <1>3, <2>1, <3>1 DEF OthersFirst
    <2>6. OwnCommands'
      BY <1>1, <1>2, <1>3, <2>1, <2>3 DEF OwnCommands
    <2>7. Granted'
      <3>1. CASE cmd.by = generation
        BY <1>1, <1>3, <2>1, <2>4, <3>1 DEF Granted
      <3>2. CASE cmd.by # generation
        BY <1>3, <2>1, <2>3, <3>2 DEF Granted
      <3>. QED BY <3>1, <3>2
    <2>8. IsBooked'
      BY <1>1, <1>3, <2>1, <2>3 DEF IsBooked
    \* What is served leaves the stock alone once it is streamed, ...
    <2>9. ASSUME Newest.stage \in Late
          PROVE  Stock \in streams'
      <3>1. Stock \in streams
        BY <2>3, <2>9 DEF IsStreamed
      <3>2. CASE cmd.op \in {"release", "unmount"}
        <4>1. cmd.by = generation
          BY <1>1, <2>3, <2>9, <3>2 DEF OthersFirst, Effective
        <4>2. cmd.op = "release"
          BY <1>1, <2>4, <2>9, <3>2, <4>1 DEF Late, Ready
        <4>3. Stock \notin cmd.of
          BY <1>1, <2>3, <4>1, <4>2 DEF OwnCommands
        <4>. QED BY <3>1, <4>2, <4>3 DEF Effect
      <3>3. CASE cmd.op \notin {"release", "unmount"}
        BY <3>1, <3>3 DEF Effect
      <3>. QED BY <3>2, <3>3
    \* ... and before that only its own subscription counts.
    <2>10. ASSUME Newest.stage = "subscribe", Newest'.answer # None
           PROVE  Stock \in streams'
      <3>1. CASE cmd.by = generation
        <4>1. cmd.op = "subscribe"
          BY <1>1, <2>4, <2>10, <3>1
        <4>2. Stock \in cmd.of
          BY <1>1, <2>3, <3>1, <4>1 DEF OwnCommands
        <4>. QED BY <4>1, <4>2 DEF Effect
      <3>2. CASE cmd.by # generation
        <4>1. Newest.answer # None
          BY <1>3, <2>1, <2>10, <3>2
        <4>2. ~Effective(1)
          BY <1>1, <2>3, <2>4, <3>2, <4>1 DEF OthersFirst
        <4>3. streams' = streams
          BY <1>1, <4>2 DEF Effective, Effect
        <4>. QED BY <2>3, <2>10, <4>1, <4>3 DEF IsStreamed
      <3>. QED BY <3>1, <3>2
    <2>11. IsStreamed'
      BY <1>3, <2>1, <2>9, <2>10 DEF IsStreamed
    <2>12. IsAlone'
      <3>1. ASSUME Newest.stage \in Ready PROVE streams' = streams
        <4>1. ~Effective(1)
          BY <1>1, <2>3, <2>4, <3>1 DEF OthersFirst, Effective, Late, Ready
        <4>. QED BY <1>1, <4>1 DEF Effective, Effect
      <3>. QED BY <1>1, <1>3, <2>1, <2>3, <3>1 DEF IsAlone
    <2>. QED BY <1>1, <2>3, <2>5, <2>6, <2>7, <2>8, <2>11, <2>12
  <1>. QED BY <1>4, <1>5 DEF Mounting

\* A new refresh begins: it waits out its debounce.
LEMMA RefreshMounting ==
  ASSUME MInv, NEW c, Refresh(c)
  PROVE  NewestLives' /\ Mounting'
  <1>1. Newest'.stage = "debounce"
    BY StockPageAssumption DEF Refresh, Newest, MInv, IInv, TypeOK, Refreshes
  <1>. QED BY <1>1 DEF NewestLives, Mounting, Mounted, Ends

LEMMA NextMounting ==
  ASSUME MInv, [Next]_vars
  PROVE  MInv'
  <1>1. IInv'
    BY NextKeeps DEF MInv
  <1>2. NewestLives' /\ Mounting'
    <2>1. ASSUME NEW g \in Refreshes, Step(g) PROVE NewestLives' /\ Mounting'
      <3>1. Moves(g)
        BY <2>1, StepMoves DEF MInv
      <3>2. g = generation => Advances(g) /\ Live(g)
        BY <2>1, StepAdvances DEF MInv, is_current
      <3>. QED BY <3>1, <3>2, OwnMounting, OtherMounting
    <2>2. ASSUME NEW c \in Counters, Open(c) \/ Select(c) PROVE NewestLives' /\ Mounting'
      BY <2>2, RefreshMounting DEF Open, Select
    <2>3. CASE ToggleLayout
      BY <2>3, RefreshMounting DEF ToggleLayout
    <2>4. CASE Leave
      BY <2>4 DEF Leave, server, MInv, NewestLives, Newest, Mounting, Mounted
    <2>5. CASE Supersede
      <3>1. task'[generation] = Newest
        BY <2>5 DEF Supersede, Free, Newest, MInv, IInv, TypeOK
      <3>. QED BY <2>5, <3>1, MountingAside DEF Supersede, page, server
    <2>6. CASE Push \/ UNCHANGED vars
      BY <2>6, MountingAside DEF Push, vars, page, server, Newest
    <2>7. CASE Frame
      <3>1. CASE wire' = wire
        BY <2>7, <3>1, MountingAside DEF Frame, page, Newest
      <3>2. CASE Send("chart", {shown}, None)
        <4>1. [op |-> "chart", of |-> {shown}, by |-> None] \in Commands
          BY <2>7, FrameShows DEF MInv, Commands, Requests
        <4>. QED BY <2>7, <3>2, <4>1, SentMounting DEF Frame, Send, page
      <3>. QED BY <2>7, <3>1, <3>2 DEF Frame
    <2>8. CASE Unmount
      <3>1. ~Mounted
        BY <2>8 DEF Unmount, MInv, Mounting
      <3>2. CASE wire' = wire
        BY <2>8, <3>1, <3>2 DEF Unmount, page, MInv, NewestLives, Newest, Mounting, Mounted
      <3>3. CASE Send("unmount", books, None)
        <4>1. [op |-> "unmount", of |-> books, by |-> None] \in Commands
          BY DEF MInv, IInv, TypeOK, Commands
        <4>. QED BY <2>8, <3>1, <3>3, <4>1, SentMounting DEF Unmount, Send, page
      <3>. QED BY <2>8, <3>2, <3>3 DEF Unmount
    <2>9. CASE Serve
      <3>. DEFINE cmd == Head(wire)
                  none == cmd.op \in {"quote", "correction"} /\ cmd.of \subseteq Missing
                  answer == IF none THEN "empty" ELSE "ok"
      <3>1. /\ answer \in {"ok", "empty"} /\ streams' = Effect(cmd) /\ failed' = failed
            /\ answer = "empty" => cmd.op \in {"quote", "correction"}
        BY <2>9 DEF Serve
      <3>2. Replies(cmd, answer)
        BY <2>9 DEF Serve, Replies, page
      <3>. HIDE DEF cmd, answer
      <3>. QED BY <3>1, <3>2, ServeMounting
    <2>10. CASE Fail
      <3>. DEFINE cmd == Head(wire)
      <3>1. Replies(cmd, "error") /\ failed' # {}
        BY <2>10 DEF Fail, Replies, page
      <3>. HIDE DEF cmd
      <3>2. /\ generation' = generation
            /\ \A i \in DOMAIN wire' : i + 1 \in DOMAIN wire /\ wire'[i] = wire[i + 1]
        BY <3>1, RepliesTasks DEF MInv, Shifted, Replies
      <3>3. generation > 0 => Newest'.stage = Newest.stage
        <4>1. generation > 0 => generation \in 1 .. generation
          BY DEF MInv, IInv, TypeOK
        <4>. QED BY <3>1, <3>2, <4>1, RepliesTasks DEF MInv, Newest
      <3>. QED BY <3>1, <3>2, <3>3 DEF MInv, NewestLives, Mounting, Mounted
    <2>. QED BY <2>1, <2>2, <2>3, <2>4, <2>5, <2>6, <2>7, <2>8, <2>9, <2>10 DEF Next
  <1>. QED BY <1>1, <1>2 DEF MInv

----------------------------------------------------------------------------
(* The theorems.                                                           *)

\* Every variable of the page stays in its type (stock_detail.rs, its statics).
THEOREM TypeCorrect == Spec => []TypeOK
  <1>1. IInv => TypeOK
    BY DEF IInv
  <1>. QED BY <1>1, Inductive, PTL

\* The page says "not found" of no stock but one the server does not know
\* (fetch_snapshot asks whom it speaks for once the answer is there).
THEOREM NotFoundIsTheStocksTheorem == Spec => []NotFoundIsTheStocks
  <1>1. IInv => NotFoundIsTheStocks
    BY DEF IInv
  <1>. QED BY <1>1, Inductive, PTL

\* An order book that is streamed or will be is on the books, unless an unmount of
\* it failed (WsManager: quote_detail, release_stale, unmount).
THEOREM OnTheBooksTheorem == Spec => []OnTheBooks
  <1>1. ASSUME IInv PROVE OnTheBooks
    <2>1. ASSUME NEW c \in WillStream \ books, ~Lost(c) PROVE FALSE
      <3>1. /\ c \in Counters
            /\ c \in streams => UnmountAfter(0, c)
            /\ \A i \in DOMAIN wire :
                 wire[i].op = "subscribe" /\ c \in wire[i].of => UnmountAfter(i, c)
        BY <1>1, <2>1 DEF IInv, Covered, WillStream
      <3>2. \A i : UnmountAfter(i, c) => Taken(i, c)
        BY DEF UnmountAfter, Taken
      <3>. QED BY <2>1, <3>1, <3>2 DEF WillStream
    <2>. QED BY <2>1 DEF OnTheBooks, Lost
  <1>. QED BY <1>1, Inductive, PTL

\* Once the newest refresh has done all but read ahead, the stock on screen is the
\* one stock streamed and the one stock booked, whichever were passed over, left
\* and came back to on the way, unless a command failed (WsManager: quote_detail,
\* release_stale, unmount; stock_detail.rs: refresh_stock_debounced).
THEOREM OnlyItsStreamsTheorem == Spec => []OnlyItsStreams
  <1>1. ASSUME Init PROVE MInv
    <2>1. IInv /\ generation = 0 /\ open = FALSE
      BY <1>1, InitIInv DEF Init
    <2>. QED BY <2>1 DEF MInv, NewestLives, Mounting, Mounted
  <1>2. MInv /\ [Next]_vars => MInv'
    BY NextMounting
  <1>3. ASSUME MInv PROVE OnlyItsStreams
    <2>1. ASSUME open, failed = {}, Newest.stage \in Ready
          PROVE  streams = {shown} /\ books = {shown}
      <3>1. Mounted /\ Stock = shown
        BY <2>1, <1>3 DEF Mounted, Ready, Stock, Newest, MInv, IInv, ShownIsNewest
      <3>. QED BY <1>3, <2>1, <3>1 DEF MInv, Mounting, IsAlone
    <2>. QED BY <2>1 DEF OnlyItsStreams, Newest
  <1>. QED BY <1>1, <1>2, <1>3, PTL DEF Spec

\* A superseded refresh puts nothing more on the wire (refresh_stock_debounced:
\* is_current before each request).
THEOREM OnlyTheNewestAsksTheorem == Spec => OnlyTheNewestAsks
  <1>. DEFINE A == \A i \in DOMAIN wire' \ DOMAIN wire : wire'[i].by \in {None, generation}
  <1>1. ASSUME IInv, [Next]_vars PROVE A
    <2>1. ASSUME NEW g \in Refreshes, Step(g) PROVE A
      <3>1. Moves(g)
        BY <1>1, <2>1, StepMoves
      <3>2. PICK r \in Tasks : wire' = wire \/ \E of \in SUBSET Counters : Calls(g, r, of)
        BY <3>1 DEF Moves, Shape, Quiet, Strikes
      <3>3. ASSUME NEW of \in SUBSET Counters, Calls(g, r, of) PROVE A
        <4>1. g = generation
          BY <3>3 DEF Calls, is_current
        <4>2. /\ Sent([op |-> r.stage, of |-> of, by |-> g])
              /\ Len(wire) \in Nat /\ DOMAIN wire = 1 .. Len(wire)
          BY <1>1, <3>3, CallIsCommand DEF IInv
        <4>3. wire'[Len(wire) + 1].by = generation
          BY <4>1, <4>2 DEF Sent
        <4>. QED BY <4>2, <4>3 DEF Sent
      <3>. QED BY <3>2, <3>3
    <2>2. ASSUME NEW op \in {"chart", "unmount"}, NEW of \in SUBSET Counters, Send(op, of, None)
          PROVE  A
      <3>1. [op |-> op, of |-> of, by |-> None] \in Commands
        BY DEF Commands, Requests
      <3>. QED BY <1>1, <2>2, <3>1, SendAppends DEF Send, Sent, IInv
    <2>3. CASE Frame
      <3>1. shown \in Counters \/ wire' = wire
        BY <1>1, <2>3, FrameShows
      <3>. QED BY <2>2, <2>3, <3>1 DEF Frame
    <2>4. CASE Unmount
      <3>1. books \in SUBSET Counters
        BY <1>1 DEF IInv, TypeOK
      <3>. QED BY <2>2, <2>4, <3>1 DEF Unmount
    <2>5. CASE Serve \/ Fail
      BY <1>1, <2>5, ServeShifts DEF Serve, Fail, IInv, Shifted
    <2>6. ASSUME NEW c \in Counters, Open(c) \/ Select(c) PROVE A
      BY <2>6 DEF Open, Select, server
    <2>7. CASE Leave \/ ToggleLayout \/ Supersede \/ Push \/ UNCHANGED vars
      BY <2>7 DEF Leave, ToggleLayout, Supersede, Push, server, vars
    <2>. QED BY <1>1, <2>1, <2>3, <2>4, <2>5, <2>6, <2>7 DEF Next
  <1>. QED BY <1>1, Inductive, PTL DEF Spec, OnlyTheNewestAsks

=============================================================================
