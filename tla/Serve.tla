------------------------------- MODULE Serve -------------------------------
(***************************************************************************)
(* `longbridge serve` (cli/serve/mod.rs, cli/serve/methods.rs): JSON-RPC   *)
(* over stdin and stdout.  One loop reads lines and spawns a task per      *)
(* request; a task takes one of a few permits, calls upstream, and sends   *)
(* its reply into the channel of the one task that writes stdout.  A       *)
(* pusher task forwards the quote pushes into the same channel.  When the  *)
(* input ends the loop waits a bounded time for the writer to run dry.     *)
(*                                                                         *)
(* Orders go through the gate of utils/dry_run.rs: without a code they are *)
(* previewed, with the three digits of their scope they are sent.  Scopes  *)
(* outnumber codes, so that two of them may have the same.  Only api.post  *)
(* takes an order past the gate.  One symbol, its quote counted by its     *)
(* changes.                                                                *)
(***************************************************************************)
EXTENDS Integers, Sequences, FiniteSets

CONSTANTS
  Permits,    \* MAX_CONCURRENT_REQUESTS
  Clients,    \* what a client may write: lines of a set, so many at most
  MaxLines,   \* bound: lines any client writes
  MaxTicks,   \* bound: changes of the quote
  MaxHung,    \* bound: calls upstream never answers
  Digest,     \* the code of each scope
  None        \* Rust's None

\* An order, or a change of one: what a code covers of it, and the other terms.
Scopes == {"buy", "sell", "cancel", "replace"}
Terms == {"limit", "stop"}
Orders == [scope : Scopes, terms : Terms]
Codes == 0 .. 999
Kinds == {"call", "post", "subscribe", "unsubscribe", "order", "unknown", "garbage",
          "shutdown"}

\* A line as the loop reads it; `owed`: it has an id.  An order is that of its
\* params or, with api.post, its body; the code is the one quoted in "execute".
Lines == [kind : Kinds, owed : BOOLEAN, order : Orders \cup {None},
          code : Codes \cup {None}]

Requests == UNION {client.lines : client \in Clients}

ASSUME ServeAssumption ==
  /\ Permits \in Nat \ {0} /\ MaxLines \in Nat /\ MaxTicks \in Nat /\ MaxHung \in Nat
  /\ None \notin Int /\ None \notin Orders /\ Digest \in [Scopes -> Codes]
  /\ Clients \subseteq [lines : SUBSET Lines, most : 0 .. MaxLines]
  /\ \A r \in Requests : r.order = None <=> r.kind \notin {"order", "post"}

VARIABLES
  loop,      \* run: "reading" | "draining", then "drained", or "left" undrained
  input,     \* the lines read, a request's id its place in them
  stage,     \* where the task of each request is
  outcome,   \* what it is about to reply
  free,      \* permits left
  channel,   \* the unbounded channel
  writer,    \* "up" | "ended": every sender gone | "gone": stdout is closed
  pusher,    \* "up" | "aborted" | "stopped"
  stdout,    \* what the client was written
  \* upstream: the quote, whether the symbol is subscribed, the pushes under
  \* way, and the orders sent, each with its request
  tick, subscribed, feed, exchange,
  \* history: the subscriptions made and not undone since
  since

tasks == <<stage, outcome, free>>
upstream == <<tick, subscribed, feed, exchange>>
vars == <<loop, input, tasks, channel, writer, pusher, stdout, upstream, since>>

Ids == 1 .. MaxLines
Stages == {"unread", "queued", "calling", "snapshot", "replying", "hung", "done"}

\* A line of stdout: the reply to `id`, or without one a push or the complaint
\* about a line that is no request.
Messages == [id : Ids \cup {None}, tick : 0 .. MaxTicks \cup {None},
             shown : Orders \cup {None}]

\* A result without a quote or a preview in it, or an error.
Reply(n) == [id |-> n, tick |-> None, shown |-> None]

\* Once the writer has stopped its receiver is gone, and sending does nothing.
Send(m) == channel' = IF writer = "up" THEN Append(channel, m) ELSE channel

Working(n) == stage[n] \in {"queued", "calling", "snapshot", "replying", "hung"}
\* run has returned; the process ends some time after, and every task with it,
\* which is the absence of further steps.
Over == loop \in {"drained", "left"}

----------------------------------------------------------------------------
(* The order gate.                                                         *)

\* Mutant: the side is not part of what a code covers.
ScopeWithoutSide(o) == IF o.scope = "sell" THEN "buy" ELSE o.scope

\* Scope::order: side, size, symbol and price, or the action and the order's id;
\* the other terms are left out.
ScopeOf(o) == o.scope

\* Scope::code: three digits, not one code for each scope.
CodeOf(o) == Digest[ScopeOf(o)]

\* Scope::verify
Verified(line) == line.code = CodeOf(line.order)

\* The codes a client can have read off a preview.
Quotable == {CodeOf(m.shown) : m \in {m \in {stdout[i] : i \in DOMAIN stdout} : m.shown # None}}

----------------------------------------------------------------------------
(* The read loop.                                                          *)

\* What a client does: lines of its own set, and only codes it was shown.
Writes(line) ==
  /\ \E client \in Clients :
       /\ line \in client.lines /\ Len(input) < client.most
       /\ \A i \in DOMAIN input : input[i] \in client.lines
  /\ line.code # None => line.code \in Quotable

\* One line.  What is no request, or names no method, is answered on the spot;
\* the rest gets a task.
ReadLine(line) ==
  LET n == Len(input) + 1 IN
  /\ loop = "reading"
  /\ line.kind # "shutdown"
  /\ Writes(line)
  /\ input' = Append(input, line)
  /\ \/ /\ line.kind = "garbage"
        /\ Send(Reply(None))
        /\ stage' = [stage EXCEPT ![n] = "done"]
     \/ /\ line.kind = "unknown"
        /\ IF line.owed THEN Send(Reply(n)) ELSE UNCHANGED channel
        /\ stage' = [stage EXCEPT ![n] = "done"]
     \/ /\ line.kind \notin {"garbage", "unknown"}
        /\ stage' = [stage EXCEPT ![n] = "queued"]
        /\ UNCHANGED channel
  /\ UNCHANGED <<loop, outcome, free, writer, pusher, stdout, upstream, since>>

StopPusher == pusher' = IF pusher = "up" THEN "aborted" ELSE pusher

\* "shutdown" is answered and ends the loop.
ReadShutdown(line) ==
  LET n == Len(input) + 1 IN
  /\ loop = "reading"
  /\ line.kind = "shutdown" /\ Writes(line)
  /\ input' = Append(input, line)
  /\ stage' = [stage EXCEPT ![n] = "done"]
  /\ IF line.owed THEN Send(Reply(n)) ELSE UNCHANGED channel
  /\ loop' = "draining"
  /\ StopPusher
  /\ UNCHANGED <<outcome, free, writer, stdout, upstream, since>>

\* The end of the input.
ReadEof ==
  /\ loop = "reading"
  /\ loop' = "draining"
  /\ StopPusher
  /\ UNCHANGED <<input, tasks, channel, writer, stdout, upstream, since>>

\* next_line()? on a read error: run returns at once, nobody is told to stop.
ReadError ==
  /\ loop = "reading"
  /\ loop' = "left"
  /\ UNCHANGED <<input, tasks, channel, writer, pusher, stdout, upstream, since>>

\* The writer is waited for, ...
Drained ==
  /\ loop = "draining" /\ writer # "up"
  /\ loop' = "drained"
  /\ UNCHANGED <<input, tasks, channel, writer, pusher, stdout, upstream, since>>

\* Mutant: without a timeout.
NoDrainTimeout == FALSE /\ UNCHANGED vars

\* ... DRAIN_TIMEOUT long.
DrainTimesOut ==
  /\ loop = "draining"
  /\ loop' = "left"
  /\ UNCHANGED <<input, tasks, channel, writer, pusher, stdout, upstream, since>>

----------------------------------------------------------------------------
(* The writer and the pusher.                                              *)

Write ==
  /\ writer = "up" /\ channel # <<>>
  /\ stdout' = Append(stdout, Head(channel))
  /\ channel' = Tail(channel)
  /\ UNCHANGED <<loop, input, tasks, writer, pusher, upstream, since>>

\* The client closed the pipe.
WriteFails ==
  /\ writer = "up" /\ channel # <<>>
  /\ writer' = "gone" /\ channel' = <<>>
  /\ UNCHANGED <<loop, input, tasks, pusher, stdout, upstream, since>>

\* Mutant: the writer stops at the first empty channel.
NoSendersAtOnce == loop # "reading"

\* run has dropped its sender, the pusher and every task theirs.
NoSenders == loop # "reading" /\ pusher = "stopped" /\ \A n \in Ids : ~Working(n)

WriterEnds ==
  /\ writer = "up" /\ channel = <<>> /\ NoSenders
  /\ writer' = "ended"
  /\ UNCHANGED <<loop, input, tasks, channel, pusher, stdout, upstream, since>>

Push ==
  /\ pusher # "stopped" /\ feed # <<>>
  /\ feed' = Tail(feed)
  /\ Send([Reply(None) EXCEPT !.tick = Head(feed)])
  /\ pusher' = IF writer = "up" THEN pusher ELSE "stopped"
  /\ UNCHANGED <<loop, input, tasks, writer, stdout, tick, subscribed, exchange,
                 since>>

PusherStops ==
  /\ pusher = "aborted"
  /\ pusher' = "stopped"
  /\ UNCHANGED <<loop, input, tasks, channel, writer, stdout, upstream, since>>

----------------------------------------------------------------------------
(* A request's task.                                                       *)

\* Mutant: the permit is dropped as soon as it is taken.
TakenNot == free

Taken == free - 1

Acquire(n) ==
  /\ stage[n] = "queued" /\ free > 0
  /\ free' = Taken
  /\ stage' = [stage EXCEPT ![n] = "calling"]
  /\ UNCHANGED <<loop, input, outcome, channel, writer, pusher, stdout, upstream,
                 since>>

\* The outcome of request `n` is known.
Settle(n, m) ==
  /\ outcome' = [outcome EXCEPT ![n] = m]
  /\ stage' = [stage EXCEPT ![n] = "replying"]

\* Any method without a state of its own here.
CallPlain(n) ==
  /\ stage[n] = "calling" /\ input[n].kind = "call"
  /\ Settle(n, Reply(n))
  /\ UNCHANGED <<upstream, since>>

\* Mutant: the snapshot is taken before the subscription is made.
QuoteSubscribeLast(n) ==
  /\ input[n].kind = "subscribe"
  /\ \/ /\ stage[n] = "calling"
        /\ outcome' = [outcome EXCEPT ![n] = [Reply(n) EXCEPT !.tick = tick]]
        /\ stage' = [stage EXCEPT ![n] = "snapshot"]
        /\ UNCHANGED <<subscribed, since>>
     \/ /\ stage[n] = "snapshot"
        /\ subscribed' = TRUE /\ since' = since \cup {n}
        /\ Settle(n, outcome[n])
  /\ UNCHANGED <<tick, feed, exchange>>

\* quote.subscribe: subscribe, or fail; then the list, and the quote as it is now,
\* left out when reading it failed.
QuoteSubscribe(n) ==
  /\ input[n].kind = "subscribe"
  /\ \/ /\ stage[n] = "calling"
        /\ \/ /\ subscribed' = TRUE /\ since' = since \cup {n}
              /\ stage' = [stage EXCEPT ![n] = "snapshot"]
              /\ UNCHANGED outcome
           \/ /\ Settle(n, Reply(n))
              /\ UNCHANGED <<subscribed, since>>
     \/ /\ stage[n] = "snapshot"
        /\ \E t \in {tick, None} : Settle(n, [Reply(n) EXCEPT !.tick = t])
        /\ UNCHANGED <<subscribed, since>>
  /\ UNCHANGED <<tick, feed, exchange>>

\* quote.unsubscribe drops every field of the symbol.
CallUnsubscribe(n) ==
  /\ stage[n] = "calling" /\ input[n].kind = "unsubscribe"
  /\ \/ /\ subscribed' = FALSE /\ since' = {}
        /\ Settle(n, Reply(n))
     \/ /\ Settle(n, Reply(n))
        /\ UNCHANGED <<subscribed, since>>
  /\ UNCHANGED <<tick, feed, exchange>>

\* What the call of request `n` asks upstream to take as an order.
Orderly(n) ==
  \/ input[n].kind = "post"
  \/ input[n].kind = "order" /\ input[n].code # None /\ Verified(input[n])

\* Upstream takes it, or refuses it.
Ordered(n) == exchange' \in {exchange, Append(exchange, [id |-> n, order |-> input[n].order])}

\* trade.submit_order, cancel_order, replace_order: a preview, a refusal, or the
\* order.
CallOrder(n) ==
  /\ stage[n] = "calling" /\ input[n].kind = "order"
  /\ \/ /\ input[n].code = None
        /\ Settle(n, [Reply(n) EXCEPT !.shown = input[n].order])
        /\ UNCHANGED exchange
     \/ /\ input[n].code # None /\ ~Verified(input[n])
        /\ Settle(n, Reply(n))
        /\ UNCHANGED exchange
     \/ /\ Orderly(n) /\ Ordered(n)
        /\ Settle(n, Reply(n))
  /\ UNCHANGED <<tick, subscribed, feed, since>>

\* api.post, to an endpoint that takes orders: no preview, no code.
CallPost(n) ==
  /\ stage[n] = "calling" /\ input[n].kind = "post"
  /\ Ordered(n)
  /\ Settle(n, Reply(n))
  /\ UNCHANGED <<tick, subscribed, feed, since>>

Call(n) ==
  /\ stage[n] \in {"calling", "snapshot"}
  /\ \/ CallPlain(n) \/ QuoteSubscribe(n) \/ CallUnsubscribe(n)
     \/ CallOrder(n) \/ CallPost(n)
  /\ UNCHANGED <<loop, input, free, channel, writer, pusher, stdout>>

\* Mutant: a notification is answered as well.
AnyReply(n) == Send(outcome[n])

\* A notification still runs, and is owed no reply.
SendReply(n) == IF input[n].owed THEN Send(outcome[n]) ELSE UNCHANGED channel

\* Mutant: the permit is forgotten.
ReturnedNot == free

Returned == free + 1

\* The task ends: the reply is sent, then the permit falls.
Finish(n) ==
  /\ stage[n] = "replying"
  /\ SendReply(n)
  /\ stage' = [stage EXCEPT ![n] = "done"]
  /\ free' = Returned
  /\ UNCHANGED <<loop, input, outcome, writer, pusher, stdout, upstream, since>>

\* A call upstream never answers: it keeps its permit and its sender.  An order
\* may have arrived all the same.
Hang(n) ==
  /\ stage[n] \in {"calling", "snapshot"}
  /\ Cardinality({m \in Ids : stage[m] = "hung"}) < MaxHung
  /\ stage' = [stage EXCEPT ![n] = "hung"]
  /\ IF Orderly(n) THEN Ordered(n) ELSE UNCHANGED exchange
  /\ UNCHANGED <<loop, input, outcome, free, channel, writer, pusher, stdout, tick,
                 subscribed, feed, since>>

\* Upstream: the quote changes, and is pushed to a subscriber.  Changes before
\* anybody asked for the quote are not counted.
Tick ==
  /\ tick < MaxTicks /\ \E n \in DOMAIN input : input[n].kind = "subscribe"
  /\ tick' = tick + 1
  /\ feed' = IF subscribed THEN Append(feed, tick + 1) ELSE feed
  /\ UNCHANGED <<loop, input, tasks, channel, writer, pusher, stdout, subscribed,
                 exchange, since>>

----------------------------------------------------------------------------
Init ==
  /\ loop = "reading" /\ input = <<>>
  /\ stage = [n \in Ids |-> "unread"]
  /\ outcome = [n \in Ids |-> Reply(n)]
  /\ free = Permits
  /\ channel = <<>> /\ writer = "up" /\ pusher = "up" /\ stdout = <<>>
  /\ tick = 0 /\ subscribed = FALSE /\ feed = <<>> /\ exchange = <<>>
  /\ since = {}

Task(n) == Acquire(n) \/ Call(n) \/ Finish(n)

Next ==
  \/ \E line \in Requests : ReadLine(line) \/ ReadShutdown(line)
  \/ ReadEof \/ ReadError \/ Drained \/ DrainTimesOut
  \/ Write \/ WriteFails \/ WriterEnds \/ Push \/ PusherStops
  \/ \E n \in Ids : Task(n) \/ Hang(n)
  \/ Tick

Spec == Init /\ [][Next]_vars

\* Tasks are polled, timeouts fire; a client owes no line, upstream no change.
FairSpec ==
  /\ Spec
  /\ WF_vars(Write) /\ WF_vars(WriterEnds) /\ WF_vars(PusherStops)
  /\ WF_vars(Drained) /\ WF_vars(DrainTimesOut)
  /\ \A n \in Ids : WF_vars(Task(n))

----------------------------------------------------------------------------
(* Properties.                                                             *)

\* The types of the state.
TypeOK ==
  /\ loop \in {"reading", "draining", "drained", "left"}
  /\ input \in Seq(Requests) /\ Len(input) <= MaxLines
  /\ stage \in [Ids -> Stages] /\ outcome \in [Ids -> Messages]
  /\ free \in 0 .. Permits
  /\ channel \in Seq(Messages) /\ stdout \in Seq(Messages)
  /\ writer \in {"up", "ended", "gone"}
  /\ pusher \in {"up", "aborted", "stopped"}
  /\ tick \in 0 .. MaxTicks /\ subscribed \in BOOLEAN
  /\ feed \in Seq(0 .. MaxTicks) /\ exchange \in Seq([id : Ids, order : Orders])
  /\ since \subseteq Ids

Sent == stdout \o channel

\* cli/serve/mod.rs:23, "correlate them by id": no request is answered twice, and
\* what asked for no answer, or was not read yet, gets none, although the loop, the
\* tasks and the pusher all write into one channel.
AnsweredOnce ==
  /\ \A i, j \in DOMAIN Sent : i # j /\ Sent[i].id # None => Sent[i].id # Sent[j].id
  /\ \A i \in DOMAIN Sent : Sent[i].id # None =>
       Sent[i].id \in DOMAIN input /\ input[Sent[i].id].owed

\* cli/serve/mod.rs:55: never more requests upstream than there are permits,
\* however long they take and however they end.
Paced ==
  Cardinality({n \in Ids : stage[n] \in {"calling", "snapshot", "replying", "hung"}})
    <= Permits

\* cli/serve/mod.rs:241: when the drain does not run out of time nor lose its
\* client, every request that was read has its answer on stdout.
DrainIsComplete ==
  loop = "drained" /\ writer # "gone" =>
    \A n \in DOMAIN input : input[n].owed /\ input[n].kind # "garbage" =>
      \E i \in DOMAIN stdout : stdout[i].id = n

\* cli/serve/methods.rs:290, "the ordering that loses nothing": whoever was
\* answered a snapshot and is still subscribed has, or is about to be written, the
\* quote as it is.
NoTickLost ==
  \A n \in since :
    /\ loop = "reading" /\ writer = "up" /\ pusher = "up"
    /\ \E i \in DOMAIN Sent : Sent[i].id = n /\ Sent[i].tick # None
    => \/ \E i \in DOMAIN Sent : Sent[i].tick = tick
       \/ \E i \in DOMAIN feed : feed[i] = tick

\* utils/dry_run.rs:9, cli/serve/methods.rs:166, for a client that quotes only codes it
\* was shown: what the order methods send had its digits on the preview of an earlier
\* request, so that an order nobody previewed goes out only where codes collide (or past
\* the gate, by api.post); a request sends one order at most, and none if it is answered
\* with a preview.
OrdersWereVouchedFor ==
  /\ \A k \in DOMAIN exchange : input[exchange[k].id].kind = "order" =>
       \E i \in DOMAIN stdout :
         /\ stdout[i].shown # None /\ stdout[i].id < exchange[k].id
         /\ Digest[stdout[i].shown.scope] = Digest[exchange[k].order.scope]
  /\ \A k, l \in DOMAIN exchange : k # l => exchange[k].id # exchange[l].id
  /\ \A k \in DOMAIN exchange, i \in DOMAIN Sent :
       Sent[i].id = exchange[k].id => Sent[i].shown = None

\* cli/serve/mod.rs:83, "a burst is never dropped, only paced": a queued request
\* is answered unless its call hangs, every permit hangs, the client is gone or
\* the session is over.
BurstIsAnswered ==
  \A n \in Ids :
    stage[n] = "queued" /\ input[n].owed
      ~> \/ \E i \in DOMAIN stdout : stdout[i].id = n
         \/ stage[n] = "hung" \/ writer = "gone" \/ Over
         \/ Cardinality({m \in Ids : stage[m] = "hung"}) >= Permits

\* cli/serve/mod.rs:62: once the input has ended run returns, also with a
\* call that never returns.
Leaves == loop = "draining" ~> Over

============================================================================
