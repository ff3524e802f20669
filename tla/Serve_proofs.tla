---------------------------- MODULE Serve_proofs ----------------------------
(***************************************************************************)
(* Proofs about Serve, for any clients, permits and bounds.                *)
(***************************************************************************)
EXTENDS Serve, SequenceTheorems, FiniteSetTheorems, TLAPS

----------------------------------------------------------------------------
(* The inductive invariant.                                                *)

\* The tasks are those of the lines read.
LinesHaveStages == \A n \in Ids : stage[n] = "unread" <=> n > Len(input)

\* What a task is about to reply is a reply to its own request.
RepliesToOwn == \A n \in Ids : outcome[n].id = n

\* The permits not free are held by the tasks at work, one each.
Busy == {n \in Ids : stage[n] \in {"calling", "snapshot", "replying", "hung"}}
PermitsAreHeld == free + Cardinality(Busy) = Permits

\* A reply was sent by a task that is done with it, ...
SentIsDone == \A i \in DOMAIN Sent : Sent[i].id # None =>
                /\ Sent[i].id \in DOMAIN input
                /\ input[Sent[i].id].owed
                /\ stage[Sent[i].id] = "done"
SentOnce == \A i, j \in DOMAIN Sent : i # j /\ Sent[i].id # None => Sent[i].id # Sent[j].id

\* ... and while stdout is open every such task's reply is there or under way.
DoneIsSent ==
  writer # "gone" =>
    \A n \in DOMAIN input :
      input[n].owed /\ input[n].kind # "garbage" /\ stage[n] = "done" =>
        \E i \in DOMAIN Sent : Sent[i].id = n

\* The writer ends when nothing can be sent any more, and the drain with it.
WriterEndsLast ==
  /\ writer = "ended" =>
       channel = <<>> /\ loop # "reading" /\ \A n \in Ids : ~Working(n)
  /\ loop = "drained" => writer # "up"

\* A code quoted by a request was shown to an earlier one, ...
ShownBefore(code, n) ==
  \E i \in DOMAIN stdout :
    stdout[i].shown # None /\ stdout[i].id < n /\ Digest[stdout[i].shown.scope] = code
CodesWereShown ==
  \A n \in DOMAIN input : input[n].code # None => ShownBefore(input[n].code, n)

\* ... which quoted none itself, ...
Uncoded(m) ==
  m.shown # None =>
    m.id \in DOMAIN input /\ input[m.id].kind = "order" /\ input[m.id].code = None
PreviewsAreUncoded ==
  /\ \A i \in DOMAIN Sent : Uncoded(Sent[i])
  /\ \A n \in Ids : Uncoded(outcome[n])

\* ... and an order at the exchange is that of a call which has come past it.
OrdersAreCalled ==
  /\ \A k \in DOMAIN exchange :
       /\ exchange[k].id \in DOMAIN input
       /\ exchange[k].order = input[exchange[k].id].order
       /\ Orderly(exchange[k].id)
       /\ stage[exchange[k].id] \in {"replying", "hung", "done"}
  /\ \A k, l \in DOMAIN exchange : k # l => exchange[k].id # exchange[l].id

Gated == CodesWereShown /\ PreviewsAreUncoded /\ OrdersAreCalled

Replies == SentIsDone /\ SentOnce /\ DoneIsSent

IInv ==
  /\ TypeOK
  /\ LinesHaveStages
  /\ RepliesToOwn
  /\ PermitsAreHeld
  /\ Replies
  /\ WriterEndsLast
  /\ Gated

----------------------------------------------------------------------------
(* The channel and stdout.                                                 *)

LEMMA ConcatAt ==
  ASSUME NEW S, NEW s \in Seq(S), NEW t \in Seq(S)
  PROVE  /\ Len(s) \in Nat /\ Len(t) \in Nat
         /\ s \o t \in Seq(S) /\ Len(s \o t) = Len(s) + Len(t)
         /\ DOMAIN s = 1 .. Len(s) /\ DOMAIN (s \o t) = 1 .. Len(s) + Len(t)
         /\ \A i \in 1 .. Len(s) : (s \o t)[i] = s[i]
         /\ \A i \in 1 .. Len(t) : (s \o t)[Len(s) + i] = t[i]
  <1>1. /\ Len(s) \in Nat /\ Len(t) \in Nat /\ DOMAIN s = 1 .. Len(s)
    BY LenProperties
  <1>2. /\ s \o t \in Seq(S) /\ Len(s \o t) = Len(s) + Len(t)
        /\ \A i \in 1 .. Len(s) + Len(t) :
             (s \o t)[i] = IF i <= Len(s) THEN s[i] ELSE t[i - Len(s)]
    BY ConcatProperties
  <1>3. DOMAIN (s \o t) = 1 .. Len(s) + Len(t)
    BY <1>2, LenProperties
  <1>4. ASSUME NEW i \in 1 .. Len(s)
        PROVE  (s \o t)[i] = s[i]
    BY <1>1, <1>2
  <1>5. ASSUME NEW i \in 1 .. Len(t)
        PROVE  (s \o t)[Len(s) + i] = t[i]
    <2>1. /\ Len(s) + i \in 1 .. Len(s) + Len(t)
          /\ ~(Len(s) + i <= Len(s)) /\ Len(s) + i - Len(s) = i
      BY <1>1
    <2>. QED BY <1>2, <2>1
  <1>. QED BY <1>1, <1>2, <1>3, <1>4, <1>5

LEMMA AppendAt ==
  ASSUME NEW S, NEW s \in Seq(S), NEW m \in S
  PROVE  /\ Append(s, m) \in Seq(S) /\ Len(Append(s, m)) = Len(s) + 1
         /\ Len(s) \in Nat /\ DOMAIN s = 1 .. Len(s)
         /\ DOMAIN Append(s, m) = 1 .. Len(s) + 1
         /\ \A i \in 1 .. Len(s) : Append(s, m)[i] = s[i]
         /\ Append(s, m)[Len(s) + 1] = m
  BY AppendProperties, LenProperties

LEMMA AppendLast ==
  ASSUME NEW S, NEW s \in Seq(S), NEW t \in Seq(S), NEW m \in S
  PROVE  s \o Append(t, m) = Append(s \o t, m)
  <1>1. <<m>> \in Seq(S) /\ s \o t \in Seq(S)
    BY ConcatAt
  <1>2. Append(t, m) = t \o <<m>> /\ Append(s \o t, m) = (s \o t) \o <<m>>
    BY <1>1, AppendIsConcat
  <1>3. (s \o t) \o <<m>> = s \o (t \o <<m>>)
    BY <1>1, ConcatAssociative
  <1>. QED BY <1>2, <1>3

LEMMA SentType ==
  ASSUME TypeOK
  PROVE  /\ Sent \in Seq(Messages) /\ Len(Sent) = Len(stdout) + Len(channel)
         /\ Len(stdout) \in Nat /\ Len(channel) \in Nat /\ Len(Sent) \in Nat
         /\ DOMAIN stdout = 1 .. Len(stdout) /\ DOMAIN Sent = 1 .. Len(Sent)
         /\ \A i \in 1 .. Len(stdout) : Sent[i] = stdout[i]
         /\ \A i \in 1 .. Len(channel) : Sent[Len(stdout) + i] = channel[i]
  <1>1. stdout \in Seq(Messages) /\ channel \in Seq(Messages)
    BY DEF TypeOK
  <1>. QED BY <1>1, ConcatAt DEF Sent

\* What Sent becomes when a message is sent.
SentPlus(m) ==
  /\ DOMAIN Sent' = 1 .. Len(Sent) + 1 /\ Sent'[Len(Sent) + 1] = m
  /\ \A i \in 1 .. Len(Sent) : Sent'[i] = Sent[i]

LEMMA SendAppends ==
  ASSUME TypeOK, NEW m \in Messages, Send(m), UNCHANGED stdout
  PROVE  /\ channel' \in Seq(Messages)
         /\ IF writer = "up" THEN SentPlus(m) ELSE Sent' = Sent /\ channel' = channel
  <1>1. stdout \in Seq(Messages) /\ channel \in Seq(Messages)
    BY DEF TypeOK
  <1>2. CASE writer = "up"
    <2>1. channel' = Append(channel, m)
      BY <1>2 DEF Send
    <2>2. channel' \in Seq(Messages)
      BY <1>1, <2>1, AppendAt
    <2>3. Sent' = Append(Sent, m) /\ Sent \in Seq(Messages)
      BY <1>1, <2>1, AppendLast, SentType DEF Sent
    <2>4. SentPlus(m)
      BY <2>3, AppendAt DEF SentPlus
    <2>. QED BY <1>2, <2>2, <2>4
  <1>3. CASE writer # "up"
    BY <1>1, <1>3 DEF Send, Sent
  <1>. QED BY <1>2, <1>3

\* Writing moves a line from the channel to stdout.
LEMMA WriteMoves ==
  ASSUME TypeOK, Write
  PROVE  /\ stdout' \in Seq(Messages) /\ channel' \in Seq(Messages)
         /\ Sent' = Sent
         /\ DOMAIN stdout' = 1 .. Len(stdout) + 1
         /\ \A i \in 1 .. Len(stdout) : stdout'[i] = stdout[i]
  <1>1. stdout \in Seq(Messages) /\ channel \in Seq(Messages) /\ channel # <<>>
    BY DEF TypeOK, Write
  <1>2. /\ Head(channel) \in Messages /\ Tail(channel) \in Seq(Messages)
        /\ channel = <<Head(channel)>> \o Tail(channel)
    BY <1>1, HeadTailProperties
  <1>3. /\ stdout' \in Seq(Messages) /\ Len(stdout') = Len(stdout) + 1
        /\ \A i \in 1 .. Len(stdout) : stdout'[i] = stdout[i]
        /\ stdout' = stdout \o <<Head(channel)>>
    BY <1>1, <1>2, AppendProperties, AppendIsConcat DEF Write
  <1>4. DOMAIN stdout' = 1 .. Len(stdout) + 1
    BY <1>3, LenProperties
  <1>5. <<Head(channel)>> \in Seq(Messages)
    BY <1>2
  <1>6. (stdout \o <<Head(channel)>>) \o Tail(channel)
          = stdout \o (<<Head(channel)>> \o Tail(channel))
    BY <1>1, <1>2, <1>5, ConcatAssociative
  <1>7. Sent' = Sent
    BY <1>2, <1>3, <1>6 DEF Sent, Write
  <1>. QED BY <1>2, <1>3, <1>4, <1>7 DEF Write

----------------------------------------------------------------------------
(* What a step does to the replies.                                        *)

LEMMA NoneIsNoNumber == None \notin Nat /\ \A n \in Ids : n # None
  BY ServeAssumption DEF Ids

LEMMA NoneIsNoId ==
  ASSUME TypeOK
  PROVE  DOMAIN input = 1 .. Len(input) /\ Len(input) \in 0 .. MaxLines
         /\ DOMAIN input \subseteq Ids /\ \A k \in DOMAIN input : k # None
  <1>1. DOMAIN input = 1 .. Len(input) /\ Len(input) \in Nat /\ Len(input) <= MaxLines
    BY LenProperties DEF TypeOK
  <1>. QED BY <1>1, ServeAssumption DEF Ids

\* Lines read and tasks done stay so.
Lasting ==
  /\ \A k \in DOMAIN input : k \in DOMAIN input' /\ input'[k] = input[k]
  /\ \A k \in DOMAIN input : stage[k] = "done" => stage'[k] = "done"

\* The tasks done after a step: those of before and `n`, if it is owed a reply.
OnlyDone(n) ==
  \A k \in DOMAIN input' :
    input'[k].owed /\ input'[k].kind # "garbage" /\ stage'[k] = "done" /\ k # n =>
      k \in DOMAIN input /\ input'[k] = input[k] /\ stage[k] = "done"

\* The first reply to `n`.
LEMMA RepliedOnce ==
  ASSUME TypeOK, TypeOK', Replies, NEW n \in Ids, NEW m \in Messages, m.id = n,
         Send(m), UNCHANGED <<stdout, writer>>, writer # "ended",
         Lasting, OnlyDone(n), ~(n \in DOMAIN input /\ stage[n] = "done"),
         n \in DOMAIN input', input'[n].owed, stage'[n] = "done"
  PROVE  Replies'
  <1>1. /\ DOMAIN Sent = 1 .. Len(Sent) /\ Len(Sent) \in Nat
        /\ IF writer = "up" THEN SentPlus(m) ELSE Sent' = Sent
    BY SentType, SendAppends
  <1>2. \A i \in DOMAIN Sent : Sent[i].id # n
    BY NoneIsNoNumber DEF Replies, SentIsDone, Ids
  <1>3. CASE writer = "up"
    <2>1. /\ DOMAIN Sent' = 1 .. Len(Sent) + 1 /\ Sent'[Len(Sent) + 1] = m
          /\ \A i \in DOMAIN Sent : i \in DOMAIN Sent' /\ Sent'[i] = Sent[i]
      BY <1>1, <1>3 DEF SentPlus
    <2>2. \A i \in DOMAIN Sent' : i \in DOMAIN Sent \/ i = Len(Sent) + 1
      BY <1>1, <2>1
    <2>3. SentIsDone'
      BY <2>1, <2>2 DEF Replies, SentIsDone, Lasting
    <2>4. SentOnce'
      BY <1>2, <2>1, <2>2 DEF Replies, SentOnce
    <2>5. DoneIsSent'
      <3>1. SUFFICES ASSUME NEW k \in DOMAIN input',
                            input'[k].owed, input'[k].kind # "garbage", stage'[k] = "done"
                     PROVE  \E i \in DOMAIN Sent' : Sent'[i].id = k
        BY DEF DoneIsSent
      <3>2. CASE k = n
        <4>1. Len(Sent) + 1 \in DOMAIN Sent'
          BY <1>1, <2>1
        <4>. QED BY <2>1, <3>2, <4>1
      <3>3. CASE k # n
        <4>1. PICK i \in DOMAIN Sent : Sent[i].id = k
          BY <1>3, <3>1, <3>3 DEF Replies, DoneIsSent, OnlyDone
        <4>2. i \in DOMAIN Sent'
          BY <1>1, <2>1
        <4>. QED BY <2>1, <4>1, <4>2
      <3>. QED BY <3>2, <3>3
    <2>. QED BY <2>3, <2>4, <2>5 DEF Replies
  <1>4. CASE writer # "up"
    <2>1. writer' = "gone"
      BY <1>4 DEF TypeOK
    <2>2. DoneIsSent'
      BY <2>1 DEF DoneIsSent
    <2>. QED BY <1>1, <1>4, <2>2 DEF Replies, SentIsDone, SentOnce, Lasting
  <1>. QED BY <1>3, <1>4

\* A push, or the complaint about a line that is no request.
LEMMA RepliedToNobody ==
  ASSUME TypeOK, TypeOK', Replies, NEW m \in Messages, m.id = None,
         Send(m), UNCHANGED <<stdout, writer>>, Lasting, OnlyDone(None)
  PROVE  Replies'
  <1>1. /\ DOMAIN Sent = 1 .. Len(Sent) /\ Len(Sent) \in Nat
        /\ IF writer = "up" THEN SentPlus(m) ELSE Sent' = Sent
    BY SentType, SendAppends
  <1>2. \A k \in DOMAIN input' : k # None
    BY NoneIsNoNumber, LenProperties DEF TypeOK
  <1>3. CASE writer = "up"
    <2>1. /\ DOMAIN Sent' = 1 .. Len(Sent) + 1 /\ Sent'[Len(Sent) + 1] = m
          /\ \A i \in DOMAIN Sent : i \in DOMAIN Sent' /\ Sent'[i] = Sent[i]
      BY <1>1, <1>3 DEF SentPlus
    <2>2. \A i \in DOMAIN Sent' : i \in DOMAIN Sent \/ i = Len(Sent) + 1
      BY <1>1, <2>1
    <2>3. SentIsDone'
      BY <2>1, <2>2 DEF Replies, SentIsDone, Lasting
    <2>4. SentOnce'
      BY <2>1, <2>2 DEF Replies, SentOnce
    <2>5. DoneIsSent'
      BY <1>2, <1>3, <2>1 DEF Replies, DoneIsSent, OnlyDone
    <2>. QED BY <2>3, <2>4, <2>5 DEF Replies
  <1>4. CASE writer # "up"
    BY <1>1, <1>2, <1>4 DEF Replies, SentIsDone, SentOnce, DoneIsSent, Lasting, OnlyDone
  <1>. QED BY <1>3, <1>4

\* Nothing is sent.
LEMMA NotReplied ==
  ASSUME TypeOK, TypeOK', Replies, UNCHANGED <<stdout, channel, writer>>, Lasting, OnlyDone(None)
  PROVE  Replies'
  <1>1. Sent' = Sent
    BY DEF Sent
  <1>2. \A k \in DOMAIN input' : k # None
    BY NoneIsNoNumber, LenProperties DEF TypeOK
  <1>. QED
    BY <1>1, <1>2 DEF Replies, SentIsDone, SentOnce, DoneIsSent, Lasting, OnlyDone

----------------------------------------------------------------------------
(* Steps that neither read a line nor move a task.                         *)

\* The conjuncts of IInv that say nothing of the loop and the writer.
Settled == LinesHaveStages /\ RepliesToOwn /\ PermitsAreHeld

LEMMA SettledStays ==
  ASSUME Settled, UNCHANGED <<input, tasks>>
  PROVE  Settled'
  BY DEF Settled, LinesHaveStages, RepliesToOwn, PermitsAreHeld, Busy, tasks

\* What is new in Sent is no preview, or one that was about to be sent.
NoNewPreview ==
  \A i \in DOMAIN Sent' :
    \/ \E j \in DOMAIN Sent : Sent'[i] = Sent[j]
    \/ Sent'[i].shown = None
    \/ \E n \in Ids : Sent'[i] = outcome[n]

LEMMA SendShows ==
  ASSUME TypeOK, NEW m \in Messages, Send(m) \/ UNCHANGED channel, UNCHANGED stdout,
         m.shown = None \/ \E n \in Ids : m = outcome[n]
  PROVE  NoNewPreview
  <1>1. CASE UNCHANGED channel
    BY <1>1 DEF NoNewPreview, Sent
  <1>2. CASE Send(m)
    <2>1. IF writer = "up" THEN SentPlus(m) ELSE Sent' = Sent
      BY <1>2, SendAppends
    <2>2. CASE writer = "up"
      <3>1. /\ DOMAIN Sent = 1 .. Len(Sent) /\ Len(Sent) \in Nat
            /\ DOMAIN Sent' = 1 .. Len(Sent) + 1 /\ Sent'[Len(Sent) + 1] = m
            /\ \A i \in 1 .. Len(Sent) : Sent'[i] = Sent[i]
        BY <2>1, <2>2, SentType DEF SentPlus
      <3>2. \A i \in DOMAIN Sent' : i \in DOMAIN Sent \/ i = Len(Sent) + 1
        BY <3>1
      <3>. QED BY <3>1, <3>2 DEF NoNewPreview
    <2>3. CASE writer # "up"
      BY <2>1, <2>3 DEF NoNewPreview
    <2>. QED BY <2>1, <2>2, <2>3
  <1>. QED BY <1>1, <1>2

\* The gate under a step that calls nothing.
LEMMA GatedStays ==
  ASSUME TypeOK, Gated, UNCHANGED <<outcome, exchange>>,
         \A k \in DOMAIN input : k \in DOMAIN input' /\ input'[k] = input[k],
         \A k \in DOMAIN input' :
           k \in DOMAIN input \/ (input'[k].code # None => ShownBefore(input'[k].code, k)),
         \A i \in DOMAIN stdout : i \in DOMAIN stdout' /\ stdout'[i] = stdout[i],
         NoNewPreview,
         \A k \in Ids : stage[k] \in {"replying", "hung", "done"} =>
                          stage'[k] \in {"replying", "hung", "done"}
  PROVE  Gated'
  <1>1. CodesWereShown'
    <2>1. ASSUME NEW k \in DOMAIN input', input'[k].code # None
          PROVE  \E i \in DOMAIN stdout' :
                   /\ stdout'[i].shown # None /\ stdout'[i].id < k
                   /\ Digest[stdout'[i].shown.scope] = input'[k].code
      <3>1. ShownBefore(input'[k].code, k)
        BY <2>1 DEF Gated, CodesWereShown
      <3>. QED BY <3>1 DEF ShownBefore
    <2>. QED BY <2>1 DEF CodesWereShown, ShownBefore
  <1>2. PreviewsAreUncoded'
    <2>1. \A m : Uncoded(m) =>
            (m.shown # None =>
               m.id \in DOMAIN input' /\ input'[m.id].kind = "order" /\ input'[m.id].code = None)
      BY DEF Uncoded
    <2>. QED BY <2>1 DEF Gated, PreviewsAreUncoded, NoNewPreview, Uncoded
  <1>3. OrdersAreCalled'
    <2>1. DOMAIN input \subseteq Ids
      BY NoneIsNoId
    <2>. QED BY <2>1 DEF Gated, OrdersAreCalled, Orderly, Verified, CodeOf, ScopeOf
  <1>. QED BY <1>1, <1>2, <1>3 DEF Gated

LEMMA NothingSent ==
  ASSUME IInv, TypeOK', UNCHANGED <<input, tasks, channel, writer, stdout, exchange>>
  PROVE  Settled' /\ Replies' /\ Gated'
  <1>1. Settled'
    BY SettledStays DEF IInv, Settled
  <1>2. Lasting /\ OnlyDone(None)
    BY DEF Lasting, OnlyDone, tasks
  <1>3. Replies'
    BY <1>2, NotReplied DEF IInv
  <1>4. NoNewPreview
    BY DEF NoNewPreview, Sent
  <1>5. Gated'
    BY <1>4, GatedStays DEF IInv, tasks
  <1>. QED BY <1>1, <1>3, <1>5

LEMMA LoopStep ==
  ASSUME IInv, ReadEof \/ ReadError \/ Drained \/ DrainTimesOut \/ PusherStops \/ Tick
  PROVE  IInv'
  <1>1. /\ UNCHANGED <<input, tasks, channel, writer, stdout, exchange, since, subscribed>>
        /\ loop' = "reading" => loop = "reading"
        /\ loop' = "drained" => loop = "drained" \/ writer # "up"
    BY DEF ReadEof, ReadError, Drained, DrainTimesOut, PusherStops, Tick, upstream
  <1>2. TypeOK'
    <2>1. loop' \in {"reading", "draining", "drained", "left"}
      BY DEF IInv, TypeOK, ReadEof, ReadError, Drained, DrainTimesOut, PusherStops, Tick
    <2>2. pusher' \in {"up", "aborted", "stopped"}
      BY DEF IInv, TypeOK, ReadEof, ReadError, Drained, DrainTimesOut, PusherStops, Tick,
             StopPusher
    <2>3. tick' \in 0 .. MaxTicks /\ feed' \in Seq(0 .. MaxTicks)
      <3>1. CASE Tick
        <4>1. tick + 1 \in 0 .. MaxTicks
          BY <3>1, ServeAssumption DEF IInv, TypeOK, Tick
        <4>2. Append(feed, tick + 1) \in Seq(0 .. MaxTicks)
          BY <4>1, AppendAt DEF IInv, TypeOK
        <4>. QED BY <3>1, <4>1, <4>2 DEF IInv, TypeOK, Tick
      <3>2. CASE ~Tick
        BY <3>2 DEF IInv, TypeOK, ReadEof, ReadError, Drained, DrainTimesOut, PusherStops,
                    upstream
      <3>. QED BY <3>1, <3>2
    <2>. QED BY <1>1, <2>1, <2>2, <2>3 DEF IInv, TypeOK, tasks
  <1>3. Settled' /\ Replies' /\ Gated'
    BY <1>1, <1>2, NothingSent
  <1>4. WriterEndsLast'
    BY <1>1 DEF IInv, WriterEndsLast, Working, tasks
  <1>. QED BY <1>2, <1>3, <1>4 DEF IInv, Settled

LEMMA WriterEndsStep ==
  ASSUME IInv, WriterEnds
  PROVE  IInv'
  <1>1. /\ UNCHANGED <<loop, input, tasks, channel, pusher, stdout, upstream, since>>
        /\ writer = "up" /\ writer' = "ended"
    BY DEF WriterEnds
  <1>2. TypeOK'
    BY <1>1 DEF IInv, TypeOK, tasks, upstream
  <1>3. Settled'
    BY <1>1, SettledStays DEF IInv, Settled
  <1>4. Replies'
    BY <1>1 DEF IInv, Replies, SentIsDone, SentOnce, DoneIsSent, Sent, tasks
  <1>5. Gated'
    <2>1. NoNewPreview
      BY <1>1 DEF NoNewPreview, Sent
    <2>. QED BY <1>1, <2>1, GatedStays DEF IInv, upstream, tasks
  <1>6. WriterEndsLast'
    BY <1>1 DEF IInv, WriterEndsLast, WriterEnds, NoSenders, Working, tasks
  <1>. QED BY <1>2, <1>3, <1>4, <1>5, <1>6 DEF IInv, Settled

LEMMA WriteStep ==
  ASSUME IInv, Write
  PROVE  IInv'
  <1>1. /\ UNCHANGED <<loop, input, tasks, writer, pusher, upstream, since>>
        /\ writer = "up"
    BY DEF Write
  <1>2. TypeOK'
    BY <1>1, WriteMoves DEF IInv, TypeOK, tasks, upstream
  <1>3. Settled'
    BY <1>1, SettledStays DEF IInv, Settled
  <1>4. Sent' = Sent
    BY WriteMoves DEF IInv
  <1>5. Replies'
    BY <1>1, <1>4 DEF IInv, Replies, SentIsDone, SentOnce, DoneIsSent, tasks
  <1>6. \A i \in DOMAIN stdout : i \in DOMAIN stdout' /\ stdout'[i] = stdout[i]
    BY WriteMoves, SentType DEF IInv
  <1>7. Gated'
    <2>1. NoNewPreview
      BY <1>4 DEF NoNewPreview
    <2>. QED BY <1>1, <1>6, <2>1, GatedStays DEF IInv, upstream, tasks
  <1>8. WriterEndsLast'
    BY <1>1 DEF IInv, WriterEndsLast
  <1>. QED BY <1>2, <1>3, <1>5, <1>7, <1>8 DEF IInv, Settled

LEMMA WriteFailsStep ==
  ASSUME IInv, WriteFails
  PROVE  IInv'
  <1>1. /\ UNCHANGED <<loop, input, tasks, pusher, stdout, upstream, since>>
        /\ writer = "up" /\ writer' = "gone" /\ channel' = <<>>
    BY DEF WriteFails
  <1>2. channel' \in Seq(Messages) /\ Len(channel') = 0
    BY <1>1
  <1>3. TypeOK'
    BY <1>1, <1>2 DEF IInv, TypeOK, tasks, upstream
  <1>4. Settled'
    BY <1>1, SettledStays DEF IInv, Settled
  <1>5. /\ stdout \in Seq(Messages) /\ Sent' = stdout \o channel'
    BY <1>1 DEF IInv, TypeOK, Sent
  <1>6. /\ DOMAIN Sent' = 1 .. Len(stdout)
        /\ \A i \in 1 .. Len(stdout) : Sent'[i] = stdout[i]
    BY <1>2, <1>5, ConcatAt
  <1>7. \A i \in DOMAIN Sent' : i \in DOMAIN Sent /\ Sent'[i] = Sent[i]
    BY <1>6, SentType DEF IInv
  <1>8. Replies'
    BY <1>1, <1>7 DEF IInv, Replies, SentIsDone, SentOnce, DoneIsSent, tasks
  <1>9. Gated'
    <2>1. NoNewPreview
      BY <1>7 DEF NoNewPreview
    <2>. QED BY <1>1, <2>1, GatedStays DEF IInv, upstream, tasks
  <1>10. WriterEndsLast'
    BY <1>1 DEF IInv, WriterEndsLast
  <1>. QED BY <1>3, <1>4, <1>8, <1>9, <1>10 DEF IInv, Settled

LEMMA PushStep ==
  ASSUME IInv, Push
  PROVE  IInv'
  <1>. DEFINE m == [Reply(None) EXCEPT !.tick = Head(feed)]
  <1>1. /\ UNCHANGED <<loop, input, tasks, writer, stdout, tick, subscribed, exchange, since>>
        /\ Send(m) /\ feed' = Tail(feed) /\ feed # <<>>
        /\ pusher' \in {pusher, "stopped"}
    BY DEF Push
  <1>2. Head(feed) \in 0 .. MaxTicks /\ feed' \in Seq(0 .. MaxTicks)
    BY <1>1, HeadTailProperties DEF IInv, TypeOK
  <1>3. m \in Messages /\ m.id = None /\ m.shown = None
    BY <1>2 DEF Messages, Reply
  <1>4. channel' \in Seq(Messages)
    BY <1>1, <1>3, SendAppends DEF IInv
  <1>5. TypeOK'
    BY <1>1, <1>2, <1>4 DEF IInv, TypeOK, tasks
  <1>6. Settled'
    BY <1>1, SettledStays DEF IInv, Settled
  <1>7. Lasting /\ OnlyDone(None)
    BY <1>1 DEF Lasting, OnlyDone, tasks
  <1>8. Replies'
    BY <1>1, <1>3, <1>5, <1>7, RepliedToNobody DEF IInv
  <1>9. Gated'
    <2>1. NoNewPreview
      BY <1>1, <1>3, SendShows DEF IInv
    <2>. QED BY <1>1, <2>1, GatedStays DEF IInv, tasks
  <1>10. WriterEndsLast'
    BY <1>1, <1>3, SendAppends DEF IInv, WriterEndsLast, Working, tasks
  <1>. QED BY <1>5, <1>6, <1>8, <1>9, <1>10 DEF IInv, Settled

----------------------------------------------------------------------------
(* The read loop.                                                          *)

LEMMA BusyFinite ==
  /\ IsFiniteSet(Ids) /\ IsFiniteSet(Busy) /\ Busy \subseteq Ids
  /\ Cardinality(Busy) \in Nat
  <1>1. IsFiniteSet(Ids)
    BY FS_Interval, ServeAssumption DEF Ids
  <1>2. Busy \subseteq Ids
    BY DEF Busy
  <1>. QED BY <1>1, <1>2, FS_Subset, FS_CardinalityType

\* A client's line: it fits, and quotes only what was shown.
LEMMA WrittenLine ==
  ASSUME IInv, NEW line \in Requests, Writes(line)
  PROVE  /\ line \in Lines
         /\ Len(input) + 1 \in Ids
         /\ line.code # None => ShownBefore(line.code, Len(input) + 1)
  <1>1. line \in Lines
    BY ServeAssumption DEF Requests
  <1>2. PICK client \in Clients : Len(input) < client.most
    BY DEF Writes
  <1>3. client.most \in 0 .. MaxLines
    BY ServeAssumption
  <1>4. Len(input) \in Nat
    BY LenProperties DEF IInv, TypeOK
  <1>5. Len(input) + 1 \in Ids
    BY <1>2, <1>3, <1>4, ServeAssumption DEF Ids
  <1>6. ASSUME line.code # None
        PROVE  ShownBefore(line.code, Len(input) + 1)
    <2>1. PICK i \in DOMAIN stdout :
            stdout[i].shown # None /\ Digest[stdout[i].shown.scope] = line.code
      BY <1>6 DEF Writes, Quotable, CodeOf, ScopeOf
    <2>2. i \in DOMAIN Sent /\ Sent[i] = stdout[i]
      BY SentType DEF IInv
    <2>3. stdout[i].id \in DOMAIN input
      BY <2>1, <2>2 DEF IInv, Gated, PreviewsAreUncoded, Uncoded
    <2>4. stdout[i].id < Len(input) + 1
      BY <1>4, <2>3, NoneIsNoId DEF IInv
    <2>. QED BY <2>1, <2>4 DEF ShownBefore
  <1>. QED BY <1>1, <1>5, <1>6

\* A line is read and its task has come to `to`; `sent` says what is sent.
LEMMA ReadStep ==
  ASSUME IInv, NEW line \in Requests, Writes(line), loop = "reading",
         NEW to \in {"queued", "done"}, NEW n, n = Len(input) + 1,
         input' = Append(input, line),
         stage' = [stage EXCEPT ![n] = to],
         UNCHANGED <<outcome, free, writer, stdout, upstream, since>>,
         loop' \in {"reading", "draining"}, pusher' \in {pusher, "aborted"},
         \/ Send(Reply(None)) /\ line.kind = "garbage" /\ to = "done"
         \/ Send(Reply(n)) /\ line.owed /\ to = "done"
         \/ UNCHANGED channel /\ (line.owed => to = "queued")
  PROVE  IInv'
  <1>1. line \in Lines /\ n \in Ids /\ (line.code # None => ShownBefore(line.code, n))
    BY WrittenLine
  <1>2. Reply(None) \in Messages /\ Reply(n) \in Messages
        /\ Reply(None).id = None /\ Reply(n).id = n
        /\ Reply(None).shown = None /\ Reply(n).shown = None
    BY <1>1 DEF Reply, Messages
  <1>3. channel' \in Seq(Messages)
    BY <1>2, SendAppends DEF IInv, TypeOK
  <1>4. /\ Len(input) \in Nat /\ DOMAIN input = 1 .. Len(input)
        /\ input' \in Seq(Requests) /\ Len(input') = n /\ DOMAIN input' = 1 .. n
        /\ \A k \in DOMAIN input : k \in DOMAIN input' /\ k # n /\ input'[k] = input[k]
        /\ input'[n] = line
    BY AppendAt DEF IInv, TypeOK
  <1>5. \A k \in DOMAIN input' : k \in DOMAIN input \/ k = n
    BY <1>4
  <1>6. stage' \in [Ids -> Stages] /\ stage'[n] = to
        /\ \A k \in Ids : k # n => stage'[k] = stage[k]
    BY <1>1 DEF IInv, TypeOK, Stages
  <1>7. stage[n] = "unread" /\ n \notin DOMAIN input /\ DOMAIN input \subseteq Ids
    <2>1. n > Len(input)
      BY <1>4
    <2>2. stage[n] = "unread"
      BY <1>1, <2>1 DEF IInv, LinesHaveStages
    <2>. QED BY <1>4, <2>2, NoneIsNoId DEF IInv
  <1>8. TypeOK'
    <2>1. Len(input') <= MaxLines
      BY <1>1, <1>4, ServeAssumption DEF Ids
    <2>. QED BY <1>3, <1>4, <1>6, <2>1 DEF IInv, TypeOK, upstream
  <1>9. LinesHaveStages'
    <2>1. SUFFICES ASSUME NEW k \in Ids
                   PROVE  stage'[k] = "unread" <=> k > Len(input')
      BY DEF LinesHaveStages
    <2>2. CASE k = n
      BY <1>1, <1>4, <1>6, <2>2 DEF Ids
    <2>3. CASE k # n
      BY <1>1, <1>4, <1>6, <2>3 DEF IInv, LinesHaveStages, Ids
    <2>. QED BY <2>2, <2>3
  <1>10. RepliesToOwn'
    BY DEF IInv, RepliesToOwn
  <1>11. PermitsAreHeld'
    <2>1. Busy' = Busy
      BY <1>6, <1>7 DEF Busy
    <2>. QED BY <2>1 DEF IInv, PermitsAreHeld
  <1>12. Lasting
    BY <1>4, <1>6, <1>7 DEF Lasting
  <1>13. OnlyDone(n)
    BY <1>4, <1>5, <1>6, <1>7 DEF OnlyDone
  <1>14. writer # "ended"
    BY DEF IInv, WriterEndsLast
  <1>15. Replies'
    <2>1. CASE Send(Reply(None)) /\ line.kind = "garbage" /\ to = "done"
      <3>1. OnlyDone(None)
        BY <1>4, <1>13, <2>1 DEF OnlyDone
      <3>. QED BY <1>2, <1>8, <1>12, <2>1, <3>1, RepliedToNobody DEF IInv
    <2>2. CASE Send(Reply(n)) /\ line.owed /\ to = "done"
      <3>1. n \in DOMAIN input' /\ input'[n].owed /\ stage'[n] = "done"
        BY <1>1, <1>4, <1>6, <2>2 DEF Ids
      <3>. QED BY <1>1, <1>2, <1>7, <1>8, <1>12, <1>13, <1>14, <2>2, <3>1, RepliedOnce DEF IInv
    <2>3. CASE UNCHANGED channel /\ (line.owed => to = "queued")
      <3>1. OnlyDone(None)
        BY <1>4, <1>6, <1>13, <2>3 DEF OnlyDone
      <3>. QED BY <1>8, <1>12, <2>3, <3>1, NotReplied DEF IInv
    <2>. QED BY <2>1, <2>2, <2>3
  <1>16. Gated'
    <2>1. NoNewPreview
      BY <1>2, SendShows DEF IInv
    <2>2. \A k \in DOMAIN input' :
            k \in DOMAIN input \/ (input'[k].code # None => ShownBefore(input'[k].code, k))
      BY <1>1, <1>4, <1>5
    <2>. QED BY <1>4, <1>6, <1>7, <2>1, <2>2, GatedStays DEF IInv, upstream
  <1>17. WriterEndsLast'
    BY <1>14 DEF IInv, WriterEndsLast
  <1>. QED BY <1>8, <1>9, <1>10, <1>11, <1>15, <1>16, <1>17 DEF IInv

LEMMA ReadLineStep ==
  ASSUME IInv, NEW line \in Requests, ReadLine(line)
  PROVE  IInv'
  <1>. DEFINE n == Len(input) + 1
  <1>1. /\ loop = "reading" /\ Writes(line) /\ input' = Append(input, line)
        /\ UNCHANGED <<loop, outcome, free, writer, pusher, stdout, upstream, since>>
    BY DEF ReadLine
  <1>2. CASE line.kind = "garbage"
    <2>1. Send(Reply(None)) /\ stage' = [stage EXCEPT ![n] = "done"]
      BY <1>2 DEF ReadLine
    <2>. QED BY <1>1, <1>2, <2>1, ReadStep
  <1>3. CASE line.kind = "unknown" /\ line.owed
    <2>1. Send(Reply(n)) /\ stage' = [stage EXCEPT ![n] = "done"]
      BY <1>3 DEF ReadLine
    <2>. QED BY <1>1, <1>3, <2>1, ReadStep
  <1>4. CASE line.kind = "unknown" /\ ~line.owed
    <2>1. UNCHANGED channel /\ stage' = [stage EXCEPT ![n] = "done"]
      BY <1>4 DEF ReadLine
    <2>. QED BY <1>1, <1>4, <2>1, ReadStep
  <1>5. CASE line.kind \notin {"garbage", "unknown"}
    <2>1. UNCHANGED channel /\ stage' = [stage EXCEPT ![n] = "queued"]
      BY <1>5 DEF ReadLine
    <2>. QED BY <1>1, <2>1, ReadStep
  <1>. QED BY <1>2, <1>3, <1>4, <1>5

LEMMA ReadShutdownStep ==
  ASSUME IInv, NEW line \in Requests, ReadShutdown(line)
  PROVE  IInv'
  <1>. DEFINE n == Len(input) + 1
  <1>1. /\ loop = "reading" /\ Writes(line) /\ input' = Append(input, line)
        /\ stage' = [stage EXCEPT ![n] = "done"] /\ loop' = "draining"
        /\ pusher' \in {pusher, "aborted"}
        /\ UNCHANGED <<outcome, free, writer, stdout, upstream, since>>
    BY DEF ReadShutdown, StopPusher
  <1>2. CASE line.owed
    <2>1. Send(Reply(n))
      BY <1>2 DEF ReadShutdown
    <2>. QED BY <1>1, <1>2, <2>1, ReadStep
  <1>3. CASE ~line.owed
    <2>1. UNCHANGED channel
      BY <1>3 DEF ReadShutdown
    <2>. QED BY <1>1, <1>3, <2>1, ReadStep
  <1>. QED BY <1>2, <1>3

----------------------------------------------------------------------------
(* The tasks.                                                              *)

\* The call of `n` moves on; it is not done yet.
LEMMA TaskMoves ==
  ASSUME IInv, NEW n \in Ids, TypeOK', Working(n),
         NEW to \in {"calling", "snapshot", "replying", "hung"},
         stage' = [stage EXCEPT ![n] = to],
         UNCHANGED <<loop, input, channel, writer, stdout>>
  PROVE  /\ LinesHaveStages' /\ Replies' /\ WriterEndsLast'
         /\ Busy' = Busy \cup {n} /\ n \in DOMAIN input
  <1>1. stage'[n] = to /\ \A k \in Ids : k # n => stage'[k] = stage[k]
    BY DEF IInv, TypeOK
  <1>2. stage[n] \notin {"unread", "done"} /\ to \notin {"unread", "done"}
    BY DEF Working
  <1>3. LinesHaveStages'
    BY <1>1, <1>2 DEF IInv, LinesHaveStages
  <1>4. DOMAIN input = 1 .. Len(input) /\ Len(input) \in Nat /\ DOMAIN input \subseteq Ids
    BY NoneIsNoId DEF IInv
  <1>5. n \in DOMAIN input
    BY <1>2, <1>4 DEF IInv, LinesHaveStages, Ids
  <1>6. Lasting /\ OnlyDone(None)
    BY <1>1, <1>2, <1>4 DEF Lasting, OnlyDone
  <1>7. Replies'
    BY <1>6, NotReplied DEF IInv
  <1>8. WriterEndsLast'
    BY DEF IInv, WriterEndsLast
  <1>9. Busy' = Busy \cup {n}
    BY <1>1 DEF Busy
  <1>. QED BY <1>3, <1>5, <1>7, <1>8, <1>9

\* The gate when `n` moves on from its call: its order may have been sent, and a
\* preview may have been made if it quoted no code.
LEMMA GatedCall ==
  ASSUME IInv, NEW n \in DOMAIN input, stage[n] \in {"calling", "snapshot"},
         NEW to \in {"snapshot", "replying", "hung"}, stage' = [stage EXCEPT ![n] = to],
         UNCHANGED <<input, channel, stdout>>,
         \/ outcome' = outcome
         \/ \E m \in Messages : /\ m.id = n /\ outcome' = [outcome EXCEPT ![n] = m]
                                /\ Uncoded(m),
         exchange' = exchange \/ (Orderly(n) /\ Ordered(n) /\ to # "snapshot"),
         Orderly(n) => input[n].order \in Orders
  PROVE  Gated' /\ exchange' \in Seq([id : Ids, order : Orders])
  <1>1. DOMAIN input \subseteq Ids
    BY NoneIsNoId DEF IInv
  <1>2. stage'[n] = to /\ \A k \in Ids : k # n => stage'[k] = stage[k]
    BY <1>1 DEF IInv, TypeOK
  <1>3. CodesWereShown'
    BY DEF IInv, Gated, CodesWereShown, ShownBefore
  <1>4. PreviewsAreUncoded'
    <2>1. Sent' = Sent
      BY DEF Sent
    <2>2. \A k \in Ids : Uncoded(outcome'[k])
      BY <1>1 DEF IInv, TypeOK, Gated, PreviewsAreUncoded
    <2>. QED BY <2>1, <2>2 DEF IInv, Gated, PreviewsAreUncoded, Uncoded
  <1>5. /\ exchange \in Seq([id : Ids, order : Orders])
        /\ \A k \in DOMAIN exchange :
             /\ exchange[k].id \in DOMAIN input
             /\ exchange[k].order = input[exchange[k].id].order
             /\ Orderly(exchange[k].id)
             /\ exchange[k].id # n
             /\ stage'[exchange[k].id] \in {"replying", "hung", "done"}
        /\ \A k, l \in DOMAIN exchange : k # l => exchange[k].id # exchange[l].id
    BY <1>1, <1>2 DEF IInv, TypeOK, Gated, OrdersAreCalled
  <1>6. \A k : Orderly(k)' <=> Orderly(k)
    BY DEF Orderly, Verified, CodeOf, ScopeOf
  <1>7. CASE exchange' = exchange
    <2>1. OrdersAreCalled'
      BY <1>5, <1>6, <1>7 DEF OrdersAreCalled
    <2>. QED BY <1>3, <1>4, <1>5, <1>7, <2>1 DEF Gated
  <1>8. CASE exchange' # exchange
    <2>. DEFINE e == [id |-> n, order |-> input[n].order]
    <2>1. /\ exchange' = Append(exchange, e) /\ Orderly(n) /\ to # "snapshot"
          /\ e \in [id : Ids, order : Orders]
      BY <1>1, <1>8 DEF Ordered
    <2>2. /\ exchange' \in Seq([id : Ids, order : Orders]) /\ Len(exchange) \in Nat
          /\ DOMAIN exchange = 1 .. Len(exchange)
          /\ DOMAIN exchange' = 1 .. Len(exchange) + 1
          /\ \A k \in 1 .. Len(exchange) : exchange'[k] = exchange[k]
          /\ exchange'[Len(exchange) + 1] = e
      BY <1>5, <2>1, AppendAt
    <2>3. e.id = n /\ e.order = input[n].order
      OBVIOUS
    <2>. HIDE DEF e
    <2>4. \A k \in DOMAIN exchange' :
            \/ k \in DOMAIN exchange /\ exchange'[k] = exchange[k]
            \/ k = Len(exchange) + 1 /\ exchange'[k] = e
      BY <2>2
    <2>5. ASSUME NEW k \in DOMAIN exchange'
          PROVE  /\ exchange'[k].id \in DOMAIN input
                 /\ exchange'[k].order = input[exchange'[k].id].order
                 /\ Orderly(exchange'[k].id)
                 /\ stage'[exchange'[k].id] \in {"replying", "hung", "done"}
      BY <1>2, <1>5, <2>1, <2>3, <2>4
    <2>6. ASSUME NEW k \in DOMAIN exchange', NEW l \in DOMAIN exchange', k # l
          PROVE  exchange'[k].id # exchange'[l].id
      BY <1>5, <2>3, <2>4, <2>6
    <2>7. OrdersAreCalled'
      BY <1>6, <2>5, <2>6 DEF OrdersAreCalled
    <2>. QED BY <1>3, <1>4, <2>2, <2>7 DEF Gated
  <1>. QED BY <1>7, <1>8

LEMMA AcquireStep ==
  ASSUME IInv, NEW n \in Ids, Acquire(n)
  PROVE  IInv'
  <1>1. /\ stage[n] = "queued" /\ free > 0 /\ free' = free - 1
        /\ stage' = [stage EXCEPT ![n] = "calling"]
        /\ UNCHANGED <<loop, input, outcome, channel, writer, pusher, stdout, upstream, since>>
    BY DEF Acquire, Taken
  <1>2. TypeOK'
    BY <1>1, ServeAssumption DEF IInv, TypeOK, Stages, upstream
  <1>3. /\ LinesHaveStages' /\ Replies' /\ WriterEndsLast'
        /\ Busy' = Busy \cup {n}
    BY <1>1, <1>2, TaskMoves DEF Working
  <1>4. PermitsAreHeld'
    <2>1. n \notin Busy
      BY <1>1 DEF Busy
    <2>2. Cardinality(Busy') = Cardinality(Busy) + 1
      BY <1>3, <2>1, BusyFinite, FS_AddElement
    <2>. QED BY <1>1, <2>2, BusyFinite, ServeAssumption DEF IInv, PermitsAreHeld, TypeOK
  <1>5. RepliesToOwn'
    BY <1>1 DEF IInv, RepliesToOwn
  <1>6. Gated'
    <2>1. NoNewPreview
      BY <1>1 DEF NoNewPreview, Sent
    <2>2. \A k \in Ids : stage[k] \in {"replying", "hung", "done"} =>
                          stage'[k] \in {"replying", "hung", "done"}
      BY <1>1 DEF IInv, TypeOK
    <2>. QED BY <1>1, <2>1, <2>2, GatedStays DEF IInv, upstream
  <1>. QED BY <1>2, <1>3, <1>4, <1>5, <1>6 DEF IInv

\* A call's request, and its order.
LEMMA CallingLine ==
  ASSUME IInv, NEW n \in Ids, stage[n] \in {"calling", "snapshot"}
  PROVE  /\ n \in DOMAIN input /\ input[n] \in Lines
         /\ input[n].kind \in {"order", "post"} => input[n].order \in Orders
         /\ Orderly(n) => input[n].order \in Orders
  <1>1. DOMAIN input = 1 .. Len(input) /\ Len(input) \in Nat
    BY NoneIsNoId DEF IInv
  <1>2. n \in DOMAIN input
    BY <1>1 DEF IInv, LinesHaveStages, Ids
  <1>3. input[n] \in Requests
    BY <1>1, <1>2, ElementOfSeq DEF IInv, TypeOK
  <1>4. /\ input[n] \in Lines
        /\ input[n].kind \in {"order", "post"} => input[n].order # None
    BY <1>3, ServeAssumption DEF Requests
  <1>. QED BY <1>2, <1>4 DEF Lines, Orderly

LEMMA HangStep ==
  ASSUME IInv, NEW n \in Ids, Hang(n)
  PROVE  IInv'
  <1>1. /\ stage[n] \in {"calling", "snapshot"}
        /\ stage' = [stage EXCEPT ![n] = "hung"]
        /\ exchange' = exchange \/ (Orderly(n) /\ Ordered(n))
        /\ UNCHANGED <<loop, input, outcome, free, channel, writer, pusher, stdout, tick,
                       subscribed, feed, since>>
    BY DEF Hang
  <1>2. Gated' /\ exchange' \in Seq([id : Ids, order : Orders])
    BY <1>1, CallingLine, GatedCall
  <1>3. TypeOK'
    BY <1>1, <1>2 DEF IInv, TypeOK, Stages
  <1>4. /\ LinesHaveStages' /\ Replies' /\ WriterEndsLast'
        /\ Busy' = Busy \cup {n}
    BY <1>1, <1>3, TaskMoves DEF Working
  <1>5. Busy' = Busy
    BY <1>1, <1>4 DEF Busy
  <1>6. PermitsAreHeld' /\ RepliesToOwn'
    BY <1>1, <1>5 DEF IInv, PermitsAreHeld, RepliesToOwn
  <1>. QED BY <1>2, <1>3, <1>4, <1>6 DEF IInv

\* What a call can change.
LEMMA CallEffect ==
  ASSUME IInv, NEW n \in Ids, Call(n)
  PROVE  /\ stage[n] \in {"calling", "snapshot"}
         /\ \E to \in {"snapshot", "replying"} :
              /\ stage' = [stage EXCEPT ![n] = to]
              /\ exchange' = exchange \/ (Orderly(n) /\ Ordered(n) /\ to # "snapshot")
         /\ \/ outcome' = outcome
            \/ \E m \in Messages : /\ m.id = n /\ outcome' = [outcome EXCEPT ![n] = m]
                                   /\ Uncoded(m)
         /\ subscribed' \in BOOLEAN /\ since' \subseteq Ids
         /\ UNCHANGED <<loop, input, free, channel, writer, pusher, stdout, tick, feed>>
  <1>1. /\ stage[n] \in {"calling", "snapshot"}
        /\ UNCHANGED <<loop, input, free, channel, writer, pusher, stdout>>
    BY DEF Call
  <1>2. /\ n \in DOMAIN input /\ input[n] \in Lines
        /\ input[n].kind \in {"order", "post"} => input[n].order \in Orders
    BY <1>1, CallingLine
  <1>3. Reply(n) \in Messages /\ Reply(n).id = n /\ Uncoded(Reply(n))
    BY DEF Reply, Messages, Uncoded
  <1>4. CASE CallPlain(n)
    BY <1>1, <1>3, <1>4 DEF CallPlain, Settle, upstream, IInv, TypeOK
  <1>5. CASE QuoteSubscribe(n)
    <2>1. \A t \in {tick, None} : LET m == [Reply(n) EXCEPT !.tick = t]
                                 IN  m \in Messages /\ m.id = n /\ Uncoded(m)
      BY DEF Reply, Messages, Uncoded, IInv, TypeOK
    <2>2. /\ \E to \in {"snapshot", "replying"} : stage' = [stage EXCEPT ![n] = to]
          /\ \/ outcome' = outcome
             \/ \E m \in Messages : /\ m.id = n /\ outcome' = [outcome EXCEPT ![n] = m]
                                    /\ Uncoded(m)
      BY <1>3, <1>5, <2>1 DEF QuoteSubscribe, Settle
    <2>3. /\ subscribed' \in BOOLEAN /\ since' \subseteq Ids
          /\ UNCHANGED <<tick, feed, exchange>>
      BY <1>5 DEF QuoteSubscribe, IInv, TypeOK
    <2>. QED BY <1>1, <2>2, <2>3
  <1>6. CASE CallUnsubscribe(n)
    BY <1>1, <1>3, <1>6 DEF CallUnsubscribe, Settle, IInv, TypeOK
  <1>7. CASE CallOrder(n)
    <2>. DEFINE m == [Reply(n) EXCEPT !.shown = input[n].order]
    <2>1. input[n].kind = "order" /\ input[n].order \in Orders
      BY <1>2, <1>7 DEF CallOrder
    <2>2. m \in Messages /\ m.id = n /\ (input[n].code = None => Uncoded(m))
      BY <1>2, <2>1 DEF Reply, Messages, Uncoded
    <2>. HIDE DEF m
    <2>3. /\ stage' = [stage EXCEPT ![n] = "replying"]
          /\ \E r \in Messages : /\ r.id = n /\ outcome' = [outcome EXCEPT ![n] = r]
                                 /\ Uncoded(r)
      BY <1>3, <1>7, <2>2 DEF CallOrder, Settle, m
    <2>4. exchange' = exchange \/ (Orderly(n) /\ Ordered(n))
      BY <1>7 DEF CallOrder
    <2>5. UNCHANGED <<tick, subscribed, feed, since>>
      BY <1>7 DEF CallOrder
    <2>. QED BY <1>1, <2>3, <2>4, <2>5 DEF IInv, TypeOK
  <1>8. CASE CallPost(n)
    <2>1. Orderly(n) /\ Ordered(n) /\ UNCHANGED <<tick, subscribed, feed, since>>
      BY <1>8 DEF CallPost, Orderly
    <2>2. /\ stage' = [stage EXCEPT ![n] = "replying"]
          /\ outcome' = [outcome EXCEPT ![n] = Reply(n)]
      BY <1>8 DEF CallPost, Settle
    <2>. QED BY <1>1, <1>3, <2>1, <2>2 DEF IInv, TypeOK
  <1>. QED BY <1>4, <1>5, <1>6, <1>7, <1>8 DEF Call

LEMMA CallStep ==
  ASSUME IInv, NEW n \in Ids, Call(n)
  PROVE  IInv'
  <1>1. /\ stage[n] \in {"calling", "snapshot"}
        /\ UNCHANGED <<loop, input, free, channel, writer, pusher, stdout, tick, feed>>
        /\ subscribed' \in BOOLEAN /\ since' \subseteq Ids
    BY CallEffect
  <1>2. PICK to \in {"snapshot", "replying"} :
          /\ stage' = [stage EXCEPT ![n] = to]
          /\ exchange' = exchange \/ (Orderly(n) /\ Ordered(n) /\ to # "snapshot")
    BY CallEffect
  <1>3. \/ outcome' = outcome
        \/ \E m \in Messages : /\ m.id = n /\ outcome' = [outcome EXCEPT ![n] = m]
                               /\ Uncoded(m)
    BY CallEffect
  <1>4. outcome' \in [Ids -> Messages] /\ RepliesToOwn'
    <2>1. CASE outcome' = outcome
      BY <2>1 DEF IInv, TypeOK, RepliesToOwn
    <2>2. CASE \E m \in Messages : m.id = n /\ outcome' = [outcome EXCEPT ![n] = m]
      BY <2>2 DEF IInv, TypeOK, RepliesToOwn
    <2>. QED BY <1>3, <2>1, <2>2
  <1>5. Gated' /\ exchange' \in Seq([id : Ids, order : Orders])
    <2>1. n \in DOMAIN input /\ (Orderly(n) => input[n].order \in Orders)
      BY <1>1, CallingLine
    <2>. QED BY <1>1, <1>2, <1>3, <2>1, GatedCall
  <1>6. TypeOK'
    BY <1>1, <1>2, <1>4, <1>5 DEF IInv, TypeOK, Stages
  <1>7. /\ LinesHaveStages' /\ Replies' /\ WriterEndsLast'
        /\ Busy' = Busy \cup {n}
    BY <1>1, <1>2, <1>6, TaskMoves DEF Working
  <1>8. Busy' = Busy
    BY <1>1, <1>7 DEF Busy
  <1>9. PermitsAreHeld'
    BY <1>1, <1>8 DEF IInv, PermitsAreHeld
  <1>. QED BY <1>4, <1>5, <1>6, <1>7, <1>9 DEF IInv

LEMMA FinishStep ==
  ASSUME IInv, NEW n \in Ids, Finish(n)
  PROVE  IInv'
  <1>1. /\ stage[n] = "replying" /\ free' = free + 1
        /\ stage' = [stage EXCEPT ![n] = "done"]
        /\ UNCHANGED <<loop, input, outcome, writer, pusher, stdout, upstream, since>>
        /\ IF input[n].owed THEN Send(outcome[n]) ELSE UNCHANGED channel
    BY DEF Finish, Returned, SendReply
  <1>2. stage'[n] = "done" /\ \A k \in Ids : k # n => stage'[k] = stage[k]
    BY <1>1 DEF IInv, TypeOK
  <1>3. DOMAIN input = 1 .. Len(input) /\ Len(input) \in Nat /\ DOMAIN input \subseteq Ids
    BY NoneIsNoId DEF IInv
  <1>4. n \in DOMAIN input
    BY <1>1, <1>3 DEF IInv, LinesHaveStages, Ids
  <1>5. outcome[n] \in Messages /\ outcome[n].id = n
    BY DEF IInv, TypeOK, RepliesToOwn
  <1>6. channel' \in Seq(Messages)
    BY <1>1, <1>5, SendAppends DEF IInv, TypeOK
  <1>7. n \in Busy /\ Busy' = Busy \ {n}
    BY <1>1, <1>2 DEF Busy
  <1>8. Cardinality(Busy') = Cardinality(Busy) - 1 /\ Cardinality(Busy') \in Nat
    BY <1>7, BusyFinite, FS_RemoveElement, FS_CardinalityType
  <1>9. PermitsAreHeld' /\ free' \in 0 .. Permits
    BY <1>1, <1>8, BusyFinite, ServeAssumption DEF IInv, PermitsAreHeld, TypeOK
  <1>10. TypeOK'
    BY <1>1, <1>6, <1>9 DEF IInv, TypeOK, Stages, upstream
  <1>11. LinesHaveStages'
    BY <1>1, <1>2 DEF IInv, LinesHaveStages
  <1>12. RepliesToOwn' /\ Gated'
    <2>1. RepliesToOwn'
      BY <1>1 DEF IInv, RepliesToOwn
    <2>2. NoNewPreview
      BY <1>1, <1>5, SendShows DEF IInv
    <2>3. \A k \in Ids : stage[k] \in {"replying", "hung", "done"} =>
                          stage'[k] \in {"replying", "hung", "done"}
      BY <1>2
    <2>. QED BY <1>1, <2>1, <2>2, <2>3, GatedStays DEF IInv, upstream
  <1>13. Lasting /\ OnlyDone(n)
    BY <1>1, <1>2, <1>3 DEF Lasting, OnlyDone
  <1>14. writer # "ended"
    BY <1>1 DEF IInv, WriterEndsLast, Working
  <1>15. Replies'
    <2>1. CASE input[n].owed
      BY <1>1, <1>2, <1>4, <1>5, <1>10, <1>13, <1>14, <2>1, RepliedOnce DEF IInv
    <2>2. CASE ~input[n].owed
      <3>1. OnlyDone(None)
        BY <1>1, <1>13, <2>2 DEF OnlyDone
      <3>. QED BY <1>1, <1>10, <1>13, <2>2, <3>1, NotReplied DEF IInv
    <2>. QED BY <2>1, <2>2
  <1>16. WriterEndsLast'
    BY <1>1, <1>14 DEF IInv, WriterEndsLast
  <1>. QED BY <1>9, <1>10, <1>11, <1>12, <1>15, <1>16 DEF IInv

----------------------------------------------------------------------------
(* No change of the quote is lost on a subscriber.                         *)

\* The quote as it is was written, or is about to be.
Current ==
  \/ \E i \in DOMAIN Sent : Sent[i].tick = tick
  \/ \E i \in DOMAIN feed : feed[i] = tick

\* Pushes still reach stdout.
Listening == writer = "up" /\ pusher = "up"

\* While subscriptions stand the symbol is subscribed, and each was made by a
\* call that has come past it.
SinceSubscribed ==
  /\ since # {} => subscribed
  /\ \A n \in since : stage[n] \in {"snapshot", "replying", "done", "hung"}

Answered(n) == \E i \in DOMAIN Sent : Sent[i].id = n /\ Sent[i].tick # None

\* A snapshot about to be sent is the quote as it is, unless a later change is on
\* its way; so once one is sent.
SnapshotsAreCurrent ==
  Listening => \A n \in since :
    /\ stage[n] = "replying" => outcome[n].tick \in {None, tick} \/ Current
    /\ Answered(n) => Current

TickInv == SinceSubscribed /\ SnapshotsAreCurrent

\* Sending what has no quote in it.
Quoteless ==
  /\ \A i \in DOMAIN Sent : i \in DOMAIN Sent' /\ Sent'[i] = Sent[i]
  /\ \A i \in DOMAIN Sent' : i \in DOMAIN Sent \/ Sent'[i].tick = None

LEMMA QuotelessSend ==
  ASSUME TypeOK, NEW m \in Messages, m.tick = None, UNCHANGED stdout,
         Send(m) \/ UNCHANGED channel
  PROVE  Quoteless
  <1>1. CASE UNCHANGED channel
    BY <1>1 DEF Quoteless, Sent
  <1>2. CASE Send(m)
    <2>1. IF writer = "up" THEN SentPlus(m) ELSE Sent' = Sent
      BY <1>2, SendAppends
    <2>2. CASE writer = "up"
      <3>1. /\ DOMAIN Sent = 1 .. Len(Sent) /\ Len(Sent) \in Nat
            /\ DOMAIN Sent' = 1 .. Len(Sent) + 1 /\ Sent'[Len(Sent) + 1] = m
            /\ \A i \in 1 .. Len(Sent) : Sent'[i] = Sent[i]
        BY <2>1, <2>2, SentType DEF SentPlus
      <3>2. \A i \in 1 .. Len(Sent) + 1 : i \in 1 .. Len(Sent) \/ i = Len(Sent) + 1
        BY <3>1
      <3>. QED BY <3>1, <3>2 DEF Quoteless
    <2>3. CASE writer # "up"
      BY <2>1, <2>3 DEF Quoteless
    <2>. QED BY <2>2, <2>3
  <1>. QED BY <1>1, <1>2

\* Steps that leave the quote, the feed and the subscribers' tasks alone.
LEMMA TickAside ==
  ASSUME TickInv, UNCHANGED <<tick, feed, since, subscribed>>,
         Listening' => Listening,
         \A n \in since : stage'[n] = stage[n] /\ outcome'[n] = outcome[n],
         Listening' => Quoteless
  PROVE  TickInv'
  <1>1. SinceSubscribed'
    BY DEF TickInv, SinceSubscribed
  <1>2. SnapshotsAreCurrent'
    <2>. SUFFICES ASSUME Listening' PROVE SnapshotsAreCurrent'
      BY DEF SnapshotsAreCurrent
    <2>1. Current => Current'
      BY DEF Current, Quoteless
    <2>2. \A n \in since : Answered(n)' => Answered(n)
      BY DEF Answered, Quoteless
    <2>. QED BY <2>1, <2>2 DEF TickInv, SnapshotsAreCurrent
  <1>. QED BY <1>1, <1>2 DEF TickInv

\* A subscriber's task is not one of those that have not called yet.
LEMMA TickTask ==
  ASSUME IInv, TickInv, NEW n \in Ids, n \notin since,
         NEW to, stage' = [stage EXCEPT ![n] = to],
         \/ outcome' = outcome
         \/ \E m \in Messages : outcome' = [outcome EXCEPT ![n] = m],
         UNCHANGED <<tick, feed, since, subscribed, writer, pusher, stdout, channel>>
  PROVE  TickInv'
  <1>1. \A k \in since : stage'[k] = stage[k] /\ outcome'[k] = outcome[k]
    BY DEF IInv, TypeOK
  <1>2. Quoteless
    BY DEF Quoteless, Sent
  <1>. QED BY <1>1, <1>2, TickAside DEF Listening

LEMMA TickReads ==
  ASSUME IInv, TickInv, NEW line \in Requests, ReadLine(line) \/ ReadShutdown(line)
  PROVE  TickInv'
  <1>. DEFINE n == Len(input) + 1
  <1>1. /\ Writes(line)
        /\ UNCHANGED <<outcome, free, writer, stdout, tick, feed, since, subscribed>>
        /\ pusher' \in {pusher, "aborted"}
    BY DEF ReadLine, ReadShutdown, StopPusher, upstream
  <1>2. n \in Ids /\ stage[n] = "unread"
    <2>1. n \in Ids /\ Len(input) \in Nat
      BY <1>1, WrittenLine, LenProperties DEF IInv, TypeOK
    <2>. QED BY <2>1 DEF IInv, LinesHaveStages, Ids
  <1>3. \E to \in {"done", "queued"} : stage' = [stage EXCEPT ![n] = to]
    BY DEF ReadLine, ReadShutdown
  <1>4. \A k \in since : stage'[k] = stage[k] /\ outcome'[k] = outcome[k]
    BY <1>1, <1>2, <1>3 DEF IInv, TypeOK, TickInv, SinceSubscribed
  <1>5. /\ Reply(None) \in Messages /\ Reply(None).tick = None
        /\ Reply(n) \in Messages /\ Reply(n).tick = None
    BY <1>2 DEF Reply, Messages
  <1>6. Send(Reply(None)) \/ Send(Reply(n)) \/ UNCHANGED channel
    BY DEF ReadLine, ReadShutdown
  <1>7. Quoteless
    BY <1>1, <1>5, <1>6, QuotelessSend DEF IInv
  <1>. QED BY <1>1, <1>4, <1>7, TickAside DEF Listening

\* The loop, the writer and the pusher's stop.
LEMMA TickLoop ==
  ASSUME IInv, TickInv,
         \/ ReadEof \/ ReadError \/ Drained \/ DrainTimesOut \/ PusherStops
         \/ Write \/ WriteFails \/ WriterEnds \/ UNCHANGED vars
  PROVE  TickInv'
  <1>1. /\ UNCHANGED <<tick, feed, since, subscribed, stage, outcome>>
        /\ Listening' => Listening
    BY DEF ReadEof, ReadError, Drained, DrainTimesOut, PusherStops, Write, WriteFails,
           WriterEnds, vars, tasks, upstream, StopPusher, Listening
  <1>2. Listening' => Quoteless
    <2>1. CASE Write
      BY <2>1, WriteMoves DEF Quoteless, IInv
    <2>2. CASE WriteFails
      BY <2>2 DEF WriteFails, Listening
    <2>3. CASE \/ ReadEof \/ ReadError \/ Drained \/ DrainTimesOut \/ PusherStops
               \/ WriterEnds \/ UNCHANGED vars
      <3>1. UNCHANGED <<stdout, channel>>
        BY <2>3 DEF ReadEof, ReadError, Drained, DrainTimesOut, PusherStops, WriterEnds, vars
      <3>. QED BY <3>1 DEF Quoteless, Sent
    <2>. QED BY <2>1, <2>2, <2>3
  <1>. QED BY <1>1, <1>2, TickAside

\* A push moves the oldest change from the feed to the channel.
LEMMA TickPush ==
  ASSUME IInv, TickInv, Push
  PROVE  TickInv'
  <1>. DEFINE m == [Reply(None) EXCEPT !.tick = Head(feed)]
  <1>1. /\ UNCHANGED <<stage, outcome, writer, stdout, tick, since, subscribed>>
        /\ Send(m) /\ feed' = Tail(feed) /\ feed # <<>>
        /\ pusher # "stopped" /\ (pusher' = IF writer = "up" THEN pusher ELSE "stopped")
    BY DEF Push, tasks
  <1>2. /\ Head(feed) \in 0 .. MaxTicks /\ Head(feed) = feed[1]
        /\ feed' \in Seq(0 .. MaxTicks) /\ Len(feed') = Len(feed) - 1
        /\ \A i \in 1 .. Len(feed') : feed'[i] = feed[i + 1]
        /\ DOMAIN feed = 1 .. Len(feed) /\ Len(feed) \in Nat
        /\ DOMAIN feed' = 1 .. Len(feed) - 1
    <2>1. feed \in Seq(0 .. MaxTicks)
      BY DEF IInv, TypeOK
    <2>2. /\ Head(feed) \in 0 .. MaxTicks /\ Tail(feed) \in Seq(0 .. MaxTicks)
          /\ Len(Tail(feed)) = Len(feed) - 1
          /\ \A i \in 1 .. Len(Tail(feed)) : Tail(feed)[i] = feed[i + 1]
      BY <1>1, <2>1, HeadTailProperties
    <2>3. DOMAIN feed = 1 .. Len(feed) /\ Len(feed) \in Nat
          /\ DOMAIN Tail(feed) = 1 .. Len(Tail(feed))
      BY <2>1, <2>2, LenProperties
    <2>. QED BY <1>1, <2>1, <2>2, <2>3
  <1>3. m \in Messages /\ m.id = None /\ m.tick = Head(feed)
    BY <1>2 DEF Messages, Reply
  <1>. HIDE DEF m
  <1>4. SinceSubscribed'
    BY <1>1 DEF TickInv, SinceSubscribed
  <1>5. SnapshotsAreCurrent'
    <2>. SUFFICES ASSUME Listening' PROVE SnapshotsAreCurrent'
      BY DEF SnapshotsAreCurrent
    <2>1. Listening
      BY <1>1 DEF Listening
    <2>2. /\ DOMAIN Sent = 1 .. Len(Sent) /\ Len(Sent) \in Nat
          /\ DOMAIN Sent' = 1 .. Len(Sent) + 1 /\ Sent'[Len(Sent) + 1] = m
          /\ \A i \in 1 .. Len(Sent) : Sent'[i] = Sent[i]
      BY <1>1, <1>3, <2>1, SendAppends, SentType DEF SentPlus, Listening, IInv
    <2>3. ASSUME Current PROVE Current'
      <3>1. CASE \E i \in DOMAIN Sent : Sent[i].tick = tick
        <4>1. \A i \in DOMAIN Sent : i \in DOMAIN Sent'
          BY <2>2
        <4>. QED BY <1>1, <2>2, <3>1, <4>1 DEF Current
      <3>2. ASSUME NEW i \in DOMAIN feed, feed[i] = tick PROVE Current'
        <4>1. CASE i = 1
          <5>1. Len(Sent) + 1 \in DOMAIN Sent'
            BY <2>2
          <5>. QED BY <1>1, <1>2, <1>3, <2>2, <3>2, <4>1, <5>1 DEF Current
        <4>2. CASE i # 1
          <5>1. i - 1 \in 1 .. Len(feed') /\ (i - 1) + 1 = i /\ i - 1 \in DOMAIN feed'
            BY <1>2, <4>2
          <5>2. feed'[i - 1] = feed[i]
            BY <1>2, <5>1
          <5>. QED BY <1>1, <3>2, <5>1, <5>2 DEF Current
        <4>. QED BY <4>1, <4>2
      <3>. QED BY <2>3, <3>1, <3>2 DEF Current
    <2>4. ASSUME NEW n \in since, Answered(n)' PROVE Answered(n)
      <3>1. n # None
        BY NoneIsNoNumber DEF IInv, TypeOK
      <3>2. PICK i \in DOMAIN Sent' : Sent'[i].id = n /\ Sent'[i].tick # None
        BY <2>4 DEF Answered
      <3>3. i # Len(Sent) + 1
        BY <1>3, <2>2, <3>1, <3>2
      <3>4. i \in 1 .. Len(Sent)
        BY <2>2, <3>3
      <3>. QED BY <2>2, <3>2, <3>4 DEF Answered
    <2>. QED BY <1>1, <2>1, <2>3, <2>4 DEF TickInv, SnapshotsAreCurrent
  <1>. QED BY <1>4, <1>5 DEF TickInv

\* A change of the quote is pushed to whoever is subscribed.
LEMMA TickTick ==
  ASSUME IInv, TickInv, Tick
  PROVE  TickInv'
  <1>1. /\ UNCHANGED <<stage, outcome, writer, pusher, stdout, channel, since, subscribed>>
        /\ tick' = tick + 1
        /\ (feed' = IF subscribed THEN Append(feed, tick + 1) ELSE feed)
        /\ tick < MaxTicks
    BY DEF Tick, tasks
  <1>2. SinceSubscribed'
    BY <1>1 DEF TickInv, SinceSubscribed
  <1>3. since # {} => Current'
    <2>. SUFFICES ASSUME since # {} PROVE Current'
      OBVIOUS
    <2>1. feed' = Append(feed, tick + 1)
      BY <1>1 DEF TickInv, SinceSubscribed
    <2>2. tick + 1 \in 0 .. MaxTicks /\ feed \in Seq(0 .. MaxTicks)
      BY <1>1, ServeAssumption DEF IInv, TypeOK
    <2>3. /\ Len(feed) \in Nat /\ DOMAIN feed' = 1 .. Len(feed) + 1
          /\ feed'[Len(feed) + 1] = tick + 1
      BY <2>1, <2>2, AppendAt
    <2>4. Len(feed) + 1 \in DOMAIN feed'
      BY <2>3
    <2>. QED BY <1>1, <2>3, <2>4 DEF Current
  <1>4. SnapshotsAreCurrent'
    BY <1>1, <1>3 DEF SnapshotsAreCurrent
  <1>. QED BY <1>2, <1>4 DEF TickInv

\* A call has no answer yet.
LEMMA CallingUnanswered ==
  ASSUME IInv, NEW n \in Ids, stage[n] # "done"
  PROVE  ~Answered(n)
  BY NoneIsNoNumber DEF IInv, Replies, SentIsDone, Answered

\* The subscription stands before the snapshot is taken, so a change comes
\* either before the snapshot, or into the feed.
LEMMA TickCall ==
  ASSUME IInv, TickInv, NEW n \in Ids, Call(n)
  PROVE  TickInv'
  <1>1. /\ stage[n] \in {"calling", "snapshot"}
        /\ UNCHANGED <<channel, writer, pusher, stdout, tick, feed>>
    BY CallEffect
  <1>2. stage[n] = "calling" => n \notin since
    BY DEF TickInv, SinceSubscribed
  <1>3. \E to \in {"snapshot", "replying"} : stage' = [stage EXCEPT ![n] = to]
    BY CallEffect
  <1>4. \/ outcome' = outcome
        \/ \E m \in Messages : outcome' = [outcome EXCEPT ![n] = m]
    BY CallEffect
  <1>5. /\ stage'[n] \in {"snapshot", "replying"}
        /\ \A k \in Ids : k # n => stage'[k] = stage[k] /\ outcome'[k] = outcome[k]
    BY <1>3, <1>4 DEF IInv, TypeOK
  <1>6. Sent' = Sent /\ (Listening' <=> Listening) /\ (Current' <=> Current)
        /\ \A k \in Ids : Answered(k)' <=> Answered(k)
    BY <1>1 DEF Sent, Listening, Current, Answered
  <1>7. ~Answered(n)
    BY <1>1, CallingUnanswered
  <1>8. since \subseteq Ids
    BY DEF IInv, TypeOK
  <1>9. CASE UNCHANGED <<since, subscribed>> /\ n \notin since
    BY <1>1, <1>3, <1>4, <1>9, TickTask
  <1>10. CASE since' = {}
    BY <1>10 DEF TickInv, SinceSubscribed, SnapshotsAreCurrent
  <1>11. CASE /\ subscribed' = TRUE /\ since' = since \cup {n}
              /\ stage' = [stage EXCEPT ![n] = "snapshot"] /\ outcome' = outcome
    <2>1. stage'[n] = "snapshot"
      BY <1>11 DEF IInv, TypeOK
    <2>2. SinceSubscribed'
      BY <1>5, <1>8, <1>11, <2>1 DEF TickInv, SinceSubscribed
    <2>3. SnapshotsAreCurrent'
      BY <1>1, <1>5, <1>6, <1>7, <1>8, <1>11, <2>1 DEF TickInv, SnapshotsAreCurrent
    <2>. QED BY <2>2, <2>3 DEF TickInv
  <1>12. CASE /\ stage[n] = "snapshot" /\ UNCHANGED <<since, subscribed>>
              /\ \E t \in {tick, None} : Settle(n, [Reply(n) EXCEPT !.tick = t])
    <2>1. stage'[n] = "replying" /\ outcome'[n].tick \in {tick, None}
      BY <1>12 DEF IInv, TypeOK, Settle, Reply
    <2>2. SinceSubscribed'
      BY <1>5, <1>8, <1>12, <2>1 DEF TickInv, SinceSubscribed
    <2>3. SnapshotsAreCurrent'
      BY <1>1, <1>5, <1>6, <1>7, <1>8, <1>12, <2>1 DEF TickInv, SnapshotsAreCurrent
    <2>. QED BY <2>2, <2>3 DEF TickInv
  <1>13. CASE CallPlain(n)
    BY <1>2, <1>9, <1>13 DEF CallPlain, upstream
  <1>14. CASE CallOrder(n)
    BY <1>2, <1>9, <1>14 DEF CallOrder
  <1>15. CASE CallUnsubscribe(n)
    BY <1>2, <1>9, <1>10, <1>15 DEF CallUnsubscribe
  <1>16. CASE QuoteSubscribe(n)
    BY <1>2, <1>9, <1>11, <1>12, <1>16 DEF QuoteSubscribe
  <1>17. CASE CallPost(n)
    BY <1>2, <1>9, <1>17 DEF CallPost
  <1>. QED BY <1>13, <1>14, <1>15, <1>16, <1>17 DEF Call

\* A call that takes its permit, or never returns.
LEMMA TickWaits ==
  ASSUME IInv, TickInv, NEW n \in Ids, Acquire(n) \/ Hang(n)
  PROVE  TickInv'
  <1>1. /\ UNCHANGED <<outcome, channel, writer, pusher, stdout, tick, feed, since, subscribed>>
        /\ \/ stage[n] = "queued" /\ stage' = [stage EXCEPT ![n] = "calling"]
           \/ stage' = [stage EXCEPT ![n] = "hung"]
    BY DEF Acquire, Hang, upstream
  <1>2. CASE n \notin since
    BY <1>1, <1>2, TickTask
  <1>3. CASE n \in since
    <2>1. stage' = [stage EXCEPT ![n] = "hung"]
      BY <1>1, <1>3 DEF TickInv, SinceSubscribed
    <2>2. stage'[n] = "hung" /\ \A k \in Ids : k # n => stage'[k] = stage[k]
      BY <2>1 DEF IInv, TypeOK
    <2>3. Current' = Current /\ \A k \in Ids : Answered(k)' = Answered(k)
      BY <1>1 DEF Current, Answered, Sent
    <2>4. since \subseteq Ids
      BY DEF IInv, TypeOK
    <2>. QED BY <1>1, <2>2, <2>3, <2>4
         DEF TickInv, SinceSubscribed, SnapshotsAreCurrent, Listening
  <1>. QED BY <1>2, <1>3

\* The reply is sent: its quote is the current one, or a later one is under way.
LEMMA TickFinish ==
  ASSUME IInv, TickInv, NEW n \in Ids, Finish(n)
  PROVE  TickInv'
  <1>1. /\ stage[n] = "replying" /\ stage' = [stage EXCEPT ![n] = "done"]
        /\ UNCHANGED <<outcome, writer, pusher, stdout, tick, feed, since, subscribed>>
        /\ Send(outcome[n]) \/ UNCHANGED channel
    BY DEF Finish, SendReply, upstream
  <1>2. /\ outcome[n] \in Messages /\ outcome[n].id = n /\ since \subseteq Ids
        /\ stage'[n] = "done" /\ \A k \in Ids : k # n => stage'[k] = stage[k]
    BY <1>1 DEF IInv, TypeOK, RepliesToOwn
  <1>3. SinceSubscribed'
    BY <1>1, <1>2 DEF TickInv, SinceSubscribed
  <1>4. SnapshotsAreCurrent'
    <2>. SUFFICES ASSUME Listening' PROVE SnapshotsAreCurrent'
      BY DEF SnapshotsAreCurrent
    <2>1. Listening
      BY <1>1 DEF Listening
    <2>2. CASE UNCHANGED channel
      <3>1. Current' = Current /\ \A k \in Ids : Answered(k)' = Answered(k)
        BY <1>1, <2>2 DEF Current, Answered, Sent
      <3>. QED BY <1>1, <1>2, <2>1, <3>1 DEF TickInv, SnapshotsAreCurrent
    <2>3. CASE Send(outcome[n])
      <3>1. /\ DOMAIN Sent = 1 .. Len(Sent) /\ Len(Sent) \in Nat
            /\ DOMAIN Sent' = 1 .. Len(Sent) + 1 /\ Sent'[Len(Sent) + 1] = outcome[n]
            /\ \A i \in 1 .. Len(Sent) : Sent'[i] = Sent[i]
        BY <1>1, <1>2, <2>1, <2>3, SendAppends, SentType DEF SentPlus, Listening, IInv
      <3>2. /\ \A i \in DOMAIN Sent : i \in DOMAIN Sent'
            /\ \A i \in DOMAIN Sent' : i \in DOMAIN Sent \/ i = Len(Sent) + 1
            /\ Len(Sent) + 1 \in DOMAIN Sent'
        BY <3>1
      <3>3. Current => Current'
        BY <1>1, <3>1, <3>2 DEF Current
      <3>4. outcome[n].tick = tick => Current'
        BY <1>1, <3>1, <3>2 DEF Current
      <3>5. ASSUME NEW k \in since, Answered(k)' PROVE Current'
        <4>1. PICK i \in DOMAIN Sent' : Sent'[i].id = k /\ Sent'[i].tick # None
          BY <3>5 DEF Answered
        <4>2. CASE i \in DOMAIN Sent
          <5>1. Answered(k)
            BY <3>1, <4>1, <4>2 DEF Answered
          <5>. QED BY <2>1, <3>3, <5>1 DEF TickInv, SnapshotsAreCurrent
        <4>3. CASE i = Len(Sent) + 1
          <5>1. k = n /\ outcome[n].tick # None
            BY <1>2, <3>1, <4>1, <4>3
          <5>. QED BY <1>1, <2>1, <3>3, <3>4, <5>1 DEF TickInv, SnapshotsAreCurrent
        <4>. QED BY <3>2, <4>2, <4>3
      <3>. QED BY <1>1, <1>2, <2>1, <3>3, <3>5 DEF TickInv, SnapshotsAreCurrent
    <2>. QED BY <1>1, <2>2, <2>3
  <1>. QED BY <1>3, <1>4 DEF TickInv

LEMMA NextTickInv ==
  ASSUME IInv, TickInv, [Next]_vars
  PROVE  TickInv'
  <1>1. CASE \E line \in Requests : ReadLine(line) \/ ReadShutdown(line)
    BY <1>1, TickReads
  <1>2. CASE \/ ReadEof \/ ReadError \/ Drained \/ DrainTimesOut \/ PusherStops
             \/ Write \/ WriteFails \/ WriterEnds \/ UNCHANGED vars
    BY <1>2, TickLoop
  <1>3. CASE Push \/ Tick
    BY <1>3, TickPush, TickTick
  <1>4. CASE \E n \in Ids : Task(n) \/ Hang(n)
    BY <1>4, TickWaits, TickCall, TickFinish DEF Task
  <1>. QED BY <1>1, <1>2, <1>3, <1>4 DEF Next

----------------------------------------------------------------------------
(* The theorems.                                                           *)

LEMMA InitIInv ==
  ASSUME Init
  PROVE  IInv
  <1>1. /\ <<>> \in Seq(Requests) /\ <<>> \in Seq(Messages)
        /\ <<>> \in Seq(0 .. MaxTicks) /\ <<>> \in Seq([id : Ids, order : Orders])
        /\ Len(<<>>) = 0
    OBVIOUS
  <1>2. \A n \in Ids : Reply(n) \in Messages
    BY DEF Reply, Messages
  <1>3. TypeOK
    <2>1. input \in Seq(Requests) /\ Len(input) <= MaxLines
      BY <1>1, ServeAssumption DEF Init
    <2>2. stage \in [Ids -> Stages] /\ outcome \in [Ids -> Messages]
      BY <1>2 DEF Init, Stages
    <2>3. /\ channel \in Seq(Messages) /\ stdout \in Seq(Messages)
          /\ feed \in Seq(0 .. MaxTicks) /\ exchange \in Seq([id : Ids, order : Orders])
      BY <1>1 DEF Init
    <2>4. free \in 0 .. Permits /\ tick \in 0 .. MaxTicks /\ since \subseteq Ids
      BY ServeAssumption DEF Init
    <2>5. subscribed \in BOOLEAN
      BY DEF Init
    <2>. QED BY <2>1, <2>2, <2>3, <2>4, <2>5 DEF Init, TypeOK
  <1>4. LinesHaveStages
    BY <1>1 DEF Init, LinesHaveStages, Ids
  <1>5. RepliesToOwn
    BY DEF Init, RepliesToOwn, Reply
  <1>6. PermitsAreHeld
    <2>1. Busy = {}
      BY DEF Init, Busy
    <2>. QED BY <2>1, FS_EmptySet, ServeAssumption DEF Init, PermitsAreHeld
  <1>7. DOMAIN Sent = {} /\ DOMAIN input = {} /\ DOMAIN exchange = {}
    <2>1. DOMAIN Sent = 1 .. 0
      BY <1>1, <1>3, SentType DEF Init
    <2>. QED BY <2>1 DEF Init
  <1>8. Replies /\ Gated
    <2>1. \A n \in Ids : Uncoded(outcome[n])
      BY DEF Init, Uncoded, Reply
    <2>. QED BY <1>7, <2>1 DEF Replies, SentIsDone, SentOnce, DoneIsSent, Gated,
                               CodesWereShown, PreviewsAreUncoded, OrdersAreCalled
  <1>9. WriterEndsLast
    BY DEF Init, WriterEndsLast
  <1>. QED BY <1>3, <1>4, <1>5, <1>6, <1>8, <1>9 DEF IInv

LEMMA NextIInv ==
  ASSUME IInv, [Next]_vars
  PROVE  IInv'
  <1>1. CASE UNCHANGED vars
    <2>1. UNCHANGED <<loop, input, stage, outcome, free, channel, writer, pusher, stdout,
                      tick, subscribed, feed, exchange, since>>
      BY <1>1 DEF vars, tasks, upstream
    <2>2. TypeOK'
      BY <2>1 DEF IInv, TypeOK
    <2>3. LinesHaveStages' /\ RepliesToOwn'
      BY <2>1 DEF IInv, LinesHaveStages, RepliesToOwn
    <2>4. Busy' = Busy
      BY <2>1 DEF Busy
    <2>5. PermitsAreHeld'
      BY <2>1, <2>4 DEF IInv, PermitsAreHeld
    <2>6. Sent' = Sent
      BY <2>1 DEF Sent
    <2>7. Replies'
      BY <2>1, <2>6 DEF IInv, Replies, SentIsDone, SentOnce, DoneIsSent
    <2>8. WriterEndsLast'
      BY <2>1 DEF IInv, WriterEndsLast, Working
    <2>9. Gated'
      <3>1. NoNewPreview
        BY <2>6 DEF NoNewPreview
      <3>. QED BY <2>1, <3>1, GatedStays DEF IInv
    <2>. QED BY <2>2, <2>3, <2>5, <2>7, <2>8, <2>9 DEF IInv
  <1>2. CASE \E line \in Requests : ReadLine(line) \/ ReadShutdown(line)
    BY <1>2, ReadLineStep, ReadShutdownStep
  <1>3. CASE ReadEof \/ ReadError \/ Drained \/ DrainTimesOut \/ PusherStops \/ Tick
    BY <1>3, LoopStep
  <1>4. CASE Write \/ WriteFails \/ WriterEnds \/ Push
    BY <1>4, WriteStep, WriteFailsStep, WriterEndsStep, PushStep
  <1>5. CASE \E n \in Ids : Task(n) \/ Hang(n)
    BY <1>5, AcquireStep, CallStep, FinishStep, HangStep DEF Task
  <1>. QED BY <1>1, <1>2, <1>3, <1>4, <1>5 DEF Next

\* The inductive invariant holds of every behaviour.
THEOREM Invariant == Spec => []IInv
  <1>1. Init => IInv
    BY InitIInv
  <1>2. IInv /\ [Next]_vars => IInv'
    BY NextIInv
  <1>. QED BY <1>1, <1>2, PTL DEF Spec

\* For any clients and bounds the state keeps its types, the permits among them
\* (cli/serve/mod.rs:184).
THEOREM TypeCorrect == Spec => []TypeOK
  <1>1. IInv => TypeOK
    BY DEF IInv
  <1>. QED BY <1>1, Invariant, PTL

\* However many permits and clients: never more requests upstream than permits
\* (cli/serve/mod.rs:55).
THEOREM PacedTheorem == Spec => []Paced
  <1>1. IInv => Paced
    <2>1. SUFFICES ASSUME IInv
                   PROVE  Cardinality(Busy) <= Permits
      BY DEF Paced, Busy
    <2>. QED BY <2>1, BusyFinite, ServeAssumption DEF IInv, PermitsAreHeld, TypeOK
  <1>. QED BY <1>1, Invariant, PTL

\* No request is answered twice, and only what asked for an answer is answered
\* (cli/serve/mod.rs:23).
THEOREM AnsweredOnceTheorem == Spec => []AnsweredOnce
  <1>1. IInv => AnsweredOnce
    BY DEF IInv, Replies, SentIsDone, SentOnce, AnsweredOnce
  <1>. QED BY <1>1, Invariant, PTL

\* A drain that is not cut short leaves no request without its answer
\* (cli/serve/mod.rs:241).
THEOREM DrainIsCompleteTheorem == Spec => []DrainIsComplete
  <1>1. ASSUME IInv
        PROVE  DrainIsComplete
    <2>1. SUFFICES ASSUME loop = "drained", writer # "gone",
                          NEW n \in DOMAIN input, input[n].owed, input[n].kind # "garbage"
                   PROVE  \E i \in DOMAIN stdout : stdout[i].id = n
      BY DEF DrainIsComplete
    <2>2. writer = "ended"
      BY <1>1, <2>1 DEF IInv, WriterEndsLast, TypeOK
    <2>3. channel = <<>> /\ ~Working(n)
      BY <1>1, <2>2, NoneIsNoId DEF IInv, WriterEndsLast
    <2>4. stage[n] # "unread" /\ stage[n] \in Stages
      BY <1>1, NoneIsNoId DEF IInv, LinesHaveStages, TypeOK
    <2>5. stage[n] = "done"
      BY <2>3, <2>4 DEF Working, Stages
    <2>6. PICK i \in DOMAIN Sent : Sent[i].id = n
      BY <1>1, <2>1, <2>5 DEF IInv, Replies, DoneIsSent
    <2>7. Len(channel) = 0
      BY <2>3
    <2>8. i \in DOMAIN stdout /\ stdout[i] = Sent[i]
      BY <1>1, <2>7, SentType DEF IInv
    <2>. QED BY <2>6, <2>8
  <1>. QED BY <1>1, Invariant, PTL

\* Whatever clients there are, as long as they quote codes they were shown, and
\* however the scopes share the codes: an order that passes the gate had its digits
\* on the preview of an earlier request, no request sends two orders, and none is
\* answered with a preview and sends one (utils/dry_run.rs:9).
THEOREM OrdersWereVouchedForTheorem == Spec => []OrdersWereVouchedFor
  <1>1. ASSUME IInv
        PROVE  OrdersWereVouchedFor
    <2>1. ASSUME NEW k \in DOMAIN exchange, input[exchange[k].id].kind = "order"
          PROVE  \E i \in DOMAIN stdout :
                   /\ stdout[i].shown # None /\ stdout[i].id < exchange[k].id
                   /\ Digest[stdout[i].shown.scope] = Digest[exchange[k].order.scope]
      <3>. DEFINE n == exchange[k].id
      <3>1. n \in DOMAIN input /\ exchange[k].order = input[n].order /\ Orderly(n)
        BY <1>1 DEF IInv, Gated, OrdersAreCalled
      <3>2. input[n].code # None /\ input[n].code = Digest[input[n].order.scope]
        BY <2>1, <3>1 DEF Orderly, Verified, CodeOf, ScopeOf
      <3>3. ShownBefore(input[n].code, n)
        BY <1>1, <3>1, <3>2 DEF IInv, Gated, CodesWereShown
      <3>. QED BY <3>1, <3>2, <3>3 DEF ShownBefore
    <2>2. \A k, l \in DOMAIN exchange : k # l => exchange[k].id # exchange[l].id
      BY <1>1 DEF IInv, Gated, OrdersAreCalled
    <2>3. ASSUME NEW k \in DOMAIN exchange, NEW i \in DOMAIN Sent,
                 Sent[i].id = exchange[k].id
          PROVE  Sent[i].shown = None
      <3>1. Orderly(exchange[k].id)
        BY <1>1 DEF IInv, Gated, OrdersAreCalled
      <3>2. Uncoded(Sent[i])
        BY <1>1 DEF IInv, Gated, PreviewsAreUncoded
      <3>. QED BY <2>3, <3>1, <3>2 DEF Uncoded, Orderly
    <2>. QED BY <2>1, <2>2, <2>3 DEF OrdersWereVouchedFor
  <1>. QED BY <1>1, Invariant, PTL

\* Whoever was answered a snapshot and is still subscribed has been written the
\* quote as it is, or is about to be: subscribing before reading the snapshot
\* loses nothing, for any number of clients and changes (cli/serve/methods.rs:290).
THEOREM NoTickLostTheorem == Spec => []NoTickLost
  <1>1. Init => TickInv
    BY DEF Init, TickInv, SinceSubscribed, SnapshotsAreCurrent
  <1>2. IInv /\ TickInv /\ [Next]_vars => TickInv'
    BY NextTickInv
  <1>3. TickInv => NoTickLost
    BY DEF TickInv, SnapshotsAreCurrent, NoTickLost, Listening, Answered, Current
  <1>. QED BY Invariant, <1>1, <1>2, <1>3, PTL DEF Spec

=============================================================================
