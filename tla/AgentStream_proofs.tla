-------------------------- MODULE AgentStream_proofs --------------------------
(* AgentStream implements AnswerDelivery and never starts a named run again, *)
(* for every number of tries, handshakes, polls and chunks.                  *)
EXTENDS AgentStream, TLAPS

\* Runs start in the order of the POSTs; nothing is known of later ones.
RunsInOrder ==
  \A r \in Runs : r > posts => st[r] = "none" /\ made[r] = 0

\* Where the client is fits the loop it is in and what it knows. A POST goes
\* out only before a name is known, or for a run not started yet.
Control ==
  /\ pc = "returned" <=> result # "no"
  /\ pc = "opening" =>
       /\ mode = "post" /\ posts <= attempt
       /\ ident = None \/ (posts = 0 /\ ident = 1)
  /\ pc = "draining" =>
       /\ conn \in Connections /\ posts > 0 /\ conn.run <= posts /\ ~pristine
       /\ mode = "post" => posts <= attempt + 1
       /\ ident \in {None, conn.run}
       /\ conn.at # "start" => ident = conn.run
  /\ pc \in {"attaching", "finalizing", "polling"} =>
       ident # None /\ ident <= posts
  /\ mode = "attach" => ident # None
  /\ mode = "post" => ~pristine
  /\ pc = "attaching" => mode = "attach"

\* What a connection has brought is what the listener has.
Shown ==
  /\ pc = "draining" =>
       /\ conn.n <= made[conn.run] /\ answer = Told(conn.run, conn.n)
       /\ conn.at = "start" => conn.n = 0
       /\ conn.at \in {"asked", "closing", "closed"} =>
            conn.n = made[conn.run] /\ Over(conn.run)
       /\ outcome \/ closing => conn.at \in {"asked", "closing", "closed"}
  /\ pc \in {"opening", "attaching", "polling"} =>
       answer = <<>> /\ status = "untold" /\ interrupt = FALSE
  /\ pc = "finalizing" => Over(ident) /\ answer = Text(ident)

\* A verdict is told with the outcome and agrees with how the run ended.
Verdict ==
  /\ pc = "draining" =>
       /\ status = IF outcome THEN StatusOf(st[conn.run]) ELSE "untold"
       /\ interrupt => outcome /\ ident = conn.run /\ st[conn.run] = "paused"
  /\ pc = "finalizing" => status = "untold" /\ interrupt = FALSE
  /\ VerdictIsTheRuns

IInv == TypeOK /\ RunsInOrder /\ Control /\ Shown /\ Verdict

LEMMA EmptyAnswer == <<>> \in Seq(Runs \X (1 .. MaxText))
  OBVIOUS

LEMMA NothingTold == \A r : Told(r, 0) = <<>>
  BY DEF Told

\* One chunk more.
LEMMA OneMoreTold ==
  ASSUME NEW r \in Runs, NEW n \in Nat
  PROVE  Append(Told(r, n), <<r, n + 1>>) = Told(r, n + 1)
<1> DEFINE s == Told(r, n)
           t == Append(s, <<r, n + 1>>)
<1>1. s \in Seq(Runs \X Nat) /\ Len(s) = n
  BY DEF Told
<1>2. Len(t) = n + 1 /\ DOMAIN t = 1 .. n + 1
  BY <1>1
<1>3. \A k \in 1 .. n + 1 : t[k] = <<r, k>>
  BY <1>1 DEF Told
<1>4. t \in Seq(Runs \X Nat)
  BY <1>1
<1> QED
  BY <1>2, <1>3, <1>4 DEF Told

LEMMA ToldType ==
  ASSUME NEW r \in Runs, NEW n \in 0 .. MaxText, MaxText \in Nat
  PROVE  Told(r, n) \in Seq(Runs \X (1 .. MaxText)) /\ Len(Told(r, n)) = n
  BY DEF Told

\* A connection that moves on to another frame is the same one.
LEMMA MovedOn ==
  ASSUME conn \in Connections,
         NEW a \in {"text", "asked", "closing", "closed"},
         conn' = [conn EXCEPT !.at = a]
  PROVE  /\ conn' \in Connections
         /\ conn'.run = conn.run /\ conn'.at = a /\ conn'.n = conn.n
         /\ conn'.tells = conn.tells
  BY DEF Connections

LEMMA Connected ==
  ASSUME NEW r \in Runs, NEW t \in BOOLEAN, Connect(r, t), MaxText \in Nat
  PROVE  /\ conn' \in Connections
         /\ conn'.run = r /\ conn'.at = "start" /\ conn'.n = 0
         /\ ~outcome' /\ ~closing' /\ pc' = "draining"
  BY DEF Connections, Connect

LEMMA OpenStreamStep == IInv /\ OpenStream => IInv'
<1> SUFFICES ASSUME IInv, OpenStream PROVE IInv'
  OBVIOUS
<1> USE TriesAssumption, HandshakesAssumption, PollsAssumption, MaxTextAssumption,
        NoneAssumption
<1>1. posts + 1 \in Runs /\ posts \in Nat
  BY DEF IInv, TypeOK, Control, OpenStream, Runs
<1>2. /\ conn' \in Connections
      /\ conn'.run = posts + 1 /\ conn'.at = "start" /\ conn'.n = 0
      /\ ~outcome' /\ ~closing' /\ pc' = "draining"
  BY <1>1, Connected DEF OpenStream
<1>3. /\ made[posts + 1] = 0
      /\ \A r \in Runs : r # posts + 1 => st'[r] = st[r]
      /\ st'[posts + 1] = "going"
  BY <1>1 DEF IInv, TypeOK, RunsInOrder, OpenStream
<1>4. outcome' = FALSE /\ closing' = FALSE
  BY DEF OpenStream, Connect
<1>5. TypeOK'
  <2>1. st' \in [Runs -> {"none", "going"} \cup Verdicts]
    BY <1>1 DEF IInv, TypeOK, OpenStream
  <2>2. posts' \in 0 .. Tries
    BY <1>1 DEF OpenStream, Runs
  <2>3. UNCHANGED <<made, kind, ident, mode, attempt, rejected, reads, pristine,
                    answer, status, interrupt, result>>
    BY DEF OpenStream
  <2> QED
    BY <1>2, <1>4, <2>1, <2>2, <2>3 DEF IInv, TypeOK
<1>6. RunsInOrder'
  BY <1>1, <1>3 DEF IInv, RunsInOrder, OpenStream, Runs
<1>7. Control'
  BY <1>1, <1>2 DEF IInv, TypeOK, Control, OpenStream, Runs
<1>8. Shown'
  BY <1>1, <1>2, <1>3, NothingTold DEF IInv, TypeOK, Shown, OpenStream
<1>9. Verdict'
  BY <1>1, <1>2, <1>3 DEF IInv, TypeOK, Control, Shown, Verdict,
     VerdictIsTheRuns, OpenStream
<1> QED
  BY <1>5, <1>6, <1>7, <1>8, <1>9 DEF IInv

LEMMA HandshakeRejectedStep == IInv /\ HandshakeRejected => IInv'
<1> SUFFICES ASSUME IInv, HandshakeRejected PROVE IInv'
  OBVIOUS
<1> USE TriesAssumption, HandshakesAssumption, PollsAssumption, MaxTextAssumption,
        NoneAssumption
<1>1. TypeOK'
  BY EmptyAnswer DEF HandshakeRejected, IInv, TypeOK, Connections, Over,
     Verdicts, StatusOf, Return
<1>2. RunsInOrder'
  BY DEF HandshakeRejected, IInv, RunsInOrder, Return
<1>3. Control'
  BY DEF HandshakeRejected, IInv, TypeOK, Control, Return
<1>4. Shown'
  BY DEF HandshakeRejected, IInv, TypeOK, Control, Shown, Over, Text, Return
<1>5. Verdict'
  BY DEF HandshakeRejected, IInv, TypeOK, Control, Shown, Verdict,
     VerdictIsTheRuns, Over, Verdicts, StatusOf, Return
<1> QED
  BY <1>1, <1>2, <1>3, <1>4, <1>5 DEF IInv

LEMMA HandshakeFailedStep == IInv /\ HandshakeFailed => IInv'
<1> SUFFICES ASSUME IInv, HandshakeFailed PROVE IInv'
  OBVIOUS
<1> USE TriesAssumption, HandshakesAssumption, PollsAssumption, MaxTextAssumption,
        NoneAssumption
<1>1. TypeOK'
  BY DEF HandshakeFailed, IInv, TypeOK, Connections, Over, Verdicts, StatusOf,
     Return
<1>2. RunsInOrder'
  BY DEF HandshakeFailed, IInv, RunsInOrder, Return
<1>3. Control'
  BY DEF HandshakeFailed, IInv, TypeOK, Control, Return
<1>4. Shown'
  BY DEF HandshakeFailed, IInv, TypeOK, Control, Shown, Over, Text, Return
<1>5. Verdict'
  BY DEF HandshakeFailed, IInv, TypeOK, Control, Shown, Verdict,
     VerdictIsTheRuns, Over, Verdicts, StatusOf, Return
<1> QED
  BY <1>1, <1>2, <1>3, <1>4, <1>5 DEF IInv

LEMMA DeliverStartedStep == IInv /\ DeliverStarted => IInv'
<1> SUFFICES ASSUME IInv, DeliverStarted PROVE IInv'
  OBVIOUS
<1> USE TriesAssumption, HandshakesAssumption, PollsAssumption, MaxTextAssumption,
        NoneAssumption
<1>0. /\ conn \in Connections /\ conn' \in Connections
      /\ conn'.run = conn.run /\ conn'.at = "text" /\ conn'.n = conn.n
      /\ conn'.tells = conn.tells
  BY MovedOn DEF IInv, Control, DeliverStarted, Draining
<1>1. TypeOK'
  BY <1>0 DEF DeliverStarted, IInv, TypeOK, Connections, Over, Verdicts,
     StatusOf, Draining, Rest
<1>2. RunsInOrder'
  BY <1>0 DEF DeliverStarted, IInv, RunsInOrder, Draining, Rest
<1>3. Control'
  BY <1>0 DEF DeliverStarted, IInv, TypeOK, Control, Draining, Rest
<1>4. Shown'
  BY <1>0 DEF DeliverStarted, IInv, TypeOK, Control, Shown, Over, Text,
     Draining, Rest
<1>5. Verdict'
  BY <1>0 DEF DeliverStarted, IInv, TypeOK, Control, Shown, Verdict,
     VerdictIsTheRuns, Over, Verdicts, StatusOf, Draining, Rest
<1> QED
  BY <1>1, <1>2, <1>3, <1>4, <1>5 DEF IInv

LEMMA DeliverTextStep == IInv /\ DeliverText => IInv'
<1> SUFFICES ASSUME IInv, DeliverText PROVE IInv'
  OBVIOUS
<1> USE TriesAssumption, HandshakesAssumption, PollsAssumption, MaxTextAssumption,
        NoneAssumption
<1>0. /\ conn \in Connections /\ conn.run \in Runs
      /\ conn.at = "text" /\ conn.n \in Nat /\ conn.n < made[conn.run]
      /\ made[conn.run] \in 0 .. MaxText /\ ident = conn.run
  BY DEF IInv, TypeOK, Control, Connections, DeliverText, Draining
<1>00. /\ conn' \in Connections
       /\ conn'.run = conn.run /\ conn'.at = "text" /\ conn'.n = conn.n + 1
       /\ conn'.tells = conn.tells
  <2>1. conn.n + 1 \in 0 .. MaxText
    BY <1>0
  <2> QED
    BY <1>0, <2>1 DEF Connections, DeliverText
<1>000. answer' = Told(conn.run, conn.n + 1)
  BY <1>0, OneMoreTold DEF IInv, Shown, DeliverText, Draining
<1>1. TypeOK'
  BY SMTT(60), <1>0, <1>00, <1>000 DEF DeliverText, IInv, TypeOK, Connections, Over,
     Verdicts, StatusOf, Draining, Rest
<1>2. RunsInOrder'
  BY <1>0, <1>00, <1>000 DEF DeliverText, IInv, RunsInOrder, Draining, Rest
<1>3. Control'
  BY <1>0, <1>00, <1>000 DEF DeliverText, IInv, TypeOK, Control, Draining,
     Rest
<1>4. Shown'
  <2>1. /\ made' = made /\ st' = st /\ pc' = "draining"
        /\ outcome' = outcome /\ closing' = closing
    BY DEF DeliverText, Draining, Rest
  <2>2. ~outcome /\ ~closing
    BY <1>0 DEF IInv, Shown, DeliverText, Draining
  <2>3. conn.n + 1 <= made[conn.run]
    BY <1>0
  <2> QED
    BY <1>00, <1>000, <2>1, <2>2, <2>3 DEF Shown
<1>5. Verdict'
  BY <1>0, <1>00, <1>000 DEF DeliverText, IInv, TypeOK, Control, Shown,
     Verdict, VerdictIsTheRuns, Over, Verdicts, StatusOf, Draining, Rest
<1> QED
  BY <1>1, <1>2, <1>3, <1>4, <1>5 DEF IInv

LEMMA DeliverAskStep == IInv /\ DeliverAsk => IInv'
<1> SUFFICES ASSUME IInv, DeliverAsk PROVE IInv'
  OBVIOUS
<1> USE TriesAssumption, HandshakesAssumption, PollsAssumption, MaxTextAssumption,
        NoneAssumption
<1>0. /\ conn \in Connections /\ conn' \in Connections
      /\ conn'.run = conn.run /\ conn'.at = "asked" /\ conn'.n = conn.n
      /\ conn'.tells = conn.tells
  BY MovedOn DEF IInv, Control, DeliverAsk, Draining
<1>1. TypeOK'
  BY <1>0 DEF DeliverAsk, IInv, TypeOK, Connections, Over, Verdicts, StatusOf,
     Draining, Rest, AllTold
<1>2. RunsInOrder'
  BY <1>0 DEF DeliverAsk, IInv, RunsInOrder, Draining, Rest, AllTold
<1>3. Control'
  BY <1>0 DEF DeliverAsk, IInv, TypeOK, Control, Draining, Rest, AllTold
<1>4. Shown'
  BY <1>0 DEF DeliverAsk, IInv, TypeOK, Control, Shown, Over, Text, Draining,
     Rest, AllTold
<1>5. Verdict'
  BY <1>0, SMTT(30) DEF DeliverAsk, IInv, TypeOK, Runs, Connections, Control, Shown, Verdict,
     VerdictIsTheRuns, Over, Verdicts, StatusOf, Draining, Rest, AllTold
<1> QED
  BY <1>1, <1>2, <1>3, <1>4, <1>5 DEF IInv

LEMMA DeliverFinishedStep == IInv /\ DeliverFinished => IInv'
<1> SUFFICES ASSUME IInv, DeliverFinished PROVE IInv'
  OBVIOUS
<1> USE TriesAssumption, HandshakesAssumption, PollsAssumption, MaxTextAssumption,
        NoneAssumption
<1>0. /\ conn \in Connections /\ conn' \in Connections
      /\ conn'.run = conn.run /\ conn'.at = "closing" /\ conn'.n = conn.n
      /\ conn'.tells = conn.tells
  BY MovedOn DEF IInv, Control, DeliverFinished, Draining
<1>1. TypeOK'
  BY <1>0 DEF DeliverFinished, IInv, TypeOK, Connections, Over, Verdicts,
     StatusOf, Draining, Rest, AllTold
<1>2. RunsInOrder'
  BY <1>0 DEF DeliverFinished, IInv, RunsInOrder, Draining, Rest, AllTold
<1>3. Control'
  BY <1>0 DEF DeliverFinished, IInv, TypeOK, Control, Draining, Rest, AllTold
<1>4. Shown'
  BY <1>0 DEF DeliverFinished, IInv, TypeOK, Control, Shown, Over, Text,
     Draining, Rest, AllTold
<1>5. Verdict'
  BY <1>0 DEF DeliverFinished, IInv, TypeOK, Control, Shown, Verdict,
     VerdictIsTheRuns, Over, Verdicts, StatusOf, Draining, Rest, AllTold
<1> QED
  BY <1>1, <1>2, <1>3, <1>4, <1>5 DEF IInv

LEMMA DeliverOutcomeStep == IInv /\ DeliverOutcome => IInv'
<1> SUFFICES ASSUME IInv, DeliverOutcome PROVE IInv'
  OBVIOUS
<1> USE TriesAssumption, HandshakesAssumption, PollsAssumption, MaxTextAssumption,
        NoneAssumption
<1>0. /\ conn \in Connections /\ conn' \in Connections
      /\ conn'.run = conn.run /\ conn'.at = "closed" /\ conn'.n = conn.n
      /\ conn'.tells = conn.tells
  BY MovedOn DEF IInv, Control, DeliverOutcome, Draining
<1>1. TypeOK'
  <2>1. st[conn.run] \in Verdicts
    BY DEF IInv, Shown, DeliverOutcome, Draining, Over
  <2>2. status' \in {"untold", "succeeded", "failed", "interrupted"}
    BY <2>1 DEF IInv, TypeOK, DeliverOutcome, Concluded, StatusOf, Verdicts
  <2> QED
    BY <1>0, <2>2 DEF IInv, TypeOK, DeliverOutcome, Draining, Rest
<1>2. RunsInOrder'
  BY <1>0 DEF DeliverOutcome, IInv, RunsInOrder, Draining, Rest, Concluded
<1>3. Control'
  BY <1>0 DEF DeliverOutcome, IInv, TypeOK, Control, Draining, Rest, Concluded
<1>4. Shown'
  BY <1>0 DEF DeliverOutcome, IInv, TypeOK, Control, Shown, Over, Text,
     Draining, Rest, Concluded
<1>5. Verdict'
  BY <1>0 DEF DeliverOutcome, IInv, TypeOK, Control, Shown, Verdict,
     VerdictIsTheRuns, Over, Verdicts, StatusOf, Draining, Rest, Concluded
<1> QED
  BY <1>1, <1>2, <1>3, <1>4, <1>5 DEF IInv

LEMMA StopCompleteStep == IInv /\ StopComplete => IInv'
<1> SUFFICES ASSUME IInv, StopComplete PROVE IInv'
  OBVIOUS
<1> USE TriesAssumption, HandshakesAssumption, PollsAssumption, MaxTextAssumption,
        NoneAssumption
<1>1. TypeOK'
  BY DEF StopComplete, IInv, TypeOK, Connections, Over, Verdicts, StatusOf,
     Draining, Return, Ended
<1>2. RunsInOrder'
  BY DEF StopComplete, IInv, RunsInOrder, Draining, Return, Ended
<1>3. Control'
  BY DEF StopComplete, IInv, TypeOK, Control, Draining, Return, Ended
<1>4. Shown'
  BY DEF StopComplete, IInv, TypeOK, Control, Shown, Over, Text, Draining,
     Return, Ended
<1>5. Verdict'
  BY SMTT(30) DEF StopComplete, IInv, TypeOK, Runs, Connections, Control, Shown, Verdict,
     VerdictIsTheRuns, Over, Verdicts, StatusOf, Draining, Return, Ended
<1> QED
  BY <1>1, <1>2, <1>3, <1>4, <1>5 DEF IInv

LEMMA StopWithoutOutcomeStep == IInv /\ StopWithoutOutcome => IInv'
<1> SUFFICES ASSUME IInv, StopWithoutOutcome PROVE IInv'
  OBVIOUS
<1> USE TriesAssumption, HandshakesAssumption, PollsAssumption, MaxTextAssumption,
        NoneAssumption
<1>1. TypeOK'
  <2>1. answer' \in Seq(Runs \X (1 .. MaxText))
    BY EmptyAnswer DEF StopWithoutOutcome, IInv, TypeOK, Runs, Connections, Draining, Return, Ended, RunsInOrder, Control, Shown, Verdict, VerdictIsTheRuns, Over, Verdicts, StatusOf, Text
  <2>2. /\ pc' \in {"opening", "draining", "attaching", "finalizing", "polling", "returned"}
        /\ attempt' \in 0 .. Tries - 1 /\ rejected' \in 0 .. Handshakes
        /\ reads' \in 0 .. (Tries + Polls)
        /\ conn' \in Connections \cup {None} /\ pristine' \in BOOLEAN
        /\ mode' \in {"post", "attach"}
    BY DEF StopWithoutOutcome, IInv, TypeOK, Runs, Connections, Draining, Return, Ended, RunsInOrder, Control, Shown, Verdict, VerdictIsTheRuns, Over, Verdicts, StatusOf, Text
  <2>3. /\ status' \in {"untold", "succeeded", "failed", "interrupted"}
        /\ interrupt' \in BOOLEAN /\ result' \in {"no", "ok", "err"}
    BY DEF StopWithoutOutcome, IInv, TypeOK, Runs, Connections, Draining, Return, Ended, RunsInOrder, Control, Shown, Verdict, VerdictIsTheRuns, Over, Verdicts, StatusOf, Text
  <2>4. UNCHANGED <<made, st, posts, kind, ident, outcome, closing>>
    BY DEF StopWithoutOutcome, IInv, TypeOK, Runs, Connections, Draining, Return, Ended, RunsInOrder, Control, Shown, Verdict, VerdictIsTheRuns, Over, Verdicts, StatusOf, Text
  <2> QED
    BY <2>1, <2>2, <2>3, <2>4 DEF IInv, TypeOK
<1>2. RunsInOrder'
  BY DEF StopWithoutOutcome, IInv, RunsInOrder, Draining, Return, Ended
<1>3. Control'
  BY DEF StopWithoutOutcome, IInv, TypeOK, Control, Draining, Return, Ended
<1>4. Shown'
  BY DEF StopWithoutOutcome, IInv, TypeOK, Control, Shown, Over, Text,
     Draining, Return, Ended
<1>5. Verdict'
  BY SMTT(30) DEF StopWithoutOutcome, IInv, TypeOK, Runs, Connections, Control, Shown, Verdict,
     VerdictIsTheRuns, Over, Verdicts, StatusOf, Draining, Return, Ended
<1> QED
  BY <1>1, <1>2, <1>3, <1>4, <1>5 DEF IInv

LEMMA ResendStep == IInv /\ Resend => IInv'
<1> SUFFICES ASSUME IInv, Resend PROVE IInv'
  OBVIOUS
<1> USE TriesAssumption, HandshakesAssumption, PollsAssumption, MaxTextAssumption,
        NoneAssumption
<1>1. TypeOK'
  <2>1. answer' \in Seq(Runs \X (1 .. MaxText))
    BY EmptyAnswer DEF Resend, IInv, TypeOK, Runs, Connections, Draining, Return, Ended, Broken, Unnamed, Restarted, MayTryAgain, RunsInOrder, Control, Shown, Verdict, VerdictIsTheRuns, Over, Verdicts, StatusOf, Text
  <2>2. /\ pc' \in {"opening", "draining", "attaching", "finalizing", "polling", "returned"}
        /\ attempt' \in 0 .. Tries - 1 /\ rejected' \in 0 .. Handshakes
        /\ reads' \in 0 .. (Tries + Polls)
        /\ conn' \in Connections \cup {None} /\ pristine' \in BOOLEAN
        /\ mode' \in {"post", "attach"}
    BY DEF Resend, IInv, TypeOK, Runs, Connections, Draining, Return, Ended, Broken, Unnamed, Restarted, MayTryAgain, RunsInOrder, Control, Shown, Verdict, VerdictIsTheRuns, Over, Verdicts, StatusOf, Text
  <2>3. /\ status' \in {"untold", "succeeded", "failed", "interrupted"}
        /\ interrupt' \in BOOLEAN /\ result' \in {"no", "ok", "err"}
    BY DEF Resend, IInv, TypeOK, Runs, Connections, Draining, Return, Ended, Broken, Unnamed, Restarted, MayTryAgain, RunsInOrder, Control, Shown, Verdict, VerdictIsTheRuns, Over, Verdicts, StatusOf, Text
  <2>4. UNCHANGED <<made, st, posts, kind, ident, outcome, closing>>
    BY DEF Resend, IInv, TypeOK, Runs, Connections, Draining, Return, Ended, Broken, Unnamed, Restarted, MayTryAgain, RunsInOrder, Control, Shown, Verdict, VerdictIsTheRuns, Over, Verdicts, StatusOf, Text
  <2> QED
    BY <2>1, <2>2, <2>3, <2>4 DEF IInv, TypeOK
<1>2. RunsInOrder'
  BY DEF Resend, IInv, RunsInOrder, Draining, Return, Ended, Broken, Unnamed,
     Restarted, MayTryAgain
<1>3. Control'
  BY DEF Resend, IInv, TypeOK, Control, Draining, Return, Ended, Broken,
     Unnamed, Restarted, MayTryAgain
<1>4. Shown'
  BY DEF Resend, IInv, TypeOK, Control, Shown, Over, Text, Draining, Return,
     Ended, Broken, Unnamed, Restarted, MayTryAgain
<1>5. Verdict'
  BY DEF Resend, IInv, TypeOK, Control, Shown, Verdict, VerdictIsTheRuns,
     Over, Verdicts, StatusOf, Draining, Return, Ended, Broken, Unnamed,
     Restarted, MayTryAgain
<1> QED
  BY <1>1, <1>2, <1>3, <1>4, <1>5 DEF IInv

LEMMA StartReattachStep == IInv /\ StartReattach => IInv'
<1> SUFFICES ASSUME IInv, StartReattach PROVE IInv'
  OBVIOUS
<1> USE TriesAssumption, HandshakesAssumption, PollsAssumption, MaxTextAssumption,
        NoneAssumption
<1>1. TypeOK'
  <2>1. answer' \in Seq(Runs \X (1 .. MaxText))
    BY EmptyAnswer DEF StartReattach, IInv, TypeOK, Runs, Connections, Draining, Ended, Broken, Unnamed, Restarted, Attach, RunsInOrder, Control, Shown, Verdict, VerdictIsTheRuns, Over, Verdicts, StatusOf, Text
  <2>2. /\ pc' \in {"opening", "draining", "attaching", "finalizing", "polling", "returned"}
        /\ attempt' \in 0 .. Tries - 1 /\ rejected' \in 0 .. Handshakes
        /\ reads' \in 0 .. (Tries + Polls)
        /\ conn' \in Connections \cup {None} /\ pristine' \in BOOLEAN
        /\ mode' \in {"post", "attach"}
    BY DEF StartReattach, IInv, TypeOK, Runs, Connections, Draining, Ended, Broken, Unnamed, Restarted, Attach, RunsInOrder, Control, Shown, Verdict, VerdictIsTheRuns, Over, Verdicts, StatusOf, Text
  <2>3. /\ status' \in {"untold", "succeeded", "failed", "interrupted"}
        /\ interrupt' \in BOOLEAN /\ result' \in {"no", "ok", "err"}
    BY DEF StartReattach, IInv, TypeOK, Runs, Connections, Draining, Ended, Broken, Unnamed, Restarted, Attach, RunsInOrder, Control, Shown, Verdict, VerdictIsTheRuns, Over, Verdicts, StatusOf, Text
  <2>4. UNCHANGED <<made, st, posts, kind, ident, outcome, closing>>
    BY DEF StartReattach, IInv, TypeOK, Runs, Connections, Draining, Ended, Broken, Unnamed, Restarted, Attach, RunsInOrder, Control, Shown, Verdict, VerdictIsTheRuns, Over, Verdicts, StatusOf, Text
  <2> QED
    BY <2>1, <2>2, <2>3, <2>4 DEF IInv, TypeOK
<1>2. RunsInOrder'
  BY DEF StartReattach, IInv, RunsInOrder, Draining, Ended, Broken, Unnamed,
     Restarted, Attach
<1>3. Control'
  BY DEF StartReattach, IInv, TypeOK, Control, Draining, Ended, Broken,
     Unnamed, Restarted, Attach
<1>4. Shown'
  BY DEF StartReattach, IInv, TypeOK, Control, Shown, Over, Text, Draining,
     Ended, Broken, Unnamed, Restarted, Attach
<1>5. Verdict'
  BY DEF StartReattach, IInv, TypeOK, Control, Shown, Verdict,
     VerdictIsTheRuns, Over, Verdicts, StatusOf, Draining, Ended, Broken,
     Unnamed, Restarted, Attach
<1> QED
  BY <1>1, <1>2, <1>3, <1>4, <1>5 DEF IInv

\* Both ways into NextAttach: in reattach's loop, with nothing delivered since
\* an unspent restart.
LEMMA NextAttachStep ==
  IInv /\ mode = "attach" /\ pc \in {"draining", "attaching"} /\ NextAttach
    => IInv'
<1> SUFFICES ASSUME IInv, mode = "attach", pc \in {"draining", "attaching"},
                    NextAttach
             PROVE  IInv'
  OBVIOUS
<1> USE TriesAssumption, HandshakesAssumption, PollsAssumption, MaxTextAssumption,
        NoneAssumption
<1> USE DEF NextAttach, MayTryAgain
<1>1. CASE MayTryAgain(attempt)
  <2>1. TypeOK'
    <3>1. UNCHANGED <<made, st, posts, kind, ident, rejected, outcome, closing,
                      result, reads>>
      BY <1>1
    <3>2. /\ pc' = "attaching" /\ mode' = "attach" /\ conn' = None
          /\ pristine' = TRUE /\ answer' = <<>> /\ status' = "untold"
          /\ interrupt' = FALSE /\ attempt' = attempt + 1
      BY <1>1 DEF Attach, Restarted
    <3>3. attempt + 1 \in 0 .. Tries - 1
      BY <1>1 DEF IInv, TypeOK
    <3> QED
      BY <3>1, <3>2, <3>3, EmptyAnswer DEF IInv, TypeOK
  <2>2. RunsInOrder' /\ Control'
    BY <1>1 DEF IInv, TypeOK, RunsInOrder, Control, Shown, Verdict, VerdictIsTheRuns, Attach
  <2>3. Shown' /\ Verdict'
    BY <1>1 DEF IInv, TypeOK, RunsInOrder, Control, Shown, Verdict, VerdictIsTheRuns, Attach, Restarted, Over
  <2> QED
    BY <2>1, <2>2, <2>3 DEF IInv
<1>2. CASE ~MayTryAgain(attempt)
  <2>1. answer' = <<>> /\ status' = "untold" /\ interrupt' = FALSE
    BY <1>2 DEF IInv, TypeOK, Control, Shown, ReadBack, NeedsReset, Restarted, consumer
  <2>2. TypeOK'
    <3>1. UNCHANGED <<made, st, posts, kind, ident, rejected, outcome, closing,
                      result, attempt, pristine, mode>>
      BY <1>2
    <3>2. pc' = "polling" /\ reads' = 0 /\ conn' = None
      BY <1>2 DEF ReadBack
    <3>3. reads' \in 0 .. (Tries + Polls)
      BY <3>2
    <3>4. answer' \in Seq(Runs \X (1 .. MaxText))
      BY <2>1, EmptyAnswer
    <3> QED
      BY <2>1, <3>1, <3>2, <3>3, <3>4 DEF IInv, TypeOK
  <2>3. RunsInOrder' /\ Control'
    BY <1>2 DEF IInv, TypeOK, RunsInOrder, Control, Shown, Verdict, VerdictIsTheRuns, ReadBack
  <2>4. Shown' /\ Verdict'
    BY <1>2, <2>1 DEF IInv, TypeOK, RunsInOrder, Control, Shown, Verdict, VerdictIsTheRuns, ReadBack, Over
  <2> QED
    BY <2>2, <2>3, <2>4 DEF IInv
<1> QED
  BY <1>1, <1>2

LEMMA BreakAgainStep == IInv /\ BreakAgain => IInv'
  BY NextAttachStep DEF BreakAgain, Broken, Draining

LEMMA ReattachedStep == IInv /\ Reattached => IInv'
<1> SUFFICES ASSUME IInv, Reattached PROVE IInv'
  OBVIOUS
<1> USE TriesAssumption, HandshakesAssumption, PollsAssumption, MaxTextAssumption,
        NoneAssumption
<1>1. ident \in Runs /\ ident <= posts /\ posts \in Nat /\ ident \in Nat
  BY DEF IInv, TypeOK, Control, Reattached, Runs
<1>2. /\ conn' \in Connections
      /\ conn'.run = ident /\ conn'.at = "start" /\ conn'.n = 0
      /\ ~outcome' /\ ~closing' /\ pc' = "draining"
  BY <1>1, Connected DEF Reattached
<1>3. outcome' = FALSE /\ closing' = FALSE
  BY DEF Reattached, Connect
<1>4. TypeOK'
  <2>1. /\ UNCHANGED <<made, st, posts, kind, ident, mode, attempt, rejected,
                        reads, answer, status, interrupt, result>>
        /\ pristine' = FALSE
    BY DEF Reattached
  <2> QED
    BY <1>2, <1>3, <2>1 DEF IInv, TypeOK
<1>5. RunsInOrder'
  BY DEF IInv, RunsInOrder, Reattached
<1>6. Control'
  BY <1>1, <1>2 DEF IInv, TypeOK, Control, Reattached, Runs
<1>7. Shown'
  BY <1>1, <1>2, NothingTold DEF IInv, TypeOK, Shown, Reattached
<1>8. Verdict'
  BY <1>1, <1>2 DEF IInv, TypeOK, RunsInOrder, Control, Shown, Verdict, VerdictIsTheRuns, Reattached
<1> QED
  BY <1>4, <1>5, <1>6, <1>7, <1>8 DEF IInv

LEMMA AttachFailedStep == IInv /\ AttachFailed => IInv'
  BY NextAttachStep DEF AttachFailed, IInv, Control

LEMMA AttachMissingStep == IInv /\ AttachMissing => IInv'
<1> SUFFICES ASSUME IInv, AttachMissing PROVE IInv'
  OBVIOUS
<1> USE TriesAssumption, HandshakesAssumption, PollsAssumption, MaxTextAssumption,
        NoneAssumption
<1>1. TypeOK'
  <2>1. answer' \in Seq(Runs \X (1 .. MaxText))
    BY EmptyAnswer DEF AttachMissing, IInv, TypeOK, Runs, Connections, Restarted, ReadBack, NeedsReset, consumer, RunsInOrder, Control, Shown, Verdict, VerdictIsTheRuns, Over, Verdicts, StatusOf, Text
  <2>2. /\ pc' \in {"opening", "draining", "attaching", "finalizing", "polling", "returned"}
        /\ attempt' \in 0 .. Tries - 1 /\ rejected' \in 0 .. Handshakes
        /\ reads' \in 0 .. (Tries + Polls)
        /\ conn' \in Connections \cup {None} /\ pristine' \in BOOLEAN
        /\ mode' \in {"post", "attach"}
    BY DEF AttachMissing, IInv, TypeOK, Runs, Connections, Restarted, ReadBack, NeedsReset, consumer, RunsInOrder, Control, Shown, Verdict, VerdictIsTheRuns, Over, Verdicts, StatusOf, Text
  <2>3. /\ status' \in {"untold", "succeeded", "failed", "interrupted"}
        /\ interrupt' \in BOOLEAN /\ result' \in {"no", "ok", "err"}
    BY DEF AttachMissing, IInv, TypeOK, Runs, Connections, Restarted, ReadBack, NeedsReset, consumer, RunsInOrder, Control, Shown, Verdict, VerdictIsTheRuns, Over, Verdicts, StatusOf, Text
  <2>4. UNCHANGED <<made, st, posts, kind, ident, outcome, closing>>
    BY DEF AttachMissing, IInv, TypeOK, Runs, Connections, Restarted, ReadBack, NeedsReset, consumer, RunsInOrder, Control, Shown, Verdict, VerdictIsTheRuns, Over, Verdicts, StatusOf, Text
  <2> QED
    BY <2>1, <2>2, <2>3, <2>4 DEF IInv, TypeOK
<1>2. RunsInOrder'
  BY DEF AttachMissing, IInv, RunsInOrder, Restarted, ReadBack, NeedsReset,
     consumer
<1>3. Control'
  BY DEF AttachMissing, IInv, TypeOK, Control, Restarted, ReadBack,
     NeedsReset, consumer
<1>4. Shown'
  BY DEF AttachMissing, IInv, TypeOK, Control, Shown, Over, Text, Restarted,
     ReadBack, NeedsReset, consumer
<1>5. Verdict'
  BY DEF AttachMissing, IInv, TypeOK, Control, Shown, Verdict,
     VerdictIsTheRuns, Over, Verdicts, StatusOf, Restarted, ReadBack,
     NeedsReset, consumer
<1> QED
  BY <1>1, <1>2, <1>3, <1>4, <1>5 DEF IInv

LEMMA PollFindsStep == IInv /\ PollFinds => IInv'
<1> SUFFICES ASSUME IInv, PollFinds PROVE IInv'
  OBVIOUS
<1> USE TriesAssumption, HandshakesAssumption, PollsAssumption, MaxTextAssumption,
        NoneAssumption
<1>1. TypeOK'
  <2>1. ident \in Runs
    BY DEF IInv, TypeOK, Control, PollFinds
  <2>2. Text(ident) \in Seq(Runs \X (1 .. MaxText))
    BY <2>1, ToldType DEF IInv, TypeOK, Text
  <2>3. answer' \in Seq(Runs \X (1 .. MaxText))
    BY <2>2 DEF IInv, TypeOK, PollFinds
  <2>4. status' \in {"untold", "succeeded", "failed", "interrupted"}
    BY <2>1 DEF IInv, TypeOK, PollFinds, Concluded, StatusOf, Over, Verdicts
  <2> QED
    BY <2>3, <2>4 DEF IInv, TypeOK, PollFinds, Return
<1>2. RunsInOrder'
  BY DEF PollFinds, IInv, RunsInOrder, Return, Concluded
<1>3. Control'
  BY DEF PollFinds, IInv, TypeOK, Control, Return, Concluded
<1>4. Shown'
  BY DEF PollFinds, IInv, TypeOK, Control, Shown, Over, Text, Return,
     Concluded
<1>5. Verdict'
  BY DEF PollFinds, IInv, TypeOK, Control, Shown, Verdict, VerdictIsTheRuns,
     Over, Verdicts, StatusOf, Return, Concluded
<1> QED
  BY <1>1, <1>2, <1>3, <1>4, <1>5 DEF IInv

LEMMA PollFindsNothingStep == IInv /\ PollFindsNothing => IInv'
<1> SUFFICES ASSUME IInv, PollFindsNothing PROVE IInv'
  OBVIOUS
<1> USE TriesAssumption, HandshakesAssumption, PollsAssumption, MaxTextAssumption,
        NoneAssumption
<1>1. TypeOK'
  BY DEF PollFindsNothing, IInv, TypeOK, Connections, Over, Verdicts,
     StatusOf, Return, Waited
<1>2. RunsInOrder'
  BY DEF PollFindsNothing, IInv, RunsInOrder, Return, Waited
<1>3. Control'
  BY DEF PollFindsNothing, IInv, TypeOK, Control, Return, Waited
<1>4. Shown'
  BY DEF PollFindsNothing, IInv, TypeOK, Control, Shown, Over, Text, Return,
     Waited
<1>5. Verdict'
  BY DEF PollFindsNothing, IInv, TypeOK, Control, Shown, Verdict,
     VerdictIsTheRuns, Over, Verdicts, StatusOf, Return, Waited
<1> QED
  BY <1>1, <1>2, <1>3, <1>4, <1>5 DEF IInv

LEMMA FinalizeReadsStep == IInv /\ FinalizeReads => IInv'
<1> SUFFICES ASSUME IInv, FinalizeReads PROVE IInv'
  OBVIOUS
<1> USE TriesAssumption, HandshakesAssumption, PollsAssumption, MaxTextAssumption,
        NoneAssumption
<1>1. TypeOK'
  <2>1. st[ident] \in Verdicts
    BY DEF IInv, Shown, FinalizeReads, Over
  <2>2. status' \in {"untold", "succeeded", "failed", "interrupted"}
    BY <2>1 DEF IInv, TypeOK, FinalizeReads, Concluded, StatusOf, Verdicts
  <2> QED
    BY <2>2 DEF IInv, TypeOK, FinalizeReads, Return
<1>2. RunsInOrder'
  BY DEF FinalizeReads, IInv, RunsInOrder, Return, Concluded
<1>3. Control'
  BY DEF FinalizeReads, IInv, TypeOK, Control, Return, Concluded
<1>4. Shown'
  BY DEF FinalizeReads, IInv, TypeOK, Control, Shown, Over, Text, Return,
     Concluded
<1>5. Verdict'
  BY DEF FinalizeReads, IInv, TypeOK, Control, Shown, Verdict,
     VerdictIsTheRuns, Over, Verdicts, StatusOf, Return, Concluded
<1> QED
  BY <1>1, <1>2, <1>3, <1>4, <1>5 DEF IInv

LEMMA FinalizeFailsStep == IInv /\ FinalizeFails => IInv'
<1> SUFFICES ASSUME IInv, FinalizeFails PROVE IInv'
  OBVIOUS
<1> USE TriesAssumption, HandshakesAssumption, PollsAssumption, MaxTextAssumption,
        NoneAssumption
<1>1. TypeOK'
  BY DEF FinalizeFails, IInv, TypeOK,
     Return
<1>2. RunsInOrder'
  BY DEF FinalizeFails, IInv, RunsInOrder, Return
<1>3. Control'
  BY DEF FinalizeFails, IInv, TypeOK, Control, Return
<1>4. Shown'
  BY DEF FinalizeFails, IInv, TypeOK, Control, Shown, Over, Text, Return
<1>5. Verdict'
  BY DEF FinalizeFails, IInv, TypeOK, Control, Shown, Verdict,
     VerdictIsTheRuns, Over, Verdicts, StatusOf, Return
<1> QED
  BY <1>1, <1>2, <1>3, <1>4, <1>5 DEF IInv

LEMMA ProduceStep == ASSUME IInv, NEW r \in Runs, Produce(r) PROVE IInv'
<1> USE TriesAssumption, MaxTextAssumption, NoneAssumption
<1>1. /\ made[r] \in 0 .. MaxText /\ made[r] < MaxText /\ st[r] = "going"
      /\ made' \in [Runs -> 0 .. MaxText]
      /\ made'[r] = made[r] + 1
      /\ \A q \in Runs : q # r => made'[q] = made[q]
  BY DEF IInv, TypeOK, Produce
<1>2. /\ UNCHANGED <<st, posts, kind, pc, ident, mode, attempt, rejected, reads>>
      /\ UNCHANGED <<pristine, conn, outcome, closing, answer, status, interrupt,
                     result>>
  BY DEF Produce
<1>3. TypeOK'
  BY <1>1, <1>2 DEF IInv, TypeOK
<1>4. RunsInOrder'
  BY <1>1, <1>2 DEF IInv, RunsInOrder
<1>5. Control'
  BY <1>2 DEF IInv, Control
<1>6. Shown'
  <2>1. CASE pc = "draining"
    <3>1. conn \in Connections /\ conn.run \in Runs /\ conn.n \in Nat
      BY <2>1 DEF IInv, Control, Connections
    <3>2. made[conn.run] \in Nat /\ made'[conn.run] \in Nat
          /\ made[conn.run] <= made'[conn.run]
      <4>1. CASE conn.run = r
        BY <4>1, <1>1
      <4>2. CASE conn.run # r
        BY <3>1, <4>2, <1>1 DEF IInv, TypeOK
      <4> QED
        BY <4>1, <4>2
    <3>3. Over(conn.run) => conn.run # r
      BY <1>1 DEF Over, Verdicts
    <3> QED
      BY <1>1, <1>2, <2>1, <3>1, <3>2, <3>3 DEF IInv, Shown, Over
  <2>2. CASE pc = "finalizing"
    <3>1. Over(ident) /\ ident \in Runs /\ ident # r
      BY <1>1, <2>2 DEF IInv, TypeOK, Control, Shown, Over, Verdicts
    <3> QED
      BY <1>1, <1>2, <2>2, <3>1 DEF IInv, Shown, Over, Text
  <2> QED
    BY <1>2, <2>1, <2>2 DEF IInv, Shown
<1>7. Verdict'
  BY <1>2 DEF IInv, Verdict, VerdictIsTheRuns, Over
<1> QED
  BY <1>3, <1>4, <1>5, <1>6, <1>7 DEF IInv

LEMMA EndRunStep == ASSUME IInv, NEW r \in Runs, EndRun(r) PROVE IInv'
<1> USE TriesAssumption, MaxTextAssumption, NoneAssumption
<1>1. /\ st[r] = "going" /\ ~Over(r)
      /\ st' \in [Runs -> {"none", "going"} \cup Verdicts]
      /\ \A q \in Runs : q # r => st'[q] = st[q]
  BY DEF IInv, TypeOK, EndRun, Over, Verdicts
<1>2. /\ UNCHANGED <<made, posts, kind, pc, ident, mode, attempt, rejected, reads>>
      /\ UNCHANGED <<pristine, conn, outcome, closing, answer, status, interrupt,
                     result>>
  BY DEF EndRun
<1>3. TypeOK'
  BY <1>1, <1>2 DEF IInv, TypeOK
<1>4. RunsInOrder'
  BY <1>1, <1>2 DEF IInv, RunsInOrder
<1>5. Control'
  BY <1>2 DEF IInv, Control
<1>6. \A q \in Runs : Over(q) => q # r /\ st'[q] = st[q] /\ Over(q)'
  BY <1>1 DEF Over
<1>7. pc = "draining" => conn \in Connections /\ conn.run \in Runs
  BY DEF IInv, Control, Connections
<1>8. pc = "finalizing" => ident \in Runs
  BY DEF IInv, TypeOK, Control
<1>9. Shown'
  BY <1>2, <1>6, <1>7, <1>8 DEF IInv, Shown, Text
<1>10. Verdict'
  <2>1. pc = "draining" /\ outcome => Over(conn.run)
    BY DEF IInv, Shown
  <2>2. interrupt => ident \in Runs /\ Over(ident)
    BY DEF IInv, TypeOK, Verdict, VerdictIsTheRuns, Over, Verdicts
  <2>3. result = "ok" => ident \in Runs /\ Over(ident)
    BY DEF IInv, TypeOK, Verdict, VerdictIsTheRuns
  <2> QED
    BY <1>2, <1>6, <1>7, <2>1, <2>2, <2>3
       DEF IInv, Verdict, VerdictIsTheRuns
<1> QED
  BY <1>3, <1>4, <1>5, <1>9, <1>10 DEF IInv

LEMMA StutterStep == IInv /\ UNCHANGED vars => IInv'
  BY DEF vars, IInv, TypeOK, RunsInOrder, Control, Shown, Verdict,
     VerdictIsTheRuns, Over, Text, Told

-----------------------------------------------------------------------------
(* The theorems *)

LEMMA InitInvariant == Init => IInv
<1> SUFFICES ASSUME Init PROVE IInv
  OBVIOUS
<1> USE TriesAssumption, HandshakesAssumption, PollsAssumption, MaxTextAssumption,
        NoneAssumption
<1>1. /\ made \in [Runs -> 0 .. MaxText] /\ ident \in Runs \cup {None}
      /\ st \in [Runs -> {"none", "going"} \cup Verdicts]
  BY DEF Init, Runs
<1>2. /\ 0 \in 0 .. Tries - 1 /\ 0 \in 0 .. (Tries + Polls)
      /\ 0 \in 0 .. Tries /\ 0 \in 0 .. Handshakes
  OBVIOUS
<1>3. TypeOK
  BY <1>1, <1>2, EmptyAnswer DEF Init, TypeOK
<1>4. RunsInOrder
  BY DEF Init, RunsInOrder
<1>5. Control
  BY <1>2 DEF Init, Control
<1>6. Shown /\ Verdict
  BY DEF Init, Shown, Verdict, VerdictIsTheRuns
<1> QED
  BY <1>3, <1>4, <1>5, <1>6 DEF IInv

LEMMA StepInvariant == IInv /\ [Next]_vars => IInv'
<1> SUFFICES ASSUME IInv, [Next]_vars PROVE IInv'
  OBVIOUS
<1>1. CASE Serve
  BY <1>1, ProduceStep, EndRunStep DEF Serve
<1>2. CASE Client
  BY <1>2, OpenStreamStep, HandshakeRejectedStep, HandshakeFailedStep,
     DeliverStartedStep, DeliverTextStep, DeliverAskStep, DeliverFinishedStep,
     DeliverOutcomeStep, StopCompleteStep, StopWithoutOutcomeStep, ResendStep,
     StartReattachStep, BreakAgainStep, ReattachedStep, AttachFailedStep,
     AttachMissingStep, PollFindsStep, PollFindsNothingStep,
     FinalizeReadsStep, FinalizeFailsStep DEF Client
<1>3. CASE UNCHANGED vars
  BY <1>3, StutterStep
<1> QED
  BY <1>1, <1>2, <1>3 DEF Next

THEOREM Invariant == Spec => []IInv
  BY InitInvariant, StepInvariant, PTL DEF Spec

\* Every variable keeps its type: the retries of the handshake, of the POST and
\* of reattach's loop stay within their bounds (stream_conversation).
THEOREM TypeCorrect == Spec => []TypeOK
<1>1. IInv => TypeOK
  BY DEF IInv
<1> QED
  BY <1>1, Invariant, PTL

\* "ok" comes with the verdict of the run the client knows by name
\* (stream_conversation, finalize_from_history, read_back_answer).
THEOREM VerdictsAreTheRuns == Spec => []VerdictIsTheRuns
<1>1. IInv => VerdictIsTheRuns
  BY DEF IInv, Verdict
<1> QED
  BY <1>1, Invariant, PTL

\* A named run is never started again: reattach's promise, that a resend would
\* be a second run beside it, is kept by stream_conversation.
THEOREM NeverResent == Spec => NoSecondRun
<1>1. IInv /\ [Next]_vars
        => [posts > 0 /\ ident # None => posts' = posts]_vars
  <2> SUFFICES ASSUME IInv, [Next]_vars, posts > 0, ident # None
               PROVE  posts' = posts
    OBVIOUS
  <2>1. ~OpenStream
    <3>1. posts # 0
      BY DEF IInv, TypeOK
    <3> QED
      BY <3>1 DEF IInv, Control, OpenStream
  <2>2. CASE Serve
    BY <2>2 DEF Serve, Produce, EndRun
  <2>3. CASE Client
    BY <2>1, <2>3 DEF Client, HandshakeRejected, HandshakeFailed,
       DeliverStarted, DeliverText, DeliverAsk, DeliverFinished,
       DeliverOutcome, StopComplete, StopWithoutOutcome, Resend,
       StartReattach, BreakAgain, Reattached, AttachFailed, AttachMissing,
       PollFinds, PollFindsNothing, FinalizeReads, FinalizeFails, NextAttach,
       Rest
  <2>4. CASE UNCHANGED vars
    BY <2>4 DEF vars
  <2> QED
    BY <2>2, <2>3, <2>4 DEF Next
<1> QED
  BY <1>1, Invariant, PTL DEF Spec, NoSecondRun

-----------------------------------------------------------------------------
(* The refinement *)

\* What was shown is a beginning of what is shown next, and of what is written.
LEMMA ToldIsPrefix ==
  ASSUME NEW r \in Runs, NEW n \in Nat, NEW m \in 0 .. n
  PROVE  Told(r, m) \in Delivery!Prefixes(Told(r, n))
<1>1. Told(r, n) \in Seq(Runs \X Nat) /\ Len(Told(r, n)) = n
  BY DEF Told
<1>2. SubSeq(Told(r, n), 1, m) = Told(r, m)
  BY <1>1 DEF Told
<1> QED
  BY <1>1, <1>2 DEF Delivery!Prefixes

\* Nothing is a beginning of anything.
LEMMA EmptyIsPrefix ==
  ASSUME NEW r \in Runs, NEW n \in Nat
  PROVE  <<>> \in Delivery!Prefixes(Told(r, n))
  BY NothingTold, ToldIsPrefix

LEMMA EmptyOfEmpty == <<>> \in Delivery!Prefixes(<<>>)
<1>1. Len(<<>>) = 0 /\ SubSeq(<<>>, 1, 0) = <<>>
  OBVIOUS
<1> QED
  BY <1>1 DEF Delivery!Prefixes

LEMMA NamedRun == IInv /\ ident # None => ident \in Runs /\ made[ident] \in Nat
  BY DEF IInv, TypeOK

\* Steps a listener sees nothing of.
LEMMA Unseen ==
  ASSUME UNCHANGED <<made, st, ident, answer, result>>
  PROVE  UNCHANGED Delivery!vars
  BY DEF Delivery!vars, Text, Told, Over

\* Steps that start the answer over.
LEMMA SeenRestart ==
  ASSUME IInv, pc # "returned", UNCHANGED <<made, st, ident, result>>, Restarted
  PROVE  Delivery!Restart
<1>1. result = "no"
  BY DEF IInv, Control
<1> QED
  BY <1>1 DEF Delivery!Restart, Restarted, Text, Told, Over

\* Steps that give up.
LEMMA SeenGiveUp ==
  ASSUME IInv, pc # "returned", UNCHANGED <<made, st, ident, answer>>,
         result' = "err"
  PROVE  Delivery!GiveUp
<1>1. result = "no"
  BY DEF IInv, Control
<1> QED
  BY <1>1 DEF Delivery!GiveUp, Text, Told, Over

\* Steps that return with the whole answer shown.
LEMMA SeenFinish ==
  ASSUME IInv, pc # "returned", UNCHANGED <<made, st, ident>>, result' = "ok",
         ident # None, Over(ident), answer \in {<<>>, Text(ident)},
         answer' = Text(ident)
  PROVE  Delivery!Finish
<1>1. result = "no"
  BY DEF IInv, Control
<1>2. ident \in Runs /\ made[ident] \in Nat
  BY NamedRun
<1>3. answer \in Delivery!Prefixes(Text(ident))
  BY <1>2, ToldIsPrefix, EmptyIsPrefix DEF Text
<1>4. Text(ident)' = Text(ident)
  BY DEF Text, Told
<1> QED
  BY <1>1, <1>3, <1>4 DEF Delivery!Finish, Over

\* Steps in which the server writes, or the client learns what it wrote.
LEMMA SeenWrite ==
  ASSUME NEW before, NEW after, before \in Delivery!Prefixes(after),
         before = IF ident = None THEN <<>> ELSE Text(ident),
         after = (IF ident = None THEN <<>> ELSE Text(ident))',
         ident # None => ~Over(ident), UNCHANGED <<answer, result>>
  PROVE  Delivery!Write
  BY DEF Delivery!Write, Over

LEMMA ServerRefines ==
  ASSUME IInv, NEW r \in Runs, Produce(r) \/ EndRun(r)
  PROVE  [Delivery!Next]_(Delivery!vars)
<1> USE TriesAssumption, MaxTextAssumption, NoneAssumption
<1>1. /\ UNCHANGED <<ident, answer, result>> /\ ~Over(r) /\ st[r] = "going"
      /\ made[r] \in Nat /\ made'[r] \in Nat /\ made[r] <= made'[r]
      /\ \A q \in Runs : q # r => made'[q] = made[q] /\ st'[q] = st[q]
  BY DEF IInv, TypeOK, Produce, EndRun, Over, Verdicts
<1>2. r # None
  BY DEF Runs
<1>3. CASE ident = r
  <2>1. Told(r, made[r]) \in Delivery!Prefixes(Told(r, made'[r]))
    BY <1>1, ToldIsPrefix
  <2>2. Text(ident)' = Told(r, made'[r]) /\ Text(ident) = Told(r, made[r])
    BY <1>1, <1>3 DEF Text, Told
  <2>3. Delivery!Write
    BY <1>1, <1>2, <1>3, <2>1, <2>2, SeenWrite
  <2> QED
    BY <2>3 DEF Delivery!Next
<1>4. CASE ident # r
  <2>1. ident # None => /\ ident \in Runs /\ Over(ident)' = Over(ident)
                        /\ Text(ident)' = Text(ident)
    BY <1>1, <1>4, NamedRun DEF Over, Text, Told
  <2> QED
    BY <1>1, <2>1 DEF Delivery!vars
<1> QED
  BY <1>3, <1>4

LEMMA ClientRefines ==
  ASSUME IInv, Client
  PROVE  [Delivery!Next]_(Delivery!vars)
<1> USE TriesAssumption, HandshakesAssumption, MaxTextAssumption, NoneAssumption
<1> USE DEF Delivery!Next
<1>1. CASE OpenStream
  <2>1. posts \in Nat /\ (ident = None \/ (posts = 0 /\ ident = 1))
    BY <1>1 DEF IInv, TypeOK, Control, OpenStream
  <2>2. posts + 1 \in Runs
    BY <1>1 DEF IInv, TypeOK, Control, OpenStream, Runs
  <2>3. st[posts + 1] = "none" /\ st'[posts + 1] = "going"
    BY <1>1, <2>1, <2>2 DEF IInv, TypeOK, RunsInOrder, OpenStream
  <2>4. ident # None => Over(ident)' = Over(ident)
    BY <1>1, <2>1, <2>3 DEF Over, Verdicts, OpenStream
  <2>5. UNCHANGED <<made, ident, answer, result>>
    BY <1>1 DEF OpenStream
  <2> QED
    BY <2>4, <2>5 DEF Delivery!vars, Text, Told
<1>2. CASE HandshakeRejected \/ HandshakeFailed
  BY <1>2, Unseen, SeenGiveUp DEF HandshakeRejected, HandshakeFailed, Return
<1>3. CASE DeliverStarted
  <2>1. /\ conn.run \in Runs /\ made[conn.run] \in Nat
        /\ ident \in {None, conn.run} /\ ident' = conn.run
        /\ UNCHANGED <<made, st, answer, result>>
    BY <1>3 DEF IInv, TypeOK, Control, Connections, DeliverStarted, Draining, Rest
  <2>2. CASE ident = conn.run
    BY <2>1, <2>2, Unseen
  <2>3. CASE ident = None
    <3>1. <<>> \in Delivery!Prefixes(Told(conn.run, made[conn.run]))
      BY <2>1, EmptyIsPrefix
    <3>2. conn.run # None /\ Text(ident)' = Told(conn.run, made[conn.run])
      BY <2>1 DEF Text, Told, Runs
    <3>3. Delivery!Write
      BY <2>1, <2>3, <3>1, <3>2, SeenWrite
    <3> QED
      BY <3>3
  <2> QED
    BY <2>1, <2>2, <2>3
<1>4. CASE DeliverText
  <2>1. /\ conn.run \in Runs /\ made[conn.run] \in Nat /\ conn.n \in Nat
        /\ conn.n < made[conn.run] /\ ident = conn.run /\ ident # None
        /\ answer = Told(conn.run, conn.n) /\ result = "no"
        /\ UNCHANGED <<made, st, ident, result>>
    BY <1>4 DEF IInv, TypeOK, Control, Shown, Connections, DeliverText, Draining,
       Rest, Runs
  <2>2. answer' = Told(conn.run, conn.n + 1)
    BY <1>4, <2>1, OneMoreTold DEF DeliverText
  <2>3. /\ answer \in Delivery!Prefixes(answer')
        /\ answer' \in Delivery!Prefixes(Text(ident))
    BY <2>1, <2>2, ToldIsPrefix DEF Text
  <2>4. Delivery!Show
    BY <2>1, <2>3 DEF Delivery!Show, Text, Told, Over
  <2> QED
    BY <2>4
<1>5. CASE DeliverAsk \/ DeliverFinished \/ DeliverOutcome
  BY <1>5, Unseen DEF DeliverAsk, DeliverFinished, DeliverOutcome, Rest
<1>6. CASE StopComplete
  <2>1. outcome
    BY <1>6 DEF StopComplete, Ended
  <2>2. /\ conn.at # "start" /\ ident = conn.run /\ conn.run \in Runs
        /\ Over(ident) /\ answer = Text(ident)
    BY <1>6, <2>1 DEF IInv, Control, Shown, StopComplete, Draining, Text,
       Connections
  <2>3. Delivery!Finish
    BY <1>6, <2>2, SeenFinish DEF StopComplete, Return, Draining, Runs
  <2> QED
    BY <2>3
<1>7. CASE StopWithoutOutcome
  <2>1. closing
    BY <1>7 DEF StopWithoutOutcome, Ended
  <2>2. ident # None
    BY <1>7, <2>1 DEF IInv, Control, Shown, StopWithoutOutcome, Draining,
       Connections, Runs
  <2> QED
    BY <1>7, <2>2, Unseen DEF StopWithoutOutcome
<1>8. CASE Resend
  <2>1. answer = <<>>
    BY <1>8, NothingTold DEF IInv, Control, Shown, Resend, Broken, Draining,
       Unnamed, Connections, Runs
  <2>2. answer' = answer /\ UNCHANGED <<made, st, ident>>
    BY <1>8, <2>1 DEF Resend, Restarted
  <2> QED
    BY <1>8, <2>2, Unseen, SeenGiveUp DEF Resend, Broken, Draining, Return
<1>9. CASE StartReattach
  BY <1>9, SeenRestart DEF StartReattach, Attach, Broken, Draining
<1>10. CASE BreakAgain \/ AttachFailed
  BY <1>10, SeenRestart, Unseen
     DEF BreakAgain, AttachFailed, NextAttach, Attach, ReadBack, consumer,
         Broken, Draining
<1>11. CASE Reattached
  BY <1>11, Unseen DEF Reattached
<1>12. CASE AttachMissing
  BY <1>12, SeenRestart, Unseen DEF AttachMissing, ReadBack, consumer
<1>13. CASE PollFinds
  <2>1. answer = <<>> /\ ident # None
    BY <1>13 DEF IInv, Control, Shown, PollFinds
  <2>2. answer' = Text(ident)
    <3>1. Text(ident) \in Seq(Runs \X Nat)
      BY <2>1, NamedRun DEF Text, Told
    <3> QED
      BY <1>13, <2>1, <3>1 DEF PollFinds
  <2>3. Delivery!Finish
    BY <1>13, <2>1, <2>2, SeenFinish DEF PollFinds, Return
  <2> QED
    BY <2>3
<1>14. CASE PollFindsNothing
  BY <1>14, Unseen, SeenGiveUp DEF PollFindsNothing, Return
<1>15. CASE FinalizeReads
  <2>1. Delivery!Finish
    BY <1>15, SeenFinish DEF IInv, Control, Shown, FinalizeReads, Return
  <2> QED
    BY <2>1
<1>16. CASE FinalizeFails
  BY <1>16, Unseen, SeenGiveUp DEF FinalizeFails, Return
<1> QED
  BY <1>1, <1>2, <1>3, <1>4, <1>5, <1>6, <1>7, <1>8, <1>9, <1>10, <1>11, <1>12,
     <1>13, <1>14, <1>15, <1>16 DEF Client

\* stream_conversation keeps AnswerDelivery's promise through every lost
\* connection, replay and read-back.
THEOREM Refinement == Spec => Delivers
<1>1. Init => Delivery!Init
  BY TriesAssumption, NoneAssumption
     DEF Init, Delivery!Init, Text, Told, Over, Verdicts, Runs
<1>2. IInv /\ [Next]_vars => [Delivery!Next]_(Delivery!vars)
  <2> SUFFICES ASSUME IInv, [Next]_vars
               PROVE  [Delivery!Next]_(Delivery!vars)
    OBVIOUS
  <2>1. CASE Serve
    BY <2>1, ServerRefines DEF Serve
  <2>2. CASE Client
    BY <2>2, ClientRefines
  <2>3. CASE UNCHANGED vars
    BY <2>3, Unseen DEF vars
  <2> QED
    BY <2>1, <2>2, <2>3 DEF Next
<1> QED
  BY <1>1, <1>2, Invariant, PTL DEF Spec, Delivers, Delivery!Spec
=============================================================================
