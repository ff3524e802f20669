--------------------------- MODULE AnswerDelivery ---------------------------
(* What stream_conversation (cli/agent/client.rs) promises whoever listens  *)
(* to it, without a word on connections: the server writes one answer, the  *)
(* listener is shown a growing prefix of it, now and then told to forget    *)
(* what it was shown, and the call returns "ok" only with the whole answer  *)
(* of a run that is over on show.                                           *)
EXTENDS Sequences, Naturals

VARIABLES text,    \* what the server has written of the answer
          over,    \* whether it has finished writing
          shown,   \* what the listener has
          result   \* "no", or what the call returned

vars == <<text, over, shown, result>>

Prefixes(s) == {SubSeq(s, 1, n) : n \in 0 .. Len(s)}

Init == text = <<>> /\ over = FALSE /\ shown = <<>> /\ result = "no"

\* The server writes on, and finishes, whether or not anybody listens.
Write ==
  /\ ~over
  /\ text \in Prefixes(text')
  /\ over' \in BOOLEAN
  /\ UNCHANGED <<shown, result>>

\* More of the answer is shown.
Show ==
  /\ result = "no"
  /\ shown \in Prefixes(shown')
  /\ shown' \in Prefixes(text)
  /\ UNCHANGED <<text, over, result>>

\* The listener is told to forget what it has: it will be shown again.
Restart ==
  /\ result = "no"
  /\ shown' = <<>>
  /\ UNCHANGED <<text, over, result>>

\* The call returns with the whole answer shown.
Finish ==
  /\ result = "no"
  /\ over
  /\ shown \in Prefixes(shown')
  /\ shown' = text
  /\ result' = "ok"
  /\ UNCHANGED <<text, over>>

\* The call gives up, and says so.
GiveUp ==
  /\ result = "no"
  /\ result' = "err"
  /\ UNCHANGED <<text, over, shown>>

Next == Write \/ Show \/ Restart \/ Finish \/ GiveUp

Spec == Init /\ [][Next]_vars
=============================================================================
