--------------------------- MODULE MCDeviceLogin ---------------------------
(* DeviceLogin, with what the reader called off kept.                      *)
EXTENDS DeviceLogin

\* history: the logins whose panel the reader closed
VARIABLE cancelled

CancelSpec ==
  /\ Init /\ cancelled = {}
  /\ [][/\ Next
        /\ cancelled' = IF Cancel THEN cancelled \cup {login} ELSE cancelled]_<<vars, cancelled>>

\* ai/tui.rs:1607, "cancelling it": a sign-in the reader called off does not sign in.
CancelledStaysOut ==
  [][\A k \in cancelled : context' = k => context = k]_<<vars, cancelled>>
=============================================================================
