--------------------------- MODULE MCRateLimiter ---------------------------
(***************************************************************************)
(* The instance of RateLimiter for TLC, with a scheduler that is late at   *)
(* most so often: time passes while a caller could move MaxLate times, at  *)
(* any of its steps, and else stands still until every caller has moved.   *)
(* So one run shows what holds however late callers are and that their     *)
(* calls return.                                                           *)
(***************************************************************************)
EXTENDS RateLimiter

CONSTANT MaxLate    \* bound: ticks that find a caller ready to move

VARIABLE late       \* how many there were

lateVars == <<vars, late>>

LateInit == Init /\ late = 0

LateTick ==
  /\ Tick /\ \E c \in Callers : Runnable(c)
  /\ late < MaxLate /\ late' = late + 1

LateNext == (PromptNext /\ UNCHANGED late) \/ LateTick

LateSpec ==
  /\ LateInit /\ [][LateNext]_lateVars
  /\ SF_lateVars(PromptTick /\ UNCHANGED late)
  /\ \A c \in Callers : WF_lateVars(Step(c) /\ UNCHANGED late)
=============================================================================
