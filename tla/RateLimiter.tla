---------------------------- MODULE RateLimiter ----------------------------
(***************************************************************************)
(* The process-wide rate limiter of the OpenAPI calls                      *)
(* (openapi/rate_limiter.rs).  A call first acquires a grant: under a fair *)
(* mutex, held across the pacing sleep, a caller looks at the clock, drops *)
(* the grants older than the window, and is granted when the pause, the    *)
(* gap and the window allow it, or sleeps and looks again.  A call the     *)
(* server rejects pauses every caller and is tried again, up to            *)
(* MaxRetries times.                                                       *)
(*                                                                         *)
(* Time is counted in ticks.  A sleeper wakes at its time or any later,    *)
(* the clock may move between a caller's look and its decision, and other  *)
(* callers' rejections may come in between.                                *)
(***************************************************************************)
EXTENDS Integers, SequencesExt

CONSTANTS
  Callers,       \* the tasks that make calls
  Retrying,      \* those that call execute; the others call acquire alone
  MaxPerWindow,  \* grants in any window
  MinGap,        \* between two consecutive grants
  Window,        \* the sliding window
  MaxRetries,    \* of one call of execute
  Backoff,       \* the first wait after a rejection without a hint
  Jitter,        \* the largest spread added to a backoff
  Hints,         \* the "retry after" hints a rejection may carry
  Horizon,       \* bound: the last instant
  LastCall,      \* bound: no call begins after it
  None           \* Rust's None

ASSUME LimiterAssumption ==
  /\ Retrying \subseteq Callers /\ None \notin Callers /\ None \notin Nat
  /\ MaxPerWindow \in Nat \ {0}
  /\ MinGap \in Nat /\ Window \in Nat /\ MinGap <= Window
  /\ MaxRetries \in Nat /\ Backoff \in Nat /\ Jitter \in Nat
  /\ Hints \subseteq Nat \ {0}
  /\ Horizon \in Nat /\ LastCall \in Nat

VARIABLES
  grants,        \* instants of the grants still counted, oldest first
  paused_until,  \* no grants before this instant
  holder,        \* who holds the mutex over grants
  waiters,       \* who waits for it, first come first served
  pc,            \* where each caller is
  seen,          \* acquire's `now`, as the caller last read it
  wake,          \* when the caller's sleep ends
  retries,       \* execute's retry_count
  backoff,       \* execute's backoff_duration
  now,           \* the clock
  \* history: every grant made, the callers not granted yet in the order they
  \* came, and the latest instant a rejection asked to be left alone until
  log, line, quiet

limiter == <<grants, paused_until, holder, waiters>>
callers == <<pc, seen, wake, retries, backoff>>
vars == <<limiter, callers, now, log, line, quiet>>

Stages == {"idle", "waiting", "looking", "deciding", "pacing", "calling", "backoff"}

\* `s` without `c`, which comes at most once in it.
Without(s, c) ==
  IF \E i \in DOMAIN s : s[i] = c
  THEN RemoveAt(s, CHOOSE i \in DOMAIN s : s[i] = c) ELSE s

----------------------------------------------------------------------------
(* acquire                                                                 *)

\* lock().await: the caller joins the mutex's queue.
Join(c) ==
  /\ pc' = [pc EXCEPT ![c] = "waiting"]
  /\ waiters' = Append(waiters, c)
  /\ line' = Append(line, c)

TakeLock(c) ==
  /\ holder = None /\ waiters # <<>> /\ Head(waiters) = c
  /\ holder' = c
  /\ waiters' = Tail(waiters)
  /\ pc' = [pc EXCEPT ![c] = "looking"]
  /\ UNCHANGED <<grants, paused_until, seen, wake, retries, backoff, now, log,
                 line, quiet>>

\* Mutant: a grant is forgotten one tick early.
ExpiredEarly(t, instant) == t - instant >= Window - 1

Expired(t, instant) == t - instant >= Window

\* The top of the loop: read the clock, pop the expired grants off the front.
Look(c) ==
  /\ pc[c] = "looking"
  /\ seen' = [seen EXCEPT ![c] = now]
  /\ \E k \in 0 .. Len(grants) :
       /\ \A i \in 1 .. k : Expired(now, grants[i])
       /\ k < Len(grants) => ~Expired(now, grants[k + 1])
       /\ grants' = SubSeq(grants, k + 1, Len(grants))
  /\ pc' = [pc EXCEPT ![c] = "deciding"]
  /\ UNCHANGED <<paused_until, holder, waiters, wake, retries, backoff, now, log,
                 line, quiet>>

\* Mutant: only the window is respected.
NotBeforeWithoutGap ==
  (IF paused_until = None THEN {} ELSE {paused_until})
  \cup (IF Len(grants) >= MaxPerWindow THEN {grants[1] + Window} ELSE {})

\* The instants a grant must not come before: the pause, the gap after the last
\* grant and, when the window is full, the expiry of its oldest grant.
NotBefore ==
  (IF paused_until = None THEN {} ELSE {paused_until})
  \cup (IF grants = <<>> THEN {} ELSE {grants[Len(grants)] + MinGap})
  \cup (IF Len(grants) >= MaxPerWindow THEN {grants[1] + Window} ELSE {})

\* Nothing to wait for: the grant is stamped with the instant looked at, and the
\* mutex released.
Grant(c) ==
  /\ \A b \in NotBefore : b <= seen[c]
  /\ grants' = Append(grants, seen[c])
  /\ log' = Append(log, seen[c])
  /\ line' = Without(line, c)
  /\ holder' = None
  /\ pc' = [pc EXCEPT ![c] = "calling"]
  /\ UNCHANGED wake

\* Mutant: the mutex is not held across the sleep.
PaceUnlocked(c) ==
  /\ \E b \in NotBefore :
       /\ b > seen[c] /\ \A o \in NotBefore : o <= b
       /\ wake' = [wake EXCEPT ![c] = now + (b - seen[c])]
  /\ holder' = None
  /\ pc' = [pc EXCEPT ![c] = "pacing"]
  /\ UNCHANGED <<grants, log, line>>

\* Sleep as long as the longest bound asks, the mutex held.
Pace(c) ==
  /\ \E b \in NotBefore :
       /\ b > seen[c] /\ \A o \in NotBefore : o <= b
       /\ wake' = [wake EXCEPT ![c] = now + (b - seen[c])]
  /\ pc' = [pc EXCEPT ![c] = "pacing"]
  /\ UNCHANGED <<grants, log, line, holder>>

Decide(c) ==
  /\ pc[c] = "deciding"
  /\ Grant(c) \/ Pace(c)
  /\ seen' = [seen EXCEPT ![c] = 0]
  /\ UNCHANGED <<paused_until, waiters, retries, backoff, now, quiet>>

\* The sleep is over, at its time or later; the loop goes round.
Wake(c) ==
  /\ pc[c] = "pacing" /\ now >= wake[c]
  /\ pc' = [pc EXCEPT ![c] = "looking"]
  /\ wake' = [wake EXCEPT ![c] = 0]
  /\ UNCHANGED <<limiter, seen, retries, backoff, now, log, line, quiet>>

----------------------------------------------------------------------------
(* execute, and the calls that only acquire.                               *)

\* A call begins, its locals fresh.
Execute(c) ==
  /\ pc[c] = "idle" /\ now <= LastCall
  /\ Join(c)
  /\ UNCHANGED <<grants, paused_until, holder, seen, wake, retries, backoff, now,
                 log, quiet>>

\* A call is over, and its locals with it.
Leave(c) ==
  /\ pc' = [pc EXCEPT ![c] = "idle"]
  /\ wake' = [wake EXCEPT ![c] = 0]
  /\ retries' = [retries EXCEPT ![c] = 0]
  /\ backoff' = [backoff EXCEPT ![c] = Backoff]

\* Mutant: the last rejection decides, be its deadline the earlier one.
PauseOverwritten(when) == paused_until' = when

\* pause_until: the latest deadline is kept.
PauseUntil(when) ==
  paused_until' = IF paused_until = None \/ when > paused_until
                  THEN when ELSE paused_until

\* Any answer but a rejection worth another try: the call returns.
Return(c) ==
  /\ pc[c] = "calling"
  /\ Leave(c)
  /\ UNCHANGED <<limiter, seen, now, log, line, quiet>>

\* Mutant: one try too many.
MayRetryOnceMore(c) == c \in Retrying /\ retries[c] <= MaxRetries

MayRetry(c) == c \in Retrying /\ retries[c] < MaxRetries

\* The server rejects the call: the whole limiter pauses, the caller sleeps as
\* long, and its next backoff doubles.
Reject(c) ==
  /\ pc[c] = "calling" /\ MayRetry(c)
  /\ \E first \in Hints \cup {backoff[c]}, jitter \in 0 .. Jitter :
       LET when == now + first + jitter IN
       /\ PauseUntil(when)
       /\ quiet' = IF when > quiet THEN when ELSE quiet
       /\ wake' = [wake EXCEPT ![c] = when]
  /\ retries' = [retries EXCEPT ![c] = @ + 1]
  /\ backoff' = [backoff EXCEPT ![c] = 2 * @]
  /\ pc' = [pc EXCEPT ![c] = "backoff"]
  /\ UNCHANGED <<grants, holder, waiters, seen, now, log, line>>

\* The backoff is over: the loop of execute acquires again.
Resume(c) ==
  /\ pc[c] = "backoff" /\ now >= wake[c]
  /\ Join(c)
  /\ wake' = [wake EXCEPT ![c] = 0]
  /\ UNCHANGED <<grants, paused_until, holder, seen, retries, backoff, now, log,
                 quiet>>

\* Mutant: the dropped caller's lock stays taken.
Unreleased(c) == holder

Released(c) == IF holder = c THEN None ELSE holder

\* The caller's task is aborted at an await (a cancelled turn, a closing view):
\* it leaves the queue, or its guard is dropped and the mutex released.
Drop(c) ==
  /\ pc[c] \in {"waiting", "pacing", "calling", "backoff"}
  /\ Leave(c)
  /\ waiters' = Without(waiters, c)
  /\ line' = Without(line, c)
  /\ holder' = Released(c)
  /\ UNCHANGED <<grants, paused_until, seen, now, log, quiet>>

Tick ==
  /\ now < Horizon
  /\ now' = now + 1
  /\ UNCHANGED <<limiter, callers, log, line, quiet>>

----------------------------------------------------------------------------
Step(c) == \/ TakeLock(c) \/ Look(c) \/ Decide(c) \/ Wake(c) \/ Return(c)
           \/ Reject(c) \/ Resume(c)

Next == Tick \/ \E c \in Callers : Step(c) \/ Execute(c) \/ Drop(c)

Init ==
  /\ grants = <<>> /\ paused_until = None /\ holder = None /\ waiters = <<>>
  /\ pc = [c \in Callers |-> "idle"]
  /\ seen = [c \in Callers |-> 0] /\ wake = [c \in Callers |-> 0]
  /\ retries = [c \in Callers |-> 0] /\ backoff = [c \in Callers |-> Backoff]
  /\ now = 0 /\ log = <<>> /\ line = <<>> /\ quiet = 0

Spec == Init /\ [][Next]_vars

\* A prompt scheduler: time stands still while a caller can move, and not for
\* ever, however busy callers that come and are dropped keep the instant.
Runnable(c) ==
  \/ pc[c] = "waiting" /\ holder = None /\ Head(waiters) = c
  \/ pc[c] \in {"looking", "deciding", "calling"}
  \/ pc[c] \in {"pacing", "backoff"} /\ now >= wake[c]
PromptTick == Tick /\ \A c \in Callers : ~Runnable(c)
PromptNext == PromptTick \/ \E c \in Callers : Step(c) \/ Execute(c) \/ Drop(c)
PromptSpec == /\ Init /\ [][PromptNext]_vars
              /\ SF_vars(PromptTick) /\ \A c \in Callers : WF_vars(Step(c))

----------------------------------------------------------------------------
(* Properties.                                                             *)

\* Every variable stays in its type; in particular no call is retried more than
\* MaxRetries times.
TypeOK ==
  /\ grants \in Seq(Nat) /\ paused_until \in Nat \cup {None}
  /\ holder \in Callers \cup {None} /\ waiters \in Seq(Callers)
  /\ pc \in [Callers -> Stages]
  /\ seen \in [Callers -> Nat] /\ wake \in [Callers -> Nat]
  /\ retries \in [Callers -> 0 .. MaxRetries] /\ backoff \in [Callers -> Nat]
  /\ now \in Nat /\ log \in Seq(Nat) /\ line \in Seq(Callers) /\ quiet \in Nat

\* Two consecutive grants are MinGap apart, whoever they went to and however
\* late each caller woke up; code 429003 otherwise.
GapKept == \A i \in 1 .. Len(log) - 1 : log[i + 1] - log[i] >= MinGap

\* No window holds more than MaxPerWindow grants; code 429002 otherwise.
WindowKept ==
  \A i \in 1 .. Len(log) - MaxPerWindow : log[i + MaxPerWindow] - log[i] >= Window

\* A rejection quiets every caller: nothing is granted before the latest
\* deadline any rejection asked for, also when several race and when one comes
\* while another caller is being granted.
RejectionsQuiet == [][log' # log => log'[Len(log')] >= quiet]_vars

\* Grants go out in the order they were asked for (FIFO).
InOrder == [][\A c \in Callers :
                pc[c] = "deciding" /\ pc'[c] = "calling" => Head(line) = c]_vars

\* Every call returns, though others are rejected, retried or dropped halfway.
CallsReturn == \A c \in Callers : pc[c] = "waiting" ~> pc[c] = "idle"
=============================================================================
