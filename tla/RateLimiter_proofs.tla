------------------------ MODULE RateLimiter_proofs ------------------------
(***************************************************************************)
(* Proofs about RateLimiter, for any callers, limits, hints and clock.     *)
(***************************************************************************)
EXTENDS RateLimiter, SequenceTheorems, TLAPS

LEMMA WithoutType ==
  ASSUME NEW S, NEW s \in Seq(S), NEW c
  PROVE  Without(s, c) \in Seq(S)
  <1>1. CASE \E i \in DOMAIN s : s[i] = c
    <2>. DEFINE i == CHOOSE j \in DOMAIN s : s[j] = c
    <2>1. DOMAIN s = 1 .. Len(s) /\ Len(s) \in Nat
      BY LenProperties
    <2>2. i \in 1 .. Len(s)
      BY <1>1, <2>1
    <2>3. Without(s, c) = SubSeq(s, 1, i - 1) \o SubSeq(s, i + 1, Len(s))
      BY <1>1 DEF Without, RemoveAt
    <2>. HIDE DEF i
    <2>4. SubSeq(s, 1, i - 1) \in Seq(S) /\ SubSeq(s, i + 1, Len(s)) \in Seq(S)
      BY <2>1, <2>2, SubSeqProperties, ElementOfSeq
    <2>. QED BY <2>3, <2>4, ConcatProperties
  <1>2. CASE ~ \E i \in DOMAIN s : s[i] = c
    BY <1>2 DEF Without
  <1>. QED BY <1>1, <1>2

----------------------------------------------------------------------------
(* The inductive invariant.                                                *)

\* Only the holder of the mutex looks, decides or sleeps over the grants.
Exclusive ==
  \A c \in Callers : pc[c] \in {"looking", "deciding", "pacing"} => holder = c

\* The deque is the tail of the log: what was popped is Gone grants long.
Gone == Len(log) - Len(grants)
GrantsOfLog ==
  /\ Len(grants) <= Len(log) /\ Len(grants) <= MaxPerWindow
  /\ \A i \in 1 .. Len(grants) : grants[i] = log[Gone + i]

\* What was popped is a window old, also for the caller about to decide, and
\* what such a caller still counts is not.
PoppedIsOld ==
  /\ \A i \in 1 .. Gone : log[i] + Window <= now
  /\ \A c \in Callers : pc[c] = "deciding" =>
       /\ \A i \in 1 .. Gone : log[i] + Window <= seen[c]
       /\ grants # <<>> => seen[c] < grants[1] + Window

\* Nothing comes from the future.
Past ==
  /\ \A c \in Callers : seen[c] <= now
  /\ \A i \in 1 .. Len(log) : log[i] <= now

\* The pause in force is the latest one asked for.
PauseIsLatest == IF paused_until = None THEN quiet = 0 ELSE quiet = paused_until

IInv ==
  /\ TypeOK /\ Exclusive /\ GrantsOfLog /\ PoppedIsOld /\ Past
  /\ PauseIsLatest /\ GapKept /\ WindowKept

----------------------------------------------------------------------------
LEMMA InitIInv == Init => IInv
  <1>. SUFFICES ASSUME Init PROVE IInv
    OBVIOUS
  <1>1. TypeOK
    BY LimiterAssumption, EmptySeq DEF Init, TypeOK, Stages
  <1>2. Exclusive /\ PauseIsLatest
    BY DEF Init, Exclusive, PauseIsLatest
  <1>3. Len(log) = 0 /\ Len(grants) = 0
    BY DEF Init
  <1>4. GrantsOfLog /\ PoppedIsOld /\ Past
    BY <1>3, LimiterAssumption DEF Init, GrantsOfLog, Gone, PoppedIsOld, Past
  <1>5. GapKept /\ WindowKept
    BY <1>3, LimiterAssumption DEF GapKept, WindowKept
  <1>. QED BY <1>1, <1>2, <1>4, <1>5 DEF IInv

\* The types of what the arithmetic is about.
LEMMA Instants ==
  ASSUME TypeOK
  PROVE  /\ Len(log) \in Nat /\ Len(grants) \in Nat /\ now \in Nat /\ quiet \in Nat
         /\ \A i \in 1 .. Len(log) : log[i] \in Nat
         /\ \A i \in 1 .. Len(grants) : grants[i] \in Nat
         /\ \A c \in Callers : seen[c] \in Nat /\ wake[c] \in Nat
         /\ paused_until \in Nat \cup {None}
  BY LenProperties, ElementOfSeq DEF TypeOK

\* Steps that neither look nor grant: a caller that decides was deciding.
LEMMA AsideStep ==
  ASSUME IInv, TypeOK', Exclusive', PauseIsLatest',
         UNCHANGED <<grants, log, seen>>, now <= now',
         \A c \in Callers : pc'[c] = "deciding" => pc[c] = "deciding"
  PROVE  IInv'
  <1>1. TypeOK /\ now' \in Nat
    BY DEF IInv, TypeOK
  <1>2. GrantsOfLog' /\ GapKept' /\ WindowKept'
    BY DEF IInv, GrantsOfLog, Gone, GapKept, WindowKept
  <1>3. Past'
    BY <1>1, Instants DEF IInv, Past
  <1>4. PoppedIsOld'
    <2>1. Gone' = Gone /\ Gone \in Nat
      BY <1>1, Instants DEF Gone, IInv, GrantsOfLog
    <2>2. \A i \in 1 .. Gone : i \in 1 .. Len(log)
      BY <1>1, Instants DEF Gone
    <2>3. \A i \in 1 .. Gone : log[i] \in Nat /\ log[i] + Window <= now
      BY <1>1, <2>2, Instants DEF IInv, PoppedIsOld
    <2>4. \A i \in 1 .. Gone : log[i] + Window <= now'
      BY <1>1, <2>3, Instants, LimiterAssumption
    <2>. QED BY <2>1, <2>4 DEF IInv, PoppedIsOld
  <1>. QED BY <1>2, <1>3, <1>4 DEF IInv

\* Popping expired grants off the front leaves a shorter tail of the log.
LEMMA LookStep ==
  ASSUME IInv, NEW c \in Callers, Look(c)
  PROVE  IInv'
  <1>1. TypeOK /\ now \in Nat
    BY DEF IInv, TypeOK
  <1>2. /\ pc[c] = "looking" /\ pc' = [pc EXCEPT ![c] = "deciding"]
        /\ seen' = [seen EXCEPT ![c] = now]
        /\ UNCHANGED <<paused_until, holder, waiters, wake, retries, backoff, now>>
        /\ UNCHANGED <<log, line, quiet>>
    BY DEF Look
  <1>3. PICK k \in 0 .. Len(grants) :
          /\ \A i \in 1 .. k : Expired(now, grants[i])
          /\ k < Len(grants) => ~Expired(now, grants[k + 1])
          /\ grants' = SubSeq(grants, k + 1, Len(grants))
    BY DEF Look
  <1>. DEFINE n == Len(grants)
  <1>4. n \in Nat /\ k \in 0 .. n /\ Len(log) \in Nat
    BY <1>1, Instants
  <1>5. \A i \in k + 1 .. n : grants[i] \in Nat
    BY <1>1, <1>4, Instants
  <1>6. /\ grants' \in Seq(Nat) /\ Len(grants') = n - k
        /\ \A i \in 1 .. n - k : grants'[i] = grants[k + i]
    <2>1. /\ SubSeq(grants, k + 1, n) \in Seq(Nat)
          /\ Len(SubSeq(grants, k + 1, n))
               = IF k + 1 <= n THEN n - (k + 1) + 1 ELSE 0
          /\ \A i \in 1 .. n - (k + 1) + 1 :
               SubSeq(grants, k + 1, n)[i] = grants[k + 1 + i - 1]
      BY <1>4, <1>5, SubSeqProperties
    <2>2. n - (k + 1) + 1 = n - k
      BY <1>4
    <2>3. \A i \in 1 .. n - k : k + 1 + i - 1 = k + i
      BY <1>4
    <2>4. grants' \in Seq(Nat)
      BY <1>3, <2>1
    <2>5. Len(grants') = n - k
      BY <1>3, <1>4, <2>1
    <2>6. \A i \in 1 .. n - k : grants'[i] = grants[k + i]
      BY <1>3, <2>1, <2>2, <2>3
    <2>. QED BY <2>4, <2>5, <2>6
  <1>. HIDE DEF n
  <1>7. TypeOK'
    BY <1>1, <1>2, <1>6 DEF TypeOK, Stages
  <1>8. Exclusive'
    BY <1>1, <1>2 DEF IInv, Exclusive, TypeOK
  <1>9. /\ Len(grants) = n /\ n <= Len(log) /\ n <= MaxPerWindow
        /\ \A i \in 1 .. n : grants[i] = log[Len(log) - n + i]
    BY DEF IInv, GrantsOfLog, Gone, n
  <1>10. Gone = Len(log) - n /\ Gone' = Len(log) - n + k
    BY <1>2, <1>4, <1>6, <1>9 DEF Gone
  <1>11. GrantsOfLog'
    <2>1. Len(grants') <= Len(log') /\ Len(grants') <= MaxPerWindow
      BY <1>2, <1>4, <1>6, <1>9, LimiterAssumption
    <2>2. ASSUME NEW i \in 1 .. Len(grants') PROVE grants'[i] = log'[Gone' + i]
      <3>1. i \in 1 .. n - k /\ k + i \in 1 .. n
        BY <1>4, <1>6
      <3>2. grants'[i] = log[Len(log) - n + (k + i)]
        BY <1>6, <1>9, <3>1
      <3>3. Len(log) - n + (k + i) = Gone' + i
        BY <1>4, <1>10, <3>1
      <3>. QED BY <1>2, <3>2, <3>3
    <2>. QED BY <2>1, <2>2 DEF GrantsOfLog
  <1>12. \A i \in 1 .. Gone' : log[i] + Window <= now
    <2>. SUFFICES ASSUME NEW i \in 1 .. Gone' PROVE log[i] + Window <= now
      OBVIOUS
    <2>1. CASE i <= Gone
      BY <1>4, <1>9, <1>10, <2>1 DEF IInv, PoppedIsOld
    <2>2. CASE i > Gone
      <3>. DEFINE j == i - (Len(log) - n)
      <3>1. j \in 1 .. k /\ j \in 1 .. n /\ Len(log) - n + j = i
        BY <1>4, <1>9, <1>10, <2>2
      <3>2. grants[j] = log[i] /\ grants[j] \in Nat
        BY <1>1, <1>9, <3>1, Instants
      <3>3. now - grants[j] >= Window
        BY <1>3, <3>1 DEF Expired
      <3>. QED BY <1>1, <3>2, <3>3, LimiterAssumption
    <2>. QED BY <2>1, <2>2, <1>4, <1>9, <1>10
  <1>13. grants' # <<>> => now < grants'[1] + Window
    <2>. SUFFICES ASSUME grants' # <<>> PROVE now < grants'[1] + Window
      OBVIOUS
    <2>1. k < n
      BY <1>4, <1>6
    <2>2. grants'[1] = grants[k + 1] /\ grants[k + 1] \in Nat
      BY <1>4, <1>5, <1>6, <2>1
    <2>3. ~(now - grants[k + 1] >= Window)
      BY <1>3, <1>9, <2>1 DEF Expired
    <2>. QED BY <1>1, <2>2, <2>3, LimiterAssumption
  <1>14. seen'[c] = now /\ \A d \in Callers : d # c => seen'[d] = seen[d]
    BY <1>1, <1>2 DEF TypeOK
  <1>15. \A d \in Callers : pc'[d] = "deciding" => d = c
    BY <1>1, <1>2 DEF IInv, Exclusive, TypeOK
  <1>16. PoppedIsOld'
    BY <1>2, <1>12, <1>13, <1>14, <1>15 DEF PoppedIsOld
  <1>17. Past'
    BY <1>1, <1>2, <1>14 DEF IInv, Past
  <1>18. PauseIsLatest' /\ GapKept' /\ WindowKept'
    BY <1>2 DEF IInv, PauseIsLatest, GapKept, WindowKept
  <1>. QED BY <1>7, <1>8, <1>11, <1>16, <1>17, <1>18 DEF IInv

\* A grant comes a gap after the last one and a window after the one
\* MaxPerWindow grants before it: whatever the deque no longer holds is a window
\* old, and what it holds is not yet MaxPerWindow grants.
LEMMA GrantStep ==
  ASSUME IInv, NEW c \in Callers, pc[c] = "deciding", Grant(c),
         seen' = [seen EXCEPT ![c] = 0],
         UNCHANGED <<paused_until, waiters, retries, backoff, now, quiet>>
  PROVE  IInv' /\ log'[Len(log')] >= quiet
  <1>. DEFINE s == seen[c]
              n == Len(log)
              g == Len(grants)
  <1>1. TypeOK /\ s \in Nat /\ s <= now /\ n \in Nat /\ g \in Nat /\ now \in Nat
    BY Instants DEF IInv, Past
  <1>2. /\ \A b \in NotBefore : b <= s
        /\ grants' = Append(grants, s) /\ log' = Append(log, s)
        /\ line' = Without(line, c) /\ holder' = None
        /\ pc' = [pc EXCEPT ![c] = "calling"] /\ wake' = wake
    BY DEF Grant
  <1>. HIDE DEF s
  <1>3. /\ Len(log') = n + 1 /\ log'[n + 1] = s
        /\ \A i \in 1 .. n : log'[i] = log[i]
    BY <1>1, <1>2, AppendProperties DEF TypeOK
  <1>4. /\ Len(grants') = g + 1 /\ grants'[g + 1] = s
        /\ \A i \in 1 .. g : grants'[i] = grants[i]
    BY <1>1, <1>2, AppendProperties DEF TypeOK
  <1>. HIDE DEF n, g
  <1>5. \A i \in 1 .. n : log[i] \in Nat
    BY <1>1, Instants DEF n
  <1>6. /\ g <= n /\ g <= MaxPerWindow /\ Gone = n - g
        /\ \A i \in 1 .. g : grants[i] = log[n - g + i]
    BY DEF IInv, GrantsOfLog, Gone, n, g
  <1>7. /\ \A i \in 1 .. n - g : log[i] + Window <= s
        /\ g > 0 => s < grants[1] + Window
    BY <1>1, <1>6 DEF IInv, PoppedIsOld, s, g
  <1>8. g < MaxPerWindow
    <2>. SUFFICES ASSUME g >= MaxPerWindow PROVE FALSE
      BY <1>1, LimiterAssumption
    <2>1. g > 0 /\ grants[1] \in Nat
      BY <1>1, LimiterAssumption, Instants DEF g
    <2>2. grants[1] + Window <= s
      BY <1>2 DEF NotBefore, g
    <2>. QED BY <1>1, <1>7, <2>1, <2>2, LimiterAssumption
  <1>9. n > 0 => log[n] + MinGap <= s
    <2>1. CASE g > 0
      <3>1. grants # <<>>
        BY <2>1 DEF g
      <3>2. grants[g] + MinGap <= s
        BY <1>2, <3>1 DEF NotBefore, g
      <3>3. grants[g] = log[n]
        BY <1>1, <1>6, <2>1
      <3>. QED BY <3>2, <3>3
    <2>2. CASE g = 0
      BY <1>1, <1>5, <1>7, <2>2, LimiterAssumption
    <2>. QED BY <1>1, <2>1, <2>2
  <1>10. log' \in Seq(Nat) /\ grants' \in Seq(Nat)
    BY <1>1, <1>2, AppendProperties DEF TypeOK
  <1>11. seen' \in [Callers -> Nat] /\ \A d \in Callers : seen'[d] <= now
    BY <1>1 DEF TypeOK, IInv, Past
  <1>12. TypeOK'
    BY <1>1, <1>2, <1>10, <1>11, WithoutType DEF TypeOK, Stages
  <1>13. Exclusive'
    BY <1>1, <1>2 DEF IInv, Exclusive, TypeOK
  <1>14. Gone' = n - g
    BY <1>1, <1>3, <1>4, <1>6 DEF Gone
  <1>15. GrantsOfLog'
    <2>1. Len(grants') <= Len(log') /\ Len(grants') <= MaxPerWindow
      BY <1>1, <1>3, <1>4, <1>6, <1>8, LimiterAssumption
    <2>2. ASSUME NEW i \in 1 .. Len(grants') PROVE grants'[i] = log'[Gone' + i]
      <3>1. CASE i <= g
        <4>1. i \in 1 .. g /\ n - g + i \in 1 .. n
          BY <1>1, <1>4, <1>6, <3>1
        <4>. QED BY <1>3, <1>4, <1>6, <1>14, <4>1
      <3>2. CASE i = g + 1
        <4>1. Gone' + i = n + 1
          BY <1>1, <1>14, <3>2
        <4>. QED BY <1>3, <1>4, <3>2, <4>1
      <3>. QED BY <1>1, <1>4, <3>1, <3>2
    <2>. QED BY <2>1, <2>2 DEF GrantsOfLog
  <1>16. PoppedIsOld'
    <2>1. \A d \in Callers : pc'[d] # "deciding"
      BY <1>1, <1>2 DEF IInv, Exclusive, TypeOK
    <2>2. \A i \in 1 .. n - g : log'[i] = log[i] /\ log[i] + Window <= now
      BY <1>1, <1>3, <1>5, <1>6, <1>7, LimiterAssumption
    <2>. QED BY <1>14, <2>1, <2>2 DEF PoppedIsOld
  <1>17. Past'
    <2>1. \A i \in 1 .. n : log[i] <= now
      BY DEF IInv, Past, n
    <2>. QED BY <1>1, <1>3, <1>11, <2>1 DEF Past
  <1>18. GapKept'
    <2>. SUFFICES ASSUME NEW i \in 1 .. Len(log') - 1
                  PROVE  log'[i + 1] - log'[i] >= MinGap
      BY DEF GapKept
    <2>1. CASE i < n
      <3>1. i \in 1 .. n - 1 /\ i + 1 \in 1 .. n
        BY <1>1, <2>1
      <3>. QED BY <1>3, <3>1 DEF IInv, GapKept, n
    <2>2. CASE i = n
      BY <1>1, <1>3, <1>5, <1>9, <2>2, LimiterAssumption
    <2>. QED BY <1>1, <1>3, <2>1, <2>2
  <1>19. WindowKept'
    <2>. SUFFICES ASSUME NEW i \in 1 .. Len(log') - MaxPerWindow
                  PROVE  log'[i + MaxPerWindow] - log'[i] >= Window
      BY DEF WindowKept
    <2>1. CASE i + MaxPerWindow <= n
      <3>1. i \in 1 .. n - MaxPerWindow /\ i \in 1 .. n /\ i + MaxPerWindow \in 1 .. n
        BY <1>1, <2>1, LimiterAssumption
      <3>. QED BY <1>3, <3>1 DEF IInv, WindowKept, n
    <2>2. CASE i + MaxPerWindow = n + 1
      <3>1. i \in 1 .. n - g /\ i \in 1 .. n
        BY <1>1, <1>6, <1>8, <2>2, LimiterAssumption
      <3>2. log'[i] = log[i] /\ log[i] \in Nat /\ log[i] + Window <= s
        BY <1>3, <1>5, <1>7, <3>1
      <3>3. log'[i + MaxPerWindow] = s
        BY <1>3, <2>2
      <3>. QED BY <1>1, <3>2, <3>3, LimiterAssumption
    <2>. QED BY <1>1, <1>3, <2>1, <2>2, LimiterAssumption
  <1>20. PauseIsLatest' /\ s >= quiet
    <2>1. PauseIsLatest'
      BY DEF IInv, PauseIsLatest
    <2>2. s >= quiet
      BY <1>1, <1>2, Instants DEF IInv, PauseIsLatest, NotBefore
    <2>. QED BY <2>1, <2>2
  <1>. QED
    BY <1>3, <1>12, <1>13, <1>15, <1>16, <1>17, <1>18, <1>19, <1>20 DEF IInv

LEMMA PaceStep ==
  ASSUME IInv, NEW c \in Callers, pc[c] = "deciding", Pace(c),
         seen' = [seen EXCEPT ![c] = 0],
         UNCHANGED <<paused_until, waiters, retries, backoff, now, quiet>>
  PROVE  IInv'
  <1>1. TypeOK /\ now \in Nat /\ seen[c] \in Nat
    BY Instants DEF IInv
  <1>2. PICK b \in NotBefore :
          b > seen[c] /\ wake' = [wake EXCEPT ![c] = now + (b - seen[c])]
    BY DEF Pace
  <1>3. /\ pc' = [pc EXCEPT ![c] = "pacing"]
        /\ UNCHANGED <<grants, log, line, holder>>
    BY DEF Pace
  <1>4. b \in Nat
    <2>1. grants # <<>> => Len(grants) \in 1 .. Len(grants)
      BY <1>1, Instants, EmptySeq DEF TypeOK
    <2>2. Len(grants) >= MaxPerWindow => 1 \in 1 .. Len(grants)
      BY <1>1, Instants, LimiterAssumption
    <2>. QED BY <1>1, <1>2, <2>1, <2>2, Instants, LimiterAssumption DEF NotBefore
  <1>5. TypeOK'
    <2>1. now + (b - seen[c]) \in Nat
      BY <1>1, <1>2, <1>4
    <2>2. wake' \in [Callers -> Nat] /\ seen' \in [Callers -> Nat]
      BY <1>1, <1>2, <2>1 DEF TypeOK
    <2>. QED BY <1>1, <1>3, <2>2 DEF TypeOK, Stages
  <1>6. Exclusive'
    BY <1>1, <1>3 DEF IInv, Exclusive, TypeOK
  <1>7. \A d \in Callers : pc'[d] # "deciding"
    BY <1>1, <1>3 DEF IInv, Exclusive, TypeOK
  <1>8. \A d \in Callers : seen'[d] <= now
    BY <1>1 DEF IInv, Past, TypeOK
  <1>9. GrantsOfLog' /\ PoppedIsOld' /\ Past'
    BY <1>3, <1>7, <1>8 DEF IInv, GrantsOfLog, Gone, PoppedIsOld, Past
  <1>10. PauseIsLatest' /\ GapKept' /\ WindowKept'
    BY <1>3 DEF IInv, PauseIsLatest, GapKept, WindowKept
  <1>. QED BY <1>5, <1>6, <1>9, <1>10 DEF IInv

\* Joining the queue: a call that begins, or one whose backoff is over.
LEMMA JoinStep ==
  ASSUME IInv, NEW c \in Callers, pc[c] \in {"idle", "backoff"}, Join(c),
         wake' \in [Callers -> Nat],
         UNCHANGED <<grants, paused_until, holder, seen, retries, backoff, now>>,
         UNCHANGED <<log, quiet>>
  PROVE  IInv'
  <1>1. TypeOK /\ now <= now
    BY Instants DEF IInv
  <1>2. /\ pc' = [pc EXCEPT ![c] = "waiting"]
        /\ waiters' = Append(waiters, c) /\ line' = Append(line, c)
    BY DEF Join
  <1>3. waiters' \in Seq(Callers) /\ line' \in Seq(Callers)
    BY <1>1, <1>2, AppendProperties DEF TypeOK
  <1>4. TypeOK'
    BY <1>1, <1>2, <1>3 DEF TypeOK, Stages
  <1>5. Exclusive' /\ PauseIsLatest'
    BY <1>1, <1>2 DEF IInv, Exclusive, PauseIsLatest, TypeOK
  <1>6. \A d \in Callers : pc'[d] = "deciding" => pc[d] = "deciding"
    BY <1>1, <1>2 DEF TypeOK
  <1>. QED BY <1>1, <1>4, <1>5, <1>6, AsideStep

\* Leaving, with or without the mutex.
LEMMA LeaveStep ==
  ASSUME IInv, NEW c \in Callers,
         pc[c] \in {"waiting", "pacing", "calling", "backoff"}, Leave(c),
         holder' \in {holder, Released(c)},
         waiters' \in {waiters, Without(waiters, c)},
         line' \in {line, Without(line, c)},
         UNCHANGED <<grants, paused_until, seen, now, log, quiet>>
  PROVE  IInv'
  <1>1. TypeOK /\ now <= now
    BY Instants DEF IInv
  <1>2. /\ pc' = [pc EXCEPT ![c] = "idle"] /\ wake' = [wake EXCEPT ![c] = 0]
        /\ retries' = [retries EXCEPT ![c] = 0]
        /\ backoff' = [backoff EXCEPT ![c] = Backoff]
    BY DEF Leave
  <1>3. waiters' \in Seq(Callers) /\ line' \in Seq(Callers)
    BY <1>1, WithoutType DEF TypeOK
  <1>4. TypeOK'
    BY SMTT(60), <1>1, <1>2, <1>3, LimiterAssumption DEF TypeOK, Stages, Released
  <1>5. Exclusive' /\ PauseIsLatest'
    BY <1>1, <1>2 DEF IInv, Exclusive, PauseIsLatest, TypeOK, Released
  <1>6. \A d \in Callers : pc'[d] = "deciding" => pc[d] = "deciding"
    BY <1>1, <1>2 DEF TypeOK
  <1>. QED BY <1>1, <1>4, <1>5, <1>6, AsideStep

\* A rejection moves the pause and nothing else of the limiter.
LEMMA RejectStep ==
  ASSUME IInv, NEW c \in Callers, Reject(c)
  PROVE  IInv'
  <1>1. TypeOK /\ now \in Nat /\ quiet \in Nat /\ paused_until \in Nat \cup {None}
    BY Instants DEF IInv
  <1>2. /\ pc[c] = "calling" /\ retries[c] < MaxRetries
        /\ retries' = [retries EXCEPT ![c] = @ + 1]
        /\ backoff' = [backoff EXCEPT ![c] = 2 * @]
        /\ pc' = [pc EXCEPT ![c] = "backoff"]
        /\ UNCHANGED <<grants, holder, waiters, seen, now, log, line>>
    BY DEF Reject, MayRetry
  <1>3. PICK first \in Hints \cup {backoff[c]}, jitter \in 0 .. Jitter :
          /\ PauseUntil(now + first + jitter)
          /\ quiet' = IF now + first + jitter > quiet THEN now + first + jitter ELSE quiet
          /\ wake' = [wake EXCEPT ![c] = now + first + jitter]
    BY DEF Reject
  <1>. DEFINE when == now + first + jitter
  <1>4. when \in Nat
    BY <1>1, LimiterAssumption DEF TypeOK
  <1>5. /\ paused_until' = IF paused_until = None \/ when > paused_until
                           THEN when ELSE paused_until
        /\ quiet' = IF when > quiet THEN when ELSE quiet
        /\ wake' = [wake EXCEPT ![c] = when]
    BY <1>3 DEF PauseUntil
  <1>. HIDE DEF when
  <1>6. PauseIsLatest' /\ paused_until' \in Nat \cup {None} /\ quiet' \in Nat
    BY <1>1, <1>4, <1>5, LimiterAssumption DEF IInv, PauseIsLatest
  <1>7. /\ retries' \in [Callers -> 0 .. MaxRetries] /\ backoff' \in [Callers -> Nat]
        /\ wake' \in [Callers -> Nat]
    <2>1. /\ MaxRetries \in Nat /\ retries[c] \in 0 .. MaxRetries
          /\ retries[c] < MaxRetries /\ backoff[c] \in Nat
      BY <1>1, <1>2, LimiterAssumption DEF TypeOK
    <2>2. retries[c] + 1 \in 0 .. MaxRetries
      BY <2>1
    <2>3. 2 * backoff[c] \in Nat
      BY <2>1
    <2>. QED BY <1>1, <1>2, <1>4, <1>5, <2>2, <2>3 DEF TypeOK
  <1>8. TypeOK'
    BY <1>1, <1>2, <1>6, <1>7 DEF TypeOK, Stages
  <1>9. Exclusive'
    BY <1>1, <1>2 DEF IInv, Exclusive, TypeOK
  <1>10. \A d \in Callers : pc'[d] = "deciding" => pc[d] = "deciding"
    BY <1>1, <1>2 DEF TypeOK
  <1>. QED BY <1>1, <1>2, <1>6, <1>8, <1>9, <1>10, AsideStep

\* The steps that only move the mutex, a caller's stage or the clock.
LEMMA MoveStep ==
  ASSUME IInv,
         Tick \/ (\E c \in Callers : TakeLock(c) \/ Wake(c)) \/ UNCHANGED vars
  PROVE  IInv'
  <1>1. TypeOK /\ now \in Nat
    BY Instants DEF IInv
  <1>2. CASE Tick \/ UNCHANGED vars
    <2>1. /\ UNCHANGED <<grants, paused_until, holder, waiters, pc, seen, wake>>
          /\ UNCHANGED <<retries, backoff, log, line, quiet>>
          /\ now' \in Nat /\ now <= now'
      BY <1>1, <1>2 DEF Tick, vars, limiter, callers
    <2>2. TypeOK' /\ Exclusive' /\ PauseIsLatest'
      BY <1>1, <2>1 DEF IInv, TypeOK, Exclusive, PauseIsLatest
    <2>. QED BY <2>1, <2>2, AsideStep
  <1>3. ASSUME NEW c \in Callers, TakeLock(c) PROVE IInv'
    <2>1. /\ holder = None /\ waiters # <<>> /\ holder' = c /\ waiters' = Tail(waiters)
          /\ pc' = [pc EXCEPT ![c] = "looking"]
          /\ UNCHANGED <<grants, paused_until, seen, wake, retries, backoff, now>>
          /\ UNCHANGED <<log, line, quiet>>
      BY <1>3 DEF TakeLock
    <2>2. waiters' \in Seq(Callers)
      BY <1>1, <2>1, HeadTailProperties DEF TypeOK
    <2>3. TypeOK'
      BY <1>1, <2>1, <2>2 DEF TypeOK, Stages
    <2>4. Exclusive' /\ PauseIsLatest'
      BY <1>1, <2>1, LimiterAssumption DEF IInv, Exclusive, PauseIsLatest, TypeOK
    <2>5. \A d \in Callers : pc'[d] = "deciding" => pc[d] = "deciding"
      BY <1>1, <2>1 DEF TypeOK
    <2>. QED BY <1>1, <2>1, <2>3, <2>4, <2>5, AsideStep
  <1>4. ASSUME NEW c \in Callers, Wake(c) PROVE IInv'
    <2>1. /\ pc[c] = "pacing" /\ pc' = [pc EXCEPT ![c] = "looking"]
          /\ wake' = [wake EXCEPT ![c] = 0]
          /\ UNCHANGED <<grants, paused_until, holder, waiters, seen, retries>>
          /\ UNCHANGED <<backoff, now, log, line, quiet>>
      BY <1>4 DEF Wake, limiter
    <2>2. TypeOK'
      BY <1>1, <2>1 DEF TypeOK, Stages
    <2>3. Exclusive' /\ PauseIsLatest'
      BY <1>1, <2>1 DEF IInv, Exclusive, PauseIsLatest, TypeOK
    <2>4. \A d \in Callers : pc'[d] = "deciding" => pc[d] = "deciding"
      BY <1>1, <2>1 DEF TypeOK
    <2>. QED BY <1>1, <2>1, <2>2, <2>3, <2>4, AsideStep
  <1>. QED BY <1>2, <1>3, <1>4

\* Every step keeps the invariant, and no step grants during a pause.
LEMMA NextIInv ==
  ASSUME IInv, [Next]_vars
  PROVE  IInv' /\ (log' # log => log'[Len(log')] >= quiet)
  <1>1. CASE Tick \/ UNCHANGED vars
    BY <1>1, MoveStep DEF Tick, vars
  <1>2. ASSUME NEW c \in Callers, TakeLock(c) \/ Wake(c)
        PROVE  IInv' /\ log' = log
    BY <1>2, MoveStep DEF TakeLock, Wake
  <1>3. ASSUME NEW c \in Callers, Look(c) PROVE IInv' /\ log' = log
    BY <1>3, LookStep DEF Look
  <1>4. ASSUME NEW c \in Callers, Decide(c)
        PROVE  IInv' /\ (log' # log => log'[Len(log')] >= quiet)
    <2>1. /\ pc[c] = "deciding" /\ seen' = [seen EXCEPT ![c] = 0]
          /\ UNCHANGED <<paused_until, waiters, retries, backoff, now, quiet>>
      BY <1>4 DEF Decide
    <2>2. CASE Grant(c)
      BY <2>1, <2>2, GrantStep
    <2>3. CASE Pace(c)
      BY <2>1, <2>3, PaceStep DEF Pace
    <2>. QED BY <1>4, <2>2, <2>3 DEF Decide
  <1>5. ASSUME NEW c \in Callers, Return(c) PROVE IInv' /\ log' = log
    BY <1>5, LeaveStep DEF Return, limiter
  <1>6. ASSUME NEW c \in Callers, Drop(c) PROVE IInv' /\ log' = log
    BY <1>6, LeaveStep DEF Drop
  <1>7. ASSUME NEW c \in Callers, Reject(c) PROVE IInv' /\ log' = log
    BY <1>7, RejectStep DEF Reject
  <1>8. ASSUME NEW c \in Callers, Execute(c) \/ Resume(c) PROVE IInv' /\ log' = log
    <2>1. wake \in [Callers -> Nat]
      BY DEF IInv, TypeOK
    <2>2. CASE Execute(c)
      <3>1. wake' = wake
        BY <2>2 DEF Execute
      <3>. QED BY <2>1, <2>2, <3>1, JoinStep DEF Execute
    <2>3. CASE Resume(c)
      <3>1. wake' = [wake EXCEPT ![c] = 0]
        BY <2>3 DEF Resume
      <3>2. wake' \in [Callers -> Nat]
        BY <2>1, <3>1
      <3>. QED BY <2>3, <3>2, JoinStep DEF Resume
    <2>. QED BY <1>8, <2>2, <2>3
  <1>. QED
    BY <1>1, <1>2, <1>3, <1>4, <1>5, <1>6, <1>7, <1>8 DEF Next, Step

----------------------------------------------------------------------------
(* First come, first served.                                               *)

\* What Without returns when `c` is at place `k` and nowhere else.
LEMMA WithoutThere ==
  ASSUME NEW S, NEW s \in Seq(S), NEW k \in 1 .. Len(s),
         \A i \in 1 .. Len(s) : s[i] = s[k] => i = k
  PROVE  /\ Len(Without(s, s[k])) = Len(s) - 1
         /\ \A i \in 1 .. Len(s) - 1 :
              Without(s, s[k])[i] = IF i < k THEN s[i] ELSE s[i + 1]
  <1>. DEFINE n == Len(s)
              a == SubSeq(s, 1, k - 1)
              b == SubSeq(s, k + 1, n)
  <1>1. DOMAIN s = 1 .. n /\ n \in Nat /\ \A i \in 1 .. n : s[i] \in S
    BY LenProperties, ElementOfSeq
  <1>2. (CHOOSE i \in DOMAIN s : s[i] = s[k]) = k
    BY <1>1
  <1>3. Without(s, s[k]) = a \o b
    BY <1>1, <1>2 DEF Without, RemoveAt
  <1>4. /\ a \in Seq(S) /\ Len(a) = k - 1
        /\ \A i \in 1 .. k - 1 : a[i] = s[i]
    <2>1. 1 \in Int /\ k - 1 \in Int /\ \A i \in 1 .. k - 1 : s[i] \in S
      BY <1>1
    <2>2. /\ a \in Seq(S) /\ Len(a) = IF 1 <= k - 1 THEN k - 1 - 1 + 1 ELSE 0
          /\ \A i \in 1 .. k - 1 - 1 + 1 : a[i] = s[1 + i - 1]
      BY <2>1, SubSeqProperties
    <2>. HIDE DEF a
    <2>. QED BY <1>1, <2>2
  <1>5. /\ b \in Seq(S) /\ Len(b) = n - k
        /\ \A i \in 1 .. n - k : b[i] = s[k + i]
    <2>1. k + 1 \in Int /\ n \in Int /\ \A i \in k + 1 .. n : s[i] \in S
      BY <1>1
    <2>2. /\ b \in Seq(S) /\ Len(b) = IF k + 1 <= n THEN n - (k + 1) + 1 ELSE 0
          /\ \A i \in 1 .. n - (k + 1) + 1 : b[i] = s[k + 1 + i - 1]
      BY <2>1, SubSeqProperties
    <2>. HIDE DEF b
    <2>3. Len(b) = n - k
      <3>1. k \in Int /\ n \in Int /\ k <= n
        BY <1>1
      <3>2. CASE k + 1 <= n
        BY <2>2, <3>1, <3>2
      <3>3. CASE ~ k + 1 <= n
        <4>1. Len(b) = 0
          BY <2>2, <3>3
        <4>2. n = k
          BY <3>1, <3>3
        <4>. QED BY <3>1, <4>1, <4>2
      <3>. QED BY <3>2, <3>3
    <2>4. ASSUME NEW i \in 1 .. n - k PROVE b[i] = s[k + i]
      <3>1. i \in 1 .. n - (k + 1) + 1 /\ k + 1 + i - 1 = k + i
        BY <1>1
      <3>. QED BY <2>2, <3>1
    <2>. QED BY <2>2, <2>3, <2>4
  <1>. HIDE DEF a, b
  <1>6. /\ Len(a \o b) = Len(a) + Len(b)
        /\ \A i \in 1 .. Len(a) + Len(b) :
             (a \o b)[i] = IF i <= Len(a) THEN a[i] ELSE b[i - Len(a)]
    BY <1>4, <1>5, ConcatProperties
  <1>7. Len(a \o b) = n - 1
    BY <1>1, <1>4, <1>5, <1>6
  <1>8. ASSUME NEW i \in 1 .. n - 1
        PROVE  (a \o b)[i] = IF i < k THEN s[i] ELSE s[i + 1]
    <2>. i \in 1 .. Len(a) + Len(b) /\ i \in Int /\ k \in Int /\ n \in Nat
      BY <1>1, <1>4, <1>5
    <2>1. CASE i < k
      <3>1. i <= Len(a) /\ i \in 1 .. k - 1
        BY <1>4, <2>1
      <3>2. (a \o b)[i] = a[i]
        BY <1>6, <3>1
      <3>. QED BY <1>4, <2>1, <3>1, <3>2
    <2>2. CASE i >= k
      <3>1. i - (k - 1) \in 1 .. n - k /\ k + (i - (k - 1)) = i + 1
        BY <1>1, <2>2
      <3>2. (a \o b)[i] = b[i - (k - 1)]
        BY <1>4, <1>6, <2>2
      <3>3. b[i - (k - 1)] = s[k + (i - (k - 1))]
        BY <1>5, <3>1
      <3>. QED BY <2>2, <3>1, <3>2, <3>3
    <2>. QED BY <2>1, <2>2
  <1>. QED BY <1>3, <1>7, <1>8

\* A sequence `c` is not in stays as it is.
LEMMA WithoutAbsent ==
  ASSUME NEW S, NEW s \in Seq(S), NEW c, \A i \in 1 .. Len(s) : s[i] # c
  PROVE  Without(s, c) = s
  BY LenProperties DEF Without

\* The callers not granted yet, in the order they came, are the holder of the
\* mutex, which has not decided to grant itself, followed by the mutex's queue.
Held == IF holder = None THEN 0 ELSE 1
InLine ==
  /\ Len(line) = Held + Len(waiters)
  /\ holder # None => line[1] = holder
  /\ \A i \in 1 .. Len(waiters) : line[Held + i] = waiters[i]
  /\ \A i, j \in 1 .. Len(line) : line[i] = line[j] => i = j
  /\ \A i \in 1 .. Len(waiters) : pc[waiters[i]] = "waiting"
  /\ holder # None => pc[holder] \in {"looking", "deciding", "pacing"}

\* What the proofs below need to know of the two queues.
LEMMA Queues ==
  ASSUME TypeOK
  PROVE  /\ Len(line) \in Nat /\ Len(waiters) \in Nat /\ Held \in {0, 1}
         /\ \A i \in 1 .. Len(line) : line[i] \in Callers
         /\ \A i \in 1 .. Len(waiters) : waiters[i] \in Callers
         /\ None \notin Callers
  BY LenProperties, ElementOfSeq, LimiterAssumption DEF TypeOK, Held

\* Steps that leave both queues and the mutex alone, and move nobody in them.
LEMMA LineAside ==
  ASSUME TypeOK, InLine, UNCHANGED <<line, waiters, holder>>,
         \A c \in Callers : pc[c] = "waiting" => pc'[c] = "waiting",
         holder # None => pc'[holder] \in {"looking", "deciding", "pacing"}
  PROVE  InLine'
  BY Queues DEF InLine, Held

\* A caller that joins is in neither queue, and comes last in both.
LEMMA LineJoin ==
  ASSUME TypeOK, InLine, NEW c \in Callers, pc[c] \in {"idle", "backoff"},
         Join(c), holder' = holder
  PROVE  InLine'
  <1>. DEFINE n == Len(line)
              w == Len(waiters)
  <1>1. /\ n \in Nat /\ w \in Nat /\ Held \in {0, 1} /\ n = Held + w
        /\ line \in Seq(Callers) /\ waiters \in Seq(Callers)
    BY Queues DEF InLine, TypeOK
  <1>2. /\ pc' = [pc EXCEPT ![c] = "waiting"]
        /\ waiters' = Append(waiters, c) /\ line' = Append(line, c)
    BY DEF Join
  <1>3. /\ Len(line') = n + 1 /\ line'[n + 1] = c
        /\ \A i \in 1 .. n : line'[i] = line[i]
        /\ Len(waiters') = w + 1 /\ waiters'[w + 1] = c
        /\ \A i \in 1 .. w : waiters'[i] = waiters[i]
    BY <1>1, <1>2, AppendProperties
  <1>4. \A i \in 1 .. n : line[i] # c
    <2>. SUFFICES ASSUME NEW i \in 1 .. n, line[i] = c PROVE FALSE
      OBVIOUS
    <2>1. CASE holder = None
      <3>1. i \in 1 .. w /\ line[i] = waiters[i]
        BY <1>1, <2>1 DEF InLine, Held
      <3>. QED BY <3>1 DEF InLine
    <2>2. CASE holder # None /\ i = 1
      BY <2>2 DEF InLine
    <2>3. CASE holder # None /\ i > 1
      <3>1. i - 1 \in 1 .. w /\ line[1 + (i - 1)] = waiters[i - 1]
        BY <1>1, <2>3 DEF InLine, Held
      <3>. QED BY <1>1, <3>1 DEF InLine
    <2>. QED BY <1>1, <2>1, <2>2, <2>3
  <1>5. Held' = Held /\ Len(line') = Held + Len(waiters')
    BY <1>1, <1>3 DEF Held
  <1>6. \A i \in 1 .. w + 1 : line'[Held + i] = waiters'[i]
    <2>. SUFFICES ASSUME NEW i \in 1 .. w + 1 PROVE line'[Held + i] = waiters'[i]
      OBVIOUS
    <2>1. CASE i = w + 1
      BY <1>1, <1>3, <2>1
    <2>2. CASE i # w + 1
      <3>1. i \in 1 .. w /\ Held + i \in 1 .. n
        BY <1>1, <2>2
      <3>. QED BY <1>3, <3>1 DEF InLine
    <2>. QED BY <2>1, <2>2
  <1>7. \A i, j \in 1 .. n + 1 : line'[i] = line'[j] => i = j
    <2>1. \A i \in 1 .. n + 1 : i \in 1 .. n \/ i = n + 1
      BY <1>1
    <2>. QED BY <1>3, <1>4, <2>1 DEF InLine
  <1>8. \A i \in 1 .. w + 1 : pc'[waiters'[i]] = "waiting"
    <2>1. \A i \in 1 .. w + 1 : i \in 1 .. w \/ i = w + 1
      BY <1>1
    <2>2. \A i \in 1 .. w : waiters[i] \in Callers /\ pc[waiters[i]] = "waiting"
      BY Queues DEF InLine
    <2>. QED BY <1>2, <1>3, <2>1, <2>2 DEF TypeOK
  <1>9. holder # None => line'[1] = holder /\ pc'[holder] = pc[holder]
    <2>. SUFFICES ASSUME holder # None
                  PROVE  line'[1] = holder /\ pc'[holder] = pc[holder]
      OBVIOUS
    <2>1. 1 \in 1 .. n /\ line[1] = holder
      BY <1>1 DEF InLine, Held
    <2>. QED BY <1>2, <1>3, <1>4, <2>1 DEF TypeOK
  <1>. QED BY <1>3, <1>5, <1>6, <1>7, <1>8, <1>9 DEF InLine

\* The head of the queue takes the mutex: it stays at the head of the line.
LEMMA LineTake ==
  ASSUME TypeOK, InLine, NEW c \in Callers, TakeLock(c)
  PROVE  InLine'
  <1>1. /\ holder = None /\ waiters # <<>> /\ Head(waiters) = c /\ holder' = c
        /\ waiters' = Tail(waiters) /\ line' = line
        /\ pc' = [pc EXCEPT ![c] = "looking"]
    BY DEF TakeLock
  <1>2. /\ Len(waiters) \in Nat \ {0} /\ waiters[1] = c
        /\ Len(waiters') = Len(waiters) - 1
        /\ \A i \in 1 .. Len(waiters) - 1 : waiters'[i] = waiters[i + 1]
    BY <1>1, HeadTailProperties, LenProperties, EmptySeq DEF TypeOK
  <1>3. /\ Held = 0 /\ Held' = 1 /\ Len(line) = Len(waiters)
        /\ \A i \in 1 .. Len(waiters) : line[i] = waiters[i]
    BY <1>1, <1>2, Queues DEF InLine, Held
  <1>4. \A i \in 1 .. Len(waiters') :
          /\ i + 1 \in 1 .. Len(waiters) /\ i + 1 # 1
          /\ line'[1 + i] = waiters'[i] /\ waiters'[i] # c
          /\ pc[waiters'[i]] = "waiting" /\ waiters'[i] \in Callers
    <2>. SUFFICES ASSUME NEW i \in 1 .. Len(waiters')
                  PROVE  /\ i + 1 \in 1 .. Len(waiters) /\ i + 1 # 1
                         /\ line'[1 + i] = waiters'[i] /\ waiters'[i] # c
                         /\ pc[waiters'[i]] = "waiting" /\ waiters'[i] \in Callers
      OBVIOUS
    <2>1. i + 1 \in 1 .. Len(waiters) /\ i + 1 # 1 /\ 1 \in 1 .. Len(waiters)
          /\ 1 + i = i + 1
      BY <1>2
    <2>2. waiters'[i] = waiters[i + 1]
      BY <1>2
    <2>3. line[i + 1] = waiters[i + 1] /\ line[1] = c
      BY <1>2, <1>3, <2>1
    <2>4. line[i + 1] # line[1]
      BY <1>3, <2>1 DEF InLine
    <2>. QED BY <1>1, <2>1, <2>2, <2>3, <2>4, Queues DEF InLine
  <1>5. line'[1] = holder' /\ pc'[holder'] = "looking"
    <2>1. 1 \in 1 .. Len(waiters)
      BY <1>2
    <2>2. line'[1] = c
      BY <1>1, <1>2, <1>3, <2>1
    <2>. QED BY <1>1, <2>2 DEF TypeOK
  <1>6. \A i \in 1 .. Len(waiters') : pc'[waiters'[i]] = "waiting"
    BY <1>1, <1>4 DEF TypeOK
  <1>7. Len(line') = Held' + Len(waiters')
    BY <1>1, <1>2, <1>3
  <1>. QED BY <1>1, <1>3, <1>4, <1>5, <1>6, <1>7 DEF InLine

\* The holder of the mutex lets it go and leaves the line, whose head it was.
LEMMA LineHead ==
  ASSUME TypeOK, InLine, NEW c \in Callers, holder = c, holder' = None,
         line' = Without(line, c), waiters' = waiters,
         NEW st, pc' = [pc EXCEPT ![c] = st]
  PROVE  InLine' /\ Head(line) = c
  <1>1. /\ Len(line) \in Nat /\ Len(waiters) \in Nat /\ Held = 1 /\ Held' = 0
        /\ Len(line) = 1 + Len(waiters) /\ line[1] = c /\ 1 \in 1 .. Len(line)
        /\ line \in Seq(Callers) /\ c # None
    BY Queues DEF InLine, Held, TypeOK
  <1>2. /\ Len(line') = Len(line) - 1
        /\ \A i \in 1 .. Len(line) - 1 : line'[i] = IF i < 1 THEN line[i] ELSE line[i + 1]
    BY <1>1, WithoutThere DEF InLine
  <1>3. \A i \in 1 .. Len(waiters) :
          /\ i + 1 \in 1 .. Len(line) /\ line'[i] = line[i + 1]
          /\ line[i + 1] = waiters[i]
    <2>. SUFFICES ASSUME NEW i \in 1 .. Len(waiters)
                  PROVE  /\ i + 1 \in 1 .. Len(line) /\ line'[i] = line[i + 1]
                         /\ line[i + 1] = waiters[i]
      OBVIOUS
    <2>1. i + 1 \in 1 .. Len(line) /\ i \in 1 .. Len(line) - 1 /\ ~ i < 1
          /\ 1 + i = i + 1
      BY <1>1
    <2>. QED BY <1>1, <1>2, <2>1 DEF InLine
  <1>4. \A i, j \in 1 .. Len(waiters) : line'[i] = line'[j] => i = j
    <2>. SUFFICES ASSUME NEW i \in 1 .. Len(waiters), NEW j \in 1 .. Len(waiters),
                         line'[i] = line'[j]
                  PROVE  i = j
      OBVIOUS
    <2>1. i + 1 = j + 1
      BY <1>3 DEF InLine
    <2>. QED BY <1>1, <2>1
  <1>5. \A i \in 1 .. Len(waiters) : pc'[waiters[i]] = "waiting"
    <2>1. pc[c] # "waiting"
      BY <1>1 DEF InLine
    <2>2. \A i \in 1 .. Len(waiters) : pc[waiters[i]] = "waiting" /\ waiters[i] \in Callers
      BY Queues DEF InLine
    <2>. QED BY <2>1, <2>2 DEF TypeOK
  <1>6. Len(line') = Len(waiters) /\ \A i \in 1 .. Len(waiters) : line'[0 + i] = waiters[i]
    BY <1>1, <1>2, <1>3
  <1>7. InLine'
    BY <1>1, <1>4, <1>5, <1>6 DEF InLine
  <1>. QED BY <1>1, <1>7

\* A caller that gives up while it waits leaves both queues, each of which
\* keeps its order; one that is in neither leaves them as they are.
LEMMA LineMiddle ==
  ASSUME TypeOK, InLine, NEW c \in Callers, holder # c, holder' = holder,
         line' = Without(line, c), waiters' = Without(waiters, c),
         NEW st, pc' = [pc EXCEPT ![c] = st]
  PROVE  InLine'
  <1>. DEFINE n == Len(line)
              w == Len(waiters)
              h == Held
  <1>1. /\ n \in Nat /\ w \in Nat /\ h \in {0, 1} /\ n = h + w /\ Held' = h
        /\ line \in Seq(Callers) /\ waiters \in Seq(Callers)
        /\ h = 1 <=> holder # None
    BY Queues DEF InLine, TypeOK, Held
  <1>2. /\ \A i \in 1 .. w : h + i \in 1 .. n /\ line[h + i] = waiters[i]
        /\ \A i, j \in 1 .. n : line[i] = line[j] => i = j
        /\ h = 1 => line[1] = holder
    BY <1>1 DEF InLine
  <1>3. \A i \in 1 .. w : pc[waiters[i]] = "waiting" /\ waiters[i] \in Callers
    BY Queues DEF InLine
  <1>4. holder # None => pc'[holder] \in {"looking", "deciding", "pacing"}
    BY DEF InLine, TypeOK
  <1>. HIDE DEF h
  <1>5. CASE \A i \in 1 .. w : waiters[i] # c
    <2>1. ASSUME NEW i \in 1 .. n PROVE line[i] # c
      <3>1. CASE h = 1 /\ i = 1
        BY <1>2, <3>1
      <3>2. CASE ~(h = 1 /\ i = 1)
        <4>1. i - h \in 1 .. w /\ h + (i - h) = i
          BY <1>1, <3>2
        <4>. QED BY <1>2, <1>5, <4>1
      <3>. QED BY <3>1, <3>2
    <2>2. line' = line /\ waiters' = waiters
      BY <1>1, <1>5, <2>1, WithoutAbsent
    <2>3. \A i \in 1 .. w : pc'[waiters[i]] = "waiting"
      BY <1>3, <1>5 DEF TypeOK
    <2>. QED BY <1>1, <1>2, <1>4, <2>2, <2>3 DEF InLine
  <1>6. ASSUME NEW k \in 1 .. w, waiters[k] = c PROVE InLine'
    <2>. DEFINE m == h + k
    <2>1. m \in 1 .. n /\ line[m] = c
      BY <1>2, <1>6
    <2>2. ASSUME NEW i \in 1 .. w, waiters[i] = waiters[k] PROVE i = k
      <3>1. h + i = h + k
        BY <1>2, <2>2
      <3>. QED BY <1>1, <3>1
    <2>3. /\ Len(line') = n - 1
          /\ \A i \in 1 .. n - 1 : line'[i] = IF i < m THEN line[i] ELSE line[i + 1]
      <3>1. \A i \in 1 .. n : line[i] = line[m] => i = m
        BY <1>2, <2>1
      <3>. HIDE DEF m
      <3>. QED BY <1>1, <2>1, <3>1, WithoutThere
    <2>4. /\ Len(waiters') = w - 1
          /\ \A i \in 1 .. w - 1 :
               waiters'[i] = IF i < k THEN waiters[i] ELSE waiters[i + 1]
      BY <1>1, <1>6, <2>2, WithoutThere
    <2>5. Len(line') = Held' + Len(waiters')
      BY <1>1, <2>3, <2>4
    <2>6. ASSUME NEW i \in 1 .. w - 1
          PROVE  line'[h + i] = waiters'[i] /\ pc'[waiters'[i]] = "waiting"
      <3>1. h + i \in 1 .. n - 1 /\ i \in 1 .. w /\ i + 1 \in 1 .. w
            /\ h + (i + 1) = (h + i) + 1 /\ (h + i < m <=> i < k)
        BY <1>1
      <3>2. CASE i < k
        <4>1. line'[h + i] = line[h + i] /\ waiters'[i] = waiters[i] /\ i # k
          <5>1. h + i < m /\ i \in Int /\ k \in Int
            BY <1>1, <3>1, <3>2
          <5>. HIDE DEF m
          <5>2. line'[h + i] = line[h + i]
            BY <2>3, <3>1, <5>1
          <5>. QED BY <2>4, <3>2, <5>1, <5>2
        <4>2. waiters[i] # c
          BY <1>6, <2>2, <3>1, <4>1
        <4>. QED BY <1>2, <1>3, <3>1, <4>1, <4>2 DEF TypeOK
      <3>3. CASE ~ i < k
        <4>1. line'[h + i] = line[(h + i) + 1] /\ waiters'[i] = waiters[i + 1]
          BY <2>3, <2>4, <3>1, <3>3
        <4>2. waiters[i + 1] # c
          <5>1. i + 1 # k
            BY <1>1, <3>3
          <5>. QED BY <1>6, <2>2, <3>1, <5>1
        <4>3. line[h + (i + 1)] = waiters[i + 1]
          BY <1>2, <3>1
        <4>. QED BY <1>3, <3>1, <4>1, <4>2, <4>3 DEF TypeOK
      <3>. QED BY <3>2, <3>3
    <2>7. ASSUME NEW i \in 1 .. n - 1, NEW j \in 1 .. n - 1, line'[i] = line'[j]
          PROVE  i = j
      <3>. DEFINE at(x) == IF x < m THEN x ELSE x + 1
      <3>1. /\ at(i) \in 1 .. n /\ at(j) \in 1 .. n
            /\ line'[i] = line[at(i)] /\ line'[j] = line[at(j)]
        BY <1>1, <2>1, <2>3
      <3>2. at(i) = at(j)
        <4>. HIDE DEF at
        <4>. QED BY <1>2, <2>7, <3>1
      <3>. QED BY <1>1, <2>1, <3>2
    <2>8. holder # None => line'[1] = holder
      <3>. SUFFICES ASSUME holder # None PROVE line'[1] = holder
        OBVIOUS
      <3>1. 1 < m /\ 1 \in 1 .. n - 1
        BY <1>1
      <3>. QED BY <1>1, <1>2, <2>3, <3>1
    <2>. HIDE DEF m
    <2>9. /\ \A i \in 1 .. Len(waiters') : /\ line'[Held' + i] = waiters'[i]
                                           /\ pc'[waiters'[i]] = "waiting"
          /\ \A i, j \in 1 .. Len(line') : line'[i] = line'[j] => i = j
      BY <1>1, <2>3, <2>4, <2>6, <2>7
    <2>. QED BY <1>4, <2>5, <2>8, <2>9 DEF InLine
  <1>. QED BY <1>5, <1>6

LEMMA InitLine == Init => InLine
  <1>. SUFFICES ASSUME Init PROVE InLine
    OBVIOUS
  <1>1. /\ holder = None /\ Len(line) = 0 /\ Len(waiters) = 0 /\ Held = 0
    BY DEF Init, Held
  <1>. QED BY <1>1 DEF InLine

\* Every step keeps the line, and only its head is granted.
LEMMA NextLine ==
  ASSUME IInv, InLine, [Next]_vars
  PROVE  InLine' /\ (\A c \in Callers : pc[c] = "deciding" /\ pc'[c] = "calling"
                                        => Head(line) = c)
  <1>1. TypeOK /\ Exclusive /\ None \notin Callers
    BY LimiterAssumption DEF IInv
  <1>. DEFINE Granted == \A c \in Callers : pc[c] = "deciding" /\ pc'[c] = "calling"
                                            => Head(line) = c
  <1>2. ASSUME Tick \/ UNCHANGED vars PROVE InLine' /\ Granted
    <2>1. UNCHANGED <<line, waiters, holder, pc>>
      BY <1>2 DEF Tick, vars, limiter, callers
    <2>. QED BY <1>1, <2>1, LineAside DEF InLine
  <1>3. ASSUME NEW c \in Callers, TakeLock(c) PROVE InLine' /\ Granted
    <2>1. pc' = [pc EXCEPT ![c] = "looking"]
      BY <1>3 DEF TakeLock
    <2>. QED BY <1>1, <1>3, <2>1, LineTake DEF TypeOK
  <1>4. ASSUME NEW c \in Callers, Look(c) \/ Wake(c) \/ (Decide(c) /\ Pace(c))
        PROVE  InLine' /\ Granted
    <2>1. /\ UNCHANGED <<line, waiters, holder>>
          /\ pc[c] \in {"looking", "pacing", "deciding"}
          /\ \/ pc' = [pc EXCEPT ![c] = "deciding"]
             \/ pc' = [pc EXCEPT ![c] = "looking"]
             \/ pc' = [pc EXCEPT ![c] = "pacing"]
      BY <1>4 DEF Look, Wake, Decide, Pace, limiter
    <2>2. \A d \in Callers : pc[d] = "waiting" => pc'[d] = "waiting"
      BY <1>1, <2>1 DEF TypeOK
    <2>3. holder # None => pc'[holder] \in {"looking", "deciding", "pacing"}
      BY <1>1, <2>1 DEF InLine, TypeOK
    <2>4. Granted
      BY <1>1, <2>1 DEF TypeOK
    <2>. QED BY <1>1, <2>1, <2>2, <2>3, <2>4, LineAside
  <1>5. ASSUME NEW c \in Callers, Decide(c), Grant(c) PROVE InLine' /\ Granted
    <2>1. /\ pc[c] = "deciding" /\ UNCHANGED waiters
          /\ line' = Without(line, c) /\ holder' = None
          /\ pc' = [pc EXCEPT ![c] = "calling"]
      BY <1>5 DEF Decide, Grant
    <2>2. holder = c
      BY <1>1, <2>1 DEF Exclusive
    <2>3. InLine' /\ Head(line) = c
      BY <1>1, <2>1, <2>2, LineHead
    <2>4. Granted
      BY <1>1, <2>1, <2>3 DEF TypeOK
    <2>. QED BY <2>3, <2>4
  <1>6. ASSUME NEW c \in Callers, Return(c) \/ Reject(c) PROVE InLine' /\ Granted
    <2>1. /\ UNCHANGED <<line, waiters, holder>> /\ pc[c] = "calling"
          /\ \/ pc' = [pc EXCEPT ![c] = "idle"]
             \/ pc' = [pc EXCEPT ![c] = "backoff"]
      BY <1>6 DEF Return, Leave, Reject, limiter
    <2>2. \A d \in Callers : pc[d] = "waiting" => pc'[d] = "waiting"
      BY <1>1, <2>1 DEF TypeOK
    <2>3. holder # None => pc'[holder] \in {"looking", "deciding", "pacing"}
      BY <1>1, <2>1 DEF InLine, TypeOK
    <2>4. Granted
      BY <1>1, <2>1 DEF TypeOK
    <2>. QED BY <1>1, <2>1, <2>2, <2>3, <2>4, LineAside
  <1>7. ASSUME NEW c \in Callers, Execute(c) \/ Resume(c) PROVE InLine' /\ Granted
    <2>1. /\ Join(c) /\ pc[c] \in {"idle", "backoff"} /\ holder' = holder
          /\ pc' = [pc EXCEPT ![c] = "waiting"]
      BY <1>7 DEF Execute, Resume, Join
    <2>. QED BY <1>1, <2>1, LineJoin DEF TypeOK
  <1>8. ASSUME NEW c \in Callers, Drop(c) PROVE InLine' /\ Granted
    <2>1. /\ pc[c] \in {"waiting", "pacing", "calling", "backoff"}
          /\ pc' = [pc EXCEPT ![c] = "idle"]
          /\ waiters' = Without(waiters, c) /\ line' = Without(line, c)
          /\ holder' = Released(c)
      BY <1>8 DEF Drop, Leave
    <2>2. Granted
      BY <1>1, <2>1 DEF TypeOK
    <2>3. CASE holder = c
      <3>1. pc[c] # "waiting" /\ holder' = None
        BY <1>1, <2>1, <2>3 DEF InLine, Released
      <3>2. \A i \in 1 .. Len(waiters) : waiters[i] # c
        BY <3>1 DEF InLine
      <3>3. waiters' = waiters
        BY <1>1, <2>1, <3>2, WithoutAbsent DEF TypeOK
      <3>. QED BY <1>1, <2>1, <2>2, <2>3, <3>1, <3>3, LineHead
    <2>4. CASE holder # c
      <3>1. holder' = holder
        BY <2>1, <2>4 DEF Released
      <3>. QED BY <1>1, <2>1, <2>2, <2>4, <3>1, LineMiddle
    <2>. QED BY <2>3, <2>4
  <1>. HIDE DEF Granted
  <1>9. InLine' /\ Granted
    BY <1>2, <1>3, <1>4, <1>5, <1>6, <1>7, <1>8 DEF Next, Step, Decide
  <1>. QED BY <1>9 DEF Granted

----------------------------------------------------------------------------
(* The theorems.                                                           *)

THEOREM Invariant == Spec => []IInv
  <1>1. IInv /\ [Next]_vars => IInv'
    BY NextIInv
  <1>. QED BY InitIInv, <1>1, PTL DEF Spec

\* No call is retried more than MaxRetries times, and all else has its type.
THEOREM TypeCorrect == Spec => []TypeOK
  <1>1. IInv => TypeOK
    BY DEF IInv
  <1>. QED BY Invariant, <1>1, PTL

\* Two consecutive grants are MinGap apart, provided the gap is no longer than
\* the window: a grant older than the window is forgotten, its gap with it.
THEOREM GapsAreKept == Spec => []GapKept
  <1>1. IInv => GapKept
    BY DEF IInv
  <1>. QED BY Invariant, <1>1, PTL

\* No sliding window holds more than MaxPerWindow grants.
THEOREM WindowsAreKept == Spec => []WindowKept
  <1>1. IInv => WindowKept
    BY DEF IInv
  <1>. QED BY Invariant, <1>1, PTL

\* Nothing is granted before the latest deadline any rejection asked for.
THEOREM RejectionsAreRespected == Spec => RejectionsQuiet
  <1>1. IInv /\ [Next]_vars => [log' # log => log'[Len(log')] >= quiet]_vars
    BY NextIInv
  <1>. QED BY Invariant, <1>1, PTL DEF Spec, RejectionsQuiet

\* Grants go out in the order they were asked for: whoever is granted has been
\* waiting longer than anyone else, callers dropped halfway included.
THEOREM GrantsAreInOrder == Spec => InOrder
  <1>1. Init => InLine
    BY InitLine
  <1>2. IInv /\ InLine /\ [Next]_vars
        => InLine' /\ [\A c \in Callers : pc[c] = "deciding" /\ pc'[c] = "calling"
                                          => Head(line) = c]_vars
    BY NextLine
  <1>. QED BY Invariant, <1>1, <1>2, PTL DEF Spec, InOrder
=============================================================================
