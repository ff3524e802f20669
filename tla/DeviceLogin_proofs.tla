------------------------- MODULE DeviceLogin_proofs -------------------------
(***************************************************************************)
(* Proofs about DeviceLogin, for any number of requests.                   *)
(***************************************************************************)
EXTENDS DeviceLogin, SequenceTheorems, TLAPS

----------------------------------------------------------------------------
(* The inductive invariant.                                                *)

\* A login asked for and not yet begun is the newest, and has no task.
Asked ==
  /\ loop # "keys" => pending = None
  /\ pending = "SignIn" \/ loop = "starting" => logins \in Logins /\ task[logins] = "idle"
  /\ \A k \in Logins : k > logins => task[k] = "idle"

\* What AccountIsTheStored says while the loop waits, in each state of the loop in
\* which the process is not between a report and its contexts.
Settled == IF ready THEN token = context ELSE token \in {None, Stored}
Agree ==
  /\ loop \in {"select", "keys", "starting", "revoking", "deleting"} =>
       Owed # {} \/ Settled
  /\ loop = "installing" => Owed # {} \/ token = loaded

IInv == TypeOK /\ Asked /\ Agree

----------------------------------------------------------------------------
(* What is owed.                                                           *)

Told(k) == \E j \in DOMAIN login_rx : login_rx[j].ok /\ login_rx[j].login = k

LEMMA OwedIs == \A k : k \in Owed <=> (k \in Logins /\ task[k] = "ok") \/ Told(k)
  BY Zenon DEF Owed, Told

LEMMA OwedIsNext == \A k : k \in Owed' <=> (k \in Logins /\ task'[k] = "ok") \/ Told(k)'
  BY Zenon DEF Owed, Told

\* A step that ends no task, or that saves, takes no one out of Owed.
LEMMA OwedStays ==
  ASSUME login_rx' = login_rx, \A k \in Logins : task[k] = "ok" => task'[k] = "ok"
  PROVE  Owed \subseteq Owed'
  <1>1. \A k : Told(k) => Told(k)'
    BY DEF Told
  <1>2. ASSUME NEW k \in Owed PROVE k \in Owed'
    <2>1. (k \in Logins /\ task[k] = "ok") \/ Told(k)
      BY OwedIs
    <2>2. (k \in Logins /\ task'[k] = "ok") \/ Told(k)'
      BY <1>1, <2>1
    <2>. QED BY <2>2, OwedIsNext
  <1>. QED BY <1>2

\* What a task reports is owed until the loop has heard of it.
LEMMA ReportOwes ==
  ASSUME TypeOK, NEW k \in Logins, Report(k)
  PROVE  Owed \subseteq Owed' /\ login_rx' \in Seq([login : Logins, ok : BOOLEAN])
  <1> DEFINE m == [login |-> k, ok |-> task[k] = "ok"]
  <1>1. m \in [login : Logins, ok : BOOLEAN]
    OBVIOUS
  <1>2. login_rx \in Seq([login : Logins, ok : BOOLEAN]) /\ login_rx' = Append(login_rx, m)
    BY DEF TypeOK, LoopTypeOK, Report
  <1>3. /\ login_rx' \in Seq([login : Logins, ok : BOOLEAN])
        /\ Len(login_rx) \in Nat /\ DOMAIN login_rx = 1 .. Len(login_rx)
        /\ DOMAIN login_rx' = 1 .. Len(login_rx) + 1
        /\ \A i \in 1 .. Len(login_rx) : login_rx'[i] = login_rx[i]
        /\ login_rx'[Len(login_rx) + 1] = m
    <2> HIDE DEF m
    <2>. QED BY <1>1, <1>2, AppendProperties, LenProperties
  <1>4. \A l : Told(l) => Told(l)'
    BY <1>3 DEF Told
  <1>5. task[k] = "ok" => Told(k)'
    BY <1>3 DEF Told
  <1>6. \A l \in Logins : l # k => task'[l] = task[l]
    BY DEF Report, TypeOK, TasksTypeOK
  <1>. QED BY <1>3, <1>4, <1>5, <1>6, OwedIs, OwedIsNext

\* A report of a failed login is heard without loss.
LEMMA FailureOwesNothing ==
  ASSUME TypeOK, Receive
  PROVE  /\ login_rx' \in Seq([login : Logins, ok : BOOLEAN])
         /\ ~Head(login_rx).ok => Owed \subseteq Owed'
  <1>1. login_rx \in Seq([login : Logins, ok : BOOLEAN]) /\ login_rx # <<>>
        /\ login_rx' = Tail(login_rx) /\ task' = task
    BY DEF TypeOK, LoopTypeOK, Receive, tasks
  <1>2. /\ login_rx' \in Seq([login : Logins, ok : BOOLEAN])
        /\ Len(login_rx) \in Nat \ {0} /\ DOMAIN login_rx = 1 .. Len(login_rx)
        /\ Len(login_rx') = Len(login_rx) - 1
        /\ Head(login_rx) = login_rx[1]
        /\ \A i \in 1 .. Len(login_rx') : login_rx'[i] = login_rx[i + 1]
    BY <1>1, HeadTailProperties, LenProperties, EmptySeq
  <1>3. DOMAIN login_rx' = 1 .. Len(login_rx')
    BY <1>2, LenProperties
  <1>4. ASSUME ~Head(login_rx).ok, NEW l, Told(l)
        PROVE  Told(l)'
    <2>1. PICK j \in 1 .. Len(login_rx) : login_rx[j].ok /\ login_rx[j].login = l
      BY <1>2, <1>4 DEF Told
    <2>2. j # 1
      BY <1>2, <1>4, <2>1
    <2>3. j - 1 \in 1 .. Len(login_rx') /\ login_rx'[j - 1] = login_rx[j]
      BY <1>2, <2>1, <2>2
    <2>. QED BY <1>3, <2>1, <2>3 DEF Told
  <1>. QED BY <1>1, <1>2, <1>4, OwedIs, OwedIsNext

----------------------------------------------------------------------------
(* Types.                                                                  *)

LEMMA NoneIsApart == /\ None \notin Tokens /\ None \notin Logins /\ MaxAsks \in Nat
                     /\ Logins \subseteq Nat /\ None \notin DCs
                     /\ None # "SignIn" /\ None # "SignOut" /\ None # "NewSession"
  BY LoginAssumption DEF Tokens, Logins, Stored

LEMMA InitTyped == Init => TypeOK /\ Asked
  <1> SUFFICES ASSUME Init PROVE TypeOK /\ Asked
    OBVIOUS
  <1> USE NoneIsApart DEF Init
  <1>1. LoopTypeOK
    <2>1. <<>> \in Seq([login : Logins, ok : BOOLEAN])
      OBVIOUS
    <2>2. logins + logouts <= MaxAsks
      BY SMT
    <2>. QED BY <2>1, <2>2 DEF LoopTypeOK
  <1>5. Asked
    BY DEF Asked
  <1>2. TasksTypeOK
    <2>1. [d \in DCs |-> "off"] \in [DCs -> {"off", "on", "got", "failed"}]
      OBVIOUS
    <2>. QED BY <2>1 DEF TasksTypeOK
  <1>3. ProcessTypeOK
    BY DEF ProcessTypeOK, Tokens, Stored
  <1>4. ServerTypeOK
    BY DEF ServerTypeOK
  <1>. QED BY <1>1, <1>2, <1>3, <1>4, <1>5 DEF TypeOK

Typed == TypeOK /\ Asked

USE DEF ui, tasks, files, process, server

\* The login asked for next has no task, nor has one after it.
LEMMA NewestIsIdle ==
  ASSUME logins \in Nat, logins' \in Logins, logins' > logins, task' = task, Logins \subseteq Nat,
         \A k \in Logins : k > logins => task[k] = "idle"
  PROVE  task'[logins'] = "idle" /\ \A k \in Logins : k > logins' => task'[k] = "idle"
  <1>1. \A k \in Logins : k > logins' => k > logins
    BY SMT
  <1>. QED BY <1>1

LEMMA ReaderTyped == Typed /\ Reader => Typed'
  <1> SUFFICES ASSUME Typed, Reader PROVE Typed'
    OBVIOUS
  <1> USE NoneIsApart DEF Typed
  <1>1. LoopTypeOK' /\ Asked'
    <2> USE DEF Asked, TypeOK, LoopTypeOK, Key
    <2>1. CASE AskSignIn
      <3>1. logins' \in Logins /\ logins' > logins /\ task' = task
        BY <2>1 DEF AskSignIn, Logins
      <3>2. LoopTypeOK'
        BY <2>1, <3>1 DEF AskSignIn
      <3>3. task'[logins'] = "idle" /\ \A k \in Logins : k > logins' => task'[k] = "idle"
        BY <3>1, NewestIsIdle
      <3>. QED BY <2>1, <3>1, <3>2, <3>3 DEF AskSignIn
    <2>2. CASE AskSignOut
      BY <2>2 DEF AskSignOut, Logins
    <2>3. CASE AskNewSession \/ Cancel \/ AskQuit
      BY <2>3 DEF AskNewSession, Cancel, AskQuit
    <2>. QED BY <2>1, <2>2, <2>3 DEF Reader
  <1>2. UNCHANGED <<tasks, files, process, server>> /\ loop' = "keys"
    BY DEF Reader, AskSignIn, AskSignOut, AskNewSession, Cancel, AskQuit, Key
  <1>. QED BY <1>1, <1>2 DEF TypeOK, TasksTypeOK, ProcessTypeOK, ServerTypeOK

\* What concerns the loop and the panel, for every step of the loop.
LEMMA LoopSteps == Typed /\ Loop => LoopTypeOK' /\ Asked'
  <1> SUFFICES ASSUME Typed, Loop PROVE LoopTypeOK' /\ Asked'
    OBVIOUS
  <1> USE NoneIsApart DEF Typed, TypeOK, LoopTypeOK, Asked
  <1>1. CASE Command
    BY <1>1 DEF Command
  <1>2. CASE Start
    <2>1. \A k \in Logins : k > logins => task'[k] = task[k]
      BY <1>2 DEF Start, TasksTypeOK
    <2>. QED BY <1>2, <2>1 DEF Start, Iterated
  <1>3. CASE StartFails \/ Revoke \/ Delete \/ DeleteFails
    BY <1>3 DEF StartFails, Revoke, Delete, DeleteFails, Iterated
  <1>4. CASE Receive
    BY <1>4, FailureOwesNothing DEF Receive
  <1>5. CASE Load \/ Install \/ BuildFails \/ Leave
    BY <1>5 DEF Load, Install, BuildFails, Leave, Iterated
  <1>6. CASE Refresh \/ Refreshed \/ Restored
    BY <1>6 DEF Refresh, Refreshed, Restored
  <1>. QED BY <1>1, <1>2, <1>3, <1>4, <1>5, <1>6 DEF Loop

LEMMA LoopTyped == Typed /\ Loop => Typed'
  <1> SUFFICES ASSUME Typed, Loop PROVE Typed'
    OBVIOUS
  <1>1. LoopTypeOK' /\ Asked'
    BY LoopSteps
  <1> USE NoneIsApart DEF Typed, TypeOK, TasksTypeOK, ProcessTypeOK, ServerTypeOK
  <1>2. CASE Start
    <2>1. logins \in Logins /\ Registration \in Tokens
      BY <1>2 DEF Start, Registration, LoopTypeOK, Tokens
    <2>2. [d \in DCs |-> "on"] \in [DCs -> {"off", "on", "got", "failed"}]
      OBVIOUS
    <2>3. TasksTypeOK' /\ ServerTypeOK'
      BY <1>2, <2>1, <2>2 DEF Start
    <2>4. ProcessTypeOK'
      BY <1>2, <2>1 DEF Start, Iterated
    <2>. QED BY <1>1, <2>3, <2>4
  <1>3. CASE StartFails
    BY <1>1, <1>3 DEF StartFails, Registration, LoopTypeOK, Tokens, Iterated
  <1>4. CASE Command \/ DeleteFails \/ Receive \/ BuildFails \/ Leave
    <2>1. /\ UNCHANGED <<tasks, files, context, ready, server>> /\ loaded' \in {loaded, None}
          /\ loop' \notin {"refreshing", "loading", "installing"}
      BY <1>4 DEF Command, DeleteFails, Receive, BuildFails, Leave, Iterated
    <2>. QED BY <1>1, <2>1
  <1>5. CASE Revoke \/ Delete
    <2>1. TasksTypeOK'
      BY <1>5 DEF Revoke, Delete
    <2>2. ProcessTypeOK'
      <3>1. CASE Revoke
        BY <3>1 DEF Revoke
      <3>2. CASE Delete
        BY <3>2 DEF Delete, Iterated
      <3>. QED BY <1>5, <3>1, <3>2
    <2>3. ServerTypeOK'
      <3>1. {registration} \ {None} \subseteq Tokens
        OBVIOUS
      <3>2. CASE Revoke
        BY <3>1, <3>2 DEF Revoke
      <3>. QED BY <1>5, <3>2 DEF Delete
    <2>. QED BY <1>1, <2>1, <2>2, <2>3
  <1>6. CASE Load \/ Install
    <2>1. TasksTypeOK' /\ ServerTypeOK'
      BY <1>6 DEF Load, Install
    <2>2. CASE Load
      BY <1>1, <2>1, <2>2 DEF Load, Available
    <2>3. CASE Install
      BY <1>1, <2>1, <2>3 DEF Install, Installed, Iterated
    <2>. QED BY <1>6, <2>2, <2>3
  <1>7. CASE Refresh \/ Refreshed \/ Restored
    <2>1. TasksTypeOK' /\ ServerTypeOK'
      BY <1>7 DEF Refresh, Refreshed, Restored
    <2>2. ProcessTypeOK'
      BY <1>7 DEF Refresh, Refreshed, Restored, Available, WriteTemp, RenameTemp
    <2>. QED BY <1>1, <2>1, <2>2
  <1>. QED BY <1>2, <1>3, <1>4, <1>5, <1>6, <1>7 DEF Loop

\* A task that moves had begun.
LEMMA TasksAsked ==
  ASSUME Typed, NEW k \in Logins, Task(k) PROVE Asked'
  <1>1. /\ UNCHANGED <<loop, pending, logins>> /\ task[k] # "idle"
        /\ \A l \in Logins \ {k} : task'[l] = task[l]
    BY DEF Task, Answered, Granted, Rejected, TimesOut, RequestFails, Fails, Polls,
           Save, Write, Rename, Report, Apart, Typed, TypeOK, TasksTypeOK
  <1>. QED BY <1>1 DEF Typed, Asked

LEMMA TaskTyped == ASSUME Typed, NEW k \in Logins, Task(k) PROVE Typed'
  <1>0. Asked'
    BY TasksAsked
  <1> USE <1>0, NoneIsApart DEF Typed, TypeOK, TasksTypeOK, ProcessTypeOK, ServerTypeOK
  <1>1. CASE \E d \in DCs : Granted(k, d)
    BY <1>1 DEF Granted, Apart, LoopTypeOK, DCs
  <1>2. ASSUME NEW d \in DCs, NEW final \in BOOLEAN, Fails(k, d, final)
        PROVE  Typed'
    BY <1>2 DEF Fails, Apart, LoopTypeOK
  <1>3. CASE Save(k)
    <2>1. TasksTypeOK'
      BY <1>3 DEF Save, Write, Rename, Apart
    <2>2. ProcessTypeOK'
      BY <1>3 DEF Save, Write, Rename, WriteTemp, RenameTemp, Apart, Tokens
    <2>3. LoopTypeOK' /\ ServerTypeOK'
      BY <1>3 DEF Save, Write, Rename, Apart, LoopTypeOK
    <2>. QED BY <2>1, <2>2, <2>3
  <1>4. CASE Report(k)
    <2>1. LoopTypeOK'
      BY <1>4, ReportOwes DEF Report, LoopTypeOK
    <2>2. [d \in DCs |-> "off"] \in [DCs -> {"off", "on", "got", "failed"}]
      OBVIOUS
    <2>. QED BY <1>4, <2>1, <2>2 DEF Report
  <1>. QED BY <1>1, <1>2, <1>3, <1>4
       DEF Task, Answered, Rejected, TimesOut, RequestFails

LEMMA ServerTyped ==
  ASSUME Typed, NEW k \in Logins, Decide(k) \/ Expire(k) PROVE Typed'
  <1>1. UNCHANGED <<loop, ui, login_rx, tasks, files, process, revoked>>
    BY DEF Decide, Expire, Elsewhere
  <1>2. ServerTypeOK'
    BY DEF Typed, TypeOK, ServerTypeOK, Decide, Expire, Elsewhere
  <1>. QED BY <1>1, <1>2
       DEF Typed, TypeOK, LoopTypeOK, TasksTypeOK, ProcessTypeOK, Asked

----------------------------------------------------------------------------
(* The account.                                                            *)

LEMMA AgreeReader == IInv /\ Reader => Agree'
  <1> SUFFICES ASSUME IInv, Reader PROVE Agree'
    OBVIOUS
  <1>1. /\ loop \in {"select", "keys"} /\ loop' = "keys"
        /\ login_rx' = login_rx /\ UNCHANGED <<tasks, token, process>>
    BY DEF Reader, AskSignIn, AskSignOut, AskNewSession, Cancel, AskQuit, Key
  <1>2. Owed \subseteq Owed'
    BY <1>1, OwedStays
  <1>. QED BY <1>1, <1>2 DEF IInv, Agree, Settled

LEMMA AgreeLoop == IInv /\ Loop => Agree'
  <1> SUFFICES ASSUME IInv, Loop PROVE Agree'
    OBVIOUS
  <1> USE DEF IInv, Agree, Settled
  <1>1. CASE Start
    <2>1. \A k \in Logins : task[k] = "ok" => task'[k] = "ok"
      BY <1>1 DEF Start, TypeOK, LoopTypeOK, TasksTypeOK, Asked
    <2>2. Owed \subseteq Owed'
      BY <1>1, <2>1, OwedStays DEF Start
    <2>. QED BY <1>1, <2>2 DEF Start, Iterated
  <1>2. CASE Command \/ StartFails \/ Revoke \/ DeleteFails
    <2>1. login_rx' = login_rx /\ UNCHANGED <<tasks, token, process>>
      BY <1>2 DEF Command, StartFails, Revoke, DeleteFails
    <2>2. Owed \subseteq Owed'
      BY <2>1, OwedStays
    <2>3. /\ loop \in {"keys", "starting", "revoking", "deleting"}
          /\ loop' # "installing"
      BY <1>2 DEF Command, StartFails, Revoke, DeleteFails, Iterated
    <2>. QED BY <2>1, <2>2, <2>3
  <1>3. CASE Delete
    BY <1>3 DEF Delete, Iterated
  <1>4. CASE Receive
    <2>1. CASE Head(login_rx).ok
      BY <1>4, <2>1 DEF Receive
    <2>2. CASE ~Head(login_rx).ok
      <3>1. Owed \subseteq Owed'
        BY <1>4, <2>2, FailureOwesNothing
      <3>. QED BY <1>4, <2>2, <3>1 DEF Receive
    <2>. QED BY <2>1, <2>2
  <1>5. CASE Load
    BY <1>5 DEF Load
  <1>6. CASE Install
    <2>1. Owed \subseteq Owed'
      BY <1>6, OwedStays DEF Install
    <2>. QED BY <1>6, <2>1 DEF Install, Installed, Iterated
  <1>7. CASE BuildFails \/ Leave \/ Refresh \/ Refreshed \/ Restored
    BY <1>7 DEF BuildFails, Leave, Refresh, Refreshed, Restored
  <1>. QED BY <1>1, <1>2, <1>3, <1>4, <1>5, <1>6, <1>7 DEF Loop

LEMMA AgreeTask == ASSUME IInv, NEW k \in Logins, Task(k) PROVE Agree'
  <1> USE DEF IInv, Agree, Settled
  <1>1. CASE Save(k)
    <2>1. /\ task' = [task EXCEPT ![k] = "ok"] => k \in Owed'
          /\ task' # [task EXCEPT ![k] = "ok"] => token' = token
      <3>1. task' = [task EXCEPT ![k] = "ok"] => k \in Owed'
        BY OwedIsNext DEF TypeOK, TasksTypeOK
      <3>. QED BY <1>1, <3>1 DEF Save, Write, Rename, WriteTemp
    <2>2. Owed \subseteq Owed'
      <3>1. \A l \in Logins : task[l] = "ok" => task'[l] = "ok"
        BY <1>1 DEF Save, Write, Rename, TypeOK, TasksTypeOK
      <3>. QED BY <1>1, <3>1, OwedStays DEF Save, Write, Rename
    <2>3. UNCHANGED <<loop, process>>
      BY <1>1 DEF Save, Write, Rename, Apart
    <2>. QED BY <2>1, <2>2, <2>3
  <1>2. CASE Report(k)
    BY <1>2, ReportOwes DEF Report
  <1>3. ASSUME NEW d \in DCs, Answered(k, d) \/ RequestFails(k, d)
        PROVE  Agree'
    <2>1. /\ login_rx' = login_rx /\ UNCHANGED <<loop, process, token>>
          /\ \A l \in Logins : task[l] = "ok" => task'[l] = "ok"
      BY <1>3 DEF Answered, Granted, Rejected, TimesOut, RequestFails, Fails, Polls,
                  Apart, TypeOK, TasksTypeOK
    <2>2. Owed \subseteq Owed'
      BY <2>1, OwedStays
    <2>. QED BY <2>1, <2>2
  <1>. QED BY <1>1, <1>2, <1>3 DEF Task

LEMMA AgreeServer ==
  ASSUME IInv, NEW k \in Logins, Decide(k) \/ Expire(k) PROVE Agree'
  <1>1. login_rx' = login_rx /\ UNCHANGED <<loop, tasks, token, process>>
    BY DEF Decide, Expire, Elsewhere
  <1>2. Owed \subseteq Owed'
    BY <1>1, OwedStays
  <1>. QED BY <1>1, <1>2 DEF IInv, Agree, Settled

----------------------------------------------------------------------------
(* The theorems.                                                           *)

\* Every reachable state satisfies the inductive invariant: the types, and the
\* agreement of process and stored token wherever the loop is.
THEOREM Invariant == Spec => []IInv
  <1>1. Init => IInv
    BY InitTyped DEF IInv, Init, Agree, Settled
  <1>2. IInv /\ [Next]_vars => IInv'
    <2> SUFFICES ASSUME IInv, [Next]_vars PROVE IInv'
      OBVIOUS
    <2>1. Typed
      BY DEF IInv, Typed
    <2>2. CASE Reader
      BY <2>1, <2>2, ReaderTyped, AgreeReader DEF IInv, Typed
    <2>3. CASE Loop
      BY <2>1, <2>3, LoopTyped, AgreeLoop DEF IInv, Typed
    <2>4. ASSUME NEW k \in Logins, Task(k) PROVE IInv'
      BY <2>1, <2>4, TaskTyped, AgreeTask DEF IInv, Typed
    <2>5. ASSUME NEW k \in Logins, Decide(k) \/ Expire(k) PROVE IInv'
      BY <2>1, <2>5, ServerTyped, AgreeServer DEF IInv, Typed
    <2>6. CASE UNCHANGED vars
      <3>1. UNCHANGED <<loop, ui, login_rx, tasks, files, process, server>>
        BY <2>6 DEF vars
      <3>2. TypeOK' /\ Asked'
        BY <3>1 DEF IInv, TypeOK, LoopTypeOK, TasksTypeOK, ProcessTypeOK, ServerTypeOK, Asked
      <3>3. Owed' = Owed
        BY <3>1 DEF Owed
      <3>4. Agree'
        BY <3>1, <3>3 DEF IInv, Agree, Settled
      <3>. QED BY <3>2, <3>4 DEF IInv
    <2>. QED BY <2>2, <2>3, <2>4, <2>5, <2>6 DEF Next
  <1>. QED BY <1>1, <1>2, PTL DEF Spec

\* For any number of requests every variable stays in its type, and a process that is
\* signed in has contexts built from a token (openapi/context.rs).
THEOREM TypeCorrect == Spec => []TypeOK
  <1>1. IInv => TypeOK
    BY DEF IInv
  <1>. QED BY <1>1, Invariant, PTL

\* However many logins overlap with each other, with sign-outs and with closed panels,
\* a loop that waits holds the account of the stored token or is about to be told of
\* another (the login_rx branch of ai/tui.rs).
THEOREM AccountIsTheStoredTheorem == Spec => []AccountIsTheStored
  <1>1. IInv => AccountIsTheStored
    BY DEF IInv, Agree, Settled, AccountIsTheStored
  <1>. QED BY <1>1, Invariant, PTL
=============================================================================
