---------------------------- MODULE DeviceLogin ----------------------------
(***************************************************************************)
(* Signing in and out inside the `longbridge ai` chat: the device login of *)
(* auth.rs, the panel, the commands and the login_rx branch of the event   *)
(* loop (ai/tui.rs), the stored token (secure_storage.rs) and the contexts *)
(* of the process (openapi/context.rs).                                    *)
(*                                                                         *)
(* A login asks for a code, shows it in a panel and leaves a task behind   *)
(* that polls both data centers until the reader has decided in the        *)
(* browser; the task stores the token and tells the loop, which builds the *)
(* contexts anew.  Tasks run beside the loop, also while it awaits the     *)
(* network itself, and several may be under way.                           *)
(*                                                                         *)
(* Logins are numbered as they are asked for; a token, and a client that   *)
(* was registered for one, are named after the login.  Token and client 0  *)
(* were stored before the chat opened.                                     *)
(***************************************************************************)
EXTENDS Integers, Sequences

CONSTANTS
  MaxAsks,   \* bound: how often the reader asks to sign in or out
  None       \* Rust's None

Logins == 1 .. MaxAsks
Stored == 0
Tokens == {Stored} \cup Logins
DCs == {"ap", "us"}   \* DEVICE_LOGIN_REGIONS

ASSUME LoginAssumption ==
  /\ MaxAsks \in Nat
  /\ None \notin Nat /\ None \notin DCs \cup {"SignIn", "SignOut", "NewSession"}

VARIABLES
  \* the loop: where it is, the one command it still has to run, and the Ui
  loop, pending, should_quit, login,
  \* the channel the tasks report to
  login_rx,
  \* the tasks: what each is doing, its two pollers, the client it polls as
  task, poll, client,
  \* the two files, and the one a token is written to before it is renamed; what the
  \* process holds: the token its contexts were built from, the one they are being built
  \* from, and whether it is signed in
  token, temp, registration, context, loaded, ready,
  \* the authorization server: what became of each code, on which data center, and
  \* the clients it no longer knows
  code, decided, revoked,
  \* history: how often the reader asked to sign in and out
  logins, logouts

ui == <<pending, should_quit, login, logins, logouts>>
tasks == <<task, poll, client>>
files == <<token, temp, registration>>
process == <<context, loaded, ready>>
server == <<code, decided, revoked>>
vars == <<loop, ui, login_rx, tasks, files, process, server>>

----------------------------------------------------------------------------
(* The reader: keys and clicks, of which one turn of the loop may handle    *)
(* several before it looks at what they asked for.                          *)

Key ==
  /\ loop \in {"select", "keys"}
  /\ loop' = "keys"
  /\ UNCHANGED <<login_rx, tasks, files, process, server>>

\* /login, or the row in Settings.
AskSignIn ==
  /\ Key /\ logins + logouts < MaxAsks
  /\ logins' = logins + 1
  /\ pending' = "SignIn"
  /\ UNCHANGED <<should_quit, login, logouts>>

\* /logout, or the row in Settings.
AskSignOut ==
  /\ Key /\ logins + logouts < MaxAsks
  /\ logouts' = logouts + 1
  /\ pending' = "SignOut"
  /\ UNCHANGED <<should_quit, login, logins>>

\* The "New session" row, after one of these: the three share one slot.
AskNewSession ==
  /\ Key /\ pending \in {"SignIn", "SignOut"}
  /\ pending' = "NewSession"
  /\ UNCHANGED <<should_quit, login, logins, logouts>>

\* Esc, or the panel's close button.
Cancel ==
  /\ Key /\ login # None
  /\ login' = None
  /\ UNCHANGED <<pending, should_quit, logins, logouts>>

AskQuit ==
  /\ Key /\ ~should_quit
  /\ should_quit' = TRUE
  /\ UNCHANGED <<pending, login, logins, logouts>>

Reader == AskSignIn \/ AskSignOut \/ AskNewSession \/ Cancel \/ AskQuit

----------------------------------------------------------------------------
(* The stored token.  All who write one use the same file beside it.        *)

WriteTemp(t) == temp' = t /\ UNCHANGED <<token, registration>>

RenameTemp ==
  /\ temp # None
  /\ token' = temp /\ temp' = None
  /\ UNCHANGED registration

----------------------------------------------------------------------------
(* The loop, once it has handled an event.                                  *)

\* The end of an iteration.
Iterated == loop' = IF should_quit' THEN "leaving" ELSE "select"

\* The commands the keys left behind.
Command ==
  /\ loop = "keys"
  /\ pending' = None
  /\ CASE pending = "SignIn" -> loop' = "starting"
       [] pending = "SignOut" -> loop' = "revoking"
       [] OTHER -> loop' = IF should_quit THEN "leaving" ELSE "select"
  /\ UNCHANGED <<should_quit, login, logins, logouts, login_rx,
                 tasks, files, process, server>>

\* get_or_register_client
Registration == IF registration # None THEN registration ELSE logins

\* device_login_start came back: the panel opens over a task of its own.
Start ==
  /\ loop = "starting" /\ Registration \notin revoked
  /\ registration' = Registration
  /\ login' = logins
  /\ task' = [task EXCEPT ![logins] = "polling"]
  /\ poll' = [poll EXCEPT ![logins] = [d \in DCs |-> "on"]]
  /\ client' = [client EXCEPT ![logins] = Registration]
  /\ code' = [code EXCEPT ![logins] = "pending"]
  /\ UNCHANGED should_quit /\ Iterated
  /\ UNCHANGED <<pending, logins, logouts, login_rx, token, temp, process,
                 decided, revoked>>

\* device_login_start failed, with the client registered or without.
StartFails ==
  /\ loop = "starting"
  /\ registration' \in {registration, Registration}
  /\ UNCHANGED ui /\ Iterated
  /\ UNCHANGED <<login_rx, tasks, token, temp, process, server>>

\* clear_token, its first half: revoke_client_registration, of which neither the
\* server need hear nor the file be removed.
Revoke ==
  /\ loop = "revoking"
  /\ loop' = "deleting"
  /\ registration' \in {registration, None}
  /\ revoked' \in {revoked, revoked \cup ({registration} \ {None})}
  /\ UNCHANGED <<ui, login_rx, tasks, token, temp, process, code, decided>>

\* clear_token, its second half, and mark_signed_out.
Delete ==
  /\ loop = "deleting"
  /\ token' = None /\ ready' = FALSE
  /\ UNCHANGED ui /\ Iterated
  /\ UNCHANGED <<login_rx, tasks, temp, registration, context, loaded, server>>

\* The token's file cannot be removed: the chat says so and stays as it was.
DeleteFails ==
  /\ loop = "deleting" /\ token # None
  /\ UNCHANGED ui /\ Iterated
  /\ UNCHANGED <<login_rx, tasks, files, process, server>>

\* The login_rx branch: whatever panel is open closes.
Receive ==
  /\ loop = "select" /\ login_rx # <<>>
  /\ login_rx' = Tail(login_rx)
  /\ login' = None
  /\ loop' = IF Head(login_rx).ok THEN "building" ELSE "select"
  /\ UNCHANGED <<pending, should_quit, logins, logouts, tasks, files, process, server>>

\* Mutant: init_contexts builds from whatever is there.
AvailableUnchecked == TRUE

\* oauth_credentials_available
Available == token # None

\* refresh_if_expired, up to its request: the token that is stored has expired, ...
Refresh ==
  /\ loop = "building" /\ Available
  /\ loop' = "refreshing" /\ loaded' = token
  /\ UNCHANGED <<ui, login_rx, tasks, files, context, ready, server>>

\* ... is refreshed, whatever was stored meanwhile, ...
Refreshed ==
  /\ loop = "refreshing"
  /\ WriteTemp(loaded)
  /\ loop' = "storing" /\ loaded' = None
  /\ UNCHANGED <<ui, login_rx, tasks, context, ready, server>>

\* ... and stored again.
Restored ==
  /\ loop = "storing"
  /\ RenameTemp
  /\ loop' = "loading"
  /\ UNCHANGED <<ui, login_rx, tasks, process, server>>

\* init_contexts, up to where the SDK has read the stored token.
Load ==
  /\ (loop = "building" /\ Available) \/ loop = "loading"
  /\ loop' = "installing" /\ loaded' = token
  /\ UNCHANGED <<ui, login_rx, tasks, files, context, ready, server>>

\* Mutant: contexts are set once, as a OnceLock would be.
InstalledOnce == IF context = None THEN loaded ELSE context

\* Slot::set
Installed == loaded

\* The rest of init_contexts.
Install ==
  /\ loop = "installing"
  /\ context' = Installed /\ ready' = TRUE /\ loaded' = None
  /\ UNCHANGED ui /\ Iterated
  /\ UNCHANGED <<login_rx, tasks, files, server>>

\* No token, no refresh, or init_contexts failed otherwise: the chat leaves.
BuildFails ==
  /\ loop \in {"building", "refreshing", "storing", "loading"}
  /\ should_quit' = TRUE /\ loop' = "leaving" /\ loaded' = None
  /\ UNCHANGED <<pending, login, logins, logouts, login_rx,
                 tasks, files, context, ready, server>>

\* The end of run, and of the process and its tasks.
Leave ==
  /\ loop = "leaving"
  /\ loop' = "left" /\ login' = None
  /\ UNCHANGED <<pending, should_quit, logins, logouts, login_rx, tasks,
                 files, process, server>>

Loop ==
  \/ Command \/ Start \/ StartFails \/ Revoke \/ Delete \/ DeleteFails
  \/ Receive \/ Refresh \/ Refreshed \/ Restored \/ Load \/ Install \/ BuildFails
  \/ Leave

----------------------------------------------------------------------------
(* A task: device_login_wait over two poll_device_token.                    *)

Polls(k, d) == loop # "left" /\ task[k] = "polling" /\ poll[k][d] = "on"

Apart == UNCHANGED <<loop, ui, client, registration, process, server>>

\* The poll is answered with a token; the other poller is dropped.
Granted(k, d) ==
  /\ Polls(k, d) /\ client[k] \notin revoked
  /\ code[k] = "granted" /\ decided[k] = d
  /\ task' = [task EXCEPT ![k] = "saving"]
  /\ poll' = [poll EXCEPT ![k] = [e \in DCs |-> IF e = d THEN "got" ELSE "off"]]
  /\ Apart /\ UNCHANGED <<login_rx, token, temp>>

\* Mutant: the first poller to fail ends the login.
GivesUpAtOnce(k, d, final) == TRUE

\* What fails a poller fails the login when it is final, or no poller is left.
GivesUp(k, d, final) == final \/ \A e \in DCs \ {d} : poll[k][e] # "on"

Fails(k, d, final) ==
  /\ Polls(k, d)
  /\ LET over == GivesUp(k, d, final) IN
     /\ task' = [task EXCEPT ![k] = IF over THEN "err" ELSE @]
     /\ poll' = [poll EXCEPT ![k] =
                  [e \in DCs |-> IF e = d THEN "failed"
                                 ELSE IF over THEN "off" ELSE poll[k][e]]]
  /\ Apart /\ UNCHANGED <<login_rx, token, temp>>

\* access_denied, expired_token or invalid_client.
Rejected(k, d) ==
  /\ \/ code[k] = "denied" /\ decided[k] = d
     \/ code[k] = "expired"
     \/ client[k] \in revoked
  /\ Fails(k, d, TRUE)

\* The request fails, or the answer is not one of the protocol.
RequestFails(k, d) == Fails(k, d, FALSE)

\* The deadline passes before the next poll.
TimesOut(k, d) == code[k] = "expired" /\ Fails(k, d, FALSE)

\* EncryptedFileTokenStorage::save: the token is written beside its file, ...
Write(k) ==
  /\ loop # "left" /\ task[k] = "saving"
  /\ \/ task' = [task EXCEPT ![k] = "renaming"] /\ WriteTemp(k)
     \/ task' = [task EXCEPT ![k] = "err"] /\ UNCHANGED files
  /\ Apart /\ UNCHANGED <<poll, login_rx>>

\* ... and renamed to it; or it cannot be.
Rename(k) ==
  /\ loop # "left" /\ task[k] = "renaming"
  /\ \/ task' = [task EXCEPT ![k] = "ok"] /\ RenameTemp
     \/ task' = [task EXCEPT ![k] = "err"] /\ UNCHANGED files
  /\ Apart /\ UNCHANGED <<poll, login_rx>>

Save(k) == Write(k) \/ Rename(k)

\* The task tells the loop and ends; nobody asks about its code any more.
Report(k) ==
  /\ loop # "left" /\ task[k] \in {"ok", "err"}
  /\ login_rx' = Append(login_rx, [login |-> k, ok |-> task[k] = "ok"])
  /\ task' = [task EXCEPT ![k] = "done"]
  /\ poll' = [poll EXCEPT ![k] = [d \in DCs |-> "off"]]
  /\ code' = [code EXCEPT ![k] = "none"] /\ decided' = [decided EXCEPT ![k] = None]
  /\ UNCHANGED <<loop, ui, client, files, process, revoked>>

Answered(k, d) == Granted(k, d) \/ Rejected(k, d) \/ TimesOut(k, d)

Task(k) ==
  \/ \E d \in DCs : Answered(k, d) \/ RequestFails(k, d)
  \/ Save(k) \/ Report(k)

----------------------------------------------------------------------------
(* The browser and the server's clock, while a task asks.                  *)

Elsewhere == UNCHANGED <<loop, ui, login_rx, tasks, files, process, revoked>>

\* The reader decides on the page of one data center.
Decide(k) ==
  /\ loop # "left" /\ task[k] = "polling" /\ code[k] = "pending"
  /\ \E d \in DCs, verdict \in {"granted", "denied"} :
       code' = [code EXCEPT ![k] = verdict] /\ decided' = [decided EXCEPT ![k] = d]
  /\ Elsewhere

\* The code's life ends.  A code granted in its last interval counts as one that was
\* not: while its data center is polled, a grant stands.
Expire(k) ==
  /\ loop # "left" /\ task[k] = "polling"
  /\ \/ code[k] \in {"pending", "denied"}
     \/ code[k] = "granted" /\ ~Polls(k, decided[k])
  /\ code' = [code EXCEPT ![k] = "expired"]
  /\ UNCHANGED decided /\ Elsewhere

Next ==
  \/ Reader \/ Loop
  \/ \E k \in Logins : Task(k) \/ Decide(k) \/ Expire(k)

\* The chat opens signed in, signed out, or with a token it could not use.
Init ==
  /\ loop = "select" /\ pending = None /\ should_quit = FALSE /\ login = None
  /\ login_rx = <<>>
  /\ task = [k \in Logins |-> "idle"]
  /\ poll = [k \in Logins |-> [d \in DCs |-> "off"]]
  /\ client = [k \in Logins |-> None]
  /\ registration \in {Stored, None} /\ token \in {registration, None} /\ temp = None
  /\ ready \in {token # None, FALSE}
  /\ context = (IF ready THEN token ELSE None) /\ loaded = None
  /\ code = [k \in Logins |-> "none"] /\ decided = [k \in Logins |-> None]
  /\ revoked = {} /\ logins = 0 /\ logouts = 0

Spec == Init /\ [][Next]_vars

\* The loop and the tasks are polled by tokio until they return, every request they
\* await is answered or fails, and a code has a life.  The
\* reader owes nothing.
Fairness ==
  /\ WF_vars(Loop)
  /\ \A k \in Logins :
       /\ \A d \in DCs : WF_vars(Answered(k, d))
       /\ WF_vars(Save(k) \/ Report(k))
       /\ WF_vars(Expire(k))

FairSpec == Spec /\ Fairness

----------------------------------------------------------------------------
(* Properties.                                                              *)

LoopTypeOK ==
  /\ loop \in {"select", "keys", "starting", "revoking", "deleting", "building",
               "refreshing", "storing", "loading", "installing", "leaving", "left"}
  /\ pending \in {"SignIn", "SignOut", "NewSession", None} /\ should_quit \in BOOLEAN
  /\ login \in Logins \cup {None}
  /\ login_rx \in Seq([login : Logins, ok : BOOLEAN])
  /\ logins \in Nat /\ logouts \in Nat /\ logins + logouts <= MaxAsks
  /\ loop = "starting" => logins \in Logins

TasksTypeOK ==
  /\ task \in [Logins -> {"idle", "polling", "saving", "renaming", "ok", "err", "done"}]
  /\ poll \in [Logins -> [DCs -> {"off", "on", "got", "failed"}]]
  /\ client \in [Logins -> Tokens \cup {None}]

ProcessTypeOK ==
  /\ token \in Tokens \cup {None} /\ temp \in Tokens \cup {None}
  /\ registration \in Tokens \cup {None}
  /\ context \in Tokens \cup {None} /\ loaded \in Tokens \cup {None}
  /\ ready \in BOOLEAN
  /\ ready => context # None
  /\ loop \in {"refreshing", "installing"} => loaded # None
  /\ loop = "loading" => token # None

ServerTypeOK ==
  /\ code \in [Logins -> {"none", "pending", "granted", "denied", "expired"}]
  /\ decided \in [Logins -> DCs \cup {None}]
  /\ revoked \subseteq Tokens

\* The types of the state; a process signed in has contexts, built from a token.
TypeOK == LoopTypeOK /\ TasksTypeOK /\ ProcessTypeOK /\ ServerTypeOK

\* The logins that stored a token the loop has yet to hear of.
Owed ==
  {k \in Logins : task[k] = "ok"}
    \cup {login_rx[i].login : i \in {j \in DOMAIN login_rx : login_rx[j].ok}}

\* Whenever the loop waits for an event, what it trades and asks with is the account
\* of the stored token, unless a login that stored one is about to report: a task may do
\* so while the loop signs out, builds contexts or shows another login's panel, and what
\* it stores may be the token another task has written beside.  Signed out, it holds no token but one it could not use when it opened.
AccountIsTheStored ==
  loop = "select" =>
    \/ Owed # {}
    \/ IF ready THEN token = context ELSE token \in {None, Stored}

\* The panel closes in the end, whatever becomes of the login behind it; and a login
\* granted on a data center that is polled gets its token although the other poller
\* failed, unless that poller fails too or its client was revoked by a sign-out.
LoginsSettle ==
  \A k \in Logins :
    /\ login = k ~> login # k
    /\ \A d \in DCs :
         code[k] = "granted" /\ decided[k] = d /\ Polls(k, d)
           ~> poll[k][d] \in {"got", "failed"} \/ client[k] \in revoked \/ loop = "left"
=============================================================================
