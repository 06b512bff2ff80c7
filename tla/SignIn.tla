------------------------------- MODULE SignIn -------------------------------
(***************************************************************************)
(* Signing in (auth/service.ts, auth/setup-token.ts, steam/login.ts, the   *)
(* credential half of steam/worker.ts, auto-library-importer.ts and the    *)
(* dialog useAddAccountFlow.ts).                                           *)
(*                                                                         *)
(* Somebody sets the administrator's password with the setup token.  Then  *)
(* a dialog in the browser signs one Steam account in, again and again: by *)
(* a QR code, which the server polls at Steam and the dialog polls at the  *)
(* server, or by a password, which one request waits for.  A login that    *)
(* Steam grants stores its refresh token in the account's row and starts   *)
(* the worker, which logs on with the stored token; Steam renews the token *)
(* of a connection from time to time.  Answers to requests that the dialog *)
(* has given up still arrive.                                              *)
(***************************************************************************)
EXTENDS Integers, FiniteSets, Sequences

CONSTANTS
    MaxSetups,      \* requests that set the administrator up at the same time
    QrLogins,       \* QR logins, in the order in which they are begun
    Credentials,    \* logins by password
    MaxRenewals,    \* how often Steam renews the token of a login
    MaxFaults,      \* lost answers, disconnects, failed writes, crashes, deletions
    None

ASSUME BoundsAssumption ==
    /\ QrLogins \cap Credentials = {}
    /\ {MaxSetups, MaxRenewals, MaxFaults} \subseteq Nat

\* None is what null is to the code: no number, no outcome and no token.
ASSUME NoneAssumption ==
    /\ None \notin Nat /\ None \notin {"ok", "error"}
    /\ None \notin [id : Nat, by : QrLogins \cup Credentials, n : Nat]

VARIABLES
    hashing,        \* the setups that hash their password
    accepted,       \* the setups that were told that they were accepted
    admin,          \* whether there is an administrator
    activeToken,    \* whether a setup token is accepted
    qr,             \* the server's QR logins
    cred,           \* the server's logins by password
    row,            \* the account's row: its number and the token it holds
    worker,         \* the connection: the token it uses and its status
    newest,         \* Steam: how often the token of a login was renewed
    renewals,       \* credentialQueue: renewals that are still to be stored
    library,        \* the account's library
    dialog, answers,
    faults,
    signed,         \* the account in which each login was stored, and its last import event
    last,           \* history: the login that was stored last
    lost            \* history: the logins of which a renewal could not be stored

admins   == <<hashing, accepted, admin, activeToken>>
server   == <<qr, cred>>
account  == <<row, worker, newest, renewals, library>>
browser  == <<dialog, answers>>
history  == <<signed, last, lost>>
vars     == <<admins, server, account, browser, faults, history>>

Logins == QrLogins \cup Credentials

Fault == faults < MaxFaults /\ faults' = faults + 1

(***************************************************************************)
(* The administrator                                                       *)
(***************************************************************************)

\* setupAdmin up to the hash: nobody is the administrator yet, and the token is right.
BeginSetup ==
    /\ ~admin /\ activeToken /\ hashing < MaxSetups
    /\ hashing' = hashing + 1
    /\ UNCHANGED <<accepted, admin, activeToken, server, account, browser, faults, history>>

\* Mutant: what was read before the password was hashed is still believed.
Existing_Early == FALSE

Existing == admin

\* createAdmin and completeSetupToken; a second setup is refused. If the file of the token
\* cannot be removed, the administrator is stored and the setup is told of an error.
CreateAdmin ==
    /\ hashing > 0 /\ hashing' = hashing - 1
    /\ IF Existing THEN UNCHANGED <<accepted, admin, activeToken, faults>>
       ELSE /\ admin' = TRUE /\ activeToken' = FALSE
            /\ \/ accepted' = accepted + 1 /\ UNCHANGED faults
               \/ Fault /\ UNCHANGED accepted
    /\ UNCHANGED <<server, account, browser, history>>

(***************************************************************************)
(* The row and its token                                                   *)
(***************************************************************************)

Unsigned == [id |-> None, told |-> None]

IsSigned(x) == signed[x] # Unsigned

\* persistAccountToken: a new row, or a new token in the row of that name.
Persist(x) ==
    /\ row' = IF row = None
              THEN [id |-> Cardinality({y \in Logins : IsSigned(y)}), by |-> x, n |-> 0]
              ELSE [row EXCEPT !.by = x, !.n = 0]
    /\ signed' = [signed EXCEPT ![x] = [id |-> row'.id, told |-> None]]
    /\ last' = x
    /\ UNCHANGED lost

\* startNow of the worker: nothing while it is connecting or connected, otherwise a
\* logon with the token of the row.
StartWorker ==
    worker' = IF worker # None /\ worker.status \in {"busy", "online"} THEN worker
              ELSE [by |-> row.by, n |-> row.n, id |-> row.id, status |-> "busy"]

\* Steam accepts the newest token of a login.
LogOnEnds ==
    /\ worker # None /\ worker.status = "busy"
    /\ \/ /\ worker.n = newest[worker.by]
          /\ worker' = [worker EXCEPT !.status = "online"]
          /\ library' = IF library = "none" THEN "importing" ELSE library
       \/ /\ worker' = [worker EXCEPT !.status = "failed"]
          /\ UNCHANGED library
    /\ UNCHANGED <<admins, server, row, newest, renewals, browser, faults, history>>

\* A reconnect reads the row again.
Disconnect ==
    /\ worker # None /\ worker.status = "online" /\ Fault
    /\ worker' = [worker EXCEPT !.by = row.by, !.n = row.n, !.status = "busy"]
    /\ UNCHANGED <<admins, server, row, newest, renewals, library, browser, history>>

\* Automatic import of a library that has not been imported before.
ImportEnds ==
    /\ library = "importing" /\ row # None
    /\ \E ok \in BOOLEAN :
        /\ library' = IF ok THEN "imported" ELSE "none"
        /\ signed' = [x \in Logins |->
                IF signed[x].id # row.id THEN signed[x]
                ELSE [signed[x] EXCEPT !.told = IF ok THEN "ok" ELSE "error"]]
    /\ UNCHANGED <<admins, server, row, worker, newest, renewals, browser, faults,
                   last, lost>>

Renew ==
    /\ worker # None /\ worker.status = "online"
    /\ worker.n = newest[worker.by] /\ newest[worker.by] < MaxRenewals
    /\ newest' = [newest EXCEPT ![worker.by] = @ + 1]
    /\ worker' = [worker EXCEPT !.n = @ + 1]
    /\ renewals' = Append(renewals, [id |-> worker.id, by |-> worker.by, n |-> worker.n])
    /\ UNCHANGED <<admins, server, row, library, browser, faults, history>>

\* Mutant: a renewal is stored over whatever token the row holds.
SameToken_Any(renewal) == row # None /\ row.id = renewal.id

\* The row still holds the token that was renewed.
SameToken(renewal) == row # None /\ row = renewal

PersistRefreshToken ==
    /\ renewals # <<>>
    /\ LET renewal == Head(renewals) IN
        row' = IF SameToken(renewal) THEN [row EXCEPT !.by = renewal.by, !.n = renewal.n + 1]
               ELSE row
    /\ renewals' = Tail(renewals)
    /\ UNCHANGED <<admins, server, worker, newest, library, browser, faults, history>>

\* credentialError
PersistRefreshTokenFails ==
    /\ renewals # <<>> /\ Fault
    /\ lost' = lost \cup {Head(renewals).by}
    /\ renewals' = Tail(renewals)
    /\ UNCHANGED <<admins, server, row, worker, newest, library, browser, signed, last>>

\* The worker is shut down, its renewals are stored, and the row is deleted.
DeleteAccount ==
    /\ row # None /\ renewals = <<>> /\ Fault
    /\ row' = None /\ worker' = None /\ library' = "none"
    /\ UNCHANGED <<admins, server, newest, renewals, browser, history>>

(***************************************************************************)
(* QR logins                                                               *)
(***************************************************************************)

NoQr == [phase |-> "none", state |-> "pending"]

Terminal(q, state) == [qr EXCEPT ![q] = [phase |-> "terminal", state |-> state]]

\* Mutant: a login that is being stored still counts as pending.
Completing_Pending == "pending"

Completing == "completing"

\* The session's listeners are removed before its token is stored.
Listening(q) == qr[q].phase = "pending" /\ ~IsSigned(q)

\* "authenticated": the token is stored; or there is none, or ten minutes have passed.
Authenticated(q) ==
    /\ Listening(q)
    /\ \/ qr' = [qr EXCEPT ![q] = [@ EXCEPT !.phase = Completing]] /\ Persist(q)
       \/ qr' = Terminal(q, "expired") /\ UNCHANGED <<row, history>>
    /\ UNCHANGED <<admins, cred, worker, newest, renewals, library, browser, faults>>

\* startAccountAfterLogin succeeds if the account is still there, or fails.
Started(q) ==
    /\ qr[q].phase = Completing /\ IsSigned(q)
    /\ \/ row # None /\ StartWorker /\ qr' = Terminal(q, "authenticated")
       \/ qr' = Terminal(q, "error") /\ UNCHANGED worker
    /\ UNCHANGED <<admins, cred, row, newest, renewals, library, browser, faults, history>>

\* "timeout" and "error" of the session, and expireQrLogin after ten minutes
Expired(q) ==
    /\ qr[q].phase = "pending"
    /\ qr' = Terminal(q, "expired")
    /\ UNCHANGED <<admins, cred, account, browser, faults, history>>

\* Mutant: the time at which a login ended is noted only when it expired.
Forgettable_Expired(q) == qr[q].phase = "terminal" /\ qr[q].state = "expired"

\* terminalAt is set: some time later the login is forgotten.
Forgettable(q) == qr[q].phase = "terminal"

Forgotten(q) ==
    /\ Forgettable(q)
    /\ qr' = [qr EXCEPT ![q] = [NoQr EXCEPT !.phase = "gone"]]
    /\ UNCHANGED <<admins, cred, account, browser, faults, history>>

(***************************************************************************)
(* Logins by password                                                      *)
(***************************************************************************)

NoCred == [phase |-> "none", calls |-> 0, waits |-> FALSE]

Answer(x, what, value) == [login |-> x, what |-> what, value |-> value]

\* startWithCredentials: refused, granted, or Steam Guard has to confirm.  A granted
\* login is stored by its event and by the request, whichever comes first.
SteamDecides(c) ==
    /\ cred[c].phase = "asked"
    /\ \/ /\ cred' = [cred EXCEPT ![c] = [@ EXCEPT !.phase = "failed"]]
          /\ UNCHANGED answers
       \/ /\ cred' = [cred EXCEPT ![c] = [@ EXCEPT !.phase = "granted", !.calls = 2]]
          /\ UNCHANGED answers
       \/ /\ cred' = [cred EXCEPT ![c] = [@ EXCEPT !.phase = "guard", !.waits = FALSE]]
          /\ answers' = answers \cup {Answer(c, "guard", None)}
    /\ UNCHANGED <<admins, qr, account, dialog, faults, history>>

GuardConfirmed(c) ==
    /\ cred[c].phase = "guard"
    /\ cred' = [cred EXCEPT ![c] = [@ EXCEPT !.phase = "granted", !.calls = 1]]
    /\ UNCHANGED <<admins, qr, account, browser, faults, history>>

\* Mutant: every caller stores the token.
Persisted_Never(c) == FALSE

\* persistPromise
Persisted(c) == cred[c].phase # "granted"

PersistOnce(c) ==
    /\ cred[c].calls > 0
    /\ cred' = [cred EXCEPT ![c] = [@ EXCEPT !.phase = "saved", !.calls = cred[c].calls - 1]]
    /\ IF Persisted(c) THEN UNCHANGED <<row, history>> ELSE Persist(c)
    /\ UNCHANGED <<admins, qr, worker, newest, renewals, library, browser, faults>>

\* A request that still waits is answered when the worker started.
CredentialsStarted(c) ==
    /\ cred[c].phase = "saved" /\ cred[c].calls = 0
    /\ \/ /\ row # None /\ StartWorker
          /\ cred' = [cred EXCEPT ![c] = [@ EXCEPT !.phase = "signed"]]
          /\ answers' = IF cred[c].waits THEN answers \cup {Answer(c, "signed", None)}
                        ELSE answers
       \/ /\ cred' = [cred EXCEPT ![c] = [@ EXCEPT !.phase = "failed"]]
          /\ UNCHANGED <<worker, answers>>
    /\ UNCHANGED <<admins, qr, row, newest, renewals, library, dialog, faults, history>>

(***************************************************************************)
(* The dialog                                                              *)
(***************************************************************************)

Closed == [open |-> FALSE, login |-> None, polling |-> "none", closing |-> FALSE]

\* A flow is known by its login: a dialog that is opened or changes its mode has none,
\* and every login is begun by a flow of its own.
\* Mutant: a new flow does not end the polls of the one before.
NewFlow_Polling(x) ==
    dialog' = [dialog EXCEPT !.open = TRUE, !.login = x, !.closing = FALSE]

NewFlow(x) ==
    dialog' = [open |-> TRUE, login |-> x, polling |-> "none", closing |-> FALSE]

\* The setups, which share nothing with it, are over by then.
OpenDialog ==
    /\ admin /\ hashing = 0 /\ ~dialog.open /\ NewFlow(None)
    /\ UNCHANGED <<admins, server, account, answers, faults, history>>

SwitchMode ==
    /\ dialog.open /\ NewFlow(None)
    /\ UNCHANGED <<admins, server, account, answers, faults, history>>

CloseDialog ==
    /\ dialog.open /\ dialog' = Closed
    /\ UNCHANGED <<admins, server, account, answers, faults, history>>

\* startQr and startQrLogin; the answer is on its way.
StartQr(q) ==
    /\ dialog.open /\ qr[q] = NoQr /\ NewFlow(q)
    /\ qr' = [qr EXCEPT ![q] = [@ EXCEPT !.phase = "pending"]]
    /\ answers' = answers \cup {Answer(q, "qr", None)}
    /\ UNCHANGED <<admins, cred, account, faults, history>>

SubmitCredentials(c) ==
    /\ dialog.open /\ cred[c] = NoCred /\ NewFlow(c)
    /\ cred' = [cred EXCEPT ![c] = [@ EXCEPT !.phase = "asked", !.waits = TRUE]]
    /\ UNCHANGED <<admins, qr, account, answers, faults, history>>

\* Mutant: whatever arrives is for the dialog that is open.
Current_Any(x) == dialog.open

\* isCurrentFlow
Current(x) == dialog.open /\ dialog.login = x

\* One poll at a time; the next one is due when the answer has been dealt with.
Waits == \E a \in answers : a.login = dialog.login

\* GET login/:loginId; what it cleans up first is a step of its own.
PollLogin ==
    /\ dialog.open /\ dialog.polling = "login" /\ dialog.login \in QrLogins /\ ~Waits
    /\ LET record == qr[dialog.login]
           state  == IF record.phase = "gone" THEN "missing" ELSE record.state IN
        answers' = answers \cup {Answer(dialog.login, "state", state)}
    /\ UNCHANGED <<admins, server, account, dialog, faults, history>>

\* What the accounts and the recent events say of a login that was stored.
Progress(x) ==
    IF row = None \/ row.id # signed[x].id THEN "absent"
    ELSE IF worker = None \/ worker.status = "failed" THEN "failed"
    ELSE IF worker.status = "busy" THEN "busy"
    ELSE IF signed[x].told = None THEN "importing" ELSE signed[x].told

PollProgress ==
    /\ dialog.open /\ dialog.polling = "progress" /\ dialog.login \in Logins /\ ~Waits
    /\ answers' = answers \cup {Answer(dialog.login, "progress", Progress(dialog.login))}
    /\ UNCHANGED <<admins, server, account, dialog, faults, history>>

Polls(what) == dialog' = [dialog EXCEPT !.polling = what]

\* What an answer of each kind does to a dialog that waits for it.  When the account is
\* connected, has failed or has its library, the list of accounts is refreshed first, and
\* then the dialog stops and closes (notifyDoneOnce, scheduleCloseOnce).
Apply(a) ==
    /\ answers' = (answers \ {a}) \cup
            (IF a.value \in {"failed", "ok", "error"} /\ a.what = "progress"
             THEN {Answer(a.login, "refreshed", a.value)} ELSE {})
    /\ \/ a.what = "qr" /\ Polls("login")
       \/ a.what = "state" /\ a.value = "authenticated" /\ Polls("progress")
       \/ a.what = "state" /\ a.value \in {"expired", "error"} /\ Polls("none")
       \/ a.what = "state" /\ a.value \in {"pending", "missing"} /\ UNCHANGED dialog
       \/ a.what = "signed" /\ Polls("progress")
       \/ a.what \in {"guard", "progress"} /\ UNCHANGED dialog
       \/ /\ a.what = "refreshed"
          /\ dialog' = [dialog EXCEPT !.polling = "none", !.closing = (a.value = "ok")]

TakeAnswer(a) ==
    /\ IF Current(a.login) THEN Apply(a)
       ELSE answers' = answers \ {a} /\ UNCHANGED dialog
    /\ UNCHANGED <<admins, server, account, faults, history>>

\* The request or its answer fails: the dialog says so, and goes on polling.
LoseAnswer(a) ==
    /\ Fault /\ answers' = answers \ {a}
    /\ UNCHANGED <<admins, server, account, dialog, history>>

CloseTimer ==
    /\ dialog.open /\ dialog.closing
    /\ dialog' = Closed
    /\ UNCHANGED <<admins, server, account, answers, faults, history>>

(***************************************************************************)
(* The process                                                             *)
(***************************************************************************)

\* A crash and the next start, which finds out whether there is an administrator and
\* starts the worker of an account that should run.
Crash ==
    /\ Fault
    /\ hashing' = 0 /\ activeToken' = ~admin /\ UNCHANGED <<accepted, admin>>
    /\ qr' = [q \in QrLogins |-> IF qr[q] = NoQr THEN NoQr ELSE [NoQr EXCEPT !.phase = "gone"]]
    /\ cred' = [c \in Credentials |->
                IF cred[c] = NoCred THEN NoCred ELSE [NoCred EXCEPT !.phase = "gone"]]
    /\ worker' = IF row = None THEN None
                 ELSE [by |-> row.by, n |-> row.n, id |-> row.id, status |-> "busy"]
    /\ renewals' = <<>> /\ lost' = lost \cup {renewals[i].by : i \in DOMAIN renewals}
    /\ library' = IF library = "importing" THEN "none" ELSE library
    /\ answers' = {}
    /\ UNCHANGED <<row, newest, dialog, signed, last>>

(***************************************************************************)
(* The specification                                                       *)
(***************************************************************************)

Init ==
    /\ hashing = 0 /\ accepted = 0 /\ admin = FALSE /\ activeToken = TRUE
    /\ qr = [q \in QrLogins |-> NoQr] /\ cred = [c \in Credentials |-> NoCred]
    /\ row = None /\ worker = None /\ newest = [x \in Logins |-> 0]
    /\ renewals = <<>> /\ library = "none"
    /\ dialog = Closed /\ answers = {} /\ faults = 0
    /\ signed = [x \in Logins |-> Unsigned] /\ last = None /\ lost = {}

Administrator == BeginSetup \/ CreateAdmin

Token == LogOnEnds \/ Disconnect \/ ImportEnds \/ Renew \/ PersistRefreshToken
            \/ PersistRefreshTokenFails \/ DeleteAccount

Qr(q) == Authenticated(q) \/ Started(q) \/ Expired(q) \/ Forgotten(q)

Credential(c) ==
    SteamDecides(c) \/ GuardConfirmed(c) \/ PersistOnce(c) \/ CredentialsStarted(c)

Dialog ==
    \/ OpenDialog \/ SwitchMode \/ CloseDialog \/ CloseTimer
    \/ \E q \in QrLogins : StartQr(q)
    \/ \E c \in Credentials : SubmitCredentials(c)
    \/ PollLogin \/ PollProgress
    \/ \E a \in answers : TakeAnswer(a) \/ LoseAnswer(a)

Next ==
    \/ Administrator \/ Token \/ Dialog \/ Crash
    \/ \E q \in QrLogins : Qr(q)
    \/ \E c \in Credentials : Credential(c)

\* Ten minutes pass and the interval cleans up, a start of the worker settles, Steam
\* answers a logon, an import ends, the dialog polls and its answers arrive.
Fairness ==
    /\ \A q \in QrLogins :
        WF_vars(Expired(q)) /\ WF_vars(Started(q)) /\ WF_vars(Forgotten(q))
    /\ WF_vars(LogOnEnds) /\ WF_vars(ImportEnds)
    /\ WF_vars(PollLogin) /\ WF_vars(PollProgress)
    /\ WF_vars(\E a \in answers : TakeAnswer(a))

Spec == Init /\ [][Next]_vars /\ Fairness

(***************************************************************************)
(* Properties                                                              *)
(***************************************************************************)

Phases == {"none", "pending", "completing", "terminal", "gone"}

\* Every login is in a phase that the code knows, and a history of what was stored, lost
\* and told is kept of known logins only; the dialog polls for a login that it shows.
TypeOK ==
    /\ hashing \in 0..MaxSetups /\ {admin, activeToken} \subseteq BOOLEAN
    /\ \A q \in QrLogins :
        /\ qr[q].phase \in Phases
        /\ qr[q].state \in {"pending", "authenticated", "expired", "error"}
    /\ \A c \in Credentials :
        /\ cred[c].phase \in {"none", "asked", "guard", "granted", "saved", "signed",
                              "failed", "gone"}
        /\ cred[c].calls \in 0..2 /\ cred[c].waits \in BOOLEAN
    /\ newest \in [Logins -> 0..MaxRenewals] /\ faults \in 0..MaxFaults
    /\ library \in {"none", "importing", "imported"}
    /\ last \in Logins \cup {None} /\ lost \subseteq Logins
    /\ \A x \in Logins : signed[x].told \in {None, "ok", "error"}
    /\ dialog.polling # "none" => dialog.login \in Logins

\* auth/service.ts:42-78: however many setups hash their passwords at the same time, at
\* most one is told that it was accepted (none if the file of the setup token cannot be
\* removed), and an administrator leaves no setup token to use, over restarts too.
OneAdministrator ==
    /\ accepted <= 1
    /\ accepted = 1 => admin
    /\ admin => ~activeToken

\* The row holds the token of the login that was stored last and, unless a renewal of it
\* could not be stored, the newest one: a late renewal of an earlier login and a second
\* call of the same login replace nothing (worker.ts:1074, login.ts:149).
TokenIsNewest ==
    row # None =>
        /\ row.by = last
        /\ \/ row.by \in lost
           \/ \E i \in DOMAIN renewals : renewals[i].by = row.by
           \/ row.n = newest[row.by]

\* What is said of a login is true of it: one that is reported as signed in was stored,
\* one that is reported as expired was not; and the dialog follows the login of its own
\* flow, which was stored, and ends with what happened after that (login.ts:212-278,
\* useAddAccountFlow.ts:195-285).
SignInIsTold ==
    /\ \A q \in QrLogins :
        /\ qr[q].state = "authenticated" => IsSigned(q)
        /\ qr[q].state = "expired" => ~IsSigned(q)
    /\ dialog.polling = "progress" => dialog.login \in {x \in Logins : IsSigned(x)}
    /\ dialog.closing => signed[dialog.login].told = "ok"

\* What is stored of the logins, and what is told of them, is what happened: both of the
\* above.
LoginsAreTrue == TokenIsNewest /\ SignInIsTold

\* An import whose outcome will be recorded after the login was stored.
ImportAwaited ==
    library = "importing" \/ (library = "none" /\ worker # None /\ worker.status = "busy")

Following == dialog.open /\ dialog.polling = "progress"

AccountGone == row = None \/ row.id # signed[dialog.login].id

\* Every QR login ends and is forgotten, and a dialog that follows a login whose import
\* is still to come ends, unless the account is deleted meanwhile.
LoginsEnd ==
    /\ \A q \in QrLogins : (qr[q].phase # "none") ~> (qr[q].phase = "gone")
    /\ (Following /\ ImportAwaited) ~> (~Following \/ AccountGone)
=============================================================================
