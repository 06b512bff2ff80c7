--------------------------- MODULE Notifications ---------------------------
(***************************************************************************)
(* The outbox of webhook notifications: notifications/dispatcher.ts with   *)
(* the routes that change rules (http/routes/operations.ts) and the events *)
(* that it notifies of (http/events.ts).                                   *)
(*                                                                         *)
(* A row of notification_delivery is made for every stored event and every *)
(* active webhook rule that matches it.  A timer starts a drain, which     *)
(* takes a batch of due rows and sends them one after the other; only one  *)
(* webhook is on the wire at a time.  While it is, rules are edited and    *)
(* deleted, events expire, and the process stops or crashes.  What happens *)
(* between two waits for the network is one step, because the dispatcher   *)
(* then awaits only the synchronous database; where it writes twice, a     *)
(* crash may fall between (the ...CutOff actions).                         *)
(***************************************************************************)
EXTENDS Integers, FiniteSets, FiniteSetsExt

CONSTANTS
    Rules,          \* ids of rules; an id is used once
    MaxEvents,      \* events are numbered 1..MaxEvents
    MaxRevision,    \* how often a rule is saved
    MaxAttempts,    \* maxAttempts
    SuspendAfter,   \* the failures that suspend a rule for an hour
    BatchSize,      \* the rows that a drain takes at most
    MaxExits        \* how often the process ends

ASSUME BoundsAssumption ==
    /\ MaxEvents \in Nat /\ MaxRevision \in Nat /\ MaxExits \in Nat
    /\ MaxAttempts \in Nat \ {0} /\ SuspendAfter \in Nat \ {0} /\ BatchSize \in Nat \ {0}

VARIABLES
    rule,      \* notification_rule
    stored,    \* steam_event: the events that have not expired
    last,      \* the newest event's id
    matches,   \* matches[e]: the rules whose event types contain that of e
    row,       \* notification_delivery, by rule and event
    phase,     \* the process: up, stopping (stop has been called) or down
    timer,     \* retryTimer is set
    drain,     \* [on, list]: drainInFlight and the rows still to be delivered
    wire,      \* the webhook that is being sent, as it was read
    answers,   \* history: answers that were recorded for a row
    exits      \* history: how often the process has ended

vars == <<rule, stored, last, matches, row, phase, timer, drain, wire, answers, exits>>

Events  == 1..MaxEvents
Keys    == Rules \X Events

Rule == [
    state     : {"new", "live", "gone"},
    revision  : 0..MaxRevision,
    active    : BOOLEAN,                 \* enabled, and its target is a webhook
    after     : 0..MaxEvents,            \* startAfterEventId
    failures  : 0..SuspendAfter,         \* failureCount; more changes nothing
    suspended : BOOLEAN]                 \* disabledUntil lies in the future

Row == [
    status   : {"none", "pending", "retry", "delivered", "failed"},
    revision : 0..MaxRevision,
    attempts : 0..MaxAttempts,
    next     : {"due", "backoff", "suspension", "never"}]   \* nextAttemptAt

NoRow  == [status |-> "none", revision |-> 0, attempts |-> 0, next |-> "never"]
NoWire == [key |-> <<>>, revision |-> 0, attempts |-> 0]
NoDrain == [on |-> FALSE, list |-> {}]

Open(x) == x.status \in {"pending", "retry"}
Due     == {k \in Keys : Open(row[k]) /\ row[k].next = "due"}

Latest == Max(stored \cup {0})

NewRule(revision, active) ==
    [state |-> "live", revision |-> revision, active |-> active, after |-> Latest,
     failures |-> 0, suspended |-> FALSE]

(***************************************************************************)
(* Events and rules                                                        *)
(***************************************************************************)

NewRow(r) == [status |-> "pending", revision |-> rule[r].revision, attempts |-> 0,
              next |-> "due"]

\* Mutant: a row that exists is made anew.
EnqueueForRules_Again(rows, K) ==
    [k \in Keys |-> IF k \in K THEN NewRow(k[1]) ELSE rows[k]]

\* Rows for the pairs K of rules and events that have none yet.
EnqueueForRules(rows, K) ==
    [k \in Keys |-> IF k \in K /\ rows[k].status = "none" THEN NewRow(k[1]) ELSE rows[k]]

Listening == {r \in Rules : rule[r].state = "live" /\ rule[r].active}

\* What a start of the process finds: stored events after the rule's last edit.
Unnotified ==
    {k \in Listening \X stored : k[2] > rule[k[1]].after /\ k[1] \in matches[k[2]]}

Store(S) ==
    /\ phase # "down" /\ last < MaxEvents
    /\ last' = last + 1
    /\ stored' = stored \cup {last + 1}
    /\ matches' = [matches EXCEPT ![last + 1] = S]

ScheduleDrain == timer' = (timer \/ phase = "up")

RecordEvent ==
    /\ \E S \in SUBSET Rules :
        /\ Store(S)
        /\ row' = EnqueueForRules(row, (S \cap Listening) \X {last + 1})
    /\ ScheduleDrain
    /\ UNCHANGED <<rule, phase, drain, wire, answers, exits>>

\* Events older than the retention period are deleted, the oldest first, and their
\* rows with them.
CleanupRetainedEvents ==
    /\ phase # "down" /\ stored # {}
    /\ LET e == Min(stored) IN
        /\ stored' = stored \ {e}
        /\ row' = [k \in Keys |-> IF k[2] = e THEN NoRow ELSE row[k]]
    /\ UNCHANGED <<rule, last, matches, phase, timer, drain, wire, answers, exits>>

Outside == <<stored, last, matches, phase, timer, drain, wire, answers, exits>>

CreateRule(r, active) ==
    /\ phase = "up" /\ rule[r].state = "new" /\ MaxRevision > 0
    /\ rule' = [rule EXCEPT ![r] = NewRule(1, active)]
    /\ row' = row /\ UNCHANGED Outside

\* Mutant: saving a rule keeps its deliveries.
WithoutRowsOf_Kept(r) == row

WithoutRowsOf(r) == [k \in Keys |-> IF k[1] = r THEN NoRow ELSE row[k]]

\* PUT replaces the configuration in one transaction.
UpdateRule(r, active) ==
    /\ phase = "up" /\ rule[r].state = "live" /\ rule[r].revision < MaxRevision
    /\ rule' = [rule EXCEPT ![r] = NewRule(rule[r].revision + 1, active)]
    /\ row' = WithoutRowsOf(r)
    /\ UNCHANGED Outside

\* There is one rule for browsers: a second one that is posted replaces it.
UpsertBrowserRule(r) ==
    IF rule[r].state = "live" THEN ~rule[r].active /\ UpdateRule(r, FALSE)
                              ELSE CreateRule(r, FALSE)

DeleteRule(r) ==
    /\ phase = "up" /\ rule[r].state = "live"
    /\ rule' = [rule EXCEPT ![r] = [@ EXCEPT !.state = "gone", !.active = FALSE]]
    /\ row' = WithoutRowsOf(r)
    /\ UNCHANGED Outside

(***************************************************************************)
(* The drain                                                               *)
(***************************************************************************)

\* The timer starts a drain, or joins the one under way.
TimerFires ==
    /\ timer /\ phase = "up"
    /\ timer' = FALSE
    /\ IF drain.on THEN drain' = drain
       ELSE \E L \in SUBSET Due :
              /\ Cardinality(L) = IF Cardinality(Due) <= BatchSize
                                  THEN Cardinality(Due) ELSE BatchSize
              /\ drain' = [on |-> TRUE, list |-> L]
    /\ UNCHANGED <<rule, stored, last, matches, row, phase, wire, answers, exits>>

Deliverable(k) == k[1] \in Listening /\ rule[k[1]].revision = row[k].revision

\* deliver, up to the sending: the row and its rule are read anew.
Deliver(k) ==
    /\ phase = "up" /\ drain.on /\ wire = NoWire /\ k \in drain.list
    /\ drain' = [drain EXCEPT !.list = @ \ {k}]
    /\ CASE row[k].status = "none" -> UNCHANGED <<row, wire>>
         [] row[k].status # "none" /\ ~Deliverable(k) ->
              /\ row' = [row EXCEPT ![k] = [@ EXCEPT !.status = "failed", !.next = "never"]]
              /\ wire' = wire
         [] row[k].status # "none" /\ Deliverable(k) /\ rule[k[1]].suspended ->
              /\ row' = [row EXCEPT ![k] = [@ EXCEPT !.status = "retry", !.next = "suspension"]]
              /\ wire' = wire
         [] OTHER ->
              /\ wire' = [key |-> k, revision |-> row[k].revision,
                          attempts |-> row[k].attempts]
              /\ row' = row
    /\ UNCHANGED <<rule, stored, last, matches, phase, timer, answers, exits>>

\* Mutant: a drain that has worked off its list does not look for rows that wait.
Rearmed_Never == timer

\* After a drain the timer is set for the earliest row that is open.
Rearmed == timer \/ (phase = "up" /\ \E k \in Keys : Open(row[k]))

EndDrain ==
    /\ drain.on /\ wire = NoWire
    /\ drain.list = {} \/ phase = "stopping"
    /\ drain' = NoDrain
    /\ timer' = Rearmed
    /\ UNCHANGED <<rule, stored, last, matches, row, phase, wire, answers, exits>>

\* The database fails a drain: it is tried again in half a minute.
DrainFails ==
    /\ phase = "up" /\ drain.on /\ wire = NoWire
    /\ drain' = NoDrain
    /\ timer' = TRUE
    /\ UNCHANGED <<rule, stored, last, matches, row, phase, wire, answers, exits>>

(***************************************************************************)
(* The answer                                                              *)
(***************************************************************************)

K == wire.key

\* Mutant: the answer goes to the rule whatever has been saved since.
Current_Any == rule[K[1]].state = "live"

\* The rule has not been saved or deleted since the webhook was sent.
Current == rule[K[1]].state = "live" /\ rule[K[1]].revision = wire.revision

SameRow == row[K].status # "none" /\ row[K].revision = wire.revision

Attempts == wire.attempts + 1

\* Mutant: one more attempt is made than allowed.
Terminal_Late == Attempts > MaxAttempts

Terminal == Attempts >= MaxAttempts

RowDelivered ==
    row' = IF SameRow
           THEN [row EXCEPT ![K] = [@ EXCEPT !.status = "delivered",
                                              !.attempts = Attempts, !.next = "never"]]
           ELSE row

RuleDelivered ==
    rule' = IF Current
            THEN [rule EXCEPT ![K[1]] = [@ EXCEPT !.failures = 0, !.suspended = FALSE]]
            ELSE rule

RowFailed ==
    row' = IF ~(Current /\ SameRow) THEN row
           ELSE IF Terminal
           THEN [row EXCEPT ![K] = [@ EXCEPT !.status = "failed", !.attempts = Attempts,
                                              !.next = "never"]]
           ELSE [row EXCEPT ![K] = [@ EXCEPT !.status = "retry", !.attempts = Attempts,
                                              !.next = "backoff"]]

RuleFailed ==
    LET failures == Min({rule[K[1]].failures + 1, SuspendAfter}) IN
    rule' = IF Current
            THEN [rule EXCEPT ![K[1]] = [@ EXCEPT !.failures = failures,
                                                   !.suspended = failures >= SuspendAfter]]
            ELSE rule

Answered(done) ==
    /\ wire' = NoWire
    /\ answers' = IF row' = row THEN answers
                  ELSE [answers EXCEPT ![K] = [count |-> @.count + 1, done |-> done]]

WebhookAccepted ==
    /\ wire # NoWire /\ RowDelivered /\ RuleDelivered /\ Answered(TRUE)
    /\ UNCHANGED <<stored, last, matches, phase, timer, drain, exits>>

\* Refused, timed out, or not to be sent at all. Or it was accepted, and the write of the
\* rule's health threw after that of the row: the catch takes that for a failure as well,
\* and fail writes over the row (a row that is left has the rule's revision).
WebhookFails ==
    /\ wire # NoWire /\ RowFailed /\ RuleFailed /\ Answered(FALSE)
    /\ UNCHANGED <<stored, last, matches, phase, timer, drain, exits>>

\* What is written of an answer when its writing breaks off: nothing, or the row.
HalfAnswered ==
    \/ row' = row /\ Answered(FALSE)
    \/ RowDelivered /\ Answered(TRUE)
    \/ RowFailed /\ Answered(FALSE)

\* fail itself throws, after a failure or after a write that threw: the drain ends, and
\* is tried again in half a minute.
AnswerFails ==
    /\ wire # NoWire /\ HalfAnswered
    /\ drain' = NoDrain
    /\ timer' = (timer \/ phase = "up")
    /\ UNCHANGED <<rule, stored, last, matches, phase, exits>>

\* The abort of a stop leaves the row as it was; whether the webhook arrived, nobody
\* knows.
WebhookAborted ==
    /\ phase = "stopping"
    /\ wire # NoWire /\ wire' = NoWire
    /\ UNCHANGED <<rule, stored, last, matches, row, phase, timer, drain, answers, exits>>

(***************************************************************************)
(* Time and the process                                                    *)
(***************************************************************************)

BackoffEnds(k) ==
    /\ row[k].next = "backoff"
    /\ row' = [row EXCEPT ![k].next = "due"]
    /\ UNCHANGED <<rule, stored, last, matches, phase, timer, drain, wire, answers, exits>>

\* Rows were put off to the very end of the suspension.
SuspensionEnds(r) ==
    /\ rule[r].suspended
    /\ rule' = [rule EXCEPT ![r].suspended = FALSE]
    /\ row' = [k \in Keys |-> IF k[1] = r /\ row[k].next = "suspension"
                              THEN [row[k] EXCEPT !.next = "due"] ELSE row[k]]
    /\ UNCHANGED <<stored, last, matches, phase, timer, drain, wire, answers, exits>>

Stop ==
    /\ phase = "up" /\ exits < MaxExits
    /\ phase' = "stopping" /\ timer' = FALSE
    /\ UNCHANGED <<rule, stored, last, matches, row, drain, wire, answers, exits>>

Down ==
    /\ phase' = "down" /\ timer' = FALSE /\ drain' = NoDrain /\ wire' = NoWire
    /\ exits' = exits + 1

Exit ==
    /\ phase = "stopping" /\ ~drain.on
    /\ Down
    /\ UNCHANGED <<rule, stored, last, matches, row, answers>>

MayCrash == phase # "down" /\ exits < MaxExits

Crash ==
    /\ MayCrash /\ Down
    /\ UNCHANGED <<rule, stored, last, matches, row, answers>>

\* The event is stored, and not all of its rows are.
RecordEventCutOff ==
    /\ MayCrash /\ Down
    /\ \E S \in SUBSET Rules : \E D \in SUBSET (S \cap Listening) :
        /\ Store(S)
        /\ row' = EnqueueForRules(row, D \X {last + 1})
    /\ UNCHANGED <<rule, answers>>

\* The row is written, and the rule's health is not.
AnswerCutOff ==
    /\ MayCrash /\ wire # NoWire
    /\ phase' = "down" /\ timer' = FALSE /\ drain' = NoDrain /\ exits' = exits + 1
    /\ HalfAnswered
    /\ UNCHANGED <<rule, stored, last, matches>>

\* start schedules a drain and reconciles; what it inserts is inserted again by the
\* next start if it is cut off.
Boot ==
    /\ phase = "down"
    /\ phase' = "up" /\ timer' = TRUE
    /\ row' = EnqueueForRules(row, Unnotified)
    /\ UNCHANGED <<rule, stored, last, matches, drain, wire, answers, exits>>

(***************************************************************************)
(* The specification                                                       *)
(***************************************************************************)

Init ==
    /\ rule = [r \in Rules |-> [state |-> "new", revision |-> 0, active |-> FALSE,
                                after |-> 0, failures |-> 0, suspended |-> FALSE]]
    /\ stored = {} /\ last = 0
    /\ matches = [e \in Events |-> {}]
    /\ row = [k \in Keys |-> NoRow]
    /\ phase = "down" /\ timer = FALSE /\ drain = NoDrain /\ wire = NoWire
    /\ answers = [k \in Keys |-> [count |-> 0, done |-> FALSE]]
    /\ exits = 0

Routes ==
    \E r \in Rules :
        \/ \E active \in BOOLEAN : CreateRule(r, active) \/ UpdateRule(r, active)
        \/ UpsertBrowserRule(r)
        \/ DeleteRule(r)

Dispatcher == TimerFires \/ (\E k \in Keys : Deliver(k)) \/ EndDrain
                         \/ DrainFails \/ AnswerFails

Answer == WebhookAccepted \/ WebhookFails \/ WebhookAborted

Time == (\E k \in Keys : BackoffEnds(k)) \/ (\E r \in Rules : SuspensionEnds(r))

Process == Stop \/ Exit \/ Crash \/ RecordEventCutOff \/ AnswerCutOff \/ Boot

Next ==
    \/ RecordEvent \/ CleanupRetainedEvents \/ Routes
    \/ Dispatcher \/ Answer \/ Time \/ Process

Spec == Init /\ [][Next]_vars

\* Timers fire, a request ends within eight seconds, a process that ended is started
\* again, and the database fails neither every drain nor every answer.
Fairness ==
    /\ WF_vars(TimerFires) /\ WF_vars(EndDrain)
    /\ SF_vars(\E k \in Keys : Deliver(k))
    /\ SF_vars(Answer)
    /\ \A k \in Keys : WF_vars(BackoffEnds(k))
    /\ \A r \in Rules : WF_vars(SuspensionEnds(r))
    /\ WF_vars(Exit) /\ WF_vars(Boot)

FairSpec == Spec /\ Fairness

(***************************************************************************)
(* Properties                                                              *)
(***************************************************************************)

\* Rows, rules, the drain and the webhook on the wire have their types; a row waits
\* for a time if and only if it is open; only a drain has a webhook on the wire.
TypeOK ==
    /\ rule \in [Rules -> Rule]
    /\ stored \subseteq Events /\ last \in 0..MaxEvents
    /\ matches \in [Events -> SUBSET Rules]
    /\ row \in [Keys -> Row]
    /\ \A k \in Keys : Open(row[k]) <=> row[k].next # "never"
    /\ phase \in {"up", "stopping", "down"} /\ timer \in BOOLEAN
    /\ drain \in [on : BOOLEAN, list : SUBSET Keys]
    /\ wire = NoWire \/ wire \in [key : Keys, revision : 0..MaxRevision,
                                  attempts : 0..(MaxAttempts - 1)]
    /\ wire # NoWire => drain.on
    /\ answers \in [Keys -> [count : 0..MaxAttempts, done : BOOLEAN]]
    /\ exits \in 0..MaxExits

\* docs/OPERATIONS.md:185-188: saving a rule is a boundary. No row outlives the
\* revision it was made for or is made for an event before it; and an answer changes
\* the row and the health only of the revision under which its webhook was sent.
EditIsBoundary ==
    [][/\ \A k \in Keys :
             row'[k].status # "none" =>
                 /\ rule'[k[1]].state = "live" /\ row'[k].revision = rule'[k[1]].revision
                 /\ k[2] > rule'[k[1]].after
       /\ \A r \in Rules :
             rule'[r].failures # rule[r].failures /\ rule'[r].revision = rule[r].revision
                => wire # NoWire /\ K[1] = r /\ wire.revision = rule[r].revision]_vars

\* docs/OPERATIONS.md:188-195: through retries, suspensions, stops and crashes a
\* webhook is not sent again once its delivery is recorded, and a failure is not recorded
\* in its place (WebhookFails), nor after its third recorded failure.
TriesAreBounded ==
    [][wire = NoWire /\ wire' # NoWire =>
          /\ ~answers[wire'.key].done
          /\ answers[wire'.key].count < MaxAttempts]_vars

\* What is recorded of a webhook is kept: both of the above, over edits and over retries.
RecordsAreKept == EditIsBoundary /\ TriesAreBounded

Awaited(k) ==
    /\ k[1] \in Listening /\ k[2] \in stored
    /\ k[2] > rule[k[1]].after /\ k[1] \in matches[k[2]]
    /\ row[k].status \notin {"delivered", "failed"}

\* docs/OPERATIONS.md:185: notifications are durable.  A stored event that an
\* active rule matches is delivered or given up after its attempts, unless the rule
\* is saved or the event expires first.
EventuallySettled == \A k \in Keys : Awaited(k) ~> ~Awaited(k)
=============================================================================
