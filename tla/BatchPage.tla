------------------------------ MODULE BatchPage ------------------------------
(***************************************************************************)
(* The page that follows a batch of sales                                  *)
(* (apps/web/src/features/inventory/useBatchMarket.ts, InventoryPanel.tsx) *)
(* and what it sees of the server's queue (apps/server/src/inventory/      *)
(* batch.ts, http/routes/inventory.ts), which MarketSales models in full.  *)
(*                                                                         *)
(* A batch is previewed, confirmed with the token of its preview, polled,  *)
(* stopped and, after a confirmation of which nobody knows what became,    *)
(* looked for with a read. Every answer may be late, lost or overtaken;    *)
(* batches are started and stopped elsewhere; and the server may restart,  *)
(* which forgets them all. Only one request that changes something is      *)
(* under way at a time (lock), and each begins a new epoch: what was asked *)
(* before it is not current any more.                                      *)
(***************************************************************************)
EXTENDS Integers, Sequences, FiniteSets, FiniteSetsExt

CONSTANTS
    Sizes,      \* bound: the items of the batches that are ever started, in their order
    Times,      \* bound: how often each of them may show a later time than before
    None        \* no batch, no poll

ASSUME ConstantsAssumption ==
    /\ Sizes \in Seq(Nat \ {0}) /\ Sizes # <<>>
    /\ Times \in [DOMAIN Sizes -> Nat]

VARIABLES
    jobs,       \* the batches in the order they were confirmed (createdAt)
    token,      \* whether the server takes the token of the page's preview
    page,       \* what the hook holds: preview, shown job, needsRecovery
    act,        \* the request that holds the lock
    reads,      \* the reads of the active batch under way
    poll,       \* the poll under way
    history     \* whether the preview was sent, and became the batch that runs

vars == <<jobs, token, page, act, reads, poll, history>>

server == <<jobs, token>>

(***************************************************************************)
(* Batches                                                                 *)
(***************************************************************************)

Finished == {"sent", "skipped"}
Running  == {"running", "waiting"}
Over     == {"completed", "stopped"}
MaxJobs  == Len(Sizes)
Rows(id) == 1..Sizes[id]

\* What the server sends of a batch, and what the page makes of it.
Values ==
    UNION {[id : {id}, rows : [Rows(id) -> {"queued", "running"} \cup Finished],
            status : Running \cup Over, stop : BOOLEAN, updated : 0..Times[id]]
              : id \in 1..MaxJobs}

\* The answers of the server, the one that is not there yet included.
Refusals == {"none", "preview", "conflict", "error", "gone", "nothing"}
Replies  == [is : Refusals] \cup [is : {"job"}, job : Values]

\* What stands for no batch and for no poll is neither.
ASSUME NoneAssumption == None \notin Values /\ None \notin Replies

\* The batches of this user; those that the server has forgotten are not known.
Jobs == [value : Values, known : BOOLEAN]

Active == {i \in DOMAIN jobs : jobs[i].known /\ jobs[i].value.status \in Running}

Queued(v) == {r \in DOMAIN v.rows : v.rows[r] = "queued"}

\* finish: the rows that were not reached are skipped.
Finish(v) ==
    [v EXCEPT !.rows   = [r \in DOMAIN @ |-> IF @[r] \in Finished THEN @[r] ELSE "skipped"],
              !.status = IF v.stop THEN "stopped" ELSE "completed"]

BeginRow(v) ==
    [v EXCEPT !.rows[Min(Queued(v))] = "running", !.status = "running"]

\* The loop from the end of a row to its next await: a pause if the row was submitted.
GoOn(v, submitted) ==
    IF v.stop \/ Queued(v) = {} THEN Finish(v)
    ELSE IF submitted THEN [v EXCEPT !.status = "waiting"]
    ELSE BeginRow(v)

\* The clock of the server is coarse: two changes may have the same time.
Stamped(v) == {[v EXCEPT !.updated = u] : u \in v.updated..Min({v.updated + 1, Times[v.id]})}

Changes(i, v) ==
    /\ \E w \in Stamped(v) : jobs' = [jobs EXCEPT ![i].value = w]
    /\ history' = [history EXCEPT !.own = @ /\ v.status \in Running]
    /\ UNCHANGED <<token, page, act, reads, poll>>

\* execute ends. Rows whose outcome is unknown, which Steam limits or which were not sent
\* because the batch must stop end the batch.
RowEnds ==
    \E i \in Active, outcome \in Finished, halts \in BOOLEAN :
      \E r \in Rows(i) :
        /\ jobs[i].value.rows[r] = "running"
        /\ Changes(i, GoOn([jobs[i].value EXCEPT !.rows[r] = outcome, !.stop = @ \/ halts],
                           outcome = "sent"))

\* The pause between two rows ends, or is cut short by a stop or the deadline.
PauseEnds ==
    \E i \in Active, deadline \in BOOLEAN :
        LET v == [jobs[i].value EXCEPT !.stop = @ \/ deadline] IN
        /\ v.status = "waiting"
        /\ Changes(i, IF v.stop THEN Finish(v) ELSE BeginRow(v))

(***************************************************************************)
(* The server                                                              *)
(***************************************************************************)

\* A batch is started as soon as it is confirmed: its answer shows the first row running.
NewJob ==
    [value |-> BeginRow([id |-> Len(jobs) + 1,
                         rows |-> [r \in Rows(Len(jobs) + 1) |-> "queued"],
                         status |-> "running", stop |-> FALSE, updated |-> 0]),
     known |-> TRUE]

\* Mutant: nobody asks whether a batch of the account is active.
Started_Beside ==
    IF Len(jobs) = MaxJobs THEN {} ELSE {Append(jobs, NewJob)}

\* The batches once one more was started, if none is active.
Started ==
    IF Active # {} \/ Len(jobs) = MaxJobs THEN {} ELSE {Append(jobs, NewJob)}

\* The batches once one was asked to stop.
Stopped(i) ==
    IF jobs[i].value.status \in Over THEN {jobs}
    ELSE {[jobs EXCEPT ![i].value = w] : w \in Stamped([jobs[i].value EXCEPT !.stop = TRUE])}

NoReply  == [is |-> "none"]
Says(is) == [is |-> is]
Shows(v) == [is |-> "job", job |-> v]

Outcome(j, t, reply) == [jobs |-> j, token |-> t, reply |-> reply]

\* create: one batch per account at a time, one preview per user. The market refuses it
\* for many other reasons, and then keeps the preview that it has.
Previewed ==
    {Outcome(jobs, token, Says(is)) : is \in {"conflict", "error"}} \cup
    (IF Active = {} THEN {Outcome(jobs, TRUE, Says("preview"))} ELSE {})

\* confirm: a token is taken once; it may have expired or have no eligible rows.
Confirmed ==
    {Outcome(jobs, FALSE, Says("conflict"))} \cup
    (IF token THEN {Outcome(j, FALSE, Shows(j[Len(j)].value)) : j \in Started} ELSE {})

StopAnswered(i) ==
    IF jobs[i].known THEN {Outcome(j, token, Shows(j[i].value)) : j \in Stopped(i)}
    ELSE {Outcome(jobs, token, Says("gone"))}

\* What the server may make of a request that changes something.
Outcomes(request) ==
    IF request.kind = "preview" THEN Previewed
    ELSE IF request.kind = "confirm" THEN Confirmed
    ELSE StopAnswered(request.job)

\* GET batches/active and batches/:jobId.
ActiveReply ==
    IF Active = {} THEN Says("nothing") ELSE Shows(jobs[Min(Active)].value)

PollReply(i) == IF jobs[i].known THEN Shows(jobs[i].value) ELSE Says("gone")

\* Another page of this user confirms a batch, and replaces the preview. A confirmation
\* that the page gave up, and that reaches the server late, is such a start too. (What
\* another user does is one of the reasons to refuse a request.)
StartedElsewhere ==
    /\ jobs' \in Started /\ token' = FALSE
    /\ UNCHANGED <<page, act, reads, poll, history>>

\* Another page stops the batch, or the account is stopped, which takes the previews too.
StoppedElsewhere ==
    /\ \E i \in Active : jobs' \in Stopped(i)
    /\ token' \in {token, FALSE}
    /\ UNCHANGED <<page, act, reads, poll, history>>

PreviewExpires ==
    /\ token /\ token' = FALSE
    /\ UNCHANGED <<jobs, page, act, reads, poll, history>>

\* An hour after its end a batch is forgotten.
JobExpires ==
    /\ \E i \in DOMAIN jobs \ Active : jobs' = [jobs EXCEPT ![i].known = FALSE]
    /\ UNCHANGED <<token, page, act, reads, poll, history>>

\* Batches and previews live in the memory of the server, and belong to a session: a
\* restart, or a new login elsewhere, takes them away.
Restart ==
    /\ token' = FALSE
    /\ jobs' = [i \in DOMAIN jobs |-> [jobs[i] EXCEPT !.known = FALSE]]
    /\ history' = [history EXCEPT !.own = FALSE]
    /\ UNCHANGED <<page, act, reads, poll>>

(***************************************************************************)
(* What the page shows                                                     *)
(***************************************************************************)

NoPage    == [preview |-> FALSE, job |-> None, needs |-> FALSE]
NoRequest == [kind |-> "none", job |-> 0, reply |-> NoReply]
NoHistory == [sent |-> FALSE, own |-> FALSE]

IsRunning(job)  == job # None /\ job.status \in Running
IsFinished(job) == job # None /\ job.status \in Over

Progress(row) == IF row = "queued" THEN 0 ELSE IF row = "running" THEN 1 ELSE 2

\* Mutant: the row that came last is taken.
MergeRow_Last(before, after) == after

\* Rows keep the outcome that was seen first, and never go back.
MergeRow(before, after) ==
    IF before \in Finished \/ Progress(after) <= Progress(before) THEN before ELSE after

\* Mutant: the status of what was read last.
MergeStatus_Last(previous, incoming) == incoming.status

MergeStatus(previous, incoming) ==
    IF previous.status \in Over THEN previous.status
    ELSE IF incoming.status \in Over \/ incoming.updated >= previous.updated
         THEN incoming.status ELSE previous.status

MergeJob(previous, incoming) ==
    [incoming EXCEPT !.rows    = [r \in DOMAIN @ |-> MergeRow(previous.rows[r], @[r])],
                     !.status  = MergeStatus(previous, incoming),
                     !.stop    = @ \/ previous.stop,
                     !.updated = Max({@, previous.updated})]

\* Mutant: any answer is shown.
IsDelayed_Never(value, confirmed) == FALSE

\* A delayed read must never restore an older job over the current confirmation.
IsDelayed(value, confirmed) ==
    page.job # None /\ page.job.id # value.id /\ ~confirmed /\ value.id <= page.job.id

\* The job to show after an answer (updateJob).
Updated(value, confirmed) ==
    IF IsDelayed(value, confirmed) THEN page.job
    ELSE IF page.job # None /\ page.job.id = value.id THEN MergeJob(page.job, value)
    ELSE value

\* The page shows a job; the effect that polls lives as long as it shows one that runs.
Show(job, others) ==
    /\ page' = [others EXCEPT !.job = job]
    /\ poll' = IF IsRunning(page.job) /\ IsRunning(job) /\ page.job.id = job.id
               THEN poll ELSE None

\* Mutant: what was asked before still counts.
NewEpoch_Never == UNCHANGED <<reads, poll>>

\* A new epoch: what was asked before is not current, and will be ignored whenever it is
\* answered (isCurrent).
NewEpoch == reads' = {} /\ poll' = None

(***************************************************************************)
(* The requests that hold the lock                                         *)
(***************************************************************************)

Begin(kind, job) ==
    /\ act = NoRequest
    /\ act' = [NoRequest EXCEPT !.kind = kind, !.job = job]
    /\ NewEpoch /\ UNCHANGED <<server, page>>

CreatePreview ==
    /\ ~IsRunning(page.job) /\ ~page.needs
    /\ Begin("preview", 0) /\ UNCHANGED history

Confirm ==
    /\ page.preview /\ ~IsRunning(page.job) /\ ~page.needs
    /\ Begin("confirm", 0)
    /\ history' = [sent |-> TRUE, own |-> FALSE]

Stop ==
    /\ IsRunning(page.job) /\ ~page.job.stop
    /\ Begin("stop", page.job.id) /\ UNCHANGED history

\* The server serves the request; its answer is under way.
ServeAct ==
    /\ act # NoRequest /\ act.reply = NoReply
    /\ \E o \in Outcomes(act) :
        /\ jobs' = o.jobs /\ token' = o.token /\ act' = [act EXCEPT !.reply = o.reply]
        /\ history' = IF act.kind = "confirm" /\ o.jobs # jobs
                      THEN [history EXCEPT !.own = TRUE] ELSE history
    /\ UNCHANGED <<page, reads, poll>>

TakePreview ==
    /\ act.kind = "preview" /\ act.reply.is = "preview" /\ act' = NoRequest
    /\ page' = [page EXCEPT !.preview = TRUE]
    /\ UNCHANGED <<server, reads, poll, history>>

TakeConfirmed ==
    /\ act.kind = "confirm" /\ act.reply.is = "job" /\ act' = NoRequest
    /\ Show(Updated(act.reply.job, TRUE), [page EXCEPT !.preview = FALSE])
    /\ history' = [history EXCEPT !.sent = FALSE]
    /\ UNCHANGED <<server, reads>>

TakeStopped ==
    /\ act.kind = "stop" /\ act.reply.is = "job" /\ act' = NoRequest
    /\ Show(Updated(act.reply.job, FALSE), page)
    /\ UNCHANGED <<server, reads, history>>

\* Mutant: a confirmation that failed is taken for one that did nothing.
NeedsRecovery_Conflict(conflict) == conflict

\* A lost confirmation response can still have started a server job: recover it, never
\* resubmit. A preview that conflicts may say that a batch runs.
NeedsRecovery(conflict) == act.kind = "confirm" \/ (act.kind = "preview" /\ conflict)

\* Mutant: the preview stays on the page.
PreviewAfter_Kept == page.preview

PreviewAfter == page.preview /\ act.kind # "confirm"

\* A preview whose answer is lost has replaced the one that the page holds.
Fails(conflict) ==
    /\ act' = NoRequest
    /\ IF NeedsRecovery(conflict)
       THEN /\ page' = [page EXCEPT !.preview = PreviewAfter, !.needs = TRUE]
            /\ reads' = reads \cup {NoReply}
       ELSE page' = [page EXCEPT !.preview = PreviewAfter] /\ UNCHANGED reads
    /\ token' = (token /\ page'.preview /\ act.reply.is # "preview")
    /\ history' = [history EXCEPT !.sent = @ /\ page'.preview]
    /\ UNCHANGED <<jobs, poll>>

\* The server refused it.
TakeRefusal == act.reply.is \in {"conflict", "error", "gone"} /\ Fails(act.reply.is = "conflict")

\* It, or its answer, is lost.
LoseAct == act # NoRequest /\ Fails(FALSE)

(***************************************************************************)
(* The reads and the polls                                                 *)
(***************************************************************************)

ServeRead ==
    /\ NoReply \in reads /\ reads' = (reads \ {NoReply}) \cup {ActiveReply}
    /\ UNCHANGED <<server, page, act, poll, history>>

\* The page knows what runs, and is unlocked.
TakeRead ==
    \E reply \in reads \ {NoReply} :
        /\ reads' = reads \ {reply}
        /\ Show(IF reply.is = "job" THEN Updated(reply.job, FALSE) ELSE page.job,
                [page EXCEPT !.needs = FALSE])
        /\ UNCHANGED <<server, act, history>>

\* Mutant: a read that failed is taken for one that found nothing.
AfterFailedRead_Known == [page EXCEPT !.needs = FALSE]

\* The page stays locked until it has read successfully.
AfterFailedRead == page

ReadFails ==
    /\ \E reply \in reads : reads' = reads \ {reply}
    /\ page' = AfterFailedRead
    /\ UNCHANGED <<server, act, poll, history>>

RetryRecovery ==
    /\ act = NoRequest /\ reads = {}
    /\ reads' = {NoReply} /\ poll' = None
    /\ UNCHANGED <<server, page, act, history>>

StartPoll ==
    /\ IsRunning(page.job) /\ poll = None
    /\ poll' = NoReply
    /\ UNCHANGED <<server, page, act, reads, history>>

ServePoll ==
    /\ poll = NoReply /\ poll' = PollReply(page.job.id)
    /\ UNCHANGED <<server, page, act, reads, history>>

\* Mutant: it stays on the page.
AfterGone_Kept == page

\* A batch that is gone must not keep the inventory locked.
AfterGone == [page EXCEPT !.job = None]

\* After that it is looked for once more.
TakePoll ==
    /\ poll \notin {None, NoReply} /\ poll' = None
    /\ IF poll.is = "gone"
       THEN page' = AfterGone /\ reads' = reads \cup {NoReply}
       ELSE page' = [page EXCEPT !.job = Updated(poll.job, FALSE)] /\ UNCHANGED reads
    /\ UNCHANGED <<server, act, history>>

LosePoll ==
    /\ poll # None /\ poll' = None
    /\ UNCHANGED <<server, page, act, reads, history>>

(***************************************************************************)
(* The user                                                                *)
(***************************************************************************)

ClosePreview ==
    /\ act = NoRequest /\ page.preview
    /\ page' = [page EXCEPT !.preview = FALSE] /\ token' = FALSE
    /\ UNCHANGED <<jobs, act, reads, poll, history>>

Dismiss ==
    /\ page.job # None /\ ~IsRunning(page.job) /\ ~page.needs /\ act = NoRequest
    /\ page' = [page EXCEPT !.job = None] /\ NewEpoch
    /\ UNCHANGED <<server, act, history>>

\* Another account, or the page is loaded anew: everything is aborted, and a read looks
\* for a running batch.
Open ==
    /\ page' = NoPage /\ act' = NoRequest /\ poll' = None
    /\ reads' = {NoReply} /\ history' = NoHistory
    /\ token' = FALSE /\ UNCHANGED jobs

(***************************************************************************)
(* The specification                                                       *)
(***************************************************************************)

Init ==
    /\ jobs = <<>> /\ token = FALSE
    /\ page = NoPage /\ act = NoRequest /\ poll = None
    /\ reads = {NoReply} /\ history = NoHistory

Server ==
    \/ RowEnds \/ PauseEnds \/ StartedElsewhere
    \/ StoppedElsewhere \/ PreviewExpires \/ JobExpires \/ Restart
    \/ ServeAct \/ ServeRead \/ ServePoll

Browser ==
    \/ CreatePreview \/ Confirm \/ Stop \/ RetryRecovery \/ ClosePreview \/ Dismiss \/ Open
    \/ TakePreview \/ TakeConfirmed \/ TakeStopped \/ TakeRefusal \/ LoseAct
    \/ TakeRead \/ ReadFails \/ StartPoll \/ TakePoll \/ LosePoll

Next == Server \/ Browser

\* Batches go on, the interval polls, requests end, and neither the network nor the
\* clicks of the user get into the way of every single poll.
Fairness ==
    /\ WF_vars(RowEnds \/ PauseEnds)
    /\ WF_vars(StartPoll)
    /\ SF_vars(ServePoll) /\ SF_vars(TakePoll)

Spec == Init /\ [][Next]_vars /\ Fairness

(***************************************************************************)
(* Properties                                                              *)
(***************************************************************************)

\* The state has its types: one batch runs at a time, and the page polls what it shows.
TypeOK ==
    /\ jobs \in Seq(Jobs) /\ Len(jobs) <= MaxJobs /\ Cardinality(Active) <= 1
    /\ token \in BOOLEAN
    /\ page.preview \in BOOLEAN /\ page.needs \in BOOLEAN
    /\ page.job # None => page.job \in Values
    /\ act.kind \in {"none", "preview", "confirm", "stop"}
    /\ act.job \in 0..MaxJobs /\ act.reply \in Replies /\ reads \subseteq Replies
    /\ poll # None => IsRunning(page.job) /\ poll \in Replies
    /\ history \in [sent : BOOLEAN, own : BOOLEAN]

\* What is shown of a batch has happened: its outcomes, its end and its stop are the
\* server's, and a batch that is shown as over has no open rows (mergeJob).
ShownHappened ==
    page.job # None =>
        LET v == jobs[page.job.id].value IN
        /\ \A r \in DOMAIN v.rows :
              /\ Progress(page.job.rows[r]) <= Progress(v.rows[r])
              /\ page.job.rows[r] \in Finished => page.job.rows[r] = v.rows[r]
        /\ IsFinished(page.job) =>
              page.job.status = v.status /\ \A r \in DOMAIN page.job.rows : page.job.rows[r] \in Finished
        /\ page.job.stop => v.stop

\* A batch that the page confirmed, and that runs, is shown, unless its confirmation is
\* under way or the page is locked until it has looked for it (needsRecovery).
OwnIsFound ==
    history.own =>
        \/ page.job # None /\ page.job.id \in Active
        \/ act.kind = "confirm" \/ page.needs

\* What is shown does not go back, whatever the order of the answers is, and only a later
\* batch takes its place.
NoStepBack ==
    page.job # None /\ page'.job # None =>
        IF page'.job.id # page.job.id THEN page'.job.id > page.job.id
        ELSE /\ \A r \in DOMAIN page.job.rows :
                  Progress(page.job.rows[r]) <= Progress(page'.job.rows[r])
             /\ page.job.stop => page'.job.stop
             /\ IsFinished(page.job) => page'.job.status = page.job.status

\* No token is sent twice: a batch of which nobody knows whether it began is looked for.
SentOnce == act'.kind = "confirm" /\ act.kind # "confirm" => ~history.sent

\* The page is true to the batches of the server although answers are lost, delayed and
\* overtaken (useBatchMarket.ts).
PageIsTrue == [](ShownHappened /\ OwnIsFound) /\ [][NoStepBack /\ SentOnce]_vars

\* A batch that is shown as running does not stay so for ever: its end is seen, or it is
\* gone, and the inventory is unlocked.
ShownEnds == IsRunning(page.job) ~> ~IsRunning(page.job)
=============================================================================
