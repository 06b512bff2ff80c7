----------------------------- MODULE MarketSales -----------------------------
(***************************************************************************)
(* Selling the copies of one item of one account on the Steam Community    *)
(* Market: previews, confirmations, batches and price settings             *)
(* (apps/server/src/inventory/service.ts, batch.ts).                       *)
(*                                                                         *)
(* The work of an account is serialised by a lock of its own, and each     *)
(* piece of it waits many times: for Steam's inventory and listings, for   *)
(* its turn among the account's operations, for a web session and for the  *)
(* answer to a POST that may be lost after Steam has committed it.         *)
(* Meanwhile the user stops the batch or the account, saves other rules or *)
(* confirms the next sale.                                                 *)
(***************************************************************************)
EXTENDS Integers, Sequences, FiniteSets

CONSTANTS
    Assets,     \* the assets that hold copies of the item
    Copies,     \* how many copies each asset holds at first
    MaxSaves,   \* bound: how often the price settings are changed
    Baskets,    \* what a user may choose: assets and quantities, for one batch
    MayForget,  \* whether a restart may come before Steam has settled all sales
    Singles,    \* what is previewed and confirmed one at a time
    MaxTasks    \* bound: requests in the account's market lock

ASSUME ConstantsAssumption ==
    /\ IsFiniteSet(Assets) /\ Assets # {}
    /\ Copies \in [Assets -> Nat \ {0}]
    /\ MaxSaves \in Nat /\ MayForget \in BOOLEAN
    /\ Baskets \subseteq Seq([asset : Assets, quantity : Nat \ {0}])
    /\ \A c \in Baskets : \A i, j \in DOMAIN c : i # j => c[i].asset # c[j].asset
    /\ Singles \subseteq {"sell", "cancel"}
    /\ MaxTasks \in Nat \ {0}

VARIABLES
    steam,      \* Steam: what is owned, listed, leaving the inventory, requested
    submitted,  \* the sales this process has sent, or may have sent
    intents,    \* single previews that wait for their confirmation
    prepared,   \* the batch preview that waits for its confirmation
    job,        \* the batch
    tasks,      \* the market lock: its holder and those who wait for it
    rules,      \* the saved price settings: how often they were changed
    quiet       \* history: the account was stopped, and nothing previewed since

vars == <<steam, submitted, intents, prepared, job, tasks, rules, quiet>>

(***************************************************************************)
(* Data                                                                    *)
(***************************************************************************)

\* The number of copies when f[a] of them are in a; every copy is a pair.
Total(f) == Cardinality(UNION {{a} \X (1..f[a]) : a \in DOMAIN f})

Quantities == 1..Total(Copies)
Amounts    == 0..Total(Copies)

Steam ==
    [owned    : [Assets -> Amounts],    \* in the inventory Steam shows
     listed   : [Assets -> Amounts],    \* on the market, or awaiting confirmation
     moving   : [Assets -> Amounts],    \* listed, and still shown in the inventory
     wire     : [Assets -> Amounts],    \* asked for by a POST not yet decided
     removing : SUBSET Assets]          \* cancellations not yet decided

\* quantity is 0 for an asset that has not been submitted.
Submission == [quantity : Amounts, before : Amounts]
NoSubmission == [quantity |-> 0, before |-> 0]

Intent == [op : {"sell", "cancel"}, asset : Assets, quantity : Quantities,
           rules : Nat]

\* sent and unsure are history: a POST was made, and its answer never came.
Row == [asset : Assets, quantity : Quantities,
        status : {"queued", "running", "listed", "cancelled", "failed", "skipped"},
        sent : BOOLEAN, unsure : BOOLEAN]

\* No preview is prepared, or no batch runs, when there are no rows.
Job == [op : {"sell", "cancel"}, rules : Nat, rows : Seq(Row),
        active : BOOLEAN, stop : BOOLEAN]

NoJob == [op |-> "sell", rules |-> 0, rows |-> <<>>,
          active |-> FALSE, stop |-> FALSE]

Steps == {"start", "turn", "session", "sent", "accepted",
          "rejected", "verify"}

Task == [op : {"sell", "cancel", "save", "preview", "preview_batch"},
         row : Nat, asset : Assets, quantity : Amounts, rules : Nat,
         live : BOOLEAN, at : Steps, before : Amounts]

T == Head(tasks)

At(ops, step) == tasks # <<>> /\ T.op \in ops /\ T.at = step

Goto(step) == [tasks EXCEPT ![1] = [@ EXCEPT !.at = step]]

RowIs(i, row) == [job EXCEPT !.rows = [@ EXCEPT ![i] = row]]

Put(f, a, n) == [f EXCEPT ![a] = n]

\* The guard a task was given: a row's is its batch's, another's is its epoch's.
Current(t) == IF t.row > 0 THEN ~job.stop ELSE t.live

Listed(a) == steam.listed[a] > 0

(***************************************************************************)
(* The copy to keep                                                        *)
(***************************************************************************)

\* Copies that are shown and that no submission may already have taken.
Available(sub, view) ==
    Total([a \in Assets |-> view[a] - sub[a].quantity])

\* Mutant: the copies that are on their way still count as a copy to keep.
Sellable_Shown(sub, view, a, q) ==
    q <= view[a] /\ sub[a].quantity = 0 /\ Total(view) - q >= 1

Sellable(sub, view, a, q) ==
    q <= view[a] /\ sub[a].quantity = 0 /\ Available(sub, view) - q >= 1

\* A submission is forgotten when the inventory shows that its copies have left.
Released(sub, view) ==
    [a \in Assets |->
        IF view[a] <= sub[a].before - sub[a].quantity THEN NoSubmission ELSE sub[a]]

(***************************************************************************)
(* Requests                                                                *)
(***************************************************************************)

Room   == Len(tasks) < MaxTasks
Queued == {i \in DOMAIN job.rows : job.rows[i].status = "queued"}
AtWork == \E i \in DOMAIN tasks : tasks[i].row > 0

\* Mutant: a batch that waits between two rows is taken for idle.
Idle_Between == ~AtWork

\* assertIdle
Idle == ~job.active

Saving == \E i \in DOMAIN tasks : tasks[i].op = "save"

Enqueued(op, row, asset, quantity, r) ==
    Append(tasks, [op |-> op, row |-> row, asset |-> asset, quantity |-> quantity,
                   rules |-> r, live |-> TRUE, at |-> "start", before |-> 0])

RequestPreview(op) ==
    /\ Room /\ Idle
    /\ tasks' = Enqueued(op, 0, CHOOSE a \in Assets : TRUE, 0, rules)
    /\ quiet' = FALSE
    /\ UNCHANGED <<steam, submitted, intents, prepared, job, rules>>

\* A token may be confirmed twice before the lock is free.
Confirm(i) ==
    /\ Room /\ Idle
    /\ tasks' = Enqueued(i.op, 0, i.asset, i.quantity, i.rules)
    /\ UNCHANGED <<steam, submitted, intents, prepared, job, rules, quiet>>

ConfirmBatch ==
    /\ prepared.rows # <<>> /\ Idle /\ ~Saving
    /\ job' = [prepared EXCEPT !.active = TRUE]
    /\ prepared' = NoJob
    /\ UNCHANGED <<steam, submitted, intents, tasks, rules, quiet>>

Expire ==
    /\ prepared' = NoJob /\ intents' = {}
    /\ UNCHANGED <<steam, submitted, job, tasks, rules, quiet>>

RequestSave ==
    /\ Room /\ ~Saving /\ rules < MaxSaves
    /\ tasks' = Enqueued("save", 0, CHOOSE a \in Assets : TRUE, 0, rules + 1)
    /\ UNCHANGED <<steam, submitted, intents, prepared, job, rules, quiet>>

\* The user stops the batch, or its hour is over.
StopBatch ==
    /\ job.active /\ ~job.stop
    /\ job' = [job EXCEPT !.stop = TRUE]
    /\ UNCHANGED <<steam, submitted, intents, prepared, tasks, rules, quiet>>

\* Mutant: what was previewed outlives the stop.
Revoked_Previews ==
    /\ UNCHANGED <<intents, prepared>>
    /\ tasks' = [i \in DOMAIN tasks |-> [tasks[i] EXCEPT !.live = FALSE]]

Revoked ==
    /\ intents' = {} /\ prepared' = NoJob
    /\ tasks' = [i \in DOMAIN tasks |-> [tasks[i] EXCEPT !.live = FALSE]]

\* A start, stop, pause, removal or loss of the account, or a shutdown.
StopAccount ==
    /\ Revoked
    /\ job' = [job EXCEPT !.stop = @ \/ job.active]
    /\ quiet' = TRUE
    /\ UNCHANGED <<steam, submitted, rules>>

\* The inventory page loads the inventory outside the lock.  (It is read and
\* released in one step.)
Refresh ==
    /\ submitted' = Released(submitted, steam.owned)
    /\ UNCHANGED <<steam, intents, prepared, job, tasks, rules, quiet>>

(***************************************************************************)
(* The end of a task                                                       *)
(***************************************************************************)

\* A row of the batch takes over what became of its task.
End(status, stop, unsure) ==
    /\ tasks' = Tail(tasks)
    /\ job' = IF T.row = 0 THEN job
              ELSE [RowIs(T.row, [job.rows[T.row] EXCEPT !.status = status,
                                                         !.unsure = unsure])
                        EXCEPT !.stop = @ \/ stop]

\* stoppedBeforeSubmission, an ordinary error and uncertainSubmission
Stopped   == End("skipped", TRUE, FALSE)
Failed    == \E stop \in BOOLEAN : End("failed", stop, FALSE)

\* Mutants: the next row is tried although nobody knows what became of this one;
\* the row says that it was not sent.
Uncertain_GoesOn == End("failed", FALSE, TRUE)
Uncertain_Skips == End("skipped", TRUE, TRUE)

Uncertain == End("failed", TRUE, TRUE)

(***************************************************************************)
(* Previews and settings                                                   *)
(***************************************************************************)

Asked == {"preview", "preview_batch"}

\* A choice that may be offered; together its rows leave a copy.
Offered(op, c) ==
    IF op = "sell"
    THEN /\ \A i \in DOMAIN c :
               /\ ~Listed(c[i].asset)
               /\ Sellable(submitted', steam.owned, c[i].asset, c[i].quantity)
         /\ Total([i \in DOMAIN c |-> c[i].quantity]) < Available(submitted', steam.owned)
    ELSE \A i \in DOMAIN c : c[i].quantity = steam.listed[c[i].asset]

\* Mutant: the rows of a batch keep the status of a preview.
Rows_Ready(c) ==
    [i \in DOMAIN c |-> [asset |-> c[i].asset, quantity |-> c[i].quantity,
                         status |-> "ready", sent |-> FALSE, unsure |-> FALSE]]

Rows(c) ==
    [i \in DOMAIN c |-> [asset |-> c[i].asset, quantity |-> c[i].quantity,
                         status |-> "queued", sent |-> FALSE, unsure |-> FALSE]]

Preview ==
    /\ At(Asked, "start")
    /\ submitted' = Released(submitted, steam.owned)
    /\ tasks' = Tail(tasks)
    /\ \/ UNCHANGED <<intents, prepared>>
       \/ /\ T.live
          /\ \E op \in {"sell", "cancel"}, c \in Baskets :
                /\ Offered(op, c)
                /\ IF T.op = "preview"
                   THEN /\ Len(c) = 1 /\ op \in Singles
                        /\ intents' = {[op |-> op, asset |-> c[1].asset,
                                        quantity |-> c[1].quantity, rules |-> rules]}
                        /\ UNCHANGED prepared
                   ELSE /\ Idle
                        /\ prepared' = [NoJob EXCEPT !.op = op, !.rules = rules,
                                                     !.rows = Rows(c)]
                        /\ UNCHANGED intents
    /\ UNCHANGED <<steam, job, rules, quiet>>

\* assertIdle, before the settings are validated and again in the account's turn
Save ==
    /\ \/ /\ At({"save"}, "start") /\ Idle
          /\ tasks' = Goto("turn") /\ UNCHANGED rules
       \/ /\ At({"save"}, "turn") /\ Idle
          /\ rules' = T.rules /\ tasks' = Tail(tasks)
       \/ /\ tasks # <<>> /\ T.op = "save"
          /\ tasks' = Tail(tasks) /\ UNCHANGED rules
    /\ UNCHANGED <<steam, submitted, intents, prepared, job, quiet>>

(***************************************************************************)
(* A sale, or a cancellation                                               *)
(***************************************************************************)

Works == {"sell", "cancel"}

\* Only a sale loads the inventory.
Loaded(op) == IF op = "sell" THEN Released(submitted, steam.owned) ELSE submitted

Token == [op |-> T.op, asset |-> T.asset, quantity |-> T.quantity, rules |-> T.rules]

\* takeIntent; a row has no token.
\* Mutant: the rules may be those of the preview.
Reviewed_AnyRules(t) ==
    IF t.op = "cancel" THEN Listed(t.asset)
    ELSE ~Listed(t.asset) /\ Sellable(submitted', steam.owned, t.asset, t.quantity)

\* Nothing has changed since the preview.  (That a quote has changed or that a
\* page cannot be read is a failure that is always possible.)
Reviewed(t) ==
    IF t.op = "cancel" THEN Listed(t.asset)
    ELSE /\ t.rules = rules /\ ~Listed(t.asset)
         /\ Sellable(submitted', steam.owned, t.asset, t.quantity)

\* The token is used up, and then the inventory, the wallet, the settings, the
\* listings and the quote are read; after each of them the guard is asked, as it
\* is again in the next step.
Review ==
    /\ At(Works, "start")
    /\ IF ~Current(T) \/ (T.row = 0 /\ Token \notin intents)
       THEN /\ IF Current(T) THEN End("failed", FALSE, FALSE) ELSE Stopped
            /\ UNCHANGED <<intents, submitted>>
       ELSE /\ intents' = intents \ {Token}
            /\ submitted' = Loaded(T.op)
            /\ \/ /\ Reviewed(T)
                  /\ tasks' = [tasks EXCEPT ![1] = [@ EXCEPT !.at = "turn",
                                                     !.before = steam.owned[T.asset]]]
                  /\ UNCHANGED job
               \/ Failed
    /\ UNCHANGED <<steam, prepared, rules, quiet>>

\* Mutant: nothing is reserved.
Reservation_None(t) == NoSubmission

Reservation(t) == [quantity |-> t.quantity, before |-> t.before]

\* The turn among the account's operations has come: a sale is reserved before
\* anything is sent.
Turn ==
    /\ At(Works, "turn")
    /\ IF ~Current(T)
       THEN Stopped /\ UNCHANGED submitted
       ELSE /\ tasks' = [tasks EXCEPT ![1] = [@ EXCEPT !.at = "session", !.before = 0]]
            /\ submitted' = IF T.op = "cancel" THEN submitted
                            ELSE [submitted EXCEPT ![T.asset] = Reservation(T)]
            /\ UNCHANGED job
    /\ UNCHANGED <<steam, intents, prepared, rules, quiet>>

Unreserved ==
    IF T.op = "cancel" THEN submitted
    ELSE [submitted EXCEPT ![T.asset] = NoSubmission]

\* The web session is there; the POST goes out unless the work was stopped.
\* (Bound: a POST that a restart forgot is decided before the asset's next one.)
Send ==
    /\ At(Works, "session")
    /\ MayForget => steam.wire[T.asset] = 0
    /\ IF ~Current(T)
       THEN Stopped /\ submitted' = Unreserved /\ UNCHANGED steam
       ELSE /\ steam' = IF T.op = "sell"
                        THEN [steam EXCEPT !.wire =
                                Put(@, T.asset, steam.wire[T.asset] + T.quantity)]
                        ELSE [steam EXCEPT !.removing = @ \cup {T.asset}]
            /\ tasks' = Goto("sent")
            /\ job' = IF T.row = 0 THEN job
                      ELSE RowIs(T.row, [job.rows[T.row] EXCEPT !.sent = TRUE])
            /\ UNCHANGED submitted
    /\ UNCHANGED <<intents, prepared, rules, quiet>>

\* No session, no answer within twenty seconds, or an answer that says nothing.
AnswerLost ==
    /\ \E step \in {"session", "sent", "accepted", "rejected", "verify"} : At(Works, step)
    /\ Uncertain
    /\ UNCHANGED <<steam, submitted, intents, prepared, rules, quiet>>

\* A definite rejection created no listing, so the asset may be sold again.
Rejected ==
    /\ At(Works, "rejected")
    /\ Failed /\ submitted' = Unreserved
    /\ UNCHANGED <<steam, intents, prepared, rules, quiet>>

Accepted ==
    /\ At(Works, "accepted")
    /\ IF T.op = "sell"
       THEN End("listed", FALSE, FALSE)
       ELSE tasks' = Goto("verify") /\ UNCHANGED job
    /\ UNCHANGED <<steam, submitted, intents, prepared, rules, quiet>>

\* A cancellation counts when the listing has gone from the account's listings.
Verify ==
    /\ At({"cancel"}, "verify")
    /\ IF Listed(T.asset) THEN End("failed", TRUE, FALSE)
                          ELSE End("cancelled", FALSE, FALSE)
    /\ UNCHANGED <<steam, submitted, intents, prepared, rules, quiet>>

(***************************************************************************)
(* The batch                                                               *)
(***************************************************************************)

\* One row at a time, and a pause after each that was submitted.
NextRow ==
    /\ job.active /\ ~AtWork /\ ~job.stop /\ Queued # {}
    /\ LET i == CHOOSE i \in Queued : \A j \in Queued : i <= j
       IN /\ tasks' = Enqueued(job.op, i, job.rows[i].asset, job.rows[i].quantity,
                               job.rules)
          /\ job' = RowIs(i, [job.rows[i] EXCEPT !.status = "running"])
    /\ UNCHANGED <<steam, submitted, intents, prepared, rules, quiet>>

Over == job.stop \/ Queued = {}

\* What the finished batch shows.
Outcome == [i \in DOMAIN job.rows |->
               IF i \in Queued THEN [job.rows[i] EXCEPT !.status = "skipped"]
                               ELSE job.rows[i]]

\* (A finished batch only remains to be shown; it is left out.)
FinishBatch ==
    /\ job.active /\ ~AtWork /\ Over
    /\ job' = NoJob
    /\ UNCHANGED <<steam, submitted, intents, prepared, tasks, rules, quiet>>

(***************************************************************************)
(* Steam, and the process                                                  *)
(***************************************************************************)

Awaits(op, a) == At({op}, "sent") /\ T.asset = a

Answered(op, a, answer) ==
    tasks' = IF Awaits(op, a) THEN Goto(answer) ELSE tasks

Outside == <<submitted, intents, prepared, job, rules, quiet>>

\* Steam decides a sale, perhaps long after its answer was given up.
DecideSale(a) ==
    /\ steam.wire[a] > 0
    /\ \/ /\ steam.moving[a] + steam.wire[a] <= steam.owned[a]
          /\ steam' = [steam EXCEPT !.listed = Put(@, a, steam.listed[a] + steam.wire[a]),
                                    !.moving = Put(@, a, steam.moving[a] + steam.wire[a]),
                                    !.wire   = Put(@, a, 0)]
          /\ Answered("sell", a, "accepted")
       \/ /\ steam' = [steam EXCEPT !.wire = Put(@, a, 0)]
          /\ Answered("sell", a, "rejected")
    /\ UNCHANGED Outside

DecideCancellation(a) ==
    /\ a \in steam.removing
    /\ \/ /\ steam' = [steam EXCEPT !.removing = @ \ {a},
                !.owned  = Put(@, a, steam.owned[a] + steam.listed[a] - steam.moving[a]),
                !.listed = Put(@, a, 0), !.moving = Put(@, a, 0)]
          /\ Answered("cancel", a, "accepted")
       \/ /\ steam' = [steam EXCEPT !.removing = @ \ {a}]
          /\ Answered("cancel", a, "rejected")
    /\ UNCHANGED Outside

\* The listing is confirmed, and its copies leave the inventory; it is sold.
LeavesInventory(a) ==
    /\ steam.moving[a] > 0
    /\ steam' = [steam EXCEPT !.owned  = Put(@, a, steam.owned[a] - steam.moving[a]),
                              !.moving = Put(@, a, 0)]
    /\ tasks' = tasks /\ UNCHANGED Outside

Sold(a) ==
    /\ Listed(a) /\ steam.moving[a] = 0
    /\ steam' = [steam EXCEPT !.listed = Put(@, a, 0)]
    /\ tasks' = tasks /\ UNCHANGED Outside

Restart ==
    /\ MayForget \/ \A a \in Assets : steam.moving[a] + steam.wire[a] = 0
    /\ submitted' = [a \in Assets |-> NoSubmission]
    /\ intents' = {} /\ prepared' = NoJob /\ tasks' = <<>>
    /\ job' = NoJob
    /\ quiet' = TRUE
    /\ UNCHANGED <<steam, rules>>

(***************************************************************************)
(* The specification                                                       *)
(***************************************************************************)

Init ==
    /\ steam = [owned |-> Copies, listed |-> [a \in Assets |-> 0],
                moving |-> [a \in Assets |-> 0], wire |-> [a \in Assets |-> 0],
                removing |-> {}]
    /\ submitted = [a \in Assets |-> NoSubmission]
    /\ intents = {} /\ prepared = NoJob /\ job = NoJob /\ tasks = <<>>
    /\ rules = 0
    /\ quiet = TRUE

Requests ==
    \/ RequestPreview("preview") \/ RequestPreview("preview_batch")
    \/ \E i \in intents : Confirm(i)
    \/ RequestSave \/ ConfirmBatch \/ Expire \/ StopBatch \/ StopAccount \/ Refresh

Work ==
    \/ Preview \/ Save
    \/ Review \/ Turn \/ Send
    \/ AnswerLost \/ Rejected \/ Accepted \/ Verify

RunBatch == NextRow \/ FinishBatch

Decide ==
    \E a \in Assets :
        DecideSale(a) \/ DecideCancellation(a) \/ LeavesInventory(a) \/ Sold(a)

Next == Requests \/ Work \/ RunBatch \/ Decide \/ Restart

Spec == Init /\ [][Next]_vars

(***************************************************************************)
(* Properties                                                              *)
(***************************************************************************)

TypeOK ==
    /\ steam \in Steam
    /\ submitted \in [Assets -> Submission]
    /\ intents \subseteq Intent
    /\ prepared \in Job /\ job \in Job
    /\ tasks \in Seq(Task)
    /\ rules \in Nat
    /\ quiet \in BOOLEAN

\* Copies that neither a listing nor a request that Steam may still grant takes.
Kept == Total([a \in Assets |-> steam.owned[a] - steam.moving[a] - steam.wire[a]])

\* docs/STEAM-TOOLS.md:120-121: "One copy of each item always stays", whatever was
\* sent, lost, cancelled or is not shown yet.
OneCopyStays == Kept >= 1

\* No asset is offered again while an earlier offer of it may still succeed.
NeverSoldTwice ==
    [][\A a \in Assets : steam'.wire[a] > steam.wire[a] =>
          steam.wire[a] = 0 /\ steam.moving[a] = 0]_vars

Posts == \/ \E a \in Assets : steam'.wire[a] > steam.wire[a]
         \/ steam'.removing \ steam.removing # {}

\* What is sent is still what the user wants (withAccountLock, reviewed, saveSettings).
\* Nothing is sent after the account was stopped until something is previewed anew,
\* whatever waited for a lock, a turn, a session or a confirmation. A sale is sent under
\* the rules that were saved when it was reviewed, and that still are; they stay what
\* they are while a batch runs.
SoldAsReviewed ==
    [][/\ Posts => ~quiet
       /\ \A a \in Assets : steam'.wire[a] > steam.wire[a] => T.rules = rules
       /\ job.active => rules' = rules]_vars

\* What the user confirmed is sold once, and as it was reviewed: both of the above.
SoldOnceAsReviewed == NeverSoldTwice /\ SoldAsReviewed

\* A row says what happened: what was skipped was never sent, what is listed or
\* cancelled was, and nothing is left open when the batch is over. After a row of
\* which nobody knows what became, the batch sends nothing.
RowsAreTrue ==
    /\ ~AtWork =>
          \A i \in DOMAIN Outcome :
              /\ Outcome[i].status \in {"listed", "cancelled", "failed", "skipped"}
                    \/ ~Over
              /\ Outcome[i].status \in {"queued", "skipped"} => ~Outcome[i].sent
              /\ Outcome[i].status \in {"listed", "cancelled"} =>
                    Outcome[i].sent /\ ~Outcome[i].unsure
    /\ \A i, j \in DOMAIN job.rows :
          i < j /\ job.rows[i].unsure => ~job.rows[j].sent

=============================================================================
