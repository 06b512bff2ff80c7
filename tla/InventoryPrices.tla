--------------------------- MODULE InventoryPrices ---------------------------
(***************************************************************************)
(* Price estimates of an inventory (inventory/price-overview.ts and        *)
(* price-reader.ts on the server, useInventoryPrices.ts in the browser,    *)
(* with the inventory, the refresh and the rules of InventoryPanel.tsx).   *)
(*                                                                         *)
(* The browser asks for the prices of the cards that can be seen, one      *)
(* request at a time.  The server answers from the inventory that it       *)
(* loaded last, with the wallet of the Steam account, which requests share *)
(* while it is being read, and with the rules that are saved when the      *)
(* prices are there.  Meanwhile rules are saved, the wallet changes, the   *)
(* account is stopped or signed in again, the inventory of the server      *)
(* expires, and the browser hides the page, refreshes the inventory or     *)
(* gives a request up, whose reads the server goes on with.                *)
(***************************************************************************)
EXTENDS Integers

CONSTANTS
    Variants,       \* the cards
    Flights,        \* reads of the wallet that are under way at the same time
    MaxChanges,     \* rules saved, wallets changed, accounts stopped, contexts expired
    None

ASSUME BoundsAssumption == MaxChanges \in Nat

\* A wallet that was read, with the epoch it was asked for in; a read of one; and the
\* rules and the wallet that an estimate was made with.
Remembered == [value : Nat, login : Nat]
Reading    == [active : BOOLEAN, wallet : Remembered]
Basis      == [rules : Nat, wallet : Nat]

\* What stands for nothing is none of them.
ASSUME NoneAssumption == None \notin Nat \cup Flights \cup Remembered \cup Reading \cup Basis

VARIABLES
    rules,          \* the saved rules
    wallet,         \* Steam: the wallet of the account
    login,          \* epochs: how often the account was stopped
    context,        \* contexts: whether the server has an inventory of the account
    cache,          \* wallets: what is remembered of the wallet
    flights,        \* walletFlights, with those that the account has forgotten
    req,            \* the price request that the browser waits for
    changes,
    panel,          \* the rules that the panel has, if it has read them
    refresh,        \* the inventory is being loaded, since this epoch
    shown,          \* whether the page is shown, with the cards
    records,        \* what each card shows
    hook,           \* the refs and the variables of useInventoryPrices
    repairs         \* history: refreshes since prices were read, for expired contexts

steam   == <<rules, wallet>>
server  == <<login, context, cache, flights>>
browser == <<panel, refresh, shown, records, hook, repairs>>
vars    == <<steam, server, req, changes, browser>>

Change == changes < MaxChanges /\ changes' = changes + 1

(***************************************************************************)
(* The server                                                              *)
(***************************************************************************)

NoAnswer == [kind |-> "none", rules |-> None, priced |-> {}, limited |-> FALSE]

NoRequest == [phase |-> "idle", ids |-> {}, login |-> 0, flight |-> None,
              wallet |-> None, answer |-> NoAnswer]

\* The answer to a request that was given up goes nowhere: such a request is NoRequest.
\* A request that has its answer does not wait for a read of the wallet any more.
Answered(answer) == [req EXCEPT !.phase = "answered", !.flight = None, !.answer = answer]

\* contextExpired
Expired == [NoAnswer EXCEPT !.kind = "expired"]

\* The wallet that Steam shows for the account that is signed in now.
Read == [value |-> wallet, login |-> login]

\* read: the context and the epoch are taken, then the wallet is: from the cache, from
\* the flight that is under way, or from one of its own.
Arrive(ids) ==
    LET current == {f \in Flights : flights[f] # None /\ flights[f].active}
        taken   == [NoRequest EXCEPT !.ids = ids, !.login = login]
        waiting(f) == [taken EXCEPT !.phase = "wallet", !.flight = f]
    IN
    \/ /\ ~context
       /\ req' = [taken EXCEPT !.phase = "answered", !.answer = Expired]
       /\ flights' = flights
    \/ /\ context /\ cache # None
       /\ req' = [taken EXCEPT !.phase = "prices", !.wallet = cache]
       /\ flights' = flights
    \/ /\ context /\ cache = None
       /\ \E f \in current : req' = waiting(f)
       /\ flights' = flights
    \/ /\ context /\ cache = None /\ current = {}
       /\ \E f \in Flights :
           /\ flights[f] = None /\ req' = waiting(f)
           /\ flights' = [flights EXCEPT ![f] = [active |-> TRUE, wallet |-> Read]]

\* Mutant: a wallet that was asked for before the account was stopped is remembered.
Accepted_Always(flight) == TRUE

\* isCurrent of a flight, by its token
Accepted(flight) == flight.active

\* The market page is read, or it fails, or the account was stopped meanwhile.
FlightEnds(f) ==
    /\ flights[f] # None
    /\ \E ok \in {Accepted(flights[f]), FALSE} :
        /\ cache' = IF ok THEN flights[f].wallet ELSE cache
        /\ req' = IF req.flight # f THEN req
                  ELSE [req EXCEPT !.phase = "prices", !.flight = None,
                                   !.wallet = IF ok THEN flights[f].wallet ELSE None]
    /\ flights' = [flights EXCEPT ![f] = None]
    /\ UNCHANGED <<steam, login, context, changes, browser>>

\* Mutant: the account may have been stopped while the prices were read.
Current_Always == TRUE

\* assertCurrent
Current == req.login = login

\* The market prices of some cards are there, some are not to be had, some are limited,
\* which an earlier price may outlive; without a wallet none is there.  The rules are
\* read when everything else is.
Overview ==
    /\ req.phase = "prices"
    /\ \/ ~Current /\ req' = Answered(Expired)
       \/ /\ Current
          /\ \E priced \in IF req.wallet = None THEN {{}} ELSE SUBSET req.ids,
               limited \in BOOLEAN :
              req' = Answered([kind |-> "overview", rules |-> rules,
                               priced |-> priced, limited |-> limited])
    /\ UNCHANGED <<steam, server, changes, browser>>

\* The request or its answer is lost, or it is refused because there are too many.
RequestFails ==
    /\ req.phase \in {"wallet", "prices"}
    /\ \E limited \in BOOLEAN :
        req' = Answered([NoAnswer EXCEPT !.kind = "failed", !.limited = limited])
    /\ UNCHANGED <<steam, server, changes, browser>>

\* stopAccountBatches: clearAccount of the overview and of the reader
ClearAccount ==
    /\ Change /\ login' = login + 1
    /\ context' = FALSE /\ cache' = None
    /\ flights' = [f \in Flights |->
                   IF flights[f] = None THEN None ELSE [flights[f] EXCEPT !.active = FALSE]]
    /\ UNCHANGED <<steam, req, browser>>

\* The inventory is loaded for another browser, or for a refresh that was superseded.
Seed ==
    /\ ~context /\ context' = TRUE
    /\ UNCHANGED <<steam, login, cache, flights, req, changes, browser>>

\* prune, or the inventories of other accounts take its place
ContextExpires ==
    /\ context /\ Change /\ context' = FALSE
    /\ UNCHANGED <<steam, login, cache, flights, req, browser>>

WalletExpires ==
    /\ cache # None /\ cache' = None
    /\ UNCHANGED <<steam, login, context, flights, req, changes, browser>>

WalletChanges ==
    /\ Change /\ wallet' = wallet + 1
    /\ UNCHANGED <<rules, server, req, browser>>

(***************************************************************************)
(* The cards                                                               *)
(***************************************************************************)

\* emptyVariantPrice: an estimate (or none), whether it is being asked for, and whether
\* it is time to ask (nextCheck).
Empty == [price |-> None, busy |-> "no", due |-> TRUE]

NoRecords == [v \in Variants |-> Empty]

Settle(record, price) == [record EXCEPT !.price = price, !.busy = "no", !.due = FALSE]

\* markFailure: an estimate that is still usable is kept.
Failed(ids) ==
    [v \in Variants |-> IF v \in ids THEN Settle(records[v], records[v].price) ELSE records[v]]

\* Mutant: a card that is being loaded when its request is given up goes on loading.
Released_Refreshing(record) ==
    IF record.busy = "refreshing" THEN [record EXCEPT !.busy = "no"] ELSE record

Released(record) ==
    IF record.busy = "loading" THEN Empty ELSE [record EXCEPT !.busy = "no"]

AllReleased == [v \in Variants |-> Released(records[v])]

NoHook == [wallet |-> None, rules |-> None, fixing |-> FALSE,
           used |-> FALSE, cooldown |-> FALSE]

\* The effect is cleaned up: its request is aborted and its cards are released.
Dispose ==
    /\ records' = AllReleased /\ req' = NoRequest
    /\ hook' = [hook EXCEPT !.fixing = FALSE]

\* The inventory or the rules of the panel are others: everything is forgotten but the
\* repair and the cooldown.
NewContext ==
    /\ records' = NoRecords
    /\ hook' = [hook EXCEPT !.wallet = None, !.rules = None, !.fixing = FALSE]
    /\ req' = NoRequest

Enabled == refresh = None

(***************************************************************************)
(* Asking                                                                  *)
(***************************************************************************)

\* pump: one request at a time, not while the rules are repaired and not while Steam
\* refuses.
Pump ==
    /\ Enabled /\ shown /\ req.phase = "idle"
    /\ ~hook.fixing /\ ~hook.cooldown
    /\ LET ids == {v \in Variants : records[v].due} IN
        /\ ids # {} /\ Arrive(ids)
        /\ records' = [v \in Variants |->
                IF v \notin ids THEN records[v]
                ELSE IF records[v].price # None THEN [records[v] EXCEPT !.busy = "refreshing"]
                ELSE [records[v] EXCEPT !.busy = "loading", !.due = FALSE]]
    /\ UNCHANGED <<steam, login, context, cache, changes, panel, refresh, shown, hook,
                   repairs>>

\* Mutant: an inventory that expires again is refreshed again.
MayRepair_Always == TRUE

MayRepair == ~hook.used

\* Mutant: what was estimated by other rules or for another wallet stays.
Other_Never(answer, w) == FALSE

\* The rules or the wallet are not those of the estimates that are shown.
Other(answer, w) ==
    \/ hook.rules # None /\ answer.rules # hook.rules
    \/ hook.wallet # None /\ w # None /\ w # hook.wallet

Kept(answer, w) == IF Other(answer, w) THEN NoRecords ELSE records

\* walletFingerprint
WalletOf == IF req.wallet = None THEN None ELSE req.wallet.value

\* The rows of an overview.  A usable estimate is kept when Steam refused to show the
\* wallet, and not when it could not be read.
ApplyRows ==
    LET answer == req.answer
        w      == WalletOf
        kept   == Kept(answer, w)
    IN
    /\ \E refused \in IF w = None THEN BOOLEAN ELSE {FALSE} :
        LET price(v) == IF v \in answer.priced THEN [rules |-> answer.rules, wallet |-> w]
                        ELSE IF refused THEN kept[v].price ELSE None
        IN records' = [v \in Variants |->
                       IF v \in req.ids THEN Settle(kept[v], price(v)) ELSE kept[v]]
    /\ hook' = [hook EXCEPT !.rules = answer.rules,
                            !.wallet = IF w = None THEN @ ELSE w,
                            !.cooldown = @ \/ answer.limited, !.used = FALSE]
    /\ repairs' = 0
    /\ UNCHANGED refresh

\* The panel has other rules: no estimate is shown until it has read them anew.
RulesDiffer ==
    /\ records' = [v \in Variants |-> Settle(records[v], None)]
    /\ hook' = [hook EXCEPT !.fixing = TRUE]
    /\ UNCHANGED <<refresh, repairs>>

\* The first expired context is repaired by a refresh, which ends the effect.
ContextIsGone ==
    /\ records' = Failed(req.ids)
    /\ hook' = [hook EXCEPT !.used = TRUE]
    /\ IF MayRepair
       THEN refresh' = login /\ repairs' = repairs + 1
       ELSE UNCHANGED <<refresh, repairs>>

Fails ==
    /\ records' = Failed(req.ids)
    /\ hook' = [hook EXCEPT !.cooldown = @ \/ req.answer.limited]
    /\ UNCHANGED <<refresh, repairs>>

ApplyAnswer ==
    LET answer == req.answer IN
    \/ answer.kind = "failed" /\ Fails
    \/ answer.kind = "expired" /\ ContextIsGone
    \/ answer.kind = "overview" /\ panel \notin {None, answer.rules} /\ RulesDiffer
    \/ answer.kind = "overview" /\ panel \in {None, answer.rules} /\ ApplyRows

TakeAnswer ==
    /\ req.phase = "answered" /\ req' = NoRequest
    /\ ApplyAnswer
    /\ UNCHANGED <<steam, server, changes, panel, shown>>

\* retry: the cards that are not limited are asked for again.
Retry ==
    /\ \E ids \in SUBSET Variants \ {{}} :
        records' = [v \in Variants |-> IF v \in ids THEN Empty ELSE records[v]]
    /\ hook' = [hook EXCEPT !.used = FALSE] /\ repairs' = 0
    /\ UNCHANGED <<steam, server, req, changes, panel, refresh, shown>>

(***************************************************************************)
(* Time, the page and the panel                                            *)
(***************************************************************************)

\* The price of a card may be asked for again, and what it shows may have expired.
BecomesDue(v) ==
    /\ ~records[v].due /\ records[v].busy = "no"
    /\ \E price \in {records[v].price, None} :
        records' = [records EXCEPT ![v].due = TRUE, ![v].price = price]
    /\ UNCHANGED <<steam, server, req, changes, panel, refresh, shown, hook, repairs>>

CooldownEnds ==
    /\ hook.cooldown /\ hook' = [hook EXCEPT !.cooldown = FALSE]
    /\ UNCHANGED <<steam, server, req, changes, panel, refresh, shown, records, repairs>>

\* visibilityChanged; or the effect is disabled, by a sale or by another view.
HidePage ==
    /\ shown /\ shown' = FALSE
    /\ \/ records' = AllReleased /\ req' = NoRequest /\ hook' = hook
       \/ Dispose
    /\ UNCHANGED <<steam, server, changes, panel, refresh, repairs>>

ShowPage ==
    /\ ~shown /\ shown' = TRUE
    /\ UNCHANGED <<steam, server, req, changes, panel, refresh, records, hook, repairs>>

\* A refresh that failed leaves the effect disabled, as one under way does.
BeginRefresh ==
    /\ refresh' = login /\ Dispose
    /\ UNCHANGED <<steam, server, changes, panel, shown, repairs>>

\* The server keeps the inventory that it loads unless the account was stopped meanwhile.
RefreshEnds ==
    /\ refresh # None /\ refresh' = None
    /\ context' = (context \/ refresh = login)
    /\ NewContext
    /\ UNCHANGED <<steam, login, cache, flights, changes, panel, shown, repairs>>

\* onSettingsChange
TakeRules(value) ==
    /\ panel' = value
    /\ IF value = panel
       THEN hook' = [hook EXCEPT !.fixing = FALSE] /\ UNCHANGED <<records, req>>
       ELSE NewContext

\* The rules are saved here or by another browser.
SaveRules ==
    /\ Change /\ rules' = rules + 1
    /\ \/ TakeRules(rules + 1)
       \/ UNCHANGED <<panel, records, hook, req>>
    /\ UNCHANGED <<wallet, server, refresh, shown, repairs>>

\* The rules are read for the basket, to be edited, or because an overview followed
\* others; to read them may fail.
ReadRules ==
    /\ \/ TakeRules(rules)
       \/ hook' = [hook EXCEPT !.fixing = FALSE] /\ UNCHANGED <<panel, records, req>>
    /\ UNCHANGED <<steam, server, changes, refresh, shown, repairs>>

(***************************************************************************)
(* The specification                                                       *)
(***************************************************************************)

Init ==
    /\ rules = 0 /\ wallet = 0 /\ login = 0 /\ context = FALSE /\ cache = None
    /\ flights = [f \in Flights |-> None] /\ req = NoRequest
    /\ changes = 0 /\ panel = None /\ refresh = 0 /\ shown = TRUE
    /\ records = NoRecords /\ hook = NoHook /\ repairs = 0

Server ==
    \/ ClearAccount \/ Seed \/ ContextExpires \/ WalletExpires \/ WalletChanges
    \/ Overview \/ RequestFails \/ \E f \in Flights : FlightEnds(f)

Browser ==
    \/ Retry \/ CooldownEnds \/ HidePage \/ ShowPage
    \/ BeginRefresh \/ RefreshEnds \/ SaveRules \/ ReadRules
    \/ Pump \/ TakeAnswer
    \/ \E v \in Variants : BecomesDue(v)

Next == Server \/ Browser

\* Requests end at the server and are answered, the request for the rules is, a cooldown
\* ends and the timer of the effect fires.
Fairness ==
    /\ \A f \in Flights : WF_vars(FlightEnds(f))
    /\ WF_vars(Overview) /\ WF_vars(TakeAnswer) /\ WF_vars(Pump)
    /\ WF_vars(hook.fixing /\ ReadRules) /\ WF_vars(CooldownEnds)

Spec == Init /\ [][Next]_vars /\ Fairness

(***************************************************************************)
(* Properties                                                              *)
(***************************************************************************)

Changes == 0..MaxChanges

\* The cards that are shown as being asked for are those of the request in flight, which
\* is one; the flights of the wallet are those that requests wait for.
TypeOK ==
    /\ {rules, wallet, login, changes} \subseteq Changes /\ context \in BOOLEAN
    /\ {panel, refresh} \subseteq Changes \cup {None}
    /\ req.phase \in {"idle", "wallet", "prices", "answered"} /\ req.ids \subseteq Variants
    /\ req.phase = "wallet" => flights[req.flight] # None
    /\ \A v \in Variants : records[v].busy # "no" => v \in req.ids

Estimates == {records[v].price : v \in Variants} \ {None}

\* All estimates that are shown were made by the rules that the panel has, if it has any,
\* and for one wallet.  The server remembers no wallet from before the account was
\* stopped, and answers with none (useInventoryPrices.ts:283-323, price-reader.ts:252,
\* price-overview.ts:168-221).
OneBasis ==
    /\ [](/\ \A e \in Estimates :
               /\ e = [rules |-> hook.rules, wallet |-> hook.wallet]
               /\ panel \in {None, e.rules}
          /\ cache # None => cache.login = login)
    /\ [][req.answer.kind = "none" /\ req'.answer.kind = "overview"
            => req.wallet = None \/ req.wallet.login = login]_vars

Waiting(v) ==
    /\ Enabled /\ shown
    /\ records[v].due \/ records[v].busy # "no"

OneRepair == repairs <= 1

\* Between two successful reads, and until the user asks for it, an expired context is
\* answered by one refresh of the inventory: refreshed snapshots do not loop
\* (useInventoryPrices.ts:73-76).  A card that can be seen does not wait for ever either:
\* it gets its answer, through refused and failed requests, other rules, other wallets
\* and requests that were given up.
PricesSettle ==
    /\ []OneRepair
    /\ \A v \in Variants : Waiting(v) ~> ~Waiting(v)
=============================================================================
