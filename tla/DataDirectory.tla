--------------------------- MODULE DataDirectory ---------------------------
(***************************************************************************)
(* What the guard of the data directory promises (docs/OPERATIONS.md, Back *)
(* Up and Restore): one process owns the directory; whoever uses the       *)
(* database owns the directory and finds one whole database, which stays   *)
(* what it is while it is used; and nobody owns the directory again before *)
(* a replacement that was begun is settled: the database is the one before *)
(* it or a new one.                                                        *)
(***************************************************************************)
EXTENDS Integers

CONSTANTS
    Processes,
    MaxVersion,     \* databases are numbered in the order in which they are made
    None,
    Torn            \* the files do not belong to one database

VARIABLES
    owner,          \* the process that owns the directory
    user,           \* the process that has the database open
    content,        \* the database in the directory; 0 before there is any
    before          \* the one that was last used or settled

vars == <<owner, user, content, before>>

Init == owner = None /\ user = None /\ content = 0 /\ before = 0

Newer == (before + 1)..MaxVersion

Own(p) ==
    /\ owner = None /\ content = before
    /\ owner' = p
    /\ UNCHANGED <<user, content, before>>

\* The first use of an empty directory makes its database.
Use(p) ==
    /\ owner = p /\ user = None /\ content = before
    /\ user' = p
    /\ content' \in IF content = 0 THEN Newer ELSE {content}
    /\ before' = content'
    /\ UNCHANGED owner

EndUse(p) ==
    /\ user = p
    /\ user' = None
    /\ UNCHANGED <<owner, content, before>>

\* A process that has the database open does not let go of the directory and go on.
Disown(p) ==
    /\ owner = p /\ user # p
    /\ owner' = None
    /\ UNCHANGED <<user, content, before>>

Die(p) ==
    /\ owner = p
    /\ owner' = None
    /\ user' = IF user = p THEN None ELSE user
    /\ UNCHANGED <<content, before>>

Replace(p) ==
    /\ owner = p /\ user = None
    /\ content' \in {Torn, before} \cup Newer
    /\ UNCHANGED <<owner, user, before>>

Settle(p) ==
    /\ owner = p /\ user = None /\ content # Torn
    /\ before' = content
    /\ UNCHANGED <<owner, user, content>>

\* An operator, when nobody owns the directory.
Repair ==
    /\ owner = None
    /\ content' \in IF content = Torn THEN {before} ELSE {before, content}
    /\ before' = content'
    /\ UNCHANGED <<owner, user>>

Next ==
    \/ \E p \in Processes :
        Own(p) \/ Use(p) \/ EndUse(p) \/ Disown(p) \/ Die(p) \/ Replace(p) \/ Settle(p)
    \/ Repair

Spec == Init /\ [][Next]_vars
=============================================================================
