---------------------------- MODULE ServiceLoop ----------------------------
(* run_service without its data: where the loop is, how many rows of the     *)
(* table are pending and how many settled, and what is left of the batch.    *)
(* Bridge, which has the rows and no time, and Poller, which has the time    *)
(* and no rows, are both to be views of this one loop.                       *)
EXTENDS Integers

CONSTANT BatchLimit     \* the limit run_service passes to get_pending

VARIABLES
    at,         \* "down", "top", "fetch", "store", "deliver", "posting"
    pending,    \* rows that are pending
    settled,    \* rows that are delivered or dead-lettered
    todo,       \* rows of pending_list still to come
    stop        \* _SHUTDOWN_REQUESTED

vars == <<at, pending, settled, todo, stop>>

Init ==
    /\ at \in {"down", "top"}
    /\ pending = 0 /\ settled = 0 /\ todo = 0
    /\ stop = FALSE

Go(from, to) == at = from /\ at' = to

Start == Go("down", "top") /\ UNCHANGED <<pending, settled, todo, stop>>

Fetch == ~ stop /\ Go("top", "fetch") /\ UNCHANGED <<pending, settled, todo, stop>>

(* A failed fetch leads back past the delivery, a good one to the table.     *)
Fetched ==
    /\ Go("fetch", "top") \/ Go("fetch", "store")
    /\ UNCHANGED <<pending, settled, todo, stop>>

(* Rows come in as pending, and only while a page is being stored.           *)
Insert ==
    /\ at = "store"
    /\ pending' >= pending
    /\ UNCHANGED <<at, settled, todo, stop>>

(* A batch is no longer than the limit, and drawn from what is pending.      *)
Select ==
    /\ Go("store", "deliver")
    /\ todo' \in 0 .. BatchLimit
    /\ todo' <= pending
    /\ UNCHANGED <<pending, settled, stop>>

Post ==
    /\ ~ stop
    /\ todo > 0
    /\ Go("deliver", "posting")
    /\ todo' = todo - 1
    /\ UNCHANGED <<pending, settled, stop>>

(* One POST settles at most the one row it is about.                         *)
Record ==
    /\ Go("posting", "deliver")
    /\ \/ UNCHANGED <<pending, settled>>
       \/ pending' = pending - 1 /\ settled' = settled + 1
    /\ UNCHANGED <<todo, stop>>

EndBatch ==
    /\ todo = 0 \/ stop
    /\ Go("deliver", "top")
    /\ todo' = 0
    /\ UNCHANGED <<pending, settled, stop>>

Signal ==
    /\ at # "down" /\ ~ stop
    /\ stop' = TRUE
    /\ UNCHANGED <<at, pending, settled, todo>>

(* The process ends, asked to or not: the table is what it was.              *)
End ==
    /\ at # "down" /\ at' = "down"
    /\ todo' = 0 /\ stop' = FALSE
    /\ UNCHANGED <<pending, settled>>

Next ==
    \/ Start \/ Fetch \/ Fetched \/ Insert \/ Select \/ Post \/ Record \/ EndBatch
    \/ Signal \/ End

Spec == Init /\ [][Next]_vars
=============================================================================
