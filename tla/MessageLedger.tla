---------------------------- MODULE MessageLedger ----------------------------
(* What the bridge promises about a dispatch, whatever loops, crashes and    *)
(* networks do: it is queued once, PagerMon is handed only queued            *)
(* dispatches, one is called delivered only when PagerMon has dealt with it, *)
(* and a settled dispatch is never opened again.                             *)
EXTENDS Dispatch

VARIABLES
    status,     \* what the bridge's queue says of each dispatch
    held        \* the dispatches PagerMon has stored or filtered

Init ==
    /\ status = [h \in Dispatches |-> "absent"]
    /\ held = {}

Observe(h) ==
    /\ status[h] = "absent"
    /\ status' = [status EXCEPT ![h] = "pending"]
    /\ UNCHANGED held

Take(h) ==
    /\ status[h] # "absent"
    /\ held' = held \cup {h}
    /\ UNCHANGED status

Deliver(h) ==
    /\ status[h] = "pending"
    /\ h \in held
    /\ status' = [status EXCEPT ![h] = "delivered"]
    /\ UNCHANGED held

GiveUp(h) ==
    /\ status[h] = "pending"
    /\ status' = [status EXCEPT ![h] = "dead_letter"]
    /\ UNCHANGED held

Next == \E h \in Dispatches : Observe(h) \/ Take(h) \/ Deliver(h) \/ GiveUp(h)

Spec == Init /\ [][Next]_<<status, held>>
=============================================================================
