--------------------------- MODULE FetchContract ---------------------------
(* What Fetcher.fetch promises its caller, by its docstring and the counter  *)
(* behind backoff_seconds: every call is answered, and the failures counted  *)
(* are exactly those since the last success or the start of the process.     *)
EXTENDS Integers

CONSTANT MaxFailures    \* bound: consecutive failures told apart

VARIABLES
    busy,       \* is a fetch in progress?
    failures,   \* the failures since the last success
    last        \* what the last fetch returned

vars == <<busy, failures, last>>

Init == ~ busy /\ failures = 0 /\ last = "none"

Begin == ~ busy /\ busy' /\ UNCHANGED <<failures, last>>

Succeed == busy /\ ~ busy' /\ failures' = 0 /\ last' = "ok"

Fail ==
    /\ busy /\ ~ busy'
    /\ failures' = IF failures < MaxFailures THEN failures + 1 ELSE failures
    /\ last' = "error"

Restart == ~ busy /\ ~ busy' /\ failures' = 0 /\ last' = "none"

Next == Begin \/ Succeed \/ Fail \/ Restart

Spec == Init /\ [][Next]_vars
=============================================================================
