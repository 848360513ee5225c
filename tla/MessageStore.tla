---------------------------- MODULE MessageStore ----------------------------
(* store.py: the SQLite table of dispatches and the operations on it.  Every *)
(* operation is one autocommitted statement or one BEGIN..COMMIT block, so   *)
(* each is one atomic action on the table, which survives a crash.           *)
(*                                                                           *)
(* Wall-clock columns are kept as what the queries compare: first_seen_utc   *)
(* as a rank (seen), next_attempt_utc as the ticks left until it (due, 0     *)
(* once it has passed).  One tick is one second.                             *)
EXTENDS Dispatch

CONSTANT BackoffCap     \* the 300 s cap of the retry delay

ASSUME BackoffAssumption == BackoffCap \in Nat \ {0}

VARIABLE table          \* the messages table, a row per dispatch

(* last_error_category: NULL, or a category DeliveryResult lists.            *)
ErrorCategories == {"none", "auth", "format", "network", "server"}

Row == [state    : {"absent", "pending", "delivered", "dead_letter"},
        attempts : Nat,             \* attempt_count
        seen     : Nat,             \* rank of first_seen_utc
        due      : Nat,             \* ticks until next_attempt_utc
        error    : ErrorCategories] \* last_error_category

Absent == [state |-> "absent", attempts |-> 0, seen |-> 0, due |-> 0,
           error |-> "none"]

StoreTypeOK == table \in [Dispatches -> Row]

StoreInit == table = [h \in Dispatches |-> Absent]

In(state) == {h \in Dispatches : table[h].state = state}

Known == Dispatches \ In("absent")

Older(g, h) == table[g].seen < table[h].seen

(* insert_if_new: a hash that is already a key is left as it is, whatever    *)
(* its state.                                                                *)
InsertIfNewForgetful(h) ==          \* mutant: a settled hash counts as new
    IF h \in In("pending")
    THEN UNCHANGED table
    ELSE table' = [table EXCEPT ![h] =
            [Absent EXCEPT !.state = "pending", !.seen = Cardinality(Known)]]

InsertIfNew(h) ==
    IF h \in Known
    THEN UNCHANGED table
    ELSE table' = [table EXCEPT ![h] =
            [Absent EXCEPT !.state = "pending", !.seen = Cardinality(Known)]]

(* get_pending: the oldest due pending rows, at most limit of them.          *)
ReadyIgnoringDue == In("pending")                     \* mutant: no time filter
ReadyIgnoringState == {h \in Known : table[h].due = 0} \* mutant: no state filter

Ready == {h \in In("pending") : table[h].due = 0}

GetPendingUnlimited(limit) == Ready                   \* mutant: no LIMIT

GetPendingNewestFirst(limit) ==     \* mutant: ORDER BY ... DESC
    {h \in Ready : Cardinality({g \in Ready : Older(h, g)}) < limit}

GetPending(limit) ==
    {h \in Ready : Cardinality({g \in Ready : Older(g, h)}) < limit}

(* mark_delivered: no condition on the row's state, no other column reset.   *)
MarkDelivered(h) == table' = [table EXCEPT ![h].state = "delivered"]

(* mark_failed: the attempt is counted, then the row is dead-lettered or put *)
(* off.  The delay is min(2 ** n, 300) s plus up to a quarter of jitter.     *)
Backoff(n) == IF 2 ^ n < BackoffCap THEN 2 ^ n ELSE BackoffCap

RetryDelays(n) ==
    {d \in 0 .. 2 * BackoffCap : Backoff(n) <= d /\ 4 * d < 5 * Backoff(n) + 4}

OutOfAttemptsLate(n, max) == n > max                  \* mutant: off by one

OutOfAttempts(n, max) == n >= max

MarkFailedUncounted(h, category, max) ==    \* mutant: attempt_count not written
    \E d \in RetryDelays(table[h].attempts + 1) :
       table' = [table EXCEPT ![h].due = d, ![h].error = category]

MarkFailed(h, category, max) ==
    LET n       == table[h].attempts + 1
        counted == [table[h] EXCEPT !.attempts = n, !.error = category]
    IN  IF h \notin Known
        THEN UNCHANGED table
        ELSE \/ /\ OutOfAttempts(n, max)
                /\ table' = [table EXCEPT ![h] =
                               [counted EXCEPT !.state = "dead_letter"]]
             \/ /\ ~ OutOfAttempts(n, max)
                /\ \E d \in RetryDelays(n) :
                      table' = [table EXCEPT ![h] = [counted EXCEPT !.due = d]]

(* One second of wall-clock time passes.                                     *)
ClockTick ==
    /\ \E h \in Dispatches : table[h].due > 0
    /\ table' = [h \in Dispatches |->
          [table[h] EXCEPT !.due = IF @ > 0 THEN @ - 1 ELSE 0]]

-----------------------------------------------------------------------------
(* No two rows have the same rank, so that "the oldest" are well defined.    *)
RanksDiffer ==
    \A g, h \in Known : g # h => table[g].seen # table[h].seen

(* What get_pending promises: the oldest of the ready rows, and no row left  *)
(* out unless the batch is full.                                             *)
OldestReady(rows, limit) ==
    /\ rows \subseteq Ready
    /\ Cardinality(rows) <= limit
    /\ \A h \in Ready \ rows :
          /\ Cardinality(rows) = limit
          /\ \A g \in rows : Older(g, h)
=============================================================================
