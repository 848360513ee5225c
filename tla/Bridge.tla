------------------------------- MODULE Bridge -------------------------------
(* main.py: the service loop that polls the source page, queues what it      *)
(* finds in the message store and delivers the queue to PagerMon, one POST   *)
(* at a time.  The process may be asked to stop, may be killed or die on an  *)
(* uncaught exception at any point, and is started again by its supervisor;  *)
(* the table survives, everything else in the process does not.              *)
EXTENDS MessageStore, PagerMon

CONSTANTS
    Configs,        \* the configurations the service may be started with
    MostAttempts,   \* no MAX_DELIVERY_ATTEMPTS among them is above this
    BatchLimit,     \* the limit run_service passes to get_pending
    MaxCrashes,     \* bound: crashes in one behaviour
    MaxSignals      \* bound: SIGINT or SIGTERM in one behaviour

ASSUME BridgeAssumption ==
    /\ Configs \subseteq [dry_run : BOOLEAN, max_delivery_attempts : Int]
    /\ MostAttempts \in Nat \ {0}
    /\ \A c \in Configs : c.max_delivery_attempts <= MostAttempts
    /\ BatchLimit \in Nat \ {0}
    /\ MaxCrashes \in Nat
    /\ MaxSignals \in Nat

VARIABLES
    pc,         \* where run_service is
    cfg,        \* the Config it was started with
    stop,       \* _SHUTDOWN_REQUESTED
    page,       \* parsed dispatches not yet handed to insert_if_new
    batch,      \* pending_list, what is left of it
    cur,        \* the dispatch being delivered
    reply,      \* what its POST has brought back
    crashes,    \* crashes so far
    signals,    \* signals so far
    doubts      \* history: POSTs of each dispatch whose outcome the table
                \* does not record as definite

loopVars == <<pc, cfg, stop, page, batch, cur, reply>>
histVars == <<crashes, signals, doubts>>
vars     == <<table, serverVars, loopVars, histVars>>

Locations == {"down",       \* no process
              "top",        \* the while condition and the wait for the poll
              "fetch",      \* in Fetcher.fetch
              "store",      \* in the insert_if_new loop
              "deliver",    \* between two deliveries of pending_list
              "posting"}    \* in PagerMonClient.deliver, or back from it with
                            \* the row not yet updated

TypeOK ==
    /\ StoreTypeOK
    /\ ServerTypeOK
    /\ pc \in Locations
    /\ cfg \in [dry_run : BOOLEAN, max_delivery_attempts : Int]
    /\ stop \in BOOLEAN
    /\ page \subseteq Dispatches
    /\ batch \subseteq Dispatches
    /\ cur \in Dispatches \cup {NoDispatch}
    /\ reply \in Replies
    /\ crashes \in Nat
    /\ signals \in Nat
    /\ doubts \in [Dispatches -> Nat]

NoConfig == [dry_run |-> TRUE, max_delivery_attempts |-> 0]

Init ==
    /\ StoreInit
    /\ ServerInit
    /\ pc = "down"
    /\ cfg = NoConfig
    /\ stop = FALSE
    /\ page = {} /\ batch = {}
    /\ cur = NoDispatch
    /\ reply = Waiting
    /\ crashes = 0 /\ signals = 0
    /\ doubts = [h \in Dispatches |-> 0]

-----------------------------------------------------------------------------
(* Startup: validate_config is asked only of a live configuration.           *)
Accepted(c) == c.dry_run \/ c.max_delivery_attempts >= 1

StartService(c) ==
    /\ pc = "down"
    /\ Accepted(c)
    /\ pc' = "top"
    /\ cfg' = c
    /\ UNCHANGED <<table, serverVars, stop, page, batch, cur, reply, histVars>>

(* The process is gone: nothing it held in memory is left.                   *)
ProcessGone ==
    /\ pc' = "down"
    /\ cfg' = NoConfig
    /\ stop' = FALSE
    /\ page' = {}
    /\ batch' = {}
    /\ cur' = NoDispatch
    /\ reply' = Waiting

(* The while condition: leave through the finally block, or poll.            *)
Shutdown ==
    /\ pc = "top"
    /\ stop
    /\ ProcessGone
    /\ UNCHANGED <<table, serverVars, histVars>>

PollForever ==                      \* mutant: while True
    /\ pc = "top"
    /\ pc' = "fetch"
    /\ UNCHANGED <<table, serverVars, cfg, stop, page, batch, cur, reply, histVars>>

Poll ==
    /\ pc = "top"
    /\ ~ stop
    /\ pc' = "fetch"
    /\ UNCHANGED <<table, serverVars, cfg, stop, page, batch, cur, reply, histVars>>

(* A failed fetch: back off and continue, past the delivery of the queue.    *)
FetchFails ==
    /\ pc = "fetch"
    /\ pc' = "top"
    /\ UNCHANGED <<table, serverVars, cfg, stop, page, batch, cur, reply, histVars>>

(* A fetched page, parsed: any set of dispatches, in any order.              *)
FetchSucceeds ==
    /\ pc = "fetch"
    /\ page' \in SUBSET Dispatches
    /\ pc' = "store"
    /\ UNCHANGED <<table, serverVars, cfg, stop, batch, cur, reply, histVars>>

StoreNext(h) ==
    /\ pc = "store"
    /\ h \in page
    /\ InsertIfNew(h)
    /\ page' = page \ {h}
    /\ UNCHANGED <<serverVars, pc, cfg, stop, batch, cur, reply, histVars>>

(* get_pending, and the skip of the delivery in a dry run.                   *)
DeliveriesIgnoringDryRun == GetPending(BatchLimit)    \* mutant: no dry_run test

Deliveries == IF cfg.dry_run THEN {} ELSE GetPending(BatchLimit)

SelectPending ==
    /\ pc = "store"
    /\ page = {}
    /\ batch' = Deliveries
    /\ pc' = "deliver"
    /\ UNCHANGED <<table, serverVars, cfg, stop, page, cur, reply, histVars>>

-----------------------------------------------------------------------------
(* Delivery of the batch, oldest first.                                      *)
IsNextAny(h) == h \in batch                           \* mutant: no order

IsNext(h) == h \in batch /\ \A g \in batch : ~ Older(g, h)

BeginPost(h) ==
    /\ pc = "deliver"
    /\ ~ stop
    /\ IsNext(h)
    /\ batch' = batch \ {h}
    /\ cur' = h
    /\ reply' = Waiting
    /\ pc' = "posting"
    /\ UNCHANGED <<table, serverVars, cfg, stop, page, histVars>>

EndBatch ==
    /\ pc = "deliver"
    /\ batch = {} \/ stop
    /\ batch' = {}
    /\ pc' = "top"
    /\ UNCHANGED <<table, serverVars, cfg, stop, page, cur, reply, histVars>>

(* PagerMon handles the POST while the bridge waits.                         *)
PagerMonAnswers ==
    /\ pc = "posting"
    /\ reply = Waiting
    /\ \E answer \in Answers, stored \in BOOLEAN :
          /\ Handle(cur, answer, stored)
          /\ reply' = answer
    /\ UNCHANGED <<table, orphans, pc, cfg, stop, page, batch, cur, histVars>>

(* A timeout or a lost connection: before PagerMon has handled the POST, or  *)
(* after, so that its answer is lost.                                        *)
PostFails ==
    /\ pc = "posting"
    /\ reply # NoResponse
    /\ IF reply = Waiting THEN Abandon(cur) ELSE UNCHANGED orphans
    /\ reply' = NoResponse
    /\ UNCHANGED <<table, copies, filtered, pc, cfg, stop, page, batch, cur, histVars>>

(* deliver returns and the row is updated.                                   *)
MarkResult ==
    /\ pc = "posting"
    /\ reply # Waiting
    /\ IF Success(reply)
       THEN MarkDelivered(cur)
       ELSE MarkFailed(cur, ErrorCategory(reply), cfg.max_delivery_attempts)
    /\ doubts' = [doubts EXCEPT ![cur] = IF Unsettled(reply) THEN @ + 1 ELSE @]
    /\ cur' = NoDispatch
    /\ reply' = Waiting
    /\ pc' = "deliver"
    /\ UNCHANGED <<serverVars, cfg, stop, page, batch, crashes, signals>>

-----------------------------------------------------------------------------
(* What the environment does to the loop.                                    *)
Tick ==
    /\ ClockTick
    /\ UNCHANGED <<serverVars, loopVars, histVars>>

Signal ==
    /\ pc # "down"
    /\ ~ stop
    /\ signals < MaxSignals
    /\ stop' = TRUE
    /\ signals' = signals + 1
    /\ UNCHANGED <<table, serverVars, pc, cfg, page, batch, cur, reply, crashes,
                   doubts>>

(* Killed, or ended by an uncaught exception: a POST in hand is left behind  *)
(* with its outcome unrecorded.                                              *)
Crash ==
    /\ pc # "down"
    /\ crashes < MaxCrashes
    /\ crashes' = crashes + 1
    /\ IF pc = "posting" /\ reply = Waiting THEN Abandon(cur) ELSE UNCHANGED orphans
    /\ doubts' = [h \in Dispatches |-> IF h = cur THEN doubts[h] + 1 ELSE doubts[h]]
    /\ ProcessGone
    /\ UNCHANGED <<table, copies, filtered, signals>>

LatePost ==
    /\ \E h \in Dispatches : LateArrival(h) \/ LateLoss(h)
    /\ UNCHANGED <<table, loopVars, histVars>>

Loop ==
    \/ Shutdown \/ Poll \/ FetchFails \/ FetchSucceeds
    \/ \E h \in Dispatches : StoreNext(h)
    \/ SelectPending
    \/ \E h \in Dispatches : BeginPost(h)
    \/ EndBatch \/ PostFails \/ MarkResult

Next ==
    \/ \E c \in Configs : StartService(c)
    \/ Loop
    \/ PagerMonAnswers
    \/ Tick \/ Signal \/ Crash \/ LatePost

Spec == Init /\ [][Next]_vars

(* The loop never blocks for good (every read of its calls has a timeout,    *)
(* and no answer or page is assumed to go on for ever in small pieces), the  *)
(* supervisor restarts it, time passes, and the source page answers again    *)
(* and again.  PagerMon owes nothing: it may refuse or ignore every POST.    *)
Fairness ==
    /\ WF_vars(\E c \in Configs : StartService(c))
    /\ WF_vars(Loop)
    /\ SF_vars(FetchSucceeds)
    /\ WF_vars(Tick)

FairSpec == Spec /\ Fairness

-----------------------------------------------------------------------------
(* Properties.                                                               *)

Settled(h) == table[h].state \in {"delivered", "dead_letter"}

(* get_pending's list is read once and used for up to minutes, while time    *)
(* passes and rows are updated: every message still on it, and the one being *)
(* POSTed, is pending, due and unsettled all that time, the configuration is *)
(* live, and no message is on it twice.                                      *)
BatchStaysFresh ==
    /\ cur \notin batch
    /\ \A h \in batch \cup ({cur} \ {NoDispatch}) :
          /\ table[h].state = "pending"
          /\ table[h].due = 0
          /\ ~ cfg.dry_run

(* A dispatch the store calls delivered is one PagerMon has stored or has    *)
(* filtered, whatever was lost, late or repeated on the way.                 *)
DeliveredIsHeld ==
    \A h \in In("delivered") : copies[h] > 0 \/ h \in filtered

(* PagerMon holds, or is about to be handed, a dispatch more often than once *)
(* only by as many copies as there are POSTs whose outcome the bridge could  *)
(* not learn or could not record: a retry, a restart or a page that shows    *)
(* the dispatch again never repeats one it knows to be settled.              *)
MayBeStored(h) ==
    \/ table[h].state = "delivered"
    \/ cur = h /\ (Success(reply) \/ Unsettled(reply))

DuplicatesExplained ==
    \A h \in Dispatches :
        copies[h] + orphans[h] <= doubts[h] + (IF MayBeStored(h) THEN 1 ELSE 0)

(* README.md:87 of the program, "zero duplicates", as far as it goes: a      *)
(* dispatch each POST of which had an outcome that was learnt and recorded   *)
(* is never in PagerMon twice, and once delivered it is there exactly once,  *)
(* unless PagerMon's filter has dropped it, with no POST still on its way.   *)
ExactlyOnce ==
    \A h \in Dispatches : doubts[h] = 0 =>
        /\ copies[h] + orphans[h] <= 1
        /\ table[h].state = "delivered" /\ h \notin filtered =>
              copies[h] = 1 /\ orphans[h] = 0

(* However long PagerMon fails and however often the service restarts with   *)
(* other limits, a dispatch gets into PagerMon at most MAX_DELIVERY_ATTEMPTS *)
(* times plus once per crash, since the attempt count is durable.            *)
RetryBudget ==
    \A h \in Dispatches : copies[h] + orphans[h] <= MostAttempts + crashes

(* New dispatches reach PagerMon in the order they were first seen: the      *)
(* first POST of one never comes before the first POST of an older one, for  *)
(* any limit of the batch and across retries and restarts.                   *)
Posted(h) == cur = h \/ Settled(h) \/ table[h].attempts > 0 \/ doubts[h] > 0

FirstPostInOrder ==
    \A g, h \in Known : Older(g, h) /\ Posted(h) => Posted(g)

(* A settled row is final: no later page, retry or restart reopens it,       *)
(* recounts it or settles it the other way.                                  *)
SettledIsFinal ==
    [][\A h \in Dispatches : Settled(h) =>
          /\ table'[h].state = table[h].state
          /\ table'[h].attempts = table[h].attempts]_vars

(* The bridge implements the ledger.                                         *)
Ledger == INSTANCE MessageLedger WITH
    status <- [h \in Dispatches |-> table[h].state],
    held   <- {h \in Dispatches : copies[h] > 0} \cup filtered

LedgerSpec == Ledger!Spec

(* ... and the loop that Poller gives its pace: with the rows counted it is  *)
(* the same loop, whose batches keep to the limit and whose counts only move *)
(* when a page is stored or a POST is recorded.                              *)
Counted == INSTANCE ServiceLoop WITH
    at      <- pc,
    pending <- Cardinality(In("pending")),
    settled <- Cardinality(In("delivered") \cup In("dead_letter")),
    todo    <- Cardinality(batch)

LoopSpec == Counted!Spec

(* A batch passes over no row: what is ready and not in it is younger than   *)
(* all of it and finds it full, however retries and restarts have left the   *)
(* queue.                                                                    *)
NoRowPassedOver ==
    [][pc = "store" /\ pc' = "deliver" /\ ~ cfg.dry_run =>
          OldestReady(batch', BatchLimit)]_vars

(* Every POST brings its dispatch nearer to being settled, unless the        *)
(* process dies before the result is recorded, and nothing ever takes one    *)
(* back: what is left to do for a dispatch only shrinks.                     *)
AttemptsLeft(h) ==
    IF Settled(h) THEN 0
    ELSE (MostAttempts - table[h].attempts) + (IF h \in Known THEN 0 ELSE 1)

DispatchAdvances ==
    [][\A h \in Dispatches :
          /\ AttemptsLeft(h)' <= AttemptsLeft(h)
          /\ cur = h /\ cur' # h =>
                AttemptsLeft(h)' < AttemptsLeft(h) \/ crashes' > crashes]_vars

(* Once a shutdown is requested, whatever the loop does brings it nearer its *)
(* end: from anywhere it is a bounded number of steps away, and no signal,   *)
(* answer or late page adds to them.                                         *)
StepsLeft ==
    CASE pc = "down"    -> 0
      [] pc = "top"     -> 1
      [] pc = "deliver" -> 2
      [] pc = "posting" -> IF reply = Waiting THEN 5 ELSE IF reply # NoResponse THEN 4 ELSE 3
      [] pc = "store"   -> Cardinality(page) + 3
      [] pc = "fetch"   -> Cardinality(Dispatches) + 4

ShutdownAdvances ==
    [][stop => \/ UNCHANGED loopVars
               \/ StepsLeft' < StepsLeft /\ (stop' \/ pc' = "down")]_vars

(* Every queued dispatch is settled in the end, however PagerMon behaves:    *)
(* the batch limit and the retry delays starve none.                         *)
EveryDispatchSettles ==
    \A h \in Dispatches : (table[h].state = "pending") ~> Settled(h)

(* A requested shutdown ends the process.                                    *)
ShutdownCompletes == stop ~> (pc = "down")

(* README.md:87 of the program: zero duplicates across service restarts.     *)
NoDuplicates == \A h \in Dispatches : copies[h] <= 1

-----------------------------------------------------------------------------
(* What makes the safety properties inductive.                               *)

(* What each location of the loop says of its local variables.               *)
LoopShape ==
    /\ pc = "posting" <=> cur # NoDispatch
    /\ page # {} => pc = "store"
    /\ batch # {} => pc \in {"deliver", "posting"}
    /\ reply # Waiting => pc = "posting"
    /\ cfg.max_delivery_attempts <= MostAttempts

(* Nothing is known of a dispatch before it is stored.                       *)
AbsentIsUntouched ==
    \A h \in In("absent") :
        table[h] = Absent /\ doubts[h] = 0 /\ orphans[h] = 0

(* A success in hand is backed by PagerMon.                                  *)
SuccessIsHeld ==
    Success(reply) => copies[cur] > 0 \/ cur \in filtered

(* Attempts are counted, and all but a crash's doubts are among them.        *)
AttemptsCounted ==
    \A h \in Dispatches :
        /\ doubts[h] <= table[h].attempts + crashes
        /\ table[h].attempts <= MostAttempts
        /\ table[h].state # "dead_letter" => table[h].attempts < MostAttempts

(* The next rank is above all, an unattempted row is due, and every older    *)
(* dispatch still to be POSTed first is in the batch too.                    *)
QueueInOrder ==
    /\ \A h \in Known : table[h].seen < Cardinality(Known)
    /\ \A h \in Dispatches : table[h].attempts = 0 => table[h].due = 0
    /\ \A h \in batch \cup ({cur} \ {NoDispatch}), g \in Known :
          Older(g, h) /\ ~ Posted(g) => g \in batch

Accounts ==
    /\ TypeOK /\ LoopShape /\ BatchStaysFresh /\ AbsentIsUntouched
    /\ AttemptsCounted /\ DuplicatesExplained

Order == QueueInOrder /\ FirstPostInOrder

HeldInv == SuccessIsHeld /\ DeliveredIsHeld
=============================================================================
