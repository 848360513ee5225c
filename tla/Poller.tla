------------------------------- MODULE Poller -------------------------------
(* The pace of the service loop, which Bridge leaves out: main.py's wait for *)
(* the next poll, fetcher.py's backoff, how long a stop takes, and what the  *)
(* loop publishes for the web UI on the way.  Time is counted in seconds; a  *)
(* step takes its time at once.  That there is a longest fetch and a longest *)
(* POST is an assumption: the client's timeouts bound each read, not a call. *)
EXTENDS Integers, FiniteSetsExt

CONSTANTS
    PollInterval,   \* POLL_INTERVAL_SECONDS; any integer, in a dry run
    BaseBackoff,    \* _BASE_BACKOFF_SECONDS
    MaxBackoff,     \* _MAX_BACKOFF_SECONDS
    SleepCap,       \* the 60 s run_service sleeps at most
    BatchLimit,     \* the limit of get_pending
    FetchTimes,     \* how long a fetch may take
    PostTimes,      \* how long a POST may take
    MaxFailures,    \* bound: consecutive failures told apart
    MaxRows         \* bound: rows in the table

ASSUME PollerAssumption ==
    /\ PollInterval \in Int
    /\ {BaseBackoff, MaxBackoff, SleepCap, BatchLimit} \subseteq Nat \ {0}
    /\ FetchTimes \subseteq Nat /\ PostTimes \subseteq Nat
    /\ \E d \in FetchTimes : \A e \in FetchTimes : e <= d
    /\ \E d \in PostTimes : \A e \in PostTimes : e <= d
    /\ MaxFailures \in Nat \ {0} /\ MaxRows \in Nat

VARIABLES
    at,         \* where run_service is
    polled,     \* last_poll_time > 0
    since,      \* time since last_poll_time
    failures,   \* _consecutive_failures
    pending,    \* rows get_counts counts as pending
    settled,    \* rows it counts as delivered or dead_letter
    todo,       \* what is left of pending_list
    found,      \* len(messages)
    shared,     \* _shared_state: counts, last_fetch_status, ..._messages_found
    stop,       \* _SHUTDOWN_REQUESTED
    gap,        \* history: time between the last two fetches, 0 before
    misses,     \* history: failed fetches in a row
    late        \* history: time since the signal

table == <<pending, settled, todo>>
hist  == <<gap, misses>>
vars  == <<at, polled, since, failures, table, found, shared, stop, hist, late>>

NoCount == -1       \* last_fetch_messages_found is None

Places == {"top", "fetch", "failed", "parsed", "stored", "deliver", "post", "ended"}

TypeOK ==
    /\ at \in Places
    /\ polled \in BOOLEAN /\ stop \in BOOLEAN
    /\ {since, failures, pending, settled, todo, gap, misses, late} \subseteq Nat
    /\ found \in Nat
    /\ shared \in [status : {"none", "ok", "error"}, found : Nat \cup {NoCount},
                   pending : Nat, settled : Nat]

NoStatus == [status |-> "none", found |-> NoCount, pending |-> 0, settled |-> 0]

Init ==
    /\ at = "top"
    /\ pending = 0 /\ settled = 0
    /\ polled = FALSE /\ since = 0 /\ failures = 0 /\ todo = 0 /\ found = 0
    /\ shared = NoStatus /\ stop = FALSE
    /\ gap = 0 /\ misses = 0 /\ late = 0

Takes(d) ==         \* the step lasts d seconds
    /\ since' = since + d
    /\ late' = IF stop THEN late + d ELSE 0

-----------------------------------------------------------------------------
(* Fetcher.                                                                  *)

(* backoff_seconds, a quarter of jitter at most.                             *)
Backoff(n) == Min({BaseBackoff * 2 ^ (n - 1), MaxBackoff})

Backoffs(n) == {Backoff(n), Backoff(n) + Backoff(n) \div 4}

(* The failing returns of fetch, and the success.                            *)
CountFailureNot == failures' = failures     \* mutant: a return that forgets it

CountFailure == failures' = Min({failures + 1, MaxFailures})

FetchFails ==
    /\ at = "fetch"
    /\ \E d \in FetchTimes : Takes(d)
    /\ CountFailure
    /\ misses' = Min({misses + 1, MaxFailures})
    /\ shared' = [status |-> "error", found |-> NoCount,
                  pending |-> pending, settled |-> settled]
    /\ at' = "failed"
    /\ UNCHANGED <<polled, table, found, stop, gap>>

(* fetch raises, through run_service and its finally block.                  *)
FetchDies ==
    /\ at = "fetch"
    /\ \E d \in FetchTimes : Takes(d)
    /\ at' = "ended"
    /\ UNCHANGED <<polled, failures, table, found, shared, stop, hist>>

FetchSucceeds ==
    /\ at = "fetch"
    /\ \E d \in FetchTimes : Takes(d)
    /\ failures' = 0
    /\ misses' = 0
    /\ shared' = [status |-> "ok", found |-> NoCount,
                  pending |-> pending, settled |-> settled]
    /\ at' = "parsed"
    /\ UNCHANGED <<polled, table, found, stop, gap>>

-----------------------------------------------------------------------------
(* run_service.                                                              *)

(* The while condition and the wait, which looks at the flag every 0.5 s.    *)
StartFetch ==
    /\ at = "top" /\ ~ stop
    /\ gap' = IF polled THEN Max({since, PollInterval}) ELSE 0
    /\ polled' = TRUE
    /\ since' = 0
    /\ at' = "fetch"
    /\ UNCHANGED <<failures, table, found, shared, stop, misses, late>>

(* time.sleep(min(backoff, 60.0)), which nothing interrupts.                 *)
SleepUncapped(backoff) == backoff                  \* mutant: no min

Sleep(backoff) == Min({backoff, SleepCap})

BackOff ==
    /\ at = "failed"
    /\ IF failures = 0 THEN Takes(0) ELSE \E b \in Backoffs(failures) : Takes(Sleep(b))
    /\ at' = "top"
    /\ UNCHANGED <<polled, failures, table, found, shared, stop, hist>>

(* parse_messages and the insert loop: n dispatches, some of them new, the   *)
(* others in the table.                                                      *)
Store ==
    /\ at = "parsed"
    /\ \E n \in 0 .. MaxRows, new \in 0 .. MaxRows :
          /\ new <= n /\ n - new <= pending + settled
          /\ pending + settled + new <= MaxRows
          /\ found' = n
          /\ pending' = pending + new
    /\ at' = "stored"
    /\ UNCHANGED <<polled, since, failures, settled, todo, shared, stop, hist, late>>

(* The second update of the shared state, and get_pending.                   *)
PublishNoCounts ==                  \* mutant: the counts are left as they were
    shared' = [shared EXCEPT !.found = found]

PublishAdding ==                    \* mutant: the page's dispatches are added on
    shared' = [status |-> "ok", found |-> found,
               pending |-> shared.pending + found, settled |-> shared.settled]

Publish == shared' = [status |-> "ok", found |-> found,
                      pending |-> pending, settled |-> settled]

BatchesUnlimited == 0 .. pending    \* mutant: no limit

Batches == 0 .. Min({pending, BatchLimit})      \* rows may be put off

SelectPending ==
    /\ at = "stored"
    /\ Publish
    /\ todo' \in Batches
    /\ at' = "deliver"
    /\ UNCHANGED <<polled, since, failures, pending, settled, found, stop, hist, late>>

(* One delivery, in which the flag is looked at only before the POST: the    *)
(* row is settled or put off.                                                *)
BeginPostPastEnd ==                 \* mutant: one turn too many
    /\ at = "deliver"
    /\ ~ stop
    /\ at' = "post"
    /\ todo' = todo - 1
    /\ UNCHANGED <<polled, since, failures, pending, settled, found, shared, stop,
                   hist, late>>

BeginPost ==
    /\ at = "deliver"
    /\ ~ stop
    /\ todo > 0
    /\ at' = "post"
    /\ todo' = todo - 1
    /\ UNCHANGED <<polled, since, failures, pending, settled, found, shared, stop,
                   hist, late>>

Deliver ==
    /\ at = "post"
    /\ \E d \in PostTimes : Takes(d)
    /\ \E done \in 0 .. 1 : pending' = pending - done /\ settled' = settled + done
    /\ at' = "deliver"
    /\ UNCHANGED <<polled, failures, todo, found, shared, stop, hist>>

EndBatch ==
    /\ at = "deliver"
    /\ todo = 0 \/ stop
    /\ todo' = 0
    /\ at' = "top"
    /\ UNCHANGED <<polled, since, failures, pending, settled, found, shared, stop,
                   hist, late>>

Shutdown ==
    /\ at = "top" /\ stop
    /\ at' = "ended"
    /\ UNCHANGED <<polled, since, failures, table, found, shared, stop, hist, late>>

Signal ==
    /\ at # "ended"
    /\ ~ stop
    /\ stop' = TRUE
    /\ UNCHANGED <<at, polled, since, failures, table, found, shared, hist, late>>

(* The supervisor starts the service again: only the table is left.          *)
Restart ==
    /\ at = "ended"
    /\ at' = "top"
    /\ polled' = FALSE /\ since' = 0 /\ failures' = 0 /\ todo' = 0 /\ found' = 0
    /\ shared' = NoStatus /\ stop' = FALSE
    /\ gap' = 0 /\ misses' = 0 /\ late' = 0
    /\ UNCHANGED <<pending, settled>>

Next ==
    \/ StartFetch \/ FetchFails \/ FetchDies \/ FetchSucceeds \/ BackOff \/ Store
    \/ SelectPending \/ BeginPost \/ Deliver \/ EndBatch \/ Shutdown \/ Signal \/ Restart

Spec == Init /\ [][Next]_vars

-----------------------------------------------------------------------------
(* Properties.                                                               *)

LongestFetch == Max(FetchTimes)
LongestPost  == Max(PostTimes)

(* The source is never fetched sooner than the interval and, after n misses  *)
(* in a row, than the smaller of their backoff and the cap, however long a   *)
(* fetch or a batch took.                                                    *)
SourceIsSpared ==
    at = "fetch" /\ gap > 0 =>
        /\ gap >= PollInterval
        /\ misses > 0 => gap >= Min({Backoff(misses), SleepCap})

(* After an outage of any length the next fetch is never further away than   *)
(* the cap allows, so dispatches are not missed for the whole of a backoff.  *)
OutageEndsSoon ==
    at = "fetch" /\ misses > 0 =>
        gap <= Max({PollInterval, LongestFetch + SleepCap})

(* The page is looked at again within the interval, a fetch and its sleep,   *)
(* or a fetch and one POST for every row of a batch: a dispatch it shows for *)
(* longer is never missed, whatever the source and PagerMon do.              *)
SourceIsWatched ==
    at = "fetch" =>
        gap <= Max({PollInterval, LongestFetch + SleepCap,
                    LongestFetch + BatchLimit * LongestPost})

(* A stop takes at most a fetch and the sleep after it, or one POST: never a *)
(* batch, a poll interval or a full backoff.                                 *)
StopIsPrompt ==
    late <= Max({LongestFetch + SleepCap, LongestPost})

(* What the web UI falls back on: once published, the counts are the table's *)
(* until deliveries move rows, and never count a row twice or miss one.      *)
StatsAreRecent ==
    /\ at \in {"failed", "parsed"} =>
          shared.pending = pending /\ shared.settled = settled
    /\ at \in {"deliver", "post"} \/ (at \in {"top", "fetch", "ended"} /\ shared.status # "none") =>
          /\ shared.pending + shared.settled = pending + settled
          /\ shared.settled <= settled

(* The loop whose pace this is: Bridge's, with its rows counted.             *)
Loop == INSTANCE ServiceLoop WITH
    at   <- CASE at = "failed" -> "top" [] at \in {"parsed", "stored"} -> "store"
              [] at = "post" -> "posting" [] at = "ended" -> "down" [] OTHER -> at,
    stop <- stop /\ at # "ended"

LoopSpec == Loop!Spec
=============================================================================
