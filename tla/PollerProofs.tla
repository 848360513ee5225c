---------------------------- MODULE PollerProofs ----------------------------
(* Proofs about Poller, for any constants of the service and any times a     *)
(* fetch or a POST may take: every invariant the run dashboard has of it.    *)
EXTENDS Poller, FiniteSetTheorems, TLAPS

-----------------------------------------------------------------------------
(* Arithmetic.                                                               *)

(* The larger and the smaller of two numbers.                                *)
LEMMA MaxTwo ==
    ASSUME NEW a \in Int, NEW b \in Int
    PROVE  Max({a, b}) = IF a >= b THEN a ELSE b
<1>1. PICK x \in {a, b} : \A y \in {a, b} : x >= y
  OBVIOUS
<1>. QED BY <1>1 DEF Max

LEMMA MinTwo ==
    ASSUME NEW a \in Int, NEW b \in Int
    PROVE  Min({a, b}) = IF a <= b THEN a ELSE b
<1>1. PICK x \in {a, b} : \A y \in {a, b} : x <= y
  OBVIOUS
<1>. QED BY <1>1 DEF Min

LEMMA MaxThree ==
    ASSUME NEW a \in Int, NEW b \in Int, NEW c \in Int
    PROVE  Max({a, b, c}) \in {a, b, c} /\ \A x \in {a, b, c} : x <= Max({a, b, c})
<1>1. \E d \in {a, b, c} : \A x \in {a, b, c} : d >= x
  <2>1. CASE a >= b /\ a >= c
    BY <2>1
  <2>2. CASE b >= a /\ b >= c
    BY <2>2
  <2>3. CASE c >= a /\ c >= b
    BY <2>3
  <2>. QED BY <2>1, <2>2, <2>3
<1>2. Max({a, b, c}) \in {a, b, c} /\ \A x \in {a, b, c} : Max({a, b, c}) >= x
  BY <1>1 DEF Max
<1>. QED BY <1>2

(* A set of numbers with a largest element has it as its Max.                *)
LEMMA MaxOfSet ==
    ASSUME NEW S \in SUBSET Nat, \E d \in S : \A e \in S : e <= d
    PROVE  Max(S) \in S /\ \A e \in S : e <= Max(S)
<1>1. PICK d \in S : \A e \in S : d >= e
  OBVIOUS
<1>2. Max(S) \in S /\ \A e \in S : Max(S) >= e
  BY <1>1 DEF Max
<1>. QED BY <1>2

(* A power of two counts the subsets of a set.                               *)
LEMMA PowerOfTwo == \A n \in Nat : 2 ^ n \in Nat
<1>. SUFFICES ASSUME NEW n \in Nat PROVE 2 ^ n \in Nat
  OBVIOUS
<1>1. IsFiniteSet(1 .. n) /\ Cardinality(1 .. n) = n
  BY FS_Interval
<1>2. IsFiniteSet(SUBSET (1 .. n)) /\ Cardinality(SUBSET (1 .. n)) = 2 ^ n
  BY <1>1, FS_SUBSET
<1>. QED BY <1>2, FS_CardinalityType

(* A backoff is a number, and jitter only adds to it.                        *)
LEMMA BackoffType ==
    ASSUME NEW n \in Nat \ {0}
    PROVE  Backoff(n) \in Nat /\ \A b \in Backoffs(n) : b \in Nat /\ b >= Backoff(n)
<1>1. 2 ^ (n - 1) \in Nat
  BY PowerOfTwo
<1>2. BaseBackoff * 2 ^ (n - 1) \in Nat /\ MaxBackoff \in Nat
  <2>. DEFINE p == 2 ^ (n - 1)
  <2>1. p \in Nat
    BY <1>1
  <2>. HIDE DEF p
  <2>2. BaseBackoff * p \in Nat /\ MaxBackoff \in Nat
    BY <2>1, PollerAssumption
  <2>. QED BY <2>2 DEF p
<1>3. Backoff(n) \in Nat
  BY <1>2, MinTwo DEF Backoff
<1>. QED BY <1>3 DEF Backoffs

(* The sleep is capped.                                                      *)
LEMMA SleepType ==
    ASSUME NEW b \in Nat
    PROVE  Sleep(b) \in Nat /\ Sleep(b) <= SleepCap
BY PollerAssumption, MinTwo DEF Sleep

(* No fetch and no POST takes longer than the longest.                       *)
LEMMA LongestTimes ==
    /\ LongestFetch \in Nat /\ \A d \in FetchTimes : d \in Nat /\ d <= LongestFetch
    /\ LongestPost \in Nat /\ \A d \in PostTimes : d \in Nat /\ d <= LongestPost
BY PollerAssumption, MaxOfSet DEF LongestFetch, LongestPost

(* What n rows of at most m take, at t each.                                 *)
LEMMA RowsTime ==
    ASSUME NEW n \in Nat, NEW m \in Nat, n <= m, NEW t \in Nat
    PROVE  /\ n * t \in Nat /\ m * t \in Nat /\ n * t <= m * t
           /\ (n + 1) * t = n * t + t
<1>1. PICK k \in Nat : m = n + k
  <2>1. m - n \in Nat /\ m = n + (m - n)
    OBVIOUS
  <2>. QED BY <2>1
<1>2. m * t = n * t + k * t /\ k * t \in Nat /\ n * t \in Nat
  BY <1>1
<1>. QED BY <1>2

-----------------------------------------------------------------------------
(* The parts of the invariant.                                               *)

(* What is left of a batch is pending, and a page in hand was fetched.       *)
BatchInv ==
    /\ at \in {"parsed", "stored", "deliver", "post"} => shared.status = "ok"
    /\ at = "deliver" => todo <= pending
    /\ at = "post" => todo + 1 <= pending

(* The loop counts its misses, and has a backoff after each.                 *)
CountInv ==
    /\ misses = failures /\ failures <= MaxFailures
    /\ at = "failed" => failures > 0
    /\ at \in {"parsed", "stored", "deliver", "post"} => misses = 0
    /\ misses > 0 \/ at = "fetch" => polled

(* Time since the last fetch began.                                          *)
PaceInv ==
    /\ at = "fetch" => since = 0
    /\ at = "failed" => since <= LongestFetch
    /\ at = "top" /\ misses > 0 =>
          /\ since >= Min({Backoff(misses), SleepCap})
          /\ since <= LongestFetch + SleepCap
    /\ SourceIsSpared
    /\ OutageEndsSoon

(* Time since the last fetch began, a batch included.                        *)
Span == LongestFetch + BatchLimit * LongestPost

WatchInv ==
    /\ at \in {"failed", "parsed", "stored"} => since <= LongestFetch
    /\ at = "deliver" => since + todo * LongestPost <= Span
    /\ at = "post" => since + (todo + 1) * LongestPost <= Span
    /\ at = "top" /\ polled => since <= LongestFetch + SleepCap \/ since <= Span
    /\ SourceIsWatched

(* Time since the signal.                                                    *)
LateInv ==
    /\ ~ stop \/ at \in {"fetch", "post"} => late = 0
    /\ at \in {"failed", "parsed", "stored"} => late <= LongestFetch
    /\ at = "deliver" => late <= LongestFetch \/ late <= LongestPost
    /\ at \in {"top", "ended"} => late <= LongestFetch + SleepCap \/ late <= LongestPost

-----------------------------------------------------------------------------
(* Every step keeps each of them.                                            *)

(* What the web UI shows before the first fetch.                             *)
LEMMA NoStatusType ==
    NoStatus \in [status : {"none", "ok", "error"}, found : Nat \cup {NoCount},
                 pending : Nat, settled : Nat]
BY DEF NoStatus

(* A batch is at most the limit and what is pending.                         *)
LEMMA BatchesType ==
    ASSUME TypeOK, NEW n \in Batches
    PROVE  n \in Nat /\ n <= pending /\ n <= BatchLimit
BY MinTwo, PollerAssumption DEF Batches, TypeOK

(* Time only passes.                                                         *)
LEMMA TakesType ==
    ASSUME TypeOK, NEW d \in Nat, Takes(d)
    PROVE  since' \in Nat /\ late' \in Nat
BY DEF Takes, TypeOK

(* The types.                                                                *)
LEMMA TypeStep == TypeOK /\ BatchInv /\ [Next]_vars => TypeOK'
<1>. SUFFICES ASSUME TypeOK, BatchInv, [Next]_vars PROVE TypeOK'
  OBVIOUS
<1>1. CASE StartFetch
  <2>1. gap' \in Nat
    BY <1>1, MaxTwo, PollerAssumption DEF StartFetch, TypeOK
  <2>. QED BY <1>1, <2>1 DEF StartFetch, TypeOK, Places, table, hist
<1>2. CASE FetchFails
  <2>1. since' \in Nat /\ late' \in Nat
    BY <1>2, TakesType, PollerAssumption DEF FetchFails
  <2>2. failures' \in Nat /\ misses' \in Nat
    BY <1>2, MinTwo, PollerAssumption DEF FetchFails, CountFailure, TypeOK
  <2>. QED BY <1>2, <2>1, <2>2 DEF FetchFails, TypeOK, Places, table
<1>3. CASE FetchSucceeds
  <2>1. since' \in Nat /\ late' \in Nat
    BY <1>3, TakesType, PollerAssumption DEF FetchSucceeds
  <2>. QED BY <1>3, <2>1 DEF FetchSucceeds, TypeOK, Places, table
<1>4. CASE BackOff
  <2>1. since' \in Nat /\ late' \in Nat
    BY <1>4, TakesType, BackoffType, SleepType DEF BackOff, TypeOK
  <2>. QED BY <1>4, <2>1 DEF BackOff, TypeOK, Places, table, hist
<1>5. CASE Store
  BY <1>5 DEF Store, TypeOK, Places, table, hist
<1>6. CASE SelectPending
  <2>1. todo' \in Nat
    BY <1>6, BatchesType DEF SelectPending
  <2>. QED BY <1>6, <2>1 DEF SelectPending, Publish, TypeOK, Places, hist
<1>7. CASE BeginPost
  BY <1>7 DEF BeginPost, TypeOK, Places, hist
<1>8. CASE Deliver
  <2>1. since' \in Nat /\ late' \in Nat
    BY <1>8, TakesType, PollerAssumption DEF Deliver
  <2>2. pending' \in Nat /\ settled' \in Nat
    BY <1>8 DEF Deliver, BatchInv, TypeOK
  <2>. QED BY <1>8, <2>1, <2>2 DEF Deliver, TypeOK, Places, hist
<1>9. CASE EndBatch
  BY <1>9 DEF EndBatch, TypeOK, Places, table, hist
<1>10. CASE Shutdown
  BY <1>10 DEF Shutdown, TypeOK, Places, table, hist
<1>11. CASE Signal
  BY <1>11 DEF Signal, TypeOK, Places, table, hist
<1>12. CASE Restart
  <2>1. shared' = NoStatus
    BY <1>12 DEF Restart
  <2>2. ({since, failures, pending, settled, todo, gap, misses, late} \subseteq Nat)'
    BY <1>12 DEF Restart, TypeOK
  <2>3. (at \in Places /\ polled \in BOOLEAN /\ stop \in BOOLEAN /\ found \in Nat)'
    BY <1>12 DEF Restart, Places
  <2>. QED BY <2>1, <2>2, <2>3, NoStatusType DEF TypeOK
<1>13. CASE UNCHANGED vars
  BY <1>13 DEF vars, table, hist, TypeOK, Places, table, hist
<1>14. CASE FetchDies
  <2>1. since' \in Nat /\ late' \in Nat
    BY <1>14, TakesType, PollerAssumption DEF FetchDies
  <2>. QED BY <1>14, <2>1 DEF FetchDies, TypeOK, Places, table, hist
<1>. QED BY <1>1, <1>2, <1>3, <1>4, <1>5, <1>6, <1>7, <1>8, <1>9, <1>10, <1>11, <1>12, <1>13, <1>14 DEF Next

(* The batch.                                                                *)
LEMMA BatchStep == TypeOK /\ BatchInv /\ [Next]_vars => BatchInv'
<1>. SUFFICES ASSUME TypeOK, BatchInv, [Next]_vars PROVE BatchInv'
  OBVIOUS
<1>1. CASE StartFetch
  BY <1>1 DEF StartFetch, BatchInv, TypeOK, table
<1>2. CASE FetchFails
  BY <1>2 DEF FetchFails, BatchInv, TypeOK, table
<1>3. CASE FetchSucceeds
  BY <1>3 DEF FetchSucceeds, BatchInv, TypeOK, table
<1>4. CASE BackOff
  BY <1>4 DEF BackOff, BatchInv, TypeOK, table
<1>5. CASE Store
  BY <1>5 DEF Store, BatchInv, TypeOK, table
<1>6. CASE SelectPending
  BY <1>6, BatchesType DEF SelectPending, Publish, BatchInv, TypeOK, table
<1>7. CASE BeginPost
  BY <1>7 DEF BeginPost, BatchInv, TypeOK, table
<1>8. CASE Deliver
  BY <1>8 DEF Deliver, BatchInv, TypeOK, table
<1>9. CASE EndBatch
  BY <1>9 DEF EndBatch, BatchInv, TypeOK, table
<1>10. CASE Shutdown
  BY <1>10 DEF Shutdown, BatchInv, TypeOK, table
<1>11. CASE Signal
  BY <1>11 DEF Signal, BatchInv, TypeOK, table
<1>12. CASE Restart
  BY <1>12 DEF Restart, BatchInv, TypeOK, table
<1>13. CASE UNCHANGED vars
  BY <1>13 DEF vars, table, hist, BatchInv, TypeOK, table
<1>14. CASE FetchDies
  BY <1>14 DEF FetchDies, BatchInv, TypeOK, table
<1>. QED BY <1>1, <1>2, <1>3, <1>4, <1>5, <1>6, <1>7, <1>8, <1>9, <1>10, <1>11, <1>12, <1>13, <1>14 DEF Next

(* The count of misses.                                                      *)
LEMMA CountStep == TypeOK /\ CountInv /\ [Next]_vars => CountInv'
<1>. SUFFICES ASSUME TypeOK, CountInv, [Next]_vars PROVE CountInv'
  OBVIOUS
<1>1. CASE StartFetch
  BY <1>1 DEF StartFetch, CountInv, hist, TypeOK
<1>2. CASE FetchFails
  <2>1. misses' = failures' /\ failures' > 0 /\ failures' <= MaxFailures
    BY <1>2, MinTwo, PollerAssumption DEF FetchFails, CountFailure, CountInv, TypeOK
  <2>. QED BY <1>2, <2>1 DEF FetchFails, CountInv
<1>3. CASE FetchSucceeds
  BY <1>3, PollerAssumption DEF FetchSucceeds, CountInv, hist, TypeOK
<1>4. CASE BackOff
  BY <1>4 DEF BackOff, CountInv, hist, TypeOK
<1>5. CASE Store
  BY <1>5 DEF Store, CountInv, hist, TypeOK
<1>6. CASE SelectPending
  BY <1>6 DEF SelectPending, CountInv, hist, TypeOK
<1>7. CASE BeginPost
  BY <1>7 DEF BeginPost, CountInv, hist, TypeOK
<1>8. CASE Deliver
  BY <1>8 DEF Deliver, CountInv, hist, TypeOK
<1>9. CASE EndBatch
  BY <1>9 DEF EndBatch, CountInv, hist, TypeOK
<1>10. CASE Shutdown
  BY <1>10 DEF Shutdown, CountInv, hist, TypeOK
<1>11. CASE Signal
  BY <1>11 DEF Signal, CountInv, hist, TypeOK
<1>12. CASE Restart
  BY <1>12, PollerAssumption DEF Restart, CountInv, hist, TypeOK
<1>13. CASE UNCHANGED vars
  BY <1>13 DEF vars, table, hist, CountInv, hist, TypeOK
<1>14. CASE FetchDies
  BY <1>14 DEF FetchDies, CountInv, hist, TypeOK
<1>. QED BY <1>1, <1>2, <1>3, <1>4, <1>5, <1>6, <1>7, <1>8, <1>9, <1>10, <1>11, <1>12, <1>13, <1>14 DEF Next

(* The pace.                                                                 *)
LEMMA PaceStep == TypeOK /\ CountInv /\ PaceInv /\ [Next]_vars => PaceInv'
<1>. SUFFICES ASSUME TypeOK, CountInv, PaceInv, [Next]_vars PROVE PaceInv'
  OBVIOUS
<1>1. CASE StartFetch
  <2>1. /\ at = "top" /\ at' = "fetch" /\ since' = 0 /\ misses' = misses
        /\ gap' = IF polled THEN Max({since, PollInterval}) ELSE 0
    BY <1>1 DEF StartFetch
  <2>2. /\ LongestFetch + SleepCap \in Nat /\ PollInterval \in Int
        /\ since \in Nat /\ misses \in Nat
    BY LongestTimes, PollerAssumption DEF TypeOK
  <2>3. Max({since, PollInterval}) = IF since >= PollInterval THEN since ELSE PollInterval
    BY <2>2, MaxTwo
  <2>4. SourceIsSpared'
    <3>1. ASSUME misses > 0
          PROVE  Min({Backoff(misses), SleepCap}) \in Int /\ since >= Min({Backoff(misses), SleepCap})
      BY <2>1, <2>2, <3>1, BackoffType, MinTwo, PollerAssumption DEF PaceInv
    <3>2. SourceIsSpared' <=> (gap' > 0 => /\ gap' >= PollInterval
                                           /\ misses > 0 => gap' >= Min({Backoff(misses), SleepCap}))
      BY <2>1 DEF SourceIsSpared, Backoff
    <3>. QED BY <2>1, <2>2, <2>3, <3>1, <3>2
  <2>5. OutageEndsSoon'
    <3>1. Max({PollInterval, LongestFetch + SleepCap}) =
              IF PollInterval >= LongestFetch + SleepCap THEN PollInterval
              ELSE LongestFetch + SleepCap
      BY <2>2, MaxTwo
    <3>2. misses > 0 => since <= LongestFetch + SleepCap /\ polled
      BY <2>1 DEF PaceInv, CountInv
    <3>3. misses > 0 => gap' <= Max({PollInterval, LongestFetch + SleepCap})
      BY <2>1, <2>2, <2>3, <3>1, <3>2
    <3>. QED BY <2>1, <3>3 DEF OutageEndsSoon, LongestFetch
  <2>. QED BY <2>1, <2>4, <2>5 DEF PaceInv
<1>2. CASE FetchFails
  <2>1. PICK d \in FetchTimes : Takes(d)
    BY <1>2 DEF FetchFails
  <2>2. since' <= LongestFetch
    BY <1>2, <2>1, LongestTimes DEF FetchFails, Takes, PaceInv
  <2>. QED BY <1>2, <2>2 DEF FetchFails, PaceInv, SourceIsSpared, OutageEndsSoon, LongestFetch
<1>3. CASE FetchSucceeds
  BY <1>3 DEF FetchSucceeds, PaceInv, SourceIsSpared, OutageEndsSoon, hist
<1>4. CASE BackOff
  <2>1. misses = failures /\ misses > 0 /\ misses \in Nat \ {0} /\ since \in Nat
    BY <1>4 DEF BackOff, CountInv, TypeOK
  <2>2. PICK b \in Backoffs(failures) : Takes(Sleep(b))
    BY <1>4, <2>1 DEF BackOff
  <2>3. /\ b \in Nat /\ Backoff(misses) \in Nat /\ b >= Backoff(misses)
        /\ SleepCap \in Nat /\ LongestFetch \in Nat
    BY <2>1, BackoffType, LongestTimes, PollerAssumption
  <2>4. Sleep(b) \in Nat /\ Sleep(b) <= SleepCap /\ Sleep(b) >= Min({Backoff(misses), SleepCap})
    BY <2>3, MinTwo DEF Sleep
  <2>5. since' = since + Sleep(b) /\ since <= LongestFetch
    BY <1>4, <2>2 DEF BackOff, Takes, PaceInv
  <2>6. Min({Backoff(misses), SleepCap}) \in Int
    BY <2>3, MinTwo
  <2>7. since' >= Min({Backoff(misses), SleepCap}) /\ since' <= LongestFetch + SleepCap
    BY <2>1, <2>3, <2>4, <2>5, <2>6
  <2>8. at' = "top" /\ misses' = misses
    BY <1>4 DEF BackOff, hist
  <2>. QED BY <2>7, <2>8 DEF PaceInv, SourceIsSpared, OutageEndsSoon, Backoff, LongestFetch
<1>5. CASE Store
  BY <1>5 DEF Store, PaceInv, SourceIsSpared, OutageEndsSoon, hist
<1>6. CASE SelectPending
  BY <1>6 DEF SelectPending, PaceInv, SourceIsSpared, OutageEndsSoon, hist
<1>7. CASE BeginPost
  BY <1>7 DEF BeginPost, PaceInv, SourceIsSpared, OutageEndsSoon, hist
<1>8. CASE Deliver
  BY <1>8 DEF Deliver, PaceInv, SourceIsSpared, OutageEndsSoon, hist
<1>9. CASE EndBatch
  <2>1. misses' = 0 /\ at' = "top"
    BY <1>9 DEF EndBatch, CountInv, hist
  <2>. QED BY <2>1 DEF PaceInv, SourceIsSpared, OutageEndsSoon
<1>10. CASE Shutdown
  BY <1>10 DEF Shutdown, PaceInv, SourceIsSpared, OutageEndsSoon, hist
<1>11. CASE Signal
  <2>1. UNCHANGED <<at, since, misses, gap>>
    BY <1>11 DEF Signal, hist
  <2>. QED BY <2>1 DEF PaceInv, SourceIsSpared, OutageEndsSoon, Backoff, LongestFetch
<1>12. CASE Restart
  BY <1>12 DEF Restart, PaceInv, SourceIsSpared, OutageEndsSoon, hist
<1>13. CASE UNCHANGED vars
  <2>1. UNCHANGED <<at, since, misses, gap>>
    BY <1>13 DEF vars, hist
  <2>. QED BY <2>1 DEF PaceInv, SourceIsSpared, OutageEndsSoon, Backoff, LongestFetch
<1>14. CASE FetchDies
  BY <1>14 DEF FetchDies, PaceInv, SourceIsSpared, OutageEndsSoon, hist
<1>. QED BY <1>1, <1>2, <1>3, <1>4, <1>5, <1>6, <1>7, <1>8, <1>9, <1>10, <1>11, <1>12, <1>13, <1>14 DEF Next

(* The watch on the page.                                                    *)
LEMMA WatchStep ==
    TypeOK /\ CountInv /\ PaceInv /\ WatchInv /\ [Next]_vars => WatchInv'
<1>. SUFFICES ASSUME TypeOK, CountInv, PaceInv, WatchInv, [Next]_vars PROVE WatchInv'
  OBVIOUS
<1>0. /\ LongestFetch \in Nat /\ LongestPost \in Nat /\ SleepCap \in Nat
      /\ BatchLimit * LongestPost \in Nat /\ Span \in Nat
      /\ LongestFetch <= Span /\ PollInterval \in Int
  <2>1. BatchLimit * LongestPost \in Nat
    BY LongestTimes, RowsTime, PollerAssumption
  <2>. QED BY <2>1, LongestTimes, PollerAssumption DEF Span
<1>1. CASE StartFetch
  <2>1. /\ at = "top" /\ at' = "fetch"
        /\ gap' = IF polled THEN Max({since, PollInterval}) ELSE 0
    BY <1>1 DEF StartFetch
  <2>. DEFINE m == Max({PollInterval, LongestFetch + SleepCap, Span})
  <2>2. LongestFetch + SleepCap <= m /\ Span <= m /\ PollInterval <= m /\ m \in Int
    <3>1. LongestFetch + SleepCap \in Int /\ Span \in Int /\ PollInterval \in Int
      BY <1>0
    <3>. HIDE DEF Span
    <3>2. /\ m \in {PollInterval, LongestFetch + SleepCap, Span}
          /\ \A x \in {PollInterval, LongestFetch + SleepCap, Span} : x <= m
      BY <3>1, MaxThree, Zenon
    <3>. QED BY <3>1, <3>2
  <2>. HIDE DEF m
  <2>3. since \in Nat /\ (polled => since <= LongestFetch + SleepCap \/ since <= Span)
    BY <2>1 DEF WatchInv, TypeOK
  <2>4. Max({since, PollInterval}) = IF since >= PollInterval THEN since ELSE PollInterval
    BY <1>0, <2>3, MaxTwo
  <2>5. gap' <= m
    BY <1>0, <2>1, <2>2, <2>3, <2>4
  <2>. QED BY <2>1, <2>5 DEF m, WatchInv, SourceIsWatched, Span, LongestFetch, LongestPost
<1>2. CASE FetchFails
  <2>1. PICK d \in FetchTimes : Takes(d)
    BY <1>2 DEF FetchFails
  <2>2. since' <= LongestFetch
    BY <1>2, <2>1, LongestTimes DEF FetchFails, Takes, PaceInv
  <2>. QED BY <1>2, <2>2 DEF FetchFails, WatchInv, SourceIsWatched
<1>3. CASE FetchSucceeds
  <2>1. PICK d \in FetchTimes : Takes(d)
    BY <1>3 DEF FetchSucceeds
  <2>2. since' <= LongestFetch
    BY <1>3, <2>1, LongestTimes DEF FetchSucceeds, Takes, PaceInv
  <2>. QED BY <1>3, <2>2 DEF FetchSucceeds, WatchInv, SourceIsWatched
<1>4. CASE BackOff
  <2>1. failures > 0 /\ failures \in Nat \ {0} /\ since \in Nat
    BY <1>4 DEF BackOff, CountInv, TypeOK
  <2>2. PICK b \in Backoffs(failures) : Takes(Sleep(b))
    BY <1>4, <2>1 DEF BackOff
  <2>3. Sleep(b) \in Nat /\ Sleep(b) <= SleepCap
    BY <2>1, BackoffType, SleepType
  <2>4. since' <= LongestFetch + SleepCap
    BY <1>0, <1>4, <2>1, <2>2, <2>3 DEF BackOff, Takes, WatchInv
  <2>. QED BY <1>4, <2>4 DEF BackOff, WatchInv, SourceIsWatched
<1>5. CASE Store
  BY <1>5 DEF Store, WatchInv, SourceIsWatched
<1>6. CASE SelectPending
  <2>1. todo' \in Nat /\ todo' <= BatchLimit
    BY <1>6, BatchesType DEF SelectPending
  <2>2. todo' * LongestPost <= BatchLimit * LongestPost /\ todo' * LongestPost \in Nat
    BY <1>0, <2>1, RowsTime, PollerAssumption
  <2>3. since' = since /\ since <= LongestFetch /\ since \in Nat
    BY <1>6 DEF SelectPending, WatchInv, TypeOK
  <2>4. since' + todo' * LongestPost <= Span
    BY <1>0, <2>2, <2>3 DEF Span
  <2>. QED BY <1>6, <2>4 DEF SelectPending, WatchInv, SourceIsWatched
<1>7. CASE BeginPost
  <2>1. todo' = todo - 1 /\ todo' + 1 = todo /\ since' = since
    BY <1>7 DEF BeginPost, TypeOK
  <2>2. since' + (todo' + 1) * LongestPost <= Span
    BY <1>7, <2>1 DEF BeginPost, WatchInv
  <2>. QED BY <1>7, <2>2 DEF BeginPost, WatchInv, SourceIsWatched
<1>8. CASE Deliver
  <2>1. PICK d \in PostTimes : Takes(d)
    BY <1>8 DEF Deliver
  <2>2. /\ todo' = todo /\ todo \in Nat /\ since \in Nat /\ d \in Nat /\ d <= LongestPost
        /\ since' = since + d /\ since + (todo + 1) * LongestPost <= Span
    BY <1>8, <2>1, LongestTimes DEF Deliver, Takes, WatchInv, TypeOK
  <2>3. (todo + 1) * LongestPost = todo * LongestPost + LongestPost /\ todo * LongestPost \in Nat
    BY <1>0, <2>2, RowsTime
  <2>4. since' + todo' * LongestPost <= Span
    BY <1>0, <2>2, <2>3
  <2>. QED BY <1>8, <2>4 DEF Deliver, WatchInv, SourceIsWatched
<1>9. CASE EndBatch
  <2>1. since' = since /\ since + todo * LongestPost <= Span /\ todo \in Nat /\ since \in Nat
    BY <1>9 DEF EndBatch, WatchInv, TypeOK
  <2>2. todo * LongestPost \in Nat
    BY <1>0, <2>1, RowsTime
  <2>3. since' <= Span
    BY <1>0, <2>1, <2>2
  <2>. QED BY <1>9, <2>3 DEF EndBatch, WatchInv, SourceIsWatched
<1>10. CASE Shutdown
  BY <1>10 DEF Shutdown, WatchInv, SourceIsWatched
<1>11. CASE Signal
  <2>1. UNCHANGED <<at, since, todo, polled, gap>>
    BY <1>11 DEF Signal, table, hist
  <2>. QED BY <2>1 DEF WatchInv, SourceIsWatched, Span, LongestFetch, LongestPost
<1>12. CASE Restart
  BY <1>12 DEF Restart, WatchInv, SourceIsWatched
<1>13. CASE UNCHANGED vars
  <2>1. UNCHANGED <<at, since, todo, polled, gap>>
    BY <1>13 DEF vars, table, hist
  <2>. QED BY <2>1 DEF WatchInv, SourceIsWatched, Span, LongestFetch, LongestPost
<1>14. CASE FetchDies
  BY <1>14 DEF FetchDies, WatchInv, SourceIsWatched
<1>. QED BY <1>1, <1>2, <1>3, <1>4, <1>5, <1>6, <1>7, <1>8, <1>9, <1>10, <1>11, <1>12, <1>13, <1>14 DEF Next

(* The delay of a stop.                                                      *)
LEMMA LateStep == TypeOK /\ CountInv /\ LateInv /\ [Next]_vars => LateInv'
<1>. SUFFICES ASSUME TypeOK, CountInv, LateInv, [Next]_vars PROVE LateInv'
  OBVIOUS
<1>1. CASE StartFetch
  BY <1>1 DEF StartFetch, LateInv, TypeOK
<1>2. CASE FetchFails
  <2>1. PICK d \in FetchTimes : Takes(d)
    BY <1>2 DEF FetchFails
  <2>. QED BY <1>2, <2>1, LongestTimes DEF FetchFails, Takes, LateInv, TypeOK
<1>3. CASE FetchSucceeds
  <2>1. PICK d \in FetchTimes : Takes(d)
    BY <1>3 DEF FetchSucceeds
  <2>. QED BY <1>3, <2>1, LongestTimes DEF FetchSucceeds, Takes, LateInv, TypeOK
<1>4. CASE BackOff
  <2>1. failures \in Nat \ {0}
    BY <1>4 DEF BackOff, CountInv, TypeOK
  <2>2. PICK b \in Backoffs(failures) : Takes(Sleep(b))
    BY <1>4, <2>1 DEF BackOff
  <2>3. Sleep(b) \in Nat /\ Sleep(b) <= SleepCap
    BY <2>1, BackoffType, SleepType
  <2>. QED BY <1>4, <2>2, <2>3, LongestTimes, PollerAssumption DEF BackOff, Takes, LateInv, TypeOK
<1>5. CASE Store
  BY <1>5 DEF Store, LateInv, TypeOK
<1>6. CASE SelectPending
  BY <1>6 DEF SelectPending, LateInv, TypeOK
<1>7. CASE BeginPost
  BY <1>7 DEF BeginPost, LateInv, TypeOK
<1>8. CASE Deliver
  <2>1. PICK d \in PostTimes : Takes(d)
    BY <1>8 DEF Deliver
  <2>. QED BY <1>8, <2>1, LongestTimes DEF Deliver, Takes, LateInv, TypeOK
<1>9. CASE EndBatch
  BY <1>9, LongestTimes, PollerAssumption DEF EndBatch, LateInv, TypeOK
<1>10. CASE Shutdown
  BY <1>10 DEF Shutdown, LateInv, TypeOK
<1>11. CASE Signal
  BY <1>11 DEF Signal, LateInv, TypeOK
<1>12. CASE Restart
  BY <1>12, LongestTimes, PollerAssumption DEF Restart, LateInv, TypeOK
<1>13. CASE UNCHANGED vars
  BY <1>13 DEF vars, table, hist, LateInv, TypeOK
<1>14. CASE FetchDies
  <2>1. PICK d \in FetchTimes : Takes(d)
    BY <1>14 DEF FetchDies
  <2>. QED BY <1>14, <2>1, LongestTimes, PollerAssumption DEF FetchDies, Takes, LateInv, TypeOK
<1>. QED BY <1>1, <1>2, <1>3, <1>4, <1>5, <1>6, <1>7, <1>8, <1>9, <1>10, <1>11, <1>12, <1>13, <1>14 DEF Next

(* The published counts.                                                     *)
LEMMA StatsStep == TypeOK /\ StatsAreRecent /\ [Next]_vars => StatsAreRecent'
<1>. SUFFICES ASSUME TypeOK, StatsAreRecent, [Next]_vars PROVE StatsAreRecent'
  OBVIOUS
<1>1. CASE StartFetch
  BY <1>1 DEF StartFetch, StatsAreRecent, TypeOK, table
<1>2. CASE FetchFails
  BY <1>2 DEF FetchFails, StatsAreRecent, TypeOK, table
<1>3. CASE FetchSucceeds
  BY <1>3 DEF FetchSucceeds, StatsAreRecent, TypeOK, table
<1>4. CASE BackOff
  BY <1>4 DEF BackOff, StatsAreRecent, TypeOK, table
<1>5. CASE Store
  BY <1>5 DEF Store, StatsAreRecent, TypeOK, table
<1>6. CASE SelectPending
  BY <1>6 DEF SelectPending, Publish, StatsAreRecent, TypeOK
<1>7. CASE BeginPost
  BY <1>7 DEF BeginPost, StatsAreRecent, TypeOK, table
<1>8. CASE Deliver
  BY <1>8 DEF Deliver, StatsAreRecent, TypeOK, table
<1>9. CASE EndBatch
  BY <1>9 DEF EndBatch, StatsAreRecent, TypeOK, table
<1>10. CASE Shutdown
  BY <1>10 DEF Shutdown, StatsAreRecent, TypeOK, table
<1>11. CASE Signal
  BY <1>11 DEF Signal, StatsAreRecent, TypeOK, table
<1>12. CASE Restart
  BY <1>12 DEF Restart, NoStatus, StatsAreRecent
<1>13. CASE UNCHANGED vars
  BY <1>13 DEF vars, table, hist, StatsAreRecent, TypeOK, table
<1>14. CASE FetchDies
  BY <1>14 DEF FetchDies, StatsAreRecent, TypeOK, table
<1>. QED BY <1>1, <1>2, <1>3, <1>4, <1>5, <1>6, <1>7, <1>8, <1>9, <1>10, <1>11, <1>12, <1>13, <1>14 DEF Next

-----------------------------------------------------------------------------
(* The theorems.                                                             *)
Inv == TypeOK /\ BatchInv /\ CountInv /\ PaceInv /\ WatchInv /\ LateInv
       /\ StatsAreRecent

(* A started service satisfies the invariant.                                *)
LEMMA InvInit == Init => Inv
<1>. SUFFICES ASSUME Init PROVE Inv
  OBVIOUS
<1>1. TypeOK
  <2>1. shared = NoStatus
    BY DEF Init
  <2>2. {since, failures, pending, settled, todo, gap, misses, late} \subseteq Nat
    BY DEF Init
  <2>3. at \in Places /\ polled \in BOOLEAN /\ stop \in BOOLEAN /\ found \in Nat
    BY DEF Init, Places
  <2>. QED BY <2>1, <2>2, <2>3, NoStatusType DEF TypeOK
<1>2. BatchInv /\ CountInv /\ StatsAreRecent
  BY PollerAssumption DEF Init, BatchInv, CountInv, StatsAreRecent, NoStatus
<1>3. PaceInv /\ WatchInv /\ LateInv
  BY LongestTimes, PollerAssumption DEF Init, PaceInv, WatchInv, SourceIsSpared,
     OutageEndsSoon, SourceIsWatched, LateInv
<1>. QED BY <1>1, <1>2, <1>3 DEF Inv

(* Inv holds in every state of every run of the loop.                        *)
THEOREM Invariance == Spec => []Inv
<1>1. Inv /\ [Next]_vars => Inv'
  BY TypeStep, BatchStep, CountStep, PaceStep, WatchStep, LateStep, StatsStep DEF Inv
<1>. QED BY InvInit, <1>1, PTL DEF Spec

(* Every variable of the loop's pace keeps its type.                         *)
THEOREM PollerTypeCorrect == Spec => []TypeOK
BY Invariance, PTL DEF Inv

(* run_service fetches no sooner than the interval, nor than the backoff of  *)
(* fetcher.py as far as main.py's cap lets it.                               *)
THEOREM SourceSpared == Spec => []SourceIsSpared
<1>1. Inv => SourceIsSpared
  BY DEF Inv, PaceInv
<1>. QED BY <1>1, Invariance, PTL

(* After an outage of any length run_service fetches within the cap.         *)
THEOREM OutagesEnd == Spec => []OutageEndsSoon
<1>1. Inv => OutageEndsSoon
  BY DEF Inv, PaceInv
<1>. QED BY <1>1, Invariance, PTL

(* run_service looks at the page again within the interval, a fetch and its  *)
(* sleep, or a fetch and a POST for each row get_pending may return.         *)
THEOREM SourceWatched == Spec => []SourceIsWatched
<1>1. Inv => SourceIsWatched
  BY DEF Inv, WatchInv
<1>. QED BY <1>1, Invariance, PTL

(* A stop waits for a fetch and its sleep, or for one POST, and no longer.   *)
THEOREM PromptStop == Spec => []StopIsPrompt
<1>1. Inv => StopIsPrompt
  <2>. SUFFICES ASSUME Inv PROVE StopIsPrompt
    OBVIOUS
  <2>1. /\ LongestFetch \in Nat /\ LongestPost \in Nat /\ SleepCap \in Nat
        /\ LongestFetch + SleepCap \in Nat /\ late \in Nat /\ at \in Places
    BY LongestTimes, PollerAssumption DEF Inv, TypeOK
  <2>2. late <= LongestFetch + SleepCap \/ late <= LongestPost
    BY <2>1 DEF Inv, LateInv, Places
  <2>3. Max({LongestFetch + SleepCap, LongestPost}) =
            IF LongestFetch + SleepCap >= LongestPost THEN LongestFetch + SleepCap
            ELSE LongestPost
    BY <2>1, MaxTwo
  <2>. QED BY <2>1, <2>2, <2>3 DEF StopIsPrompt
<1>. QED BY <1>1, Invariance, PTL

(* The counts published for the web UI miss no row and double none.          *)
THEOREM RecentStats == Spec => []StatsAreRecent
BY Invariance, PTL DEF Inv

-----------------------------------------------------------------------------
(* The loop behind the pace.                                                 *)

(* There is a batch only while it is delivered.                              *)
TodoInv == at \notin {"deliver", "post"} => todo = 0

LEMMA TodoStep == TodoInv /\ [Next]_vars => TodoInv'
<1>. SUFFICES ASSUME TodoInv, [Next]_vars PROVE TodoInv'
  OBVIOUS
<1>1. CASE StartFetch \/ FetchFails \/ FetchDies \/ FetchSucceeds \/ BackOff \/ Store
           \/ Shutdown
  BY <1>1 DEF StartFetch, FetchFails, FetchDies, FetchSucceeds, BackOff, Store,
              Shutdown, TodoInv, table
<1>2. CASE SelectPending \/ BeginPost \/ Deliver \/ EndBatch \/ Restart
  BY <1>2 DEF SelectPending, BeginPost, Deliver, EndBatch, Restart, TodoInv
<1>3. CASE Signal \/ UNCHANGED vars
  BY <1>3 DEF Signal, TodoInv, vars, table
<1>. QED BY <1>1, <1>2, <1>3 DEF Next

(* Where the loop is, and whether it has been asked to stop, as ServiceLoop  *)
(* sees it.                                                                  *)
Place ==
    CASE at = "failed" -> "top" [] at \in {"parsed", "stored"} -> "store"
      [] at = "post" -> "posting" [] at = "ended" -> "down" [] OTHER -> at

Asked == stop /\ at # "ended"

LEMMA LoopViewStep ==
    ASSUME TypeOK, TodoInv, [Next]_vars
    PROVE  Loop!Next \/ UNCHANGED <<Place, pending, settled, todo, Asked>>
<1>. USE DEF Loop!Go, Place, Asked
<1>1. CASE StartFetch
  BY <1>1 DEF StartFetch, Loop!Next, Loop!Fetch, table
<1>2. CASE FetchFails \/ FetchSucceeds
  BY <1>2 DEF FetchFails, FetchSucceeds, Loop!Next, Loop!Fetched, table
<1>3. CASE FetchDies \/ Shutdown
  BY <1>3 DEF FetchDies, Shutdown, Loop!Next, Loop!End, TodoInv, table
<1>4. CASE BackOff \/ UNCHANGED vars
  BY <1>4 DEF BackOff, vars, table
<1>5. CASE Store
  <2>1. PICK new \in 0 .. MaxRows : pending' = pending + new
    BY <1>5 DEF Store
  <2>2. pending' >= pending
    BY <2>1, PollerAssumption DEF TypeOK
  <2>. QED BY <1>5, <2>2 DEF Store, Loop!Next, Loop!Insert
<1>6. CASE SelectPending
  <2>1. todo' \in 0 .. BatchLimit /\ todo' <= pending
    BY <1>6, BatchesType, PollerAssumption DEF SelectPending
  <2>. QED BY <1>6, <2>1 DEF SelectPending, Loop!Next, Loop!Select
<1>7. CASE BeginPost
  BY <1>7 DEF BeginPost, Loop!Next, Loop!Post
<1>8. CASE Deliver
  <2>1. PICK done \in 0 .. 1 : pending' = pending - done /\ settled' = settled + done
    BY <1>8 DEF Deliver
  <2>2. \/ UNCHANGED <<pending, settled>>
        \/ pending' = pending - 1 /\ settled' = settled + 1
    BY <2>1 DEF TypeOK
  <2>. QED BY <1>8, <2>2 DEF Deliver, Loop!Next, Loop!Record
<1>9. CASE EndBatch
  BY <1>9 DEF EndBatch, Loop!Next, Loop!EndBatch
<1>10. CASE Signal
  <2>1. Place # "down" /\ Place' = Place
    BY <1>10 DEF Signal, TypeOK, Places
  <2>. QED BY <1>10, <2>1 DEF Signal, Loop!Next, Loop!Signal, table
<1>11. CASE Restart
  BY <1>11 DEF Restart, Loop!Next, Loop!Start, TodoInv
<1>. QED BY <1>1, <1>2, <1>3, <1>4, <1>5, <1>6, <1>7, <1>8, <1>9, <1>10, <1>11 DEF Next

(* The loop this module gives its pace is ServiceLoop, which Bridge is with  *)
(* its rows counted: what Poller bounds in seconds is Bridge's own loop.     *)
THEOREM PollerImplementsLoop == Spec => LoopSpec
<1>1. Init => Loop!Init /\ TodoInv
  BY DEF Init, Loop!Init, TodoInv
<1>2. Inv /\ TodoInv /\ [Next]_vars => [Loop!Next]_Loop!vars
  BY LoopViewStep DEF Inv, Loop!vars, Place, Asked
<1>. QED BY <1>1, <1>2, TodoStep, Invariance, PTL DEF Spec, LoopSpec, Loop!Spec
=============================================================================
