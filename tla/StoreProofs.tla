---------------------------- MODULE StoreProofs ----------------------------
(* Lemmas about the operations of MessageStore: the types they keep, what    *)
(* they change row by row, and which rows get_pending selects.               *)
EXTENDS MessageStore, FiniteSetTheorems, TLAPS

-----------------------------------------------------------------------------
(* The operations of the table keep it a table.                              *)

LEMMA InsertTyped ==
    ASSUME StoreTypeOK, NEW h \in Dispatches, InsertIfNew(h)
    PROVE  StoreTypeOK'
<1>1. CASE h \in Known
  BY <1>1 DEF InsertIfNew, StoreTypeOK
<1>2. CASE h \notin Known
  <2>1. Cardinality(Known) \in Nat
    BY DispatchAssumption, FS_Subset, FS_CardinalityType DEF Known
  <2>2. [Absent EXCEPT !.state = "pending", !.seen = Cardinality(Known)] \in Row
    BY <2>1 DEF Absent, Row, ErrorCategories
  <2> QED
    BY <1>2, <2>2 DEF InsertIfNew, StoreTypeOK
<1> QED
  BY <1>1, <1>2

LEMMA MarkDeliveredTyped ==
    ASSUME StoreTypeOK, NEW h \in Dispatches, MarkDelivered(h)
    PROVE  StoreTypeOK'
BY DEF StoreTypeOK, MarkDelivered, Row

LEMMA CountedTyped ==
    ASSUME NEW r \in Row, NEW c \in ErrorCategories
    PROVE  [r EXCEPT !.attempts = r.attempts + 1, !.error = c] \in Row
<1>1. r.attempts + 1 \in Nat
  BY DEF Row
<1> QED
  BY <1>1 DEF Row

LEMMA MarkFailedTyped ==
    ASSUME StoreTypeOK, NEW h \in Dispatches, NEW c \in ErrorCategories,
           NEW max \in Int, MarkFailed(h, c, max)
    PROVE  StoreTypeOK'
<1> DEFINE n == table[h].attempts + 1
           counted == [table[h] EXCEPT !.attempts = n, !.error = c]
<1>1. counted \in Row
  <2>1. table[h] \in Row
    BY DEF StoreTypeOK
  <2> QED
    BY <2>1, CountedTyped
<1>2. [counted EXCEPT !.state = "dead_letter"] \in Row
  BY <1>1 DEF Row
<1>3. ASSUME NEW d \in RetryDelays(n)
      PROVE  [counted EXCEPT !.due = d] \in Row
  <2>1. d \in Nat
    BY BackoffAssumption DEF RetryDelays
  <2> QED
    BY <1>1, <2>1 DEF Row
<1>4. CASE h \notin Known
  BY <1>4 DEF MarkFailed, StoreTypeOK
<1>5. CASE h \in Known /\ table' = [table EXCEPT ![h] = [counted EXCEPT !.state = "dead_letter"]]
  BY <1>2, <1>5 DEF StoreTypeOK
<1>6. CASE h \in Known /\ \E d \in RetryDelays(n) :
             table' = [table EXCEPT ![h] = [counted EXCEPT !.due = d]]
  BY <1>3, <1>6 DEF StoreTypeOK
<1> QED
  BY <1>4, <1>5, <1>6 DEF MarkFailed

LEMMA TickTyped ==
    ASSUME StoreTypeOK, ClockTick
    PROVE  StoreTypeOK'
BY DEF StoreTypeOK, ClockTick, Row

-----------------------------------------------------------------------------
(* What the operations of the table change, row by row.                      *)

LEMMA InsertEffect ==
    ASSUME StoreTypeOK, NEW h \in Dispatches, InsertIfNew(h)
    PROVE  /\ \A g \in Dispatches \ {h} : table'[g] = table[g]
           /\ h \in Known => table' = table
           /\ h \notin Known =>
                /\ table'[h].state = "pending"
                /\ table'[h].attempts = 0
                /\ table'[h].due = 0
                /\ table'[h].seen = Cardinality(Known)
BY DEF InsertIfNew, StoreTypeOK, Absent

LEMMA DeliveredEffect ==
    ASSUME StoreTypeOK, NEW h \in Dispatches, MarkDelivered(h)
    PROVE  /\ \A g \in Dispatches \ {h} : table'[g] = table[g]
           /\ table'[h].state = "delivered"
           /\ table'[h].attempts = table[h].attempts
           /\ table'[h].due = table[h].due
           /\ table'[h].seen = table[h].seen
<1>1. table[h] \in Row
  BY DEF StoreTypeOK
<1>2. table' = [table EXCEPT ![h] = [table[h] EXCEPT !.state = "delivered"]]
  BY DEF MarkDelivered
<1> QED
  BY <1>1, <1>2 DEF StoreTypeOK, Row

LEMMA FailedEffect ==
    ASSUME StoreTypeOK, NEW h \in Known, NEW c, NEW max \in Int,
           MarkFailed(h, c, max)
    PROVE  /\ \A g \in Dispatches \ {h} : table'[g] = table[g]
           /\ table'[h].attempts = table[h].attempts + 1
           /\ table'[h].seen = table[h].seen
           /\ table'[h].state = IF table[h].attempts + 1 >= max
                                THEN "dead_letter" ELSE table[h].state
<1> DEFINE n == table[h].attempts + 1
           counted == [table[h] EXCEPT !.attempts = n, !.error = c]
<1>0. h \in Dispatches /\ table[h] \in Row
  BY DEF StoreTypeOK, Known
<1>1. CASE n >= max /\ table' = [table EXCEPT ![h] =
                                   [counted EXCEPT !.state = "dead_letter"]]
  BY <1>0, <1>1 DEF StoreTypeOK, Row
<1>2. CASE ~ (n >= max) /\ \E d \in RetryDelays(n) :
             table' = [table EXCEPT ![h] = [counted EXCEPT !.due = d]]
  <2>1. PICK d \in RetryDelays(n) :
           table' = [table EXCEPT ![h] = [counted EXCEPT !.due = d]]
    BY <1>2
  <2> QED
    BY <1>0, <1>2, <2>1 DEF StoreTypeOK, Row
<1> QED
  BY <1>1, <1>2 DEF MarkFailed, OutOfAttempts

LEMMA TickEffect ==
    ASSUME StoreTypeOK, ClockTick, NEW h \in Dispatches
    PROVE  /\ table'[h].state = table[h].state
           /\ table'[h].attempts = table[h].attempts
           /\ table'[h].seen = table[h].seen
           /\ table[h].due = 0 => table'[h] = table[h]
<1>1. table[h] \in Row
  BY DEF StoreTypeOK
<1>2. table'[h] = [table[h] EXCEPT !.due = IF table[h].due > 0
                                           THEN table[h].due - 1 ELSE 0]
  BY DEF ClockTick
<1> QED
  BY <1>1, <1>2 DEF Row

-----------------------------------------------------------------------------
(* Which rows get_pending selects.                                           *)

LEMMA KnownFinite == IsFiniteSet(Known) /\ Cardinality(Known) \in Nat
BY DispatchAssumption, FS_Subset, FS_CardinalityType DEF Known

LEMMA ReadyFinite ==
    /\ IsFiniteSet(Ready) /\ Ready \subseteq Known /\ Ready \subseteq Dispatches
    /\ \A S \in SUBSET Ready : IsFiniteSet(S) /\ Cardinality(S) \in Nat
<1>1. Ready \subseteq Known /\ Ready \subseteq Dispatches
  BY DEF Ready, Known, In
<1>2. IsFiniteSet(Ready)
  BY <1>1, DispatchAssumption, FS_Subset
<1> QED
  BY <1>1, <1>2, FS_Subset, FS_CardinalityType

(* The ready rows older than x.                                              *)
Before(x) == {g \in Ready : Older(g, x)}

(* Their number grows with the rank.                                         *)
LEMMA BeforeGrows ==
    ASSUME StoreTypeOK, NEW g \in Ready, NEW h \in Ready, Older(g, h)
    PROVE  /\ Before(g) \subseteq Before(h) /\ Before(g) # Before(h)
           /\ Cardinality(Before(g)) < Cardinality(Before(h))
<1>1. \A k \in Ready : table[k].seen \in Nat
  BY ReadyFinite DEF StoreTypeOK, Row
<1>2. Before(g) \subseteq Before(h)
  BY <1>1 DEF Before, Older
<1>3. g \in Before(h) /\ g \notin Before(g)
  BY <1>1 DEF Before, Older
<1>4. /\ IsFiniteSet(Before(h)) /\ Before(g) \in SUBSET Before(h)
      /\ Cardinality(Before(g)) \in Nat /\ Cardinality(Before(h)) \in Nat
  BY <1>2, ReadyFinite DEF Before
<1>5. Cardinality(Before(g)) <= Cardinality(Before(h))
      /\ Cardinality(Before(g)) # Cardinality(Before(h))
  BY <1>3, <1>4, FS_Subset
<1> QED
  BY <1>2, <1>3, <1>4, <1>5

(* No more rows than the limit: counting the older ones numbers them from 0. *)
LEMMA PendingIsLimited ==
    ASSUME StoreTypeOK, RanksDiffer, NEW limit \in Nat
    PROVE  Cardinality(GetPending(limit)) <= limit
<1> DEFINE B == GetPending(limit)
           number == [h \in B |-> Cardinality(Before(h))]
<1>1. B \subseteq Ready /\ \A h \in B : Cardinality(Before(h)) < limit
  BY DEF GetPending, Before
<1>2. number \in [B -> 0 .. limit - 1]
  <2>1. \A h \in B : Cardinality(Before(h)) \in Nat
    BY ReadyFinite DEF Before
  <2> QED
    BY <1>1, <2>1
<1>3. ASSUME NEW g \in B, NEW h \in B, number[g] = number[h]
      PROVE  g = h
  <2>1. g \in Ready /\ h \in Ready
    BY <1>1
  <2>2. Cardinality(Before(g)) = Cardinality(Before(h))
    BY <1>3
  <2>3. table[g].seen \in Nat /\ table[h].seen \in Nat
    BY <2>1, ReadyFinite DEF StoreTypeOK, Row
  <2>4. Before(g) \in SUBSET Ready
    BY DEF Before
  <2>5. ~ (Cardinality(Before(g)) < Cardinality(Before(h)))
        /\ ~ (Cardinality(Before(h)) < Cardinality(Before(g)))
    BY <2>2, <2>4, ReadyFinite
  <2>6. ~ Older(g, h) /\ ~ Older(h, g)
    BY <2>1, <2>5, BeforeGrows
  <2> QED
    BY <2>1, <2>3, <2>6, ReadyFinite DEF RanksDiffer, Older
<1>4. number \in Injection(B, 0 .. limit - 1)
  BY <1>2, <1>3 DEF Injection, IsInjective
<1>5. IsFiniteSet(0 .. limit - 1) /\ Cardinality(0 .. limit - 1) = limit
  BY FS_Interval
<1>6. Cardinality(B) <= Cardinality(0 .. limit - 1)
  BY <1>4, <1>5, FS_Injection
<1> QED
  BY <1>5, <1>6

(* A ready row that is left out is younger than all that are taken, and they *)
(* are as many as the limit: the oldest row left out has exactly them before *)
(* it.                                                                       *)
LEMMA PendingIsOldest ==
    ASSUME StoreTypeOK, RanksDiffer, NEW limit \in Nat
    PROVE  OldestReady(GetPending(limit), limit)
<1> DEFINE B == GetPending(limit)
           Left == Ready \ B
<1>1. /\ B \subseteq Ready
      /\ \A h \in B : Cardinality(Before(h)) < limit
      /\ \A h \in Left : ~ (Cardinality(Before(h)) < limit)
  BY DEF GetPending, Before
<1>2. \A h \in Ready : Cardinality(Before(h)) \in Nat /\ table[h].seen \in Nat
  BY ReadyFinite DEF Before, StoreTypeOK, Row
<1>3. Cardinality(B) <= limit
  BY PendingIsLimited
<1>4. ASSUME NEW g \in B, NEW h \in Left
      PROVE  Older(g, h)
  <2>1. g \in Ready /\ h \in Ready /\ g # h
    BY <1>1
  <2>2. Cardinality(Before(g)) < Cardinality(Before(h))
    BY <1>1, <1>2, <2>1
  <2>3. ~ Older(h, g)
    BY <1>2, <2>1, <2>2, BeforeGrows
  <2> QED
    BY <1>2, <2>1, <2>3, ReadyFinite DEF RanksDiffer, Older
<1>5. ASSUME NEW h \in Left
      PROVE  Cardinality(B) = limit
  <2> DEFINE T == {Before(x) : x \in Left}
  <2>1. T \subseteq FiniteSubsetsOf(Ready) /\ T # {}
    BY ReadyFinite DEF Before, FiniteSubsetsOf
  <2>2. PICK low \in T : \A t \in T : ~ (<<t, low>> \in StrictSubsetOrdering(Ready))
    BY <2>1, FS_StrictSubsetOrderingWellFounded, WFMin
  <2>3. PICK m \in Left : low = Before(m)
    OBVIOUS
  <2>4. Before(m) \subseteq B
    <3>1. SUFFICES ASSUME NEW x \in Before(m), x \notin B
                   PROVE  FALSE
      OBVIOUS
    <3>2. x \in Left /\ x \in Ready /\ m \in Ready /\ Older(x, m)
      BY <3>1 DEF Before
    <3>3. Before(x) \subseteq Before(m) /\ Before(x) # Before(m)
      BY <3>2, BeforeGrows
    <3>4. <<Before(x), Before(m)>> \in StrictSubsetOrdering(Ready)
      BY <3>3 DEF StrictSubsetOrdering, Before
    <3> QED
      BY <2>2, <2>3, <3>2, <3>4
  <2>5. B \subseteq Before(m)
    BY <1>1, <1>4 DEF Before
  <2>6. B = Before(m) /\ ~ (Cardinality(Before(m)) < limit)
    BY <1>1, <2>4, <2>5
  <2> QED
    BY <1>2, <1>3, <2>6
<1> QED
  BY <1>1, <1>3, <1>4, <1>5 DEF OldestReady

-----------------------------------------------------------------------------
(* When a failed row is due again.                                           *)

(* A power of two counts the subsets of a set.                               *)
LEMMA TwoToThe ==
    ASSUME NEW n \in Nat
    PROVE  2 ^ n \in Nat
<1>1. IsFiniteSet(1 .. n) /\ Cardinality(1 .. n) = n
  BY FS_Interval
<1>2. IsFiniteSet(SUBSET (1 .. n)) /\ Cardinality(SUBSET (1 .. n)) = 2 ^ n
  BY <1>1, FS_SUBSET
<1> QED
  BY <1>2, FS_CardinalityType

(* However many attempts have been counted there is a delay to choose, so    *)
(* mark_failed never blocks, and none is above the cap and a quarter of it.  *)
LEMMA DelaysBounded ==
    ASSUME NEW n \in Nat
    PROVE  /\ Backoff(n) \in RetryDelays(n)
           /\ \A d \in RetryDelays(n) : d \in Nat /\ 4 * d < 5 * BackoffCap + 4
<1>1. Backoff(n) \in Nat /\ Backoff(n) <= BackoffCap /\ BackoffCap \in Nat
  BY TwoToThe, BackoffAssumption DEF Backoff
<1> HIDE DEF Backoff
<1> QED
  BY <1>1 DEF RetryDelays

(* The due time of a row only shrinks, but for a failure that puts it off.   *)
DueWithinCap(h) == 4 * table[h].due < 5 * BackoffCap + 4

LEMMA FailedDue ==
    ASSUME StoreTypeOK, NEW h \in Known, NEW c, NEW max \in Int,
           MarkFailed(h, c, max), DueWithinCap(h)
    PROVE  DueWithinCap(h)'
<1> DEFINE n == table[h].attempts + 1
           counted == [table[h] EXCEPT !.attempts = n, !.error = c]
<1>0. h \in Dispatches /\ table[h] \in Row /\ n \in Nat
  BY DEF StoreTypeOK, Known, Row
<1>1. CASE table' = [table EXCEPT ![h] = [counted EXCEPT !.state = "dead_letter"]]
  <2>1. table'[h].due = table[h].due
    BY <1>0, <1>1 DEF StoreTypeOK, Row
  <2> QED
    BY <2>1 DEF DueWithinCap
<1>2. ASSUME NEW d \in RetryDelays(n),
             table' = [table EXCEPT ![h] = [counted EXCEPT !.due = d]]
      PROVE  DueWithinCap(h)'
  <2>1. table'[h].due = d
    BY <1>0, <1>2 DEF StoreTypeOK, Row
  <2> QED
    BY <1>0, <2>1, DelaysBounded DEF DueWithinCap
<1> QED
  BY <1>1, <1>2 DEF MarkFailed

LEMMA TickDue ==
    ASSUME StoreTypeOK, ClockTick, NEW h \in Dispatches, DueWithinCap(h)
    PROVE  DueWithinCap(h)'
<1>1. table[h] \in Row
  BY DEF StoreTypeOK
<1>2. table'[h].due = IF table[h].due > 0 THEN table[h].due - 1 ELSE 0
  BY <1>1 DEF ClockTick, Row
<1> QED
  BY <1>1, <1>2, BackoffAssumption DEF DueWithinCap, Row
=============================================================================
