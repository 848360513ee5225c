-------------------------- MODULE DashboardProofs --------------------------
(* Proofs about Dashboard, for any number of requests and a table of any     *)
(* size, from the invariant of the loop in PollerProofs.                     *)
EXTENDS Dashboard, PollerProofs

(* A count of the past: no row too many, and at least those found.           *)
IsPast(s) ==
    /\ s.pending + s.settled <= pending + settled
    /\ s.settled <= settled
    /\ s.found <= s.pending + s.settled

(* It holds of what is published, copied and shown; and of what the loop has *)
(* found and not published yet.                                              *)
PastInv ==
    /\ IsPast(shared)
    /\ \A r \in Requests : IsPast(state[r])
    /\ IsPast(page)
    /\ at = "stored" => found <= pending + settled

WebInv == Inv /\ WebTypeOK /\ PastInv

-----------------------------------------------------------------------------
(* No row leaves the table, and none that is settled is opened again.        *)
TableGrows ==
    /\ pending + settled <= pending' + settled'
    /\ settled <= settled'

LEMMA TableStep == Inv /\ [Next]_vars => TableGrows
<1>. SUFFICES ASSUME Inv, [Next]_vars PROVE TableGrows
  OBVIOUS
<1>0. pending \in Nat /\ settled \in Nat
  BY DEF Inv, TypeOK
<1>1. CASE Store
  <2>1. PICK new \in 0 .. MaxRows : pending' = pending + new
    BY <1>1 DEF Store
  <2>2. settled' = settled /\ new \in Nat
    BY <1>1, PollerAssumption DEF Store
  <2>. QED BY <1>0, <2>1, <2>2 DEF TableGrows
<1>2. CASE Deliver
  <2>1. PICK done \in 0 .. 1 : pending' = pending - done /\ settled' = settled + done
    BY <1>2 DEF Deliver
  <2>. QED BY <1>0, <2>1 DEF TableGrows
<1>3. CASE pending' = pending /\ settled' = settled
  BY <1>0, <1>3 DEF TableGrows
<1>4. \/ Store \/ Deliver
      \/ pending' = pending /\ settled' = settled
  BY DEF Next, StartFetch, FetchFails, FetchDies, FetchSucceeds, BackOff, SelectPending,
     BeginPost, EndBatch, Shutdown, Signal, Restart, vars, table
<1>. QED BY <1>1, <1>2, <1>3, <1>4

LEMMA SumOfNats == \A a, b \in Nat : 0 <= a + b /\ 0 <= b
OBVIOUS

(* What was true of the past stays true.                                     *)
LEMMA PastStays ==
    ASSUME Inv, TypeOK', TableGrows,
           NEW s, s.pending \in Nat, s.settled \in Nat, s.found \in Nat \cup {NoCount},
           IsPast(s)
    PROVE  /\ s.pending + s.settled <= pending' + settled'
           /\ s.settled <= settled'
           /\ s.found <= s.pending + s.settled
BY DEF Inv, TypeOK, TableGrows, IsPast, NoCount

(* The loop publishes the table as it is, and no more found than it counts.  *)
LEMMA PublishStep ==
    Inv /\ PastInv /\ [Next]_vars =>
        /\ IsPast(shared)'
        /\ at' = "stored" => found' <= pending' + settled'
<1>. SUFFICES ASSUME Inv, PastInv, [Next]_vars
              PROVE  /\ IsPast(shared)'
                     /\ at' = "stored" => found' <= pending' + settled'
  OBVIOUS
<1>1. /\ TypeOK /\ BatchInv /\ TypeOK' /\ TableGrows
  BY TypeStep, TableStep DEF Inv
<1>2. /\ shared.pending \in Nat /\ shared.settled \in Nat
      /\ shared.found \in Nat \cup {NoCount}
      /\ pending \in Nat /\ settled \in Nat /\ found \in Nat
  BY <1>1 DEF TypeOK
<1>3. ASSUME shared' = shared PROVE IsPast(shared)'
  BY <1>1, <1>2, <1>3, PastStays DEF PastInv, IsPast
<1>4. CASE FetchFails \/ FetchSucceeds
  <2>1. /\ shared'.found = NoCount /\ shared'.pending = pending
        /\ shared'.settled = settled /\ at' \in {"failed", "parsed"}
        /\ pending' = pending /\ settled' = settled
    BY <1>4 DEF FetchFails, FetchSucceeds, table
  <2>. QED BY <1>2, <2>1 DEF IsPast, NoCount
<1>5. CASE SelectPending
  <2>1. /\ shared'.found = found /\ shared'.pending = pending
        /\ shared'.settled = settled /\ at' = "deliver" /\ at = "stored"
        /\ pending' = pending /\ settled' = settled
    BY <1>5 DEF SelectPending, Publish
  <2>. QED BY <1>2, <2>1 DEF IsPast, PastInv
<1>6. CASE Restart
  <2>1. /\ shared'.found = 0 - 1 /\ shared'.pending = 0 /\ shared'.settled = 0
        /\ at' = "top"
    BY <1>6 DEF Restart, NoStatus, NoCount
  <2>2. pending' \in Nat /\ settled' \in Nat
    BY <1>1 DEF TypeOK
  <2>3. shared'.found <= shared'.pending + shared'.settled
    BY <2>1
  <2>4. /\ shared'.pending + shared'.settled <= pending' + settled'
        /\ shared'.settled <= settled'
    <3>1. shared'.pending + shared'.settled = 0
      BY <2>1
    <3>2. 0 <= pending' + settled' /\ 0 <= settled'
      BY <2>2, SumOfNats
    <3>. QED BY <2>1, <3>1, <3>2
  <2>. QED BY <2>1, <2>3, <2>4 DEF IsPast
<1>7. CASE Store
  <2>1. PICK n \in 0 .. MaxRows, new \in 0 .. MaxRows :
           /\ n - new <= pending + settled
           /\ found' = n /\ pending' = pending + new
    BY <1>7 DEF Store
  <2>2. settled' = settled /\ shared' = shared /\ n \in Nat /\ new \in Nat
    BY <1>7, PollerAssumption DEF Store
  <2>3. found' <= pending' + settled'
    BY <1>2, <2>1, <2>2
  <2>. QED BY <1>3, <2>2, <2>3
<1>8. CASE StartFetch \/ FetchDies \/ BackOff \/ BeginPost \/ Deliver \/ EndBatch
           \/ Shutdown
  <2>1. shared' = shared /\ at' # "stored"
    BY <1>8 DEF StartFetch, FetchDies, BackOff, BeginPost, Deliver, EndBatch, Shutdown
  <2>. QED BY <1>3, <2>1
<1>9. CASE Signal \/ UNCHANGED vars
  <2>1. shared' = shared /\ at' = at /\ found' = found
        /\ pending' = pending /\ settled' = settled
    BY <1>9 DEF Signal, vars, table
  <2>. QED BY <1>3, <2>1 DEF PastInv
<1>. QED BY <1>4, <1>5, <1>6, <1>7, <1>8, <1>9 DEF Next

-----------------------------------------------------------------------------
(* The steps of the web UI and of the loop next to it.                       *)
LEMMA UnreadIsPast ==
    ASSUME TypeOK
    PROVE  NoState \in States /\ IsPast(NoState) /\ NoPage \in Pages /\ IsPast(NoPage)
<1>1. NoState = [status |-> "unread", found |-> NoCount, pending |-> 0, settled |-> 0]
  BY DEF NoState, NoStatus
<1>2. pending \in Nat /\ settled \in Nat
  BY DEF TypeOK
<1>3. NoCount \in Nat \cup {NoCount} /\ NoCount <= 0 + 0
  BY DEF NoCount
<1>4. NoState \in States /\ NoPage \in Pages
  BY <1>1, <1>3 DEF States, Pages, NoPage
<1>5. IsPast(NoState) /\ IsPast(NoPage)
  BY <1>1, <1>2, <1>3 DEF NoPage, IsPast
<1>. QED BY <1>4, <1>5

LEMMA WebInit == DashboardInit => WebInv
<1>. SUFFICES ASSUME DashboardInit PROVE WebInv
  OBVIOUS
<1>1. Inv /\ TypeOK
  BY InvInit DEF DashboardInit, Inv
<1>2. NoState \in States /\ IsPast(NoState) /\ NoPage \in Pages /\ IsPast(NoPage)
  BY <1>1, UnreadIsPast
<1>3. IsPast(shared) /\ at # "stored"
  BY <1>1 DEF DashboardInit, Init, IsPast, NoStatus, NoCount, TypeOK
<1>4. \A r \in Requests : state[r] = NoState
  BY DEF DashboardInit
<1>5. WebTypeOK
  BY <1>1, <1>2 DEF DashboardInit, WebTypeOK
<1>6. PastInv
  BY <1>2, <1>3, <1>4 DEF DashboardInit, PastInv
<1>. QED BY <1>1, <1>5, <1>6 DEF WebInv

(* A request changes neither the loop nor the table.                         *)
LEMMA RequestStep ==
    ASSUME WebInv, NEW r \in Requests, GetState(r) \/ ShowPage(r)
    PROVE  WebInv'
<1>0. /\ TypeOK /\ state \in [Requests -> States] /\ page \in Pages
      /\ pending \in Nat /\ settled \in Nat
  BY DEF WebInv, WebTypeOK, TypeOK
<1>1. UNCHANGED vars
  BY DEF GetState, ShowPage
<1>2. Inv'
  BY <1>1, TypeStep, BatchStep, CountStep, PaceStep, WatchStep, LateStep, StatsStep
     DEF WebInv, Inv
<1>3. /\ at' = at /\ found' = found /\ pending' = pending /\ settled' = settled
      /\ shared' = shared
  BY <1>1 DEF vars, table
<1>4. state[r] \in States /\ IsPast(state[r]) /\ IsPast(shared) /\ IsPast(page)
  BY <1>0 DEF WebInv, PastInv
<1>5. shared \in States
  BY <1>0 DEF TypeOK, States
<1>6. CASE GetState(r)
  <2>1. state' = [state EXCEPT ![r] = shared] /\ page' = page
    BY <1>6 DEF GetState
  <2>2. state' \in [Requests -> States]
    BY <1>0, <1>5, <2>1
  <2>3. \A q \in Requests : IsPast(state'[q])
    BY <1>0, <1>4, <2>1 DEF WebInv, PastInv
  <2>4. PastInv'
    BY <1>3, <1>4, <2>1, <2>3 DEF PastInv, IsPast, WebInv
  <2>. QED BY <1>0, <1>2, <2>1, <2>2, <2>4 DEF WebInv, WebTypeOK, Inv
<1>7. CASE ShowPage(r)
  <2>1. state' = [state EXCEPT ![r] = NoState] /\ page' = Render(r)
    BY <1>7 DEF ShowPage
  <2>2. NoState \in States /\ IsPast(NoState)
    BY <1>0, UnreadIsPast
  <2>3. state' \in [Requests -> States]
    BY <1>0, <2>1, <2>2
  <2>4. \A q \in Requests : IsPast(state'[q])
    BY <1>0, <2>1, <2>2 DEF WebInv, PastInv
  <2>5. page' \in Pages /\ IsPast(page')
    <3>1. CASE Answers(r)
      <4>1. state[r].found <= pending + settled
        BY <1>0, <1>4 DEF IsPast, States, NoCount
      <4>. QED BY <1>0, <1>4, <2>1, <3>1, <4>1 DEF Render, Counts, Copy, Pages, States, IsPast
    <3>2. CASE ~ Answers(r)
      BY <1>0, <1>4, <2>1, <3>2 DEF Render, Counts, Copy, Pages, States, IsPast
    <3>. QED BY <3>1, <3>2
  <2>6. PastInv'
    BY <1>3, <1>4, <2>4, <2>5 DEF PastInv, IsPast, WebInv
  <2>. QED BY <1>0, <1>2, <2>3, <2>5, <2>6 DEF WebInv, WebTypeOK, Inv
<1>. QED BY <1>6, <1>7

(* The loop: what the requests and the browser hold is older by a step.      *)
LEMMA LoopStep ==
    ASSUME WebInv, [Next]_vars, page' = page,
           state' = state \/ state' = [r \in Requests |-> NoState]
    PROVE  WebInv'
<1>0. TypeOK /\ state \in [Requests -> States] /\ page \in Pages /\ Inv /\ PastInv
  BY DEF WebInv, WebTypeOK
<1>1. Inv' /\ TypeOK'
  BY <1>0, TypeStep, BatchStep, CountStep, PaceStep, WatchStep, LateStep, StatsStep DEF Inv
<1>2. TableGrows
  BY <1>0, TableStep
<1>3. NoState \in States /\ IsPast(NoState)
  BY <1>0, UnreadIsPast
<1>4. /\ page.pending + page.settled <= pending' + settled'
      /\ page.settled <= settled'
      /\ page.found <= page.pending + page.settled
  BY <1>0, <1>1, <1>2, PastStays DEF PastInv, Pages
<1>5. state' \in [Requests -> States]
  BY <1>0, <1>3
<1>6. ASSUME NEW q \in Requests
      PROVE  /\ state'[q].pending + state'[q].settled <= pending' + settled'
             /\ state'[q].settled <= settled'
             /\ state'[q].found <= state'[q].pending + state'[q].settled
  <2>1. state'[q] \in States /\ IsPast(state'[q])
    <3>1. CASE state' = state
      BY <1>0, <3>1 DEF PastInv
    <3>2. CASE state' = [r \in Requests |-> NoState]
      BY <1>3, <3>2
    <3>. QED BY <3>1, <3>2
  <2>. QED BY <1>0, <1>1, <1>2, <2>1, PastStays DEF States
<1>7. IsPast(shared)' /\ (at' = "stored" => found' <= pending' + settled')
  BY <1>0, PublishStep
<1>8. PastInv'
  BY <1>4, <1>6, <1>7 DEF PastInv, IsPast
<1>. QED BY <1>0, <1>1, <1>5, <1>8 DEF WebInv, WebTypeOK

THEOREM WebInvariance == DashboardSpec => []WebInv
<1>1. WebInv /\ [DashboardNext]_<<vars, webVars>> => WebInv'
  <2>. SUFFICES ASSUME WebInv, [DashboardNext]_<<vars, webVars>> PROVE WebInv'
    OBVIOUS
  <2>1. CASE Bridge
    BY <2>1, LoopStep DEF Bridge
  <2>2. CASE \E r \in Requests : GetState(r) \/ ShowPage(r)
    BY <2>2, RequestStep
  <2>3. CASE UNCHANGED <<vars, webVars>>
    BY <2>3, LoopStep DEF webVars
  <2>. QED BY <2>1, <2>2, <2>3 DEF DashboardNext
<1>. QED BY <1>1, WebInit, PTL DEF DashboardSpec

-----------------------------------------------------------------------------
(* The types of the web UI's copies and of the page.                         *)
THEOREM DashboardTypeCorrect == DashboardSpec => []WebTypeOK
BY WebInvariance, PTL DEF WebInv

(* No page of webui.py, however late, counts what the table does not have.   *)
THEOREM PagesArePast == DashboardSpec => []PageIsPast
<1>1. WebInv => PageIsPast
  BY DEF WebInv, PastInv, IsPast, PageIsPast
<1>. QED BY <1>1, WebInvariance, PTL

(* A page that reports n dispatches on the source counts at least n.         *)
THEOREM FoundIsCounted == DashboardSpec => []FoundAreCounted
<1>1. WebInv => FoundAreCounted
  BY DEF WebInv, PastInv, IsPast, FoundAreCounted
<1>. QED BY <1>1, WebInvariance, PTL
=============================================================================
