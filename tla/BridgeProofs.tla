---------------------------- MODULE BridgeProofs ----------------------------
(* Proofs about Bridge, for every set of dispatches, batch limit, set of     *)
(* configurations and number of crashes and signals.                         *)
EXTENDS Bridge, StoreProofs

-----------------------------------------------------------------------------
(* The types of a reply and of the server.                                   *)

LEMMA CategoryTyped ==
    ASSUME NEW r PROVE ErrorCategory(r) \in ErrorCategories
BY DEF ErrorCategory, ErrorCategories

(* The server keeps its types, whatever it does with a POST.                 *)
LEMMA HandleTyped ==
    ASSUME ServerTypeOK, NEW h \in Dispatches, NEW a, NEW stored,
           Handle(h, a, stored)
    PROVE  copies' \in [Dispatches -> Nat] /\ filtered' \subseteq Dispatches
BY DEF ServerTypeOK, Handle

LEMMA AbandonTyped ==
    ASSUME ServerTypeOK, NEW h \in Dispatches, Abandon(h)
    PROVE  orphans' \in [Dispatches -> Nat]
BY DEF ServerTypeOK, Abandon

LEMMA LateTyped ==
    ASSUME ServerTypeOK, NEW h \in Dispatches, LateArrival(h) \/ LateLoss(h)
    PROVE  ServerTypeOK'
<1>1. orphans' \in [Dispatches -> Nat]
  BY DEF ServerTypeOK, LateArrival, LateLoss
<1>2. CASE LateArrival(h)
  BY <1>1, <1>2, HandleTyped DEF ServerTypeOK, LateArrival
<1>3. CASE LateLoss(h)
  BY <1>1, <1>3 DEF ServerTypeOK, LateLoss
<1> QED
  BY <1>2, <1>3

-----------------------------------------------------------------------------
(* Type correctness.                                                         *)

LEMMA RestTyped ==
    /\ NoConfig \in [dry_run : BOOLEAN, max_delivery_attempts : Int]
    /\ Waiting \in Replies /\ NoResponse \in Replies
    /\ Absent \in Row
BY DEF NoConfig, Replies, Absent, Row, ErrorCategories

LEMMA GoneTyped ==
    ASSUME ProcessGone
    PROVE  /\ pc' \in Locations /\ stop' \in BOOLEAN
           /\ cfg' \in [dry_run : BOOLEAN, max_delivery_attempts : Int]
           /\ page' \subseteq Dispatches /\ batch' \subseteq Dispatches
           /\ cur' \in Dispatches \cup {NoDispatch}
           /\ reply' \in Replies
BY RestTyped DEF ProcessGone, Locations

LEMMA TypeInit == Init => TypeOK
<1> SUFFICES ASSUME Init PROVE TypeOK
  OBVIOUS
<1>1. StoreTypeOK
  BY RestTyped DEF Init, StoreInit, StoreTypeOK
<1>2. ServerTypeOK /\ doubts \in [Dispatches -> Nat]
  BY DEF Init, ServerInit, ServerTypeOK
<1> QED
  BY <1>1, <1>2, RestTyped DEF Init, TypeOK, Locations

LEMMA TypeStep == TypeOK /\ LoopShape /\ [Next]_vars => TypeOK'
<1> SUFFICES ASSUME TypeOK, LoopShape, [Next]_vars
             PROVE  TypeOK'
  OBVIOUS
<1> USE DEF TypeOK, histVars, serverVars, loopVars, Locations
<1>1. ASSUME NEW c \in Configs, StartService(c)
      PROVE  TypeOK'
  BY <1>1, BridgeAssumption DEF StartService, StoreTypeOK, ServerTypeOK
<1>2. CASE Shutdown
  BY <1>2, RestTyped DEF Shutdown, ProcessGone, StoreTypeOK, ServerTypeOK
<1>3. CASE Poll
  BY <1>3 DEF Poll, StoreTypeOK, ServerTypeOK
<1>4. CASE FetchFails
  BY <1>4 DEF FetchFails, StoreTypeOK, ServerTypeOK
<1>5. CASE FetchSucceeds
  BY <1>5 DEF FetchSucceeds, StoreTypeOK, ServerTypeOK
<1>6. ASSUME NEW h \in Dispatches, StoreNext(h)
      PROVE  TypeOK'
  <2>1. StoreTypeOK'
    BY <1>6, InsertTyped DEF StoreNext
  <2> QED
    BY <1>6, <2>1 DEF StoreNext, ServerTypeOK
<1>7. CASE SelectPending
  BY <1>7 DEF SelectPending, Deliveries, GetPending, Ready, In, StoreTypeOK,
              ServerTypeOK
<1>8. ASSUME NEW h \in Dispatches, BeginPost(h)
      PROVE  TypeOK'
  BY <1>8, RestTyped DEF BeginPost, StoreTypeOK, ServerTypeOK
<1>9. CASE EndBatch
  BY <1>9 DEF EndBatch, StoreTypeOK, ServerTypeOK
<1>10. CASE PagerMonAnswers
  <2>0. cur \in Dispatches
    BY <1>10 DEF PagerMonAnswers, LoopShape
  <2>1. PICK a \in Answers, stored \in BOOLEAN :
           Handle(cur, a, stored) /\ reply' = a
    BY <1>10 DEF PagerMonAnswers
  <2>2. copies' \in [Dispatches -> Nat] /\ filtered' \subseteq Dispatches
    BY <2>0, <2>1, HandleTyped
  <2> QED
    BY <1>10, <2>0, <2>1, <2>2 DEF PagerMonAnswers, Replies, StoreTypeOK, ServerTypeOK
<1>11. CASE PostFails
  BY <1>11, RestTyped DEF PostFails, Abandon, StoreTypeOK, ServerTypeOK
<1>12. CASE MarkResult
  <2>0. cur \in Dispatches
    BY <1>12 DEF MarkResult, LoopShape
  <2>1. StoreTypeOK'
    BY <1>12, <2>0, MarkDeliveredTyped, MarkFailedTyped, CategoryTyped DEF MarkResult
  <2>2. doubts' \in [Dispatches -> Nat]
    <3>1. doubts' = [doubts EXCEPT ![cur] = IF Unsettled(reply)
                                            THEN doubts[cur] + 1 ELSE doubts[cur]]
      BY <1>12 DEF MarkResult
    <3> QED
      BY ONLY <3>1, <2>0, doubts \in [Dispatches -> Nat]
  <2>3. /\ cur' = NoDispatch /\ reply' = Waiting /\ pc' = "deliver"
        /\ UNCHANGED <<serverVars, cfg, stop, page, batch, crashes, signals>>
    BY <1>12 DEF MarkResult
  <2> QED
    BY <2>1, <2>2, <2>3, RestTyped DEF ServerTypeOK
<1>13. CASE Tick
  BY <1>13, TickTyped DEF Tick, ServerTypeOK
<1>14. CASE Signal
  BY <1>14 DEF Signal, StoreTypeOK, ServerTypeOK
<1>15. CASE Crash
  <2>1. orphans' \in [Dispatches -> Nat]
    BY <1>15, AbandonTyped DEF Crash, LoopShape, ServerTypeOK
  <2>2. doubts' \in [Dispatches -> Nat]
    BY <1>15 DEF Crash
  <2>3. ProcessGone /\ crashes' = crashes + 1
        /\ UNCHANGED <<table, copies, filtered, signals>>
    BY <1>15 DEF Crash
  <2> QED
    <3>1. StoreTypeOK' /\ ServerTypeOK'
      BY <2>1, <2>3 DEF StoreTypeOK, ServerTypeOK
    <3>2. crashes' \in Nat /\ signals' \in Nat
      BY <2>3
    <3> QED
      BY <2>2, <2>3, <3>1, <3>2, GoneTyped
<1>16. CASE LatePost
  BY <1>16, LateTyped DEF LatePost, StoreTypeOK
<1>17. CASE UNCHANGED vars
  BY <1>17 DEF vars, StoreTypeOK, ServerTypeOK
<1> QED
  BY <1>1, <1>2, <1>3, <1>4, <1>5, <1>6, <1>7, <1>8, <1>9, <1>10, <1>11,
     <1>12, <1>13, <1>14, <1>15, <1>16, <1>17 DEF Next, Loop

LEMMA ShapeInit == Init => LoopShape
BY BridgeAssumption DEF Init, LoopShape, NoConfig

LEMMA ShapeStep == TypeOK /\ LoopShape /\ [Next]_vars => LoopShape'
<1> SUFFICES ASSUME TypeOK, LoopShape, [Next]_vars
             PROVE  LoopShape'
  OBVIOUS
<1> USE DEF LoopShape
<1>1. ASSUME NEW c \in Configs, StartService(c)
      PROVE  LoopShape'
  BY <1>1, BridgeAssumption DEF StartService
<1>2. CASE Shutdown \/ Crash
  BY <1>2, BridgeAssumption DEF Shutdown, Crash, ProcessGone, NoConfig
<1>3. CASE Poll \/ FetchFails \/ FetchSucceeds
  BY <1>3 DEF Poll, FetchFails, FetchSucceeds
<1>4. ASSUME NEW h \in Dispatches, StoreNext(h)
      PROVE  LoopShape'
  BY <1>4 DEF StoreNext
<1>5. CASE SelectPending \/ EndBatch
  BY <1>5 DEF SelectPending, EndBatch
<1>6. ASSUME NEW h \in Dispatches, BeginPost(h)
      PROVE  LoopShape'
  BY <1>6, DispatchAssumption DEF BeginPost
<1>7. CASE PagerMonAnswers \/ PostFails
  BY <1>7 DEF PagerMonAnswers, PostFails
<1>8. CASE MarkResult
  BY <1>8 DEF MarkResult
<1>9. CASE Tick \/ Signal \/ LatePost \/ UNCHANGED vars
  BY <1>9 DEF Tick, Signal, LatePost, vars, loopVars
<1> QED
  BY <1>1, <1>2, <1>3, <1>4, <1>5, <1>6, <1>7, <1>8, <1>9 DEF Next, Loop

(* Every variable of the bridge keeps its type, and each local variable of   *)
(* the loop is used only where the loop uses it.                             *)
THEOREM TypeCorrect == Spec => [](TypeOK /\ LoopShape)
<1>1. Init => TypeOK /\ LoopShape
  BY TypeInit, ShapeInit
<1>2. TypeOK /\ LoopShape /\ [Next]_vars => (TypeOK /\ LoopShape)'
  BY TypeStep, ShapeStep
<1> QED
  BY <1>1, <1>2, PTL DEF Spec

-----------------------------------------------------------------------------
(* The batch stays fresh.                                                    *)

(* Pending rows are all a batch is drawn from.                               *)
LEMMA DeliveriesReady ==
    \A h \in Deliveries : /\ h \in Dispatches /\ table[h].state = "pending"
                          /\ table[h].due = 0 /\ ~ cfg.dry_run
BY DEF Deliveries, GetPending, Ready, In

LEMMA FreshInit == Init => BatchStaysFresh
BY DispatchAssumption DEF Init, BatchStaysFresh

LEMMA FreshStep ==
    TypeOK /\ LoopShape /\ BatchStaysFresh /\ [Next]_vars => BatchStaysFresh'
<1> SUFFICES ASSUME TypeOK, LoopShape, BatchStaysFresh, [Next]_vars
             PROVE  BatchStaysFresh'
  OBVIOUS
<1>0. NoDispatch \notin batch /\ StoreTypeOK /\ batch \subseteq Dispatches
  BY DispatchAssumption DEF TypeOK
<1>1. ASSUME NEW c \in Configs, StartService(c)
      PROVE  BatchStaysFresh'
  BY <1>1 DEF StartService, LoopShape, BatchStaysFresh
<1>2. CASE Shutdown \/ Crash
  BY <1>2 DEF Shutdown, Crash, ProcessGone, BatchStaysFresh
<1>3. CASE Poll \/ FetchFails \/ FetchSucceeds
  BY <1>3 DEF Poll, FetchFails, FetchSucceeds, BatchStaysFresh
<1>4. ASSUME NEW h \in Dispatches, StoreNext(h)
      PROVE  BatchStaysFresh'
  BY <1>4 DEF StoreNext, LoopShape, BatchStaysFresh
<1>5. CASE SelectPending
  <2>1. cur = NoDispatch
    BY <1>5 DEF SelectPending, LoopShape
  <2> QED
    BY <1>5, <2>1, DeliveriesReady, DispatchAssumption
       DEF SelectPending, BatchStaysFresh
<1>6. ASSUME NEW h \in Dispatches, BeginPost(h)
      PROVE  BatchStaysFresh'
  BY <1>6 DEF BeginPost, IsNext, BatchStaysFresh
<1>7. CASE EndBatch
  BY <1>7 DEF EndBatch, BatchStaysFresh, LoopShape
<1>8. CASE PagerMonAnswers \/ PostFails \/ Signal
  BY <1>8 DEF PagerMonAnswers, PostFails, Signal, BatchStaysFresh
<1>9. CASE MarkResult
  <2>1. cur \in Dispatches /\ table[cur].state = "pending" /\ cur \in Known
    BY <1>9 DEF MarkResult, LoopShape, TypeOK, BatchStaysFresh, Known, In
  <2>2. \A g \in Dispatches \ {cur} : table'[g] = table[g]
    BY <1>0, <1>9, <2>1, DeliveredEffect, FailedEffect DEF MarkResult, TypeOK
  <2>3. cur' = NoDispatch /\ UNCHANGED <<batch, cfg>>
    BY <1>9 DEF MarkResult
  <2> QED
    BY <1>0, <2>2, <2>3 DEF BatchStaysFresh
<1>10. CASE Tick
  <2>1. \A g \in Dispatches : table[g].due = 0 => table'[g] = table[g]
    BY <1>0, <1>10, TickEffect DEF Tick
  <2> QED
    BY <1>0, <1>10, <2>1 DEF Tick, loopVars, BatchStaysFresh, TypeOK
<1>11. CASE LatePost \/ UNCHANGED vars
  BY <1>11 DEF LatePost, vars, loopVars, BatchStaysFresh
<1> QED
  BY <1>1, <1>2, <1>3, <1>4, <1>5, <1>6, <1>7, <1>8, <1>9, <1>10, <1>11
     DEF Next, Loop

(* Whenever a message is POSTed, and while it waits in the batch, it is      *)
(* pending, due and unsettled, and the service is not in a dry run.          *)
THEOREM BatchFresh == Spec => []BatchStaysFresh
<1> DEFINE I == TypeOK /\ LoopShape /\ BatchStaysFresh
<1>1. Init => I
  BY TypeInit, ShapeInit, FreshInit
<1>2. I /\ [Next]_vars => I'
  BY TypeStep, ShapeStep, FreshStep
<1> QED
  BY <1>1, <1>2, PTL DEF Spec

-----------------------------------------------------------------------------
(* The accounts: attempts, doubts and copies.                                *)

LEMMA RepliesDiffer ==
    /\ \A r : Success(r) => ~ Unsettled(r) /\ r # Waiting
    /\ ~ Unsettled(Waiting) /\ Unsettled(NoResponse) /\ NoResponse # Waiting
    /\ Waiting \notin Answers
<1>1. \A r : Success(r) => ~ Unsettled(r) /\ r # Waiting
  <2>1. /\ NoResponse.status = 0 /\ Waiting.status = 0
        /\ [status |-> 500, body |-> "text"].status = 500
    BY DEF NoResponse, Waiting
  <2> QED
    BY <2>1 DEF Success, Unsettled
<1>2. NoResponse # Waiting
  <2>1. NoResponse.body # Waiting.body
    BY DEF NoResponse, Waiting
  <2> QED
    BY <2>1
<1>3. Waiting # [status |-> 500, body |-> "text"]
  <2>1. Waiting.status # 500
    BY DEF Waiting
  <2> QED
    BY <2>1
<1>4. Waiting \notin Answers
  <2>1. \A a \in Answers : a.status # 0
    BY DEF Answers
  <2>2. Waiting.status = 0
    BY DEF Waiting
  <2> QED
    BY <2>1, <2>2
<1> QED
  BY <1>1, <1>2, <1>3, <1>4 DEF Unsettled

(* What recording the result of a POST does.                                 *)
LEMMA MarkEffect ==
    ASSUME TypeOK, LoopShape, BatchStaysFresh, MarkResult
    PROVE  /\ cur \in Known /\ cur \in Dispatches
           /\ table[cur].state = "pending"
           /\ \A g \in Dispatches \ {cur} : table'[g] = table[g]
           /\ table'[cur].seen = table[cur].seen
           /\ Success(reply) => /\ table'[cur].state = "delivered"
                               /\ table'[cur].attempts = table[cur].attempts
                               /\ table'[cur].due = table[cur].due
           /\ ~ Success(reply) =>
                /\ table'[cur].attempts = table[cur].attempts + 1
                /\ table'[cur].state =
                     IF table[cur].attempts + 1 >= cfg.max_delivery_attempts
                     THEN "dead_letter" ELSE "pending"
           /\ \A g \in Dispatches \ {cur} : doubts'[g] = doubts[g]
           /\ doubts'[cur] = IF Unsettled(reply) THEN doubts[cur] + 1 ELSE doubts[cur]
           /\ cur' = NoDispatch /\ reply' = Waiting
           /\ UNCHANGED <<copies, filtered, orphans, crashes, batch>>
<1>1. /\ cur \in Dispatches /\ table[cur].state = "pending" /\ cur \in Known
      /\ StoreTypeOK /\ cfg.max_delivery_attempts \in Int
  BY DEF MarkResult, LoopShape, TypeOK, BatchStaysFresh, Known, In
<1>2. doubts' = [doubts EXCEPT ![cur] = IF Unsettled(reply)
                                        THEN doubts[cur] + 1 ELSE doubts[cur]]
  BY DEF MarkResult
<1>3. CASE Success(reply)
  <2>1. MarkDelivered(cur)
    BY <1>3 DEF MarkResult
  <2> QED
    BY <1>1, <1>2, <1>3, <2>1, DeliveredEffect DEF MarkResult, serverVars, TypeOK
<1>4. CASE ~ Success(reply)
  <2>1. MarkFailed(cur, ErrorCategory(reply), cfg.max_delivery_attempts)
    BY <1>4 DEF MarkResult
  <2> QED
    BY <1>1, <1>2, <1>4, <2>1, FailedEffect DEF MarkResult, serverVars, TypeOK
<1> QED
  BY <1>3, <1>4

(* What a step may do to a crash's victim.                                   *)
LEMMA CrashEffect ==
    ASSUME TypeOK, LoopShape, BatchStaysFresh, Crash
    PROVE  /\ \A h \in Dispatches :
                /\ doubts'[h] = IF h = cur THEN doubts[h] + 1 ELSE doubts[h]
                /\ orphans'[h] = IF h = cur /\ reply = Waiting
                                 THEN orphans[h] + 1 ELSE orphans[h]
           /\ cur # NoDispatch => cur \in Dispatches /\ table[cur].state = "pending"
           /\ crashes' = crashes + 1
           /\ cur' = NoDispatch /\ reply' = Waiting
           /\ UNCHANGED <<table, copies, filtered>>
<1>1. cur # NoDispatch => cur \in Dispatches /\ table[cur].state = "pending"
  BY DEF TypeOK, BatchStaysFresh
<1>2. /\ crashes' = crashes + 1 /\ cur' = NoDispatch /\ reply' = Waiting
      /\ UNCHANGED <<table, copies, filtered>>
      /\ doubts' = [h \in Dispatches |->
                       IF h = cur THEN doubts[h] + 1 ELSE doubts[h]]
  BY DEF Crash, ProcessGone
<1>3. \A h \in Dispatches : orphans'[h] = IF h = cur /\ reply = Waiting
                                          THEN orphans[h] + 1 ELSE orphans[h]
  BY DispatchAssumption
     DEF Crash, Abandon, LoopShape, TypeOK, ServerTypeOK
<1> QED
  BY <1>1, <1>2, <1>3

LEMMA UntouchedInit == Init => AbsentIsUntouched
BY DEF Init, StoreInit, ServerInit, AbsentIsUntouched, In

LEMMA UntouchedStep ==
    TypeOK /\ LoopShape /\ BatchStaysFresh /\ AbsentIsUntouched /\ [Next]_vars
        => AbsentIsUntouched'
<1> SUFFICES ASSUME TypeOK, LoopShape, BatchStaysFresh, AbsentIsUntouched,
                    [Next]_vars,
                    NEW h \in Dispatches, table'[h].state = "absent"
             PROVE  table'[h] = Absent /\ doubts'[h] = 0 /\ orphans'[h] = 0
  BY DEF AbsentIsUntouched, In
<1> DEFINE Same == UNCHANGED <<table, doubts, orphans>>
<1>a. StoreTypeOK /\ ServerTypeOK
  BY DEF TypeOK
<1>b. table[h].state = "absent" =>
        table[h] = Absent /\ doubts[h] = 0 /\ orphans[h] = 0
  BY DEF AbsentIsUntouched, In
<1>1. ASSUME NEW c \in Configs, StartService(c)
      PROVE  Same
  BY <1>1 DEF StartService, serverVars, histVars
<1>2. CASE Shutdown \/ Poll \/ FetchFails \/ FetchSucceeds \/ SelectPending
           \/ EndBatch \/ PagerMonAnswers \/ Signal
  <2>1. Same
    BY <1>2 DEF Shutdown, Poll, FetchFails, FetchSucceeds, SelectPending,
                EndBatch, PagerMonAnswers, Signal, serverVars, histVars
  <2> QED
    BY <1>b, <2>1
<1>3. ASSUME NEW g \in Dispatches, StoreNext(g)
      PROVE  table[h].state = "absent" /\ table'[h] = table[h]
             /\ UNCHANGED <<doubts, orphans>>
  BY <1>3, <1>a, InsertEffect DEF StoreNext, serverVars, histVars, Known, In
<1>4. ASSUME NEW g \in Dispatches, BeginPost(g)
      PROVE  Same
  BY <1>4 DEF BeginPost, serverVars, histVars
<1>5. CASE PostFails
  <2>1. cur \in Dispatches /\ table[cur].state = "pending" /\ UNCHANGED <<table, doubts>>
    BY <1>5 DEF PostFails, LoopShape, TypeOK, BatchStaysFresh, histVars
  <2>2. h # cur => orphans'[h] = orphans[h]
    BY <1>5, <1>a, <2>1 DEF PostFails, Abandon, ServerTypeOK
  <2> QED
    BY <1>b, <2>1, <2>2
<1>6. CASE MarkResult
  BY <1>6, <1>b, MarkEffect
<1>7. CASE Crash
  BY <1>7, <1>b, CrashEffect, DispatchAssumption
<1>8. CASE Tick
  <2>1. UNCHANGED <<doubts, orphans>> /\ ClockTick
    BY <1>8 DEF Tick, serverVars, histVars
  <2> QED
    BY <1>a, <1>b, <2>1, TickEffect DEF Absent
<1>9. CASE LatePost
  <2>1. UNCHANGED <<table, doubts>>
    BY <1>9 DEF LatePost, histVars
  <2>2. orphans[h] = 0 => orphans'[h] = 0
    BY <1>9, <1>a DEF LatePost, LateArrival, LateLoss, ServerTypeOK
  <2> QED
    BY <1>b, <2>1, <2>2
<1>10. CASE UNCHANGED vars
  BY <1>10, <1>b DEF vars, serverVars, histVars
<1> QED
  BY <1>b, <1>1, <1>2, <1>3, <1>4, <1>5, <1>6, <1>7, <1>8, <1>9, <1>10
     DEF Next, Loop

(* The actions that leave the accounts alone.                                *)
Quiet == \/ Shutdown \/ Poll \/ FetchFails \/ FetchSucceeds \/ SelectPending
         \/ EndBatch \/ Signal \/ UNCHANGED vars
         \/ \E c \in Configs : StartService(c)
         \/ \E h \in Dispatches : BeginPost(h)

LEMMA QuietEffect ==
    ASSUME TypeOK, LoopShape, Quiet
    PROVE  /\ UNCHANGED <<table, copies, filtered, orphans, doubts, crashes>>
           /\ \/ UNCHANGED <<cur, reply>>
              \/ reply = Waiting /\ reply' = Waiting
<1>1. CASE Shutdown \/ Poll \/ FetchFails \/ FetchSucceeds \/ SelectPending
           \/ EndBatch \/ Signal \/ UNCHANGED vars
  BY <1>1 DEF Shutdown, ProcessGone, Poll, FetchFails, FetchSucceeds,
              SelectPending, EndBatch, Signal, vars, serverVars, histVars,
              loopVars, LoopShape
<1>2. ASSUME NEW c \in Configs, StartService(c)
      PROVE  UNCHANGED <<table, copies, filtered, orphans, doubts, crashes, cur, reply>>
  BY <1>2 DEF StartService, serverVars, histVars
<1>3. ASSUME NEW h \in Dispatches, BeginPost(h)
      PROVE  /\ UNCHANGED <<table, copies, filtered, orphans, doubts, crashes>>
             /\ reply = Waiting /\ reply' = Waiting
  BY <1>3 DEF BeginPost, serverVars, histVars, LoopShape
<1> QED
  BY <1>1, <1>2, <1>3 DEF Quiet

LEMMA NextCases ==
    [Next]_vars => \/ Quiet \/ PagerMonAnswers \/ PostFails \/ MarkResult
                   \/ Crash \/ Tick \/ LatePost
                   \/ \E h \in Dispatches : StoreNext(h)
BY DEF Next, Loop, Quiet

LEMMA AttemptsInit == Init => AttemptsCounted
BY BridgeAssumption DEF Init, StoreInit, AttemptsCounted, Absent

LEMMA AttemptsStep ==
    TypeOK /\ LoopShape /\ BatchStaysFresh /\ AbsentIsUntouched
        /\ AttemptsCounted /\ [Next]_vars => AttemptsCounted'
<1> SUFFICES ASSUME TypeOK, LoopShape, BatchStaysFresh, AbsentIsUntouched,
                    AttemptsCounted, [Next]_vars, NEW h \in Dispatches
             PROVE  /\ doubts'[h] <= table'[h].attempts + crashes'
                    /\ table'[h].attempts <= MostAttempts
                    /\ table'[h].state # "dead_letter" =>
                          table'[h].attempts < MostAttempts
  BY DEF AttemptsCounted
<1>a. StoreTypeOK /\ crashes \in Nat /\ doubts[h] \in Nat
      /\ table[h].attempts \in Nat /\ MostAttempts \in Nat \ {0}
      /\ cfg.max_delivery_attempts \in Int
  BY BridgeAssumption DEF TypeOK, StoreTypeOK, Row
<1>b. /\ doubts[h] <= table[h].attempts + crashes
      /\ table[h].attempts <= MostAttempts
      /\ table[h].state # "dead_letter" => table[h].attempts < MostAttempts
  BY DEF AttemptsCounted
<1>1. CASE Quiet
  BY <1>1, <1>b, QuietEffect
<1>2. CASE PagerMonAnswers \/ PostFails \/ LatePost
  BY <1>2, <1>b DEF PagerMonAnswers, PostFails, LatePost, histVars
<1>3. CASE MarkResult
  <2>1. cfg.max_delivery_attempts <= MostAttempts
    BY DEF LoopShape
  <2>2. CASE h = cur
    <3>1. CASE Success(reply)
      BY <1>3, <1>a, <1>b, <2>2, <3>1, MarkEffect, RepliesDiffer
    <3>2. CASE ~ Success(reply)
      BY <1>3, <1>a, <1>b, <2>1, <2>2, <3>2, MarkEffect
    <3> QED
      BY <3>1, <3>2
  <2>3. CASE h # cur
    BY <1>3, <1>a, <1>b, <2>3, MarkEffect
  <2> QED
    BY <2>2, <2>3
<1>4. CASE Crash
  BY <1>4, <1>a, <1>b, CrashEffect
<1>5. CASE Tick
  BY <1>5, <1>a, <1>b, TickEffect DEF Tick, histVars
<1>6. ASSUME NEW g \in Dispatches, StoreNext(g)
      PROVE  /\ doubts'[h] <= table'[h].attempts + crashes'
             /\ table'[h].attempts <= MostAttempts
             /\ table'[h].state # "dead_letter" =>
                   table'[h].attempts < MostAttempts
  <2>1. UNCHANGED <<doubts, crashes>> /\ InsertIfNew(g)
    BY <1>6 DEF StoreNext, histVars
  <2>2. CASE h # g \/ g \in Known
    BY <1>a, <1>b, <2>1, <2>2, InsertEffect
  <2>3. CASE h = g /\ g \notin Known
    <3>1. doubts[h] = 0
      BY <2>3 DEF AbsentIsUntouched, Known
    <3> QED
      BY <1>a, <2>1, <2>3, <3>1, InsertEffect
  <2> QED
    BY <2>2, <2>3
<1> QED
  BY <1>1, <1>2, <1>3, <1>4, <1>5, <1>6, NextCases

LEMMA ExplainedInit == Init => DuplicatesExplained
BY DEF Init, StoreInit, ServerInit, DuplicatesExplained

(* What the server may do with one POST of g.                                *)
LEMMA HandleEffect ==
    ASSUME ServerTypeOK, NEW g \in Dispatches, NEW a \in Answers,
           NEW stored \in BOOLEAN, Handle(g, a, stored)
    PROVE  /\ \A h \in Dispatches \ {g} : copies'[h] = copies[h]
           /\ copies'[g] = IF stored THEN copies[g] + 1 ELSE copies[g]
           /\ filtered' = IF a.body = "filtered" THEN filtered \cup {g} ELSE filtered
           /\ stored => Success(a) \/ Unsettled(a)
<1>1. stored => Success(a) \/ Unsettled(a)
  <2>1. a.body = "id" => a.status = 200
    BY DEF Answers
  <2> QED
    BY <2>1 DEF Handle, MayAnswer, Success, Unsettled
<1> QED
  BY <1>1 DEF Handle, ServerTypeOK

LEMMA ExplainedStep ==
    TypeOK /\ LoopShape /\ BatchStaysFresh /\ AbsentIsUntouched
        /\ DuplicatesExplained /\ [Next]_vars => DuplicatesExplained'
<1> DEFINE Slack(h) == IF MayBeStored(h) THEN 1 ELSE 0
<1> SUFFICES ASSUME TypeOK, LoopShape, BatchStaysFresh, AbsentIsUntouched,
                    DuplicatesExplained, [Next]_vars, NEW h \in Dispatches
             PROVE  copies'[h] + orphans'[h] <= doubts'[h] + Slack(h)'
  BY DEF DuplicatesExplained
<1>a. /\ StoreTypeOK /\ ServerTypeOK
      /\ copies[h] \in Nat /\ orphans[h] \in Nat /\ doubts[h] \in Nat
  BY DEF TypeOK, ServerTypeOK
<1>b. copies[h] + orphans[h] <= doubts[h] + Slack(h)
  BY DEF DuplicatesExplained
<1>c. cur = h => table[h].state # "delivered"
  BY DispatchAssumption DEF BatchStaysFresh
<1>1. CASE Quiet
  <2>1. UNCHANGED <<table, copies, orphans, doubts>> /\ (MayBeStored(h) => MayBeStored(h)')
    BY <1>1, QuietEffect, RepliesDiffer DEF MayBeStored
  <2> QED
    BY <1>a, <1>b, <2>1
<1>2. CASE PagerMonAnswers
  <2>1. PICK a \in Answers, stored \in BOOLEAN :
           Handle(cur, a, stored) /\ reply' = a
    BY <1>2 DEF PagerMonAnswers
  <2>2. /\ reply = Waiting /\ cur \in Dispatches
        /\ UNCHANGED <<table, orphans, doubts, cur>>
    BY <1>2 DEF PagerMonAnswers, LoopShape, TypeOK, histVars
  <2>3. CASE h = cur
    <3>1. Slack(h) = 0
      BY <1>c, <2>2, <2>3, RepliesDiffer DEF MayBeStored
    <3>2. stored => Slack(h)' = 1
      BY <1>a, <2>1, <2>2, <2>3, HandleEffect DEF MayBeStored
    <3>3. copies'[h] = IF stored THEN copies[h] + 1 ELSE copies[h]
      BY <1>a, <2>1, <2>2, <2>3, HandleEffect
    <3> QED
      BY <1>a, <1>b, <2>2, <3>1, <3>2, <3>3
  <2>4. CASE h # cur
    <3>1. copies'[h] = copies[h]
      BY <1>a, <2>1, <2>2, <2>4, HandleEffect
    <3>2. MayBeStored(h)' = MayBeStored(h)
      BY <2>2, <2>4 DEF MayBeStored
    <3> QED
      BY <1>a, <1>b, <2>2, <3>1, <3>2
  <2> QED
    BY <2>3, <2>4
<1>3. CASE PostFails
  <2>1. /\ cur \in Dispatches /\ reply' = NoResponse
        /\ UNCHANGED <<table, copies, doubts, cur>>
        /\ IF reply = Waiting THEN Abandon(cur) ELSE UNCHANGED orphans
    BY <1>3 DEF PostFails, LoopShape, TypeOK, histVars
  <2>2. CASE h = cur
    <3>1. Slack(h)' = 1
      BY <2>1, <2>2, RepliesDiffer DEF MayBeStored
    <3>2. reply = Waiting => Slack(h) = 0 /\ orphans'[h] = orphans[h] + 1
      BY <1>a, <1>c, <2>1, <2>2, RepliesDiffer DEF MayBeStored, Abandon, ServerTypeOK
    <3>3. reply # Waiting => orphans'[h] = orphans[h]
      BY <2>1
    <3> QED
      BY <1>a, <1>b, <2>1, <3>1, <3>2, <3>3
  <2>3. CASE h # cur
    <3>1. orphans'[h] = orphans[h]
      BY <1>a, <2>1, <2>3 DEF Abandon, ServerTypeOK
    <3>2. MayBeStored(h)' = MayBeStored(h)
      BY <2>1, <2>3 DEF MayBeStored
    <3> QED
      BY <1>a, <1>b, <2>1, <3>1, <3>2
  <2> QED
    BY <2>2, <2>3
<1>4. CASE MarkResult
  <2>1. CASE h = cur
    <3>1. Success(reply) => Slack(h)' = 1 /\ doubts'[h] = doubts[h]
      BY <1>4, <2>1, MarkEffect, RepliesDiffer DEF MayBeStored
    <3>2. Unsettled(reply) => doubts'[h] = doubts[h] + 1
      BY <1>4, <2>1, MarkEffect
    <3>3. ~ Success(reply) /\ ~ Unsettled(reply) =>
            Slack(h) = 0 /\ doubts'[h] = doubts[h]
      BY <1>4, <1>c, <2>1, MarkEffect DEF MayBeStored
    <3>4. UNCHANGED <<copies, orphans>>
      BY <1>4, MarkEffect
    <3>5. Slack(h) \in {0, 1} /\ Slack(h)' \in {0, 1}
      OBVIOUS
    <3> QED
      BY <1>a, <1>b, <3>1, <3>2, <3>3, <3>4, <3>5
  <2>2. CASE h # cur
    <3>1. MayBeStored(h)' = MayBeStored(h)
      BY <1>4, <2>2, MarkEffect, DispatchAssumption DEF MayBeStored
    <3> QED
      BY <1>4, <1>a, <1>b, <2>2, <3>1, MarkEffect
  <2> QED
    BY <2>1, <2>2
<1>5. CASE Crash
  <2>1. /\ doubts'[h] = IF h = cur THEN doubts[h] + 1 ELSE doubts[h]
        /\ orphans'[h] = IF h = cur /\ reply = Waiting
                         THEN orphans[h] + 1 ELSE orphans[h]
        /\ cur' = NoDispatch /\ UNCHANGED <<table, copies>>
    BY <1>5, CrashEffect
  <2>2. CASE h = cur
    <3>1. reply = Waiting => Slack(h) = 0
      BY <1>c, <2>2, RepliesDiffer DEF MayBeStored
    <3>2. Slack(h) \in {0, 1} /\ Slack(h)' \in {0, 1}
      OBVIOUS
    <3> QED
      BY <1>a, <1>b, <2>1, <2>2, <3>1, <3>2
  <2>3. CASE h # cur
    <3>1. MayBeStored(h)' = MayBeStored(h)
      BY <2>1, <2>3, DispatchAssumption DEF MayBeStored
    <3> QED
      BY <1>a, <1>b, <2>1, <2>3, <3>1
  <2> QED
    BY <2>2, <2>3
<1>6. CASE Tick
  <2>1. table'[h].state = table[h].state /\ UNCHANGED <<copies, orphans, doubts, cur, reply>>
    BY <1>6, <1>a, TickEffect DEF Tick, serverVars, loopVars, histVars
  <2>2. MayBeStored(h)' = MayBeStored(h)
    BY <2>1 DEF MayBeStored
  <2> QED
    BY <1>a, <1>b, <2>1, <2>2
<1>7. CASE LatePost
  <2>1. PICK g \in Dispatches : LateArrival(g) \/ LateLoss(g)
    BY <1>7 DEF LatePost
  <2>2. UNCHANGED <<table, doubts, cur, reply>>
    BY <1>7 DEF LatePost, loopVars, histVars
  <2>3. MayBeStored(h)' = MayBeStored(h)
    BY <2>2 DEF MayBeStored
  <2>4. /\ orphans[g] > 0
        /\ orphans'[h] = IF h = g THEN orphans[h] - 1 ELSE orphans[h]
    BY <1>a, <2>1 DEF LateArrival, LateLoss, ServerTypeOK
  <2>5. copies'[h] = copies[h] \/ (h = g /\ copies'[h] = copies[h] + 1)
    <3>1. CASE LateArrival(g)
      <4>1. PICK a \in Answers, stored \in BOOLEAN : Handle(g, a, stored)
        BY <3>1 DEF LateArrival
      <4> QED
        BY <1>a, <4>1, HandleEffect
    <3>2. CASE LateLoss(g)
      BY <3>2 DEF LateLoss
    <3> QED
      BY <2>1, <3>1, <3>2
  <2> QED
    BY <1>a, <1>b, <2>2, <2>3, <2>4, <2>5
<1>8. ASSUME NEW g \in Dispatches, StoreNext(g)
      PROVE  copies'[h] + orphans'[h] <= doubts'[h] + Slack(h)'
  <2>1. UNCHANGED <<copies, orphans, doubts, cur, reply>> /\ InsertIfNew(g)
    BY <1>8 DEF StoreNext, serverVars, histVars
  <2>2. MayBeStored(h)' = MayBeStored(h)
    BY <1>a, <2>1, InsertEffect DEF MayBeStored, Known, In
  <2> QED
    BY <1>a, <1>b, <2>1, <2>2
<1> QED
  BY <1>1, <1>2, <1>3, <1>4, <1>5, <1>6, <1>7, <1>8, NextCases

LEMMA AccountsInit == Init => Accounts
BY TypeInit, ShapeInit, FreshInit, UntouchedInit, AttemptsInit, ExplainedInit
   DEF Accounts

LEMMA AccountsStep == Accounts /\ [Next]_vars => Accounts'
BY TypeStep, ShapeStep, FreshStep, UntouchedStep, AttemptsStep, ExplainedStep
   DEF Accounts

LEMMA AccountsInvariant == Spec => []Accounts
BY AccountsInit, AccountsStep, PTL DEF Spec

(* Every copy PagerMon holds or may still take beyond the first is the       *)
(* doing of a POST the bridge could not learn or record the outcome of.      *)
THEOREM CopiesAreExplained == Spec => []DuplicatesExplained
<1>1. Accounts => DuplicatesExplained
  BY DEF Accounts
<1> QED
  BY <1>1, AccountsInvariant, PTL

LEMMA BudgetFollows == Accounts => RetryBudget
<1> SUFFICES ASSUME Accounts, NEW h \in Dispatches
             PROVE  copies[h] + orphans[h] <= MostAttempts + crashes
  BY DEF RetryBudget
<1>1. /\ copies[h] \in Nat /\ orphans[h] \in Nat /\ doubts[h] \in Nat
      /\ table[h].attempts \in Nat /\ crashes \in Nat /\ MostAttempts \in Nat
  BY BridgeAssumption DEF Accounts, TypeOK, StoreTypeOK, ServerTypeOK, Row
<1>2. /\ copies[h] + orphans[h] <= doubts[h] + (IF MayBeStored(h) THEN 1 ELSE 0)
      /\ doubts[h] <= table[h].attempts + crashes
      /\ table[h].attempts <= MostAttempts
      /\ table[h].state # "dead_letter" => table[h].attempts < MostAttempts
  BY DEF Accounts, DuplicatesExplained, AttemptsCounted
<1>3. MayBeStored(h) => table[h].state # "dead_letter"
  BY DispatchAssumption DEF Accounts, BatchStaysFresh, MayBeStored
<1> QED
  BY <1>1, <1>2, <1>3

(* No outage, however long, and no sequence of restarts, with whatever       *)
(* limits, puts a dispatch into PagerMon more often than the largest         *)
(* MAX_DELIVERY_ATTEMPTS plus the number of crashes.                         *)
THEOREM BudgetIsKept == Spec => []RetryBudget
BY BudgetFollows, AccountsInvariant, PTL

-----------------------------------------------------------------------------
(* Settled rows are final.                                                   *)

LEMMA FinalStep ==
    ASSUME Accounts, [Next]_vars, NEW h \in Dispatches, Settled(h)
    PROVE  /\ table'[h].state = table[h].state
           /\ table'[h].attempts = table[h].attempts
<1> USE DEF Accounts
<1>a. StoreTypeOK /\ h \in Known
  BY DEF TypeOK, Settled, Known, In
<1>1. CASE Quiet
  BY <1>1, QuietEffect
<1>2. CASE PagerMonAnswers \/ PostFails \/ LatePost
  BY <1>2 DEF PagerMonAnswers, PostFails, LatePost
<1>3. CASE MarkResult
  BY <1>3, MarkEffect DEF Settled
<1>4. CASE Crash
  BY <1>4, CrashEffect
<1>5. CASE Tick
  BY <1>5, <1>a, TickEffect DEF Tick
<1>6. ASSUME NEW g \in Dispatches, StoreNext(g)
      PROVE  table'[h] = table[h]
  BY <1>6, <1>a, InsertEffect DEF StoreNext
<1> QED
  BY <1>1, <1>2, <1>3, <1>4, <1>5, <1>6, NextCases

(* No step reopens, recounts or re-settles a delivered or dead-lettered row. *)
THEOREM SettledRowsAreFinal == Spec => SettledIsFinal
<1>1. Accounts /\ [Next]_vars =>
        [\A h \in Dispatches : Settled(h) =>
            /\ table'[h].state = table[h].state
            /\ table'[h].attempts = table[h].attempts]_vars
  BY FinalStep
<1> QED
  BY <1>1, AccountsInvariant, PTL DEF Spec, SettledIsFinal

-----------------------------------------------------------------------------
(* Delivered means held, when no stray 200 answers a POST.                   *)

Held(h) == copies[h] > 0 \/ h \in filtered

LEMMA HandleHolds ==
    ASSUME ServerTypeOK, NEW g \in Dispatches, NEW a \in Answers,
           NEW stored \in BOOLEAN, Handle(g, a, stored)
    PROVE  /\ \A h \in Dispatches : Held(h) => Held(h)'
           /\ ~ StrayPages /\ Success(a) => Held(g)'
<1>1. /\ \A h \in Dispatches \ {g} : copies'[h] = copies[h]
      /\ copies'[g] = IF stored THEN copies[g] + 1 ELSE copies[g]
      /\ filtered' = IF a.body = "filtered" THEN filtered \cup {g} ELSE filtered
  BY HandleEffect
<1>2. copies[g] \in Nat
  BY DEF ServerTypeOK
<1>3. \A h \in Dispatches : Held(h) => Held(h)'
  BY <1>1, <1>2 DEF Held
<1>4. ASSUME ~ StrayPages, Success(a) PROVE Held(g)'
  <2>1. a.body \in {"id", "duplicate", "filtered", "page"}
    BY <1>4 DEF Success, Answers
  <2>2. /\ a.body = "id" => stored
        /\ a.body = "duplicate" => copies[g] > 0
        /\ a.body # "page"
    BY <1>4 DEF Handle, MayAnswer
  <2> QED
    BY <1>1, <1>2, <2>1, <2>2 DEF Held
<1> QED
  BY <1>3, <1>4

LEMMA HeldGrows ==
    ASSUME Accounts, [Next]_vars, NEW h \in Dispatches, Held(h)
    PROVE  Held(h)'
<1> USE DEF Accounts
<1>a. ServerTypeOK /\ cur \in Dispatches \cup {NoDispatch}
  BY DEF TypeOK
<1>1. CASE Quiet
  BY <1>1, QuietEffect DEF Held
<1>2. CASE PagerMonAnswers
  BY <1>2, <1>a, HandleHolds DEF PagerMonAnswers, LoopShape
<1>3. CASE LatePost
  <2>1. PICK g \in Dispatches : LateArrival(g) \/ LateLoss(g)
    BY <1>3 DEF LatePost
  <2> QED
    BY <1>a, <2>1, HandleHolds DEF LateArrival, LateLoss, Held
<1>4. CASE MarkResult \/ Crash
  BY <1>4, MarkEffect, CrashEffect DEF Held
<1>5. CASE PostFails \/ Tick \/ \E g \in Dispatches : StoreNext(g)
  BY <1>5 DEF PostFails, Tick, StoreNext, serverVars, Held
<1> QED
  BY <1>1, <1>2, <1>3, <1>4, <1>5, NextCases

LEMMA HeldStep ==
    ~ StrayPages /\ Accounts /\ HeldInv /\ [Next]_vars => HeldInv'
<1> SUFFICES ASSUME ~ StrayPages, Accounts, HeldInv, [Next]_vars
             PROVE  HeldInv'
  OBVIOUS
<1>a. TypeOK /\ LoopShape /\ BatchStaysFresh /\ StoreTypeOK /\ ServerTypeOK
  BY DEF Accounts, TypeOK
<1>b. \A h \in Dispatches : Held(h) => Held(h)'
  BY HeldGrows
<1>c. /\ Success(reply) => cur \in Dispatches /\ Held(cur)
      /\ \A h \in Dispatches : table[h].state = "delivered" => Held(h)
  BY <1>a, RepliesDiffer
     DEF HeldInv, SuccessIsHeld, DeliveredIsHeld, In, Held, LoopShape, TypeOK
<1> SUFFICES
       /\ Success(reply') => Held(cur)'
       /\ \A h \in Dispatches : table'[h].state = "delivered" => Held(h)'
  BY DEF HeldInv, SuccessIsHeld, DeliveredIsHeld, In, Held, Success
<1>1. CASE Quiet
  BY <1>1, <1>a, <1>b, <1>c, QuietEffect, RepliesDiffer
<1>2. CASE PagerMonAnswers
  <2>1. UNCHANGED <<table, cur>> /\ cur \in Dispatches
    BY <1>2, <1>a DEF PagerMonAnswers, LoopShape, TypeOK
  <2> QED
    BY <1>2, <1>a, <1>b, <1>c, <2>1, HandleHolds DEF PagerMonAnswers
<1>3. CASE PostFails
  <2>1. reply' = NoResponse /\ UNCHANGED table
    BY <1>3 DEF PostFails
  <2> QED
    BY <1>b, <1>c, <2>1, RepliesDiffer
<1>4. CASE MarkResult
  <2>1. cur \in Dispatches /\ reply' = Waiting
    BY <1>4, <1>a, MarkEffect
  <2>2. \A h \in Dispatches \ {cur} : table'[h] = table[h]
    BY <1>4, <1>a, MarkEffect
  <2>3. table'[cur].state = "delivered" => Success(reply)
    BY <1>4, <1>a, MarkEffect
  <2> QED
    BY <1>b, <1>c, <2>1, <2>2, <2>3, RepliesDiffer
<1>5. CASE Crash
  BY <1>5, <1>a, <1>b, <1>c, CrashEffect, RepliesDiffer
<1>6. CASE Tick
  <2>1. UNCHANGED <<cur, reply>>
        /\ \A h \in Dispatches : table'[h].state = table[h].state
    BY <1>6, <1>a, TickEffect DEF Tick, loopVars
  <2> QED
    BY <1>b, <1>c, <2>1
<1>7. CASE LatePost
  BY <1>7, <1>b, <1>c DEF LatePost, loopVars
<1>8. ASSUME NEW g \in Dispatches, StoreNext(g)
      PROVE  /\ Success(reply') => Held(cur)'
             /\ \A h \in Dispatches : table'[h].state = "delivered" => Held(h)'
  <2>1. UNCHANGED <<cur, reply>> /\ InsertIfNew(g)
    BY <1>8 DEF StoreNext
  <2>2. \A h \in Dispatches : table'[h].state = "delivered" => table'[h] = table[h]
    BY <1>a, <2>1, InsertEffect
  <2> QED
    BY <1>b, <1>c, <2>1, <2>2
<1> QED
  BY <1>1, <1>2, <1>3, <1>4, <1>5, <1>6, <1>7, <1>8, NextCases

LEMMA HeldInit == Init => HeldInv
BY RepliesDiffer
   DEF Init, StoreInit, Absent, HeldInv, SuccessIsHeld, DeliveredIsHeld, In

LEMMA HeldInvariant ==
    ASSUME ~ StrayPages
    PROVE  Spec => [](Accounts /\ HeldInv)
<1>1. Init => Accounts /\ HeldInv
  BY AccountsInit, HeldInit
<1>2. Accounts /\ HeldInv /\ [Next]_vars => (Accounts /\ HeldInv)'
  BY AccountsStep, HeldStep
<1> QED
  BY <1>1, <1>2, PTL DEF Spec

(* If every 200 comes from PagerMon's message endpoint, a delivered dispatch *)
(* is one PagerMon has stored or filtered.                                   *)
THEOREM DeliveredMeansHeld ==
    ASSUME ~ StrayPages
    PROVE  Spec => []DeliveredIsHeld
<1>1. Accounts /\ HeldInv => DeliveredIsHeld
  BY DEF HeldInv
<1> QED
  BY <1>1, HeldInvariant, PTL

-----------------------------------------------------------------------------
(* The bridge implements the ledger.                                         *)

LEMMA LedgerInit == Init => Ledger!Init
<1> SUFFICES ASSUME Init PROVE Ledger!Init
  OBVIOUS
<1>1. \A h \in Dispatches : table[h].state = "absent" /\ ~ (copies[h] > 0)
  BY DEF Init, StoreInit, ServerInit, Absent
<1>2. filtered = {}
  BY DEF Init, ServerInit
<1> QED
  BY <1>1, <1>2 DEF Ledger!Init

LEMMA LedgerTake ==
    ASSUME Accounts, NEW g \in Dispatches, table[g].state # "absent",
           NEW a \in Answers, NEW stored \in BOOLEAN, Handle(g, a, stored),
           \A h \in Dispatches : table'[h].state = table[h].state
    PROVE  Ledger!Next \/ UNCHANGED <<[h \in Dispatches |-> table[h].state],
                {h \in Dispatches : copies[h] > 0} \cup filtered>>
<1>a. ServerTypeOK
  BY DEF Accounts, TypeOK
<1>b. [h \in Dispatches |-> table'[h].state] = [h \in Dispatches |-> table[h].state]
  OBVIOUS
<1>1. /\ \A h \in Dispatches \ {g} : copies'[h] = copies[h]
      /\ copies'[g] = IF stored THEN copies[g] + 1 ELSE copies[g]
      /\ filtered' = IF a.body = "filtered" THEN filtered \cup {g} ELSE filtered
      /\ \A h \in Dispatches : copies[h] \in Nat
      /\ filtered \subseteq Dispatches
  BY <1>a, HandleEffect DEF ServerTypeOK
<1>2. CASE stored \/ a.body = "filtered"
  <2>1. {h \in Dispatches : copies'[h] > 0} \cup filtered'
          = ({h \in Dispatches : copies[h] > 0} \cup filtered) \cup {g}
    BY <1>1, <1>2
  <2>2. Ledger!Take(g)
    BY <1>b, <2>1 DEF Ledger!Take
  <2> QED
    BY <2>2 DEF Ledger!Next
<1>3. CASE ~ stored /\ a.body # "filtered"
  <2>1. {h \in Dispatches : copies'[h] > 0} = {h \in Dispatches : copies[h] > 0}
    BY <1>1, <1>3
  <2> QED
    BY <1>1, <1>3, <1>b, <2>1
<1> QED
  BY <1>2, <1>3

LEMMA LedgerStep ==
    ASSUME ~ StrayPages, Accounts, HeldInv, [Next]_vars
    PROVE  Ledger!Next \/ UNCHANGED <<[h \in Dispatches |-> table[h].state],
                {h \in Dispatches : copies[h] > 0} \cup filtered>>
<1> DEFINE status == [h \in Dispatches |-> table[h].state]
           held == {h \in Dispatches : copies[h] > 0} \cup filtered
<1>a. TypeOK /\ LoopShape /\ BatchStaysFresh /\ StoreTypeOK /\ ServerTypeOK
  BY DEF Accounts, TypeOK
<1>1. CASE Quiet
  BY <1>1, <1>a, QuietEffect
<1>2. CASE PagerMonAnswers
  <2>1. cur \in Dispatches /\ table[cur].state # "absent" /\ UNCHANGED table
    BY <1>2, <1>a DEF PagerMonAnswers, LoopShape, TypeOK, BatchStaysFresh
  <2> QED
    BY <1>2, <2>1, LedgerTake DEF PagerMonAnswers
<1>3. CASE PostFails
  BY <1>3 DEF PostFails
<1>4. CASE MarkResult
  <2>0. PICK g \in Dispatches : g = cur
    BY <1>4, <1>a, MarkEffect
  <2>1. /\ cur \in Dispatches /\ table[cur].state = "pending"
        /\ \A k \in Dispatches \ {cur} : table'[k] = table[k]
        /\ UNCHANGED held
    BY <1>4, <1>a, MarkEffect
  <2>2. \A s : table'[cur].state = s => status' = [status EXCEPT ![cur] = s]
    BY <2>1
  <2>3. CASE Success(reply)
    <3>1. table'[cur].state = "delivered"
      BY <1>4, <1>a, <2>3, MarkEffect
    <3>2. cur \in held
      BY <2>1, <2>3 DEF HeldInv, SuccessIsHeld
    <3>3. Ledger!Deliver(g)
      BY <2>0, <2>1, <2>2, <3>1, <3>2 DEF Ledger!Deliver
    <3> QED
      BY <3>3 DEF Ledger!Next
  <2>4. CASE ~ Success(reply)
    <3>1. table'[cur].state \in {"dead_letter", "pending"}
      BY <1>4, <1>a, <2>4, MarkEffect
    <3>2. CASE table'[cur].state = "dead_letter"
      <4>1. Ledger!GiveUp(g)
        BY <2>0, <2>1, <2>2, <3>2 DEF Ledger!GiveUp
      <4> QED
        BY <4>1 DEF Ledger!Next
    <3>3. CASE table'[cur].state = "pending"
      BY <2>1, <3>3
    <3> QED
      BY <3>1, <3>2, <3>3
  <2> QED
    BY <2>3, <2>4
<1>5. CASE Crash
  BY <1>5, <1>a, CrashEffect
<1>6. CASE Tick
  <2>1. UNCHANGED <<copies, filtered>>
        /\ \A h \in Dispatches : table'[h].state = table[h].state
    BY <1>6, <1>a, TickEffect DEF Tick, serverVars
  <2> QED
    BY <2>1
<1>7. CASE LatePost
  <2>1. PICK g \in Dispatches : LateArrival(g) \/ LateLoss(g)
    BY <1>7 DEF LatePost
  <2>2. UNCHANGED table
    BY <1>7 DEF LatePost
  <2>3. CASE LateArrival(g)
    <3>1. PICK a \in Answers, stored \in BOOLEAN : Handle(g, a, stored)
      BY <2>3 DEF LateArrival
    <3>2. table[g].state # "absent"
      BY <2>3 DEF LateArrival, Accounts, AbsentIsUntouched, In
    <3> QED
      BY <2>2, <3>1, <3>2, LedgerTake
  <2>4. CASE LateLoss(g)
    BY <2>2, <2>4 DEF LateLoss
  <2> QED
    BY <2>1, <2>3, <2>4
<1>8. ASSUME NEW g \in Dispatches, StoreNext(g)
      PROVE  Ledger!Next \/ UNCHANGED <<status, held>>
  <2>1. UNCHANGED <<copies, filtered>> /\ InsertIfNew(g)
    BY <1>8 DEF StoreNext, serverVars
  <2>2. CASE g \in Known
    BY <1>a, <2>1, <2>2, InsertEffect
  <2>3. CASE g \notin Known
    <3>1. status[g] = "absent"
      BY <2>3 DEF Known, In
    <3>2. status' = [status EXCEPT ![g] = "pending"]
      BY <1>a, <2>1, <2>3, InsertEffect
    <3>3. Ledger!Observe(g)
      BY <2>1, <3>1, <3>2 DEF Ledger!Observe
    <3> QED
      BY <3>3 DEF Ledger!Next
  <2> QED
    BY <2>2, <2>3
<1> QED
  BY <1>1, <1>2, <1>3, <1>4, <1>5, <1>6, <1>7, <1>8, NextCases

(* Whatever the loop, its crashes and the network do, the queue and PagerMon *)
(* together behave as the ledger promises.                                   *)
THEOREM BridgeImplementsLedger ==
    ASSUME ~ StrayPages
    PROVE  Spec => LedgerSpec
<1>1. Accounts /\ HeldInv /\ [Next]_vars =>
        [Ledger!Next]_<<[h \in Dispatches |-> table[h].state],
                        {h \in Dispatches : copies[h] > 0} \cup filtered>>
  BY LedgerStep
<1> QED
  BY <1>1, LedgerInit, HeldInvariant, PTL DEF Spec, LedgerSpec, Ledger!Spec

-----------------------------------------------------------------------------
(* First POSTs go in the order of first sight.                               *)

(* An older row that was never POSTed is in any batch a younger one is in.   *)
LEMMA BatchClosed ==
    ASSUME Accounts, QueueInOrder, NEW h \in Deliveries, NEW g \in Known,
           Older(g, h), ~ Posted(g)
    PROVE  g \in Deliveries
<1> DEFINE lower(x) == {k \in Ready : Older(k, x)}
<1>1. ~ cfg.dry_run /\ h \in GetPending(BatchLimit)
  BY DEF Deliveries
<1>2. g \in Dispatches /\ g \in Ready
  <2>1. g \in Dispatches /\ table[g].state \in {"pending", "delivered", "dead_letter"}
    BY DEF Known, In, Accounts, TypeOK, StoreTypeOK, Row
  <2>2. table[g].state = "pending" /\ ~ (table[g].attempts > 0) /\ table[g].attempts \in Nat
    BY <2>1 DEF Posted, Settled, Accounts, TypeOK, StoreTypeOK, Row
  <2>3. table[g].due = 0
    BY <2>1, <2>2 DEF QueueInOrder
  <2> QED
    BY <2>1, <2>2, <2>3 DEF Ready, In
<1>3. lower(g) \subseteq lower(h)
  <2>1. \A k \in Ready : table[k].seen \in Nat
    BY DEF Ready, In, Accounts, TypeOK, StoreTypeOK, Row
  <2>2. h \in Ready
    BY <1>1 DEF GetPending
  <2> QED
    BY <1>2, <2>1, <2>2 DEF Older
<1>4. IsFiniteSet(lower(h)) /\ IsFiniteSet(lower(g))
  BY DispatchAssumption, FS_Subset DEF Ready, In
<1>5. /\ Cardinality(lower(g)) <= Cardinality(lower(h))
      /\ Cardinality(lower(g)) \in Nat /\ Cardinality(lower(h)) \in Nat
  BY <1>3, <1>4, FS_Subset, FS_CardinalityType
<1>6. Cardinality(lower(h)) < BatchLimit
  BY <1>1 DEF GetPending
<1>7. Cardinality(lower(g)) < BatchLimit
  BY <1>5, <1>6, BridgeAssumption
<1> QED
  BY <1>1, <1>2, <1>7 DEF Deliveries, GetPending

(* What every action but StoreNext leaves alone.                             *)
LEMMA OrderSteady ==
    ASSUME Accounts, [Next]_vars, NEW h \in Dispatches,
           ~ \E g \in Dispatches : StoreNext(g)
    PROVE  /\ table'[h].seen = table[h].seen
           /\ table'[h].state = "absent" <=> table[h].state = "absent"
           /\ Posted(h) => Posted(h)'
           /\ Posted(h)' => Posted(h) \/ BeginPost(h)
           /\ (table[h].attempts = 0 => table[h].due = 0) =>
                 (table'[h].attempts = 0 => table'[h].due = 0)
<1>a. /\ TypeOK /\ LoopShape /\ BatchStaysFresh /\ StoreTypeOK
      /\ table[h].attempts \in Nat /\ doubts[h] \in Nat
  BY DEF Accounts, TypeOK, StoreTypeOK, Row
<1>1. CASE Shutdown \/ Poll \/ FetchFails \/ FetchSucceeds \/ SelectPending
           \/ EndBatch \/ Signal \/ PagerMonAnswers \/ PostFails \/ LatePost
           \/ UNCHANGED vars \/ \E c \in Configs : StartService(c)
  <2>1. UNCHANGED <<table, doubts>> /\ (cur' = cur \/ (cur = NoDispatch /\ cur' = NoDispatch))
    BY <1>1, <1>a
       DEF Shutdown, ProcessGone, Poll, FetchFails, FetchSucceeds, SelectPending,
           EndBatch, Signal, PagerMonAnswers, PostFails, LatePost, vars,
           StartService, loopVars, histVars, LoopShape
  <2> QED
    BY <2>1 DEF Posted, Settled
<1>2. ASSUME NEW g \in Dispatches, BeginPost(g)
      PROVE  /\ UNCHANGED <<table, doubts>> /\ cur' = g
             /\ cur = NoDispatch
  BY <1>2, <1>a DEF BeginPost, histVars, LoopShape
<1>3. CASE \E g \in Dispatches : BeginPost(g)
  <2>1. PICK g \in Dispatches : BeginPost(g)
    BY <1>3
  <2>2. UNCHANGED <<table, doubts>> /\ cur' = g /\ cur = NoDispatch
    BY <1>2, <2>1
  <2> QED
    BY <2>1, <2>2, DispatchAssumption DEF Posted, Settled
<1>4. CASE MarkResult
  <2>1. CASE h = cur
    <3>1. /\ table[h].state = "pending" /\ table'[h].seen = table[h].seen
          /\ table'[h].state \in {"pending", "delivered", "dead_letter"}
          /\ \/ table'[h].state = "delivered" /\ table'[h].due = table[h].due
                /\ table'[h].attempts = table[h].attempts
             \/ table'[h].attempts = table[h].attempts + 1
      BY <1>4, <1>a, <2>1, MarkEffect
    <3> QED
      BY <1>a, <2>1, <3>1 DEF Posted, Settled
  <2>2. CASE h # cur
    <3>1. table'[h] = table[h] /\ doubts'[h] = doubts[h] /\ cur' = NoDispatch
      BY <1>4, <1>a, <2>2, MarkEffect
    <3> QED
      BY <2>2, <3>1, DispatchAssumption DEF Posted, Settled
  <2> QED
    BY <2>1, <2>2
<1>5. CASE Crash
  <2>1. /\ doubts'[h] = IF h = cur THEN doubts[h] + 1 ELSE doubts[h]
        /\ cur' = NoDispatch /\ UNCHANGED table
    BY <1>5, <1>a, CrashEffect
  <2> QED
    BY <1>a, <2>1, DispatchAssumption DEF Posted, Settled
<1>6. CASE Tick
  <2>1. UNCHANGED <<cur, doubts>> /\ ClockTick
    BY <1>6 DEF Tick, loopVars, histVars
  <2>2. /\ table'[h].state = table[h].state /\ table'[h].seen = table[h].seen
        /\ table'[h].attempts = table[h].attempts
        /\ table[h].due = 0 => table'[h] = table[h]
    BY <1>a, <2>1, TickEffect
  <2> QED
    BY <2>1, <2>2 DEF Posted, Settled
<1> QED
  BY <1>1, <1>3, <1>4, <1>5, <1>6 DEF Next, Loop

(* What those actions do to the batch.                                       *)
LEMMA BatchSteady ==
    ASSUME Accounts, [Next]_vars, ~ SelectPending,
           ~ \E g \in Dispatches : StoreNext(g),
           ~ \E g \in Dispatches : BeginPost(g)
    PROVE  \/ UNCHANGED batch /\ cur' \in {cur, NoDispatch}
           \/ batch' = {} /\ cur' = NoDispatch
<1> USE DEF Accounts, LoopShape
<1>1. CASE Shutdown \/ Crash
  BY <1>1 DEF Shutdown, Crash, ProcessGone
<1>2. CASE Poll \/ FetchFails \/ FetchSucceeds \/ Signal \/ PagerMonAnswers
           \/ PostFails \/ LatePost \/ Tick \/ UNCHANGED vars
           \/ \E c \in Configs : StartService(c)
  BY <1>2 DEF Poll, FetchFails, FetchSucceeds, Signal, PagerMonAnswers,
              PostFails, LatePost, Tick, vars, StartService, loopVars
<1>3. CASE EndBatch
  BY <1>3 DEF EndBatch
<1>4. CASE MarkResult
  BY <1>4 DEF MarkResult
<1> QED
  BY <1>1, <1>2, <1>3, <1>4 DEF Next, Loop

LEMMA OrderInit == Init => Order
<1> SUFFICES ASSUME Init PROVE Order
  OBVIOUS
<1>1. Known = {}
  BY DEF Init, StoreInit, Known, In, Absent
<1>2. /\ batch \cup ({cur} \ {NoDispatch}) = {}
      /\ \A h \in Dispatches : table[h].due = 0
  BY DEF Init, StoreInit, Absent
<1> QED
  BY <1>1, <1>2 DEF Order, QueueInOrder, FirstPostInOrder

(* A new row is ranked above all others and has not been POSTed.             *)
LEMMA OrderInsert ==
    ASSUME Accounts, Order, NEW n \in Dispatches, StoreNext(n)
    PROVE  Order'
<1>a. TypeOK /\ LoopShape /\ StoreTypeOK /\ AbsentIsUntouched
  BY DEF Accounts, TypeOK
<1>1. /\ InsertIfNew(n) /\ UNCHANGED <<doubts, cur, batch>>
      /\ batch = {} /\ cur = NoDispatch
  BY <1>a DEF StoreNext, histVars, LoopShape
<1>2. CASE n \in Known
  <2>1. UNCHANGED <<table, doubts, cur, batch>>
    BY <1>a, <1>1, <1>2, InsertEffect
  <2> QED
    BY <2>1 DEF Order, QueueInOrder, FirstPostInOrder, Known, In, Older, Posted,
                Settled
<1>3. CASE n \notin Known
  <2>1. /\ \A g \in Dispatches \ {n} : table'[g] = table[g]
        /\ table'[n].state = "pending" /\ table'[n].attempts = 0
        /\ table'[n].due = 0 /\ table'[n].seen = Cardinality(Known)
    BY <1>a, <1>1, <1>3, InsertEffect
  <2>2. Known' = Known \cup {n}
    BY <2>1 DEF Known, In
  <2>3. Cardinality(Known') = Cardinality(Known) + 1 /\ Cardinality(Known) \in Nat
    BY <1>3, <2>2, KnownFinite, FS_AddElement
  <2>4. \A g \in Known : /\ table'[g] = table[g] /\ table[g].seen \in Nat
                          /\ table[g].seen < Cardinality(Known)
    BY <1>3, <1>a, <2>1 DEF Known, Order, QueueInOrder, StoreTypeOK, Row
  <2>5. ~ Posted(n)'
    <3>1. doubts'[n] = 0
      BY <1>a, <1>1, <1>3 DEF AbsentIsUntouched, Known
    <3> QED
      BY <1>1, <2>1, <3>1, DispatchAssumption DEF Posted, Settled
  <2>6. \A g \in Known : Posted(g)' = Posted(g)
    BY <1>1, <2>4 DEF Posted, Settled
  <2>7. QueueInOrder'
    <3>1. \A h \in Known' : table'[h].seen < Cardinality(Known')
      BY <2>1, <2>2, <2>3, <2>4
    <3>2. \A h \in Dispatches : table'[h].attempts = 0 => table'[h].due = 0
      BY <2>1 DEF Order, QueueInOrder
    <3>3. batch' \cup ({cur'} \ {NoDispatch}) = {}
      BY <1>1
    <3> QED
      BY <3>1, <3>2, <3>3 DEF QueueInOrder
  <2>8. ASSUME NEW g \in Known', NEW h \in Known', Older(g, h)', Posted(h)'
        PROVE  Posted(g)'
    <3>1. h # n /\ h \in Known
      BY <2>2, <2>5, <2>8
    <3>2. g # n
      <4>1. table'[g].seen < table'[h].seen
        BY <2>8 DEF Older
      <4>2. table'[h].seen \in Nat /\ table'[h].seen < Cardinality(Known)
        BY <2>4, <3>1
      <4> QED
        BY <2>1, <2>3, <4>1, <4>2
    <3>3. g \in Known /\ Older(g, h) /\ Posted(h)
      BY <2>2, <2>4, <2>6, <2>8, <3>1, <3>2 DEF Older
    <3> QED
      BY <2>6, <3>1, <3>3 DEF Order, FirstPostInOrder
  <2> QED
    BY <2>7, <2>8 DEF Order, FirstPostInOrder
<1> QED
  BY <1>2, <1>3

LEMMA OrderStep == Accounts /\ Order /\ [Next]_vars => Order'
<1> SUFFICES ASSUME Accounts, Order, [Next]_vars,
                    ~ \E g \in Dispatches : StoreNext(g)
             PROVE  Order'
  BY OrderInsert
<1>a. TypeOK /\ LoopShape /\ batch \subseteq Dispatches /\ Known \subseteq Dispatches
      /\ cur \in Dispatches \cup {NoDispatch} /\ NoDispatch \notin Dispatches
  BY DispatchAssumption DEF Accounts, TypeOK, Known
<1>b. \A h \in Dispatches :
        /\ table'[h].seen = table[h].seen
        /\ table'[h].state = "absent" <=> table[h].state = "absent"
        /\ Posted(h) => Posted(h)'
        /\ Posted(h)' => Posted(h) \/ BeginPost(h)
        /\ (table[h].attempts = 0 => table[h].due = 0) =>
              (table'[h].attempts = 0 => table'[h].due = 0)
  BY OrderSteady
<1>c. Known' = Known
  BY <1>b DEF Known, In
<1>d. \A g, h \in Known : Older(g, h)' = Older(g, h)
  BY <1>a, <1>b DEF Older
<1>1. /\ \A h \in Known' : table'[h].seen < Cardinality(Known')
      /\ \A h \in Dispatches : table'[h].attempts = 0 => table'[h].due = 0
  BY <1>a, <1>b, <1>c DEF Order, QueueInOrder
<1>2. ASSUME NEW g \in Known, NEW h \in Known, Older(g, h), Posted(h)'
      PROVE  Posted(g)'
  <2>1. CASE Posted(h)
    BY <1>a, <1>2, <1>b, <2>1 DEF Order, FirstPostInOrder
  <2>2. CASE BeginPost(h)
    <3>1. h \in batch /\ \A k \in batch : ~ Older(k, h)
      BY <2>2 DEF BeginPost, IsNext
    <3>2. Posted(g)
      BY <1>2, <3>1 DEF Order, QueueInOrder
    <3> QED
      BY <1>a, <1>b, <3>2
  <2> QED
    BY <1>a, <1>b, <1>2, <2>1, <2>2
<1>3. ASSUME NEW h \in batch' \cup ({cur'} \ {NoDispatch}), NEW g \in Known,
             Older(g, h)', ~ Posted(g)'
      PROVE  g \in batch'
  <2>1. ~ Posted(g) /\ g \in Dispatches
    BY <1>a, <1>b, <1>3
  <2>2. CASE SelectPending
    <3>1. h \in Deliveries /\ batch' = Deliveries /\ UNCHANGED table
      BY <1>a, <1>3, <2>2 DEF SelectPending, LoopShape
    <3> QED
      BY <1>3, <2>1, <3>1, BatchClosed DEF Order, Older
  <2>3. CASE \E k \in Dispatches : BeginPost(k)
    <3>1. PICK k \in Dispatches : BeginPost(k)
      BY <2>3
    <3>2. /\ k \in batch /\ batch' = batch \ {k} /\ cur' = k /\ UNCHANGED table
      BY <3>1 DEF BeginPost, IsNext
    <3>3. g \in batch
      BY <1>3, <2>1, <3>2 DEF Order, QueueInOrder, Older
    <3>4. g # k
      BY <1>3, <3>2 DEF Posted
    <3> QED
      BY <3>2, <3>3, <3>4
  <2>4. CASE ~ SelectPending /\ ~ \E k \in Dispatches : BeginPost(k)
    <3>1. h \in batch \cup ({cur} \ {NoDispatch}) /\ UNCHANGED batch
      BY <1>3, <2>4, BatchSteady
    <3>2. h \in Dispatches /\ Older(g, h)
      BY <1>a, <1>b, <1>3, <2>1, <3>1 DEF Older
    <3> QED
      BY <2>1, <3>1, <3>2 DEF Order, QueueInOrder
  <2> QED
    BY <2>2, <2>3, <2>4
<1> QED
  BY <1>c, <1>d, <1>1, <1>2, <1>3 DEF Order, QueueInOrder, FirstPostInOrder

(* The table's ranks, the batch and the first POSTs stay in the order of     *)
(* first sight: what get_pending's ORDER BY and limit leave of the queue.    *)
THEOREM QueueStaysOrdered == Spec => []Order
<1>1. Init => Accounts /\ Order
  BY AccountsInit, OrderInit
<1>2. Accounts /\ Order /\ [Next]_vars => (Accounts /\ Order)'
  BY AccountsStep, OrderStep
<1> QED
  BY <1>1, <1>2, PTL DEF Spec

(* New dispatches are first POSTed in the order they were first seen, for    *)
(* any batch limit and across retries, crashes and restarts.                 *)
THEOREM FirstPostsInOrder == Spec => []FirstPostInOrder
<1>1. Order => FirstPostInOrder
  BY DEF Order
<1> QED
  BY <1>1, QueueStaysOrdered, PTL

-----------------------------------------------------------------------------
(* No row is passed over.                                                    *)

(* A new row's rank is above all others, and the rest never change theirs.   *)
LEMMA RanksStep == Accounts /\ Order /\ RanksDiffer /\ [Next]_vars => RanksDiffer'
<1> SUFFICES ASSUME Accounts, Order, RanksDiffer, [Next]_vars,
                    NEW g \in Known', NEW h \in Known', g # h
             PROVE  table'[g].seen # table'[h].seen
  BY DEF RanksDiffer
<1>a. StoreTypeOK /\ g \in Dispatches /\ h \in Dispatches /\ Known \subseteq Dispatches
  BY DEF Accounts, TypeOK, Known
<1>1. CASE ~ \E n \in Dispatches : StoreNext(n)
  <2>1. \A k \in {g, h} : table'[k].seen = table[k].seen /\ k \in Known
    BY <1>a, <1>1, OrderSteady DEF Known, In
  <2> QED
    BY <2>1 DEF RanksDiffer
<1>2. ASSUME NEW n \in Dispatches, StoreNext(n)
      PROVE  table'[g].seen # table'[h].seen
  <2>1. InsertIfNew(n)
    BY <1>2 DEF StoreNext
  <2>2. CASE n \in Known
    <3>1. table' = table
      BY <1>a, <2>1, <2>2, InsertEffect
    <3> QED
      BY <3>1 DEF RanksDiffer, Known, In
  <2>3. CASE n \notin Known
    <3>1. /\ \A k \in Dispatches \ {n} : table'[k] = table[k]
          /\ table'[n].seen = Cardinality(Known)
      BY <1>a, <2>1, <2>3, InsertEffect
    <3>2. \A k \in Known : table[k].seen \in Nat /\ table[k].seen < Cardinality(Known)
      BY <1>a DEF Order, QueueInOrder, StoreTypeOK, Row
    <3>3. \A k \in {g, h} \ {n} : k \in Known /\ table'[k].seen = table[k].seen
      BY <1>a, <3>1 DEF Known, In
    <3> QED
      BY <3>1, <3>2, <3>3, KnownFinite DEF RanksDiffer
  <2> QED
    BY <2>2, <2>3
<1> QED
  BY <1>1, <1>2

LEMMA RanksInvariant == Spec => [](Accounts /\ Order /\ RanksDiffer)
<1>1. Init => Accounts /\ Order /\ RanksDiffer
  <2>1. Init => RanksDiffer
    BY DEF Init, StoreInit, RanksDiffer, Known, In, Absent
  <2> QED
    BY <2>1, AccountsInit, OrderInit
<1>2. Accounts /\ Order /\ RanksDiffer /\ [Next]_vars
        => (Accounts /\ Order /\ RanksDiffer)'
  BY AccountsStep, OrderStep, RanksStep
<1> QED
  BY <1>1, <1>2, PTL DEF Spec

(* The only way from the store to the deliveries.                            *)
LEMMA SelectStep ==
    ASSUME [Next]_vars, pc = "store", pc' = "deliver"
    PROVE  SelectPending
<1>1. ~ UNCHANGED pc
  OBVIOUS
<1>2. ~ (Shutdown \/ Poll \/ FetchFails \/ FetchSucceeds \/ EndBatch \/ PostFails
         \/ MarkResult \/ PagerMonAnswers \/ Tick \/ Signal \/ Crash \/ LatePost)
  BY <1>1 DEF Shutdown, Poll, FetchFails, FetchSucceeds, EndBatch, PostFails, MarkResult,
              PagerMonAnswers, Tick, Signal, Crash, LatePost, ProcessGone, loopVars
<1>3. /\ \A c \in Configs : ~ StartService(c)
      /\ \A h \in Dispatches : ~ StoreNext(h) /\ ~ BeginPost(h)
  BY <1>1 DEF StartService, StoreNext, BeginPost
<1> QED
  BY <1>1, <1>2, <1>3 DEF Next, Loop, vars, loopVars

(* get_pending(limit=50) hands the deliveries the oldest ready rows, as many *)
(* as the limit allows: no retry, restart or limit lets a younger row pass.  *)
THEOREM NonePassedOver == Spec => NoRowPassedOver
<1>1. Accounts /\ RanksDiffer /\ [Next]_vars =>
        [pc = "store" /\ pc' = "deliver" /\ ~ cfg.dry_run =>
            OldestReady(batch', BatchLimit)]_vars
  <2> SUFFICES ASSUME Accounts, RanksDiffer, [Next]_vars,
                      pc = "store", pc' = "deliver", ~ cfg.dry_run
               PROVE  OldestReady(batch', BatchLimit)
    OBVIOUS
  <2>1. batch' = GetPending(BatchLimit)
    BY SelectStep DEF SelectPending, Deliveries
  <2>2. OldestReady(GetPending(BatchLimit), BatchLimit)
    BY PendingIsOldest, BridgeAssumption DEF Accounts, TypeOK
  <2> QED
    BY <2>1, <2>2
<1> QED
  BY <1>1, RanksInvariant, PTL DEF Spec, NoRowPassedOver

-----------------------------------------------------------------------------
(* Progress: what a step leaves to do.                                       *)

LEMMA AttemptsLeftType ==
    ASSUME Accounts, NEW h \in Dispatches
    PROVE  /\ AttemptsLeft(h) \in Nat
           /\ ~ Settled(h) => AttemptsLeft(h) > 0
           /\ h \in Known /\ ~ Settled(h) =>
                 AttemptsLeft(h) = MostAttempts - table[h].attempts
<1>1. table[h].attempts \in Nat /\ MostAttempts \in Nat \ {0}
  BY BridgeAssumption DEF Accounts, TypeOK, StoreTypeOK, Row
<1>2. ~ Settled(h) => table[h].attempts < MostAttempts
  BY DEF Accounts, AttemptsCounted, Settled
<1> QED
  BY <1>1, <1>2 DEF AttemptsLeft

(* A step that does not touch a row leaves as much to do.                    *)
LEMMA AttemptsLeftSame ==
    ASSUME NEW h \in Dispatches, table'[h].state = table[h].state,
           table'[h].attempts = table[h].attempts
    PROVE  AttemptsLeft(h)' = AttemptsLeft(h)
BY DEF AttemptsLeft, Settled, Known, In

(* A quiet step takes no dispatch out of a POST.                             *)
LEMMA QuietKeepsCur ==
    ASSUME LoopShape, Quiet
    PROVE  cur' = cur \/ cur = NoDispatch
<1>1. CASE Shutdown \/ Poll \/ FetchFails \/ FetchSucceeds \/ SelectPending
           \/ EndBatch \/ Signal \/ UNCHANGED vars
  BY <1>1 DEF Shutdown, Poll, FetchFails, FetchSucceeds, SelectPending, EndBatch,
              Signal, vars, loopVars, LoopShape
<1>2. ASSUME NEW c \in Configs, StartService(c)
      PROVE  cur' = cur
  BY <1>2 DEF StartService
<1>3. ASSUME NEW h \in Dispatches, BeginPost(h)
      PROVE  cur = NoDispatch
  BY <1>3 DEF BeginPost, LoopShape
<1> QED
  BY <1>1, <1>2, <1>3 DEF Quiet

LEMMA AdvanceStep ==
    ASSUME Accounts, [Next]_vars, NEW h \in Dispatches
    PROVE  /\ AttemptsLeft(h)' <= AttemptsLeft(h)
           /\ cur = h /\ cur' # h =>
                 AttemptsLeft(h)' < AttemptsLeft(h) \/ crashes' > crashes
<1>a. /\ TypeOK /\ LoopShape /\ BatchStaysFresh /\ StoreTypeOK
      /\ h # NoDispatch /\ crashes \in Nat /\ AttemptsLeft(h) \in Nat
  BY AttemptsLeftType, DispatchAssumption DEF Accounts, TypeOK
<1>1. CASE Quiet
  BY <1>a, <1>1, QuietEffect, QuietKeepsCur, AttemptsLeftSame
<1>2. CASE PagerMonAnswers \/ PostFails \/ LatePost
  <2>1. UNCHANGED <<table, cur>>
    BY <1>2 DEF PagerMonAnswers, PostFails, LatePost, loopVars
  <2> QED
    BY <1>a, <2>1, AttemptsLeftSame
<1>3. CASE MarkResult
  <2>1. CASE h # cur
    <3>1. table'[h] = table[h]
      BY <1>a, <1>3, <2>1, MarkEffect
    <3> QED
      BY <1>a, <2>1, <3>1, AttemptsLeftSame
  <2>2. CASE h = cur
    <3>1. /\ ~ Settled(h) /\ h \in Known
          /\ Settled(h)' \/ (~ Settled(h)' /\ table'[h].state = "pending"
                               /\ table'[h].attempts = table[h].attempts + 1)
      BY <1>a, <1>3, <2>2, MarkEffect DEF Settled
    <3>2. AttemptsLeft(h) = MostAttempts - table[h].attempts /\ AttemptsLeft(h) > 0
      BY <3>1, AttemptsLeftType
    <3>3. CASE Settled(h)'
      BY <1>a, <3>2, <3>3 DEF AttemptsLeft
    <3>4. CASE ~ Settled(h)' /\ table'[h].state = "pending"
               /\ table'[h].attempts = table[h].attempts + 1
      <4>1. h \in Known'
        BY <3>4 DEF Known, In
      <4>2. table[h].attempts \in Nat /\ MostAttempts \in Nat
        BY <1>a, BridgeAssumption DEF StoreTypeOK, Row
      <4>3. AttemptsLeft(h)' = MostAttempts - (table[h].attempts + 1)
        BY <3>4, <4>1, <4>2 DEF AttemptsLeft
      <4> QED
        BY <3>2, <4>2, <4>3
    <3> QED
      BY <3>1, <3>3, <3>4
  <2> QED
    BY <2>1, <2>2
<1>4. CASE Crash
  BY <1>a, <1>4, CrashEffect, AttemptsLeftSame
<1>5. CASE Tick
  <2>1. cur' = cur /\ ClockTick
    BY <1>5 DEF Tick, loopVars
  <2> QED
    BY <1>a, <2>1, TickEffect, AttemptsLeftSame
<1>6. ASSUME NEW g \in Dispatches, StoreNext(g)
      PROVE  AttemptsLeft(h)' <= AttemptsLeft(h) /\ cur' = cur
  <2>1. InsertIfNew(g) /\ cur' = cur
    BY <1>6 DEF StoreNext
  <2>2. CASE h # g \/ g \in Known
    BY <1>a, <2>1, <2>2, InsertEffect, AttemptsLeftSame
  <2>3. CASE h = g /\ g \notin Known
    <3>1. /\ table[h].state = "absent" /\ table[h] = Absent
          /\ table'[h].state = "pending" /\ table'[h].attempts = 0
      BY <1>a, <2>1, <2>3, InsertEffect DEF Known, In, Accounts, AbsentIsUntouched
    <3>2. /\ ~ Settled(h) /\ ~ Settled(h)' /\ h \notin Known /\ h \in Known'
          /\ table[h].attempts = 0
      BY <3>1 DEF Settled, Known, In, Absent
    <3> QED
      BY <2>1, <3>1, <3>2, BridgeAssumption DEF AttemptsLeft
  <2> QED
    BY <2>2, <2>3
<1> QED
  BY <1>1, <1>2, <1>3, <1>4, <1>5, <1>6, <1>a, NextCases

(* Every POST whose result is recorded, as a success or by mark_failed,      *)
(* leaves less to do for its dispatch, and no step leaves more: a dispatch   *)
(* is settled after at most MostAttempts of them.                            *)
THEOREM DispatchesAdvance == Spec => DispatchAdvances
<1>1. Accounts /\ [Next]_vars =>
        [\A h \in Dispatches :
            /\ AttemptsLeft(h)' <= AttemptsLeft(h)
            /\ cur = h /\ cur' # h =>
                  AttemptsLeft(h)' < AttemptsLeft(h) \/ crashes' > crashes]_vars
  BY AdvanceStep
<1> QED
  BY <1>1, AccountsInvariant, PTL DEF Spec, DispatchAdvances

(* The measure of a shutdown is a number.                                    *)
LEMMA StepsLeftType == TypeOK => StepsLeft \in Nat
<1>1. /\ IsFiniteSet(Dispatches) /\ Cardinality(Dispatches) \in Nat
      /\ page \subseteq Dispatches => Cardinality(page) \in Nat
  BY DispatchAssumption, FS_Subset, FS_CardinalityType
<1> QED
  BY <1>1 DEF TypeOK, Locations, StepsLeft

(* A dead process has no shutdown to come.                                   *)
StopHasProcess == stop => pc # "down"

LEMMA StopStep == StopHasProcess /\ [Next]_vars => StopHasProcess'
<1> SUFFICES ASSUME StopHasProcess, [Next]_vars
             PROVE  StopHasProcess'
  OBVIOUS
<1> USE DEF StopHasProcess
<1>1. CASE Shutdown \/ Crash
  BY <1>1 DEF Shutdown, Crash, ProcessGone
<1>2. CASE Poll \/ FetchFails \/ FetchSucceeds \/ SelectPending \/ EndBatch
           \/ PagerMonAnswers \/ PostFails \/ MarkResult \/ Signal
  BY <1>2 DEF Poll, FetchFails, FetchSucceeds, SelectPending, EndBatch,
              PagerMonAnswers, PostFails, MarkResult, Signal
<1>3. CASE Tick \/ LatePost \/ UNCHANGED vars
  BY <1>3 DEF Tick, LatePost, vars, loopVars
<1>4. ASSUME NEW c \in Configs, StartService(c)
      PROVE  StopHasProcess'
  BY <1>4 DEF StartService
<1>5. ASSUME NEW h \in Dispatches, StoreNext(h) \/ BeginPost(h)
      PROVE  StopHasProcess'
  BY <1>5 DEF StoreNext, BeginPost
<1> QED
  BY <1>1, <1>2, <1>3, <1>4, <1>5 DEF Next, Loop

LEMMA ShutdownStep ==
    ASSUME TypeOK, LoopShape, TypeOK', StopHasProcess, [Next]_vars, stop
    PROVE  \/ UNCHANGED loopVars
           \/ StepsLeft' < StepsLeft /\ (stop' \/ pc' = "down")
<1>a. /\ Cardinality(Dispatches) \in Nat /\ Cardinality({}) = 0
      /\ \A S \in SUBSET Dispatches :
            /\ IsFiniteSet(S) /\ Cardinality(S) \in Nat
            /\ Cardinality(S) <= Cardinality(Dispatches)
  BY DispatchAssumption, FS_Subset, FS_CardinalityType, FS_EmptySet
<1>b. page \in SUBSET Dispatches /\ page' \in SUBSET Dispatches
  BY DEF TypeOK
<1>1. ASSUME NEW c \in Configs, StartService(c)
      PROVE  FALSE
  BY <1>1 DEF StartService, StopHasProcess
<1>2. CASE Shutdown
  BY <1>2 DEF Shutdown, ProcessGone, StepsLeft
<1>3. CASE Poll \/ Signal
  BY <1>3 DEF Poll, Signal
<1>4. CASE FetchFails
  BY <1>a, <1>4 DEF FetchFails, StepsLeft
<1>5. CASE FetchSucceeds
  <2>1. pc = "fetch" /\ pc' = "store" /\ stop' = stop
    BY <1>5 DEF FetchSucceeds
  <2>2. /\ StepsLeft = Cardinality(Dispatches) + 4
        /\ StepsLeft' = Cardinality(page') + 3
    BY <2>1 DEF StepsLeft
  <2> QED
    BY <1>a, <1>b, <2>1, <2>2
<1>6. ASSUME NEW h \in Dispatches, StoreNext(h)
      PROVE  StepsLeft' < StepsLeft /\ stop'
  <2>1. h \in page /\ page' = page \ {h} /\ pc = "store" /\ pc' = "store" /\ stop'
    BY <1>6 DEF StoreNext
  <2>2. Cardinality(page') = Cardinality(page) - 1
    BY <1>a, <1>b, <2>1, FS_RemoveElement
  <2>3. StepsLeft = Cardinality(page) + 3 /\ StepsLeft' = Cardinality(page') + 3
    BY <2>1 DEF StepsLeft
  <2> QED
    BY <1>a, <1>b, <2>1, <2>2, <2>3
<1>7. CASE SelectPending
  BY <1>a, <1>7 DEF SelectPending, StepsLeft
<1>8. ASSUME NEW h \in Dispatches, BeginPost(h)
      PROVE  FALSE
  BY <1>8 DEF BeginPost
<1>9. CASE EndBatch
  BY <1>9 DEF EndBatch, StepsLeft
<1>10. CASE PagerMonAnswers
  <2>1. reply' \in Answers /\ reply = Waiting /\ pc = "posting" /\ UNCHANGED <<pc, stop>>
    BY <1>10 DEF PagerMonAnswers
  <2>2. NoResponse \notin Answers
    <3>1. NoResponse.status = 0 /\ \A a \in Answers : a.status # 0
      BY DEF NoResponse, Answers
    <3> QED
      BY <3>1
  <2> QED
    BY <2>1, <2>2, RepliesDiffer DEF StepsLeft
<1>11. CASE PostFails
  BY <1>11, RepliesDiffer DEF PostFails, StepsLeft
<1>12. CASE MarkResult
  BY <1>12 DEF MarkResult, StepsLeft
<1>13. CASE Tick \/ LatePost \/ UNCHANGED vars
  BY <1>13 DEF Tick, LatePost, vars
<1>14. CASE Crash
  <2>1. pc # "down" /\ pc' = "down" /\ StepsLeft' = 0
    BY <1>14 DEF Crash, ProcessGone, StepsLeft
  <2>2. StepsLeft > 0
    BY <1>a, <1>b, <2>1 DEF StepsLeft, TypeOK, Locations
  <2> QED
    BY <2>1, <2>2
<1> QED
  BY <1>1, <1>2, <1>3, <1>4, <1>5, <1>6, <1>7, <1>8, <1>9, <1>10, <1>11, <1>12,
     <1>13, <1>14 DEF Next, Loop

(* After SIGINT or SIGTERM every step of the loop is one fewer of at most    *)
(* Cardinality(Dispatches) + 4: no POST is begun and no page fetched.        *)
THEOREM ShutdownIsBounded == Spec => ShutdownAdvances
<1>1. Spec => []StopHasProcess
  <2>1. Init => StopHasProcess
    BY DEF Init, StopHasProcess
  <2> QED
    BY <2>1, StopStep, PTL DEF Spec
<1>2. TypeOK /\ LoopShape /\ TypeOK' /\ StopHasProcess /\ [Next]_vars =>
        [stop => \/ UNCHANGED loopVars
                 \/ StepsLeft' < StepsLeft /\ (stop' \/ pc' = "down")]_vars
  BY ShutdownStep
<1> QED
  BY <1>1, <1>2, TypeCorrect, PTL DEF Spec, ShutdownAdvances

-----------------------------------------------------------------------------
(* The bridge implements the loop that only counts its rows.                 *)

SettledRows == In("delivered") \cup In("dead_letter")

LEMMA RowsFinite ==
    /\ \A S \in SUBSET Dispatches : IsFiniteSet(S) /\ Cardinality(S) \in Nat
    /\ \A state : In(state) \in SUBSET Dispatches
    /\ SettledRows \in SUBSET Dispatches
<1>1. \A S \in SUBSET Dispatches : IsFiniteSet(S) /\ Cardinality(S) \in Nat
  BY DispatchAssumption, FS_Subset, FS_CardinalityType
<1> QED
  BY <1>1 DEF In, SettledRows

LEMMA SameRows ==
    ASSUME \A h \in Dispatches : table'[h].state = table[h].state
    PROVE  In("pending")' = In("pending") /\ SettledRows' = SettledRows
BY DEF In, SettledRows

(* A row that is new is one more pending row and no settled one.             *)
LEMMA CountInsert ==
    ASSUME StoreTypeOK, NEW h \in Dispatches, InsertIfNew(h)
    PROVE  /\ Cardinality(In("pending"))' >= Cardinality(In("pending"))
           /\ SettledRows' = SettledRows
<1>1. CASE h \in Known
  <2>1. table' = table
    BY <1>1, InsertEffect
  <2> QED
    BY <2>1, SameRows, RowsFinite
<1>2. CASE h \notin Known
  <2>1. /\ \A g \in Dispatches \ {h} : table'[g] = table[g]
        /\ table'[h].state = "pending" /\ table[h].state = "absent"
    BY <1>2, InsertEffect DEF Known, In
  <2>2. In("pending")' = In("pending") \cup {h} /\ SettledRows' = SettledRows
    BY <2>1 DEF In, SettledRows
  <2>3. Cardinality(In("pending") \cup {h}) >= Cardinality(In("pending"))
    BY RowsFinite, FS_AddElement
  <2> QED
    BY <2>2, <2>3
<1> QED
  BY <1>1, <1>2

(* A recorded POST takes its own row from the pending to the settled ones,   *)
(* or leaves it where it is.                                                 *)
LEMMA CountMark ==
    ASSUME Accounts, MarkResult
    PROVE  \/ In("pending")' = In("pending") /\ SettledRows' = SettledRows
           \/ /\ Cardinality(In("pending"))' = Cardinality(In("pending")) - 1
              /\ Cardinality(SettledRows)' = Cardinality(SettledRows) + 1
<1>1. /\ cur \in Dispatches /\ table[cur].state = "pending"
      /\ \A g \in Dispatches \ {cur} : table'[g] = table[g]
      /\ table'[cur].state \in {"delivered", "dead_letter", "pending"}
  BY MarkEffect DEF Accounts
<1>2. CASE table'[cur].state = "pending"
  BY <1>1, <1>2, SameRows
<1>3. CASE table'[cur].state \in {"delivered", "dead_letter"}
  <2>1. /\ In("pending")' = In("pending") \ {cur} /\ cur \in In("pending")
        /\ SettledRows' = SettledRows \cup {cur} /\ cur \notin SettledRows
    BY <1>1, <1>3 DEF In, SettledRows
  <2>2. /\ Cardinality(In("pending") \ {cur}) = Cardinality(In("pending")) - 1
        /\ Cardinality(SettledRows \cup {cur}) = Cardinality(SettledRows) + 1
    BY <2>1, RowsFinite, FS_AddElement, FS_RemoveElement
  <2> QED
    BY <2>1, <2>2
<1> QED
  BY <1>1, <1>2, <1>3

(* The batch get_pending selects, counted.                                   *)
LEMMA CountBatch ==
    ASSUME Accounts, RanksDiffer
    PROVE  /\ Cardinality(Deliveries) \in 0 .. BatchLimit
           /\ Cardinality(Deliveries) <= Cardinality(In("pending"))
<1>1. Deliveries \in SUBSET In("pending") /\ In("pending") \in SUBSET Dispatches
  BY RowsFinite DEF Deliveries, GetPending, Ready
<1>2. Cardinality(Deliveries) <= BatchLimit
  <2>1. Cardinality({}) = 0 /\ BatchLimit \in Nat
    BY FS_EmptySet, BridgeAssumption
  <2>2. Cardinality(GetPending(BatchLimit)) <= BatchLimit
    BY <2>1, PendingIsLimited DEF Accounts, TypeOK
  <2> QED
    BY <2>1, <2>2 DEF Deliveries
<1>3. Cardinality(Deliveries) \in Nat /\ IsFiniteSet(In("pending"))
  BY <1>1, RowsFinite
<1> QED
  BY <1>1, <1>2, <1>3, FS_Subset, BridgeAssumption

LEMMA CountedInit == Init => Counted!Init
<1> SUFFICES ASSUME Init PROVE Counted!Init
  OBVIOUS
<1>1. In("pending") = {} /\ In("delivered") = {} /\ In("dead_letter") = {}
  BY DEF Init, StoreInit, In, Absent
<1> QED
  BY <1>1, FS_EmptySet DEF Init, Counted!Init

LEMMA CountedStep ==
    ASSUME Accounts, RanksDiffer, [Next]_vars
    PROVE  Counted!Next \/ UNCHANGED <<pc, Cardinality(In("pending")),
                Cardinality(SettledRows), Cardinality(batch), stop>>
<1> DEFINE counts == <<Cardinality(In("pending")), Cardinality(SettledRows)>>
<1>a. /\ TypeOK /\ LoopShape /\ StoreTypeOK /\ batch \in SUBSET Dispatches
      /\ Cardinality({}) = 0
  BY FS_EmptySet DEF Accounts, TypeOK
<1>b. UNCHANGED table => UNCHANGED counts
  BY SameRows
<1> USE DEF Counted!Go, SettledRows
<1>1. ASSUME NEW c \in Configs, StartService(c)
      PROVE  Counted!Start
  BY <1>1, <1>b DEF StartService, Counted!Start
<1>2. CASE Shutdown \/ Crash
  <2>1. Counted!End
    BY <1>2, <1>a, <1>b DEF Shutdown, Crash, ProcessGone, Counted!End
  <2> QED
    BY <2>1 DEF Counted!Next
<1>3. CASE Poll
  BY <1>3, <1>b DEF Poll, Counted!Fetch, Counted!Next
<1>4. CASE FetchFails \/ FetchSucceeds
  BY <1>4, <1>b DEF FetchFails, FetchSucceeds, Counted!Fetched, Counted!Next
<1>5. ASSUME NEW h \in Dispatches, StoreNext(h)
      PROVE  Counted!Insert
  <2>1. pc = "store" /\ InsertIfNew(h) /\ UNCHANGED <<pc, batch, stop>>
    BY <1>5 DEF StoreNext
  <2> QED
    BY <1>a, <2>1, CountInsert DEF Counted!Insert
<1>6. CASE SelectPending
  <2>1. /\ pc = "store" /\ pc' = "deliver" /\ batch' = Deliveries
        /\ UNCHANGED <<table, stop>>
    BY <1>6 DEF SelectPending
  <2>2. Counted!Select
    BY <1>b, <2>1, CountBatch DEF Counted!Select
  <2> QED
    BY <2>2 DEF Counted!Next
<1>7. ASSUME NEW h \in Dispatches, BeginPost(h)
      PROVE  Counted!Post
  <2>1. /\ pc = "deliver" /\ pc' = "posting" /\ ~ stop
        /\ h \in batch /\ batch' = batch \ {h} /\ UNCHANGED <<table, stop>>
    BY <1>7 DEF BeginPost, IsNext
  <2>2. /\ Cardinality(batch \ {h}) = Cardinality(batch) - 1
        /\ Cardinality(batch) \in Nat /\ Cardinality(batch \ {h}) \in Nat
    BY <1>a, <2>1, RowsFinite, FS_RemoveElement
  <2>3. Cardinality(batch) > 0
    BY <2>2
  <2> QED
    BY <1>b, <2>1, <2>2, <2>3 DEF Counted!Post
<1>8. CASE EndBatch
  BY <1>8, <1>a, <1>b DEF EndBatch, Counted!EndBatch, Counted!Next
<1>9. CASE MarkResult
  <2>1. pc = "posting" /\ pc' = "deliver" /\ UNCHANGED <<batch, stop>>
    BY <1>9 DEF MarkResult
  <2>2. Counted!Record
    BY <1>9, <2>1, CountMark DEF Counted!Record
  <2> QED
    BY <2>2 DEF Counted!Next
<1>10. CASE Signal
  BY <1>10, <1>b DEF Signal, Counted!Signal, Counted!Next
<1>11. CASE PagerMonAnswers \/ PostFails \/ LatePost \/ UNCHANGED vars
  BY <1>11, <1>b DEF PagerMonAnswers, PostFails, LatePost, vars, loopVars
<1>12. CASE Tick
  <2>1. ClockTick /\ UNCHANGED <<pc, batch, stop>>
    BY <1>12 DEF Tick, loopVars
  <2>2. UNCHANGED counts
    BY <1>a, <2>1, TickEffect, SameRows
  <2> QED
    BY <2>1, <2>2
<1> QED
  BY <1>1, <1>2, <1>3, <1>4, <1>5, <1>6, <1>7, <1>8, <1>9, <1>10, <1>11, <1>12
     DEF Next, Loop, Counted!Next

(* With its rows counted, the bridge behaves as the service loop, whatever   *)
(* the configurations, the limit, the crashes and PagerMon's answers: the    *)
(* loop that Poller times and Dashboard watches is this one.                 *)
THEOREM BridgeImplementsLoop == Spec => LoopSpec
<1>1. Accounts /\ RanksDiffer /\ [Next]_vars =>
        [Counted!Next]_<<pc, Cardinality(In("pending")),
            Cardinality(In("delivered") \cup In("dead_letter")),
            Cardinality(batch), stop>>
  BY CountedStep DEF SettledRows
<1> QED
  BY <1>1, CountedInit, RanksInvariant, PTL DEF Spec, LoopSpec, Counted!Spec, Counted!vars

-----------------------------------------------------------------------------
(* What follows for one dispatch.                                            *)

(* Without a timeout, a lost answer or a crash in between, delivery is       *)
(* exactly once, across polls, retries and restarts.                         *)
THEOREM DoubtlessIsOnce ==
    ASSUME ~ StrayPages
    PROVE  Spec => []ExactlyOnce
<1>1. Accounts /\ HeldInv => ExactlyOnce
  <2> SUFFICES ASSUME Accounts, HeldInv, NEW h \in Dispatches, doubts[h] = 0
               PROVE  /\ copies[h] + orphans[h] <= 1
                      /\ table[h].state = "delivered" /\ h \notin filtered =>
                            copies[h] = 1 /\ orphans[h] = 0
    BY DEF ExactlyOnce
  <2>1. copies[h] \in Nat /\ orphans[h] \in Nat
    BY DEF Accounts, TypeOK, ServerTypeOK
  <2>2. copies[h] + orphans[h] <= 1
    BY <2>1 DEF Accounts, DuplicatesExplained
  <2>3. table[h].state = "delivered" /\ h \notin filtered => copies[h] > 0
    BY DEF HeldInv, DeliveredIsHeld, In
  <2> QED
    BY <2>1, <2>2, <2>3
<1> QED
  BY <1>1, HeldInvariant, PTL

(* However often a dispatch has failed, it is due again within the cap of    *)
(* 300 s and the jitter of mark_failed.                                      *)
RetryWithinCap == \A h \in Dispatches : DueWithinCap(h)

LEMMA DueStep == Accounts /\ RetryWithinCap /\ [Next]_vars => RetryWithinCap'
<1> SUFFICES ASSUME Accounts, RetryWithinCap, [Next]_vars, NEW h \in Dispatches
             PROVE  DueWithinCap(h)'
  BY DEF RetryWithinCap
<1>a. TypeOK /\ LoopShape /\ BatchStaysFresh /\ StoreTypeOK /\ DueWithinCap(h)
  BY DEF Accounts, TypeOK, RetryWithinCap
<1>b. table'[h].due = table[h].due => DueWithinCap(h)'
  BY <1>a DEF DueWithinCap
<1>1. CASE Quiet
  BY <1>1, <1>a, <1>b, QuietEffect
<1>2. CASE PagerMonAnswers \/ PostFails \/ LatePost
  BY <1>2, <1>b DEF PagerMonAnswers, PostFails, LatePost
<1>3. CASE MarkResult
  <2>1. CASE h # cur \/ Success(reply)
    BY <1>3, <1>a, <1>b, <2>1, MarkEffect
  <2>2. CASE h = cur /\ ~ Success(reply)
    <3>1. /\ h \in Known /\ cfg.max_delivery_attempts \in Int
          /\ MarkFailed(h, ErrorCategory(reply), cfg.max_delivery_attempts)
      BY <1>3, <1>a, <2>2, MarkEffect DEF MarkResult, TypeOK
    <3> QED
      BY <1>a, <3>1, FailedDue
  <2> QED
    BY <2>1, <2>2
<1>4. CASE Crash
  BY <1>4, <1>a, <1>b, CrashEffect
<1>5. CASE Tick
  BY <1>5, <1>a, TickDue DEF Tick
<1>6. ASSUME NEW g \in Dispatches, StoreNext(g)
      PROVE  DueWithinCap(h)'
  <2>1. InsertIfNew(g)
    BY <1>6 DEF StoreNext
  <2>2. CASE h # g \/ g \in Known
    BY <1>a, <1>b, <2>1, <2>2, InsertEffect
  <2>3. CASE h = g /\ g \notin Known
    <3>1. table'[h].due = 0
      BY <1>a, <2>1, <2>3, InsertEffect
    <3> QED
      BY <3>1, BackoffAssumption DEF DueWithinCap
  <2> QED
    BY <2>2, <2>3
<1> QED
  BY <1>1, <1>2, <1>3, <1>4, <1>5, <1>6, NextCases

(* After any number of failures and restarts get_pending finds the row due   *)
(* again within the cap: no dispatch is put off for good.                    *)
THEOREM RetriesComeSoon == Spec => []RetryWithinCap
<1>1. Init => RetryWithinCap
  BY BackoffAssumption DEF Init, StoreInit, Absent, RetryWithinCap, DueWithinCap
<1> QED
  BY <1>1, DueStep, AccountsInvariant, PTL DEF Spec
=============================================================================
