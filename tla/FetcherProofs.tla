--------------------------- MODULE FetcherProofs ---------------------------
(* Proofs about Fetcher, for any size limit, chunk size and timeouts: every  *)
(* invariant of its run, that a fetch only gets nearer its end, and when it   *)
(* keeps FetchContract.                                                      *)
EXTENDS Fetcher, TLAPS

(* Time for more bytes is more time.                                         *)
LEMMA BytesTime ==
    ASSUME NEW n \in Nat, NEW m \in Nat, n <= m
    PROVE  /\ n * ReadTimeout \in Nat /\ m * ReadTimeout \in Nat
           /\ n * ReadTimeout <= m * ReadTimeout
           /\ (n + 1) * ReadTimeout = n * ReadTimeout + ReadTimeout
<1>1. PICK k \in Nat : m = n + k
  <2>1. m - n \in Nat /\ m = n + (m - n)
    OBVIOUS
  <2>. QED BY <2>1
<1>2. ReadTimeout \in Nat
  BY FetcherAssumption
<1>3. /\ m * ReadTimeout = n * ReadTimeout + k * ReadTimeout
      /\ k * ReadTimeout \in Nat /\ n * ReadTimeout \in Nat
  BY <1>1, <1>2
<1>. QED BY <1>2, <1>3

(* At least one byte more, for at most one timeout more.                     *)
LEMMA ReceiveTime ==
    ASSUME NEW t \in Nat, NEW p \in Nat, NEW q \in Nat, p + 1 <= q,
           NEW e \in Nat, NEW f \in Nat,
           e <= LongestGet + (t + p) * ReadTimeout, f <= e + ReadTimeout
    PROVE  f <= LongestGet + (t + q) * ReadTimeout
<1>1. t + p \in Nat /\ t + p + 1 \in Nat /\ t + q \in Nat /\ t + p + 1 <= t + q
  OBVIOUS
<1>2. (t + p + 1) * ReadTimeout = (t + p) * ReadTimeout + ReadTimeout
  BY <1>1, BytesTime
<1>3. (t + p + 1) * ReadTimeout <= (t + q) * ReadTimeout
  BY <1>1, BytesTime
<1>4. (t + p) * ReadTimeout \in Nat /\ (t + q) * ReadTimeout \in Nat
  <2>1. t + p <= t + p /\ t + q <= t + q
    BY <1>1
  <2>. QED BY <1>1, <2>1, BytesTime
<1>5. LongestGet \in Nat /\ ReadTimeout \in Nat
  BY FetcherAssumption
<1>. QED BY <1>2, <1>3, <1>4, <1>5

-----------------------------------------------------------------------------
(* What elapsed is at each point of a fetch: a timeout for every byte of a   *)
(* body that comes as it is.                                                 *)
TimeInv ==
    /\ at = "get" => elapsed = 0 /\ total = 0 /\ part = 0
    /\ at = "read" /\ ~ coded => elapsed <= LongestGet + (total + part) * ReadTimeout
    /\ at \notin {"get", "read"} => FetchIsBounded

Inv == TypeOK /\ TimeInv

(* The bound, and that it is a number.                                       *)
LEMMA BoundType ==
    ASSUME TypeOK
    PROVE  /\ Limit \in Nat /\ LongestGet \in Nat /\ ReadTimeout \in Nat
           /\ (total + part) * ReadTimeout \in Nat
           /\ (total + part) * ReadTimeout + ReadTimeout
                  <= (Limit + ChunkSize + 1) * ReadTimeout
<1>1. /\ Limit \in Nat /\ LongestGet \in Nat /\ ReadTimeout \in Nat
      /\ ChunkSize \in Nat /\ total + part \in Nat /\ total + part <= Limit + ChunkSize
  BY FetcherAssumption DEF TypeOK, Limit
<1>2. /\ (total + part) * ReadTimeout \in Nat
      /\ (total + part) * ReadTimeout <= (Limit + ChunkSize) * ReadTimeout
  BY <1>1, BytesTime
<1>3. /\ (Limit + ChunkSize + 1) * ReadTimeout = (Limit + ChunkSize) * ReadTimeout + ReadTimeout
      /\ (Limit + ChunkSize) * ReadTimeout \in Nat
  BY <1>1, BytesTime
<1>. QED BY <1>1, <1>2, <1>3

(* A wait is no longer than it may be, and time keeps its type.              *)
LEMMA WithinTime ==
    ASSUME TypeOK, NEW t \in Nat, Within(t)
    PROVE  elapsed' \in 0 .. MaxTime /\ elapsed' <= elapsed + t
<1>1. PICK d \in 0 .. t :
         elapsed' = IF elapsed + d < MaxTime THEN elapsed + d ELSE MaxTime
  BY DEF Within
<1>2. elapsed \in 0 .. MaxTime /\ MaxTime \in Nat
  BY FetcherAssumption DEF TypeOK
<1>3. CASE elapsed + d < MaxTime
  BY <1>1, <1>2, <1>3
<1>4. CASE ~ (elapsed + d < MaxTime)
  BY <1>1, <1>2, <1>4
<1>. QED BY <1>3, <1>4

(* A chunk that fits is kept within the limit.                               *)
LEMMA ChunkFits ==
    ASSUME TypeOK, TakeChunk
    PROVE  \E n \in Nat \ {0} : total' = total + n /\ total' \in 0 .. Limit
                               /\ (~ coded => n = part)
<1>1. PICK n \in Chunks : Fits(total + n) /\ total' = total + n
  BY DEF TakeChunk
<1>2. n \in Nat \ {0} /\ (~ coded => n = part)
  BY <1>1, FetcherAssumption DEF Chunks, TakeChunk, TypeOK
<1>3. total + n \in Nat /\ total + n <= MaxBytes /\ MaxBytes \in Int /\ total \in Nat
  BY <1>1, <1>2, FetcherAssumption DEF Fits, TypeOK, Limit
<1>4. total + n \in 0 .. Limit
  BY <1>2, <1>3 DEF Limit
<1>. QED BY <1>1, <1>2, <1>4

(* Types.                                                                    *)
LEMMA TypeStep == TypeOK /\ [Next]_vars => TypeOK'
<1>. SUFFICES ASSUME TypeOK, [Next]_vars PROVE TypeOK'
  OBVIOUS
<1>0. /\ ReadTimeout \in Nat /\ LongestGet \in Nat /\ MaxFailures \in Nat \ {0}
      /\ ChunkSize \in Nat /\ Limit \in Nat /\ MaxTime \in Nat
  BY FetcherAssumption DEF Limit
<1>1. CASE Begin
  <2>1. /\ at' = "get" /\ coded' = FALSE /\ failures' = failures
        /\ status' = status /\ codec' = codec /\ last' = last
        /\ part' \in 0 .. ChunkSize /\ total' \in 0 .. Limit /\ elapsed' \in 0 .. MaxTime
    BY <1>0, <1>1 DEF Begin
  <2>. QED BY <2>1 DEF TypeOK, Limit
<1>2. CASE GetRaises \/ ReadRaises \/ RefuseChunk \/ NotFound
  <2>1. elapsed' \in 0 .. MaxTime
    BY <1>0, <1>2, WithinTime DEF GetRaises, ReadRaises, RefuseChunk, NotFound, TypeOK
  <2>2. failures' \in 0 .. MaxFailures /\ at' = "idle" /\ last' = "error"
    BY <1>0, <1>2 DEF GetRaises, ReadRaises, RefuseChunk, NotFound, ReturnFailure, TypeOK
  <2>. QED BY <1>0, <1>2, <2>1, <2>2
       DEF GetRaises, ReadRaises, RefuseChunk, NotFound, TypeOK, response, Limit
<1>3. CASE GetReturns
  BY <1>0, <1>3, WithinTime DEF GetReturns, TypeOK, Limit
<1>4. CASE Receive
  BY <1>0, <1>4, WithinTime DEF Receive, TypeOK, response, Limit
<1>5. CASE TakeChunk
  <2>1. total' \in 0 .. Limit
    BY <1>5, ChunkFits
  <2>. QED BY <1>0, <1>5, <2>1 DEF TakeChunk, TypeOK, response, Limit
<1>6. CASE UnpackNothing
  BY <1>0, <1>6 DEF UnpackNothing, TypeOK, response, Limit
<1>7. CASE BodyEnds
  BY <1>0, <1>7, WithinTime DEF BodyEnds, TypeOK, response, Limit
<1>8. CASE Decode \/ DecodeRaises \/ Restart
  BY <1>0, <1>8 DEF Decode, DecodeRaises, Restart, TypeOK, response, Limit
<1>9. CASE UNCHANGED vars
  BY <1>9 DEF vars, response, TypeOK, Limit
<1>. QED BY <1>1, <1>2, <1>3, <1>4, <1>5, <1>6, <1>7, <1>8, <1>9 DEF Next, Fetch

(* The time.                                                                 *)
LEMMA TimeStep == Inv /\ [Next]_vars => TimeInv'
<1>. SUFFICES ASSUME Inv, [Next]_vars PROVE TimeInv'
  OBVIOUS
<1>. USE DEF Inv
<1>0. /\ Limit \in Nat /\ LongestGet \in Nat /\ ReadTimeout \in Nat
      /\ total \in Nat /\ part \in Nat /\ elapsed \in Nat
      /\ (total + part) * ReadTimeout \in Nat
      /\ (total + part) * ReadTimeout + ReadTimeout <= (Limit + ChunkSize + 1) * ReadTimeout
      /\ (Limit + ChunkSize + 1) * ReadTimeout \in Nat
  <2>1. Limit + ChunkSize + 1 \in Nat
    BY BoundType, FetcherAssumption
  <2>. QED BY <2>1, BoundType, BytesTime DEF TypeOK
<1>1. CASE Begin
  BY <1>1 DEF Begin, TimeInv
<1>2. CASE GetRaises
  <2>1. elapsed' <= LongestGet /\ elapsed' \in Nat /\ at' = "idle"
    <3>1. Within(LongestGet) /\ elapsed = 0 /\ at' = "idle"
      BY <1>2 DEF GetRaises, ReturnFailure, TimeInv
    <3>. QED BY <1>0, <3>1, WithinTime
  <2>. QED BY <1>0, <2>1 DEF TimeInv, FetchIsBounded, Limit
<1>3. CASE GetReturns
  <2>1. /\ elapsed' <= LongestGet /\ elapsed' \in Nat /\ at' = "read"
        /\ total' + part' = 0
    <3>1. /\ Within(LongestGet) /\ elapsed = 0 /\ at' = "read"
          /\ total' = 0 /\ part' = 0
      BY <1>3 DEF GetReturns, TimeInv
    <3>. QED BY <1>0, <3>1, WithinTime
  <2>2. (total' + part') * ReadTimeout = 0
    BY <1>0, <2>1
  <2>. QED BY <1>0, <2>1, <2>2 DEF TimeInv
<1>4. CASE Receive
  <2>1. /\ elapsed' <= elapsed + ReadTimeout /\ elapsed' \in Nat /\ at' = "read"
        /\ part' \in Nat /\ part + 1 <= part' /\ total' = total /\ coded' = coded
        /\ ~ coded => elapsed <= LongestGet + (total + part) * ReadTimeout
    <3>1. elapsed' <= elapsed + ReadTimeout /\ elapsed' \in Nat
      BY <1>0, <1>4, WithinTime DEF Receive
    <3>. QED BY <1>0, <1>4, <3>1, FetcherAssumption DEF Receive, TimeInv, response
  <2>2. ~ coded => elapsed' <= LongestGet + (total + part') * ReadTimeout
    BY <1>0, <2>1, ReceiveTime
  <2>. QED BY <2>1, <2>2 DEF TimeInv
<1>5. CASE TakeChunk \/ UnpackNothing
  <2>1. /\ ~ coded => total' + part' = total + part
        /\ elapsed' = elapsed /\ at' = "read" /\ at = "read" /\ coded' = coded
    BY <1>0, <1>5, ChunkFits DEF TakeChunk, UnpackNothing, response
  <2>. QED BY <2>1 DEF TimeInv
<1>6. CASE RefuseChunk \/ ReadRaises \/ BodyEnds
  <2>1. /\ elapsed' <= elapsed + ReadTimeout /\ elapsed' \in Nat
        /\ at' \notin {"get", "read"} /\ at = "read" /\ coded' = coded
    <3>1. \/ Within(ReadTimeout)
          \/ elapsed' = elapsed
      BY <1>6 DEF RefuseChunk, ReadRaises, BodyEnds
    <3>2. elapsed' <= elapsed + ReadTimeout /\ elapsed' \in Nat
      BY <1>0, <3>1, WithinTime
    <3>. QED BY <1>6, <3>2 DEF RefuseChunk, ReadRaises, BodyEnds, ReturnFailure, response
  <2>2. ~ coded => elapsed' <= LongestGet + (Limit + ChunkSize + 1) * ReadTimeout
    BY <1>0, <2>1 DEF TimeInv
  <2>. QED BY <2>1, <2>2 DEF TimeInv, FetchIsBounded, Limit
<1>7. CASE NotFound \/ Decode \/ DecodeRaises \/ Restart
  BY <1>7 DEF NotFound, Decode, DecodeRaises, Restart, ReturnFailure, TimeInv,
     FetchIsBounded, Limit, response
<1>8. CASE UNCHANGED vars
  BY <1>8 DEF vars, TimeInv, FetchIsBounded, Limit, response
<1>. QED BY <1>1, <1>2, <1>3, <1>4, <1>5, <1>6, <1>7, <1>8 DEF Next, Fetch

-----------------------------------------------------------------------------
(* The theorems.                                                             *)

(* Inv holds in every state of every run of the fetcher.                     *)
THEOREM FetcherInvariance == Spec => []Inv
<1>1. Init => Inv
  <2>1. LongestGet + (Limit + ChunkSize + 1) * ReadTimeout \in Nat
    <3>1. Limit + ChunkSize + 1 \in Nat /\ LongestGet \in Nat
      BY FetcherAssumption DEF Limit
    <3>. QED BY <3>1, BytesTime
  <2>2. /\ 0 \in 0 .. MaxFailures /\ 0 \in 0 .. ChunkSize
        /\ 0 \in 0 .. Limit /\ 0 \in 0 .. MaxTime
    BY FetcherAssumption DEF Limit
  <2>3. Init => TypeOK
    BY <2>2 DEF Init, TypeOK
  <2>4. Init => TimeInv
    BY <2>1 DEF Init, TimeInv, FetchIsBounded
  <2>. QED BY <2>3, <2>4 DEF Inv
<1>2. Inv /\ [Next]_vars => Inv'
  BY TypeStep, TimeStep DEF Inv
<1>. QED BY <1>1, <1>2, PTL DEF Spec

(* Every variable of the fetcher keeps its type.                             *)
THEOREM FetcherTypeCorrect == Spec => []TypeOK
BY FetcherInvariance, PTL DEF Inv

(* fetch of a body that comes as it is lasts no longer than the headers may  *)
(* take and a timeout for each byte that fits: for such pages there is the   *)
(* longest fetch that Poller assumes.                                        *)
THEOREM FetchBounded == Spec => []FetchIsBounded
<1>1. Inv => FetchIsBounded
  <2>. SUFFICES ASSUME Inv PROVE FetchIsBounded
    OBVIOUS
  <2>1. /\ (total + part) * ReadTimeout \in Nat /\ ReadTimeout \in Nat /\ LongestGet \in Nat
        /\ (total + part) * ReadTimeout + ReadTimeout <= (Limit + ChunkSize + 1) * ReadTimeout
        /\ elapsed \in Nat /\ Limit + ChunkSize + 1 \in Nat
    BY BoundType, FetcherAssumption DEF Inv, TypeOK
  <2>2. (Limit + ChunkSize + 1) * ReadTimeout \in Nat
    BY <2>1, BytesTime
  <2>. QED BY <2>1, <2>2 DEF Inv, TimeInv, FetchIsBounded
<1>. QED BY <1>1, FetcherInvariance, PTL

(* Where the source names only encodings Python knows, fetch keeps its       *)
(* docstring's promise: every call is answered, none raises, and             *)
(* _consecutive_failures counts the failures since a success.  The run       *)
(* fetcher_raises shows that it keeps it nowhere else.                       *)
THEOREM FetcherKeepsContract == Spec /\ []codec => ContractSpec
<1>1. Init => Contract!Init
  BY DEF Init, Contract!Init
<1>2. codec /\ [Next]_vars => [Contract!Next]_Contract!vars
  <2>. SUFFICES ASSUME codec, [Next]_vars PROVE [Contract!Next]_Contract!vars
    OBVIOUS
  <2>. USE DEF Contract!Next, Contract!vars
  <2>1. CASE Begin
    BY <2>1 DEF Begin, Contract!Begin
  <2>2. CASE GetRaises \/ ReadRaises \/ RefuseChunk \/ NotFound
    BY <2>2 DEF GetRaises, ReadRaises, RefuseChunk, NotFound, ReturnFailure, Contract!Fail
  <2>3. CASE GetReturns \/ Receive \/ UnpackNothing \/ TakeChunk \/ BodyEnds
    BY <2>3 DEF GetReturns, Receive, UnpackNothing, TakeChunk, BodyEnds
  <2>4. CASE Decode
    BY <2>4 DEF Decode, Contract!Succeed
  <2>5. CASE DecodeRaises
    BY <2>5 DEF DecodeRaises
  <2>6. CASE Restart
    BY <2>6 DEF Restart, Contract!Restart
  <2>7. CASE UNCHANGED vars
    BY <2>7 DEF vars
  <2>. QED BY <2>1, <2>2, <2>3, <2>4, <2>5, <2>6, <2>7 DEF Next, Fetch
<1>. QED BY <1>1, <1>2, PTL DEF Spec, ContractSpec, Contract!Spec

-----------------------------------------------------------------------------
(* A fetch in hand only gets nearer its end.                                 *)

(* A byte more in the body counts more than all bytes of a chunk that are    *)
(* still to be read: k chunks' worth of steps for k bytes.                   *)
LEMMA Worth ==
    ASSUME NEW k \in Nat, NEW n \in Nat \ {0}, NEW m \in Nat, m + n = k
    PROVE  /\ k * (ChunkSize + 1) \in Nat /\ m * (ChunkSize + 1) \in Nat
           /\ m * (ChunkSize + 1) + ChunkSize + 1 <= k * (ChunkSize + 1)
<1>. DEFINE C == ChunkSize + 1
<1>1. C \in Nat /\ ChunkSize \in Nat
  BY FetcherAssumption
<1>. HIDE DEF C
<1>2. PICK j \in Nat : n = j + 1
  <2>1. n - 1 \in Nat /\ n = (n - 1) + 1
    OBVIOUS
  <2>. QED BY <2>1
<1>3. k = m + 1 + j
  BY <1>2
<1>4. k * C = m * C + C + j * C /\ m * C \in Nat /\ j * C \in Nat
  BY <1>1, <1>3
<1>5. k * C \in Nat /\ m * C + C <= k * C
  BY <1>1, <1>4
<1>. QED BY <1>1, <1>5 DEF C

(* The room left for bytes is a number, and so is the measure.               *)
LEMMA StepsLeftType ==
    ASSUME TypeOK
    PROVE  /\ {Limit, ChunkSize, total, part} \subseteq Nat
           /\ Limit - total \in Nat /\ ChunkSize - part \in Nat
           /\ Limit * (ChunkSize + 1) \in Nat
           /\ (Limit - total) * (ChunkSize + 1) \in Nat
           /\ StepsLeft \in Nat
           /\ at = "read" => StepsLeft >= 2
           /\ at \in {"get", "read", "decode"} => StepsLeft > 0
<1>1. /\ {Limit, ChunkSize, total, part} \subseteq Nat
      /\ Limit - total \in Nat /\ ChunkSize - part \in Nat
  BY FetcherAssumption DEF TypeOK, Limit
<1>2. /\ Limit * (ChunkSize + 1) \in Nat
      /\ (Limit - total) * (ChunkSize + 1) \in Nat
  <2>1. Limit + 1 \in Nat /\ Limit - total + 1 \in Nat
    BY <1>1
  <2>. QED BY <1>1, <2>1, Worth
<1>. QED BY <1>1, <1>2 DEF StepsLeft, TypeOK

(* From any point of a fetch but the last, on to the next.                   *)
LEMMA AdvanceStep ==
    ASSUME Inv, Inv', Next, at \notin {"idle", "dead"}, ~ UnpackNothing
    PROVE  StepsLeft' < StepsLeft
<1>0. /\ {Limit, ChunkSize, total, part} \subseteq Nat
      /\ Limit - total \in Nat /\ ChunkSize - part \in Nat
      /\ Limit * (ChunkSize + 1) \in Nat
      /\ (Limit - total) * (ChunkSize + 1) \in Nat
  BY StepsLeftType DEF Inv
<1>a. /\ StepsLeft \in Nat /\ StepsLeft > 0
      /\ at = "read" => StepsLeft >= 2
  BY StepsLeftType DEF Inv, TypeOK
<1>1. CASE Begin \/ Restart
  BY <1>1 DEF Begin, Restart
<1>2. CASE GetRaises \/ RefuseChunk \/ ReadRaises \/ NotFound \/ Decode \/ DecodeRaises
  <2>1. at' \in {"idle", "dead"}
    BY <1>2 DEF GetRaises, RefuseChunk, ReadRaises, NotFound, Decode, DecodeRaises,
                ReturnFailure
  <2>2. StepsLeft' = 0
    BY <2>1 DEF StepsLeft
  <2>. QED BY <1>a, <2>2
<1>3. CASE GetReturns
  <2>1. /\ at = "get" /\ at' = "read" /\ total' = 0 /\ part' = 0
    BY <1>3 DEF GetReturns, Inv, TimeInv
  <2>2. StepsLeft = Limit * (ChunkSize + 1) + ChunkSize + 3
    BY <2>1 DEF StepsLeft
  <2>3. StepsLeft' = (Limit - 0) * (ChunkSize + 1) + (ChunkSize - 0) + 2
    BY <2>1 DEF StepsLeft, Limit
  <2>4. Limit - 0 = Limit /\ ChunkSize - 0 = ChunkSize
    BY <1>0
  <2>. QED BY <1>0, <2>2, <2>3, <2>4
<1>4. CASE Receive
  <2>1. at = "read" /\ at' = "read" /\ total' = total
    BY <1>4 DEF Receive
  <2>2. part' \in Nat /\ part' >= part + 1 /\ part' <= ChunkSize
    BY <1>0, <1>4 DEF Receive
  <2>3. /\ StepsLeft = (Limit - total) * (ChunkSize + 1) + (ChunkSize - part) + 2
        /\ StepsLeft' = (Limit - total) * (ChunkSize + 1) + (ChunkSize - part') + 2
    BY <2>1 DEF StepsLeft, Limit
  <2>. QED BY <1>0, <2>2, <2>3
<1>5. CASE TakeChunk
  <2>1. at = "read" /\ at' = "read" /\ part' = 0
    BY <1>5 DEF TakeChunk
  <2>2. PICK n \in Nat \ {0} : total' = total + n /\ total' \in 0 .. Limit
    BY <1>5, ChunkFits DEF Inv
  <2>3. Limit - total' \in Nat /\ (Limit - total') + n = Limit - total
    BY <1>0, <2>2
  <2>4. /\ (Limit - total') * (ChunkSize + 1) \in Nat
        /\ (Limit - total') * (ChunkSize + 1) + ChunkSize + 1
               <= (Limit - total) * (ChunkSize + 1)
    BY <1>0, <2>3, Worth
  <2>5. /\ StepsLeft = (Limit - total) * (ChunkSize + 1) + (ChunkSize - part) + 2
        /\ StepsLeft' = (Limit - total') * (ChunkSize + 1) + (ChunkSize - part') + 2
    BY <2>1 DEF StepsLeft, Limit
  <2>. QED BY <1>0, <2>1, <2>4, <2>5
<1>6. CASE BodyEnds
  <2>1. at = "read" /\ at' = "decode"
    BY <1>6 DEF BodyEnds
  <2>2. StepsLeft' = 1
    BY <2>1 DEF StepsLeft
  <2>. QED BY <1>a, <2>1, <2>2
<1>. QED BY <1>1, <1>2, <1>3, <1>4, <1>5, <1>6 DEF Next, Fetch

(* iter_content, the size limit and the decoding leave a fetch fewer steps   *)
(* each time: no page, however it is sent, keeps it from its end, but one    *)
(* that goes on unpacking to nothing.                                        *)
THEOREM FetchesAdvance == Spec => FetchAdvances
<1>. DEFINE Advances ==
        at \notin {"idle", "dead"} =>
           \/ StepsLeft' < StepsLeft
           \/ coded /\ at' = "read" /\ total' = total /\ part' = 0
<1>1. Inv /\ Inv' /\ [Next]_vars => [Advances]_vars
  <2>1. UnpackNothing => Advances
    BY DEF UnpackNothing
  <2>. QED BY <2>1, AdvanceStep
<1>. QED BY <1>1, FetcherInvariance, PTL DEF Spec, FetchAdvances
=============================================================================
