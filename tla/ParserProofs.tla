---------------------------- MODULE ParserProofs ----------------------------
(* Proofs about Parser, for pages of any length over any set of texts: every *)
(* invariant of its run.                                                     *)
EXTENDS Parser, FiniteSetTheorems, TLAPS

-----------------------------------------------------------------------------
(* The invariant.                                                            *)

(* seen_hashes holds the dispatches looked at so far.                        *)
SeenInv ==
    \A text \in Texts :
        text \in seen <=> \E i \in 1 .. next - 1 : page[i].text = text /\ IsDispatch(text)

Inv == TypeOK /\ SeenInv /\ UniqueInSourceOrder

-----------------------------------------------------------------------------
(* One turn of the loop.                                                     *)

(* The element looked at, and what becomes of it.                            *)
LEMMA Turn ==
    ASSUME TypeOK, LookAt
    PROVE  /\ page' = page /\ next' = next + 1 /\ next \in 1 .. Len(page)
           /\ page[next].text \in Texts
           /\ \/ /\ IsDispatch(page[next].text) /\ page[next].text \notin seen
                 /\ seen' = seen \cup {page[next].text}
                 /\ results' = Append(results, page[next].text)
              \/ /\ ~ IsDispatch(page[next].text) \/ page[next].text \in seen
                 /\ seen' = seen /\ results' = results
<1>1. page \in Seq(Element) /\ next \in 1 .. Len(page)
  BY DEF LookAt, TypeOK
<1>2. page[next] \in Element
  BY <1>1
<1>3. page[next].text \in Texts
  BY <1>2 DEF Element
<1>. QED BY <1>1, <1>3 DEF LookAt, Normalize

(* The types.                                                                *)
LEMMA TypeStep == TypeOK /\ [Next]_vars => TypeOK'
<1>. SUFFICES ASSUME TypeOK, [Next]_vars PROVE TypeOK'
  OBVIOUS
<1>1. CASE LookAt
  <2>1. next' \in 1 .. Len(page') + 1 /\ page' = page
    <3>1. Len(page) \in Nat
      BY DEF TypeOK
    <3>. QED BY <1>1, <3>1, Turn
  <2>2. seen' \subseteq Texts
    BY <1>1, Turn DEF TypeOK
  <2>3. results' \in Seq(Texts)
    <3>1. results \in Seq(Texts) /\ page[next].text \in Texts
      BY <1>1, Turn DEF TypeOK
    <3>2. Append(results, page[next].text) \in Seq(Texts)
      BY <3>1
    <3>. QED BY <1>1, <3>1, <3>2, Turn
  <2>. QED BY <2>1, <2>2, <2>3 DEF TypeOK
<1>2. CASE UNCHANGED vars
  BY <1>2 DEF vars, TypeOK
<1>. QED BY <1>1, <1>2 DEF Next

(* The seen dispatches.                                                      *)
LEMMA SeenStep == TypeOK /\ SeenInv /\ [Next]_vars => SeenInv'
<1>. SUFFICES ASSUME TypeOK, SeenInv, [Next]_vars PROVE SeenInv'
  OBVIOUS
<1>1. CASE LookAt
  <2>1. SUFFICES ASSUME NEW text \in Texts
                 PROVE  text \in seen' <=>
                          \E i \in 1 .. next' - 1 : page'[i].text = text /\ IsDispatch(text)
    BY DEF SeenInv, IsDispatch
  <2>2. 1 .. next' - 1 = 1 .. next - 1 \cup {next} /\ page' = page
    BY <1>1, Turn DEF TypeOK
  <2>3. (\E i \in 1 .. next' - 1 : page'[i].text = text /\ IsDispatch(text)) <=>
            text \in seen \/ (page[next].text = text /\ IsDispatch(text))
    BY <2>2 DEF SeenInv
  <2>. QED BY <1>1, <2>3, Turn
<1>2. CASE UNCHANGED vars
  BY <1>2 DEF vars, SeenInv, IsDispatch
<1>. QED BY <1>1, <1>2 DEF Next

-----------------------------------------------------------------------------
(* The order of the results.                                                 *)

(* The first places are finitely many, and those up to one of them fewer.    *)
LEMMA FirstsFinite ==
    ASSUME TypeOK
    PROVE  /\ IsFiniteSet(Firsts) /\ Cardinality(Firsts) \in Nat
           /\ \A i \in Firsts :
                 Cardinality({j \in Firsts : j <= i}) \in 1 .. Cardinality(Firsts)
<1>1. IsFiniteSet(1 .. next - 1)
  BY FS_Interval DEF TypeOK
<1>2. IsFiniteSet(Firsts) /\ Cardinality(Firsts) \in Nat
  BY <1>1, FS_Subset, FS_CardinalityType DEF Firsts
<1>3. ASSUME NEW i \in Firsts
      PROVE  Cardinality({j \in Firsts : j <= i}) \in 1 .. Cardinality(Firsts)
  <2>. DEFINE S == {j \in Firsts : j <= i}
  <2>1. IsFiniteSet(S) /\ Cardinality(S) <= Cardinality(Firsts)
    BY <1>2, FS_Subset
  <2>2. i \in S
    BY DEF Firsts, TypeOK
  <2>3. Cardinality(S) \in Nat /\ Cardinality(S) # 0
    BY <2>1, <2>2, FS_CardinalityType, FS_EmptySet
  <2>. QED BY <1>2, <2>1, <2>3
<1>. QED BY <1>2, <1>3

(* A turn adds its element to the first places exactly when it is new.       *)
LEMMA FirstsTurn ==
    ASSUME TypeOK, SeenInv, LookAt
    PROVE  /\ Firsts' = IF IsDispatch(page[next].text) /\ page[next].text \notin seen
                        THEN Firsts \cup {next} ELSE Firsts
           /\ next \notin Firsts /\ \A i \in Firsts : i < next
<1>1. 1 .. next' - 1 = 1 .. next - 1 \cup {next} /\ page' = page /\ next \in Nat
  BY Turn DEF TypeOK
<1>2. Firsts' = {i \in 1 .. next' - 1 : /\ IsDispatch(page[i].text)
                                        /\ \A j \in 1 .. i - 1 : page[j].text # page[i].text}
  BY <1>1 DEF Firsts, IsDispatch
<1>3. page[next].text \in seen <=>
          \E j \in 1 .. next - 1 : page[j].text = page[next].text /\ IsDispatch(page[next].text)
  BY Turn DEF SeenInv
<1>4. next \notin Firsts /\ \A i \in Firsts : i < next
  BY <1>1 DEF Firsts
<1>. QED BY <1>1, <1>2, <1>3, <1>4 DEF Firsts

(* The results follow the first places.                                      *)
LEMMA OrderStep == Inv /\ [Next]_vars => UniqueInSourceOrder'
<1>. SUFFICES ASSUME Inv, [Next]_vars PROVE UniqueInSourceOrder'
  OBVIOUS
<1>. USE DEF Inv
<1>1. CASE LookAt /\ IsDispatch(page[next].text) /\ page[next].text \notin seen
  <2>a. next \in Nat /\ Firsts \subseteq Nat
    BY DEF TypeOK, Firsts
  <2>1. /\ Firsts' = Firsts \cup {next} /\ next \notin Firsts /\ \A i \in Firsts : i < next
        /\ next \in Nat /\ Firsts \subseteq Nat
    BY <1>1, <2>a, FirstsTurn
  <2>2. /\ results' = Append(results, page[next].text) /\ page' = page
        /\ results \in Seq(Texts) /\ page[next].text \in Texts
    BY <1>1, Turn DEF TypeOK
  <2>3. Cardinality(Firsts') = Cardinality(Firsts) + 1 /\ Cardinality(Firsts) = Len(results)
    BY <2>1, FirstsFinite, FS_AddElement DEF UniqueInSourceOrder
  <2>4. Len(results') = Cardinality(Firsts')
    BY <2>2, <2>3
  <2>5. ASSUME NEW i \in Firsts'
        PROVE  results'[Cardinality({j \in Firsts' : j <= i})] = page'[i].text
    <3>1. CASE i = next
      <4>1. {j \in Firsts' : j <= i} = Firsts'
        <5>1. \A j \in Firsts' : j \in Nat /\ j <= next
          BY <2>1
        <5>. QED BY <3>1, <5>1
      <4>2. results'[Len(results) + 1] = page[next].text
        BY <2>2
      <4>. QED BY <2>2, <2>3, <3>1, <4>1, <4>2
    <3>2. CASE i # next
      <4>1. i \in Firsts /\ {j \in Firsts' : j <= i} = {j \in Firsts : j <= i}
        BY <2>1, <3>2
      <4>2. Cardinality({j \in Firsts : j <= i}) \in 1 .. Len(results)
        BY <2>3, <4>1, FirstsFinite
      <4>3. results'[Cardinality({j \in Firsts : j <= i})] =
                results[Cardinality({j \in Firsts : j <= i})]
        BY <2>2, <4>2
      <4>. QED BY <2>2, <4>1, <4>3 DEF UniqueInSourceOrder
    <3>. QED BY <3>1, <3>2
  <2>. QED BY <2>4, <2>5 DEF UniqueInSourceOrder
<1>2. CASE LookAt /\ (~ IsDispatch(page[next].text) \/ page[next].text \in seen)
  <2>1. Firsts' = Firsts /\ results' = results /\ page' = page
    BY <1>2, FirstsTurn, Turn
  <2>. QED BY <2>1 DEF UniqueInSourceOrder
<1>3. CASE UNCHANGED vars
  <2>1. Firsts' = Firsts /\ results' = results /\ page' = page
    BY <1>3 DEF vars, Firsts, IsDispatch
  <2>. QED BY <2>1 DEF UniqueInSourceOrder
<1>. QED BY <1>1, <1>2, <1>3 DEF Next

(* Before the first turn there is nothing to compare.                        *)
LEMMA InvInit == Init => Inv
<1>. SUFFICES ASSUME Init PROVE Inv
  OBVIOUS
<1>1. page \in Seq(Element)
  BY DEF Init
<1>2. TypeOK
  BY <1>1 DEF Init, TypeOK
<1>3. SeenInv
  BY DEF Init, SeenInv
<1>4. Firsts = {} /\ results = <<>>
  BY DEF Init, Firsts
<1>5. UniqueInSourceOrder
  BY <1>4, FS_EmptySet DEF UniqueInSourceOrder
<1>. QED BY <1>2, <1>3, <1>5 DEF Inv

-----------------------------------------------------------------------------
(* The theorems.                                                             *)

(* Inv holds after every turn of parse_messages.                             *)
THEOREM Invariance == Spec => []Inv
<1>1. Inv /\ [Next]_vars => Inv'
  BY TypeStep, SeenStep, OrderStep DEF Inv
<1>. QED BY InvInit, <1>1, PTL DEF Spec

(* parse_messages returns texts of the page.                                 *)
THEOREM ParserTypeCorrect == Spec => []TypeOK
BY Invariance, PTL DEF Inv

(* parse_messages returns each dispatch of a page once, in the page's order. *)
THEOREM UniqueResults == Spec => []UniqueInSourceOrder
BY Invariance, PTL DEF Inv

(* The two checks of parser.py and pagermon.py together accept exactly the   *)
(* dates and times of day that exist.                                        *)
THEOREM DatesAreReal == Spec => []DateIsReal
<1>1. ASSUME NEW text \in Text
      PROVE  IsPagesTime(text) <=> Exists(text.date, text.time)
  <2>1. text.time \in Time /\ text.date \in Date
    BY DEF Text
  <2>2. /\ text.time.s \in Nat /\ text.date.d \in Nat
        /\ DaysIn(text.date.y, text.date.mo) \in 28 .. 31
    BY <2>1 DEF Time, Date, DaysIn
  <2>. QED BY <2>2 DEF IsPagesTime, HasStamp, Strptime, Exists
<1>2. TypeOK => DateIsReal
  <2>. SUFFICES ASSUME TypeOK, NEW i \in 1 .. Len(results)
                PROVE  IsPagesTime(results[i]) <=> Exists(results[i].date, results[i].time)
    BY DEF DateIsReal
  <2>1. results[i] \in Texts
    BY DEF TypeOK
  <2>. QED BY <1>1, <2>1, ParserAssumption
<1>. QED BY <1>2, ParserTypeCorrect, PTL
=============================================================================
