------------------------------- MODULE Parser -------------------------------
(* parser.py: which elements of a fetched page become dispatches, and in     *)
(* which order; and the date a dispatch then carries to PagerMon, which      *)
(* parser.py extracts and pagermon.py reads back.                            *)
(*                                                                           *)
(* A text is what _normalize_text leaves of an element, so two texts are     *)
(* equal exactly when their hashes are.                                      *)
EXTENDS Integers, Sequences, FiniteSets

CONSTANTS
    Texts,      \* the texts an element may have
    Layouts,    \* the ways a text may be spread over nodes and whitespace
    MaxElements \* bound: <strong> elements of a page

(* Opening and closing identifier, time of day and date as digits say them,  *)
(* and whether the text is longer than max_message_length.                   *)
Ids  == {"none", "A", "B"}
Time == [h : 0 .. 99, m : 0 .. 99, s : 0 .. 99]
Date == [y : 0 .. 9999, mo : 0 .. 99, d : 0 .. 99]
Text == [opens : Ids, closes : Ids, time : Time, date : Date, long : BOOLEAN]

ASSUME ParserAssumption ==
    /\ Texts \subseteq Text
    /\ MaxElements \in Nat

VARIABLES
    page,       \* soup.find_all("strong")
    next,       \* the element the loop looks at next
    seen,       \* seen_hashes
    results     \* the texts of the DispatchMessages

vars == <<page, next, seen, results>>

Element == [text : Texts, layout : Layouts]

-----------------------------------------------------------------------------
(* parse_messages, one turn of its loop per element.                         *)
NormalizeNot(e) == e                \* mutant: the hash of the raw text

Normalize(e) == e.text

(* The length check and _DISPATCH_RE.                                        *)
IsDispatch(text) ==
    /\ ~ text.long
    /\ text.opens # "none"
    /\ text.closes = text.opens

Init ==
    /\ page \in UNION {[1 .. n -> Element] : n \in 0 .. MaxElements}
    /\ next = 1
    /\ seen = {}
    /\ results = <<>>

LookAt ==
    /\ next <= Len(page)
    /\ LET e    == page[next]
           hash == Normalize(e)
       IN  IF IsDispatch(e.text) /\ hash \notin seen
           THEN seen' = seen \cup {hash} /\ results' = Append(results, e.text)
           ELSE UNCHANGED <<seen, results>>
    /\ next' = next + 1
    /\ UNCHANGED page

Next == LookAt

Spec == Init /\ [][Next]_vars

-----------------------------------------------------------------------------
(* The date.                                                                 *)
(* _extract_timestamp: the ranges of the single fields.                      *)
HasStampAlways(text) == TRUE        \* mutant: no plausibility check

HasStamp(text) ==
    /\ text.time.h <= 23 /\ text.time.m <= 59 /\ text.time.s <= 59
    /\ text.date.mo \in 1 .. 12 /\ text.date.d \in 1 .. 31

DaysIn(y, mo) ==
    CASE mo \in {4, 6, 9, 11} -> 30
      [] mo = 2 -> IF (y % 4 = 0 /\ y % 100 # 0) \/ y % 400 = 0 THEN 29 ELSE 28
      [] OTHER -> 31

(* time.strptime(..., "%Y-%m-%d %H:%M:%S"), which knows the calendar but     *)
(* lets seconds run to 61.                                                   *)
Strptime(date, time) ==
    /\ date.y >= 1
    /\ date.mo \in 1 .. 12 /\ date.d \in 1 .. DaysIn(date.y, date.mo)
    /\ time.h <= 23 /\ time.m <= 59 /\ time.s <= 61

(* _parse_dispatch_timestamp: is datetime the page's, or the current time?   *)
IsPagesTime(text) == HasStamp(text) /\ Strptime(text.date, text.time)

-----------------------------------------------------------------------------
(* Properties.                                                               *)

TypeOK ==
    /\ page \in Seq(Element)
    /\ next \in 1 .. Len(page) + 1
    /\ seen \subseteq Texts
    /\ results \in Seq(Texts)

(* plan.md:107 of the program, "unique valid messages in source order": the  *)
(* results are the dispatches among the elements so far, each where it was   *)
(* first met, whatever its copies look like in the page.                     *)
Firsts ==
    {i \in 1 .. next - 1 :
        /\ IsDispatch(page[i].text)
        /\ \A j \in 1 .. i - 1 : page[j].text # page[i].text}

UniqueInSourceOrder ==
    /\ Len(results) = Cardinality(Firsts)
    /\ \A i \in Firsts :
          results[Cardinality({j \in Firsts : j <= i})] = page[i].text

(* PagerMon is given the page's own date exactly when there is such a date   *)
(* and time of day; parser and client check different halves of that.        *)
Exists(date, time) ==
    /\ date.y >= 1 /\ date.mo \in 1 .. 12 /\ date.d \in 1 .. DaysIn(date.y, date.mo)
    /\ time.h <= 23 /\ time.m <= 59 /\ time.s <= 59

DateIsReal ==
    \A i \in 1 .. Len(results) :
        IsPagesTime(results[i]) <=> Exists(results[i].date, results[i].time)
=============================================================================
