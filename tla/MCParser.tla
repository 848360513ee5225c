------------------------------ MODULE MCParser ------------------------------
(* Small pages for Parser.                                                   *)
EXTENDS Parser

At(h, m, s)    == [h |-> h, m |-> m, s |-> s]
On(y, mo, d)   == [y |-> y, mo |-> mo, d |-> d]
Of(o, c, t, d) == [opens |-> o, closes |-> c, time |-> t, date |-> d, long |-> FALSE]

Noon  == At(12, 0, 0)
Today == On(2024, 2, 29)

(* A dispatch of each brigade; one cut off, one closed by another, one too   *)
(* long; and the dates and times on both sides of every bound.               *)
PageTexts ==
    {Of("A", "A", Noon, Today), Of("B", "B", Noon, Today),
     Of("A", "none", Noon, Today), Of("A", "B", Noon, Today),
     [Of("A", "A", Noon, Today) EXCEPT !.long = TRUE]}
    \cup {Of("A", "A", t, Today) : t \in {At(23, 59, 59), At(24, 0, 0), At(12, 60, 0),
                                         At(12, 0, 60), At(12, 0, 62)}}
    \cup {Of("A", "A", Noon, d) : d \in {On(2023, 2, 29), On(2024, 4, 31), On(0, 1, 1),
                                         On(2024, 13, 1), On(2024, 12, 0),
                                         On(2024, 12, 32), On(2024, 12, 31)}}

TwoLayouts == {"plain", "nested"}
=============================================================================
