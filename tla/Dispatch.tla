------------------------------ MODULE Dispatch ------------------------------
(* The dispatches of one CFA page history: what every part of the bridge     *)
(* hands to the next.  A dispatch stands for its normalized text, and so for *)
(* its SHA-256 hash, the key of the messages table.                          *)
EXTENDS Integers, FiniteSets

CONSTANTS
    Dispatches,     \* the dispatches the source page may ever show
    NoDispatch      \* "no dispatch is being delivered"

ASSUME DispatchAssumption ==
    /\ IsFiniteSet(Dispatches)
    /\ NoDispatch \notin Dispatches
=============================================================================
