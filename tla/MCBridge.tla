------------------------------ MODULE MCBridge ------------------------------
(* Small instances of Bridge for TLC.                                        *)
EXTENDS Bridge, TLC

Symmetry == Permutations(Dispatches)

LiveWith(n) == [dry_run |-> FALSE, max_delivery_attempts |-> n]
DryWith(n)  == [dry_run |-> TRUE, max_delivery_attempts |-> n]

(* Restarts may lower or raise the limit and switch dry run; a dry run may   *)
(* even carry a limit validate_config would refuse.                          *)
ChangingConfigs == {LiveWith(1), LiveWith(2), DryWith(0)}
OneLiveConfig   == {LiveWith(2)}
=============================================================================
