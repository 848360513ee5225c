----------------------------- MODULE MCSettings -----------------------------
(* Small instances of Settings for TLC.                                      *)
EXTENDS Settings, TLC

Symmetry == Permutations(Keys) \cup Permutations(Requests)

(* bridge.env of an installation that has no .env: a dry run without a key.  *)
DryBridgeEnv == [dry_run |-> "true", api_key |-> Unset]
=============================================================================
