---------------------------- MODULE MCProvisioning ----------------------------
(* Instances of DuckProvisioning for model checking.                         *)
EXTENDS DuckProvisioning, TLC

\* Stations are alike, and so are stickers.
Alike == Permutations(Stations) \cup Permutations(Stickers)
=============================================================================
