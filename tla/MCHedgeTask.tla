----------------------------- MODULE MCHedgeTask -----------------------------
(* Small instances of HedgeTask for TLC. *)
EXTENDS HedgeTask, TLC

\* The two legs are handled alike, and so are handler threads.
Symmetry == Permutations(Legs) \cup Permutations(Requests)
=============================================================================
