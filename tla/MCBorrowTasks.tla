---------------------------- MODULE MCBorrowTasks ----------------------------
(* Small instances of BorrowTasks for TLC. *)
EXTENDS BorrowTasks, TLC

\* Processes and handler threads are interchangeable.
Symmetry == Permutations(Procs) \cup Permutations(Requests)
==============================================================================
