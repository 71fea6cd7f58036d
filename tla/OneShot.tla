------------------------------ MODULE OneShot ------------------------------
(***************************************************************************)
(* What the two money endpoints promise: a request is registered once, the *)
(* exchange carries it out at most once and only after that, and what the  *)
(* store says of it at the end is true.  asset_transfer/store.py and       *)
(* margin_repay/store.py describe this in their first lines.               *)
(***************************************************************************)
EXTENDS Naturals

CONSTANT Request          \* the requests that may be made

VARIABLES
  told,                   \* what the store says of each request
  moves                   \* how many times the exchange has carried it out

vars == <<told, moves>>

Final == {"succeeded", "failed", "unknown"}

Init ==
  /\ told = [r \in Request |-> "none"]
  /\ moves = [r \in Request |-> 0]

(* The request is stored, and from now on it is the only one of its id.    *)
Register(r) ==
  /\ told[r] = "none"
  /\ told' = [told EXCEPT ![r] = "pending"]
  /\ UNCHANGED moves

(* The money moves, perhaps long after the store gave up waiting.          *)
Move(r) ==
  /\ told[r] \in {"pending", "unknown"}
  /\ moves[r] = 0
  /\ moves' = [moves EXCEPT ![r] = 1]
  /\ UNCHANGED told

(* The store says how it ended: success only of money that moved, failure  *)
(* only of money that did not (and Move is not enabled afterwards).        *)
Settle(r, s) ==
  /\ told[r] = "pending"
  /\ s = "succeeded" => moves[r] = 1
  /\ s = "failed" => moves[r] = 0
  /\ told' = [told EXCEPT ![r] = s]
  /\ UNCHANGED moves

Next ==
  \E r \in Request :
    \/ Register(r)
    \/ Move(r)
    \/ \E s \in Final : Settle(r, s)

Spec == Init /\ [][Next]_vars
=============================================================================
