------------------------------ MODULE LoanBook ------------------------------
(***************************************************************************)
(* What the borrow engine promises about money: one loan is asked for at a *)
(* time, only for a task that has fewer than its ceiling and only while    *)
(* the exchange does not demand silence; an ask brings at most one loan;   *)
(* and each loan is booked once, or is one whose answer never arrived.     *)
(* Who asks, on which thread, and what happens between the steps is not    *)
(* its subject (backend/borrow_tasks/service.py, store.py).                *)
(***************************************************************************)
EXTENDS Naturals

CONSTANTS
  Task,
  Ceiling       \* the numbers of loans an operator may ask for

VARIABLES
  ceiling,      \* how many loans each task may have in the book
  booked,       \* how many it has there
  loans,        \* how many the exchange has made
  lost,         \* those of them nobody can tell of any more
  asking,       \* the task a loan is asked for, 0 for none
  phase,        \* idle, asked, lent (not booked yet), ended (nothing to book)
  silenced      \* the exchange demands silence

vars == <<ceiling, booked, loans, lost, asking, phase, silenced>>

Idle == phase = "idle"

Init ==
  /\ ceiling \in [Task -> Nat] /\ booked \in [Task -> Nat]
  /\ \A t \in Task : booked[t] <= ceiling[t]
  /\ loans = booked
  /\ lost = [t \in Task |-> 0]
  /\ asking = 0 /\ phase = "idle"
  /\ silenced = FALSE

(* The operator makes a task or edits one: there is always room for one    *)
(* more than is booked, so also for a loan on its way.                     *)
SetCeiling(t, n) ==
  /\ n > booked[t]
  /\ ceiling' = [ceiling EXCEPT ![t] = n]
  /\ UNCHANGED <<booked, loans, lost, asking, phase, silenced>>

Ask(t) ==
  /\ Idle /\ ~silenced
  /\ booked[t] < ceiling[t]
  /\ phase' = "asked" /\ asking' = t
  /\ UNCHANGED <<ceiling, booked, loans, lost, silenced>>

(* The exchange lends, and the answer says so.                             *)
Lend ==
  /\ phase = "asked"
  /\ phase' = "lent"
  /\ loans' = [loans EXCEPT ![asking] = @ + 1]
  /\ UNCHANGED <<ceiling, booked, lost, asking, silenced>>

(* The ask brings nothing that can be booked, though the exchange may have *)
(* lent: it is over, or there is nobody left to see its end.               *)
Miss(next) ==
  /\ phase = "asked"
  /\ phase' = next /\ asking' = IF next = "idle" THEN 0 ELSE asking
  /\ \/ UNCHANGED <<loans, lost>>
     \/ /\ loans' = [loans EXCEPT ![asking] = @ + 1]
        /\ lost' = [lost EXCEPT ![asking] = @ + 1]
  /\ UNCHANGED <<ceiling, booked, silenced>>

Book ==
  /\ phase = "lent"
  /\ phase' = "idle" /\ asking' = 0
  /\ booked' = [booked EXCEPT ![asking] = @ + 1]
  /\ UNCHANGED <<ceiling, loans, lost, silenced>>

(* The answer is lost with the one who held it.                            *)
Lose ==
  /\ phase = "lent"
  /\ phase' = "idle" /\ asking' = 0
  /\ lost' = [lost EXCEPT ![asking] = @ + 1]
  /\ UNCHANGED <<ceiling, booked, loans, silenced>>

(* An ask without a loan ends, perhaps with a demand for silence.          *)
End ==
  /\ phase = "ended"
  /\ phase' = "idle" /\ asking' = 0
  /\ silenced' \in {silenced, TRUE}
  /\ UNCHANGED <<ceiling, booked, loans, lost>>

(* The silence ends; there is no ask while it lasts.                       *)
Lift ==
  /\ Idle /\ silenced
  /\ silenced' = FALSE
  /\ UNCHANGED <<ceiling, booked, loans, lost, asking, phase>>

Next ==
  \/ \E t \in Task, n \in Ceiling : SetCeiling(t, n)
  \/ \E t \in Task : Ask(t)
  \/ \E next \in {"idle", "ended"} : Miss(next)
  \/ Lend \/ Book \/ Lose \/ End \/ Lift

Spec == Init /\ [][Next]_vars
=============================================================================
