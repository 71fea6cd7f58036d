---------------------------- MODULE MCSmoothGate ----------------------------
EXTENDS SmoothGate

MCKinds == {[type |-> "open", direction |-> "forward"],
            [type |-> "close", direction |-> "forward"]}

(* A cheap and a dear book, and for spot one whose prices would do for any  *)
(* pair and whose sizes are just too small for a quantity of 10.            *)
MCQuotes ==
  LET Book(bid, ask, qty) == [bid |-> bid, bidQty |-> qty, ask |-> ask, askQty |-> qty]
  IN [key \in Keys |-> {Book(100, 101, 8), Book(104, 105, 8)}
                         \cup IF key = "spot" THEN {Book(104, 101, 7)} ELSE {}]
=============================================================================
