-------------------------- MODULE MCPositionCycles --------------------------
(***************************************************************************)
(* One coin, small sets of tasks, fills and answers.                        *)
(***************************************************************************)
EXTENDS PositionCycles, TLC

CONSTANTS o1, o2, c1

Forward(type) == [type |-> type, direction |-> "forward"]
Reverse(type) == [type |-> type, direction |-> "reverse"]

OneWay == [t \in Tasks |-> Forward(IF t = c1 THEN "close" ELSE "open")]
Openers == {o1, o2}
BothWays(t) == [OneWay EXCEPT ![t] = Reverse("open")]
Alike == Permutations(Openers)
MCTarget == [t \in Tasks |-> 1]

Filled(quote) == [qty |-> 1, whole |-> TRUE, quote |-> quote]
Nothing == [qty |-> 0, whole |-> FALSE, quote |-> 0]
Legs(spot, perp) == [l \in LegNames |-> IF l = "spot" THEN spot ELSE perp]

\* A full pair, and part of a spot leg alone, its quote missing.
Part == [Filled(0) EXCEPT !.whole = FALSE]
MCResults == {Legs(Filled(2), Filled(3)), Legs(Part, Nothing)}

Trades(assets) == [says |-> "trades", assets |-> assets, priced |-> TRUE]
Says(what) == [says |-> what, assets |-> {}, priced |-> FALSE]
MCAnswers == {Legs(Trades({"BNB"}), Trades({"BNB"})), Legs(Trades({"USDT"}), Says("limited"))}

Unified(total, borrowed) == [listed |-> TRUE, total |-> total, borrowed |-> borrowed,
                             free |-> 0, locked |-> 0]
At(direction, amt) == [direction |-> direction, amt |-> amt]
MCAccounts ==
  {[verified |-> FALSE, ums |-> {}, spot |-> 0, unified |-> Unified(0, 0)],
   [verified |-> TRUE, ums |-> {At("forward", 1)}, spot |-> 0, unified |-> Unified(1, 0)],
   [verified |-> TRUE, ums |-> {At("reverse", 1)}, spot |-> 0, unified |-> Unified(0, 1)]}

\* Two tasks on the same side; one of them from before the cycles; one each side.
MCSetups == {[kind |-> OneWay, old |-> <<>>]}
  \cup {[kind |-> OneWay, old |-> <<[task |-> t, result |-> Legs(Filled(2), Filled(3))]>>] : t \in Openers}
  \cup {[kind |-> BothWays(t), old |-> <<>>] : t \in Openers}
MCOneSide == {[kind |-> OneWay, old |-> <<>>]}
=============================================================================
