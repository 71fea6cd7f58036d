---------------------------- MODULE MCHedgeFunds ----------------------------
(* Small instances of HedgeFunds for TLC.                                  *)
EXTENDS HedgeFunds

Off == [step |-> 0, min |-> 0, max |-> 0]
Leg(forMarket, lot) == [market |-> forMarket, lot |-> lot, notional |-> 5, apply |-> FALSE]

\* Steps 2 and 3 have the grid 6; a market step of its own; a bound that only
\* one filter has.
MCMarkets ==
  {[spot |-> Leg(Off, [step |-> 2, min |-> 2, max |-> 0]),
    perp |-> Leg(Off, [step |-> 3, min |-> 3, max |-> 20]),
    marginAllowed |-> TRUE, tradifi |-> FALSE],
   [spot |-> Leg([step |-> 4, min |-> 0, max |-> 9], [step |-> 1, min |-> 4, max |-> 99]),
    perp |-> Leg(Off, [step |-> 2, min |-> 2, max |-> 0]),
    marginAllowed |-> FALSE, tradifi |-> FALSE]}

MCPlans == [type : {"open", "close"}, direction : {"forward", "reverse"},
            mode : {"immediate", "smooth"}, single : {9}, n : {2}]

MCPrices == {100, 103}

\* One commission can be paid from the 7 USDT in the standard account, two cannot.
MCFees == [usdt |-> {0, 4}, base |-> {1}]

\* Money for both pairs or just short of it; the coins of a close may lie in
\* either account.
Purse(u, b, s, p) == [usdt |-> u, base |-> b, spotUsdt |-> 7, spotBase |-> s, pos |-> p]
MCFunds == [p \in MCPlans |->
  CASE p.type = "open" /\ p.direction = "forward"  -> {Purse(u, 0, 0, 0) : u \in {1300, 2000}}
    [] p.type = "open" /\ p.direction = "reverse"  -> {Purse(0, b, 0, 0) : b \in {12, 16}}
    [] p.type = "close" /\ p.direction = "forward" ->
         {Purse(0, 5, s, 16) : s \in {0, 8}} \cup {Purse(0, b, 0, b) : b \in {12, 16}}
    [] OTHER                                      -> {Purse(u, 0, 0, 16) : u \in {900, 1700}}]
=============================================================================
