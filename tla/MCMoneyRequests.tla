-------------------------- MODULE MCMoneyRequests --------------------------
(* Small instances of MoneyRequests for TLC.                               *)
EXTENDS MoneyRequests, TLC

CONSTANTS h1, h2

MCHandler == {h1, h2}
MCMaxId == [k \in Kind |-> 1]
=============================================================================
