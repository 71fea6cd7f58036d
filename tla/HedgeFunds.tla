----------------------------- MODULE HedgeFunds -----------------------------
(***************************************************************************)
(* The money of one hedge task: what is read before a pair, in which        *)
(* account the spot leg trades, the transfers between the unified and the   *)
(* standard account, and the pairs that spend or earn (hedge_open_tasks/    *)
(* service.py create_task, post_start, _dispatch_one_for_task,              *)
(* _run_close_preparation, _transfer_back_usdt, on the facts of             *)
(* services/hedge_preflight_provider.py).                                   *)
(*                                                                          *)
(* HedgeTask has the worker, its drain and its counters; here a round is    *)
(* its reads, its transfer and its pair.  Only this task moves money.  A    *)
(* panel is a page of the snapshot cache: the value of some earlier moment. *)
(* The reads of one preflight are one step, a transfer and a pair are steps *)
(* of their own.                                                            *)
(***************************************************************************)
EXTENDS Preflight, Sequences

CONSTANTS
  Plans,       \* the tasks that may be asked for
  Markets,     \* the symbols they may trade
  Funds,       \* [Plans -> what the accounts may hold at the start]
  Prices,      \* the prices the spot market may show
  Fees,        \* what the exchange may withhold of what a spot leg buys or earns
  MaxMoves,    \* bound: changes of the price and of the cap list
  MaxTrouble   \* bound: reads that fail, refusals and lost answers

Plan == [type : {"open", "close"}, direction : {"forward", "reverse"},
         mode : {"immediate", "smooth"}, single : Nat, n : Nat \ {0}]
Market == [spot : Filters, perp : Filters, marginAllowed : BOOLEAN, tradifi : BOOLEAN]
Accounts == [usdt : Nat, base : Nat, spotUsdt : Nat, spotBase : Nat, pos : Nat]

ASSUME FundsAssumption ==
  /\ Plans \subseteq Plan /\ Markets \subseteq Market
  /\ Funds \in [Plans -> SUBSET Accounts]
  /\ Prices \subseteq Nat \ {0}
  /\ Fees \in [{"usdt", "base"} -> SUBSET Nat]
  /\ \A p, r \in Prices : 100 * p <= 103 * r   \* bound: the drift OPEN_SPOT_BUFFER covers
  /\ \A p \in Plans : \A v, w \in Funds[p] : v.spotUsdt = w.spotUsdt

VARIABLES
  plan, market,   \* the task's request and its symbol
  price, capped,  \* the spot market and the platform's collateral-cap list
  wallet,         \* the accounts: unified and standard, and the position's size
  transit,        \* on the way to the standard account
  panel,          \* the snapshot cache: a page is <<>> or <<value>>
  task,           \* the task's row
  pairs,          \* the pairs sent
  step, hand,     \* where the running call is and what it carries
  moves, trouble  \* bounds

world == <<price, capped, wallet, transit>>
vars == <<plan, market, world, panel, task, pairs, step, hand, moves, trouble>>

Statuses == {"none", "paused", "running", "stopped", "done", "deleted"}
NoHand == [q |-> 0, route |-> "none", amount |-> 0]

Opens == plan.type = "open"
Closes == plan.type = "close"
Forward == plan.direction = "forward"
Smooth == plan.mode = "smooth"
Sent == Len(pairs)

(* One more failure than the instance allows does not happen.               *)
Fails == trouble < MaxTrouble /\ trouble' = trouble + 1
Works == UNCHANGED trouble

-----------------------------------------------------------------------------
(* What can be read.  A fresh page of the cache is used before the exchange. *)

Live == [unified |-> [usdt |-> wallet.usdt, base |-> wallet.base],
         spot    |-> [base |-> wallet.spotBase],
         um      |-> wallet.pos,
         pm      |-> wallet.usdt,
         cap     |-> capped,
         price   |-> price]

Read(page) == IF panel[page] # <<>> THEN panel[page][1] ELSE Live[page]

Balances == Read("unified")   \* _read_balances: crossMarginFree
EstPrice == Read("price")     \* _read_est_price
UmPosition == Read("um")      \* cached_um_position_qty, then the live query
CapHit == Read("cap")         \* _read_collateral_cap_hit

(* get_snapshot: the facts of this moment.  An open buy reads the cap list; *)
(* a close is read in the direction of its spot order.                      *)
Snapshot(tradable, oneWay) ==
  [tradable |-> tradable,
   oneWay   |-> oneWay \/ Closes,
   spot     |-> market.spot,
   perp     |-> PerpFilters(market.perp),
   price    |-> EstPrice,
   usdt     |-> Balances.usdt,
   base     |-> Balances.base,
   route    |-> SpotRoute(plan.type, plan.direction, market,
                          Opens /\ Forward /\ CapHit)]

(* What a preflight comes to.  A read that fails, a symbol that is halted   *)
(* and an account in hedge mode are trouble; else it depends on the facts.  *)
Judged(s) ==
  LET v == Verdict(s, plan) IN [rejection |-> v.rejection, q |-> v.q, route |-> s.route]
Readings(fails) ==
  IF fails
  THEN {[rejection |-> "incomplete", q |-> 0, route |-> "none"],
        Judged(Snapshot(FALSE, TRUE)), Judged(Snapshot(TRUE, FALSE))}
  ELSE {Judged(Snapshot(TRUE, TRUE))}

-----------------------------------------------------------------------------
Init ==
  /\ plan \in Plans /\ market \in Markets /\ wallet \in Funds[plan]
  /\ price \in Prices /\ capped \in IF Opens /\ Forward THEN BOOLEAN ELSE {FALSE}
  /\ transit = [usdt |-> 0, base |-> 0]
  /\ panel = [page \in DOMAIN Live |-> <<>>]
  /\ task = [status |-> "none", q |-> 0, route |-> "none", back |-> FALSE]
  /\ pairs = <<>>
  /\ step = "idle" /\ hand = NoHand
  /\ moves = 0 /\ trouble = 0

Stay == UNCHANGED <<plan, market>>
Go(label, h) == step' = label /\ hand' = h
Rest == Go("idle", NoHand)
Set(status) == task' = [task EXCEPT !.status = status]
\* pause_task and stop_task_fatal write a running or paused row only.
SetIfActive(status) ==
  IF task.status \in {"running", "paused"} THEN Set(status) ELSE UNCHANGED task

Stored(q, route) == [status |-> "paused", q |-> q, route |-> route, back |-> FALSE]

-----------------------------------------------------------------------------
(* create_task.                                                             *)

(* A close is stored with nothing read.                                     *)
CreateClose ==
  /\ task.status = "none" /\ Closes
  /\ task' = Stored(0, "none")
  /\ UNCHANGED <<world, panel, pairs, step, hand, moves, trouble>> /\ Stay

(* An open task is refused unless all was read and passed.  It is stored    *)
(* with the quantity and the route of that reading; a buy in the standard   *)
(* account is funded first.                                                 *)
CreateOpen ==
  /\ task.status = "none" /\ Opens /\ step = "idle"
  /\ \E r \in Readings(FALSE) :
       /\ r.rejection = "none"
       /\ IF Forward /\ r.route = "regular_spot"
          THEN /\ Go("fund", [q |-> r.q, route |-> r.route,
                              amount |-> OpenNeed(r.q, plan.n, EstPrice)])
               /\ UNCHANGED task
          ELSE /\ task' = Stored(r.q, r.route)
               /\ UNCHANGED <<step, hand>>
  /\ UNCHANGED <<world, panel, pairs, moves, trouble>> /\ Stay

(* universal_transfer: it moves the money and says so, refuses, or moves it *)
(* and the answer is lost.  What it moved arrives a little later.           *)
Transfer(asset, moved) ==
  IF moved
  THEN /\ wallet[asset] >= hand.amount
       /\ wallet' = [wallet EXCEPT ![asset] = @ - hand.amount]
       /\ transit' = [transit EXCEPT ![asset] = @ + hand.amount]
  ELSE UNCHANGED <<wallet, transit>>

(* Without the answer there is no task.                                     *)
Fund ==
  /\ step = "fund"
  /\ \/ /\ Transfer("usdt", TRUE) /\ Works
        /\ task' = Stored(hand.q, hand.route)
     \/ /\ \/ \E moved \in BOOLEAN : Transfer("usdt", moved) /\ Fails
           \/ wallet.usdt < hand.amount /\ Transfer("usdt", FALSE) /\ Works
        /\ UNCHANGED task
  /\ Rest
  /\ UNCHANGED <<price, capped, panel, pairs, moves>> /\ Stay

-----------------------------------------------------------------------------
(* Preparing a close: _run_close_preparation, for every pair of an          *)
(* immediate task and once, in the start request, for a smooth one.         *)

Required(q) == q * (plan.n - Sent)

(* _close_um_position_error: the position covers all pairs to come.         *)
PositionCovers(q) == UmPosition >= Required(q)

(* _ensure_close_spot_balance: a page of the cache may only let the task    *)
(* pass; a shortage is confirmed by a live read.                            *)
SpotCovers(q) ==
  \/ panel["spot"] # <<>> /\ panel["spot"][1].base >= Required(q)
  \/ wallet.spotBase >= Required(q)
Shortage(q) == Required(q) - wallet.spotBase

(* What becomes of the task when the preparation fails: paused, or stopped  *)
(* on a fatal fact.                                                         *)
Refused(r) == SetIfActive(IF r.rejection \in Fatal THEN "stopped" ELSE "paused")

(* The transfer of a shortage is a step on the way to the next one.         *)
TransferTo == [arm |-> "armTransfer", gate |-> "gateTransfer"]

Prepare(next) ==
  /\ \E fails \in BOOLEAN : \E r \in Readings(fails) :
       /\ IF fails THEN Fails ELSE Works
       /\ LET h == [q |-> r.q, route |-> r.route, amount |-> 0]
          IN \/ /\ r.rejection # "none" \/ ~PositionCovers(r.q)
                /\ Refused(r) /\ Rest
             \/ /\ r.rejection = "none" /\ PositionCovers(r.q)
                /\ ~Forward \/ SpotCovers(r.q)
                /\ Go(next, h) /\ UNCHANGED task
             \/ /\ r.rejection = "none" /\ PositionCovers(r.q)
                /\ Forward /\ ~SpotCovers(r.q)
                /\ IF Balances.base >= Shortage(r.q)
                   THEN Go(TransferTo[next], [h EXCEPT !.amount = Shortage(r.q)])
                        /\ UNCHANGED task
                   ELSE Refused(r) /\ Rest
  /\ UNCHANGED <<world, panel, pairs, moves>> /\ Stay

(* The shortage is transferred; any failure pauses the task.                *)
PrepareTransfer(next) ==
  /\ step = TransferTo[next]
  /\ \/ /\ Transfer("base", TRUE) /\ Works
        /\ Go(next, [hand EXCEPT !.amount = 0]) /\ UNCHANGED task
     \/ /\ \/ \E moved \in BOOLEAN : Transfer("base", moved) /\ Fails
           \/ wallet.base < hand.amount /\ Transfer("base", FALSE) /\ Works
        /\ SetIfActive("paused") /\ Rest
  /\ UNCHANGED <<price, capped, panel, pairs, moves>> /\ Stay

-----------------------------------------------------------------------------
(* post_start.  A smooth close is prepared inside the request.              *)

Start ==
  /\ step = "idle"
  /\ IF Smooth /\ Closes
     THEN task.status = "paused" /\ task.q # 0
     ELSE task.status \in {"paused", "stopped"}
  /\ Set("running")
  /\ UNCHANGED <<world, panel, pairs, step, hand, moves, trouble>> /\ Stay

StartSmoothClose ==
  /\ step = "idle" /\ Smooth /\ Closes
  /\ task.status \in {"paused", "running"} /\ task.q = 0
  /\ Prepare("arm")

(* arm_prepared_close_task: one conditional write, and with a row that has  *)
(* changed meanwhile nothing or, when it got its quantity, a resume.        *)
Arm ==
  /\ step = "arm"
  /\ task' = IF task.status # "paused" THEN task
              ELSE IF task.q = 0
              THEN [task EXCEPT !.status = "running", !.q = hand.q, !.route = hand.route]
              ELSE [task EXCEPT !.status = "running"]
  /\ Rest
  /\ UNCHANGED <<world, panel, pairs, moves, trouble>> /\ Stay

-----------------------------------------------------------------------------
(* A round of the worker: _dispatch_one_for_task.                           *)

Round == step = "idle" /\ task.status = "running" /\ Sent < plan.n

RoundClose == Round /\ Closes /\ ~Smooth /\ Prepare("gate")

(* Mutant: a pair may move to the standard account on the way. *)
RouteKeptAlways(route) == TRUE
(* A pair goes to the standard account only when the task was funded for it. *)
RouteKept(route) == route = "regular_spot" => task.route = "regular_spot"

RoundOpen ==
  /\ Round /\ Opens /\ ~Smooth
  /\ \E fails \in BOOLEAN : \E r \in Readings(fails) :
       /\ IF fails THEN Fails ELSE Works
       /\ \/ r.rejection = "none" /\ RouteKept(r.route)
             /\ Go("leverage", [q |-> r.q, route |-> r.route, amount |-> 0])
             /\ UNCHANGED task
          \/ r.rejection = "none" /\ ~RouteKept(r.route)
             /\ SetIfActive("paused") /\ UNCHANGED <<step, hand>>
          \/ r.rejection # "none"
             /\ Refused(r) /\ UNCHANGED <<step, hand>>
  /\ UNCHANGED <<world, panel, pairs, moves>> /\ Stay

(* A smooth pair reuses what the task was stored with; its gate is in       *)
(* SmoothGate.                                                              *)
RoundSmooth ==
  /\ Round /\ Smooth /\ task.q # 0
  /\ Go("gate", [q |-> task.q, route |-> task.route, amount |-> 0])
  /\ UNCHANGED <<world, panel, task, pairs, moves, trouble>> /\ Stay

(* _set_leverage_before_open, before the first pair.                        *)
Leverage ==
  /\ step = "leverage"
  /\ \/ Works /\ Go("send", hand) /\ UNCHANGED task
     \/ Sent = 0 /\ Fails /\ SetIfActive("paused") /\ Rest
  /\ UNCHANGED <<world, panel, pairs, moves>> /\ Stay

(* _close_reverse_usdt_error: this pair's cost against a fresh page of the  *)
(* portfolio account; there is no live read behind it.                      *)
Gate ==
  /\ step = "gate" /\ Works
  /\ IF /\ Closes /\ ~Forward
        /\ panel["pm"] = <<>> \/ panel["pm"][1] < hand.q * EstPrice
     THEN SetIfActive("paused") /\ Rest
     ELSE Go("send", hand) /\ UNCHANGED task
  /\ UNCHANGED <<world, panel, pairs, moves>> /\ Stay

-----------------------------------------------------------------------------
(* The pair and the exchange.                                               *)

Cost == hand.q * price
Standard == hand.route = "regular_spot"
Buys == Opens = Forward

(* Whether the account the spot leg trades in can pay for it, and what it   *)
(* holds after it did.                                                      *)
SpotPays ==
  IF Buys THEN (IF Standard THEN wallet.spotUsdt ELSE wallet.usdt) >= Cost
          ELSE (IF Standard THEN wallet.spotBase ELSE wallet.base) >= hand.q

(* The commission is withheld from what the leg brings: from the coins of a *)
(* buy, from the USDT of a sale; it is 0 where it is paid in another asset. *)
Commissions ==
  IF Buys THEN {fee \in Fees["base"] : fee <= hand.q}
          ELSE {fee \in Fees["usdt"] : fee <= Cost}

Traded(w, fee) ==
  LET usdt == IF Buys THEN -Cost ELSE Cost - fee
      base == IF Buys THEN hand.q - fee ELSE -hand.q
  IN IF Standard
     THEN [w EXCEPT !.spotUsdt = @ + usdt, !.spotBase = @ + base]
     ELSE [w EXCEPT !.usdt = @ + usdt, !.base = @ + base]

(* The perp leg: a close is reduce-only.                                    *)
Positioned(w) ==
  [w EXCEPT !.pos = IF Opens THEN @ + hand.q ELSE @ - Min({@, hand.q})]

(* prepare_attempt asks for a running task and a pair left; then each leg   *)
(* is filled or refused.  Whether the task goes on after a refusal is the   *)
(* worker's matter (HedgeTask); an open task is done with its last pair.    *)
(* The leg's row has the gross amount; "fee" is for the properties.         *)
Send ==
  /\ step = "send"
  /\ IF task.status = "running" /\ Sent < plan.n
     THEN /\ \E spot, perp \in BOOLEAN, fee \in Commissions \cup {0} :
               /\ IF spot THEN SpotPays /\ fee \in Commissions ELSE fee = 0
               /\ IF perp /\ (spot \/ ~SpotPays) THEN Works ELSE Fails
               /\ LET w == IF spot THEN Traded(wallet, fee) ELSE wallet
                  IN  wallet' = IF perp THEN Positioned(w) ELSE w
               /\ pairs' = Append(pairs,
                    [q |-> hand.q, spot |-> spot, perp |-> perp,
                     quote |-> IF spot THEN Cost ELSE 0, fee |-> fee])
               /\ \/ Set(IF Opens /\ Sent + 1 >= plan.n THEN "done" ELSE "running")
                  \/ ~(spot /\ perp) /\ Set("paused")
     ELSE UNCHANGED <<wallet, pairs, task, trouble>>
  /\ Rest
  /\ UNCHANGED <<price, capped, transit, panel, moves>> /\ Stay

-----------------------------------------------------------------------------
(* The end of a task.                                                       *)

(* Mutant: the plan's quantity at the price of the moment. *)
ProceedsEstimated(sent) == MapThenSumSet(LAMBDA i : sent[i].q * price, DOMAIN sent)
SumOf(sent, field) == MapThenSumSet(LAMBDA i : sent[i][field], DOMAIN sent)
(* close_task_spot_quote_total: gross, the leg has no commission.           *)
Proceeds(sent) == SumOf(sent, "quote")

(* A close that sent all its pairs is done when its position is flat or     *)
(* still open, and paused when the position could not be read.  The         *)
(* proceeds of a flat one go back, unless there is no active cycle any more *)
(* (another task of the symbol closed it, PositionCycles) or a leg's amount *)
(* is unreadable.                                                           *)
Finish ==
  /\ step = "idle" /\ Closes /\ task.status = "running" /\ Sent >= plan.n
  /\ \/ Fails /\ SetIfActive("paused") /\ UNCHANGED <<step, hand>>
     \/ /\ Works /\ Set("done")
        /\ \/ Forward /\ wallet.pos = 0 /\ Proceeds(pairs) > 0 /\ Go("back", NoHand)
           \/ UNCHANGED <<step, hand>>
  /\ UNCHANGED <<world, panel, pairs, moves>> /\ Stay

(* _transfer_back_usdt: a failure is only logged.                           *)
Back ==
  /\ step = "back"
  /\ \/ /\ wallet.spotUsdt >= Proceeds(pairs) /\ Works
        /\ wallet' = [wallet EXCEPT !.spotUsdt = @ - Proceeds(pairs), !.usdt = @ + Proceeds(pairs)]
        /\ task' = [task EXCEPT !.back = TRUE]
     \/ UNCHANGED <<wallet, task>>
        /\ IF wallet.spotUsdt >= Proceeds(pairs) THEN Fails ELSE Works
  /\ Rest
  /\ UNCHANGED <<price, capped, transit, panel, pairs, moves>> /\ Stay

-----------------------------------------------------------------------------
(* Everybody else.                                                          *)

(* post_pause and post_delete, at any moment.                               *)
Intervene ==
  /\ task.status \in {"running", "paused", "stopped"} /\ trouble < MaxTrouble
  /\ \/ task.status = "running" /\ Set("paused")
     \/ Set("deleted")
  /\ trouble' = trouble + 1
  /\ UNCHANGED <<world, panel, pairs, step, hand, moves>> /\ Stay

(* The process dies and starts again; the row and the exchange stay.        *)
Restart ==
  /\ step # "idle" /\ Fails
  /\ Rest
  /\ panel' = [page \in DOMAIN Live |-> <<>>]
  /\ UNCHANGED <<world, task, pairs, moves>> /\ Stay

(* The snapshot service reads a page again.  A page that became too old is  *)
(* read from the exchange, which is as good as read again; only the pages   *)
(* this plan asks for matter.                                               *)
Pages ==
  {"unified", "price"} \cup (IF Closes THEN {"um"} ELSE {})
    \cup CASE Opens /\ Forward   -> {"cap"}
           [] Closes /\ Forward  -> {"spot"}
           [] Closes /\ ~Forward -> {"pm"}
           [] OTHER              -> {}
\* Nothing is read any more.
Over == task.status \in {"done", "deleted"} /\ step = "idle"

Refresh(page) ==
  /\ ~Over
  /\ panel' = [panel EXCEPT ![page] = <<Live[page]>>]
  /\ UNCHANGED <<world, task, pairs, step, hand, moves, trouble>> /\ Stay

(* What was transferred arrives.                                            *)
Land ==
  /\ wallet' = [wallet EXCEPT !.spotUsdt = @ + transit.usdt,
                              !.spotBase = @ + transit.base]
  /\ transit' = [usdt |-> 0, base |-> 0]
  /\ UNCHANGED <<price, capped, panel, task, pairs, step, hand, moves, trouble>> /\ Stay

(* The price moves, or the platform changes its list, which an open buy     *)
(* reads.                                                                   *)
MarketMoves ==
  /\ moves < MaxMoves /\ moves' = moves + 1 /\ ~Over
  /\ \/ price' \in Prices \ {price} /\ UNCHANGED capped
     \/ Opens /\ Forward /\ capped' = ~capped /\ UNCHANGED price
  /\ UNCHANGED <<wallet, transit, panel, task, pairs, step, hand, trouble>> /\ Stay

Next ==
  \/ CreateClose \/ CreateOpen \/ Fund
  \/ Start \/ StartSmoothClose \/ PrepareTransfer("arm") \/ Arm
  \/ RoundClose \/ PrepareTransfer("gate") \/ RoundOpen \/ RoundSmooth
  \/ Leverage \/ Gate \/ Send
  \/ Finish \/ Back
  \/ Intervene \/ Restart
  \/ \E page \in Pages : Refresh(page)
  \/ Land \/ MarketMoves

Spec == Init /\ [][Next]_vars
-----------------------------------------------------------------------------
(* Properties.                                                              *)

(* What the accounts have, or have on the way, for the pair in hand.  Two   *)
(* buys are left to the exchange: an open buy on margin was checked at a    *)
(* price that may have moved, and a reverse close's buy is gated by a page  *)
(* that may be older than the task's own last pair.                         *)
Covered ==
  /\ Opens /\ Forward /\ Standard => wallet.spotUsdt + transit.usdt >= Cost
  /\ Opens /\ ~Forward => wallet.base >= hand.q
  /\ Closes /\ Forward => wallet.spotBase + transit.base >= hand.q
  /\ Closes => wallet.pos >= hand.q

(* No pair is sent with nothing behind it: whatever page was old, whichever *)
(* transfer failed or came late, however often the task was started again,  *)
(* the account its spot leg trades in covers the pair, and a close has the  *)
(* position (create_task, _run_close_preparation, the route guard).         *)
PairIsCovered == [][Len(pairs') > Len(pairs) => Covered]_vars

(* Every variable holds a value of its kind.                               *)
TypeOK ==
  /\ task \in [status : Statuses, q : 0..plan.single,
               route : {"none", "regular_spot", "papi_margin"}, back : BOOLEAN]
  /\ step \in {"idle", "fund", "arm", "armTransfer", "gate", "gateTransfer",
               "leverage", "send", "back"}
  /\ \A amount \in {wallet.usdt, wallet.base, wallet.spotUsdt, wallet.spotBase,
                    wallet.pos, transit.usdt, transit.base} : amount \in Nat
  /\ Sent <= plan.n

(* The largest quantity below the single amount that both legs can trade.   *)
Largest == Max({x \in 0..plan.single :
                  /\ x % EffectiveMarketStep(market.spot) = 0
                  /\ x % EffectiveMarketStep(market.perp) = 0})

(* Both legs of every pair trade that quantity, within the bounds of both   *)
(* markets, whichever preflight it came from (compute_preflight).           *)
QuantityFits ==
  /\ TypeOK
  /\ \A i \in DOMAIN pairs :
       /\ pairs[i].q = Largest /\ Largest > 0
       /\ \A f \in {market.spot, market.perp} : LegFault(Largest, f) = "none"

(* What the exchange kept of the proceeds.                                  *)
Withheld == SumOf(pairs, "fee")

(* When the proceeds of a finished close went back, all the task earned is  *)
(* gone from the standard account, single-leg pairs included, and as the    *)
(* gross sum is sent, the commission with it: the account holds the USDT it *)
(* held before less what the exchange withheld, nothing of another pair and *)
(* nothing less (close_task_spot_quote_total, _transfer_back_usdt).         *)
ProceedsReturn ==
  task.back => \A w \in Funds[plan] : w.spotUsdt = wallet.spotUsdt + Withheld
=============================================================================
