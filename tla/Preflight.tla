------------------------------ MODULE Preflight ------------------------------
(***************************************************************************)
(* The arithmetic of a hedge task before it sends a pair: the quantity both *)
(* legs share, the account its spot leg trades in and the verdict on what   *)
(* was read (hedge_open_tasks/domain.py and                                 *)
(* services/hedge_preflight_provider.py).  Amounts are whole units; 0       *)
(* stands for a filter that is absent or disabled, and for a price that is  *)
(* missing.                                                                 *)
(***************************************************************************)
EXTENDS Integers, FiniteSetsExt

(* One leg's filters: MARKET_LOT_SIZE, LOT_SIZE, the notional and whether   *)
(* it applies to market orders.                                             *)
LotSize == [step : Nat, min : Nat, max : Nat]
Filters == [market : LotSize, lot : LotSize, notional : Nat, apply : BOOLEAN]

(* _parse_perp_filters: the notional always counts.                        *)
PerpFilters(record) == [record EXCEPT !.apply = TRUE]

EffectiveMarketStep(f) == IF f.market.step > 0 THEN f.market.step ELSE f.lot.step

(* _qty_bounds: each bound falls back from MARKET_LOT_SIZE on its own.      *)
QtyBound(f, bound) == IF f.market[bound] > 0 THEN f.market[bound] ELSE f.lot[bound]

MinNotional(f) == IF f.apply THEN f.notional ELSE 0

Gcd(a, b) == Max({d \in 1..a : a % d = 0 /\ b % d = 0})

(* Mutant: the coarser step serves both legs. *)
GridCoarser(a, b) == Max({a, b})

(* decimal_lcm *)
Grid(a, b) == (a * b) \div Gcd(a, b)

FloorToGrid(amount, grid) == (amount \div grid) * grid

LegFault(q, f) ==
  LET max == QtyBound(f, "max")
  IN IF q < QtyBound(f, "min") THEN "below_min_qty"
     ELSE IF max > 0 /\ q > max THEN "above_max_qty"
     ELSE "none"

(* _check_common_quantity: the first rule that is violated.                 *)
CheckQuantity(q, spot, perp, price) ==
  IF q <= 0 THEN "below_min_qty"
  ELSE IF LegFault(q, spot) # "none" THEN LegFault(q, spot)
  ELSE IF LegFault(q, perp) # "none" THEN LegFault(q, perp)
  ELSE IF \E f \in {spot, perp} : q * price < MinNotional(f) THEN "below_min_notional"
  ELSE "none"

(* decide_spot_route with the provider's forced case before it: a symbol    *)
(* the margin account cannot trade opens in the standard account.           *)
SpotRoute(type, direction, market, capped) ==
  LET regular == IF type = "close"
                 THEN direction = "forward"
                 ELSE /\ direction = "forward"
                      /\ ~market.marginAllowed \/ capped \/ market.tradifi
  IN IF regular THEN "regular_spot" ELSE "papi_margin"

(* compute_preflight on an assembled snapshot: in this order the symbol and *)
(* the position mode, the steps, the price, the quantity and, for an open   *)
(* task, the balance.  An open buy in the standard account is not checked:  *)
(* its money is transferred when the task is created.                       *)
Verdict(s, plan) ==
  LET spotStep == EffectiveMarketStep(s.spot)
      perpStep == EffectiveMarketStep(s.perp)
      q    == FloorToGrid(plan.single, Grid(spotStep, perpStep))
      why  == CheckQuantity(q, s.spot, s.perp, s.price)
      short == IF plan.direction = "forward"
               THEN s.route = "papi_margin" /\ s.usdt < q * plan.n * s.price
               ELSE s.base < q * plan.n
      result(rejection) == [rejection |-> rejection, q |-> q]
  IN IF ~s.tradable THEN [rejection |-> "symbol_unavailable", q |-> 0]
     ELSE IF ~s.oneWay THEN [rejection |-> "position_mode_invalid", q |-> 0]
     ELSE IF spotStep = 0 \/ perpStep = 0 THEN [rejection |-> "incomplete", q |-> 0]
     ELSE IF s.price = 0 THEN result("incomplete")
     ELSE IF why # "none" THEN result(why)
     ELSE IF plan.type = "open" /\ short THEN result("insufficient_balance")
     ELSE result("none")

(* PREFLIGHT_FATAL_REASONS *)
Fatal == {"insufficient_balance", "below_min_qty", "above_max_qty",
          "below_min_notional", "symbol_unavailable", "position_mode_invalid"}

(* The USDT moved to the standard account for an open task: 1.03 times the  *)
(* whole plan, truncated (create_task, OPEN_SPOT_BUFFER, truncate_usdt).    *)
OpenNeed(q, n, price) == (103 * q * n * price) \div 100
=============================================================================
