--------------------------- MODULE PositionCycles ---------------------------
(***************************************************************************)
(* What the pairs of the hedge tasks add up to: the position cycle a pair   *)
(* is booked on, the fees of its legs, the open positions, the slippage     *)
(* curve and the close log (hedge_open_tasks/store.py), the end of a close  *)
(* task (service.py), the merge with the account's positions (domain.py),   *)
(* and the fee backfill (fee_fetcher.py).                                   *)
(*                                                                          *)
(* One coin, both directions, several tasks with a worker each, on an       *)
(* exchange in one-way mode: forward shorts and reverse longs net out.  How *)
(* a pair is dispatched and resolved is HedgeTask's; here it is sent,       *)
(* executed at the exchange and settled in the store.  Nobody trades the    *)
(* coin by hand.                                                            *)
(***************************************************************************)
EXTENDS Integers, Sequences, FiniteSetsExt

CONSTANTS
  Tasks,
  Setups,      \* the tasks' kinds, and the pairs older than the cycles
  Target,      \* [Tasks -> pairs]
  Results,     \* what the exchange may make of a pair: its two legs
  Answers,     \* what it may say of the commissions of a pair's legs
  Accounts,    \* account snapshots the merge may meet
  MaxEvents    \* bound: pauses, deletions, crashes, changes of the account
               \* cache and runs of the backfill script

None == "none"
NoCycle == 0
NoAvg == <<>>
Directions == {"forward", "reverse"}
LegNames == {"spot", "perp"}
\* A leg's fill: how much, whether the order filled whole, and the quote paid,
\* 0 when the exchange left it out.
LegFill == [qty : Nat, whole : BOOLEAN, quote : Nat]
Assets == {"BNB", "USDT", "base", "other"}
Kind == [type : {"open", "close"}, direction : Directions]
Answer == [says : {"trades", "error", "limited", "truncated"},
           assets : SUBSET Assets, priced : BOOLEAN]

ASSUME CyclesAssumption ==
  /\ IsFiniteSet(Tasks)
  /\ \A s \in Setups : s.kind \in [Tasks -> Kind] /\ s.old \in Seq([task : Tasks, result : Results])
  /\ Target \in [Tasks -> Nat \ {0}]
  /\ Results \subseteq [LegNames -> LegFill] /\ Answers \subseteq [LegNames -> Answer]
  \* An account has at most one position in the coin on each side.
  /\ \A a \in Accounts : \A u, v \in a.ums : u.direction = v.direction => u = v
  /\ MaxEvents \in Nat

VARIABLES
  kind,     \* [type, direction] of each task
  task,     \* hedge_open_task: [status, scheduled]
  pairs,    \* hedge_open_attempt and its hedge_open_leg rows, in order
  cycles,   \* hedge_open_cycle, in order; shown: its last rows on the curve
  logs,     \* hedge_open_cycle_close_log
  um,       \* the exchange's net position in the coin
  cached,   \* the account cache's reading of um
  fin,      \* the workers' locals in _finalize_close_task
  fill,     \* the backfill: legs planned, and its progress file
  events

vars == <<kind, task, pairs, cycles, logs, um, cached, fin, fill, events>>

Ids == DOMAIN pairs
TaskRows == [status : {"absent", "paused", "running", "done", "deleted"}, scheduled : Nat]

-----------------------------------------------------------------------------
(* Rows.                                                                    *)

NoFee == [bnb |-> FALSE, price |-> FALSE, other |-> None]
NoLegFill == [qty |-> 0, whole |-> FALSE, quote |-> 0]
NoRow == [qty |-> 0, whole |-> FALSE, quote |-> 0, fee |-> NoFee]

Row(result, fee) == [qty |-> result.qty, whole |-> result.whole,
                     quote |-> result.quote, fee |-> fee]

Pair(t, c) == [task |-> t, cycle |-> c, stage |-> "sent", late |-> FALSE,
               order |-> [l \in LegNames |-> NoLegFill],
               row |-> [l \in LegNames |-> NoRow]]

Sign(t) == (IF kind[t].direction = "forward" THEN -1 ELSE 1)
             * (IF kind[t].type = "open" THEN 1 ELSE -1)

-----------------------------------------------------------------------------
(* Fees of a leg (fee_fetcher.py).                                          *)

\* What fetch_leg_fees freezes on a leg: the BNB part with its price, and one
\* other asset if it can be priced.
FeeColumns(answer) ==
  LET others == answer.assets \ {"BNB"}
      bnb == "BNB" \in answer.assets
      columns == [bnb |-> bnb, price |-> bnb /\ answer.priced,
                  other |-> IF others \in {{"USDT"}, {"base"}}
                            THEN CHOOSE a \in others : TRUE ELSE None]
  IN IF answer.says = "trades" /\ (bnb \/ columns.other # None) THEN columns ELSE NoFee

(* Mutant: the columns are written over. *)
UpdateLegFeesAgain(row, fee) == [row EXCEPT !.fee = IF fee = NoFee THEN @ ELSE fee]

\* update_leg_fees: only four empty columns are written.
UpdateLegFees(row, fee) == [row EXCEPT !.fee = IF @ = NoFee THEN fee ELSE @]

LegsMissingFee(row) == row.whole /\ row.fee = NoFee

\* usdt_fee_total over a set of legs: is there a total at all.
FeeTotal(rows) ==
  /\ rows # {}
  /\ \A r \in rows : /\ r.fee # NoFee
                     /\ r.fee.bnb => r.fee.price
                     /\ r.fee.other = "base" => r.quote > 0

-----------------------------------------------------------------------------
(* Figures over the legs.                                                   *)

SumOf(f) == MapThenSumSet(LAMBDA x : f[x], DOMAIN f)

TypeOf(i) == kind[pairs[i].task].type
DirectionOf(i) == kind[pairs[i].task].direction
FilledOn(c, type, l) ==
  {i \in Ids : pairs[i].cycle = c /\ TypeOf(i) = type /\ pairs[i].row[l].qty > 0}
Qty(is, l) == SumOf([i \in is |-> pairs[i].row[l].qty])
Quote(is, l) == SumOf([i \in is |-> pairs[i].row[l].quote])
Priced(is, l) == {i \in is : pairs[i].row[l].quote > 0}

\* An average as the fraction it is; NoAvg without a priced leg.
Avg(is, l) == IF Priced(is, l) = {} THEN NoAvg
              ELSE <<Quote(is, l), Qty(Priced(is, l), l)>>

(* Mutant: a leg without a quote drags the average. *)
LegBasisDragged(c, type, l) ==
  LET is == FilledOn(c, type, l)
  IN [avg |-> IF Priced(is, l) = {} THEN NoAvg ELSE <<Quote(is, l), Qty(is, l)>>,
      qty |-> Qty(is, l)]

\* _cycle_leg_basis_locked
LegBasis(c, type, l) ==
  LET is == FilledOn(c, type, l)
  IN [avg |-> Avg(is, l), qty |-> Qty(is, l)]

\* direction_to_leg_actions: the spot leg sells when a forward position is
\* closed and when a reverse one is opened.
SpotSells(direction, type) == (direction = "forward") = (type = "close")

\* cycle_slippage_pct: the two averages, the selling leg's first.
Slippage(c, type) ==
  LET spot == LegBasis(c, type, "spot").avg
      perp == LegBasis(c, type, "perp").avg
  IN IF NoAvg \in {spot, perp} THEN NoAvg
     ELSE IF SpotSells(cycles[c].direction, type) THEN <<spot, perp>> ELSE <<perp, spot>>

\* list_open_cycle_slippage_basis, of one cycle: its rows grouped by kind.
CurveRow(c, type) ==
  LET on(l) == FilledOn(c, type, l)
  IN [kind |-> type, spot |-> Avg(on("spot"), "spot"), perp |-> Avg(on("perp"), "perp"),
      qty |-> IF type = "open" THEN Qty(on("perp"), "perp") ELSE Qty(on("spot"), "spot"),
      unbalanced |-> Qty(on("spot"), "spot") # Qty(on("perp"), "perp")]

Curve(c) == {CurveRow(c, type) : type \in
               {ty \in {"open", "close"} : \E l \in LegNames : FilledOn(c, ty, l) # {}}}

\* _cycle_trading_fee_total: every filled leg of the cycle.
RowsOf(legs) == {pairs[x[1]].row[x[2]] : x \in legs}
CycleRows(c) == RowsOf({x \in Ids \X LegNames : pairs[x[1]].cycle = c
                                                /\ pairs[x[1]].row[x[2]].qty > 0})

-----------------------------------------------------------------------------
(* Open positions.                                                          *)

OpenCycle(c) == c = NoCycle \/ ~cycles[c].closed
OnBucket(d, c) == {i \in Ids : DirectionOf(i) = d /\ pairs[i].cycle = c
                               /\ \E l \in LegNames : pairs[i].row[l].qty > 0}

(* Mutant: the legs of a close task add to the position. *)
RemainingAdded(is, l) == Qty(is, l)

\* What is left of a leg: opened less closed.
Remaining(is, l) == Qty({i \in is : TypeOf(i) = "open"}, l)
                      - Qty({i \in is : TypeOf(i) = "close"}, l)

\* One bucket of aggregate_positions.
Bucket(d, c) ==
  LET is == OnBucket(d, c)
      opens(l) == {i \in is : TypeOf(i) = "open" /\ pairs[i].row[l].qty > 0}
  IN [direction |-> d, cycle |-> c,
      spotQty |-> Remaining(is, "spot"), perpQty |-> Remaining(is, "perp"),
      position |-> (IF d = "forward" THEN -1 ELSE 1) * Remaining(is, "perp"),
      spotAvg |-> Avg(opens("spot"), "spot"), perpAvg |-> Avg(opens("perp"), "perp"),
      incomplete |-> \E l \in LegNames : opens(l) # Priced(opens(l), l),
      deleted |-> \E i \in is : task[pairs[i].task].status = "deleted",
      feeOk |-> FeeTotal(RowsOf({x \in is \X LegNames : x[1] \in opens(x[2])}))]

\* aggregate_positions: the buckets of the cycles that are not closed.
Positions ==
  {Bucket(x[1], x[2]) : x \in {y \in Directions \X ({NoCycle} \cup DOMAIN cycles) :
                                 OpenCycle(y[2]) /\ OnBucket(y[1], y[2]) # {}}}

-----------------------------------------------------------------------------
(* The merge with the account (merge_positions).                            *)

Larger(b) == IF b.spotQty > b.perpQty THEN b.spotQty ELSE b.perpQty
Apart(b) == IF b.spotQty > b.perpQty THEN b.spotQty - b.perpQty ELSE b.perpQty - b.spotQty

\* What the account holds of the coin's spot asset in both wallets.
Held(account) == account.spot + account.unified.total

\* _merge_build_row: a bucket and a position, either may be missing.
MergeRow(bs, us, account) ==
  [bucket |-> bs, um |-> us,
   status |-> IF bs = {} THEN "no_task" ELSE IF us = {} THEN "no_um" ELSE "normal",
   exposure |-> \E b \in bs : Larger(b) > 0 /\ 100 * Apart(b) > Larger(b),
   drift |-> \E b \in bs : /\ b.direction = "forward" /\ account.verified
                           /\ b.spotQty > 0 /\ Held(account) < b.spotQty]

\* The bucket a position of the account goes with: the latest cycle's.
Newest(bs) == {b \in bs : \A o \in bs : o.cycle <= b.cycle}
MatchOf(u, ps) == Newest({b \in ps : b.direction = u.direction})

UmPositions(account) == IF account.verified THEN account.ums ELSE {}

(* Mutant: one bucket per coin and direction. *)
MatchedByDirection(account, ps) ==
  {b \in ps : \E u \in UmPositions(account) : b.direction = u.direction}

\* Buckets taken by a position, cycle by cycle.
Matched(account, ps) == UNION {MatchOf(u, ps) : u \in UmPositions(account)}

\* A reverse position is a debt: the records of all its rows against what the
\* account owes of the asset.
ReverseDrift(rows, account) ==
  LET recorded == SumOf([r \in rows |-> (CHOOSE b \in r.bucket : TRUE).spotQty])
      owed == account.unified.borrowed - account.unified.free - account.unified.locked
      actual == IF owed > 0 THEN owed ELSE 0
  IN /\ account.verified /\ account.unified.listed
     /\ \A r \in rows : \A b \in r.bucket : b.spotQty >= 0
     /\ 100 * (recorded - actual) > recorded

Merge(account, ps) ==
  LET rows == {MergeRow(MatchOf(u, ps), {u}, account) : u \in UmPositions(account)}
                \cup {MergeRow({b}, {}, account) : b \in ps \ Matched(account, ps)}
      reverse == {r \in rows : \E b \in r.bucket : b.direction = "reverse"}
  IN (rows \ reverse)
       \cup {[r EXCEPT !.drift = ReverseDrift(reverse, account)] : r \in reverse}

-----------------------------------------------------------------------------
(* The pairs of a task.                                                     *)

Event == events < MaxEvents /\ events' = events + 1

Idle == [pc |-> "idle", cycle |-> NoCycle, got |-> <<>>]
NoFill == [todo |-> {}, cursor |-> 0, failed |-> {}]

\* A pair of the time before the cycles, settled, its fees never read.
LegacyPair(t, result) ==
  [Pair(t, NoCycle) EXCEPT !.stage = "done", !.order = result,
     !.row = [l \in LegNames |-> Row(result[l], NoFee)]]

Init ==
  \E setup \in Setups : LET old == setup.old IN
    /\ kind = setup.kind
    /\ pairs = [i \in DOMAIN old |-> LegacyPair(old[i].task, old[i].result)]
    /\ um = SumOf([i \in DOMAIN old |-> Sign(old[i].task) * old[i].result["perp"].qty])
    /\ task = [t \in Tasks |->
                 LET n == Cardinality({i \in DOMAIN old : old[i].task = t})
                 IN [scheduled |-> n,
                     status |-> IF kind[t].type = "close" THEN "absent"
                                ELSE IF n = Target[t] THEN "done" ELSE "running"]]
    /\ cycles = <<>> /\ logs = <<>> /\ cached = {}
    /\ fin = [t \in Tasks |-> Idle] /\ fill = NoFill
    /\ events = 0

\* What the account can still close in a task's direction.
Closable(t, net) == LET open == IF kind[t].direction = "forward" THEN -net ELSE net
                    IN IF open > 0 THEN open ELSE 0

Left(t) == Target[t] - task[t].scheduled
Own(t) == {i \in Ids : pairs[i].task = t}
WorkerFree(t) == fin[t].pc = "idle" /\ \A i \in Own(t) : pairs[i].stage = "done"

ActiveCycles(d) == {c \in DOMAIN cycles : cycles[c].direction = d /\ ~cycles[c].closed}
NewCycle(d) == [direction |-> d, closed |-> FALSE, shown |-> {}]

\* prepare_attempt's part: the pair goes on the latest active cycle, or opens one.
BookPair(t) ==
  LET d == kind[t].direction
  IN IF ActiveCycles(d) # {}
     THEN /\ pairs' = Append(pairs, Pair(t, Max(ActiveCycles(d))))
          /\ UNCHANGED cycles
     ELSE /\ pairs' = Append(pairs, Pair(t, Len(cycles) + 1))
          /\ cycles' = Append(cycles, NewCycle(d))

\* _close_um_position_error, on the cached position or a fresh one.
PositionCovers(t) == \E net \in IF cached = {} THEN {um} ELSE cached : Closable(t, net) >= Left(t)

Dispatch(t) ==
  /\ task[t].status = "running" /\ WorkerFree(t) /\ Left(t) > 0
  /\ kind[t].type = "close" => PositionCovers(t)
  /\ BookPair(t)
  /\ task' = [task EXCEPT ![t].scheduled = @ + 1]
  /\ UNCHANGED <<kind, logs, um, cached, fin, fill, events>>

\* The exchange executes a pair; a close is reduce-only.
Execute(i) ==
  LET t == pairs[i].task
  IN /\ pairs[i].stage = "sent"
     /\ \E r \in Results :
          /\ kind[t].type = "close" => r["perp"].qty <= Closable(t, um)
          /\ pairs' = [pairs EXCEPT ![i].stage = "executed", ![i].order = r]
          /\ um' = um + Sign(t) * r["perp"].qty
     /\ UNCHANGED <<kind, task, cycles, logs, cached, fin, fill, events>>

\* The leg rows get the final figures, and the last pair of an open task ends
\* it.  "late" records that the cycle was closed before.
Settle(i) ==
  LET t == pairs[i].task
      c == pairs[i].cycle
  IN /\ pairs[i].stage = "executed"
     /\ pairs' = [pairs EXCEPT ![i].stage = "settled", ![i].late = ~OpenCycle(c),
                    ![i].row = [l \in LegNames |-> Row(pairs[i].order[l], NoFee)]]
     /\ task' = IF task[t].status = "running" /\ kind[t].type = "open" /\ Left(t) = 0
                THEN [task EXCEPT ![t].status = "done"] ELSE task
     /\ UNCHANGED <<kind, cycles, logs, um, cached, fin, fill, events>>

\* _fetch_leg_fees_after_terminal: one read for each filled leg without fees.
FetchFees(i) ==
  /\ pairs[i].stage = "settled"
  /\ \E a \in Answers :
       pairs' = [pairs EXCEPT ![i].stage = "done",
                   ![i].row = [l \in LegNames |->
                                 IF LegsMissingFee(@[l]) THEN UpdateLegFees(@[l], FeeColumns(a[l]))
                                 ELSE @[l]]]
  /\ UNCHANGED <<kind, task, cycles, logs, um, cached, fin, fill, events>>

\* The account refresh stores the position; after 300 s it is not used.
RefreshCache ==
  /\ Event
  /\ cached' \in {{um}, {}} \ {cached}
  /\ UNCHANGED <<kind, task, pairs, cycles, logs, um, fin, fill>>

-----------------------------------------------------------------------------
(* The operator.                                                            *)

SetStatus(t, from, to) ==
  /\ task[t].status \in from
  /\ task' = [task EXCEPT ![t].status = to]
  /\ UNCHANGED <<kind, pairs, cycles, logs, um, cached, fin, fill>>

\* create_task of a close task wants an active cycle.
CreateClose(t) ==
  /\ ActiveCycles(kind[t].direction) # {}
  /\ SetStatus(t, {"absent"}, "paused") /\ UNCHANGED events
Start(t) == SetStatus(t, {"paused"}, "running") /\ UNCHANGED events
Pause(t) == SetStatus(t, {"running"}, "paused") /\ Event
Delete(t) == SetStatus(t, {"paused", "running", "done"}, "deleted") /\ Event

-----------------------------------------------------------------------------
(* The end of a close task.                                                 *)

\* _verify_close_flat, once the pairs are used up: flat, still open, or unread.
VerifyCloseFlat(t) ==
  /\ kind[t].type = "close" /\ task[t].status = "running"
  /\ WorkerFree(t) /\ Left(t) = 0
  /\ \/ /\ um = 0
        /\ fin' = [fin EXCEPT ![t].pc = "flat"]
        /\ UNCHANGED task
     \/ /\ um # 0
        /\ task' = [task EXCEPT ![t].status = "done"]
        /\ UNCHANGED fin
     \/ /\ task' = [task EXCEPT ![t].status = "paused"]
        /\ UNCHANGED fin
  /\ UNCHANGED <<kind, pairs, cycles, logs, um, cached, fill, events>>

\* _finalize_close_task: the cycle is looked up and the task done ...
TakeCycle(t) ==
  /\ fin[t].pc = "flat"
  /\ task' = [task EXCEPT ![t].status = "done"]
  /\ LET active == ActiveCycles(kind[t].direction)
     IN fin' = [fin EXCEPT ![t] = IF active = {} THEN Idle
                                  ELSE [Idle EXCEPT !.pc = "close", !.cycle = Max(active)]]
  /\ UNCHANGED <<kind, pairs, cycles, logs, um, cached, fill, events>>

\* ... then close_cycle, which writes closed_at_us once ...
CloseCycle(t) ==
  LET c == fin[t].cycle
  IN /\ fin[t].pc = "close"
     /\ cycles' = IF cycles[c].closed THEN cycles
                  ELSE [cycles EXCEPT ![c].closed = TRUE, ![c].shown = Curve(c)]
     /\ fin' = [fin EXCEPT ![t].pc = "read"]
     /\ UNCHANGED <<kind, task, pairs, logs, um, cached, fill, events>>

Reads == <<"openPerp", "closePerp", "openSpot", "closeSpot", "openSlip", "closeSlip", "fee">>

Read(what, c) ==
  CASE what = "openPerp" -> LegBasis(c, "open", "perp")
    [] what = "closePerp" -> LegBasis(c, "close", "perp")
    [] what = "openSpot" -> LegBasis(c, "open", "spot")
    [] what = "closeSpot" -> LegBasis(c, "close", "spot")
    [] what = "openSlip" -> Slippage(c, "open")
    [] what = "closeSlip" -> Slippage(c, "close")
    [] what = "fee" -> FeeTotal(CycleRows(c))

\* ... the figures, each read on its own ...
ReadFigure(t) ==
  /\ fin[t].pc = "read" /\ Len(fin[t].got) < Len(Reads)
  /\ fin' = [fin EXCEPT ![t].got = Append(@, Read(Reads[Len(@) + 1], fin[t].cycle))]
  /\ UNCHANGED <<kind, task, pairs, cycles, logs, um, cached, fill, events>>

LogRow(c, got) ==
  [cycle |-> c, openPerp |-> got[1], closePerp |-> got[2], openSpot |-> got[3],
   closeSpot |-> got[4], openSlip |-> got[5], closeSlip |-> got[6], feeOk |-> got[7]]

\* ... and insert_close_log, whose failure is swallowed.
InsertCloseLog(t) ==
  /\ fin[t].pc = "read" /\ Len(fin[t].got) = Len(Reads)
  /\ \/ logs' = Append(logs, LogRow(fin[t].cycle, fin[t].got))
     \/ UNCHANGED logs
  /\ fin' = [fin EXCEPT ![t] = Idle]
  /\ UNCHANGED <<kind, task, pairs, cycles, um, cached, fill, events>>

Finalize(t) == TakeCycle(t) \/ CloseCycle(t) \/ ReadFigure(t) \/ InsertCloseLog(t)

-----------------------------------------------------------------------------
(* The backfill script, a process of its own.                               *)

LegId(i, l) == 2 * i - (IF l = "spot" THEN 1 ELSE 0)
PairOf(id) == (id + 1) \div 2
LegOf(id) == IF id % 2 = 1 THEN "spot" ELSE "perp"

\* list_legs_missing_fees
MissingFees ==
  {LegId(x[1], x[2]) : x \in
     {y \in Ids \X LegNames : LegsMissingFee(pairs[y[1]].row[y[2]])}}

\* BackfillEngine.run, refused while a task is running.
StartBackfill ==
  /\ Event /\ fill.todo = {}
  /\ \A t \in Tasks : task[t].status # "running"
  /\ fill' = [fill EXCEPT !.todo = {id \in MissingFees \ fill.failed : id > fill.cursor}]
  /\ fill'.todo # {}
  /\ UNCHANGED <<kind, task, pairs, cycles, logs, um, cached, fin>>

\* One leg: its columns are written or it joins the failures, and the progress
\* file says so; a rate limit stops the run before that.
BackfillLeg ==
  LET id == Min(fill.todo)
      i == PairOf(id)
      l == LegOf(id)
  IN /\ fill.todo # {}
     /\ \E a \in {answers[l] : answers \in Answers} :
          IF a.says = "limited"
          THEN fill' = [fill EXCEPT !.todo = {}] /\ UNCHANGED pairs
          ELSE /\ pairs' = [pairs EXCEPT ![i].row[l] = UpdateLegFees(@, FeeColumns(a))]
               /\ fill' = [todo |-> fill.todo \ {id}, cursor |-> id,
                           failed |-> fill.failed \cup
                                        (IF FeeColumns(a) = NoFee THEN {id} ELSE {})]
     /\ UNCHANGED <<kind, task, cycles, logs, um, cached, fin, events>>

\* The server dies: the workers' locals and the account cache are gone, and so
\* is a fee read that had not happened.
Crash ==
  /\ Event
  /\ fin' = [t \in Tasks |-> Idle]
  /\ cached' = {}
  /\ pairs' = [i \in Ids |-> [pairs[i] EXCEPT !.stage = IF @ = "settled" THEN "done" ELSE @]]
  /\ UNCHANGED <<kind, task, cycles, logs, um, fill>>

Next ==
  \/ \E t \in Tasks : \/ Dispatch(t) \/ VerifyCloseFlat(t) \/ Finalize(t)
                      \/ CreateClose(t) \/ Start(t) \/ Pause(t) \/ Delete(t)
  \/ \E i \in Ids : Execute(i) \/ Settle(i) \/ FetchFees(i)
  \/ RefreshCache \/ StartBackfill \/ BackfillLeg \/ Crash
Spec == Init /\ [][Next]_vars

-----------------------------------------------------------------------------
(* Properties.                                                              *)

\* Every variable holds a value of its kind, and a pair names a known cycle.
TypeOK ==
  /\ task \in [Tasks -> TaskRows]
  /\ \A i \in Ids : /\ pairs[i].task \in Tasks /\ pairs[i].cycle \in 0..Len(cycles)
                    /\ pairs[i].stage \in {"sent", "executed", "settled", "done"}
                    /\ pairs[i].order \in [LegNames -> LegFill]
  /\ um \in Int /\ cached \subseteq Int
  /\ \A k \in DOMAIN logs : logs[k].cycle \in DOMAIN cycles
  /\ fill.todo \subseteq 1..(2 * Len(pairs))

OfKind(g, type) ==
  IF type = "open"
  THEN [spot |-> g.openSpot.avg, perp |-> g.openPerp.avg, qty |-> g.openPerp.qty]
  ELSE [spot |-> g.closeSpot.avg, perp |-> g.closePerp.avg, qty |-> g.closeSpot.qty]

\* Closing a cycle does not rearrange the slippage curve: the close log holds the
\* very figures the curve showed for the open cycle, although the two are computed
\* by different code, read apart and while other tasks go on
\* (list_open_cycle_slippage_basis, _cycle_leg_basis_locked, _finalize_close_task).
\* Excepted are cycles with a pair that another task settled after the closing.
LogIsTheCurve ==
  \A k \in DOMAIN logs :
    LET g == logs[k]
        c == g.cycle
    IN (\A i \in Ids : pairs[i].cycle = c => ~pairs[i].late) =>
         /\ cycles[c].closed
         /\ {[kind |-> s.kind, spot |-> s.spot, perp |-> s.perp, qty |-> s.qty] :
               s \in cycles[c].shown}
              = {[kind |-> ty, spot |-> OfKind(g, ty).spot, perp |-> OfKind(g, ty).perp,
                  qty |-> OfKind(g, ty).qty] :
                   ty \in {x \in {"open", "close"} :
                             \E l \in LegNames : FilledOn(c, x, l) # {}}}

Settled == \A i \in Ids : pairs[i].stage \in {"settled", "done"}
Net(is) == SumOf([i \in is |-> Sign(pairs[i].task) * pairs[i].order["perp"].qty])

\* Once every pair is settled, the open positions and the closed cycles together
\* are the exchange's position: no fill is lost, counted twice or with the wrong
\* sign, whatever was paused, deleted or killed on the way (aggregate_positions).
BooksMatchExchange ==
  /\ TypeOK
  /\ Settled => um = SumOf([p \in Positions |-> p.position])
                       + Net({i \in Ids : ~OpenCycle(pairs[i].cycle)})

\* Whatever the account's snapshot shows, the merged table has every open bucket
\* once and every position of the account once, and an account that could not be
\* read raises no alarm (merge_positions).
MergeLosesNothing ==
  LET ps == Positions IN
  \A account \in Accounts :
    LET rows == Merge(account, ps)
    IN /\ \A b \in ps : Cardinality({r \in rows : b \in r.bucket}) = 1
       /\ \A u \in UmPositions(account) : Cardinality({r \in rows : u \in r.um}) = 1
       /\ \A r \in rows : ~account.verified => ~r.drift

\* The fee columns of a leg, once written, stay: the worker's read and the
\* backfill may both be after the same leg (update_leg_fees).
FeeWrittenOnce ==
  [][\A i \in Ids : \A l \in LegNames :
       pairs[i].row[l].fee # NoFee => pairs'[i].row[l].fee = pairs[i].row[l].fee]_vars

\* "Cycles that are closed completely are left out of the open positions": what
\* the query leaves out is flat (the comment in aggregate_positions).
HiddenIsFlat ==
  \A c \in DOMAIN cycles :
    cycles[c].closed => Net({i \in Ids : pairs[i].cycle = c}) = 0
=============================================================================
