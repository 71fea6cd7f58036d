# Verification of the funding-hedge backend

This directory holds TLA+ models of the parts of the backend that move money or that decide what the
operator is shown, the TLC configurations that check them on small instances, and TLAPS proofs, for every
size, of every safety property that a passing run checks. `PROJECT.json` indexes it: which definition translates
which lines, which run checks which property, which theorem proves it, which hazards of the code are covered.

    tlc -workers 2 -config BorrowTwoTasks.cfg MCBorrowTasks    # one run
    tlapm BorrowTasksProofs.tla                                # proofs of the borrow engine
    tlapm MoneyRequestsProofs.tla                              # proofs of the money endpoints
    tlapm LedgerFlowProofs.tla                                 # proofs of the ledger's coverage and cadence
    tlapm HedgeTaskProofs.tla                                  # proofs of the hedge worker
    tlapm HedgeFundsProofs.tla                                 # proofs of a hedge task's money
    tlapm SmoothGateProofs.tla                                 # proofs of the smooth gate
    tlapm SnapshotProofs.tla                                   # proofs of the snapshot commands and sources
    tlapm PositionCyclesProofs.tla                             # proofs of the books and the close log

## 1. The system

A local Python server (`backend/app/server.py`) serves a web page, shows funding-rate snapshots, and
executes two kinds of long-lived tasks against Binance: *borrow tasks* (repeat a margin loan until it
succeeded n times) and *hedge tasks* (send n pairs of a spot and a perpetual order). State is kept in
SQLite files; HTTP handlers run in their own threads; each engine has its own thread or threads.

| Component | State | Operations | Hard behaviour | What makes it correct | Module |
|---|---|---|---|---|---|
| Borrow engine (`borrow_tasks/`, `services/live_borrow_executor.py`) | tables `borrow_task`, `borrow_attempt`, `borrow_settings`; sidecar lock file | create / start / pause / delete / edit a task, clear the log, start / stop execution; one dispatch at a time: pick, insert a pending row, POST, resolve | handlers race the dispatch; a crash with a POST out; 429 and 418; two processes on one file; identical failures folded into one row | an answer finds its row; loans = counted + known-unconfirmed; nothing leaves during a ban; one dispatcher; the promise of `LoanBook` | `BorrowTasks`, `LoanBook` |
| Hedge task worker (`hedge_open_tasks/`, `services/live_hedge_executor.py`) | tables of tasks, attempts (pairs), legs, settings; a worker thread per task; in-memory retry counts and stamps | start / fill once / pause / delete, two gates; worker: drain by client-ID lookups, settle, dispatch a pair, resolve | POSTs without a clear answer, lookups that miss a new order, a crash between any two steps, store writes that fail, stop conditions read before the network and used after it | one pair at a time; no live order is forgotten; no pair counted twice; failure brake; every open pair is settled | `HedgeTask` |
| Funds of a hedge task (`service.py`, `services/hedge_preflight_provider.py`, `domain.py`) | wallets, cached account pages, the task's quantity and route | create, start, prepare a close (transfer), preflight a round, send, transfer the proceeds back | pages minutes old, transfers that fail or arrive late, a cap list and prices that move, restarts | no pair is sent uncovered; both legs fit their filters; what goes back is what the task's own legs were paid, gross | `Preflight`, `HedgeFunds` |
| Smooth gate and book tickers (part of `service.py`, `services/best_bid_ask_provider.py`) | gate columns of the task row, wake conditions, watchers with reference counts | wait for the spread, force, relaunch | lost wake-ups, passes of an earlier gate, half-failed subscriptions | a pass belongs to its gate; no wake-up is lost; one way only leaks a watcher; a gate ends | `SmoothGate` |
| Position cycles, close logs, fees (`store.py`, `fee_fetcher.py`) | cycles per coin and direction, close-log rows, fee columns | open with the first pair, close with the position, slippage curve, positions merged with the account, fee backfill | several tasks share a cycle; several transactions per close; worker and backfill on one leg | the books agree with the exchange, the log with the curve | `PositionCycles` |
| Asset transfer, margin repayment (`asset_transfer/`, `margin_repay/`, handlers in `app/server.py`, the page's two forms) | one row per client request id; the form's lock | begin, send once, resolve; retry, reload, recover | retries, lost answers, crashes between the three | never sent twice; a stored outcome is true and final | `MoneyRequests`, `OneShot` |
| Ledger flow log (`ledger_flow/`) | coverage intervals, gaps, run records | hourly, start-up and manual pulls | truncated pages, partial failure, overlapping windows, downtime beyond the horizon | what is called complete was read, but for answers cut short without a dated row | `LedgerFlow` |
| Snapshot worker (`services/snapshot_service.py`) | published snapshot, command queue, in-flight commands | scheduled tick, refresh symbol, refresh all, stop | joining a command that is finishing, deadline against publication | a waiting client is always released and told the truth | `SnapshotWorker` |
| Snapshot sources (`snapshot_service.py`, `services/private_client.py`) | per-source caches above a transport cache, the history sweep | cycle, click, assembly of a publication | two layers of expiry, failed reads, reuse of earlier account data | how much older than its date a value may be; histories stay | `SnapshotSources` |
| Row contents and classification (`domain/snapshot.py`), signed clients, HTTP routing, public IP, page presentation | caches at most | pure functions and I/O | network failure | their answers are enumerated by the models that use them | none |

*How they interact.* The hedge worker reads the snapshot worker's cached account pages in its preflight
(`HedgeFunds` has the pages as values of an earlier moment, `SnapshotSources` says how old they can be) and asks
it for a refresh when a task stops running (`Hook` in `SnapshotWorker`). Inside the hedge engine the same worker
loop is seen by four modules, each with one of its concerns in full and the others reduced to a step:
`HedgeTask` has drain and settlement, `HedgeFunds` money and quantities, `SmoothGate` the wait before a pair,
`PositionCycles` several tasks and what their pairs add up to. Borrow tasks, transfers, repayments and the ledger
share nothing with them but the HTTP server.

## 2. Plan and what is left

Done, in this order: `BorrowTasks` and `BorrowTasksProofs`; `HedgeTask`; `MoneyRequests` as a refinement of
`OneShot`; `LedgerFlow`; `SnapshotWorker`, `SnapshotSources`; `Preflight`, `HedgeFunds`; `SmoothGate`;
`PositionCycles`; `MoneyRequestsProofs`; `LedgerFlowProofs`; `HedgeTaskProofs`; `SnapshotProofs` on
`SnapshotWorker`; `SmoothGateProofs`; `HedgeFundsProofs`; `PositionCyclesProofs`; `SnapshotProofs` on `SnapshotSources`;
`BorrowTasks` as a refinement of `LoanBook`.

Left: several hedge tasks sharing one wallet, and two server processes on one hedge database (there is no ownership lock
there); several close tasks of one coin.

## 3. The modules

### `BorrowTasks` implements `LoanBook`

| Model | Code |
|---|---|
| `status, count, target, authorized, marker, latest` | columns of `borrow_task` (`marker` = `in_flight_attempt_id`) |
| `rows, lastId` | `borrow_attempt` and its AUTOINCREMENT id |
| `cursor, enabled, rearm, cooldown` | `borrow_settings`; `cooldown` = retry deadline absent / ahead / behind |
| `owner` | the process that holds the flock of `ownership.py` |
| `up, pc, chosen, attempt, result, seen` | per process: the locals of `_dispatch_one`, `insert_pending_attempt`, `resolve_attempt` |
| `req` | handlers between their read of a task and their write |
| `loans, unconfirmed` | the exchange's view, and the loans whose tranId never got into the database |
| `StartProcess`, `Crash` | lock acquisition and start-up recovery; death of a process at any step, with a POST on the wire that is granted or not |
| `Choose`, `InsertCheck`, `InsertWrite`, `Post`, `ResolveRead`, `ResolveWrite` | one tick of the scheduler; the two store methods that select and then write are cut in two, because another process can write between |
| `StoreFailure` | a store method raises, the dispatcher swallows it |
| `Create`, `ReadStart`/`ReadPause`/`ReadDelete`, `WriteStatus`, `ReadEdit`, `WriteEdit`, `ClearLogs`, `ExecutionStart`, `ExecutionStop` | the HTTP operations; a request that reads and later writes is two actions |

Times are reduced to "before or after the deadline", the version column to "was the row written since I
read it", a result to the category that decides what is done with it. Amounts, texts and the scheduler
interval are left out: a tick may come at any time.

`LoanBook` is what is left when threads, rows and markers are forgotten: tasks with a ceiling and a count, an exchange that lends,
at most one ask at a time. An ask is allowed under the ceiling and outside of a rate limit; it ends in a loan that is booked
(`Lend`, `Book`) or lost with the one who knew of it (`Lend`, `Lose`), or without one that can be booked (`Miss`, `End`),
although the exchange may have lent. `KeepsLoanBook` is its specification under the mapping `ceiling <- target`,
`booked <- count`, `lost <- unconfirmed`, `asking <- AskedFor` and `phase <- Phase` (the process with a POST in flight, and how far it
is), `silenced <- Silenced`. It ties together what the invariants say apart: that the loan an ask brought is the one that is
booked when this ask ends, for the task it was asked for.

### `HedgeTask`

| Model | Code |
|---|---|
| `task, pair, leg` | rows of `hedge_open_task`, `hedge_open_attempt`, `hedge_open_leg` |
| `gate, closeGate` | the start and the close gate in `hedge_open_settings` |
| `wpc, snap, todo, signal, live, ans` | the worker thread of the task: place, row read at the top of the round, legs still to be looked up, verdict of the drain, path of the dispatch, answers |
| `retries`, `unstamped` | `_leg_query_retries`, `_rate_limit_stamp_pending` (memory only, lost in a crash) |
| `req` | handlers between their steps (read, write the status, ensure a worker) |
| `order`, `throttled`, `forgotten` | the exchange's orders; which dispatches met a 429; those of them whose 429 the store could not be told |
| `Top`, `Query`, `Settle`, `SettleFails`, `Decide`, `Verify` | `_worker_round`: drain by lookups, crash-gap settlement, decision, close verification |
| `Dispatch`, `Prepare`, `WorkerRaises`, `Post`, `Resolve`, `LimitLost`, `Simulate`, `Pause` | `_dispatch_one_for_task` and what it calls; in `WorkerRaises` and `LimitLost` a store write raises and ends the thread |
| `Receive`, `WriteStatus`, `EnsureWorker`, `ToggleGate` | the HTTP operations |
| `Crash` | process death and restart with `_recover_workers` |
| `Finish` | the exchange completes a resting order |

Every store method is one step, every network exchange is a step of its own, and the worker goes on with
what it read before it. What a preflight finds is a choice here; `HedgeFunds` says what it really is.

### `MoneyRequests` implements `OneShot`

`row` is the two tables, `handler` the server threads between their transactions (stored, sent, waiting),
`wire` and `moves` the exchange, `page` the two forms with their request id and lock, `calls` the POSTs between them.
`Receive`, `Begin`, `Send`, `Resolve`, `StoreFails` are the handler cut at its two transactions and at the
network; `Decide` is the exchange, which may carry a request out long after the answer was given up; `Restart`
drops the threads. `Submit`, `Resend`, `LoseAnswer`, `Recover`, `Acknowledge`, `Reload` are the page.

`OneShot` is the promise of the two store modules' first lines: registered once, carried out at most once and only
after that, and the stored outcome is true. `KeepsPromise` is its specification under the mapping
`told <- Told(r)`, `moves <- moves`. It covers both kinds of request, and with them three things at once that are usually tested
apart: no second movement, no change of a stored outcome, no false success or failure. One exception is built into
the mapping: an HTTP 408 of a transfer is stored as failed although its outcome is unknown (disagreement 7);
`Told` reads such a row as unknown.

### `LedgerFlow`

`cov`, `gaps`, `runs` are the tables; `flight` is the pull that holds the flight lock with its windows, `cadence` the
scheduler's start-up flag. Rows are not kept: `read` and `final` record which instants were really read, and which were read
when rows could no longer be added to them. `Tick`, `Boot`, `Manual` start a pull; `Record`, `CommitInterest`,
`CommitIncome`, `PullCapital` are its separate transactions; `Raise`, `Restart` interrupt it anywhere; `Pass` is the
clock. The answers of a source are failed, whole, truncated with a row at the edge of what was read, or truncated with no row
that could be dated (`Unreadable`). After the last kind the code moves the end of the coverage to the end of the window and
records no gap; `blind` remembers these windows.

### `SnapshotWorker` and `SnapshotSources`

The first is the concurrency, the second the data. In `SnapshotWorker` `commands`, `queue`, `slot` are the two
command classes, `_command_queue` and `_inflight`; `worker` is where the thread stands within one command
(`Enter`, `Fetch`, `Assemble`, `Validate`, `Commit`, `Tell`, `SetDone`, `Release`, in the order of the code), `client` where a
request stands (`Click`, `ReadStateBefore`, `ReadState`, `AnswerClick`, `Press`, `AnswerPress`). `Expire` lets the
deadline pass at any point, `Stop` sets the stop event.

In `SnapshotSources` a step is a whole `RefreshCycle` or click (`RefreshRow`). A value is the instant at which it was read at the
exchange, each of the two cache layers adds its own stamp (`source`, `transport`, `limit`, `limitHeld`,
`checked`), `history` and `cursor` are the funding histories and their sweep, `shown` is the publication.
`classic_reference` is three transport reads under one cache entry (`Reference`): a later one that fails leaves the earlier
ones in the transport. A click's forced reads renew, beside the limit, the transport entries of the account info and
the cross margin data, and read a reference anew when the publication has none; the cache entries above keep their
dates. The account info may also expire between two reads of one click (`expires`).

### `Preflight` and `HedgeFunds`

`Preflight` has the pure part: filters, shared grid, common quantity, route and verdict, as operators over one
snapshot. `HedgeFunds` is a task's money around it: `wallet` and `transit` are the exchange, `panel` the cached pages,
`task` the row, `pairs` what was sent, `step`/`hand` the running call. `CreateOpen`, `CreateClose`, `Fund`, `Start`,
`StartSmoothClose`, `PrepareTransfer`, `Arm`, `RoundOpen`, `RoundClose`, `RoundSmooth`, `Leverage`, `Gate`, `Send`,
`Finish`, `Back` are the service's calls in their order, `Intervene` and `Restart` the operator and the process, `Land`, `Refresh`,
`MarketMoves` what changes underneath. Amounts are small numbers: what matters is which of two is larger.
The exchange may withhold a commission from what a spot leg brings (`Commissions`): coins of a buy, USDT of a sale. The store has the
gross amount (`quote`), and `Back` sends its sum. `Finish` may also end a flat task without `Back`: `_finalize_close_task`
returns before the transfer when the cycle is not active any more.

### `SmoothGate`

`row` has the gate columns, `worker` up to two threads (an old one may still be leaving), `owner`, `relaunch`, `wake`,
`subs` the service's maps, `entry`, `hold`, `book`, `telling` the provider. `Open`, `Subscribe`, `Look`, `Decide`, `Wait`,
`Send`, `After`, `Exit`, `Deregister`, `HandOver` are the worker; `Request` followed by `Announce` and
`Employ` the handlers, cut where they release the store; `StartWatch`, `SubscriptionFails`, `Change`, `Tell`, `OtherJoined`,
`Other` the event loop and the other tasks on a book. A joiner waits for the creator's watcher five seconds of its own:
in `JoinerGivesUp` they run out first, and its count stays (`kept`).

### `PositionCycles`

`pairs` has each pair with what the exchange made of it (`order`) and what the store knows (`row`), `cycles` and
`logs` the two tables, `um` and `cached` the exchange's net position and the cached reading of it, `fin` the locals of
`_finalize_close_task`, `fill` the backfill with its progress file. `Dispatch`, `Execute`, `Settle`, `FetchFees` are a
pair's life; `VerifyCloseFlat` and `Finalize` (`TakeCycle`, one `Read` per figure, `InsertCloseLog`, `CloseCycle`) the end of a
close task, each store call a step; `StartBackfill`, `BackfillLeg` the script; `Curve`, `Positions`, `Merge` the queries.

## 4. Runs

| Run | Instance | Shows |
|---|---|---|
| `borrow_two_tasks` | 2 tasks, 2 dispatches, 1 handler, target 1, crashes | a dispatch has a task and an answer finds its row; no marker is stranded; a late answer keeps the operator's status; a ban ends only by a Start |
| `borrow_two_processes` | 2 processes, 1 task, 2 dispatches, targets 1 or 2, store failures | the lock elects one dispatcher; books and bans hold across restarts and lost resolutions; `KeepsLoanBook` |
| `hedge_open` | open task, 2 pairs, threshold 2, start / pause / delete, inconclusive lookups, raising store writes, 1 crash | one pair at a time, closed legs have no unseen order, no double count, failure brake, a throttled pair never moves the counters unless the event of its 429 could not be written |
| `hedge_drain` | close task, 1 pair, every request, both gates, lookups that may miss an order before the last retry, 1 crash, fairness | the drain closes no leg whose order exists; every open pair is settled |
| `money_requests` | both forms, 2 threads, 1 request of each kind | `KeepsPromise`; the repayment form unlocks only when it is safe |
| `ledger_flow` | 5 instants, 3 pulls, 1 trouble; overlap 2, horizon 3, hour 3 | what is complete was read and late rows are caught, but for truncated answers without a dated row; one success an hour |
| `snapshot_worker` | 1 symbol, 2 clients, 2 commands, 1 scheduled cycle, fairness | clicks merge, the status said is true, ok shows the click's data, every request ends |
| `snapshot_sources` | 2 rows, 1 private panel, 1 public source, 6 instants, 1 trouble, 2 clicks or forced cycles | ages and the bound on the exceptions, account dates, histories that stay |
| `hedge_funds` | all 8 kinds of task with 2 pairs on 2 markets, commissions, 1 move of the market, 1 trouble | pairs are covered, quantities fit both legs, the gross proceeds go back |
| `smooth_gate` | 2 workers, 2 pairs, open and close forward, window 1, 3 events, fairness | no lost wake-up, no watcher for nobody but through a joiner that gave up, passes pay and belong to their gate, every gate ends |
| `positions` | 2 opening tasks and 1 closing, 1 pair each: same side, both sides, or a pair older than the cycles; 1 event | books = exchange, log = curve, merge loses nothing, fees are written once |
| `positions_hidden` (violation) | the same, one side | disagreement 1 |

The type invariant of a module is a conjunct of the first property its run names.

### Bounds, and why they are enough

- *Borrow.* Two dispatches allow a success and a failure, or a dispatch lost in a crash and one after it. One
  handler suffices against the dispatcher, since a request with an outdated version is already a choice of
  `ReadEdit`. `NoStrandedMarker` is checked where store methods do not raise: when one does, the marker stays until the next
  start. `ResolutionKeepsStatus` is checked with one process: with two, TLC violates it, because a plain SELECT opens no
  transaction, so a pause made through the non-owner can fall between the halves of a store method. The
  deployment runs one server.
- *Hedge.* Two pairs are enough to have one settled and one open; the retry budget is cut from
  `LEG_QUERY_MAX_RETRIES` = 10 to `Cap` = 2, which keeps "below the cap" and "at the cap" apart; threshold 2 with two
  pairs reaches the brake on the last pair. One crash can fall at any step, and recovery is the ordinary drain; after
  it neither store writes nor lookups fail any more (`Raises`, `Inconclusive`).
  `hedge_open` takes lookups at their word, because a lookup that lies makes disagreement 4 bite there; `hedge_drain`
  lets them lie and states what the drain still guarantees.
- *Requests.* One request per kind, because different ids share nothing but the form; two threads serve a first POST and
  its repetition.
- *Ledger.* Five instants hold an hour's border, a window cut by the horizon, and the overlap; three pulls make a
  failure, a repair and a look at the repair. The ratios overlap < horizon and spacing < hour are those of the code.
- *Snapshot.* One symbol and the cache button are two slots, with two clients on one slot; a third command would only
  queue behind. In `SnapshotSources` the ratios of the lifetimes follow the defaults, with one instant for the fast ones.
  Six instants hold a whole lifetime of the slow sources, a half-read reference, and a due read after it.
  `LifetimeAssumption` says that no transport entry outlives the cache entry above it. The defaults satisfy it, but
  `from_env` enforces only the bound of 1800 s on the slow transport (`config.py:206`): with a
  `funding_history_cache_ttl_seconds` set below it TLC violates `RefreshedIsRead` for the limits, the very masquerade the
  comment at `:204` rules out. `AheadAssumption` names the condition on batch size and time ahead under which `HistoryStays`
  can hold, and `MaxTrouble`, `MaxAsked` are part of it. The instance satisfies it with equality (`Ahead` = 4); without the
  assumption and with `Ahead` = 3, TLC violates the property.
- *Funds.* Steps 2 and 3 (grid 6), a market step of its own, bounds only one filter has; purses that hold both pairs or
  just too little; prices 3 % apart, which is what `OPEN_SPOT_BUFFER` covers. Only one task moves money. Of the USDT in the
  standard account one commission can be paid and two cannot, so the transfer back succeeds with and without one and fails
  for want of money.
- *Gate.* Three events cover a pass, a pause and a start, or a toggle between them; two threads the old worker
  and the new one. Reverse tasks differ from forward ones only in `evaluation_direction`, which the close exercises.
- *Positions.* One pair per task, with a whole result and a single leg filled in part without a quote. More pairs
  of a task add to the same sums. Manual trading of the coin is excluded.

Deadlock checking is off everywhere: every instance ends when its bounded counters are used up.

### Fairness

- `HedgeTask.FairSpec`: the worker thread keeps being scheduled (it loops without waiting for anybody), and the exchange finishes
  a market order. Nothing about operators, gates or crashes. Lookups answer truly or miss the order at most until the retry
  budget ends: with lookups that are inconclusive for ever the code pauses the task, by design.
- `SnapshotWorker.Fairness`: the worker thread runs, a client's wait is bounded by its timeout, deadlines pass.
- `SmoothGate.Spec`: threads that can run do, those of the other tasks on a book too, the event loop starts a watcher or fails
  it and tells of changes, the clock goes on.
  Nothing about the market or the operator: `GateEnds` rests on the five-minute window alone.

## 5. Where code and text disagree

The first is a run of this project. The others were found by TLC or while translating; they are told here with the
steps that lead to them, and the models contain the behaviour (no guard hides it).

1. *A cycle is closed under another task's pair* (`positions_hidden`). The close task reads a flat position, an opening
   task of the coin dispatches into the active cycle, then the close task closes that cycle. The position
   exists, the cycle is closed, and `aggregate_positions` leaves it out, although its comment
   (`hedge_open_tasks/store.py:2856`) speaks of cycles that are closed completely. The same steps let two close tasks log
   one cycle twice, and `insert_close_log`'s docstring "与 close_cycle 同事务" is not so: the two are
   separate transactions (`service.py:2790-2801`).
2. *A Start reopens a borrow task.* `post_start` reads the task (`borrow_tasks/service.py:213-222`) and then writes
   'borrowing' whatever has happened since (`store.py:366-387`): over a Delete, or over the answer that completed it.
   `test_borrow_store.py:462`: "deleted/completed are terminal (never reopen)".
3. *A fatal rejection revives a deleted hedge task.* The fatal branch (`hedge_open_tasks/store.py:1310`) sets 'stopped' over
   'deleted'; `domain.py:1463` says "``deleted`` is sticky".
4. *A single 404 closes a leg.* Right after a POST without an answer, one lookup (`live_hedge_executor.py:720`) closes the
   leg; the text at `:760` calls that 404 "eventual-consistency noise, NOT a real absent signal". Only lookups of
   the drain have the retry budget, so `ClosedLegHasNoOrder` is checked with truthful lookups, `DrainClosesTruly` with lagging ones.
5. *A Start is lost.* `ensure_worker` (`service.py:2205`) is satisfied with a thread that has already decided to leave;
   `:2203` promises "True iff a worker is (now) running for this task". The task is running with nobody to work on it.
6. *A close task completes unverified.* `finalize_attempt` (`store.py:1663`), reached from the drain, completes the task on its
   last pair; `service.py:2399` says a close task is not done by its pairs (不自动 done) but by the position check.
7. *408 of a transfer is a failure.* The other 4xx rule applies to it (`app/server.py:969`), while a repayment's 408 is
   unknown. The page, too, shows 划转未发出 after a broken connection (`frontend/index.html:4526`), and its comment at
   `:4501` takes every thrown error for a request that was never sent.
8. *One leg closes the other.* A leg refused for lack of funds makes `resolve_attempt` close both legs
   (`service.py:3969`) while the other is NEW or PARTIALLY_FILLED, against `:4327-4328`.
9. *A late click shows old rows with ok.* A symbol's answer is composed from the state read before `refresh_status`
   (`snapshot_service.py:449`) when its wait ran out in between; `:452` says 'never a fake "ok"'. `OkIsShown` excepts a
   client whose wait had run out.
10. *A reopened gate is not served.* When both gates reopen while the old worker is leaving, nobody relaunches
    (`service.py:1834`), against the comment above it.
11. *A fee total is not total.* With BNB and a third asset on one leg only the BNB columns are written
    (`fee_fetcher.py:319`), and `usdt_fee_total` takes them as complete. The backfill's cursor (`:473`) passes over a leg with a
    smaller id that fills later.

12. *Coverage without reading.* A truncated answer of which no row can be dated moves the end of the coverage to the end of the
    window and records no gap (`ledger_flow/service.py:284-287`, `:307`). The design
    (`docs/planning/2026-08-04-dual-ledger-flow-log-design.md:526`) advances a truncated source only to what is proven to be covered
    without a break. `CompleteIsRead` and `LateRowsCaught` except exactly these windows.
13. *A 429 that is forgotten.* The event of a rate limit is written, unguarded, before the stamp
    (`hedge_open_tasks/service.py:3942`). If that write raises, the worker ends with the pair neither stamped nor
    remembered, and a later drain counts it as an ordinary failure, which the comments from `:3952` on are there to rule out.
    `RateLimitNotCounted` excepts these pairs.
14. *Dates of shared reads.* A click's forced reads of account info and cross margin data renew the transport below the caches, and
    a reference that fails half way leaves its first answers there. A cycle that finds its cache due is then served the older
    answer and stamps it as read now, up to one slow lifetime late: the masquerade that `config.py:65` and `:203` rule out by
    their bound. `RefreshedIsRead` names these reads and proves the bound.
15. *A watcher for nobody.* A joiner whose own five seconds run out raises without giving its count back
    (`best_bid_ask_provider.py:146`). When the creator still succeeds, the counter never reaches zero again, and
    the rule of `docs/planning/smooth-open-orders-v1.md:77`, tasks subscribe and release and the count decides, is broken until the
    process ends. `WatchedWhileHeld` counts these joiners apart.

Further behaviour a maintainer should know of, not contradicted by any text:

- *Hedge tasks.* A rate-limit stamp pending in memory is lost in a crash (`service.py:3955`). With the start gate closed
  between check and dispatch (`:3582`) the simulated path records a confirmed failure of a pair never sent. A last
  pair that was throttled leaves the task running with nothing left to do (`store.py:1366`). A fatally stopped
  task may be started again (`service.py:1191`), and a pause that arrives late writes over done (`:1324`). There is no
  ownership lock as the borrow engine has (`:613`).
- *Funds.* Two tasks share one cached balance (`:2670`), and the balance check of an opening covers the whole plan
  each round, also what is already done (`:3443`). A transfer that arrives late is repeated (`:2677`). The gate of a
  reverse close may read a page older than the task's own last pair (`:794`). Age of the cap list is wall-clock time.
  The transfer back sends the gross sum of the sales (`:2764`): a commission withheld in USDT is paid from USDT that was there
  before, and where there is not enough the whole transfer fails and the proceeds stay. Nothing goes back when another close
  task of the coin closed the cycle first (`:2798`).
- *Ledger.* The hourly decision looks at the last 64 runs only.
- *Snapshot.* `_release_cache_inflight` removes whatever cache command is in the slot; clicks postpone scheduled ticks. A
  transport lifetime longer than the cache above it is accepted for all but the slow one (see the bounds).

## 6. Proofs

### `BorrowTasksProofs`

For every number of tasks, dispatches, processes, handlers and every set of targets, from
`BorrowAssumption` alone:

| Theorem | Statement |
|---|---|
| `TypeCorrect` | `Spec => []TypeOK` |
| `AnswerFindsItsRow` | `Spec => []InFlightIsMarked` |
| `OneDispatcher` | `Spec => []SoleDispatcher` |
| `RateLimitSilences` | `Spec => []QuietWhileRateLimited` |
| `MarkersAreOfDispatches` | `~StoreFails` gives `Spec => []NoStrandedMarker` |
| `BooksBalance` | `Spec => []LoansAccounted` |
| `NoOverborrow` | `Spec => []OverborrowOnlyUnconfirmed` |
| `BansEndByHand` | `Spec => BanEndsByStart` |
| `StatusIsTheOperators` | one process gives `Spec => ResolutionKeepsStatus` |
| `EngineKeepsLoanBook` | `Spec => KeepsLoanBook`, that is `BorrowTasks` implements `LoanBook` |

`TypeOK` says, beside the types, that a dispatch under way, an attempt row and a handler between its read and its write each name
a task. `BooksBalance` is about the number of loans; amounts are not modelled.

*The argument.* `TypeOK` is not inductive: resolving an attempt writes the row of the task its attempt row names,
and only a row that is still there names one. So the invariant is
`IInv == TypeOK /\ OwnerDispatches /\ RowIsThere`: whoever has a dispatch under way is up and owns the lock
(from which `SoleDispatcher` follows), and the row it will resolve is pending and marked. Clearing the log spares
marked rows, recovery runs only in a process that just got the lock, when by `OwnerDispatches` nobody
dispatches, and a handler never touches a marker; each is a step of the proof, one per action. The round robin's
choice is shown to be an eligible task by a lemma that a non-empty set of numbers contains its minimum, proved by
well-founded induction from the library. `RateLimitSilences` holds because a dispatch in flight is alone, so that
the deadline a resolution sets finds no other one. `BooksBalance` needs two more facts (`ReadIsCurrent`: the count
read before a resolution is still the stored one, as nobody else writes it; `Booked(t)`: the balance of each
task); the sum over dispatchers is the cardinality of a set with at most one member.

`NoOverborrow` adds `Room` to the books: the count is at most the target, a dispatch not yet counted leaves room for
one more, and a pending edit whose reading is still current carries a target above the count. The last conjunct holds
because every write of a row makes the edits that read it earlier stale, which is what the version column is for.
`BansEndByHand` needs that the deadline is never "active" when a Start lifts it. `StatusIsTheOperators` has one process as its
hypothesis, for the reason given under the bounds: a second process can write between the two halves of a store method.

`EngineKeepsLoanBook` rests on all of these. `TheAsk` reads off the abstract ask from the one process in flight, which
exists by `OwnerDispatches`; `AskKept` and `AskEnds` say when it is unchanged and when it is over. The insert is `Ask`: nobody else
asks, `QuietWhileRateLimited` gives the silence and `Room` the place under the ceiling. A resolution is `Book`, since by
`ReadIsCurrent` it writes one more than the stored count and a success is never folded, or `End`. A crash or a refused write is `Lose`,
`Miss` or `End`, by how far the ask was (`EndStep`). A ceiling is only set above the count, by `EditsFit`, and `EditsAreEntered`
adds that it is a number somebody entered. A silence is lifted only while nobody asks.

### `MoneyRequestsProofs`

For every `MaxId` and every set of threads, from `MaxIdAssumption` alone:

| Theorem | Statement |
|---|---|
| `ServerInvariant` | `Spec => []Inv` |
| `RequestsKeepPromise` | `Spec => KeepsPromise`, that is `MoneyRequests` implements `OneShot` |
| `RepayLockHolds` | `Spec => []RepayUnlockIsSafe` |

*The argument for the refinement.* A step of the exchange may move money only if the promise still allows it, and the
state of the table alone does not say so: the request may have been sent twice, or its thread may have written an outcome
that the exchange then contradicts. `Inv` closes both. `OneServes`: past the insert there is one thread per request and
its row is pending, because only the insert of a new row lets a thread on. `ThreadKnows`: before it sends, nothing of the
request is on the wire; while it waits, what it was told is what the exchange did. `WireIsOpen`: what is on the wire was
sent once, has not moved, and the table does not claim to know its end. The last part is why a restart is harmless: the
thread is gone, the row stays pending, and the exchange may still decide. `ServerResolve` then shows that each
answer possible in the thread's situation is classified truly, which is where the two classifiers are expanded, and
`PromiseStep` maps every step to `Register`, `Move`, `Settle` or a stutter.

*The argument for the lock.* `RepayUnlockIsSafe` speaks of all earlier requests, so the invariant does too (`RepayOf`): those
before the form's current one have ended (closed with nobody left to post them again, or acknowledged), the current one
is `Awaited` while the form waits (one call or one thread, and it is the form's own), and later ones do not exist
yet. A row that is final stays so by `ServerResolve`, which finds the row pending.

### `LedgerFlowProofs`

For any clock, any number of pulls and troubles, and any overlap, horizon and first window, from `TimesAssumption`
alone:

| Theorem | Statement |
|---|---|
| `LedgerInvariant` | `Spec => []Inv` |
| `CompleteWasRead` | `Spec => []CompleteIsRead` |
| `LateRowsAreCaught` | `Spec => []LateRowsCaught` |
| `SuccessesNearDiffer` | two scheduled successes at most `Lookback` records apart are of different hours |
| `OneSuccess` | `MaxRuns <= Lookback` gives `Spec => []OneSuccessAnHour` |

*The argument.* Coverage is a pair of ends, so the invariant speaks of what lies between them: `Held(s)`, every instant
before the end was read, is in a gap or in a `blind` window, and `Late(s)`, every instant that far behind the end was read
when its late rows were out, or is in one of these too. A commit writes ends that were computed from the coverage read when the pull began, which is the delicate part:
`Planned(s)` in `Flight` says that for a source not stored yet that coverage is still the stored one and the window
starts no later than its end, or a gap spans the difference. It holds because the flight lock lets one pull write at a
time. `BeforeWindow` covers the instants left of the window, the old end included; `Stored` shows that a commit keeps
`Held` and `Late` when every instant between the new ends was just read, is in a new gap, is newly `blind`, or lies in the old
coverage left of the window; `InterestStep` and `IncomeStep` discharge this for the whole and for the two truncated answers, with the
opposite orders of the two sources. A pull cut off between its commits leaves one source ahead, and
nothing in the invariant relates the two.

*The argument for the cadence.* A scheduled pull starts only when the last `Lookback` records hold no success of the hour;
while it runs no other pull is recorded, and the hour it will be booked under is the one it looked at. What this gives
without any hypothesis is `SuccessesNearDiffer`. `OneSuccess` needs its hypothesis: with more than `Lookback` = 64 records in
an hour, which takes manual pulls, the first success is out of sight and the hour gets a second one.

### `HedgeTaskProofs`

For every number of pairs, retry budget, threshold, set of requests and of troubles, from `HedgeAssumption` alone:

| Theorem | Statement |
|---|---|
| `OnePairOnly` | `Spec => []OnePairAtATime` |
| `ClosedLegsAreTrue` | `~Laggy` gives `Spec => []ClosedLegHasNoOrder` |
| `OnlyTheQuickLookupErrs` | `Spec => []ClosedUnlessQuick` |
| `DrainIsTrue` | `Spec => []DrainClosesTruly` |
| `PairsCountOnce` | `Spec => []NeverCountedTwice` |
| `ThrottledPairsUncounted` | `Spec => RateLimitNotCounted` |
| `FailureBrake` | `Spec => BrakeHolds` |

*The argument.* The worker acts on what it read before the network, so the invariant says for each of its places what is
still true of that reading. `Newest`: only the last pair can be open. `Drained`, `Looking`: which legs the drain has yet to look up,
and that the others are closed. `Sending`, `Unsent`, `Answered`: between `prepare_attempt` and the resolution
the pair is open, no order exists before the POST, and afterwards the answers held agree with the exchange.
`Stamped`: as long as nothing crashed, an open pair that met a 429 is stamped, is remembered as due to be, is the one whose
answers the worker holds, or is `forgotten`. `Counts`: no counter exceeds the number of pairs settled with that outcome (a crash between two writes
leaves it below, a Start resets the failures in a row); counting is done with cardinalities of
`Of(pair, outcomes)`, and settling a pair that was open moves exactly one of them. A crash forgets the worker's place, and all
that remains of the invariant is about the rows, which is why the ordinary drain is enough as recovery. The lemmas
`NothingSent`, `StatusStep` and `SentStep` are the frames of the steps that touch only a part. `ClosedLegsAreTrue` has the truthful lookups as
hypothesis, because of disagreement 4; `OnlyTheQuickLookupErrs` shows without it that this one lookup is the only culprit.

### `HedgeFundsProofs`

For every kind of task, pair of markets, purse, plan and price, from `FundsAssumption` alone:

| Theorem | Statement |
|---|---|
| `FundsInvariant` | `Spec => []Inv` |
| `PairsAreCovered` | `Spec => PairIsCovered` |
| `QuantitiesFit` | `Spec => []QuantityFits` |
| `ProceedsComeBack` | `Spec => []ProceedsReturn` |

*The argument.* A page is a wallet of an earlier moment, and preflight compares a page with a need. `Truthful`: until the first pair
the pages this rests on (of an opening the unified account's coin; of a close the position and the coin in the spot wallet) do not
overstate, because nothing but the task itself takes from them. `Funded`: from the first pair on the
account, with what is on its way to it, covers what is left of the plan, although the price has moved. A step of
the price is paid for by the buffer of 3 % on the opening's need (`NeedCovers`) and a split on which of the two prices is higher
(`RestIsPaid`). `Returned`: the standard account of a forward close
holds what it held plus the proceeds until they go back, less what was withheld before and after.
`Flow` says which call may run in which status, `Quantities` that a stored quantity is the common one of its pair of markets.
The grid: `GridIsCommon` shows the product of the steps over their greatest common divisor to be a multiple of both that divides every
other, for every pair of steps, and
`FloorIsLargest` that the quantity is the largest multiple of it within the single amount.
Sums over the pairs are proved by hand: the recursive function inside `MapThenSumSet` exists and is unique on the subsets of a finite
set (a least counterexample by cardinality), from which one more pair adds its own part (`TotalAdds`, `SumAdds`).

### `SmoothGateProofs`

For every set of threads, books, kinds of task, window and bound on events, from `SmoothAssumption` alone:

| Theorem | Statement |
|---|---|
| `GateInvariant` | `Spec => []Inv` |
| `BooksAreReleased` | `Spec => []WatchedWhileHeld` |
| `WakeupsArrive` | `Spec => []NoWakeupLost` |
| `MarketPassesPay` | `Spec => []MarketPairPays` |
| `PassesAreForTheirGate` | `Spec => PairOnItsGate` |

*The argument.* `OneOwner`: of the threads of a task one is registered and only it works, an old one only leaves. `Counted`: the
reference count of a book is the task's use of it plus the other tasks' plus `kept`, and what is held is up. `Subscriber`: a thread that
looks at the gate has its wake condition and both subscriptions, and the task holds books only while its thread is
getting them or until it leaves. `Passed`: a pass in hand
is for the gate that is open, if one is, and a market pass pays. `NotLost`: a sleeper that was not woken is content with what
there is, or somebody has still to announce what he wrote. The last is where the cuts between a handler's write and
its announcement count: a handler writes first and announces afterwards, and a thread registers before it looks, so that
each interleaving leaves either the look or the announcement to come. `MarketPassesPay` speaks of the
spread before it is rounded; a lemma shows that a rounded spread above the threshold has the true one above it.

### `SnapshotProofs`

The module holds the proofs of both snapshot components and extends both modules; each part uses only the assumptions of its own.
About `SnapshotWorker`, for every set of symbols and clients and every number of commands and cycles, from `BoundsAssumption` and
`CacheAssumption`:

| Theorem | Statement |
|---|---|
| `WorkerInvariant` | `Spec => []Inv` |
| `ClicksShareACommand` | `Spec => []ClicksMerge` |
| `CommandsTellTheTruth` | `Spec => []SaysWhatHappened` |
| `ClicksShowTheirData` | `Spec => []OkIsShown` |

*The argument.* A command goes through queue, worker and slot, and these are three structures that no lock keeps together. `Queued`: a
command stands in the queue once, not while the thread has it, and nothing was published or said of it. `AtWork`: how far the
thread is with its command, and what it may say of it there. `Slots`: a slot's command has the slot's key; and `Merged`: whatever is
unfinished of a symbol is what its slot holds, so there is only one. `Told` ties a command's status to the version it published. `Waiting` says of a client that what it was
given is done and published before what it reads, unless its wait ran out; a step that leaves the commands' ends alone carries it over
(`Kept`).

About `SnapshotSources`, for any number of rows, any private panels and public sources, any clock, number of troubles and of clicks,
and any lifetimes, batch and cadence that satisfy `TtlAssumption`, `LifetimeAssumption` and `AheadAssumption`:

| Theorem | Statement |
|---|---|
| `SourcesInvariant` | `SourcesSpec => []SourcesInv` |
| `AgesAreTrue` | `SourcesSpec => []RefreshedIsRead` |
| `AccountHasItsDates` | `SourcesSpec => []AccountDated` |
| `HistoriesStay` | `SourcesSpec => HistoryStays` |

*The argument for the ages.* `RefreshedIsRead` is not inductive: it does not say what the transport holds. `Aged` does: below a cache
that no click shares, an entry of the transport was made by the read that made the cache entry above it, and ends one lifetime
after that entry's date. So when the cache falls due the transport has forgotten (`DueIsForgotten`), a cycle is never served from
below (`TriedIsNotServed`), and whatever it writes was read at that instant (`Refreshed`). A failed read leaves both layers as they
were; a forced one drops the lower only. What a click reads too (the account info, the cross margin data, the limit of its symbol) parts
the two layers, and so does a reference whose later read fails. For these, `Shared` and the clicked limits, the invariant says what remains:
an entry of the transport ends one slow lifetime after its read (`Lasting`), so what it hands to a refresh is younger than that (`Young`).

*The argument for the dates.* `Dated`: a panel's date is that of its entry, and without the classic account no panel was read
(`PanelsNeedTheChannel`), so that the empty account which a cycle then shows is dated truly. What was published last is what the
entries are, unless a cycle has been lost since; a click repeats the last publication's account with the dates of now.

*The argument for the histories.* `Swept` gives each symbol its place in the round (`Turn`) and the delays that may still come
(`Room`), and demands `Batch * (history + HistoryTtl - woken - Room) > Cadence * Turn`: the history lives until the sweep is back.
A cycle serves a batch and takes at most a cadence (`CyclePaces`, the step around the circle in `BatchedIsNear`); a click spends the
cadence it postpones the tick by, and that was in `Room` (`ClickPaces`); what is read anew, or still fresh when its turn comes, has
the whole of `Ahead` or more, and `AheadAssumption` says this is enough for a round (`FreshLasts`).

### `PositionCyclesProofs`

For every set of tasks with any targets, any fills, commissions and older pairs, and any accounts, from `CyclesAssumption` alone.
One of its parts is a condition on the accounts: at most one position in the coin on each side, which is what the exchange
reports of one coin, and by which `merge_positions` pairs positions with buckets.

| Theorem | Statement |
|---|---|
| `CyclesInvariant` | `Spec => []Inv` |
| `CloseLogIsTheCurve` | `Spec => []LogIsTheCurve` |
| `BooksAreTheExchange` | `Spec => []BooksMatchExchange` |
| `MergeIsComplete` | `Spec => []MergeLosesNothing` |
| `FeesAreWrittenOnce` | `Spec => FeeWrittenOnce` |

*The argument.* Every step is `Steady`: a pair keeps its task and cycle, its settled figures and its written fees; the one thing that gives
a pair figures is its settlement, which marks it late if its cycle is closed by then. So the figures of a closed cycle without late pairs
are the same before and after any step (`FiguresStay`; the averages and sums are functions of the pairs, and equal ones have equal
sums). `Finishing`, `Logged` and `Drawn` carry this from the moment of the closing on: what the worker has read so far, what stands in the log, and
the last rows on the curve all equal the cycle's figures, although each was read in a step of its own.
For the books, `Executed` says that the exchange's position is the signed sum over the pairs it executed, and `StagedPair` that a settled row
has its order's quantity. Once all are settled the sum over the pairs of the open cycles is regrouped by bucket
(`TotalFibers`: a sum over a set is the sum over the fibres of a map on it), each bucket's share is what was opened less what was closed, with the sign
of its direction (`BucketIsItsPairs`), and pairs without a fill add nothing. `MergeIsComplete` holds in every state: a bucket is taken by
the one position of its side, if by any, and the recomputed drift of the reverse rows changes neither their bucket nor their position.

`HiddenIsFlat` has no proof: it is the property that disagreement 1 of section 5 refutes.

## 7. Only model-checked

Liveness (`PairSettles`, `EveryRequestEnds`, `GateEnds`) is out of the prover's reach: a proof would need `ENABLED` of actions under
fairness. Every other property of a passing run is proved above; three of them under a hypothesis that the tables name and the run's
instance satisfies (`~StoreFails`, one process, `~Laggy`), `OneSuccess` with its bound on the records.

## 8. Not modelled

- The rows of the market table, their classification and sorting (`domain/snapshot.py`), the profit series of the ledger:
  pure projections of exchange answers, with no state and no order of events to get wrong.
- Signed clients and adapters: transport, signing, response capture. What they may answer is enumerated by the models
  that call them. The borrow client's table of error codes is kept as the resulting category only.
- HTTP routing, body parsing, wiring and process start, log listings, migrations of old databases, public IP, and the page
  except for its two money forms.
- Two server processes with hedge tasks.
