----------------------------- MODULE SmoothGate -----------------------------
(***************************************************************************)
(* The smooth mode of a hedge task: before every pair its worker opens a    *)
(* gate on the task's row and waits until the two order books favour the    *)
(* pair, the operator lets it through, or five minutes have passed          *)
(* (hedge_open_tasks/service.py and store.py), on the books that            *)
(* services/best_bid_ask_provider.py watches for as long as somebody needs  *)
(* them.                                                                    *)
(*                                                                          *)
(* One task, its worker threads (an old one may still be leaving when the   *)
(* next one is there), the threads of the HTTP server one request at a      *)
(* time, and the event loop of the provider.  A close task has got its      *)
(* quantity (HedgeFunds); a pair, once sent, is settled (HedgeTask).        *)
(***************************************************************************)
EXTENDS Integers, FiniteSets

CONSTANTS
  Workers,     \* bound: worker threads alive at a time
  Target,      \* pairs
  Kinds,       \* the tasks: [type, direction]
  Quotes,      \* [{"spot", "perp"} -> what a book may show: bid, ask and sizes]
  Quantity,    \* q_common
  Threshold,   \* slippage_threshold_pct, in hundredths
  Window,      \* SMOOTH_GATE_WINDOW_US, in ticks
  MaxEvents    \* bound: requests, failures, crashes and changes of a book

Kind == [type : {"open", "close"}, direction : {"forward", "reverse"}]
Keys == {"spot", "perp"}
Holders == {"task", "other"}   \* "other": another task on the same symbol
None == "none"

ASSUME SmoothAssumption ==
  /\ None \notin Workers
  /\ Kinds \subseteq Kind /\ Target \in Nat \ {0} /\ Window \in Nat \ {0}
  /\ Threshold \in Int /\ Quantity \in Nat \ {0}
  /\ \A key \in Keys : Quotes[key] \subseteq
       [bid : Nat \ {0}, bidQty : Nat \ {0}, ask : Nat \ {0}, askQty : Nat \ {0}]

VARIABLES
  kind,
  row,       \* the task's row: status, pairs sent and the gate's columns
  gates,     \* hedge_open_settings: the start gate and the close gate
  worker,    \* the worker threads: where each is, the gate it opened, and
             \* whether its wake-up counter moved since it read it
  owner,     \* _workers: the registered thread
  relaunch,  \* _smooth_relaunch_after_exit
  wake,      \* the task has a condition in _smooth_wakes
  subs,      \* the task is in _smooth_subscriptions
  entry,     \* _states: [refs, up], the watchers by book
  hold,      \* how far each subscriber got with each book
  kept,      \* history: counts of joiners that gave up waiting, by book
  book,      \* the snapshot of each watched book
  telling,   \* books whose change was published and not yet announced
  req,       \* the request in hand
  sent,      \* the last pair: what let it through, on which books
  opened,    \* how many gates were opened
  events

taskVars == <<kind, row, gates>>
threadVars == <<worker, owner, relaunch, wake>>
bookVars == <<subs, entry, hold, kept, book, telling>>
vars == <<taskVars, threadVars, bookVars, req, sent, opened, events>>

NoGate == [open |-> FALSE, force |-> FALSE, left |-> 0, id |-> 0]
Idle == [pc |-> None, gate |-> 0, woken |-> FALSE, pass |-> None]
NoRequest == [kind |-> None, step |-> 0]
NoBook == [live |-> FALSE]

Happens == events < MaxEvents /\ events' = events + 1
Quiet == UNCHANGED events
Closes == kind.type = "close"
Running == row.status = "running"
GatesOn == gates.start /\ (Closes => gates.close)
Alive(w) == worker[w].pc # None
Goto(w, pc) == worker' = [worker EXCEPT ![w].pc = pc]

Init ==
  /\ kind \in Kinds
  /\ row = [status |-> "paused", sent |-> 0, gate |-> NoGate]
  /\ gates = [start |-> TRUE, close |-> TRUE]
  /\ worker = [w \in Workers |-> Idle] /\ owner = None /\ relaunch = FALSE /\ wake = FALSE
  /\ subs = FALSE
  /\ entry = [k \in Keys |-> [refs |-> 0, up |-> FALSE]]
  /\ hold = [s \in Holders |-> [k \in Keys |-> "no"]]
  /\ kept = [k \in Keys |-> 0]
  /\ book = [k \in Keys |-> NoBook] /\ telling = {}
  /\ req = NoRequest /\ sent = [reason |-> None] /\ opened = 0 /\ events = 0

-----------------------------------------------------------------------------
(* evaluate_smooth_gate.                                                    *)

(* Mutant: a close is judged by the books its opening would trade on. *)
EvaluationDirectionUnflipped(k) == k.direction
(* evaluation_direction: a close trades the other side of both books.       *)
EvaluationDirection(k) ==
  IF k.type = "close" THEN (IF k.direction = "forward" THEN "reverse" ELSE "forward")
  ELSE k.direction

(* compute_opening_spread_pct in hundredths of a percent, rounded half up   *)
(* and away from zero.                                                      *)
SpreadPct(bid, ask) ==
  LET size == (20000 * (IF bid > ask THEN bid - ask ELSE ask - bid) + ask) \div (2 * ask)
  IN IF bid > ask THEN size ELSE -size

MarketPass(direction, spot, perp) ==
  /\ spot.live /\ perp.live
  /\ IF direction = "forward"
     THEN /\ SpreadPct(perp.quote.bid, spot.quote.ask) > Threshold
          /\ \A size \in {spot.quote.askQty, perp.quote.bidQty} : 10 * size >= 8 * Quantity
     ELSE /\ SpreadPct(spot.quote.bid, perp.quote.ask) > Threshold
          /\ \A size \in {spot.quote.bidQty, perp.quote.askQty} : 10 * size >= 8 * Quantity

-----------------------------------------------------------------------------
(* The row and the threads.                                                 *)

\* Every write of a status other than running empties the gate's columns.
Status(status) ==
  row' = [row EXCEPT !.status = status, !.gate = IF status = "running" THEN @ ELSE NoGate]
\* clear_smooth_gate writes a running row only.
Cleared == [row EXCEPT !.gate = IF Running THEN NoGate ELSE @]

(* _notify_smooth_task, _notify_all_smooth: without a condition nobody is   *)
(* told.                                                                    *)
Notified(threads) ==
  IF wake THEN [w \in Workers |-> [threads[w] EXCEPT !.woken = TRUE]] ELSE threads

(* ensure_worker: a registered thread that lives is kept, and on a start it *)
(* is asked to look again when it leaves; else a new thread is registered.  *)
EnsureWorker(again) ==
  IF owner # None
  THEN relaunch' = (relaunch \/ again) /\ UNCHANGED <<worker, owner>>
  ELSE \E w \in Workers :
         /\ ~Alive(w)
         /\ owner' = w
         /\ worker' = [worker EXCEPT ![w] = [Idle EXCEPT !.pc = "round"]]
         /\ UNCHANGED relaunch

-----------------------------------------------------------------------------
(* The worker.                                                              *)

(* The top of _worker_round: a task that is not running, a closed gate and  *)
(* a task with all its pairs end the worker; a close is finished then.      *)
Round(w) ==
  /\ worker[w].pc = "round"
  /\ IF ~Running THEN Goto(w, "exit") /\ UNCHANGED row
     ELSE IF ~GatesOn THEN Goto(w, "exit") /\ row' = Cleared
     ELSE IF row.sent >= Target
          THEN Goto(w, "exit") /\ IF Closes THEN Status("done") ELSE UNCHANGED row
     ELSE Goto(w, "open") /\ UNCHANGED row
  /\ UNCHANGED <<kind, gates, owner, relaunch, wake, bookVars, req, sent, opened, events>>

(* open_smooth_gate: a gate that is open keeps its start and is used again. *)
Open(w) ==
  /\ worker[w].pc = "open"
  /\ IF Running /\ row.sent < Target
     THEN /\ worker' = [worker EXCEPT ![w].pc = "subscribe", ![w].gate = row.sent + 1]
          /\ IF row.gate.open THEN UNCHANGED <<row, opened>>
             ELSE /\ row' = [row EXCEPT !.gate = [NoGate EXCEPT !.open = TRUE,
                                                     !.left = Window, !.id = opened + 1]]
                  /\ opened' = opened + 1
     ELSE Goto(w, "after") /\ UNCHANGED <<row, opened>>
  /\ UNCHANGED <<kind, gates, owner, relaunch, wake, bookVars, req, sent, events>>

(* BestBidAskProvider.subscribe: the first one creates the watcher, a later *)
(* one counts itself and waits for it, each for five seconds of its own.    *)
Join(s, k) ==
  /\ hold[s][k] = "no"
  /\ entry' = [entry EXCEPT ![k].refs = @ + 1]
  /\ hold' = [hold EXCEPT ![s][k] = IF entry[k].refs = 0 THEN "creating" ELSE "joining"]
BeingCreated(k) == \E s \in Holders : hold[s][k] = "creating"
(* subscribe returns: a joiner's does once its creator's has.               *)
Joined(s, k) ==
  /\ hold[s][k] \in {"creating", "joining"} /\ entry[k].up
  /\ hold[s][k] = "joining" => ~BeingCreated(k)
  /\ hold' = [hold EXCEPT ![s][k] = "held"]

(* What is left when the holders in the set h gave the books up: the last   *)
(* one takes the watcher and its snapshot away.                             *)
Left(s, ks) ==
  /\ entry' = [k \in Keys |->
       IF k \in ks /\ entry[k].refs > 0
       THEN [refs |-> entry[k].refs - 1, up |-> entry[k].up /\ entry[k].refs > 1]
       ELSE entry[k]]
  /\ book' = [k \in Keys |-> IF k \in ks /\ entry[k].refs <= 1 THEN NoBook ELSE book[k]]

(* Mutant: what was subscribed before the failure is kept. *)
ReleasedNothing(s) == {}
(* What a failed _ensure_smooth_subscriptions releases again.               *)
ReleasedOnFailure(s) == {k \in Keys : hold[s][k] = "held"}

(* subscribe raises in the creator: the watcher was not started in time, or *)
(* the answer that it was came too late.  Its entry goes, and whoever still *)
(* waits for it fails as well.                                              *)
SubscriptionFails(k) ==
  /\ BeingCreated(k) /\ Happens
  /\ entry' = [entry EXCEPT ![k] = [refs |-> 0, up |-> FALSE]]
  /\ book' = [book EXCEPT ![k] = NoBook]
  /\ hold' = [s \in Holders |-> [hold[s] EXCEPT ![k] =
                IF @ \in {"creating", "joining"} THEN "failed" ELSE @]]
  /\ kept' = [kept EXCEPT ![k] = 0]
  /\ UNCHANGED <<taskVars, threadVars, subs, telling, req, sent, opened>>

(* subscribe raises in a joiner whose own five seconds are over while the   *)
(* creator is still at work: nobody takes its count back.                   *)
JoinerGivesUp(s, k) ==
  /\ hold[s][k] = "joining" /\ BeingCreated(k) /\ Happens
  /\ hold' = [hold EXCEPT ![s][k] = "failed"]
  /\ kept' = [kept EXCEPT ![k] = @ + 1]
  /\ UNCHANGED <<taskVars, threadVars, subs, entry, book, telling, req, sent, opened>>

StartWatch(k) ==
  /\ entry[k].refs > 0 /\ ~entry[k].up
  /\ entry' = [entry EXCEPT ![k].up = TRUE]
  /\ UNCHANGED <<taskVars, threadVars, subs, hold, kept, book, telling, req, sent, opened, events>>

(* _ensure_smooth_subscriptions: the spot book, then the perpetual's; both  *)
(* or none.  A failure pauses the task.                                     *)
Subscribe(w) ==
  /\ worker[w].pc = "subscribe" /\ ~subs
  /\ \/ /\ \E k \in Keys :
             /\ k = "perp" => hold["task"]["spot"] = "held"
             /\ \/ Join("task", k)
                \/ Joined("task", k) /\ UNCHANGED entry
        /\ UNCHANGED <<row, worker, subs, book>>
     \/ /\ \A k \in Keys : hold["task"][k] = "held"
        /\ subs' = TRUE
        /\ UNCHANGED <<row, worker, entry, hold, book>>
     \/ /\ \E k \in Keys : hold["task"][k] = "failed"
        /\ Left("task", ReleasedOnFailure("task"))
        /\ hold' = [hold EXCEPT !["task"] = [k \in Keys |-> "no"]]
        /\ IF Running THEN Status("paused") ELSE UNCHANGED row
        /\ Goto(w, "after") /\ UNCHANGED subs
  /\ UNCHANGED <<kind, gates, owner, relaunch, wake, kept, telling, req, sent, opened, events>>

(* _smooth_wake, once the books are there.                                  *)
Subscribed(w) ==
  /\ worker[w].pc = "subscribe" /\ subs
  /\ wake' = TRUE /\ Goto(w, "look")
  /\ UNCHANGED <<taskVars, owner, relaunch, bookVars, req, sent, opened, events>>

(* The loop of _wait_for_smooth_gate reads the counter first.               *)
Look(w) ==
  /\ worker[w].pc = "look"
  /\ worker' = [worker EXCEPT ![w].pc = "decide", ![w].woken = FALSE]
  /\ UNCHANGED <<taskVars, owner, relaunch, wake, bookVars, req, sent, opened, events>>

Favourable == MarketPass(EvaluationDirection(kind), book["spot"], book["perp"])

(* What lets the gate's pair through now.                                   *)
Reason == IF row.gate.force THEN "manual"
          ELSE IF Favourable THEN "market"
          ELSE IF row.gate.left = 0 THEN "timeout" ELSE None

GateIsMine(w) == row.gate.open /\ row.sent + 1 = worker[w].gate

(* Then it reads the row, the gates and the books, all after the counter,   *)
(* and decides.                                                             *)
Decide(w) ==
  /\ worker[w].pc = "decide"
  /\ IF Running /\ ~GatesOn
     THEN Goto(w, "after") /\ row' = Cleared
     ELSE /\ UNCHANGED row
          /\ IF ~Running \/ ~GateIsMine(w) THEN Goto(w, "after")
             ELSE IF Reason = None THEN Goto(w, "wait")
             ELSE worker' = [worker EXCEPT ![w].pc = "send", ![w].pass =
                    [reason |-> Reason, books |-> book, id |-> row.gate.id]]
  /\ UNCHANGED <<kind, gates, owner, relaunch, wake, bookVars, req, sent, opened, events>>

(* Mutant: it sleeps until somebody wakes it. *)
WaitIsOverWhenWoken(w) == worker[w].woken
(* It sleeps until its counter moves, and no longer than the window.        *)
WaitIsOver(w) == worker[w].woken \/ row.gate.left = 0

Wait(w) ==
  /\ worker[w].pc = "wait" /\ WaitIsOver(w)
  /\ Goto(w, "look")
  /\ UNCHANGED <<taskVars, owner, relaunch, wake, bookVars, req, sent, opened, events>>

(* Mutant: any pass reserves a pair of a running task. *)
PreparedUnchecked(w) == Running /\ row.sent < Target
(* prepare_attempt: a running task, a pair left, and the gate of the pass.  *)
Prepared(w) == Running /\ row.sent < Target /\ GateIsMine(w)

(* _dispatch_one_for_task: a closed close gate sends nothing and keeps the  *)
(* gate; a closed start gate uses the pair up without an order.  An open    *)
(* task is done with its last pair.                                         *)
Send(w) ==
  /\ worker[w].pc = "send"
  /\ IF (gates.start => GatesOn) /\ Prepared(w)
     THEN /\ row' = [status |-> IF ~Closes /\ row.sent + 1 = Target THEN "done"
                                ELSE row.status,
                     sent |-> row.sent + 1, gate |-> NoGate]
          /\ sent' = worker[w].pass
     ELSE UNCHANGED <<row, sent>>
  /\ worker' = [worker EXCEPT ![w] = [Idle EXCEPT !.pc = "round"]]
  /\ UNCHANGED <<kind, gates, owner, relaunch, wake, bookVars, req, opened, events>>

(* Without a pass: a task that runs again meanwhile keeps its worker.       *)
After(w) ==
  /\ worker[w].pc = "after"
  /\ Goto(w, IF Running /\ gates.start THEN "round" ELSE "exit")
  /\ UNCHANGED <<taskVars, owner, relaunch, wake, bookVars, req, sent, opened, events>>

(* The end of _run_task_worker: the books are released, the thread takes    *)
(* itself off the register, takes the request for another one, and starts   *)
(* it if the task runs.                                                     *)
Exit(w) ==
  /\ worker[w].pc = "exit"
  /\ Left("task", IF subs THEN Keys ELSE {})
  /\ hold' = IF subs THEN [hold EXCEPT !["task"] = [k \in Keys |-> "no"]] ELSE hold
  /\ subs' = FALSE /\ wake' = FALSE
  /\ Goto(w, "deregister")
  /\ UNCHANGED <<taskVars, owner, relaunch, kept, telling, req, sent, opened, events>>

Deregister(w) ==
  /\ worker[w].pc = "deregister"
  /\ owner' = IF owner = w THEN None ELSE owner
  /\ Goto(w, "hand over")
  /\ UNCHANGED <<taskVars, relaunch, wake, bookVars, req, sent, opened, events>>

HandOver(w) ==
  /\ worker[w].pc = "hand over"
  /\ Goto(w, IF relaunch THEN "again" ELSE None)
  /\ relaunch' = FALSE
  /\ UNCHANGED <<taskVars, owner, wake, bookVars, req, sent, opened, events>>

Again(w) ==
  /\ worker[w].pc = "again"
  /\ IF Running /\ gates.start /\ owner = None
     THEN \* this thread ends as the next one starts
          /\ owner' = w
          /\ worker' = [worker EXCEPT ![w] = [Idle EXCEPT !.pc = "round"]]
     ELSE worker' = [worker EXCEPT ![w] = Idle] /\ UNCHANGED owner
  /\ UNCHANGED <<taskVars, relaunch, wake, bookVars, req, sent, opened, events>>

-----------------------------------------------------------------------------
(* Requests: the write, the announcement, the worker.                       *)

Toggles == {"start gate", "close gate"}

(* post_pause, post_delete, post_start, post_fill_once, put_start_gate and  *)
(* put_close_gate up to their write.                                        *)
Request(k) ==
  /\ req = NoRequest /\ Happens
  /\ CASE k = "pause"  -> row.status \in {"running", "paused"} /\ Status("paused")
       [] k = "delete" -> row.status # "deleted" /\ Status("deleted")
       [] k = "start"  -> /\ row.status \in {"running", "paused"} /\ (Closes => GatesOn)
                          /\ Status("running")
       [] k = "fill"   -> /\ Running /\ row.sent < Target /\ row.gate.open
                          /\ row' = [row EXCEPT !.gate.force = TRUE]
       [] OTHER        -> UNCHANGED row
  /\ gates' = IF k = "start gate" THEN [gates EXCEPT !.start = ~@]
              ELSE IF k = "close gate" THEN [gates EXCEPT !.close = ~@] ELSE gates
  /\ req' = [kind |-> k, step |-> IF k \in {"start", "fill"} THEN 2 ELSE 1]
  /\ UNCHANGED <<kind, threadVars, bookVars, sent, opened>>

(* Mutant: letting a gate through does not wake its worker. *)
AnnouncesButFill(k) == k # "fill"
(* Every request wakes the task's worker.                                   *)
Announces(k) == TRUE

\* A toggle announces before it looks after the workers, the others after.
Announce ==
  /\ req.step = 1
  /\ worker' = IF Announces(req.kind) THEN Notified(worker) ELSE worker
  /\ req' = IF \/ req.kind = "start gate" /\ gates.start
               \/ req.kind = "close gate" /\ gates.close
            THEN [req EXCEPT !.step = 2] ELSE NoRequest
  /\ UNCHANGED <<taskVars, owner, relaunch, wake, bookVars, sent, opened, events>>

Employ ==
  /\ req.step = 2
  /\ IF req.kind \in {"start", "fill"}
     THEN EnsureWorker(req.kind = "start") /\ req' = [req EXCEPT !.step = 1]
     ELSE /\ IF Running THEN EnsureWorker(FALSE) ELSE UNCHANGED <<worker, owner, relaunch>>
          /\ req' = NoRequest
  /\ UNCHANGED <<taskVars, wake, bookVars, sent, opened, events>>

-----------------------------------------------------------------------------
(* The books, the other task, time and the process.                         *)

(* _watch: a book is published, or its source fails and is reopened; what   *)
(* was known stays but is not live.                                         *)
Change(k) ==
  /\ entry[k].up /\ Happens
  /\ book' = [book EXCEPT ![k] = NoBook]
       \/ \E quote \in Quotes[k] : book' = [book EXCEPT ![k] = [live |-> TRUE, quote |-> quote]]
  /\ book' # book
  /\ telling' = telling \cup {k}
  /\ UNCHANGED <<taskVars, threadVars, subs, entry, hold, kept, req, sent, opened>>

(* _on_smooth_market_change: the subscribed task is told.                   *)
Tell(k) ==
  /\ k \in telling
  /\ telling' = telling \ {k}
  /\ worker' = IF subs THEN Notified(worker) ELSE worker
  /\ UNCHANGED <<taskVars, owner, relaunch, wake, subs, entry, hold, kept, book,
                 req, sent, opened, events>>

Other(k) ==
  /\ \/ Join("other", k) /\ Happens /\ UNCHANGED book
     \/ /\ hold["other"][k] \in {"held", "failed"} /\ Quiet
        /\ Left("other", ReleasedOnFailure("other") \cap {k})
        /\ hold' = [hold EXCEPT !["other"][k] = "no"]
  /\ UNCHANGED <<taskVars, threadVars, subs, kept, telling, req, sent, opened>>

OtherJoined(k) ==
  /\ Joined("other", k)
  /\ UNCHANGED <<taskVars, threadVars, subs, entry, kept, book, telling, req, sent, opened, events>>

Tick ==
  /\ row.gate.left > 0
  /\ row' = [row EXCEPT !.gate.left = @ - 1]
  /\ UNCHANGED <<kind, gates, threadVars, bookVars, req, sent, opened, events>>

(* The process dies and starts again: start() employs a worker for a        *)
(* running task; the gate's columns are still there.                        *)
Restart ==
  /\ Happens
  /\ IF Running
     THEN \E w \in Workers :
            /\ owner' = w
            /\ worker' = [v \in Workers |->
                 IF v = w THEN [Idle EXCEPT !.pc = "round"] ELSE Idle]
     ELSE owner' = None /\ worker' = [v \in Workers |-> Idle]
  /\ relaunch' = FALSE /\ wake' = FALSE /\ subs' = FALSE
  /\ entry' = [k \in Keys |-> [refs |-> 0, up |-> FALSE]]
  /\ hold' = [s \in Holders |-> [k \in Keys |-> "no"]]
  /\ kept' = [k \in Keys |-> 0]
  /\ book' = [k \in Keys |-> NoBook] /\ telling' = {}
  /\ req' = NoRequest
  /\ UNCHANGED <<taskVars, sent, opened>>

WorkerStep(w) ==
  \/ Round(w) \/ Open(w) \/ Subscribe(w) \/ Subscribed(w)
  \/ Look(w) \/ Decide(w) \/ Wait(w) \/ Send(w) \/ After(w)
  \/ Exit(w) \/ Deregister(w) \/ HandOver(w) \/ Again(w)

Next ==
  \/ \E w \in Workers : WorkerStep(w)
  \/ \E k \in {"pause", "delete", "start", "fill"} \cup Toggles : Request(k)
  \/ Announce \/ Employ
  \/ \E k \in Keys : \/ SubscriptionFails(k) \/ StartWatch(k) \/ Change(k) \/ Tell(k)
                     \/ Other(k) \/ OtherJoined(k)
                     \/ \E s \in Holders : JoinerGivesUp(s, k)
  \/ Tick \/ Restart

(* Threads that can run do, the other task's in its subscribe as well; the  *)
(* event loop starts a watcher or fails, and the clock goes on.             *)
Spec ==
  /\ Init /\ [][Next]_vars
  /\ \A w \in Workers : WF_vars(WorkerStep(w))
  /\ \A k \in Keys : WF_vars(StartWatch(k)) /\ WF_vars(Tell(k)) /\ WF_vars(OtherJoined(k))
  /\ WF_vars(Announce) /\ WF_vars(Employ) /\ WF_vars(Tick)
-----------------------------------------------------------------------------
(* Properties.                                                              *)

(* Every variable holds a value of its kind.                                *)
TypeOK ==
  /\ row.status \in {"paused", "running", "deleted", "done"} /\ row.sent \in 0..Target
  /\ row.gate.left \in 0..Window /\ row.gate.id \in 0..opened
  /\ owner \in Workers \cup {None} /\ telling \subseteq Keys
  /\ hold \in [Holders -> [Keys -> {"no", "creating", "joining", "held", "failed"}]]
  /\ \A k \in Keys : entry[k].refs \in Nat /\ kept[k] \in 0..entry[k].refs

(* A pair goes out on a pass of the very gate that is open when its row is  *)
(* written: a pause and a start, or a toggle, between the pass and the pair *)
(* take the pass away (prepare_attempt, expected_gate_seq).                 *)
PairOnItsGate ==
  [][row'.sent > row.sent => row.gate.open /\ sent'.id = row.gate.id]_vars

(* A worker that sleeps has nothing to do, or a wake-up is on its way: no   *)
(* pass, pause, delete or closed gate waits for the end of the window       *)
(* (_wait_for_smooth_gate, _notify_smooth_task).                            *)
NoWakeupLost ==
  /\ TypeOK
  /\ \A w \in Workers :
       worker[w].pc = "wait" /\ ~worker[w].woken =>
         \/ Running /\ GatesOn /\ GateIsMine(w) /\ Reason \in {None, "timeout"}
         \/ req # NoRequest \/ telling # {}

(* A book's counter is the number of those who hold it or are getting it,   *)
(* and of the joiners whose own wait ran out: subscribe raises there        *)
(* without taking the count back, and when its creator still succeeds the   *)
(* watcher stays for nobody until the process ends.  No other failure, half *)
(* way through two books or while another task holds one, leaves a watcher  *)
(* behind, and nobody loses a book to another's exit (subscribe, release,   *)
(* _ensure_smooth_subscriptions).                                           *)
WatchedWhileHeld ==
  /\ \A k \in Keys : entry[k].refs = kept[k] +
       Cardinality({s \in Holders : hold[s][k] \in {"creating", "joining", "held"}})
  /\ subs => \A k \in Keys : hold["task"][k] = "held"
  /\ \A s \in Holders, k \in Keys : hold[s][k] = "held" => entry[k].up
  /\ (\A w \in Workers : ~Alive(w)) => \A k \in Keys : hold["task"][k] = "no"

(* The trades of a pair: an open in the forward direction buys spot and     *)
(* sells the perpetual, as a reverse close does; the others do the          *)
(* opposite.                                                                *)
BuysSpot == (kind.type = "open") = (kind.direction = "forward")

(* When the market let a pair through, then selling at the bid and buying   *)
(* at the ask of the books that were read beats the threshold, and the      *)
(* sizes on those sides cover four fifths of the pair: of an open as of a   *)
(* close, in both directions (evaluation_direction, evaluate_smooth_gate).  *)
MarketPairPays ==
  sent.reason = "market" =>
    LET bought == sent.books[IF BuysSpot THEN "spot" ELSE "perp"]
        sold   == sent.books[IF BuysSpot THEN "perp" ELSE "spot"]
    IN /\ bought.live /\ sold.live
       /\ 10000 * (sold.quote.bid - bought.quote.ask) > Threshold * bought.quote.ask
       /\ \A size \in {bought.quote.askQty, sold.quote.bidQty} : 5 * size >= 4 * Quantity

(* A gate whose task has a worker in its loop comes to an end: its pair     *)
(* goes, or the gate is taken away (the five minutes of                     *)
(* _wait_for_smooth_gate).                                                  *)
InLoop(w) ==
  worker[w].pc \in {"round", "open", "subscribe", "look", "decide", "wait", "send", "after"}
GateEnds ==
  \A n \in 1..Target :
    (row.gate.open /\ row.sent = n - 1 /\ \E w \in Workers : InLoop(w))
      ~> (~row.gate.open \/ row.sent >= n)

=============================================================================
