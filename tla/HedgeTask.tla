------------------------------ MODULE HedgeTask ------------------------------
(***************************************************************************)
(* One immediate-mode hedge task under the live executor: its row and its  *)
(* pairs in the store, the one worker thread that sends the two legs of a  *)
(* pair and drains them by client-ID lookups, the operator's requests, the *)
(* gates, and process restarts (backend/hedge_open_tasks/ and              *)
(* backend/services/live_hedge_executor.py).                               *)
(*                                                                         *)
(* Grain.  Every store method is one transaction, hence one step, and no   *)
(* lock is held across the network, so every lookup, preflight read and    *)
(* POST is a step of its own and the worker carries on with the snapshot   *)
(* it read at the top of the round.  A worker's return and the removal of  *)
(* its thread from the registry are one step.  A restart follows a crash   *)
(* at once: nothing but the exchange moves in between.                     *)
(*                                                                         *)
(* Data.  Attempt numbers are attempt_seq.  Of a leg only this is kept:    *)
(* terminal, whether an order id is recorded, and what closed it without   *)
(* one.  Quantities, prices, fees and the cycle bookkeeping are left out.  *)
(***************************************************************************)
EXTENDS Naturals, FiniteSets

CONSTANTS
  Legs,         \* the two legs of a pair; the task treats them alike
  Target,       \* target_n, the number of pairs to send
  Threshold,    \* failure_pause_threshold
  Cap,          \* LEG_QUERY_MAX_RETRIES
  TaskType,     \* "open" or "close"
  Requests,     \* concurrent HTTP handler threads
  Ops,          \* what the operator does in this instance
  MaxCrashes,   \* bound: how often the process dies
  StoreFails,   \* a store method may raise, before the process ever died
  LookupFails,  \* a lookup may be inconclusive or throttled, before that too
  Laggy         \* a lookup before the Cap-th may miss an order that exists

ASSUME HedgeAssumption ==
  /\ Legs # {} /\ IsFiniteSet(Legs)
  /\ Target \in Nat \ {0} /\ Threshold \in Nat \ {0} /\ Cap \in Nat \ {0}
  /\ TaskType \in {"open", "close"}
  /\ Ops \subseteq {"start", "fill", "pause", "delete", "gate", "closeGate"}
  /\ MaxCrashes \in Nat
  /\ {StoreFails, LookupFails, Laggy} \subseteq BOOLEAN

Attempts == 1..Target

VARIABLES
  task,             \* the row of table hedge_open_task
  pair,             \* rows of hedge_open_attempt: outcome, rate_limited stamp
  leg,              \* rows of hedge_open_leg
  gate, closeGate,  \* hedge_open_settings: the two gates
  wpc, snap, todo, signal, live, ans, \* the worker thread and its locals
  retries,          \* _leg_query_retries, in process memory
  unstamped,        \* _rate_limit_stamp_pending, in process memory
  req,              \* handler threads
  order,            \* the exchange: what became of each leg's order
  throttled,        \* attempts whose dispatch met a 429
  forgotten,        \* history: those of which the store could not be told at all
  crashes

storeVars  == <<task, pair, leg>>
gateVars   == <<gate, closeGate>>
localVars  == <<snap, todo, signal, live, ans>>
memVars    == <<retries, unstamped>>
worldVars  == <<order, throttled, forgotten>>
vars == <<storeVars, gateVars, wpc, localVars, memVars, req, worldVars, crashes>>

-----------------------------------------------------------------------------
(* Vocabulary.                                                             *)

\* Bound: after the process has died nothing else goes wrong.
Raises       == StoreFails /\ crashes = 0
Inconclusive == LookupFails /\ crashes = 0

Statuses == {"running", "paused", "done", "stopped", "deleted"}
Outcomes == {"absent", "open", "accepted", "single", "failed"}
Exchange == {"unsent", "none", "resting", "final"}
Placed   == {"resting", "final"}      \* the exchange took the order
\* What a leg was closed on when it has no order id: its POST's rejection, the
\* lookup right after an unclear POST, a drain lookup, or nothing at all.
Proofs   == {"none", "post", "quick", "lookup"}

NoSnap   == [status |-> "none", scheduled |-> 0]
NoAnswer == [state |-> "none", why |-> "none", limited |-> FALSE]
NoReq    == [op |-> "none", at |-> "none"]
FreshLeg == [terminal |-> FALSE, order |-> FALSE, proof |-> "none"]

\* The pair the worker is sending: only one worker ever adds attempts.
Cur == task.scheduled

\* The legs a round still has to look up.
LegsOfOpenPairs ==                       \* mutant: settled pairs are forgotten
  { al \in (1..task.scheduled) \X Legs :
      ~leg[al[1]][al[2]].terminal /\ pair[al[1]].outcome = "open" }
Nonterminal == { al \in (1..task.scheduled) \X Legs : ~leg[al[1]][al[2]].terminal }
BothTerminal(a) == \A l \in Legs : leg[a][l].terminal

\* Pairs whose legs are closed but which are not settled yet.
EveryClosedPair ==                       \* mutant: settling is not idempotent
  { a \in 1..task.scheduled : BothTerminal(a) }
Gaps == { a \in 1..task.scheduled : pair[a].outcome = "open" /\ BothTerminal(a) }

-----------------------------------------------------------------------------
(* Counting a pair.                                                        *)

\* Acceptance is having an order id, for each leg on its own.
Category(has) ==
  IF \A l \in Legs : has[l] THEN "accepted"
  ELSE IF \E l \in Legs : has[l] THEN "single" ELSE "failed"

\* resolve_status_after_attempt.
StatusAfterLate(status, cat, acc, cons) ==    \* mutant: one failure too late
  IF status = "deleted" THEN "deleted"
  ELSE IF cat = "accepted" /\ acc >= Target THEN "done"
  ELSE IF cat # "accepted" /\ cons > Threshold THEN "paused"
  ELSE status
StatusAfter(status, cat, acc, cons) ==
  IF status = "deleted" THEN "deleted"
  ELSE IF cat = "accepted" /\ acc >= Target THEN "done"
  ELSE IF cat # "accepted" /\ cons >= Threshold THEN "paused"
  ELSE status

\* _apply_task_counters: the row after a pair of that category is settled.
Counted(cat, suppressDone) ==
  LET acc  == task.accepted + (IF cat = "accepted" THEN 1 ELSE 0)
      cons == IF cat = "accepted" THEN 0 ELSE task.consecutive + 1
      next == StatusAfter(task.status, cat, acc, cons)
  IN  [task EXCEPT
        !.accepted = acc,
        !.failed = task.failed + (IF cat = "accepted" THEN 0 ELSE 1),
        !.consecutive = cons,
        !.status = IF ~suppressDone /\ next = "running" /\ task.scheduled >= Target
                   THEN "done"
                   ELSE IF suppressDone /\ next = "done" THEN "running" ELSE next]

\* The same for a fatal rejection: stopped, whatever the status was.
StoppedFatally == [task EXCEPT !.status = "stopped"]

\* pause_task and stop_task_fatal write only a running or paused row.
PausedIfActive ==
  IF task.status \in {"running", "paused"}
  THEN [task EXCEPT !.status = "paused", !.awaiting = FALSE] ELSE task
StoppedIfActive ==
  IF task.status \in {"running", "paused"} THEN StoppedFatally ELSE task

-----------------------------------------------------------------------------
(* A task is created paused, awaiting its first manual start.              *)
Init ==
  /\ task = [status |-> "paused", scheduled |-> 0, accepted |-> 0, failed |-> 0,
             consecutive |-> 0, awaiting |-> TRUE]
  /\ pair = [a \in Attempts |-> [outcome |-> "absent", stamped |-> FALSE]]
  /\ leg = [a \in Attempts |-> [l \in Legs |-> FreshLeg]]
  /\ gate \in BOOLEAN /\ closeGate = TRUE
  /\ wpc = "none" /\ snap = NoSnap /\ todo = {} /\ signal = "none" /\ live = FALSE
  /\ ans = [l \in Legs |-> NoAnswer]
  /\ retries = [a \in Attempts |-> [l \in Legs |-> 0]]
  /\ unstamped = {}
  /\ req = [r \in Requests |-> NoReq]
  /\ order = [a \in Attempts |-> [l \in Legs |-> "unsent"]]
  /\ throttled = {} /\ forgotten = {} /\ crashes = 0

-----------------------------------------------------------------------------
(* The worker thread: _worker_round, again and again.                      *)

ResetLocals ==
  /\ snap' = NoSnap /\ todo' = {} /\ signal' = "none" /\ live' = FALSE
  /\ ans' = [l \in Legs |-> NoAnswer]

\* The thread ends and its retry counters are dropped.
WorkerExit ==
  /\ wpc' = "none"
  /\ ResetLocals
  /\ retries' = [a \in Attempts |-> [l \in Legs |-> 0]]
  /\ UNCHANGED unstamped

Goto(label) == wpc' = label /\ ResetLocals /\ UNCHANGED memVars

\* The round starts: the row and the legs still to be looked up are read.
Top ==
  /\ wpc = "top"
  /\ snap' = [status |-> task.status, scheduled |-> task.scheduled]
  /\ todo' = Nonterminal
  /\ signal' = "none"
  /\ wpc' = IF Nonterminal = {} THEN "settle" ELSE "query"
  /\ UNCHANGED <<storeVars, gateVars, live, ans, memVars, req, worldVars, crashes>>

\* What the lookup of a leg's client id may find, if it is the n-th one.
LookupAnswers(a, l, n) ==
  (IF Inconclusive THEN {"unknown", "limited"} ELSE {})
  \cup (IF order[a][l] \notin Placed \/ (Laggy /\ n < Cap) THEN {"absent"} ELSE {})
  \cup (IF order[a][l] = "resting" THEN {"new"} ELSE {})
  \cup (IF order[a][l] = "final" THEN {"final"} ELSE {})

\* Which answers close a leg: a final order, or "absent" once the retry budget
\* is used up; an inconclusive answer never does.
AbsentAtOnce(v, n) == v \in {"final", "absent"}   \* mutant: no retry budget
UnknownAtCap(v, n) ==                             \* mutant: unknown is absent
  v = "final" \/ (v \in {"absent", "unknown"} /\ n >= Cap)
Closes(v, n) == v = "final" \/ (v = "absent" /\ n >= Cap)

\* _reconcile_own_legs looks one leg up and writes what it found.
Query(a, l) ==
  /\ wpc = "query" /\ <<a, l>> \in todo
  /\ \E v \in LookupAnswers(a, l, retries[a][l] + 1), stored \in {TRUE, ~Raises} :
       LET n      == IF retries[a][l] < Cap THEN retries[a][l] + 1 ELSE Cap
           closed == stored /\ Closes(v, n)
       IN  /\ leg' = IF stored
                     THEN [leg EXCEPT ![a][l] =
                            [terminal |-> closed,
                             order |-> @.order \/ v \in {"new", "final"},
                             proof |-> IF closed /\ v # "final" /\ ~@.order
                                       THEN "lookup" ELSE @.proof]]
                     ELSE leg
           /\ retries' = [retries EXCEPT ![a][l] = IF closed THEN 0 ELSE n]
           /\ signal' = IF signal # "none" THEN signal
                        ELSE IF v = "limited" THEN "limited"
                        ELSE IF v = "unknown" /\ ~closed /\ n >= Cap THEN "unknown"
                        ELSE "none"
  /\ todo' = todo \ {<<a, l>>}
  /\ wpc' = IF todo' = {} THEN "settle" ELSE "query"
  /\ UNCHANGED <<task, pair, gateVars, snap, live, ans, unstamped, req, worldVars,
                 crashes>>

\* A pair that met a 429 is settled without touching the counters: the stamp
\* says so, or the set of stamps that could not be written.
CountAlways(a) == FALSE                       \* mutant: the stamp is not read
Uncounted(a) == pair[a].stamped \/ a \in unstamped

\* finalize_attempt or settle_attempt_no_counters, with the stamp retried first.
Settle(a) ==
  LET cat == Category([l \in Legs |-> leg[a][l].order])
  IN  /\ wpc = "settle" /\ a \in Gaps
      /\ task' = IF Uncounted(a) THEN task ELSE Counted(cat, FALSE)
      /\ \E written \in {TRUE, ~Raises} :
           IF a \in unstamped /\ written
           THEN /\ pair' = [pair EXCEPT ![a] = [outcome |-> cat, stamped |-> TRUE]]
                /\ unstamped' = unstamped \ {a}
           ELSE /\ pair' = [pair EXCEPT ![a].outcome = cat]
                /\ UNCHANGED unstamped
      /\ UNCHANGED <<leg, gateVars, wpc, localVars, retries, req, worldVars, crashes>>

\* A settlement that raises is recorded and tried again in a later round.
SettleFails ==
  /\ Raises /\ wpc = "settle" /\ Gaps # {}
  /\ wpc' = "decide"
  /\ UNCHANGED <<storeVars, gateVars, localVars, memVars, req, worldVars, crashes>>

\* What the drained round leads to, decided on the snapshot of its start.
Decide ==
  /\ wpc = "decide" \/ (wpc = "settle" /\ Gaps = {})
  /\ IF signal = "limited" \/ (signal = "unknown" /\ snap.status \in {"running", "paused"})
     THEN wpc' = "pauseExit" /\ UNCHANGED <<localVars, memVars>>
     ELSE IF signal = "unknown" THEN WorkerExit
     ELSE IF Nonterminal # {} THEN Goto("top")
     ELSE IF \/ snap.status # "running"
             \/ ~gate
             \/ TaskType = "close" /\ ~closeGate
             \/ TaskType = "open" /\ snap.scheduled >= Target
     THEN WorkerExit
     ELSE Goto(IF snap.scheduled >= Target THEN "verify" ELSE "dispatch")
  /\ UNCHANGED <<storeVars, gateVars, req, worldVars, crashes>>

\* A close task that used up its pairs: ask for the position, then finish it
\* (flat or partly closed) or pause it (the question failed).
Verify ==
  /\ wpc = "verify"
  /\ task' \in {[task EXCEPT !.status = "done"], PausedIfActive}
  /\ WorkerExit
  /\ UNCHANGED <<pair, leg, gateVars, req, worldVars, crashes>>

\* _dispatch_one_for_task up to its preflight: with the gate off by now it takes
\* the simulated path; else the preflight passes, refuses or finds a fatal fact.
Dispatch ==
  /\ wpc = "dispatch"
  /\ \/ ~gate /\ Goto("prepare") /\ UNCHANGED task
     \/ gate /\ TaskType = "close" /\ ~closeGate /\ Goto("top") /\ UNCHANGED task
     \/ /\ gate /\ (TaskType = "close" => closeGate)
        /\ \/ /\ wpc' = "prepare" /\ live' = TRUE
              /\ UNCHANGED <<task, snap, todo, signal, ans, memVars>>
           \/ task' = PausedIfActive /\ Goto("top")
           \/ task' = StoppedIfActive /\ WorkerExit
  /\ UNCHANGED <<pair, leg, gateVars, req, worldVars, crashes>>

\* prepare_attempt asks again what the round assumed.
Permits ==
  /\ task.status = "running"
  /\ task.scheduled < Target
  /\ \A a \in Attempts : pair[a].outcome # "open"

\* The pair and both legs are on disk before anything is sent.
Prepare ==
  /\ wpc = "prepare"
  /\ IF Permits
     THEN /\ task' = [task EXCEPT !.scheduled = @ + 1]
          /\ pair' = [pair EXCEPT ![Cur + 1].outcome = "open"]
          /\ wpc' = "posting"
          /\ UNCHANGED <<localVars, memVars>>
     ELSE Goto("top") /\ UNCHANGED <<task, pair>>
  /\ UNCHANGED <<leg, gateVars, req, worldVars, crashes>>

\* A store method that raises outside every try ends the worker: reading the row,
\* prepare_attempt, pause_task.
WorkerRaises ==
  /\ Raises /\ wpc \in {"top", "prepare", "pause", "pauseExit"}
  /\ WorkerExit
  /\ UNCHANGED <<storeVars, gateVars, req, worldVars, crashes>>

\* What one leg's POST, and the single lookup after an unclear one, may end in,
\* with the fate of the order at the exchange.
PostAnswers ==
  { x \in [order : {"none", "resting", "final"},
           state : {"filled", "open", "rejected", "unknown"},
           why : {"none", "plain", "fatal", "funds", "absent"}, limited : BOOLEAN] :
      \/ x.state = "filled" /\ x.order = "final" /\ x.why = "none" /\ ~x.limited
      \/ x.state = "open" /\ x.order = "resting" /\ x.why = "none"
      \/ /\ x.state = "rejected" /\ x.order = "none" /\ ~x.limited
         /\ x.why \in {"plain", "fatal", "funds"}
      \/ /\ x.state = "rejected" /\ x.why = "absent"
         /\ x.order = "none" \/ (Laggy /\ x.order = "resting")
      \/ x.state = "unknown" /\ x.why = "none" /\ x.order \in {"none", "resting"} }

\* Both legs are sent at once; no store lock is held.
Post ==
  /\ wpc = "posting" /\ live
  /\ \E f \in [Legs -> PostAnswers] :
       /\ order' = [order EXCEPT ![Cur] = [l \in Legs |-> f[l].order]]
       /\ ans' = [l \in Legs |-> [state |-> f[l].state, why |-> f[l].why,
                                  limited |-> f[l].limited]]
       /\ throttled' = IF \E l \in Legs : f[l].limited
                       THEN throttled \cup {Cur} ELSE throttled
  /\ wpc' = "answered"
  /\ UNCHANGED <<storeVars, gateVars, snap, todo, signal, live, memVars, req, forgotten,
                 crashes>>

Limited  == \E l \in Legs : ans[l].limited
Querying == \E l \in Legs : ans[l].state = "unknown"
Funds    == \E l \in Legs : ans[l].why = "funds"
Fatal    == \E l \in Legs : ans[l].why = "fatal"
HasOrder(l) == ans[l].state \in {"filled", "open"}

\* _mark_legs_querying: an order id is kept, every leg stays to be looked up.
Marked == [leg EXCEPT ![Cur] =
             [l \in Legs |-> [leg[Cur][l] EXCEPT !.order = @ \/ HasOrder(l)]]]

\* resolve_attempt closes the rejected and the finally filled legs, or, when a
\* pause-class rejection is among the answers, both.
Resolved == [leg EXCEPT ![Cur] =
               [l \in Legs |->
                  [terminal |-> Funds \/ ans[l].state # "open",
                   order |-> HasOrder(l),
                   proof |-> IF HasOrder(l) THEN "none"
                            ELSE IF ans[l].why = "absent" THEN "quick" ELSE "post"]]]

\* _dispatch_live after the answers: a throttled pair is only stamped, an
\* unclear one is left to the drain, any other is settled now.  A throttled pair
\* takes this way when its event could be written, else that of LimitLost.
Resolve ==
  LET cat == Category([l \in Legs |-> HasOrder(l)])
  IN  /\ wpc = "answered"
      /\ \E stored \in {TRUE, ~Raises} :
           \/ /\ Limited
              /\ leg' = IF Querying /\ stored THEN Marked ELSE leg
              /\ \E stampStored \in {TRUE, ~Raises} :
                   IF stampStored
                   THEN pair' = [pair EXCEPT ![Cur].stamped = TRUE] /\ UNCHANGED unstamped
                   ELSE unstamped' = unstamped \cup {Cur} /\ UNCHANGED pair
              /\ UNCHANGED task
           \/ /\ ~Limited /\ Querying
              /\ leg' = IF stored THEN Marked ELSE leg
              /\ UNCHANGED <<task, pair, unstamped>>
           \/ /\ ~Limited /\ ~Querying
              /\ IF stored
                 THEN /\ leg' = Resolved
                      /\ pair' = [pair EXCEPT ![Cur].outcome =
                                    IF Fatal THEN "failed" ELSE cat]
                      /\ task' = IF Fatal THEN StoppedFatally
                                 ELSE Counted(cat, Funds \/ TaskType = "close")
                 ELSE UNCHANGED storeVars
              /\ UNCHANGED unstamped
      /\ wpc' = IF Limited \/ Funds THEN "pause" ELSE "top"
      /\ ResetLocals
      /\ UNCHANGED <<gateVars, retries, req, worldVars, crashes>>

\* The 429 is written to the task's events before the pair is stamped, and outside
\* every try: when that write raises the worker ends and nobody knows of the 429.
LimitLost ==
  /\ Raises /\ wpc = "answered" /\ Limited
  /\ leg' \in {leg} \cup (IF Querying THEN {Marked} ELSE {})
  /\ forgotten' = forgotten \cup {Cur}
  /\ WorkerExit
  /\ UNCHANGED <<task, pair, gateVars, req, order, throttled, crashes>>

\* _dispatch_simulated: the live executor has no execute method, the exception
\* becomes a failed outcome and both legs are closed unsent.
Simulate ==
  /\ wpc = "posting" /\ ~live
  /\ \E stored \in {TRUE, ~Raises} :
       IF stored
       THEN /\ leg' = [leg EXCEPT ![Cur] =
                         [l \in Legs |-> [@[l] EXCEPT !.terminal = TRUE]]]
            /\ pair' = [pair EXCEPT ![Cur].outcome = "failed"]
            /\ task' = Counted("failed", TaskType = "close")
       ELSE UNCHANGED storeVars
  /\ Goto("top")
  /\ UNCHANGED <<gateVars, req, worldVars, crashes>>

\* _pause_task_local, before the next round or on the way out; its event may not be
\* written, and that ends the worker too.
Pause ==
  /\ wpc \in {"pause", "pauseExit"}
  /\ task' = PausedIfActive
  /\ \/ wpc = "pause" /\ Goto("top")
     \/ (wpc = "pauseExit" \/ Raises) /\ WorkerExit
  /\ UNCHANGED <<pair, leg, gateVars, req, worldVars, crashes>>

Worker ==
  \/ Top \/ (\E a \in Attempts, l \in Legs : Query(a, l))
  \/ (\E a \in Attempts : Settle(a)) \/ SettleFails \/ Decide \/ Verify
  \/ Dispatch \/ Prepare \/ WorkerRaises \/ Post \/ Resolve \/ LimitLost \/ Simulate \/ Pause

-----------------------------------------------------------------------------
(* The operator.                                                           *)

\* The state a handler insists on when it reads the task.
Accepts(op) ==
  CASE op \in {"start", "pause"} -> task.status \notin {"deleted", "done"}
    [] op = "delete"             -> task.status # "deleted"
    [] op = "fill"               -> /\ task.status \notin {"deleted", "done", "stopped"}
                                    /\ ~(TaskType = "close" /\ task.awaiting)

\* post_start, post_fill_once, post_pause or post_delete reads the task.
Receive(r, op) ==
  /\ req[r] = NoReq /\ Accepts(op)
  /\ req' = [req EXCEPT ![r] =
       [op |-> op,
        at |-> IF op = "fill" /\ task.status = "running" THEN "ensure" ELSE "write"]]
  /\ UNCHANGED <<storeVars, gateVars, wpc, localVars, memVars, worldVars, crashes>>

\* set_task_status does not look at the row again.
WriteStatus(r) ==
  /\ req[r].at = "write"
  /\ IF req[r].op \in {"start", "fill"}
     THEN /\ task' = [task EXCEPT !.status = "running", !.awaiting = FALSE]
          /\ req' = [req EXCEPT ![r].at = "ensure"]
     ELSE /\ task' = [task EXCEPT
                        !.status = IF req[r].op = "pause" THEN "paused" ELSE "deleted"]
          /\ req' = [req EXCEPT ![r] = NoReq]
  /\ UNCHANGED <<pair, leg, gateVars, wpc, localVars, memVars, worldVars, crashes>>

\* ensure_worker: a live worker is left alone, else one is started.
EnsureWorker(r) ==
  /\ req[r].at = "ensure"
  /\ wpc' = IF wpc = "none" THEN "top" ELSE wpc
  /\ req' = [req EXCEPT ![r] = NoReq]
  /\ UNCHANGED <<storeVars, gateVars, localVars, memVars, worldVars, crashes>>

\* put_start_gate and put_close_gate; immediate tasks are not relaunched.
ToggleGate ==
  /\ \/ "gate" \in Ops /\ gate' = ~gate /\ UNCHANGED closeGate
     \/ "closeGate" \in Ops /\ closeGate' = ~closeGate /\ UNCHANGED gate
  /\ UNCHANGED <<storeVars, wpc, localVars, memVars, req, worldVars, crashes>>

-----------------------------------------------------------------------------
(* Processes and the exchange.                                             *)

\* _recover_workers: a running task, or one with a leg or a pair to finish.
RecoversRunning == task.status = "running"   \* mutant: drains are forgotten
Recovers == task.status = "running" \/ Nonterminal # {} \/ Gaps # {}

\* The process dies, with its threads and memory, and is started again.  Orders
\* it was sending may have reached the exchange or not.
Crash ==
  /\ crashes < MaxCrashes
  /\ crashes' = crashes + 1
  /\ IF wpc = "posting" /\ live
     THEN \E f \in [Legs -> {"unsent", "resting"}] : order' = [order EXCEPT ![Cur] = f]
     ELSE UNCHANGED order
  /\ wpc' = IF Recovers THEN "top" ELSE "none"
  /\ ResetLocals
  /\ retries' = [a \in Attempts |-> [l \in Legs |-> 0]]
  /\ unstamped' = {}
  /\ req' = [r \in Requests |-> NoReq]
  /\ UNCHANGED <<storeVars, gateVars, throttled, forgotten>>

\* The exchange finishes an order: filled, canceled or expired.
Finish(a, l) ==
  /\ order[a][l] = "resting"
  /\ order' = [order EXCEPT ![a][l] = "final"]
  /\ UNCHANGED <<storeVars, gateVars, wpc, localVars, memVars, req, throttled, forgotten,
                 crashes>>

Next ==
  \/ Worker
  \/ \E r \in Requests :
       \/ \E op \in Ops \ {"gate", "closeGate"} : Receive(r, op)
       \/ WriteStatus(r) \/ EnsureWorker(r)
  \/ ToggleGate \/ Crash
  \/ \E a \in Attempts, l \in Legs : Finish(a, l)

Spec == Init /\ [][Next]_vars

\* The worker thread is scheduled, and the exchange finishes market orders.
Fairness == /\ WF_vars(Worker)
            /\ \A a \in Attempts, l \in Legs : WF_vars(Finish(a, l))
FairSpec == Spec /\ Fairness

-----------------------------------------------------------------------------
(* Properties.                                                             *)

\* Every variable keeps its type; no counter of the task outgrows its pairs.
TypeOK ==
  /\ task \in [status : Statuses, scheduled : 0..Target, accepted : 0..Target,
               failed : 0..Target, consecutive : 0..Target, awaiting : BOOLEAN]
  /\ pair \in [Attempts -> [outcome : Outcomes, stamped : BOOLEAN]]
  /\ leg \in [Attempts -> [Legs -> [terminal : BOOLEAN, order : BOOLEAN, proof : Proofs]]]
  /\ gate \in BOOLEAN /\ closeGate \in BOOLEAN
  /\ wpc \in {"none", "top", "query", "settle", "decide", "verify", "dispatch",
              "prepare", "posting", "answered", "pause", "pauseExit"}
  /\ snap \in [status : Statuses \cup {"none"}, scheduled : 0..Target]
  /\ todo \in SUBSET (Attempts \X Legs)
  /\ signal \in {"none", "limited", "unknown"} /\ live \in BOOLEAN
  /\ ans \in [Legs -> [state : {"none", "filled", "open", "rejected", "unknown"},
                       why : {"none", "plain", "fatal", "funds", "absent"},
                       limited : BOOLEAN]]
  /\ retries \in [Attempts -> [Legs -> 0..Cap]]
  /\ unstamped \in SUBSET Attempts
  /\ req \in [Requests -> [op : {"none", "start", "fill", "pause", "delete"},
                           at : {"none", "write", "ensure"}]]
  /\ order \in [Attempts -> [Legs -> Exchange]]
  /\ throttled \in SUBSET Attempts /\ forgotten \in SUBSET Attempts
  /\ crashes \in 0..MaxCrashes

\* Only the newest pair of a task is ever in flight: every earlier one is
\* settled with both legs closed, across pauses, restarts and failing writes
\* (prepare_attempt's in-flight guard, the drain before the next dispatch).
OnePairAtATime ==
  /\ TypeOK
  /\ \A a \in Attempts :
       /\ a < task.scheduled => pair[a].outcome # "open" /\ BothTerminal(a)
       /\ a > task.scheduled => pair[a].outcome = "absent"

\* A leg that was closed for having no order has none at the exchange: no order
\* is ever live without the store knowing or still asking about it
\* (_reconcile_own_legs, classify_query_response).
ClosedLegHasNoOrder ==
  \A a \in Attempts, l \in Legs :
    leg[a][l].terminal /\ ~leg[a][l].order => order[a][l] \notin Placed

\* The same for the legs the worker's drain closed, even when lookups may miss
\* an order for a while: the retry budget rides that out.
DrainClosesTruly ==
  \A a \in Attempts, l \in Legs :
    leg[a][l].terminal /\ leg[a][l].proof = "lookup" => order[a][l] \notin Placed

\* No pair is counted twice, whichever of the settlement paths got to it first
\* and however often it ran (finalize_attempt, resolve_attempt, crash gaps).
NeverCountedTwice ==
  /\ task.accepted <= Cardinality({ a \in Attempts : pair[a].outcome = "accepted" })
  /\ task.failed <= Cardinality({ a \in Attempts : pair[a].outcome \in {"single", "failed"} })

\* Without a crash, a pair whose dispatch met a 429 never moves the counters,
\* even after a manual resume and when its stamp could not be written.  The
\* exception are the forgotten ones: the event is written before the stamp and its
\* failure leaves neither the stamp nor the memory of it (service.py:3942), though
\* the comment below it has settlement never take a 429 pair for an ordinary one.
RateLimitNotCounted ==
  [][\A a \in throttled \ forgotten :
       crashes = 0 /\ pair[a].outcome = "open" /\ pair'[a].outcome # "open" =>
         /\ task'.failed = task.failed
         /\ task'.accepted = task.accepted
         /\ task'.consecutive = task.consecutive]_vars

\* The failure that reaches the threshold leaves no running task behind, by
\* whichever path it was counted.
BrakeHolds ==
  [][task'.consecutive > task.consecutive /\ task'.consecutive >= Threshold =>
       task'.status # "running"]_vars

\* Every open pair is settled in the end, if lookups answer: pauses, deletes and
\* crashes between any two steps do not leave it behind.
PairSettles ==
  \A a \in Attempts : pair[a].outcome = "open" ~> pair[a].outcome # "open"

=============================================================================
