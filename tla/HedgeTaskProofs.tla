---------------------------- MODULE HedgeTaskProofs ----------------------------
(***************************************************************************)
(* Proofs about HedgeTask, for any number of pairs, legs and handlers, any *)
(* threshold and retry budget, and any number of crashes.                  *)
(***************************************************************************)
EXTENDS HedgeTask, FiniteSetTheorems, TLAPS

-----------------------------------------------------------------------------
(* The inductive invariant.                                                *)

TaskRow == [status : Statuses, scheduled : 0..Target, accepted : Nat, failed : Nat,
            consecutive : Nat, awaiting : BOOLEAN]
PairRow == [outcome : Outcomes, stamped : BOOLEAN]
LegRow  == [terminal : BOOLEAN, order : BOOLEAN, proof : Proofs]
Answer  == [state : {"none", "filled", "open", "rejected", "unknown"},
            why : {"none", "plain", "fatal", "funds", "absent"}, limited : BOOLEAN]
Places  == {"none", "top", "query", "settle", "decide", "verify", "dispatch",
            "prepare", "posting", "answered", "pause", "pauseExit"}
ReqRow  == [op : {"none", "start", "fill", "pause", "delete"},
            at : {"none", "write", "ensure"}]

StoreTyped ==
  /\ task \in TaskRow
  /\ pair \in [Attempts -> PairRow]
  /\ leg \in [Attempts -> [Legs -> LegRow]]
GatesTyped == gate \in BOOLEAN /\ closeGate \in BOOLEAN
WorkerTyped ==
  /\ wpc \in Places
  /\ snap \in [status : Statuses \cup {"none"}, scheduled : 0..Target]
  /\ todo \in SUBSET (Attempts \X Legs)
  /\ signal \in {"none", "limited", "unknown"} /\ live \in BOOLEAN
  /\ ans \in [Legs -> Answer]
MemoryTyped ==
  /\ retries \in [Attempts -> [Legs -> 0..Cap]]
  /\ unstamped \in SUBSET Attempts
WorldTyped ==
  /\ order \in [Attempts -> [Legs -> Exchange]]
  /\ throttled \in SUBSET Attempts /\ forgotten \in SUBSET Attempts
  /\ crashes \in 0..MaxCrashes
Typed ==
  /\ StoreTyped /\ GatesTyped /\ WorkerTyped /\ MemoryTyped /\ WorldTyped
  /\ req \in [Requests -> ReqRow]

\* The pairs with one of these outcomes.
Of(pairs, outcomes) == { a \in Attempts : pairs[a].outcome \in outcomes }
Misses == {"single", "failed"}

\* Whatever was counted is the outcome of a pair of its own.
Counts ==
  /\ task.accepted <= Cardinality(Of(pair, {"accepted"}))
  /\ task.failed <= Cardinality(Of(pair, Misses))
  /\ task.consecutive <= Cardinality(Of(pair, Misses))

\* Earlier pairs are over, the newest one exists, later ones do not.
Newest ==
  \A a \in Attempts :
    /\ a < task.scheduled => pair[a].outcome # "open" /\ BothTerminal(a)
    /\ a <= task.scheduled => pair[a].outcome # "absent"
    /\ a > task.scheduled =>
         /\ pair[a].outcome = "absent" /\ a \notin throttled
         /\ \A l \in Legs : leg[a][l] = FreshLeg /\ order[a][l] = "unsent"

\* What the worker relies on at its place in the round: nobody else opens,
\* settles or looks up a pair.
Drained == wpc \in {"verify", "dispatch", "prepare"} => Nonterminal = {}
Looking == wpc = "query" => todo \subseteq Nonterminal
Sending ==
  wpc \in {"posting", "answered"} =>
    /\ Cur \in Attempts /\ pair[Cur].outcome = "open"
    /\ \A l \in Legs : leg[Cur][l] = FreshLeg
Unsent ==
  wpc = "posting" => Cur \notin throttled /\ \A l \in Legs : order[Cur][l] = "unsent"
Answered ==
  wpc = "answered" =>
    /\ Cur \in throttled => Limited
    /\ \A l \in Legs :
         /\ ans[l].state # "none"
         /\ ans[l].state = "rejected" /\ (Laggy => ans[l].why # "absent") =>
              order[Cur][l] \notin Placed

\* A pair that met a 429 is stamped, is due to be stamped, or is about to be, unless
\* its worker died of the event before the stamp.
Stamped ==
  \A a \in throttled \ forgotten :
    crashes = 0 /\ pair[a].outcome = "open" => Uncounted(a) \/ (wpc = "answered" /\ a = Cur)

\* Only a lookup writes this proof, and only with the closing of the leg.
LookedUpIsClosed ==
  \A a \in Attempts, l \in Legs : leg[a][l].proof = "lookup" => leg[a][l].terminal

\* A leg closed without an order id has no order, whatever lookups miss, unless the
\* one lookup right after an unclear POST closed it.
ClosedUnlessQuick ==
  \A a \in Attempts, l \in Legs :
    leg[a][l].terminal /\ ~leg[a][l].order /\ (Laggy => leg[a][l].proof # "quick")
      => order[a][l] \notin Placed

Inv ==
  /\ Typed /\ Counts /\ Newest
  /\ Drained /\ Looking /\ Sending /\ Unsent /\ Answered
  /\ Stamped /\ LookedUpIsClosed /\ DrainClosesTruly /\ ClosedUnlessQuick

-----------------------------------------------------------------------------
(* Constants, counting, and the row that a count leaves.                   *)

LEMMA Constants ==
  /\ Target \in Nat /\ Target > 0 /\ Cap \in Nat /\ Cap > 0 /\ Threshold \in Nat
  /\ MaxCrashes \in Nat
  /\ StoreFails \in BOOLEAN /\ LookupFails \in BOOLEAN /\ Laggy \in BOOLEAN
  /\ Ops \subseteq {"start", "fill", "pause", "delete", "gate", "closeGate"}
  /\ Attempts = 1..Target
BY HedgeAssumption DEF Attempts

LEMMA OfFinite ==
  ASSUME NEW p, NEW os
  PROVE  /\ IsFiniteSet(Of(p, os))
         /\ Cardinality(Of(p, os)) \in Nat /\ Cardinality(Of(p, os)) <= Target
<1>1. IsFiniteSet(Attempts) /\ Cardinality(Attempts) = Target
  BY Constants, FS_Interval
<1>2. Of(p, os) \in SUBSET Attempts
  BY DEF Of
<1>3. Cardinality(Of(p, os)) <= Target /\ IsFiniteSet(Of(p, os))
  BY <1>1, <1>2, FS_Subset
<1> QED BY <1>3, FS_CardinalityType

\* Settling an open pair adds it to the pairs of its outcome and to no others.
LEMMA PairSettled ==
  ASSUME NEW p \in [Attempts -> PairRow], NEW q \in [Attempts -> PairRow],
         NEW a \in Attempts, p[a].outcome = "open",
         NEW cat \in {"accepted", "single", "failed"}, q[a].outcome = cat,
         \A b \in Attempts \ {a} : q[b].outcome = p[b].outcome
  PROVE  /\ Cardinality(Of(q, {"accepted"})) =
              Cardinality(Of(p, {"accepted"})) + (IF cat = "accepted" THEN 1 ELSE 0)
         /\ Cardinality(Of(q, Misses)) =
              Cardinality(Of(p, Misses)) + (IF cat = "accepted" THEN 0 ELSE 1)
<1>1. ASSUME NEW os, os \in {{"accepted"}, Misses}
      PROVE  Cardinality(Of(q, os)) = Cardinality(Of(p, os)) + (IF cat \in os THEN 1 ELSE 0)
  <2>1. a \notin Of(p, os)
    BY <1>1 DEF Of, Misses
  <2>2. CASE cat \in os
    <3>1. Of(q, os) = Of(p, os) \cup {a}
      BY <1>1, <2>2 DEF Of
    <3> QED BY <2>1, <2>2, <3>1, OfFinite, FS_AddElement
  <2>3. CASE cat \notin os
    <3>1. Of(q, os) = Of(p, os)
      BY <1>1, <2>1, <2>3 DEF Of
    <3> QED BY <2>3, <3>1, OfFinite
  <2> QED BY <2>2, <2>3
<1> QED BY <1>1 DEF Misses

\* _apply_task_counters keeps the row's type and moves one counter by one.
LEMMA CountedRow ==
  ASSUME task \in TaskRow, NEW cat \in {"accepted", "single", "failed"}, NEW late \in BOOLEAN
  PROVE  LET next == Counted(cat, late) IN
         /\ next \in TaskRow
         /\ next.scheduled = task.scheduled
         /\ next.accepted = task.accepted + (IF cat = "accepted" THEN 1 ELSE 0)
         /\ next.failed = task.failed + (IF cat = "accepted" THEN 0 ELSE 1)
         /\ next.consecutive = IF cat = "accepted" THEN 0 ELSE task.consecutive + 1
         /\ cat # "accepted" /\ next.consecutive >= Threshold => next.status # "running"
<1>1. task.accepted \in Nat /\ task.failed \in Nat /\ task.consecutive \in Nat
      /\ task.status \in Statuses
  BY DEF TaskRow
<1>2. ASSUME NEW acc, NEW cons PROVE StatusAfter(task.status, cat, acc, cons) \in Statuses
  BY <1>1 DEF StatusAfter, Statuses
<1> DEFINE acc  == task.accepted + (IF cat = "accepted" THEN 1 ELSE 0)
           cons == IF cat = "accepted" THEN 0 ELSE task.consecutive + 1
           fail == task.failed + (IF cat = "accepted" THEN 0 ELSE 1)
           after == StatusAfter(task.status, cat, acc, cons)
           status == IF ~late /\ after = "running" /\ task.scheduled >= Target THEN "done"
                     ELSE IF late /\ after = "done" THEN "running" ELSE after
           next == Counted(cat, late)
<1>3. acc \in Nat /\ cons \in Nat /\ fail \in Nat
  BY <1>1
<1>4. status \in Statuses
  <2>1. after \in Statuses
    BY <1>2
  <2> HIDE DEF after
  <2> QED BY <2>1 DEF Statuses
<1>5. cat # "accepted" /\ cons >= Threshold => status # "running"
  BY DEF StatusAfter
<1> HIDE DEF acc, cons, fail, status
<1>6. next = [task EXCEPT !.accepted = acc, !.failed = fail, !.consecutive = cons,
                          !.status = status]
  BY DEF Counted, acc, cons, fail, status
<1> HIDE DEF next
<1>7. /\ next \in TaskRow /\ next.scheduled = task.scheduled
      /\ next.accepted = acc /\ next.failed = fail
      /\ next.consecutive = cons /\ next.status = status
  BY <1>3, <1>4, <1>6 DEF TaskRow
<1> QED BY <1>5, <1>7 DEF next, acc, cons, fail

\* What is written to a row when no pair is counted.
StatusWritten(next) ==
  \/ next \in {task, PausedIfActive, StoppedIfActive, StoppedFatally}
  \/ \E s \in {"done", "paused", "deleted"} : next = [task EXCEPT !.status = s]
  \/ next = [task EXCEPT !.status = "running", !.awaiting = FALSE]

LEMMA RowsTyped ==
  ASSUME task \in TaskRow
  PROVE  \A next : StatusWritten(next) =>
           /\ next \in TaskRow /\ next.scheduled = task.scheduled
           /\ next.accepted = task.accepted /\ next.failed = task.failed
           /\ next.consecutive = task.consecutive
<1> SUFFICES ASSUME NEW next, StatusWritten(next)
             PROVE  /\ next \in TaskRow /\ next.scheduled = task.scheduled
                    /\ next.accepted = task.accepted /\ next.failed = task.failed
                    /\ next.consecutive = task.consecutive
  OBVIOUS
<1>1. task.awaiting \in BOOLEAN
  BY DEF TaskRow
<1>2. PICK s \in Statuses, w \in BOOLEAN :
        next = [task EXCEPT !.status = s, !.awaiting = w]
  <2>1. task = [task EXCEPT !.status = task.status, !.awaiting = task.awaiting]
        /\ task.status \in Statuses
    BY DEF TaskRow
  <2>2. \A s : [task EXCEPT !.status = s] =
                 [task EXCEPT !.status = s, !.awaiting = task.awaiting]
    BY DEF TaskRow
  <2>3. {"done", "paused", "deleted", "stopped", "running"} \subseteq Statuses
    BY DEF Statuses
  <2>4. CASE next = task
    BY <1>1, <2>1, <2>4
  <2>5. CASE \E s \in Statuses : next = [task EXCEPT !.status = s]
    BY <1>1, <2>2, <2>5
  <2>6. CASE \E s \in Statuses : next = [task EXCEPT !.status = s, !.awaiting = FALSE]
    BY <2>6
  <2> QED BY <2>3, <2>4, <2>5, <2>6
          DEF StatusWritten, PausedIfActive, StoppedIfActive, StoppedFatally
<1> QED BY <1>2 DEF TaskRow

-----------------------------------------------------------------------------
(* Frames: what a step leaves alone.                                       *)

LEMMA Frames ==
  /\ StoreTyped /\ UNCHANGED storeVars => StoreTyped'
  /\ GatesTyped /\ UNCHANGED gateVars => GatesTyped'
  /\ WorkerTyped /\ UNCHANGED <<wpc, localVars>> => WorkerTyped'
  /\ MemoryTyped /\ UNCHANGED memVars => MemoryTyped'
  /\ WorldTyped /\ UNCHANGED <<worldVars, crashes>> => WorldTyped'
<1>1. StoreTyped /\ UNCHANGED storeVars => StoreTyped'
  BY DEF StoreTyped, storeVars
<1>2. GatesTyped /\ UNCHANGED gateVars => GatesTyped'
  BY DEF GatesTyped, gateVars
<1>3. WorkerTyped /\ UNCHANGED <<wpc, localVars>> => WorkerTyped'
  BY DEF WorkerTyped, localVars
<1>4. MemoryTyped /\ UNCHANGED memVars => MemoryTyped'
  BY DEF MemoryTyped, memVars
<1>5. WorldTyped /\ UNCHANGED <<worldVars, crashes>> => WorldTyped'
  BY DEF WorldTyped, worldVars
<1> QED BY <1>1, <1>2, <1>3, <1>4, <1>5

LEMMA ResetTyped ==
  ASSUME ResetLocals, wpc' \in Places
  PROVE  WorkerTyped'
<1>1. NoAnswer \in Answer
  BY DEF NoAnswer, Answer
<1>2. NoSnap \in [status : Statuses \cup {"none"}, scheduled : 0..Target]
  BY Constants DEF NoSnap
<1> QED BY <1>1, <1>2 DEF ResetLocals, WorkerTyped

LEMMA ExitTyped ==
  ASSUME MemoryTyped, WorkerExit
  PROVE  WorkerTyped' /\ MemoryTyped' /\ wpc' = "none" /\ unstamped' = unstamped
<1>1. wpc' = "none" /\ ResetLocals /\ unstamped' = unstamped
      /\ retries' = [a \in Attempts |-> [l \in Legs |-> 0]]
  BY DEF WorkerExit
<1>2. WorkerTyped'
  BY <1>1, ResetTyped DEF Places
<1>3. MemoryTyped'
  BY <1>1, Constants DEF MemoryTyped
<1> QED BY <1>1, <1>2, <1>3

LEMMA GotoTyped ==
  ASSUME MemoryTyped, NEW label \in Places, Goto(label)
  PROVE  WorkerTyped' /\ MemoryTyped' /\ wpc' = label /\ unstamped' = unstamped
<1>1. wpc' = label /\ ResetLocals /\ UNCHANGED memVars
  BY DEF Goto
<1>2. WorkerTyped'
  BY <1>1, ResetTyped
<1> QED BY <1>1, <1>2, Frames DEF memVars

\* A step that touches no pair, no leg, no order and no counter keeps the invariant
\* when the worker does not start or stop sending in it.
LEMMA NothingSent ==
  ASSUME Inv, Typed',
         task'.scheduled = task.scheduled, task'.accepted = task.accepted,
         task'.failed = task.failed, task'.consecutive = task.consecutive,
         UNCHANGED <<pair, leg, unstamped, worldVars, crashes>>,
         wpc' \in {"posting", "answered"} \/ wpc = "answered" => UNCHANGED <<wpc, ans>>,
         wpc' \in {"verify", "dispatch", "prepare"} => Nonterminal = {},
         wpc' = "query" => todo' \subseteq Nonterminal
  PROVE  Inv'
<1> USE DEF Inv, worldVars
<1>1. Counts'
  BY DEF Counts, Of
<1>2. Newest'
  BY DEF Newest, BothTerminal
<1>3. Nonterminal' = Nonterminal
  BY DEF Nonterminal
<1>4. Drained' /\ Looking'
  BY <1>3 DEF Drained, Looking
<1>5. Sending' /\ Unsent' /\ Answered'
  BY DEF Sending, Unsent, Answered, Cur, Limited
<1>6. Stamped'
  BY DEF Stamped, Uncounted, Cur
<1>7. LookedUpIsClosed' /\ DrainClosesTruly' /\ ClosedUnlessQuick'
  BY DEF LookedUpIsClosed, DrainClosesTruly, ClosedUnlessQuick
<1> QED BY <1>1, <1>2, <1>4, <1>5, <1>6, <1>7

-----------------------------------------------------------------------------
(* Steps that only move the worker, write a status, or serve a request.    *)

LEMMA TopStep == ASSUME Inv, Top PROVE Inv'
<1> USE DEF Inv, Typed
<1>1. Nonterminal \subseteq Attempts \X Legs
  BY Constants DEF Nonterminal, StoreTyped, TaskRow
<1>2. /\ snap' = [status |-> task.status, scheduled |-> task.scheduled]
      /\ todo' = Nonterminal /\ signal' = "none"
      /\ wpc' = IF Nonterminal = {} THEN "settle" ELSE "query"
      /\ UNCHANGED <<storeVars, gateVars, live, ans, memVars, req, worldVars, crashes>>
      /\ wpc = "top"
  BY DEF Top
<1>3. snap' \in [status : Statuses \cup {"none"}, scheduled : 0..Target]
  BY <1>2 DEF StoreTyped, TaskRow
<1>4. WorkerTyped'
  BY <1>1, <1>2, <1>3 DEF WorkerTyped, Places
<1>5. Typed'
  BY <1>2, <1>4, Frames
<1>6. UNCHANGED <<task, pair, leg, unstamped, worldVars, crashes>>
  BY <1>2 DEF storeVars, memVars
<1> QED BY <1>2, <1>5, <1>6, NothingSent

LEMMA DecideStep == ASSUME Inv, Decide PROVE Inv'
<1> USE DEF Inv, Typed
<1>1. /\ UNCHANGED <<storeVars, gateVars, req, worldVars, crashes>>
      /\ wpc \in {"decide", "settle"}
  BY DEF Decide
<1>2. \/ wpc' = "pauseExit" /\ UNCHANGED <<localVars, memVars>>
      \/ WorkerExit
      \/ Goto("top")
      \/ Nonterminal = {} /\ \E label \in {"verify", "dispatch"} : Goto(label)
  BY DEF Decide
<1>3. /\ WorkerTyped' /\ MemoryTyped' /\ unstamped' = unstamped
      /\ \/ wpc' \in {"pauseExit", "none", "top"}
         \/ wpc' \in {"verify", "dispatch"} /\ Nonterminal = {}
  <2>1. CASE wpc' = "pauseExit" /\ UNCHANGED <<localVars, memVars>>
    BY <2>1 DEF WorkerTyped, MemoryTyped, localVars, memVars, Places
  <2>2. CASE WorkerExit
    BY <2>2, ExitTyped
  <2>3. CASE Goto("top")
    BY <2>3, GotoTyped DEF Places
  <2>4. CASE Nonterminal = {} /\ \E label \in {"verify", "dispatch"} : Goto(label)
    <3>1. PICK label \in {"verify", "dispatch"} : Goto(label)
      BY <2>4
    <3>2. label \in Places
      BY DEF Places
    <3> QED BY <2>4, <3>1, <3>2, GotoTyped
  <2> QED BY <1>2, <2>1, <2>2, <2>3, <2>4
<1>4. Typed'
  BY <1>1, <1>3, Frames
<1>5. UNCHANGED <<task, pair, leg, worldVars, crashes>>
  BY <1>1 DEF storeVars
<1> QED BY <1>1, <1>3, <1>4, <1>5, NothingSent

LEMMA SettleFailsStep == ASSUME Inv, SettleFails PROVE Inv'
<1> USE DEF Inv, Typed
<1>1. /\ UNCHANGED <<storeVars, gateVars, localVars, memVars, req, worldVars, crashes>>
      /\ wpc = "settle" /\ wpc' = "decide"
  BY DEF SettleFails
<1>2. WorkerTyped'
  BY <1>1 DEF WorkerTyped, localVars, Places
<1>3. Typed'
  BY <1>1, <1>2, Frames
<1>4. UNCHANGED <<task, pair, leg, unstamped, worldVars, crashes>>
  BY <1>1 DEF storeVars, memVars
<1> QED BY <1>1, <1>3, <1>4, NothingSent

\* A step of the worker that writes at most a status and goes on somewhere.
LEMMA StatusStep ==
  ASSUME Inv, wpc \notin {"posting", "answered"}, StatusWritten(task'),
         WorkerTyped', MemoryTyped', unstamped' = unstamped,
         wpc' \in {"none", "top", "decide", "prepare"},
         wpc' = "prepare" => wpc = "dispatch",
         UNCHANGED <<pair, leg, gateVars, req, worldVars, crashes>>
  PROVE  Inv'
<1> USE DEF Inv, Typed
<1>1. /\ task' \in TaskRow /\ task'.scheduled = task.scheduled
      /\ task'.accepted = task.accepted /\ task'.failed = task.failed
      /\ task'.consecutive = task.consecutive
  BY RowsTyped DEF StoreTyped
<1>2. Typed'
  BY <1>1, Frames DEF StoreTyped
<1>3. wpc' = "prepare" => Nonterminal = {}
  BY DEF Drained
<1> QED BY <1>1, <1>2, <1>3, NothingSent

LEMMA VerifyStep == ASSUME Inv, Verify PROVE Inv'
<1>1. StatusWritten(task')
  BY DEF Verify, StatusWritten
<1>2. WorkerExit /\ UNCHANGED <<pair, leg, gateVars, req, worldVars, crashes>> /\ wpc = "verify"
  BY DEF Verify
<1>3. WorkerTyped' /\ MemoryTyped' /\ wpc' = "none" /\ unstamped' = unstamped
  BY <1>2, ExitTyped DEF Inv, Typed
<1> QED BY <1>1, <1>2, <1>3, StatusStep

LEMMA DispatchStep == ASSUME Inv, Dispatch PROVE Inv'
<1>1. wpc = "dispatch" /\ UNCHANGED <<pair, leg, gateVars, req, worldVars, crashes>>
  BY DEF Dispatch
<1>2. \/ /\ \E label \in {"prepare", "top"} : Goto(label)
         /\ task' \in {task, PausedIfActive}
      \/ wpc' = "prepare" /\ live' = TRUE /\ UNCHANGED <<task, snap, todo, signal, ans, memVars>>
      \/ task' = StoppedIfActive /\ WorkerExit
  BY DEF Dispatch
<1>3. StatusWritten(task')
  BY <1>2 DEF StatusWritten
<1>4. /\ WorkerTyped' /\ MemoryTyped' /\ unstamped' = unstamped
      /\ wpc' \in {"none", "top", "prepare"}
  <2>1. ASSUME NEW label \in {"prepare", "top"}, Goto(label)
        PROVE  /\ WorkerTyped' /\ MemoryTyped' /\ unstamped' = unstamped
               /\ wpc' \in {"none", "top", "prepare"}
    <3>1. label \in Places
      BY DEF Places
    <3> QED BY <2>1, <3>1, GotoTyped DEF Inv, Typed
  <2>2. CASE wpc' = "prepare" /\ live' = TRUE /\ UNCHANGED <<snap, todo, signal, ans, memVars>>
    BY <2>2 DEF Inv, Typed, WorkerTyped, MemoryTyped, memVars, Places
  <2>3. CASE WorkerExit
    BY <2>3, ExitTyped DEF Inv, Typed
  <2> QED BY <1>2, <2>1, <2>2, <2>3
<1> QED BY <1>1, <1>3, <1>4, StatusStep

LEMMA WorkerRaisesStep == ASSUME Inv, WorkerRaises PROVE Inv'
<1>1. WorkerExit /\ UNCHANGED <<storeVars, gateVars, req, worldVars, crashes>>
      /\ wpc \in {"top", "prepare", "pause", "pauseExit"}
  BY DEF WorkerRaises
<1>2. WorkerTyped' /\ MemoryTyped' /\ wpc' = "none" /\ unstamped' = unstamped
  BY <1>1, ExitTyped DEF Inv, Typed
<1>3. StatusWritten(task') /\ UNCHANGED <<pair, leg>>
  BY <1>1 DEF StatusWritten, storeVars
<1> QED BY <1>1, <1>2, <1>3, StatusStep

LEMMA PauseStep == ASSUME Inv, Pause PROVE Inv'
<1>1. /\ wpc \in {"pause", "pauseExit"} /\ task' = PausedIfActive
      /\ Goto("top") \/ WorkerExit
      /\ UNCHANGED <<pair, leg, gateVars, req, worldVars, crashes>>
  BY DEF Pause
<1>2. /\ WorkerTyped' /\ MemoryTyped' /\ wpc' \in {"top", "none"} /\ unstamped' = unstamped
  BY <1>1, ExitTyped, GotoTyped DEF Inv, Typed, Places
<1>3. StatusWritten(task')
  BY <1>1 DEF StatusWritten
<1> QED BY <1>1, <1>2, <1>3, StatusStep

\* A request writes a status or starts a worker where there is none.
LEMMA RequestStep ==
  ASSUME Inv, StatusWritten(task'), req' \in [Requests -> ReqRow],
         gate' \in BOOLEAN, closeGate' \in BOOLEAN,
         wpc' = wpc \/ (wpc = "none" /\ wpc' = "top"),
         UNCHANGED <<pair, leg, localVars, memVars, worldVars, crashes>>
  PROVE  Inv'
<1> USE DEF Inv, Typed
<1>1. /\ task' \in TaskRow /\ task'.scheduled = task.scheduled
      /\ task'.accepted = task.accepted /\ task'.failed = task.failed
      /\ task'.consecutive = task.consecutive
  BY RowsTyped DEF StoreTyped
<1>2. WorkerTyped'
  BY DEF WorkerTyped, localVars, Places
<1>3. Typed'
  BY <1>1, <1>2, Frames DEF StoreTyped, GatesTyped
<1>4. UNCHANGED <<todo, ans, unstamped>>
  BY DEF localVars, memVars
<1> QED BY <1>1, <1>3, <1>4, NothingSent DEF Drained, Looking

LEMMA ReceiveStep ==
  ASSUME Inv, NEW r \in Requests, NEW op \in Ops \ {"gate", "closeGate"}, Receive(r, op)
  PROVE  Inv'
<1>1. UNCHANGED <<storeVars, gateVars, wpc, localVars, memVars, worldVars, crashes>>
  BY DEF Receive
<1>2. req' \in [Requests -> ReqRow]
  BY Constants DEF Receive, Inv, Typed, ReqRow
<1>3. UNCHANGED <<task, pair, leg, gate, closeGate>>
  BY <1>1 DEF storeVars, gateVars
<1> QED BY <1>1, <1>2, <1>3, RequestStep DEF StatusWritten, Inv, Typed, GatesTyped

LEMMA WriteStatusStep ==
  ASSUME Inv, NEW r \in Requests, WriteStatus(r)
  PROVE  Inv'
<1>1. UNCHANGED <<pair, leg, gateVars, wpc, localVars, memVars, worldVars, crashes>>
  BY DEF WriteStatus
<1>2. req' \in [Requests -> ReqRow]
  BY DEF WriteStatus, Inv, Typed, ReqRow, NoReq
<1>3. StatusWritten(task')
  BY DEF WriteStatus, StatusWritten
<1>4. UNCHANGED <<gate, closeGate>>
  BY <1>1 DEF gateVars
<1> QED BY <1>1, <1>2, <1>3, <1>4, RequestStep DEF Inv, Typed, GatesTyped

LEMMA EnsureWorkerStep ==
  ASSUME Inv, NEW r \in Requests, EnsureWorker(r)
  PROVE  Inv'
<1>1. /\ UNCHANGED <<storeVars, gateVars, localVars, memVars, worldVars, crashes>>
      /\ wpc' = wpc \/ (wpc = "none" /\ wpc' = "top")
  BY DEF EnsureWorker
<1>2. req' \in [Requests -> ReqRow]
  BY DEF EnsureWorker, Inv, Typed, ReqRow, NoReq
<1>3. UNCHANGED <<task, pair, leg, gate, closeGate>>
  BY <1>1 DEF storeVars, gateVars
<1> QED BY <1>1, <1>2, <1>3, RequestStep DEF StatusWritten, Inv, Typed, GatesTyped

LEMMA ToggleGateStep == ASSUME Inv, ToggleGate PROVE Inv'
<1>1. UNCHANGED <<storeVars, wpc, localVars, memVars, req, worldVars, crashes>>
  BY DEF ToggleGate
<1>2. gate' \in BOOLEAN /\ closeGate' \in BOOLEAN
  BY DEF ToggleGate, Inv, Typed, GatesTyped
<1>3. UNCHANGED <<task, pair, leg>>
  BY <1>1 DEF storeVars
<1> QED BY <1>1, <1>2, <1>3, RequestStep DEF StatusWritten, Inv, Typed

-----------------------------------------------------------------------------
(* Looking a leg up, and settling a pair.                                  *)

\* Only the newest pair has legs to look up.
LEMMA OnlyNewestLooked ==
  ASSUME StoreTyped, Newest, NEW a, NEW l, <<a, l>> \in Nonterminal
  PROVE  a \in Attempts /\ l \in Legs /\ a = task.scheduled /\ ~leg[a][l].terminal
<1>1. a \in 1..task.scheduled /\ l \in Legs /\ ~leg[a][l].terminal
  BY DEF Nonterminal
<1>2. a \in Attempts /\ a <= task.scheduled
  BY <1>1, Constants DEF StoreTyped, TaskRow
<1>3. ~(a < task.scheduled)
  BY <1>1, <1>2 DEF Newest, BothTerminal
<1> QED BY <1>1, <1>2, <1>3, Constants DEF StoreTyped, TaskRow

\* What a lookup leaves of a leg it closes, if it found no order.
LEMMA LookupCloses ==
  ASSUME Inv, NEW a \in Attempts, NEW l \in Legs,
         NEW v \in LookupAnswers(a, l, retries[a][l] + 1), v # "final",
         Closes(v, IF retries[a][l] < Cap THEN retries[a][l] + 1 ELSE Cap)
  PROVE  order[a][l] \notin Placed
<1>1. retries[a][l] \in 0..Cap /\ Cap \in Nat
  BY Constants DEF Inv, Typed, MemoryTyped
<1>2. v = "absent" /\ (IF retries[a][l] < Cap THEN retries[a][l] + 1 ELSE Cap) >= Cap
  BY DEF Closes
<1>3. ~(retries[a][l] + 1 < Cap)
  BY <1>1, <1>2
<1> QED BY <1>2, <1>3 DEF LookupAnswers

LEMMA QueryStep ==
  ASSUME Inv, NEW a \in Attempts, NEW l \in Legs, Query(a, l)
  PROVE  Inv'
<1> USE DEF Inv, Typed
<1>1. wpc = "query" /\ <<a, l>> \in todo /\ todo' = todo \ {<<a, l>>}
      /\ wpc' \in {"settle", "query"}
      /\ UNCHANGED <<task, pair, gateVars, snap, live, ans, unstamped, req, worldVars, crashes>>
  BY DEF Query
<1>2. a = task.scheduled /\ ~leg[a][l].terminal
  BY <1>1, OnlyNewestLooked DEF Looking
<1> DEFINE n == IF retries[a][l] < Cap THEN retries[a][l] + 1 ELSE Cap
<1>3. PICK v \in LookupAnswers(a, l, retries[a][l] + 1), stored \in {TRUE, ~Raises} :
        /\ leg' = IF stored
                  THEN [leg EXCEPT ![a][l] =
                         [terminal |-> stored /\ Closes(v, n),
                          order |-> @.order \/ v \in {"new", "final"},
                          proof |-> IF (stored /\ Closes(v, n)) /\ v # "final" /\ ~@.order
                                    THEN "lookup" ELSE @.proof]]
                  ELSE leg
        /\ retries' = [retries EXCEPT ![a][l] = IF stored /\ Closes(v, n) THEN 0 ELSE n]
        /\ signal' \in {"none", "limited", "unknown", signal}
  BY DEF Query
<1>4. v # "final" /\ Closes(v, n) => order[a][l] \notin Placed
  BY LookupCloses
<1>5. n \in 0..Cap
  BY Constants DEF MemoryTyped
<1> DEFINE closed == stored /\ Closes(v, n)
           found == v \in {"new", "final"}
<1>6. closed \in BOOLEAN /\ found \in BOOLEAN
  BY DEF Closes, Raises
<1>7. /\ closed /\ ~found => order[a][l] \notin Placed
      /\ closed /\ v # "final" => order[a][l] \notin Placed
  BY <1>4
<1>8. /\ leg' \in [Attempts -> [Legs -> LegRow]]
      /\ \A b \in Attempts, k \in Legs : <<b, k>> # <<a, l>> => leg'[b][k] = leg[b][k]
      /\ \/ leg'[a][l] = leg[a][l]
         \/ leg'[a][l] = [terminal |-> closed, order |-> leg[a][l].order \/ found,
                          proof |-> IF closed /\ v # "final" /\ ~leg[a][l].order
                                    THEN "lookup" ELSE leg[a][l].proof]
  <2>1. leg[a][l] \in LegRow /\ leg[a] \in [Legs -> LegRow]
    BY DEF StoreTyped
  <2>2. CASE stored
    <3> DEFINE new == [terminal |-> closed, order |-> leg[a][l].order \/ found,
                       proof |-> IF closed /\ v # "final" /\ ~leg[a][l].order
                                 THEN "lookup" ELSE leg[a][l].proof]
    <3>1. new \in LegRow
      BY <1>6, <2>1 DEF LegRow, Proofs
    <3>2. leg' = [leg EXCEPT ![a][l] = new]
      BY <1>3, <2>2
    <3> HIDE DEF new
    <3>3. leg' \in [Attempts -> [Legs -> LegRow]] /\ leg'[a][l] = new
          /\ \A b \in Attempts, k \in Legs : <<b, k>> # <<a, l>> => leg'[b][k] = leg[b][k]
      BY <3>1, <3>2 DEF StoreTyped
    <3> QED BY <3>3 DEF new
  <2>3. CASE ~stored
    BY <1>3, <2>3 DEF StoreTyped
  <2> QED BY <2>2, <2>3
<1> HIDE DEF n, closed, found
<1>9. Typed'
  <2>1. StoreTyped'
    BY <1>1, <1>8 DEF StoreTyped
  <2>2. WorkerTyped'
    BY <1>1, <1>3 DEF WorkerTyped, Places
  <2>3. MemoryTyped'
    <3>1. (IF closed THEN 0 ELSE n) \in 0..Cap
      BY <1>5, Constants
    <3>2. retries' = [retries EXCEPT ![a][l] = IF closed THEN 0 ELSE n]
      BY <1>3 DEF closed, n
    <3> QED BY <1>1, <3>1, <3>2 DEF MemoryTyped
  <2> QED BY <1>1, <2>1, <2>2, <2>3, Frames
<1>10. Counts'
  BY <1>1 DEF Counts, Of
<1>11. Newest'
  BY <1>1, <1>2, <1>8 DEF Newest, BothTerminal, worldVars
<1>12. Looking'
  <2> SUFFICES ASSUME NEW b, NEW k, <<b, k>> \in todo' PROVE <<b, k>> \in Nonterminal'
    <3>1. todo' \subseteq Attempts \X Legs
      BY <1>9 DEF WorkerTyped
    <3> QED BY <3>1 DEF Looking
  <2>1. <<b, k>> \in Nonterminal /\ <<b, k>> # <<a, l>>
    BY <1>1 DEF Looking
  <2>2. b \in Attempts /\ k \in Legs
    BY <2>1, OnlyNewestLooked
  <2> QED BY <1>1, <1>8, <2>1, <2>2 DEF Nonterminal
<1>13. Drained' /\ Sending' /\ Unsent' /\ Answered'
  BY <1>1 DEF Drained, Sending, Unsent, Answered
<1>14. Stamped'
  BY <1>1 DEF Stamped, Uncounted, worldVars
<1>15. ASSUME NEW b \in Attempts, NEW k \in Legs
       PROVE  /\ leg'[b][k].proof = "lookup" => leg'[b][k].terminal
              /\ leg'[b][k].terminal /\ leg'[b][k].proof = "lookup" => order[b][k] \notin Placed
              /\ leg'[b][k].terminal /\ ~leg'[b][k].order /\ (Laggy => leg'[b][k].proof # "quick")
                   => order[b][k] \notin Placed
  <2>1. /\ leg[b][k].proof = "lookup" => leg[b][k].terminal
        /\ leg[b][k].terminal /\ leg[b][k].proof = "lookup" => order[b][k] \notin Placed
        /\ leg[b][k].terminal /\ ~leg[b][k].order /\ (Laggy => leg[b][k].proof # "quick")
             => order[b][k] \notin Placed
    BY DEF LookedUpIsClosed, DrainClosesTruly, ClosedUnlessQuick
  <2>2. CASE <<b, k>> = <<a, l>>
    <3>1. b = a /\ k = l /\ leg[a][l].proof # "lookup"
      BY <1>2, <2>1, <2>2
    <3>2. CASE leg'[a][l] = leg[a][l]
      BY <2>1, <3>1, <3>2
    <3>3. CASE leg'[a][l] # leg[a][l]
      <4>1. /\ leg'[a][l].terminal = closed
            /\ leg'[a][l].order = (leg[a][l].order \/ found)
            /\ leg'[a][l].proof = IF closed /\ v # "final" /\ ~leg[a][l].order
                                  THEN "lookup" ELSE leg[a][l].proof
        BY <1>8, <3>3
      <4> QED BY <1>7, <3>1, <4>1
    <3> QED BY <3>2, <3>3
  <2> QED BY <1>8, <2>1, <2>2
<1>16. LookedUpIsClosed' /\ DrainClosesTruly' /\ ClosedUnlessQuick'
  BY <1>1, <1>15 DEF LookedUpIsClosed, DrainClosesTruly, ClosedUnlessQuick, worldVars
<1> QED BY <1>9, <1>10, <1>11, <1>12, <1>13, <1>14, <1>16

LEMMA CategoryTyped == \A has : Category(has) \in {"accepted", "single", "failed"}
BY DEF Category

\* Settling an open pair, with or without a count, keeps the counters covered.
LEMMA SettledCounts ==
  ASSUME StoreTyped, Counts, NEW a \in Attempts, pair[a].outcome = "open",
         NEW cat \in {"accepted", "single", "failed"}, NEW late \in BOOLEAN,
         pair' \in [Attempts -> PairRow], pair'[a].outcome = cat,
         \A b \in Attempts \ {a} : pair'[b].outcome = pair[b].outcome,
         task' \in {task, Counted(cat, late)} \/ (cat = "failed" /\ task' = StoppedFatally)
  PROVE  Counts' /\ task' \in TaskRow /\ task'.scheduled = task.scheduled
<1>1. /\ Cardinality(Of(pair', {"accepted"})) =
              Cardinality(Of(pair, {"accepted"})) + (IF cat = "accepted" THEN 1 ELSE 0)
      /\ Cardinality(Of(pair', Misses)) =
              Cardinality(Of(pair, Misses)) + (IF cat = "accepted" THEN 0 ELSE 1)
  BY PairSettled DEF StoreTyped
<1>2. /\ Cardinality(Of(pair, {"accepted"})) \in Nat
      /\ Cardinality(Of(pair, Misses)) \in Nat
  BY OfFinite
<1>3. /\ task.accepted \in Nat /\ task.failed \in Nat /\ task.consecutive \in Nat
      /\ task.accepted <= Cardinality(Of(pair, {"accepted"}))
      /\ task.failed <= Cardinality(Of(pair, Misses))
      /\ task.consecutive <= Cardinality(Of(pair, Misses))
  BY DEF StoreTyped, TaskRow, Counts
<1>4. Counts' = (/\ task'.accepted <= Cardinality(Of(pair', {"accepted"}))
                 /\ task'.failed <= Cardinality(Of(pair', Misses))
                 /\ task'.consecutive <= Cardinality(Of(pair', Misses)))
  BY DEF Counts, Of
<1>5. CASE task' = Counted(cat, late)
  BY <1>1, <1>2, <1>3, <1>4, <1>5, CountedRow DEF StoreTyped
<1>6. CASE StatusWritten(task')
  <2>1. /\ task' \in TaskRow /\ task'.scheduled = task.scheduled
        /\ task'.accepted = task.accepted /\ task'.failed = task.failed
        /\ task'.consecutive = task.consecutive
    BY <1>6, RowsTyped DEF StoreTyped
  <2> QED BY <1>1, <1>2, <1>3, <1>4, <2>1
<1> QED BY <1>5, <1>6 DEF StatusWritten

LEMMA SettleStep ==
  ASSUME Inv, NEW a \in Attempts, Settle(a)
  PROVE  Inv'
<1> USE DEF Inv, Typed
<1> DEFINE cat == Category([l \in Legs |-> leg[a][l].order])
<1>1. /\ wpc = "settle" /\ a \in 1..task.scheduled /\ pair[a].outcome = "open"
      /\ task' \in {task, Counted(cat, FALSE)}
      /\ UNCHANGED <<leg, gateVars, wpc, localVars, retries, req, worldVars, crashes>>
  BY DEF Settle, Gaps
<1>2. cat \in {"accepted", "single", "failed"}
  BY CategoryTyped
<1> HIDE DEF cat
<1>3. \/ /\ pair' = [pair EXCEPT ![a] = [outcome |-> cat, stamped |-> TRUE]]
         /\ unstamped' = unstamped \ {a}
      \/ pair' = [pair EXCEPT ![a].outcome = cat] /\ unstamped' = unstamped
  BY DEF Settle, cat
<1>4. /\ pair' \in [Attempts -> PairRow] /\ pair'[a].outcome = cat
      /\ \A b \in Attempts \ {a} : pair'[b] = pair[b]
  <2>1. [outcome |-> cat, stamped |-> TRUE] \in PairRow
    BY <1>2 DEF PairRow, Outcomes
  <2>2. [pair[a] EXCEPT !.outcome = cat] \in PairRow /\ [pair[a] EXCEPT !.outcome = cat].outcome = cat
    BY <1>2 DEF PairRow, Outcomes, StoreTyped
  <2>3. PICK new \in PairRow : new.outcome = cat /\ pair' = [pair EXCEPT ![a] = new]
    BY <1>3, <2>1, <2>2
  <2> QED BY <2>3 DEF StoreTyped
<1>5. /\ unstamped' \in SUBSET Attempts
      /\ \A b \in Attempts \ {a} : b \in unstamped' <=> b \in unstamped
  BY <1>3 DEF MemoryTyped
<1>6. Counts' /\ task' \in TaskRow /\ task'.scheduled = task.scheduled
  BY <1>1, <1>2, <1>4, SettledCounts
<1>7. Typed'
  BY <1>1, <1>4, <1>5, <1>6, Frames DEF StoreTyped, MemoryTyped
<1>8. Newest'
  <2>1. cat # "open" /\ cat # "absent" /\ a <= task.scheduled /\ task.scheduled \in Nat
    BY <1>1, <1>2 DEF StoreTyped, TaskRow
  <2> QED BY <1>1, <1>4, <1>6, <2>1, Constants DEF Newest, BothTerminal, worldVars
<1>9. Nonterminal' = Nonterminal
  BY <1>1, <1>6 DEF Nonterminal
<1>10. Drained' /\ Looking' /\ Sending' /\ Unsent' /\ Answered'
  BY <1>1 DEF Drained, Looking, Sending, Unsent, Answered
<1>11. Stamped'
  BY <1>1, <1>2, <1>4, <1>5 DEF Stamped, Uncounted, worldVars, WorldTyped
<1>12. LookedUpIsClosed' /\ DrainClosesTruly' /\ ClosedUnlessQuick'
  BY <1>1 DEF LookedUpIsClosed, DrainClosesTruly, ClosedUnlessQuick, worldVars
<1> QED BY <1>6, <1>7, <1>8, <1>10, <1>11, <1>12

-----------------------------------------------------------------------------
(* Sending a pair.                                                         *)

LEMMA PrepareStep == ASSUME Inv, Prepare PROVE Inv'
<1> USE DEF Inv, Typed
<1>1. wpc = "prepare" /\ Nonterminal = {}
      /\ UNCHANGED <<leg, gateVars, req, worldVars, crashes>>
  BY DEF Prepare, Drained
<1>2. CASE ~Permits
  <2>1. Goto("top") /\ UNCHANGED <<task, pair>>
    BY <1>2 DEF Prepare
  <2>2. WorkerTyped' /\ MemoryTyped' /\ wpc' = "top" /\ unstamped' = unstamped
    BY <2>1, GotoTyped DEF Places
  <2> QED BY <1>1, <2>1, <2>2, StatusStep DEF StatusWritten
<1>3. CASE Permits
  <2> DEFINE new == task.scheduled + 1
  <2>1. /\ task' = [task EXCEPT !.scheduled = new]
        /\ pair' = [pair EXCEPT ![new].outcome = "open"]
        /\ wpc' = "posting" /\ UNCHANGED <<localVars, memVars>>
    BY <1>3 DEF Prepare, Cur
  <2>2. new \in Attempts /\ new \in 0..Target /\ task.scheduled \in Nat
    BY <1>3, Constants DEF Permits, StoreTyped, TaskRow
  <2>3. /\ task' \in TaskRow /\ task'.scheduled = new
        /\ task'.accepted = task.accepted /\ task'.failed = task.failed
        /\ task'.consecutive = task.consecutive
    BY <2>1, <2>2 DEF StoreTyped, TaskRow
  <2>4. /\ pair[new].outcome = "absent" /\ new \notin throttled
        /\ \A l \in Legs : leg[new][l] = FreshLeg /\ order[new][l] = "unsent"
    BY <2>2 DEF Newest
  <2>5. /\ pair' \in [Attempts -> PairRow] /\ pair'[new].outcome = "open"
        /\ \A a \in Attempts \ {new} : pair'[a] = pair[a]
    <3>1. /\ [pair[new] EXCEPT !.outcome = "open"] \in PairRow
          /\ [pair[new] EXCEPT !.outcome = "open"].outcome = "open"
      BY <2>2 DEF StoreTyped, PairRow, Outcomes
    <3> QED BY <2>1, <2>2, <3>1 DEF StoreTyped
  <2> HIDE DEF new
  <2>6. Typed'
    <3>1. StoreTyped'
      BY <1>1, <2>3, <2>5 DEF StoreTyped
    <3>2. WorkerTyped'
      BY <2>1 DEF WorkerTyped, localVars, Places
    <3> QED BY <1>1, <2>1, <3>1, <3>2, Frames
  <2>7. Counts'
    <3>1. Of(pair, {"accepted"})' = Of(pair, {"accepted"}) /\ Of(pair, Misses)' = Of(pair, Misses)
      BY <2>4, <2>5 DEF Of, Misses
    <3> QED BY <2>3, <3>1 DEF Counts
  <2>8. Newest'
    <3> SUFFICES ASSUME NEW a \in Attempts
                 PROVE  /\ a < new => pair'[a].outcome # "open" /\ BothTerminal(a)'
                        /\ a <= new => pair'[a].outcome # "absent"
                        /\ a > new =>
                             /\ pair'[a].outcome = "absent" /\ a \notin throttled'
                             /\ \A l \in Legs : leg'[a][l] = FreshLeg /\ order'[a][l] = "unsent"
      BY <2>3 DEF Newest
    <3>1. CASE a < new
      <4>1. a \in 1..task.scheduled /\ a # new
        BY <2>2, <3>1, Constants DEF new
      <4>2. pair'[a].outcome # "open" /\ pair'[a].outcome # "absent"
        BY <1>3, <2>2, <2>5, <4>1 DEF Permits, Newest
      <4>3. BothTerminal(a)'
        <5>1. \A l \in Legs : <<a, l>> \notin Nonterminal
          BY <1>1
        <5>2. \A l \in Legs : leg[a][l].terminal
          BY <4>1, <5>1 DEF Nonterminal
        <5> QED BY <1>1, <5>2 DEF BothTerminal
      <4>4. ~(a > new)
        BY <2>2, <3>1, Constants
      <4> QED BY <4>2, <4>3, <4>4
    <3>2. CASE a = new
      BY <2>2, <2>5, <3>2, Constants
    <3>3. CASE a > new
      <4>1. a > task.scheduled /\ a # new
        BY <2>2, <3>3, Constants DEF new
      <4> QED BY <1>1, <2>2, <2>5, <3>3, <4>1, Constants DEF Newest, worldVars
    <3> QED BY <2>2, <3>1, <3>2, <3>3, Constants
  <2>9. Drained' /\ Looking' /\ Answered'
    BY <2>1 DEF Drained, Looking, Answered
  <2>10. Sending' /\ Unsent'
    BY <1>1, <2>2, <2>3, <2>4, <2>5 DEF Sending, Unsent, Cur, worldVars
  <2>11. Stamped'
    BY <1>1, <2>1, <2>4, <2>5 DEF Stamped, Uncounted, worldVars, memVars, WorldTyped
  <2>12. LookedUpIsClosed' /\ DrainClosesTruly' /\ ClosedUnlessQuick'
    BY <1>1 DEF LookedUpIsClosed, DrainClosesTruly, ClosedUnlessQuick, worldVars
  <2> QED BY <2>6, <2>7, <2>8, <2>9, <2>10, <2>11, <2>12
<1> QED BY <1>2, <1>3

LEMMA PostStep == ASSUME Inv, Post PROVE Inv'
<1> USE DEF Inv, Typed
<1>1. /\ wpc = "posting" /\ wpc' = "answered"
      /\ UNCHANGED <<storeVars, gateVars, snap, todo, signal, live, memVars, req, forgotten,
                     crashes>>
  BY DEF Post
<1>2. PICK f \in [Legs -> PostAnswers] :
        /\ order' = [order EXCEPT ![Cur] = [l \in Legs |-> f[l].order]]
        /\ ans' = [l \in Legs |-> [state |-> f[l].state, why |-> f[l].why,
                                   limited |-> f[l].limited]]
        /\ throttled' = IF \E l \in Legs : f[l].limited
                        THEN throttled \cup {Cur} ELSE throttled
  BY DEF Post
<1>3. /\ Cur \in Attempts /\ pair[Cur].outcome = "open" /\ Cur \notin throttled
      /\ \A l \in Legs : leg[Cur][l] = FreshLeg
      /\ Cur' = Cur /\ UNCHANGED <<task, pair, leg, unstamped>>
  BY <1>1 DEF Sending, Unsent, Cur, storeVars, memVars
<1>4. ASSUME NEW l \in Legs
      PROVE  /\ f[l].order \in {"none", "resting", "final"}
             /\ f[l].state \in {"filled", "open", "rejected", "unknown"}
             /\ f[l].why \in {"none", "plain", "fatal", "funds", "absent"}
             /\ f[l].limited \in BOOLEAN
             /\ f[l].state = "rejected" /\ (Laggy => f[l].why # "absent") => f[l].order = "none"
  <2>1. f[l] \in PostAnswers
    OBVIOUS
  <2> QED BY <2>1 DEF PostAnswers
<1>5. /\ order' \in [Attempts -> [Legs -> Exchange]]
      /\ \A l \in Legs : order'[Cur][l] = f[l].order
      /\ \A a \in Attempts \ {Cur} : order'[a] = order[a]
  <2>1. [l \in Legs |-> f[l].order] \in [Legs -> Exchange]
    BY <1>4 DEF Exchange
  <2> QED BY <1>2, <1>3, <2>1 DEF WorldTyped
<1>6. /\ throttled' \in SUBSET Attempts
      /\ \A a \in throttled' : a # Cur => a \in throttled
      /\ Cur \in throttled' => \E l \in Legs : f[l].limited
  BY <1>2, <1>3 DEF WorldTyped
<1>7. /\ ans' \in [Legs -> Answer]
      /\ \A l \in Legs :
           /\ ans'[l].state = f[l].state /\ ans'[l].why = f[l].why
           /\ ans'[l].limited = f[l].limited
  BY <1>2, <1>4 DEF Answer
<1>8. Typed'
  <2>1. WorkerTyped'
    BY <1>1, <1>7 DEF WorkerTyped, Places
  <2>2. WorldTyped'
    BY <1>1, <1>5, <1>6 DEF WorldTyped
  <2> QED BY <1>1, <2>1, <2>2, Frames
<1>9. Counts'
  BY <1>3 DEF Counts, Of
<1>10. Newest'
  <2>1. Cur = task.scheduled /\ task.scheduled \in Nat
    BY DEF Cur, StoreTyped, TaskRow
  <2>2. \A a \in Attempts : a > task.scheduled => a # Cur
    BY <2>1, Constants
  <2> QED BY <1>3, <1>5, <1>6, <2>2 DEF Newest, BothTerminal
<1>11. Drained' /\ Looking' /\ Sending' /\ Unsent'
  BY <1>1, <1>3 DEF Drained, Looking, Sending, Unsent
<1>12. Answered'
  BY <1>3, <1>4, <1>5, <1>6, <1>7 DEF Answered, Limited, Placed
<1>13. Stamped'
  BY <1>1, <1>3, <1>6 DEF Stamped, Uncounted
<1>14. LookedUpIsClosed' /\ DrainClosesTruly' /\ ClosedUnlessQuick'
  <2>1. ~FreshLeg.terminal
    BY DEF FreshLeg
  <2>2. LookedUpIsClosed'
    BY <1>3 DEF LookedUpIsClosed
  <2>3. ASSUME NEW a \in Attempts, NEW l \in Legs, leg[a][l].terminal
        PROVE  order'[a] = order[a]
    <3>1. a # Cur
      BY <1>3, <2>1, <2>3
    <3> QED BY <1>5, <3>1
  <2>4. DrainClosesTruly'
    BY <1>3, <2>3 DEF DrainClosesTruly, LookedUpIsClosed
  <2>5. ClosedUnlessQuick'
    BY <1>3, <2>3 DEF ClosedUnlessQuick
  <2> QED BY <2>2, <2>4, <2>5
<1> QED BY <1>8, <1>9, <1>10, <1>11, <1>12, <1>13, <1>14

\* After the pair was sent its rows change in one way or another; what is left of
\* it must be true to the exchange and, if it was throttled, stamped or still open,
\* or forgotten.
LEMMA SentStep ==
  ASSUME Inv, wpc \in {"posting", "answered"}, wpc' \in {"top", "pause", "none"}, ResetLocals,
         UNCHANGED <<gateVars, req, order, throttled, crashes>>,
         retries' \in [Attempts -> [Legs -> 0..Cap]],
         forgotten' \in SUBSET Attempts, forgotten \subseteq forgotten',
         Counts', task' \in TaskRow, task'.scheduled = task.scheduled,
         pair' \in [Attempts -> PairRow], pair'[Cur].outcome # "absent",
         \A a \in Attempts \ {Cur} : pair'[a] = pair[a],
         unstamped' \in SUBSET Attempts,
         \A a \in Attempts \ {Cur} : a \in unstamped' <=> a \in unstamped,
         Cur \in throttled \ forgotten' /\ pair'[Cur].outcome = "open" =>
           pair'[Cur].stamped \/ Cur \in unstamped',
         NEW row \in [Legs -> LegRow], leg' = [leg EXCEPT ![Cur] = row],
         \A l \in Legs :
           /\ row[l].proof # "lookup"
           /\ row[l].terminal /\ ~row[l].order /\ (Laggy => row[l].proof # "quick")
                => order[Cur][l] \notin Placed
  PROVE  Inv'
<1> USE DEF Inv, Typed
<1>1. Cur \in Attempts /\ Cur = task.scheduled /\ task.scheduled \in Nat
  BY DEF Sending, Cur, StoreTyped, TaskRow
<1>2. /\ leg' \in [Attempts -> [Legs -> LegRow]] /\ leg'[Cur] = row
      /\ \A a \in Attempts \ {Cur} : leg'[a] = leg[a]
  BY <1>1 DEF StoreTyped
<1>3. Typed'
  <2>1. StoreTyped' /\ MemoryTyped'
    BY <1>2 DEF StoreTyped, MemoryTyped
  <2>2. WorkerTyped'
    BY ResetTyped DEF Places
  <2>3. WorldTyped'
    BY DEF WorldTyped
  <2> QED BY <2>1, <2>2, <2>3, Frames
<1>4. Newest'
  <2>1. \A a \in Attempts : a # task.scheduled => a # Cur
    BY <1>1
  <2>2. ASSUME NEW a \in Attempts, a < task.scheduled
        PROVE  pair'[a].outcome # "open" /\ BothTerminal(a)'
    <3>1. a # Cur
      BY <1>1, <2>2, Constants
    <3>2. pair'[a] = pair[a] /\ leg'[a] = leg[a]
      BY <1>2, <3>1
    <3>3. pair[a].outcome # "open" /\ BothTerminal(a)
      BY <2>2 DEF Newest
    <3> QED BY <3>2, <3>3 DEF BothTerminal
  <2>3. ASSUME NEW a \in Attempts, a <= task.scheduled PROVE pair'[a].outcome # "absent"
    BY <1>1, <2>1, <2>3, Constants DEF Newest
  <2>4. ASSUME NEW a \in Attempts, a > task.scheduled
        PROVE  /\ pair'[a].outcome = "absent" /\ a \notin throttled
               /\ \A l \in Legs : leg'[a][l] = FreshLeg /\ order[a][l] = "unsent"
    <3>1. a # Cur
      BY <1>1, <2>4, Constants
    <3> QED BY <1>2, <2>4, <3>1 DEF Newest
  <2>5. order' = order /\ throttled' = throttled /\ task'.scheduled = task.scheduled
    OBVIOUS
  <2> QED BY <2>2, <2>3, <2>4, <2>5 DEF Newest
<1>5. Drained' /\ Looking' /\ Sending' /\ Unsent' /\ Answered'
  BY DEF Drained, Looking, Sending, Unsent, Answered
<1>6. Stamped'
  <2> SUFFICES ASSUME NEW a \in throttled \ forgotten', crashes = 0, pair'[a].outcome = "open"
               PROVE  pair'[a].stamped \/ a \in unstamped'
    BY DEF Stamped, Uncounted
  <2>1. CASE a = Cur
    BY <2>1
  <2>2. CASE a # Cur
    BY <2>2 DEF Stamped, Uncounted, WorldTyped
  <2> QED BY <2>1, <2>2
<1>7. ASSUME NEW b \in Attempts, NEW k \in Legs
      PROVE  /\ leg'[b][k].proof = "lookup" => leg'[b][k].terminal
             /\ leg'[b][k].terminal /\ leg'[b][k].proof = "lookup" => order[b][k] \notin Placed
             /\ leg'[b][k].terminal /\ ~leg'[b][k].order /\ (Laggy => leg'[b][k].proof # "quick")
                   => order[b][k] \notin Placed
  <2>1. CASE b = Cur
    BY <1>2, <2>1
  <2>2. CASE b # Cur
    BY <1>2, <2>2 DEF LookedUpIsClosed, DrainClosesTruly, ClosedUnlessQuick
  <2> QED BY <2>1, <2>2
<1>8. LookedUpIsClosed' /\ DrainClosesTruly' /\ ClosedUnlessQuick'
  BY <1>7 DEF LookedUpIsClosed, DrainClosesTruly, ClosedUnlessQuick, worldVars
<1> QED BY <1>3, <1>4, <1>5, <1>6, <1>8

LEMMA SimulateStep == ASSUME Inv, Simulate PROVE Inv'
<1> USE DEF Inv, Typed
<1>1. wpc = "posting" /\ Goto("top") /\ UNCHANGED <<gateVars, req, worldVars, crashes>>
  BY DEF Simulate
<1>2. /\ WorkerTyped' /\ MemoryTyped' /\ wpc' = "top" /\ unstamped' = unstamped
      /\ ResetLocals /\ retries' = retries
  BY <1>1, GotoTyped DEF Goto, memVars, Places
<1>3. CASE UNCHANGED storeVars
  <2>1. UNCHANGED <<task, pair, leg>>
    BY <1>3 DEF storeVars
  <2>2. Typed'
    BY <1>1, <1>2, <1>3, Frames
  <2>3. Counts' /\ task' \in TaskRow /\ pair' \in [Attempts -> PairRow]
    BY <2>1 DEF Counts, Of, StoreTyped
  <2>4. leg[Cur] \in [Legs -> LegRow] /\ leg' = [leg EXCEPT ![Cur] = leg[Cur]]
        /\ Cur \in Attempts /\ pair[Cur].outcome = "open"
        /\ \A l \in Legs : leg[Cur][l] = FreshLeg
    BY <1>1, <2>1 DEF Sending, StoreTyped
  <2>5. Cur \notin throttled
    BY <1>1 DEF Unsent
  <2>6. FreshLeg.proof # "lookup" /\ ~FreshLeg.terminal
    BY DEF FreshLeg
  <2> QED BY <1>1, <1>2, <2>1, <2>3, <2>4, <2>5, <2>6, SentStep
          DEF MemoryTyped, WorldTyped, worldVars
<1>4. CASE ~(UNCHANGED storeVars)
  <2> DEFINE row == [l \in Legs |-> [leg[Cur][l] EXCEPT !.terminal = TRUE]]
             late == TaskType = "close"
  <2>1. /\ leg' = [leg EXCEPT ![Cur] = row]
        /\ pair' = [pair EXCEPT ![Cur].outcome = "failed"]
        /\ task' = Counted("failed", late)
    <3>1. \/ UNCHANGED storeVars
          \/ /\ leg' = [leg EXCEPT ![Cur] = [l \in Legs |-> [@[l] EXCEPT !.terminal = TRUE]]]
             /\ pair' = [pair EXCEPT ![Cur].outcome = "failed"]
             /\ task' = Counted("failed", TaskType = "close")
      BY DEF Simulate
    <3>2. Cur \in Attempts
      BY <1>1 DEF Sending
    <3> QED BY <1>4, <3>1, <3>2 DEF StoreTyped
  <2>2. /\ Cur \in Attempts /\ pair[Cur].outcome = "open"
        /\ \A l \in Legs : leg[Cur][l] = FreshLeg /\ order[Cur][l] = "unsent"
    BY <1>1 DEF Sending, Unsent
  <2>3. /\ row \in [Legs -> LegRow]
        /\ \A l \in Legs : row[l].proof # "lookup" /\ order[Cur][l] \notin Placed
    <3>1. leg[Cur] \in [Legs -> LegRow] /\ FreshLeg.proof = "none"
      BY <2>2 DEF StoreTyped, FreshLeg
    <3>2. \A l \in Legs : row[l] \in LegRow /\ row[l].proof = "none"
      BY <2>2, <3>1 DEF LegRow
    <3>3. row \in [Legs -> LegRow]
      BY <3>2
    <3> HIDE DEF row
    <3> QED BY <2>2, <3>2, <3>3 DEF Placed
  <2>4. /\ pair' \in [Attempts -> PairRow] /\ pair'[Cur].outcome = "failed"
        /\ \A a \in Attempts \ {Cur} : pair'[a] = pair[a]
    <3>1. /\ [pair[Cur] EXCEPT !.outcome = "failed"] \in PairRow
          /\ [pair[Cur] EXCEPT !.outcome = "failed"].outcome = "failed"
      BY <2>2 DEF StoreTyped, PairRow, Outcomes
    <3> QED BY <2>1, <2>2, <3>1 DEF StoreTyped
  <2>5. late \in BOOLEAN
    OBVIOUS
  <2> HIDE DEF row, late
  <2>6. Counts' /\ task' \in TaskRow /\ task'.scheduled = task.scheduled
    BY <2>1, <2>2, <2>4, <2>5, SettledCounts
  <2> QED BY <1>1, <1>2, <2>1, <2>3, <2>4, <2>6, SentStep DEF MemoryTyped, WorldTyped, worldVars
<1> QED BY <1>3, <1>4

\* An unclear or throttled pair stays open.
LEMMA StaysOpen ==
  ASSUME Inv, wpc = "answered", wpc' \in {"top", "pause", "none"}, ResetLocals,
         UNCHANGED <<gateVars, req, order, throttled, crashes>>,
         retries' \in [Attempts -> [Legs -> 0..Cap]],
         forgotten' \in SUBSET Attempts, forgotten \subseteq forgotten',
         task' = task, leg' = leg \/ leg' = Marked,
         pair' \in [Attempts -> PairRow], pair'[Cur].outcome = "open",
         \A a \in Attempts \ {Cur} : pair'[a] = pair[a],
         unstamped' \in SUBSET Attempts,
         \A a \in Attempts \ {Cur} : a \in unstamped' <=> a \in unstamped,
         Cur \in throttled \ forgotten' => pair'[Cur].stamped \/ Cur \in unstamped'
  PROVE  Inv'
<1> USE DEF Inv, Typed
<1> DEFINE marked == [l \in Legs |-> [leg[Cur][l] EXCEPT !.order = @ \/ HasOrder(l)]]
<1>1. /\ Cur \in Attempts /\ pair[Cur].outcome = "open"
      /\ \A l \in Legs : leg[Cur][l] = FreshLeg
      /\ leg[Cur] \in [Legs -> LegRow] /\ task \in TaskRow
  BY DEF Sending, StoreTyped
<1>2. Counts' /\ task' \in TaskRow
  <2>1. \A a \in Attempts : pair'[a].outcome = pair[a].outcome
    BY <1>1
  <2>2. Of(pair', {"accepted"}) = Of(pair, {"accepted"}) /\ Of(pair', Misses) = Of(pair, Misses)
    BY <2>1 DEF Of
  <2>3. Of(pair, {"accepted"})' = Of(pair', {"accepted"}) /\ Of(pair, Misses)' = Of(pair', Misses)
    BY DEF Of, Misses
  <2> QED BY <1>1, <2>2, <2>3 DEF Counts
<1>3. PICK row \in [Legs -> LegRow] :
        /\ leg' = [leg EXCEPT ![Cur] = row]
        /\ \A l \in Legs : row[l].proof # "lookup" /\ ~row[l].terminal
  <2>1. FreshLeg.proof # "lookup" /\ ~FreshLeg.terminal
    BY DEF FreshLeg
  <2>2. CASE leg' = leg
    BY <1>1, <2>1, <2>2 DEF StoreTyped
  <2>3. CASE leg' = Marked
    <3>1. leg' = [leg EXCEPT ![Cur] = marked]
      BY <2>3 DEF Marked
    <3>2. \A l \in Legs : marked[l] \in LegRow /\ marked[l].proof # "lookup" /\ ~marked[l].terminal
      <4> SUFFICES ASSUME NEW l \in Legs
                   PROVE  /\ marked[l] \in LegRow
                          /\ marked[l].proof # "lookup" /\ ~marked[l].terminal
        OBVIOUS
      <4>1. marked[l] = [FreshLeg EXCEPT !.order = @ \/ HasOrder(l)]
        BY <1>1
      <4>2. HasOrder(l) \in BOOLEAN
        BY DEF HasOrder
      <4> HIDE DEF marked
      <4> QED BY <4>1, <4>2 DEF FreshLeg, LegRow, Proofs
    <3> QED BY <3>1, <3>2
  <2> QED BY <2>2, <2>3
<1> QED BY <1>2, <1>3, SentStep

LEMMA ResolveStep == ASSUME Inv, Resolve PROVE Inv'
<1> USE DEF Inv, Typed
<1>1. /\ wpc = "answered" /\ wpc' \in {"pause", "top"} /\ ResetLocals
      /\ UNCHANGED <<gateVars, retries, req, worldVars, crashes>>
  BY DEF Resolve
<1>2. /\ Cur \in Attempts /\ pair[Cur].outcome = "open"
      /\ \A l \in Legs : leg[Cur][l] = FreshLeg
      /\ leg[Cur] \in [Legs -> LegRow]
  BY <1>1 DEF Sending, StoreTyped
<1>3. /\ Cur \in throttled => Limited
      /\ \A l \in Legs :
           /\ ans[l].state # "none"
           /\ ans[l].state = "rejected" /\ (Laggy => ans[l].why # "absent") =>
                order[Cur][l] \notin Placed
  BY <1>1 DEF Answered
<1>4. pair \in [Attempts -> PairRow] /\ task \in TaskRow /\ unstamped \in SUBSET Attempts
  BY DEF StoreTyped, MemoryTyped
<1>5. /\ retries' \in [Attempts -> [Legs -> 0..Cap]] /\ UNCHANGED <<order, throttled>>
      /\ forgotten' \in SUBSET Attempts /\ forgotten \subseteq forgotten'
  BY <1>1 DEF MemoryTyped, WorldTyped, worldVars
<1>6. CASE Limited
  <2>1. /\ task' = task /\ (leg' = leg \/ leg' = Marked)
        /\ \/ pair' = [pair EXCEPT ![Cur].stamped = TRUE] /\ unstamped' = unstamped
           \/ unstamped' = unstamped \cup {Cur} /\ pair' = pair
    BY <1>6 DEF Resolve
  <2>2. /\ [pair[Cur] EXCEPT !.stamped = TRUE] \in PairRow
        /\ [pair[Cur] EXCEPT !.stamped = TRUE].outcome = "open"
        /\ [pair[Cur] EXCEPT !.stamped = TRUE].stamped
    BY <1>2, <1>4 DEF PairRow
  <2>3. /\ pair' \in [Attempts -> PairRow] /\ pair'[Cur].outcome = "open"
        /\ \A a \in Attempts \ {Cur} : pair'[a] = pair[a]
        /\ unstamped' \in SUBSET Attempts
        /\ \A a \in Attempts \ {Cur} : a \in unstamped' <=> a \in unstamped
        /\ pair'[Cur].stamped \/ Cur \in unstamped'
    BY <1>2, <1>4, <2>1, <2>2
  <2> QED BY <1>1, <1>5, <2>1, <2>3, StaysOpen
<1>7. CASE ~Limited /\ (Querying \/ UNCHANGED storeVars)
  <2>1. task' = task /\ (leg' = leg \/ leg' = Marked) /\ pair' = pair /\ unstamped' = unstamped
    BY <1>7 DEF Resolve, storeVars
  <2>2. Cur \notin throttled
    BY <1>3, <1>7
  <2> QED BY <1>1, <1>2, <1>4, <1>5, <2>1, <2>2, StaysOpen
<1>8. CASE ~Limited /\ ~Querying /\ ~(UNCHANGED storeVars)
  <2> DEFINE cat == IF Fatal THEN "failed" ELSE Category([l \in Legs |-> HasOrder(l)])
             late == Funds \/ TaskType = "close"
             row == [l \in Legs |->
                      [terminal |-> Funds \/ ans[l].state # "open",
                       order |-> HasOrder(l),
                       proof |-> IF HasOrder(l) THEN "none"
                                 ELSE IF ans[l].why = "absent" THEN "quick" ELSE "post"]]
  <2>1. /\ leg' = [leg EXCEPT ![Cur] = row]
        /\ pair' = [pair EXCEPT ![Cur].outcome = cat]
        /\ task' = IF Fatal THEN StoppedFatally
                   ELSE Counted(Category([l \in Legs |-> HasOrder(l)]), late)
        /\ unstamped' = unstamped
    BY <1>8 DEF Resolve, Resolved
  <2>2. cat \in {"accepted", "single", "failed"} /\ late \in BOOLEAN
    BY CategoryTyped DEF Funds
  <2>3. task' = Counted(cat, late) \/ (cat = "failed" /\ task' = StoppedFatally)
    BY <2>1
  <2>4. ASSUME NEW l \in Legs
        PROVE  /\ row[l] \in LegRow /\ row[l].proof # "lookup"
               /\ row[l].terminal /\ ~row[l].order /\ (Laggy => row[l].proof # "quick")
                => order[Cur][l] \notin Placed
    <3>1. ans[l].state \in {"filled", "open", "rejected"}
      BY <1>3, <1>8 DEF Querying, WorkerTyped, Answer
    <3>2. ~HasOrder(l) => ans[l].state = "rejected"
      BY <3>1 DEF HasOrder
    <3>3. HasOrder(l) \in BOOLEAN /\ Funds \in BOOLEAN
      BY DEF HasOrder, Funds
    <3>4. /\ row[l] \in LegRow /\ row[l].proof # "lookup" /\ row[l].order = HasOrder(l)
          /\ ~HasOrder(l) /\ ans[l].why = "absent" => row[l].proof = "quick"
      BY <3>3 DEF LegRow, Proofs
    <3> QED BY <1>3, <3>2, <3>4
  <2>5. row \in [Legs -> LegRow]
    BY <2>4
  <2> HIDE DEF cat, late, row
  <2>6. /\ pair' \in [Attempts -> PairRow] /\ pair'[Cur].outcome = cat
        /\ \A a \in Attempts \ {Cur} : pair'[a] = pair[a]
    <3>1. /\ [pair[Cur] EXCEPT !.outcome = cat] \in PairRow
          /\ [pair[Cur] EXCEPT !.outcome = cat].outcome = cat
      BY <1>2, <1>4, <2>2 DEF PairRow, Outcomes
    <3> QED BY <1>2, <1>4, <2>1, <3>1
  <2>7. Counts' /\ task' \in TaskRow /\ task'.scheduled = task.scheduled
    BY <1>2, <2>2, <2>3, <2>6, SettledCounts
  <2>8. cat # "open" /\ cat # "absent"
    BY <2>2
  <2> QED BY <1>1, <1>4, <1>5, <2>1, <2>4, <2>5, <2>6, <2>7, <2>8, SentStep
<1> QED BY <1>6, <1>7, <1>8

LEMMA LimitLostStep == ASSUME Inv, LimitLost PROVE Inv'
<1> USE DEF Inv, Typed
<1>1. /\ wpc = "answered" /\ wpc' = "none" /\ ResetLocals /\ unstamped' = unstamped
      /\ forgotten' = forgotten \cup {Cur} /\ (leg' = leg \/ leg' = Marked)
      /\ UNCHANGED <<task, pair, gateVars, req, order, throttled, crashes>>
      /\ WorkerExit
  BY DEF LimitLost, WorkerExit
<1>2. /\ Cur \in Attempts /\ pair[Cur].outcome = "open" /\ pair \in [Attempts -> PairRow]
      /\ Cur' = Cur /\ unstamped \in SUBSET Attempts
  BY <1>1 DEF Sending, StoreTyped, MemoryTyped, Cur
<1>3. retries' \in [Attempts -> [Legs -> 0..Cap]]
  BY <1>1, ExitTyped DEF MemoryTyped
<1>4. /\ forgotten' \in SUBSET Attempts /\ forgotten \subseteq forgotten'
      /\ Cur \notin throttled \ forgotten'
  <2>1. forgotten \in SUBSET Attempts
    BY DEF WorldTyped
  <2> QED BY <1>1, <1>2, <2>1
<1>5. /\ pair' \in [Attempts -> PairRow] /\ pair'[Cur].outcome = "open"
      /\ \A a \in Attempts \ {Cur} : pair'[a] = pair[a]
      /\ unstamped' \in SUBSET Attempts
      /\ \A a \in Attempts \ {Cur} : a \in unstamped' <=> a \in unstamped
  BY <1>1, <1>2
<1> QED BY <1>1, <1>3, <1>4, <1>5, StaysOpen

-----------------------------------------------------------------------------
(* The process and the exchange.                                           *)

\* The process can only die while a pair is being sent that nobody has looked at.
LEMMA CrashStep == ASSUME Inv, Crash PROVE Inv'
<1> USE DEF Inv, Typed
<1>1. /\ crashes < MaxCrashes /\ crashes' = crashes + 1 /\ crashes \in Nat
      /\ wpc' \in {"top", "none"} /\ ResetLocals
      /\ retries' = [a \in Attempts |-> [l \in Legs |-> 0]] /\ unstamped' = {}
      /\ req' = [r \in Requests |-> NoReq]
      /\ UNCHANGED <<storeVars, gateVars, throttled, forgotten>>
  BY DEF Crash, WorldTyped
<1>2. \/ order' = order
      \/ wpc = "posting" /\ \E f \in [Legs -> {"unsent", "resting"}] :
           order' = [order EXCEPT ![Cur] = f]
  BY DEF Crash
<1>3. /\ order' \in [Attempts -> [Legs -> Exchange]]
      /\ \A a \in Attempts : order'[a] # order[a] =>
           a = Cur /\ \A l \in Legs : leg[a][l] = FreshLeg
  <2>1. CASE order' = order
    BY <2>1 DEF WorldTyped
  <2>2. ASSUME wpc = "posting", NEW f \in [Legs -> {"unsent", "resting"}],
               order' = [order EXCEPT ![Cur] = f]
        PROVE  /\ order' \in [Attempts -> [Legs -> Exchange]]
               /\ \A a \in Attempts : order'[a] # order[a] =>
                    a = Cur /\ \A l \in Legs : leg[a][l] = FreshLeg
    <3>1. f \in [Legs -> Exchange]
      BY DEF Exchange
    <3> QED BY <2>2, <3>1 DEF Sending, WorldTyped
  <2> QED BY <1>2, <2>1, <2>2
<1>4. UNCHANGED <<task, pair, leg>>
  BY <1>1 DEF storeVars
<1>5. Typed'
  <2>1. WorkerTyped'
    BY <1>1, ResetTyped DEF Places
  <2>2. MemoryTyped'
    BY <1>1, Constants DEF MemoryTyped
  <2>3. WorldTyped'
    BY <1>1, <1>3, Constants DEF WorldTyped
  <2>4. req' \in [Requests -> ReqRow]
    BY <1>1 DEF NoReq, ReqRow
  <2> QED BY <1>1, <2>1, <2>2, <2>3, <2>4, Frames
<1>6. Counts'
  BY <1>4 DEF Counts, Of
<1>7. Newest'
  <2>1. \A a \in Attempts : a > task.scheduled => order'[a] = order[a]
    <3>1. task.scheduled \in Nat
      BY DEF StoreTyped, TaskRow
    <3> QED BY <1>3, <3>1, Constants DEF Cur
  <2> QED BY <1>1, <1>4, <2>1 DEF Newest, BothTerminal
<1>8. Drained' /\ Looking' /\ Sending' /\ Unsent' /\ Answered'
  BY <1>1 DEF Drained, Looking, Sending, Unsent, Answered
<1>9. Stamped'
  BY <1>1 DEF Stamped
<1>10. LookedUpIsClosed' /\ DrainClosesTruly' /\ ClosedUnlessQuick'
  <2>1. ~FreshLeg.terminal
    BY DEF FreshLeg
  <2> QED BY <1>3, <1>4, <2>1 DEF LookedUpIsClosed, DrainClosesTruly, ClosedUnlessQuick
<1> QED BY <1>5, <1>6, <1>7, <1>8, <1>9, <1>10

LEMMA FinishStep ==
  ASSUME Inv, NEW a \in Attempts, NEW l \in Legs, Finish(a, l)
  PROVE  Inv'
<1> USE DEF Inv, Typed
<1>1. /\ order[a][l] = "resting" /\ order' = [order EXCEPT ![a][l] = "final"]
      /\ UNCHANGED <<storeVars, gateVars, wpc, localVars, memVars, req, throttled, forgotten,
                     crashes>>
  BY DEF Finish
<1>2. UNCHANGED <<task, pair, leg, todo, ans, unstamped>>
  BY <1>1 DEF storeVars, localVars, memVars
<1>3. /\ order' \in [Attempts -> [Legs -> Exchange]]
      /\ \A b \in Attempts, k \in Legs :
           order'[b][k] = order[b][k] \/ (order[b][k] = "resting" /\ order'[b][k] = "final")
  BY <1>1 DEF WorldTyped, Exchange
<1>4. Typed'
  <2>1. WorldTyped'
    BY <1>1, <1>3 DEF WorldTyped
  <2> QED BY <1>1, <2>1, Frames
<1>5. \A b \in Attempts, k \in Legs :
        /\ order[b][k] = "unsent" => order'[b][k] = "unsent"
        /\ order[b][k] \notin Placed => order'[b][k] \notin Placed
  BY <1>3 DEF Placed
<1>6. Counts' /\ Drained' /\ Looking' /\ Sending' /\ Stamped'
  BY <1>1, <1>2 DEF Counts, Of, Drained, Looking, Sending, Stamped, Nonterminal, Uncounted, Cur
<1>7. Newest'
  BY <1>1, <1>2, <1>5 DEF Newest, BothTerminal
<1>8. Unsent' /\ Answered'
  BY <1>1, <1>2, <1>5 DEF Unsent, Answered, Sending, Cur, Limited
<1>9. LookedUpIsClosed' /\ DrainClosesTruly' /\ ClosedUnlessQuick'
  BY <1>2, <1>5 DEF LookedUpIsClosed, DrainClosesTruly, ClosedUnlessQuick
<1> QED BY <1>4, <1>6, <1>7, <1>8, <1>9

-----------------------------------------------------------------------------
(* The invariant.                                                          *)

LEMMA InitInv == Init => Inv
<1> SUFFICES ASSUME Init PROVE Inv
  OBVIOUS
<1> USE DEF Init
<1>1. Typed
  <2>1. StoreTyped
    BY Constants DEF StoreTyped, TaskRow, PairRow, LegRow, Statuses, Outcomes, Proofs, FreshLeg
  <2>2. WorkerTyped
    <3>1. NoAnswer \in Answer
      BY DEF NoAnswer, Answer
    <3>2. NoSnap \in [status : Statuses \cup {"none"}, scheduled : 0..Target]
      BY Constants DEF NoSnap
    <3> QED BY <3>1, <3>2 DEF WorkerTyped, Places
  <2>3. MemoryTyped /\ WorldTyped /\ GatesTyped
    BY Constants DEF MemoryTyped, WorldTyped, GatesTyped, Exchange
  <2>4. req \in [Requests -> ReqRow]
    BY DEF NoReq, ReqRow
  <2> QED BY <2>1, <2>2, <2>3, <2>4 DEF Typed
<1>2. Counts
  BY OfFinite DEF Counts
<1>3. Newest /\ Drained /\ Looking /\ Sending /\ Unsent /\ Answered /\ Stamped
  BY Constants DEF Newest, Drained, Looking, Sending, Unsent, Answered, Stamped
<1>4. LookedUpIsClosed /\ DrainClosesTruly /\ ClosedUnlessQuick
  BY DEF LookedUpIsClosed, DrainClosesTruly, ClosedUnlessQuick, FreshLeg
<1> QED BY <1>1, <1>2, <1>3, <1>4 DEF Inv

LEMMA StepInv == Inv /\ [Next]_vars => Inv'
<1> SUFFICES ASSUME Inv, [Next]_vars PROVE Inv'
  OBVIOUS
<1>1. CASE Worker
  <2>1. ASSUME NEW a \in Attempts, NEW l \in Legs, Query(a, l) PROVE Inv'
    BY <2>1, QueryStep
  <2>2. ASSUME NEW a \in Attempts, Settle(a) PROVE Inv'
    BY <2>2, SettleStep
  <2> QED BY <1>1, <2>1, <2>2, TopStep, SettleFailsStep, DecideStep, VerifyStep, DispatchStep,
             PrepareStep, WorkerRaisesStep, PostStep, ResolveStep, LimitLostStep,
             SimulateStep, PauseStep
          DEF Worker
<1>2. ASSUME NEW r \in Requests,
             \/ \E op \in Ops \ {"gate", "closeGate"} : Receive(r, op)
             \/ WriteStatus(r) \/ EnsureWorker(r)
      PROVE  Inv'
  BY <1>2, ReceiveStep, WriteStatusStep, EnsureWorkerStep
<1>3. CASE ToggleGate \/ Crash
  BY <1>3, ToggleGateStep, CrashStep
<1>4. ASSUME NEW a \in Attempts, NEW l \in Legs, Finish(a, l) PROVE Inv'
  BY <1>4, FinishStep
<1>5. CASE UNCHANGED vars
  <2>1. UNCHANGED <<task, pair, leg, gate, closeGate, wpc, todo, ans, unstamped>>
        /\ UNCHANGED <<req, localVars, memVars, worldVars, crashes>>
    BY <1>5 DEF vars, storeVars, gateVars, localVars, memVars
  <2> QED BY <2>1, RequestStep DEF StatusWritten, Inv, Typed, GatesTyped
<1> QED BY <1>1, <1>2, <1>3, <1>4, <1>5 DEF Next

THEOREM WorkerInvariant == Spec => []Inv
BY InitInv, StepInv, PTL DEF Spec

-----------------------------------------------------------------------------
(* What the invariant says of the task.                                    *)

LEMMA TypesHold == Inv => TypeOK
<1> SUFFICES ASSUME Inv PROVE TypeOK
  OBVIOUS
<1>1. /\ task.status \in Statuses /\ task.scheduled \in 0..Target /\ task.awaiting \in BOOLEAN
      /\ task.accepted \in Nat /\ task.failed \in Nat /\ task.consecutive \in Nat
      /\ task.accepted <= Target /\ task.failed <= Target /\ task.consecutive <= Target
  BY OfFinite, Constants DEF Inv, Typed, StoreTyped, TaskRow, Counts
<1>2. task \in [status : Statuses, scheduled : 0..Target, accepted : 0..Target,
                failed : 0..Target, consecutive : 0..Target, awaiting : BOOLEAN]
  <2>1. task = [status |-> task.status, scheduled |-> task.scheduled,
                accepted |-> task.accepted, failed |-> task.failed,
                consecutive |-> task.consecutive, awaiting |-> task.awaiting]
    BY DEF Inv, Typed, StoreTyped, TaskRow
  <2> QED BY <1>1, <2>1, Constants
<1> QED BY <1>2 DEF Inv, Typed, StoreTyped, GatesTyped, WorkerTyped, MemoryTyped, WorldTyped,
                    TypeOK, PairRow, LegRow, Answer, Places, ReqRow

\* Whatever pauses, deletes, crashes and failing writes do, only the newest pair of a
\* task is in flight (prepare_attempt, _worker_round).
THEOREM OnePairOnly == Spec => []OnePairAtATime
<1>1. Inv => OnePairAtATime
  BY TypesHold DEF Inv, Newest, OnePairAtATime
<1> QED BY <1>1, WorkerInvariant, PTL

\* A leg closed without an order id has no order, if lookups do not miss orders
\* (_reconcile_own_legs, _dispatch_live).
THEOREM ClosedLegsAreTrue == ~Laggy => (Spec => []ClosedLegHasNoOrder)
<1> SUFFICES ASSUME ~Laggy PROVE Spec => []ClosedLegHasNoOrder
  OBVIOUS
<1>1. Inv => ClosedLegHasNoOrder
  BY DEF Inv, ClosedUnlessQuick, ClosedLegHasNoOrder
<1> QED BY <1>1, WorkerInvariant, PTL

\* If lookups do miss orders, the lookup right after an unclear POST is the only step
\* that can close a leg whose order exists.
THEOREM OnlyTheQuickLookupErrs == Spec => []ClosedUnlessQuick
<1>1. Inv => ClosedUnlessQuick
  BY DEF Inv
<1> QED BY <1>1, WorkerInvariant, PTL

\* The drain closes no leg whose order exists, even if lookups miss orders before
\* the retry budget ends (_reconcile_own_legs, LEG_QUERY_MAX_RETRIES).
THEOREM DrainIsTrue == Spec => []DrainClosesTruly
<1>1. Inv => DrainClosesTruly
  BY DEF Inv
<1> QED BY <1>1, WorkerInvariant, PTL

\* The counters never exceed the pairs with that outcome (finalize_attempt,
\* resolve_attempt).
THEOREM PairsCountOnce == Spec => []NeverCountedTwice
<1>1. Inv => NeverCountedTwice
  <2>1. /\ Of(pair, {"accepted"}) = { a \in Attempts : pair[a].outcome = "accepted" }
        /\ Of(pair, Misses) = { a \in Attempts : pair[a].outcome \in {"single", "failed"} }
    BY DEF Of, Misses
  <2> QED BY <2>1 DEF Inv, Counts, NeverCountedTwice
<1> QED BY <1>1, WorkerInvariant, PTL

\* Which steps settle a pair, and which of them count it.
LEMMA Settlements ==
  ASSUME Inv, [Next]_vars, NEW a \in Attempts,
         pair[a].outcome = "open", pair'[a].outcome # "open"
  PROVE  \/ Settle(a)
         \/ a = Cur /\ Resolve /\ ~Limited
         \/ a = Cur /\ Simulate
<1> USE DEF Inv
<1>1. ASSUME UNCHANGED pair PROVE FALSE
  BY <1>1
<1>2. ASSUME NEW b \in Attempts, Settle(b) PROVE b = a
  <2>1. \/ pair' = [pair EXCEPT ![b] = [outcome |-> Category([l \in Legs |-> leg[b][l].order]),
                                        stamped |-> TRUE]]
        \/ pair' = [pair EXCEPT ![b].outcome = Category([l \in Legs |-> leg[b][l].order])]
    BY <1>2 DEF Settle
  <2> QED BY <2>1 DEF Typed, StoreTyped
<1>3. CASE Resolve
  <2>1. Cur \in Attempts /\ pair \in [Attempts -> PairRow]
    BY <1>3 DEF Resolve, Sending, Typed, StoreTyped
  <2>2. ~Limited
    <3> SUFFICES ASSUME Limited PROVE FALSE
      OBVIOUS
    <3>1. pair' = [pair EXCEPT ![Cur].stamped = TRUE] \/ pair' = pair
      BY <1>3 DEF Resolve
    <3>2. [pair[Cur] EXCEPT !.stamped = TRUE].outcome = pair[Cur].outcome
      BY <2>1 DEF PairRow
    <3> QED BY <2>1, <3>1, <3>2
  <2>3. \E o : pair' = [pair EXCEPT ![Cur].outcome = o] \/ pair' = pair
    BY <1>3, <2>2 DEF Resolve, storeVars
  <2> QED BY <1>3, <2>1, <2>2, <2>3
<1>4. CASE Simulate
  <2>1. Cur \in Attempts /\ pair \in [Attempts -> PairRow]
    BY <1>4 DEF Simulate, Sending, Typed, StoreTyped
  <2>2. pair' = [pair EXCEPT ![Cur].outcome = "failed"] \/ pair' = pair
    BY <1>4 DEF Simulate, storeVars
  <2> QED BY <1>4, <2>1, <2>2
<1>5. CASE Prepare
  <2>1. pair' = [pair EXCEPT ![Cur + 1].outcome = "open"] \/ pair' = pair
    BY <1>5 DEF Prepare
  <2> QED BY <2>1 DEF Typed, StoreTyped, PairRow
<1>6. \/ Prepare \/ Resolve \/ Simulate \/ \E b \in Attempts : Settle(b)
      \/ UNCHANGED pair
  BY DEF Next, Worker, Top, Query, SettleFails, Decide, Verify, Dispatch, WorkerRaises, Post,
         LimitLost, Pause, Receive, WriteStatus, EnsureWorker, ToggleGate, Crash, Finish, vars, storeVars
<1> QED BY <1>1, <1>2, <1>3, <1>4, <1>5, <1>6

\* A throttled pair never moves the counters before the first crash, unless the event
\* of its 429 could not be written (_dispatch_live, settle_attempt_no_counters).
THEOREM ThrottledPairsUncounted == Spec => RateLimitNotCounted
<1>1. ASSUME Inv, [Next]_vars, NEW a \in throttled \ forgotten, crashes = 0,
             pair[a].outcome = "open", pair'[a].outcome # "open"
      PROVE  task' = task
  <2>1. a \in Attempts
    BY <1>1 DEF Inv, Typed, WorldTyped
  <2>2. CASE Settle(a)
    BY <1>1, <2>2 DEF Settle, Inv, Stamped
  <2>3. CASE a = Cur /\ Resolve
    BY <1>1, <2>1, <2>3, Settlements DEF Inv, Answered, Resolve, Settle, Simulate
  <2>4. CASE a = Cur /\ Simulate
    BY <1>1, <2>4 DEF Simulate, Inv, Unsent
  <2> QED BY <1>1, <2>1, <2>2, <2>3, <2>4, Settlements
<1>2. Inv /\ [Next]_vars =>
        [\A a \in throttled \ forgotten :
           crashes = 0 /\ pair[a].outcome = "open" /\ pair'[a].outcome # "open" =>
             /\ task'.failed = task.failed
             /\ task'.accepted = task.accepted
             /\ task'.consecutive = task.consecutive]_vars
  BY <1>1
<1> QED BY <1>2, WorkerInvariant, PTL DEF Spec, RateLimitNotCounted

\* Which steps count a pair.
LEMMA Recounts ==
  ASSUME StoreTyped, [Next]_vars
  PROVE  \/ task'.consecutive = task.consecutive
         \/ \E cat \in {"accepted", "single", "failed"}, late \in BOOLEAN :
              task' = Counted(cat, late)
<1>1. \/ StatusWritten(task')
      \/ task' = [task EXCEPT !.scheduled = @ + 1]
      \/ \E cat \in {"accepted", "single", "failed"}, late \in BOOLEAN : task' = Counted(cat, late)
  <2>1. CASE \E b \in Attempts : Settle(b)
    BY <2>1, CategoryTyped DEF Settle, StatusWritten
  <2>2. CASE Resolve
    <3>1. (Funds \/ TaskType = "close") \in BOOLEAN
      BY DEF Funds
    <3> QED BY <2>2, <3>1, CategoryTyped DEF Resolve, StatusWritten, storeVars
  <2>3. CASE Simulate
    <3>1. (TaskType = "close") \in BOOLEAN
      OBVIOUS
    <3> QED BY <2>3, <3>1 DEF Simulate, StatusWritten, storeVars
  <2>4. CASE Prepare
    BY <2>4 DEF Prepare, StatusWritten
  <2>5. CASE Verify \/ Dispatch \/ Pause \/ \E r \in Requests : WriteStatus(r)
    BY <2>5 DEF Verify, Dispatch, Pause, WriteStatus, StatusWritten
  <2>6. CASE UNCHANGED task
    BY <2>6 DEF StatusWritten
  <2>7. \/ \E b \in Attempts : Settle(b)
        \/ Resolve \/ Simulate \/ Prepare \/ Verify \/ Dispatch \/ Pause
        \/ \E r \in Requests : WriteStatus(r)
        \/ UNCHANGED task
    BY DEF Next, Worker, Top, Query, SettleFails, Decide, WorkerRaises, Post, LimitLost, Receive,
           EnsureWorker, ToggleGate, Crash, Finish, vars, storeVars
  <2> QED BY <2>1, <2>2, <2>3, <2>4, <2>5, <2>6, <2>7
<1>2. task' = [task EXCEPT !.scheduled = @ + 1] => task'.consecutive = task.consecutive
  BY DEF StoreTyped, TaskRow
<1> QED BY <1>1, <1>2, RowsTyped DEF StoreTyped

\* The failure that reaches the threshold leaves no running task, by whichever path
\* it was counted (resolve_status_after_attempt, _apply_task_counters).
THEOREM FailureBrake == Spec => BrakeHolds
<1>1. ASSUME StoreTyped, [Next]_vars,
             task'.consecutive > task.consecutive, task'.consecutive >= Threshold
      PROVE  task'.status # "running"
  <2>1. task.consecutive \in Nat
    BY <1>1 DEF StoreTyped, TaskRow
  <2>2. PICK cat \in {"accepted", "single", "failed"}, late \in BOOLEAN :
          task' = Counted(cat, late)
    BY <1>1, <2>1, Recounts
  <2>3. cat # "accepted"
    <3>1. cat = "accepted" => task'.consecutive = 0
      BY <1>1, <2>2, CountedRow DEF StoreTyped
    <3> QED BY <1>1, <2>1, <3>1
  <2> QED BY <1>1, <2>2, <2>3, CountedRow DEF StoreTyped
<1>2. Inv /\ [Next]_vars =>
        [task'.consecutive > task.consecutive /\ task'.consecutive >= Threshold =>
           task'.status # "running"]_vars
  BY <1>1 DEF Inv, Typed
<1> QED BY <1>2, WorkerInvariant, PTL DEF Spec, BrakeHolds
=============================================================================
