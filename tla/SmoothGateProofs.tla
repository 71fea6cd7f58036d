--------------------------- MODULE SmoothGateProofs ---------------------------
(***************************************************************************)
(* Proofs about SmoothGate, for any number of worker threads, pairs and     *)
(* events, any window and any books: a book's counter is its holders and    *)
(* the joiners that gave up waiting for it, no wake-up is lost, and a pair goes out on the gate that its *)
(* pass was for and, if the market let it through, on books that paid.      *)
(***************************************************************************)
EXTENDS SmoothGate, TLAPS, FiniteSetTheorems

InLoopPcs ==
  {"round", "open", "subscribe", "look", "decide", "wait", "send", "after"}
EmployedPcs == InLoopPcs \cup {"exit", "deregister"}
LookingPcs == {"look", "decide", "wait", "send"}
Places == EmployedPcs \cup {"hand over", "again", None}

Quote == [bid : Nat \ {0}, bidQty : Nat \ {0}, ask : Nat \ {0}, askQty : Nat \ {0}]
Book == {NoBook} \cup [live : {TRUE}, quote : Quote]
Pass == [reason : {"manual", "market", "timeout"}, books : [Keys -> Book], id : Nat]
GateRow == [open : BOOLEAN, force : BOOLEAN, left : 0..Window, id : Nat]
TaskRow == [status : {"paused", "running", "deleted", "done"}, sent : 0..Target, gate : GateRow]
WorkerRow == [pc : Places, gate : Nat, woken : BOOLEAN, pass : Pass \cup {None}]
EntryRow == [refs : Nat, up : BOOLEAN]
Holding == {"no", "creating", "joining", "held", "failed"}
Active == {"creating", "joining", "held"}
RequestRow ==
  [kind : {None, "pause", "delete", "start", "fill"} \cup Toggles, step : 0..2]

Typed ==
  /\ kind \in Kind
  /\ row \in TaskRow /\ row.gate.id <= opened /\ opened \in Nat
  /\ gates \in [start : BOOLEAN, close : BOOLEAN]
  /\ worker \in [Workers -> WorkerRow]
  /\ owner \in Workers \cup {None}
  /\ relaunch \in BOOLEAN /\ wake \in BOOLEAN /\ subs \in BOOLEAN
  /\ entry \in [Keys -> EntryRow]
  /\ hold \in [Holders -> [Keys -> Holding]]
  /\ kept \in [Keys -> Nat]
  /\ book \in [Keys -> Book]
  /\ telling \subseteq Keys
  /\ req \in RequestRow
  /\ events \in Nat

(* One thread works at a time: the registered one.                         *)
OneOwner == \A w \in Workers : owner = w <=> worker[w].pc \in EmployedPcs

(* A book's counter counts its users and the joiners that gave up, what is *)
(* held is up, nobody has a book yet while its creator is at work, and the *)
(* task holds books only while its thread gets them or until it leaves.    *)
Uses(s, k) == IF hold[s][k] \in Active THEN 1 ELSE 0
Counted ==
  \A k \in Keys :
    /\ entry[k].refs = kept[k] + Uses("task", k) + Uses("other", k)
    /\ \A s \in Holders : hold[s][k] = "held" => entry[k].up
    /\ \A s, t \in Holders :
         hold[s][k] = "creating" /\ s # t => hold[t][k] \notin {"creating", "held"}
HoldsNone == \A k \in Keys : hold["task"][k] = "no"
Subscriber ==
  /\ hold["task"]["perp"] # "no" => hold["task"]["spot"] = "held"
  /\ subs => \A k \in Keys : hold["task"][k] = "held"
  /\ subs => \E w \in Workers : worker[w].pc \in InLoopPcs \cup {"exit"}
  /\ subs \/ HoldsNone \/ \E w \in Workers : worker[w].pc = "subscribe"
  /\ \A w \in Workers : worker[w].pc \in LookingPcs => wake /\ subs

(* What MarketPairPays says of one pass.                                   *)
Pays(p, buys) ==
  LET bought == p.books[IF buys THEN "spot" ELSE "perp"]
      sold   == p.books[IF buys THEN "perp" ELSE "spot"]
  IN /\ bought.live /\ sold.live
     /\ 10000 * (sold.quote.bid - bought.quote.ask) > Threshold * bought.quote.ask
     /\ \A size \in {bought.quote.askQty, sold.quote.bidQty} : 5 * size >= 4 * Quantity
Passed ==
  /\ \A w \in Workers : worker[w].pc = "send" =>
       /\ worker[w].pass \in Pass
       /\ worker[w].pass.reason = "market" => Pays(worker[w].pass, BuysSpot)
       /\ row.gate.open => worker[w].pass.id = row.gate.id
  /\ sent.reason = "market" => Pays(sent, BuysSpot)

(* A request that has not announced itself yet.                            *)
Announcing == req.step = 1 \/ (req.step = 2 /\ req.kind \in {"start", "fill"})
Content(w) == Running /\ GatesOn /\ GateIsMine(w) /\ Reason \in {None, "timeout"}
NotLost ==
  \A w \in Workers :
    worker[w].pc = "wait" /\ ~worker[w].woken => Content(w) \/ Announcing \/ telling # {}

Inv == Typed /\ OneOwner /\ Counted /\ Subscriber /\ Passed /\ NotLost
-------------------------------------------------------------------------------
(* Initial states, types, and what stays.                                  *)

LEMMA Constants ==
  /\ None \notin Workers /\ Kinds \subseteq Kind
  /\ Target \in Nat \ {0} /\ Window \in Nat \ {0}
BY SmoothAssumption

LEMMA RowMoved ==
  ASSUME Typed, NEW w \in Workers, NEW new \in WorkerRow, worker' = [worker EXCEPT ![w] = new]
  PROVE  /\ worker' \in [Workers -> WorkerRow] /\ worker'[w] = new
         /\ \A v \in Workers \ {w} : worker'[v] = worker[v]
BY DEF Typed

LEMMA WentTo ==
  ASSUME Typed, NEW w \in Workers, NEW pc \in Places, Goto(w, pc)
  PROVE  \E new \in WorkerRow :
           /\ worker' = [worker EXCEPT ![w] = new]
           /\ new.pc = pc /\ new.gate = worker[w].gate
           /\ new.woken = worker[w].woken /\ new.pass = worker[w].pass
<1> DEFINE new == [worker[w] EXCEPT !.pc = pc]
<1>1. worker[w] \in WorkerRow
  BY DEF Typed
<1>2. /\ new \in WorkerRow /\ new.pc = pc /\ new.gate = worker[w].gate
      /\ new.woken = worker[w].woken /\ new.pass = worker[w].pass
  BY <1>1 DEF WorkerRow
<1>3. worker' = [worker EXCEPT ![w] = new]
  BY DEF Goto, Typed
<1> HIDE DEF new
<1> QED BY <1>2, <1>3

LEMMA Steps ==
  /\ InLoopPcs \subseteq Places /\ "exit" \in Places /\ "deregister" \in Places
  /\ "hand over" \in Places /\ "again" \in Places /\ None \in Places
  /\ {"round", "open", "subscribe", "look", "decide", "wait", "send", "after"} \subseteq InLoopPcs
BY DEF Places, EmployedPcs, InLoopPcs

(* The pair sent last.                                                     *)
LEMMA SentKept ==
  ASSUME Passed, UNCHANGED <<kind, sent>>
  PROVE  sent'.reason = "market" => Pays(sent', BuysSpot)
BY DEF Passed

LEMMA NoGateTyped == NoGate \in GateRow /\ ~NoGate.open /\ ~NoGate.force /\ NoGate.id = 0
<1>1. NoGate \in GateRow
  BY Constants DEF NoGate, GateRow
<1> QED BY <1>1 DEF NoGate

LEMMA IdleRow ==
  /\ Idle \in WorkerRow /\ Idle.pc = None
  /\ [Idle EXCEPT !.pc = "round"] \in WorkerRow
  /\ [Idle EXCEPT !.pc = "round"].pc = "round"
<1>1. Idle \in WorkerRow /\ Idle.pc = None
  BY DEF Idle, WorkerRow, Places
<1>2. "round" \in Places
  BY DEF Places, EmployedPcs, InLoopPcs
<1> QED BY <1>1, <1>2 DEF WorkerRow

(* A write of the status, and of a gate that is taken away.                *)
LEMMA StatusTyped ==
  ASSUME Typed, NEW st \in {"paused", "running", "deleted", "done"}, Status(st)
  PROVE  /\ row' \in TaskRow /\ row'.gate.id <= opened /\ row'.sent = row.sent
         /\ row'.gate = row.gate \/ row'.gate = NoGate
         /\ row'.status = st
<1>1. row \in TaskRow /\ row.gate \in GateRow /\ row.gate.id <= opened /\ opened \in Nat
  BY DEF Typed, TaskRow
<1> DEFINE gate == IF st = "running" THEN row.gate ELSE NoGate
<1>2. gate \in GateRow /\ gate.id <= opened /\ (gate = row.gate \/ gate = NoGate)
  BY <1>1, NoGateTyped
<1>3. row' = [row EXCEPT !.status = st, !.gate = gate]
  BY DEF Status
<1> HIDE DEF gate
<1> QED BY <1>1, <1>2, <1>3 DEF TaskRow

LEMMA ClearedTyped ==
  ASSUME Typed
  PROVE  /\ Cleared \in TaskRow /\ Cleared.gate.id <= opened /\ Cleared.sent = row.sent
         /\ Cleared.gate = row.gate \/ Cleared.gate = NoGate
         /\ Cleared.status = row.status
<1>1. row \in TaskRow /\ row.gate \in GateRow /\ row.gate.id <= opened /\ opened \in Nat
  BY DEF Typed, TaskRow
<1> DEFINE gate == IF Running THEN NoGate ELSE row.gate
<1>2. gate \in GateRow /\ gate.id <= opened /\ (gate = row.gate \/ gate = NoGate)
  BY <1>1, NoGateTyped
<1>3. Cleared = [row EXCEPT !.gate = gate]
  BY DEF Cleared
<1> HIDE DEF gate
<1> QED BY <1>1, <1>2, <1>3 DEF TaskRow

LEMMA InitInv == Init => Inv
<1> SUFFICES ASSUME Init PROVE Inv
  OBVIOUS
<1>1. row \in TaskRow /\ row.gate = NoGate /\ row.sent = 0
  BY NoGateTyped, Constants DEF Init, TaskRow
<1>2. worker \in [Workers -> WorkerRow] /\ \A w \in Workers : worker[w].pc = None
  BY IdleRow DEF Init
<1>3. entry \in [Keys -> EntryRow] /\ \A k \in Keys : entry[k].refs = 0
  BY DEF Init, EntryRow
<1>4. hold \in [Holders -> [Keys -> Holding]] /\ \A s \in Holders, k \in Keys : hold[s][k] = "no"
  BY DEF Init, Holding
<1>5. Typed
  <2>1. book \in [Keys -> Book] /\ kind \in Kind /\ kept \in [Keys -> Nat]
    BY Constants DEF Init, Book
  <2>2. req \in RequestRow
    BY DEF Init, RequestRow, NoRequest
  <2>3. gates \in [start : BOOLEAN, close : BOOLEAN]
    BY DEF Init
  <2>4. /\ row.gate.id <= opened /\ opened \in Nat /\ events \in Nat /\ telling \subseteq Keys
        /\ owner \in Workers \cup {None}
    BY <1>1, NoGateTyped DEF Init
  <2>5. relaunch \in BOOLEAN /\ wake \in BOOLEAN /\ subs \in BOOLEAN
    BY DEF Init
  <2> QED BY <1>1, <1>2, <1>3, <1>4, <2>1, <2>2, <2>3, <2>4, <2>5 DEF Typed
<1>6. OneOwner
  BY <1>2, Constants DEF Init, OneOwner, EmployedPcs, InLoopPcs, None
<1>7. Counted
  BY <1>3, <1>4 DEF Init, Counted, Uses, Active, Holders
<1>8. Subscriber
  BY <1>2, <1>4 DEF Init, Subscriber, HoldsNone, LookingPcs, Holders, Keys, None
<1>9. Passed /\ NotLost
  BY <1>2 DEF Init, Passed, NotLost, None
<1> QED BY <1>5, <1>6, <1>7, <1>8, <1>9 DEF Inv

(* Only the registered thread is at work.                                  *)
LEMMA Alone ==
  ASSUME OneOwner, NEW w \in Workers, worker[w].pc \in EmployedPcs
  PROVE  owner = w /\ \A v \in Workers \ {w} : worker[v].pc \notin EmployedPcs
BY DEF OneOwner
-------------------------------------------------------------------------------
(* The thread in its loop.                                                 *)

LEMMA MoveStep ==
  ASSUME Inv, NEW w \in Workers, worker[w].pc \in InLoopPcs,
         worker[w].pc = "subscribe" => subs,
         NEW new \in WorkerRow, worker' = [worker EXCEPT ![w] = new],
         new.pc \in InLoopPcs \cup {"exit"},
         UNCHANGED <<kind, owner, subs, entry, hold, kept>>, Typed',
         wake => wake',
         new.pc \in LookingPcs => wake' /\ subs,
         new.pc = "wait" => Content(w)',
         new.pc = "send" => /\ new.pass \in Pass
                            /\ new.pass.reason = "market" => Pays(new.pass, BuysSpot)
                            /\ row'.gate.open => new.pass.id = row'.gate.id,
         sent'.reason = "market" => Pays(sent', BuysSpot)
  PROVE  Inv'
<1> USE DEF Inv
<1>1. worker'[w] = new /\ \A v \in Workers \ {w} : worker'[v] = worker[v]
  BY RowMoved
<1>2. owner = w /\ \A v \in Workers \ {w} : worker[v].pc \notin EmployedPcs
  BY Alone DEF EmployedPcs
<1>3. OneOwner'
  BY <1>1, <1>2 DEF OneOwner, EmployedPcs
<1>4. Counted'
  BY DEF Counted, Uses
<1>5. Subscriber'
  <2>1. \A v \in Workers : worker'[v].pc \in LookingPcs => wake' /\ subs'
    BY <1>1, <1>2 DEF EmployedPcs, InLoopPcs, LookingPcs
  <2>2. subs' => worker'[w].pc \in InLoopPcs \cup {"exit"}
    BY <1>1
  <2>3. subs \/ HoldsNone
    BY <1>2 DEF Subscriber, EmployedPcs, InLoopPcs
  <2>4. HoldsNone' <=> HoldsNone
    BY DEF HoldsNone
  <2> QED BY <2>1, <2>2, <2>3, <2>4 DEF Subscriber
<1>6. Passed'
  <2>1. \A v \in Workers \ {w} : worker'[v].pc # "send"
    BY <1>1, <1>2 DEF EmployedPcs, InLoopPcs
  <2>2. BuysSpot' = BuysSpot
    BY DEF BuysSpot
  <2> QED BY <1>1, <2>1, <2>2 DEF Passed
<1>7. NotLost'
  <2>1. \A v \in Workers \ {w} : worker'[v].pc # "wait"
    BY <1>1, <1>2 DEF EmployedPcs, InLoopPcs
  <2> QED BY <1>1, <2>1 DEF NotLost
<1> QED BY <1>3, <1>4, <1>5, <1>6, <1>7

LEMMA RoundStep ==
  ASSUME Inv, NEW w \in Workers, Round(w)
  PROVE  Inv'
<1> USE DEF Inv
<1>1. /\ worker[w].pc = "round"
      /\ UNCHANGED <<kind, gates, owner, relaunch, wake, bookVars, req, sent, opened, events>>
  BY DEF Round
<1>u. UNCHANGED <<kind, owner, subs, entry, hold, kept, sent>> /\ (wake => wake')
  BY <1>1 DEF bookVars, taskVars
<1>2. PICK pc \in {"exit", "open"} : Goto(w, pc)
  BY DEF Round
<1>3. PICK new \in WorkerRow : worker' = [worker EXCEPT ![w] = new] /\ new.pc = pc
  <2>1. pc \in Places
    BY Steps
  <2> QED BY <1>2, <2>1, WentTo, Zenon
<1>4. row' \in TaskRow /\ row'.gate.id <= opened
  <2>1. CASE UNCHANGED row
    BY <2>1 DEF Typed
  <2>2. CASE row' = Cleared
    BY <2>2, ClearedTyped
  <2>3. CASE Status("done")
    BY <2>3, StatusTyped
  <2> QED BY <2>1, <2>2, <2>3 DEF Round
<1>5. Typed'
  BY <1>1, <1>3, <1>4, RowMoved DEF Typed, bookVars
<1> QED BY <1>1, <1>2, <1>3, <1>5, MoveStep, SentKept, <1>u
         DEF InLoopPcs, LookingPcs

LEMMA OpenStep ==
  ASSUME Inv, NEW w \in Workers, Open(w)
  PROVE  Inv'
<1> USE DEF Inv
<1>1. /\ worker[w].pc = "open"
      /\ UNCHANGED <<kind, gates, owner, relaunch, wake, bookVars, req, sent, events>>
  BY DEF Open
<1>u. UNCHANGED <<kind, owner, subs, entry, hold, kept, sent>> /\ (wake => wake')
  BY <1>1 DEF bookVars, taskVars
<1>2. worker[w] \in WorkerRow /\ row \in TaskRow /\ row.gate \in GateRow /\ opened \in Nat
  BY DEF Typed, TaskRow
<1>3. CASE Running /\ row.sent < Target
  <2> DEFINE new == [worker[w] EXCEPT !.pc = "subscribe", !.gate = row.sent + 1]
             gate == [NoGate EXCEPT !.open = TRUE, !.left = Window, !.id = opened + 1]
  <2>1. new \in WorkerRow /\ new.pc = "subscribe" /\ worker' = [worker EXCEPT ![w] = new]
    <3>1. row.sent + 1 \in Nat /\ "subscribe" \in Places
      BY <1>2 DEF TaskRow, Places, EmployedPcs, InLoopPcs
    <3>2. new \in WorkerRow /\ new.pc = "subscribe"
      BY <1>2, <3>1 DEF WorkerRow
    <3> QED BY <1>3, <3>2 DEF Open, Typed
  <2>2. gate \in GateRow /\ gate.id = opened + 1
    <3>1. opened + 1 \in Nat /\ Window \in 0..Window
      BY <1>2, Constants
    <3>2. gate \in GateRow
      BY <3>1, NoGateTyped DEF GateRow
    <3> QED BY <3>1, <3>2, NoGateTyped DEF GateRow
  <2>3. \/ UNCHANGED <<row, opened>>
        \/ row' = [row EXCEPT !.gate = gate] /\ opened' = opened + 1
    BY <1>3 DEF Open
  <2> HIDE DEF new, gate
  <2>4. row' \in TaskRow /\ row'.gate.id <= opened' /\ opened' \in Nat
    <3>1. CASE UNCHANGED <<row, opened>>
      BY <3>1 DEF Typed
    <3>2. CASE row' = [row EXCEPT !.gate = gate] /\ opened' = opened + 1
      BY <1>2, <2>2, <3>2 DEF TaskRow
    <3> QED BY <2>3, <3>1, <3>2
  <2>5. Typed'
    BY <1>1, <2>1, <2>4, RowMoved DEF Typed, bookVars
  <2> QED BY <1>1, <2>1, <2>5, MoveStep, SentKept, <1>u
         DEF InLoopPcs, LookingPcs
<1>4. CASE ~(Running /\ row.sent < Target)
  <2>1. Goto(w, "after") /\ UNCHANGED <<row, opened>>
    BY <1>4 DEF Open
  <2>2. PICK new \in WorkerRow : worker' = [worker EXCEPT ![w] = new] /\ new.pc = "after"
    <3>1. "after" \in Places
      BY Steps
    <3> QED BY <2>1, <3>1, WentTo, Zenon
  <2>3. Typed'
    BY <1>1, <2>1, <2>2, RowMoved DEF Typed, bookVars
  <2> QED BY <1>1, <2>2, <2>3, MoveStep, SentKept, <1>u
         DEF InLoopPcs, LookingPcs
<1> QED BY <1>3, <1>4

LEMMA SubscribedStep ==
  ASSUME Inv, NEW w \in Workers, Subscribed(w)
  PROVE  Inv'
<1> USE DEF Inv
<1>1. /\ worker[w].pc = "subscribe" /\ subs /\ wake' /\ wake' \in BOOLEAN /\ Goto(w, "look")
      /\ UNCHANGED <<taskVars, owner, relaunch, bookVars, req, sent, opened, events>>
  BY DEF Subscribed
<1>u. UNCHANGED <<kind, owner, subs, entry, hold, kept, sent>> /\ (wake => wake')
  BY <1>1 DEF bookVars, taskVars
<1>2. PICK new \in WorkerRow : worker' = [worker EXCEPT ![w] = new] /\ new.pc = "look"
  <2>1. "look" \in Places
    BY Steps
  <2> QED BY <1>1, <2>1, WentTo, Zenon
<1>3. Typed'
  BY <1>1, <1>2, RowMoved DEF Typed, bookVars, taskVars
<1> QED BY <1>1, <1>2, <1>3, MoveStep, SentKept, <1>u
         DEF InLoopPcs, LookingPcs

LEMMA LookStep ==
  ASSUME Inv, NEW w \in Workers, Look(w)
  PROVE  Inv'
<1> USE DEF Inv
<1> DEFINE new == [worker[w] EXCEPT !.pc = "decide", !.woken = FALSE]
<1>1. /\ worker[w].pc = "look" /\ worker' = [worker EXCEPT ![w] = new]
      /\ UNCHANGED <<taskVars, owner, relaunch, wake, bookVars, req, sent, opened, events>>
  BY DEF Look, Typed
<1>u. UNCHANGED <<kind, owner, subs, entry, hold, kept, sent>> /\ (wake => wake')
  BY <1>1 DEF bookVars, taskVars
<1>2. new \in WorkerRow /\ new.pc = "decide"
  <2>1. worker[w] \in WorkerRow /\ "decide" \in Places
    BY DEF Typed, Places, EmployedPcs, InLoopPcs
  <2> QED BY <2>1 DEF WorkerRow
<1> HIDE DEF new
<1>3. wake /\ subs
  BY <1>1 DEF Subscriber, LookingPcs
<1>4. Typed'
  BY <1>1, <1>2, RowMoved DEF Typed, bookVars, taskVars
<1> QED BY <1>1, <1>2, <1>3, <1>4, MoveStep, SentKept, <1>u
         DEF InLoopPcs, LookingPcs

LEMMA WaitStep ==
  ASSUME Inv, NEW w \in Workers, Wait(w)
  PROVE  Inv'
<1> USE DEF Inv
<1>1. /\ worker[w].pc = "wait" /\ Goto(w, "look")
      /\ UNCHANGED <<taskVars, owner, relaunch, wake, bookVars, req, sent, opened, events>>
  BY DEF Wait
<1>u. UNCHANGED <<kind, owner, subs, entry, hold, kept, sent>> /\ (wake => wake')
  BY <1>1 DEF bookVars, taskVars
<1>2. PICK new \in WorkerRow : worker' = [worker EXCEPT ![w] = new] /\ new.pc = "look"
  <2>1. "look" \in Places
    BY Steps
  <2> QED BY <1>1, <2>1, WentTo, Zenon
<1>3. wake /\ subs
  BY <1>1 DEF Subscriber, LookingPcs
<1>4. Typed'
  BY <1>1, <1>2, RowMoved DEF Typed, bookVars, taskVars
<1> QED BY <1>1, <1>2, <1>3, <1>4, MoveStep, SentKept, <1>u
         DEF InLoopPcs, LookingPcs

LEMMA AfterStep ==
  ASSUME Inv, NEW w \in Workers, After(w)
  PROVE  Inv'
<1> USE DEF Inv
<1>1. /\ worker[w].pc = "after"
      /\ UNCHANGED <<taskVars, owner, relaunch, wake, bookVars, req, sent, opened, events>>
  BY DEF After
<1>u. UNCHANGED <<kind, owner, subs, entry, hold, kept, sent>> /\ (wake => wake')
  BY <1>1 DEF bookVars, taskVars
<1>2. PICK pc \in {"round", "exit"} : Goto(w, pc)
  BY DEF After
<1>3. PICK new \in WorkerRow : worker' = [worker EXCEPT ![w] = new] /\ new.pc = pc
  <2>1. pc \in Places
    BY Steps
  <2> QED BY <1>2, <2>1, WentTo, Zenon
<1>4. Typed'
  BY <1>1, <1>3, RowMoved DEF Typed, bookVars, taskVars
<1> QED BY <1>1, <1>2, <1>3, <1>4, MoveStep, SentKept, <1>u
         DEF InLoopPcs, LookingPcs

(* evaluate_smooth_gate: a spread above the threshold, rounded as the code  *)
(* rounds it, is a spread above the threshold.                              *)
LEMMA Rounding ==
  ASSUME NEW a \in Nat \ {0}, NEW d \in Int, NEW t \in Int, NEW q \in Int,
         2 * a * q <= 20000 * d + a, q >= t + 1
  PROVE  10000 * d > t * a
<1>1. a * q >= a * (t + 1)
  OBVIOUS
<1>2. a * (t + 1) = t * a + a
  OBVIOUS
<1>3. 2 * a * q = 2 * (a * q) /\ a * q \in Int /\ t * a \in Int
  OBVIOUS
<1> QED BY <1>1, <1>2, <1>3

LEMMA Quotient ==
  ASSUME NEW n \in Int, NEW m \in Nat \ {0}
  PROVE  n \div m \in Int /\ m * (n \div m) <= n /\ n < m * (n \div m) + m
OBVIOUS

LEMMA SpreadIsReal ==
  ASSUME NEW bid \in Nat \ {0}, NEW ask \in Nat \ {0}, SpreadPct(bid, ask) > Threshold
  PROVE  10000 * (bid - ask) > Threshold * ask
<1>1. Threshold \in Int
  BY SmoothAssumption
<1>2. 2 * ask \in Nat \ {0} /\ bid - ask \in Int
  OBVIOUS
<1>3. CASE bid > ask
  <2> DEFINE q == (20000 * (bid - ask) + ask) \div (2 * ask)
  <2>1. q > Threshold
    BY <1>3 DEF SpreadPct
  <2>2. 20000 * (bid - ask) + ask \in Int
    OBVIOUS
  <2>3. q \in Int /\ (2 * ask) * q <= 20000 * (bid - ask) + ask
    BY <1>2, <2>2, Quotient
  <2> HIDE DEF q
  <2>4. 2 * ask * q <= 20000 * (bid - ask) + ask /\ q >= Threshold + 1
    BY <1>1, <2>1, <2>3
  <2> QED BY <1>1, <1>2, <2>3, <2>4, Rounding
<1>4. CASE ~(bid > ask)
  <2> DEFINE q == (20000 * (ask - bid) + ask) \div (2 * ask)
  <2>1. -q > Threshold
    BY <1>4 DEF SpreadPct
  <2>2. 20000 * (ask - bid) + ask \in Int
    OBVIOUS
  <2>3. q \in Int /\ 20000 * (ask - bid) + ask < (2 * ask) * q + 2 * ask
    <3> DEFINE n == 20000 * (ask - bid) + ask
               m == 2 * ask
    <3>1. n \in Int /\ m \in Nat \ {0}
      BY <1>2, <2>2
    <3> HIDE DEF n, m
    <3>2. n \div m \in Int /\ n < m * (n \div m) + m
      BY <3>1, Quotient
    <3> QED BY <3>2 DEF n, m
  <2> HIDE DEF q
  <2>4. 2 * ask * (-q) <= 20000 * (bid - ask) + ask /\ -q >= Threshold + 1
    <3>1. 2 * ask * (-q) = -((2 * ask) * q)
      BY <2>3
    <3>2. (2 * ask) * q \in Int
      BY <2>3
    <3> QED BY <1>1, <2>1, <2>3, <3>1, <3>2
  <2> QED BY <1>1, <1>2, <2>3, <2>4, Rounding
<1> QED BY <1>3, <1>4

LEMMA LiveBook ==
  ASSUME NEW b \in Book, b.live
  PROVE  b.quote \in Quote
<1>1. ~NoBook.live
  BY DEF NoBook
<1>2. b \in [live : {TRUE}, quote : Quote]
  BY <1>1 DEF Book
<1> QED BY <1>2

(* A pass of the market pays, in all four kinds of task.                   *)
LEMMA MarketPays ==
  ASSUME Typed, Favourable, NEW p, p.books = book
  PROVE  Pays(p, BuysSpot)
<1>1. /\ book["spot"] \in Book /\ book["perp"] \in Book /\ kind \in Kind
      /\ book["spot"].live /\ book["perp"].live
  BY DEF Typed, Keys, Favourable, MarketPass
<1>2. book["spot"].quote \in Quote /\ book["perp"].quote \in Quote
  BY <1>1, LiveBook
<1> DEFINE spot == book["spot"].quote
           perp == book["perp"].quote
<1>3. /\ spot.bid \in Nat \ {0} /\ spot.ask \in Nat \ {0}
      /\ perp.bid \in Nat \ {0} /\ perp.ask \in Nat \ {0}
      /\ spot.bidQty \in Nat /\ spot.askQty \in Nat /\ perp.bidQty \in Nat /\ perp.askQty \in Nat
      /\ Quantity \in Nat
  BY <1>2, SmoothAssumption DEF Quote
<1>4. EvaluationDirection(kind) = "forward" <=> BuysSpot
  BY <1>1 DEF EvaluationDirection, BuysSpot, Kind
<1>5. CASE BuysSpot
  <2>1. /\ SpreadPct(perp.bid, spot.ask) > Threshold
        /\ 10 * spot.askQty >= 8 * Quantity /\ 10 * perp.bidQty >= 8 * Quantity
    BY <1>4, <1>5 DEF Favourable, MarketPass
  <2>2. 10000 * (perp.bid - spot.ask) > Threshold * spot.ask
    BY <1>3, <2>1, SpreadIsReal
  <2>3. 5 * spot.askQty >= 4 * Quantity /\ 5 * perp.bidQty >= 4 * Quantity
    BY <1>3, <2>1
  <2>4. p.books["spot"] = book["spot"] /\ p.books["perp"] = book["perp"]
    OBVIOUS
  <2> QED BY <1>1, <1>5, <2>2, <2>3, <2>4 DEF Pays
<1>6. CASE ~BuysSpot
  <2>1. /\ SpreadPct(spot.bid, perp.ask) > Threshold
        /\ 10 * spot.bidQty >= 8 * Quantity /\ 10 * perp.askQty >= 8 * Quantity
    BY <1>4, <1>6 DEF Favourable, MarketPass
  <2>2. 10000 * (spot.bid - perp.ask) > Threshold * perp.ask
    BY <1>3, <2>1, SpreadIsReal
  <2>3. 5 * spot.bidQty >= 4 * Quantity /\ 5 * perp.askQty >= 4 * Quantity
    BY <1>3, <2>1
  <2>4. p.books["spot"] = book["spot"] /\ p.books["perp"] = book["perp"]
    OBVIOUS
  <2> QED BY <1>1, <1>6, <2>2, <2>3, <2>4 DEF Pays
<1> QED BY <1>5, <1>6

(* What a sleeping thread decided on stays while nobody writes it.         *)
LEMMA ContentKept ==
  ASSUME UNCHANGED <<kind, row, gates, book>>, NEW w, worker'[w].gate = worker[w].gate
  PROVE  Content(w)' <=> Content(w)
<1>1. /\ Running' = Running /\ GatesOn' = GatesOn /\ Reason' = Reason
      /\ GateIsMine(w)' = GateIsMine(w)
  BY DEF Running, GatesOn, Closes, Reason, Favourable, GateIsMine
<1> QED BY <1>1 DEF Content

LEMMA DecideStep ==
  ASSUME Inv, NEW w \in Workers, Decide(w)
  PROVE  Inv'
<1> USE DEF Inv
<1>1. /\ worker[w].pc = "decide"
      /\ UNCHANGED <<kind, gates, owner, relaunch, wake, bookVars, req, sent, opened, events>>
  BY DEF Decide
<1>u. UNCHANGED <<kind, owner, subs, entry, hold, kept, sent, book>> /\ (wake => wake')
  BY <1>1 DEF bookVars, taskVars
<1>3. wake /\ subs
  BY <1>1 DEF Subscriber, LookingPcs
<1>4. row' \in TaskRow /\ row'.gate.id <= opened
  <2>1. CASE UNCHANGED row
    BY <2>1 DEF Typed
  <2>2. CASE row' = Cleared
    BY <2>2, ClearedTyped
  <2> QED BY <2>1, <2>2 DEF Decide
<1>5. CASE Goto(w, "after")
  <2>1. PICK new \in WorkerRow : worker' = [worker EXCEPT ![w] = new] /\ new.pc = "after"
    <3>1. "after" \in Places
      BY Steps
    <3> QED BY <1>5, <3>1, WentTo, Zenon
  <2>2. Typed'
    BY <1>1, <1>4, <2>1, RowMoved DEF Typed, bookVars
  <2> QED BY <1>1, <2>1, <2>2, MoveStep, SentKept, <1>u DEF InLoopPcs, LookingPcs
<1>6. CASE /\ Goto(w, "wait") /\ UNCHANGED row
           /\ Running /\ GatesOn /\ GateIsMine(w) /\ Reason = None
  <2>1. PICK new \in WorkerRow :
          /\ worker' = [worker EXCEPT ![w] = new]
          /\ new.pc = "wait" /\ new.gate = worker[w].gate
          /\ new.woken = worker[w].woken /\ new.pass = worker[w].pass
    <3>1. "wait" \in Places
      BY Steps
    <3>2. Goto(w, "wait") /\ Typed
      BY <1>6
    <3> QED BY <3>1, <3>2, WentTo, Zenon
  <2>2. Typed'
    BY <1>1, <1>4, <2>1, RowMoved DEF Typed, bookVars
  <2>3. worker'[w].gate = worker[w].gate
    BY <2>1, RowMoved
  <2>4. Content(w)'
    BY <1>1, <1>u, <1>6, <2>3, ContentKept DEF Content
  <2> QED BY <1>1, <1>3, <2>1, <2>2, <2>4, MoveStep, SentKept, <1>u DEF InLoopPcs, LookingPcs
<1>7. CASE /\ UNCHANGED row /\ Reason # None
           /\ worker' = [worker EXCEPT ![w].pc = "send", ![w].pass =
                [reason |-> Reason, books |-> book, id |-> row.gate.id]]
  <2> DEFINE pass == [reason |-> Reason, books |-> book, id |-> row.gate.id]
             new == [worker[w] EXCEPT !.pc = "send", !.pass = pass]
  <2>1. pass \in Pass /\ pass.reason = Reason /\ pass.books = book /\ pass.id = row.gate.id
    <3>1. Reason \in {"manual", "market", "timeout"}
      BY <1>7 DEF Reason
    <3>2. book \in [Keys -> Book] /\ row.gate.id \in Nat
      BY DEF Typed, TaskRow, GateRow
    <3> QED BY <3>1, <3>2 DEF Pass
  <2>2. worker' = [worker EXCEPT ![w] = new]
    BY <1>7 DEF Typed
  <2>3. pass.reason = "market" => Pays(pass, BuysSpot)
    <3>1. Reason = "market" => Favourable
      BY DEF Reason, None
    <3> HIDE DEF pass
    <3> QED BY <2>1, <3>1, MarketPays
  <2> HIDE DEF pass
  <2>4. new \in WorkerRow /\ new.pc = "send" /\ new.pass = pass
    <3>1. worker[w] \in WorkerRow /\ "send" \in Places /\ pass \in Pass \cup {None}
      BY <2>1, Steps DEF Typed
    <3> QED BY <3>1 DEF WorkerRow
  <2> HIDE DEF new
  <2>5. Typed'
    BY <1>1, <1>4, <2>2, <2>4, RowMoved DEF Typed, bookVars
  <2>6. row'.gate.open => new.pass.id = row'.gate.id
    BY <1>7, <2>1, <2>4
  <2> QED BY <1>1, <1>3, <2>1, <2>2, <2>3, <2>4, <2>5, <2>6, MoveStep, SentKept, <1>u
          DEF InLoopPcs, LookingPcs
<1> QED BY <1>5, <1>6, <1>7 DEF Decide

LEMMA SendStep ==
  ASSUME Inv, NEW w \in Workers, Send(w)
  PROVE  Inv' /\ (row'.sent > row.sent => row.gate.open /\ sent'.id = row.gate.id)
<1> USE DEF Inv
<1> DEFINE new == [Idle EXCEPT !.pc = "round"]
<1>1. /\ worker[w].pc = "send" /\ worker' = [worker EXCEPT ![w] = new]
      /\ UNCHANGED <<kind, gates, owner, relaunch, wake, bookVars, req, opened, events>>
  BY DEF Send
<1>u. UNCHANGED <<kind, owner, subs, entry, hold, kept>> /\ (wake => wake')
  BY <1>1 DEF bookVars, taskVars
<1>2. new \in WorkerRow /\ new.pc = "round"
  BY IdleRow
<1> HIDE DEF new
<1>3. row \in TaskRow /\ row.sent \in Nat /\ opened \in Nat /\ row.gate.id <= opened
  BY DEF Typed, TaskRow
<1>4. CASE UNCHANGED <<row, sent>>
  <2>1. Typed'
    BY <1>1, <1>2, <1>4, RowMoved DEF Typed, bookVars
  <2>2. Inv'
    BY <1>1, <1>2, <1>4, <2>1, MoveStep, SentKept, <1>u DEF InLoopPcs, LookingPcs
  <2> QED BY <1>3, <1>4, <2>2
<1>5. CASE /\ Prepared(w) /\ sent' = worker[w].pass
           /\ row' = [status |-> IF ~Closes /\ row.sent + 1 = Target THEN "done"
                                 ELSE row.status,
                      sent |-> row.sent + 1, gate |-> NoGate]
  <2>1. row.sent < Target /\ row.gate.open
    BY <1>5 DEF Prepared, GateIsMine
  <2>2. row' \in TaskRow /\ row'.gate = NoGate
    <3>1. row.sent + 1 \in 0..Target /\ row.status \in {"paused", "running", "deleted", "done"}
      BY <1>3, <2>1, Constants DEF TaskRow
    <3> DEFINE status == IF ~Closes /\ row.sent + 1 = Target THEN "done" ELSE row.status
    <3>2. status \in {"paused", "running", "deleted", "done"}
      BY <3>1
    <3>3. row' = [status |-> status, sent |-> row.sent + 1, gate |-> NoGate]
      BY <1>5
    <3> HIDE DEF status
    <3> QED BY <3>1, <3>2, <3>3, NoGateTyped DEF TaskRow
  <2>3. row'.gate.id <= opened
    BY <1>3, <2>2, NoGateTyped
  <2>4. Typed'
    BY <1>1, <1>2, <2>2, <2>3, RowMoved DEF Typed, bookVars
  <2>5. BuysSpot' = BuysSpot
    BY <1>u DEF BuysSpot
  <2>6. /\ sent'.reason = "market" => Pays(sent', BuysSpot)
        /\ sent'.id = row.gate.id
    BY <1>1, <1>5, <2>1 DEF Passed
  <2>7. Inv'
    BY <1>1, <1>2, <2>4, <2>6, MoveStep, <1>u DEF InLoopPcs, LookingPcs
  <2> QED BY <2>1, <2>6, <2>7
<1> QED BY <1>4, <1>5 DEF Send
-------------------------------------------------------------------------------
(* The books.                                                              *)

LEMMA UsesTyped ==
  ASSUME Typed, NEW k \in Keys
  PROVE  /\ entry[k] \in EntryRow /\ entry[k].refs \in Nat /\ entry[k].up \in BOOLEAN
         /\ \A s \in Holders : Uses(s, k) \in {0, 1} /\ hold[s][k] \in Holding
         /\ kept[k] \in Nat
<1>1. entry[k] \in EntryRow /\ kept[k] \in Nat /\ \A s \in Holders : hold[s][k] \in Holding
  BY DEF Typed
<1> QED BY <1>1 DEF EntryRow, Uses

LEMMA BothHolders == Holders = {"task", "other"} /\ Keys = {"spot", "perp"}
BY DEF Holders, Keys

(* One more gets a book.                                                   *)
LEMMA JoinCounts ==
  ASSUME Typed, Counted, NEW s \in Holders, NEW k \in Keys, Join(s, k), UNCHANGED kept
  PROVE  /\ entry' \in [Keys -> EntryRow] /\ hold' \in [Holders -> [Keys -> Holding]]
         /\ Counted'
         /\ hold'[s][k] \in {"creating", "joining"}
         /\ \A r \in Holders, i \in Keys : r # s \/ i # k => hold'[r][i] = hold[r][i]
<1> DEFINE how == IF entry[k].refs = 0 THEN "creating" ELSE "joining"
<1>1. /\ hold[s][k] = "no" /\ how \in {"creating", "joining"}
      /\ entry' = [entry EXCEPT ![k] = [entry[k] EXCEPT !.refs = entry[k].refs + 1]]
      /\ hold' = [hold EXCEPT ![s] = [hold[s] EXCEPT ![k] = how]]
  BY DEF Join, Typed
<1> HIDE DEF how
<1>2. /\ hold' \in [Holders -> [Keys -> Holding]] /\ hold'[s][k] = how
      /\ \A r \in Holders, i \in Keys : r # s \/ i # k => hold'[r][i] = hold[r][i]
  BY <1>1 DEF Typed, Holding
<1>3. /\ entry' \in [Keys -> EntryRow] /\ entry'[k].refs = entry[k].refs + 1
      /\ entry'[k].up = entry[k].up
      /\ \A i \in Keys \ {k} : entry'[i] = entry[i]
  <2> DEFINE new == [entry[k] EXCEPT !.refs = entry[k].refs + 1]
  <2>1. new \in EntryRow /\ new.refs = entry[k].refs + 1 /\ new.up = entry[k].up
    BY UsesTyped DEF EntryRow
  <2>2. entry' = [entry EXCEPT ![k] = new]
    BY <1>1
  <2> HIDE DEF new
  <2> QED BY <2>1, <2>2 DEF Typed
<1>4. ASSUME NEW i \in Keys
      PROVE  /\ entry'[i].refs = kept'[i] + Uses("task", i)' + Uses("other", i)'
             /\ \A r \in Holders : hold'[r][i] = "held" => entry'[i].up
             /\ \A r, t \in Holders :
                  hold'[r][i] = "creating" /\ r # t => hold'[t][i] \notin {"creating", "held"}
  <2>1. CASE i # k
    BY <1>2, <1>3, <2>1 DEF Counted, Uses, Holders
  <2>2. CASE i = k
    <3>1. Uses(s, k) = 0 /\ Uses(s, k)' = 1
      BY <1>1, <1>2 DEF Uses, Active
    <3>2. \A r \in Holders \ {s} : Uses(r, k)' = Uses(r, k)
      BY <1>2 DEF Uses
    <3>3. entry[k].refs = kept[k] + Uses("task", k) + Uses("other", k)
      BY DEF Counted
    <3>4. entry'[k].refs = kept'[k] + Uses("task", k)' + Uses("other", k)'
      BY <1>3, <3>1, <3>2, <3>3, UsesTyped, BothHolders
    <3>5. \A r \in Holders : hold'[r][k] = "held" => entry'[k].up
      BY <1>1, <1>2, <1>3 DEF Counted
    <3>6. \A r, t \in Holders :
            hold'[r][k] = "creating" /\ r # t => hold'[t][k] \notin {"creating", "held"}
      <4>1. how = "creating" => \A r \in Holders : Uses(r, k) = 0
        BY <3>3, UsesTyped, BothHolders DEF how
      <4>2. how = "creating" => \A r \in Holders : hold[r][k] \notin {"creating", "held"}
        BY <4>1 DEF Uses, Active
      <4>3. how # "creating" => hold'[s][k] = "joining"
        BY <1>1, <1>2
      <4> QED BY <1>2, <4>2, <4>3 DEF Counted
    <3> QED BY <2>2, <3>4, <3>5, <3>6
  <2> QED BY <2>1, <2>2
<1>5. Counted'
  BY <1>4 DEF Counted
<1> QED BY <1>1, <1>2, <1>3, <1>5

(* A book that is up is handed out.                                        *)
LEMMA JoinedCounts ==
  ASSUME Typed, Counted, NEW s \in Holders, NEW k \in Keys, Joined(s, k), UNCHANGED <<entry, kept>>
  PROVE  /\ hold' \in [Holders -> [Keys -> Holding]]
         /\ Counted'
         /\ hold'[s][k] = "held" /\ hold[s][k] \in {"creating", "joining"}
         /\ \A r \in Holders, i \in Keys : r # s \/ i # k => hold'[r][i] = hold[r][i]
<1>1. /\ hold[s][k] \in {"creating", "joining"} /\ entry[k].up
      /\ hold[s][k] = "joining" => \A r \in Holders : hold[r][k] # "creating"
      /\ hold' = [hold EXCEPT ![s] = [hold[s] EXCEPT ![k] = "held"]]
  BY DEF Joined, BeingCreated, Typed
<1>2. /\ hold' \in [Holders -> [Keys -> Holding]] /\ hold'[s][k] = "held"
      /\ \A r \in Holders, i \in Keys : r # s \/ i # k => hold'[r][i] = hold[r][i]
  BY <1>1 DEF Typed, Holding
<1>3. \A r \in Holders, i \in Keys : Uses(r, i)' = Uses(r, i)
  BY <1>1, <1>2 DEF Uses, Active
<1>4. ASSUME NEW i \in Keys, NEW r \in Holders, NEW t \in Holders,
             hold'[r][i] = "creating", r # t
      PROVE  hold'[t][i] \notin {"creating", "held"}
  <2>1. CASE i = k
    <3>1. r # s /\ hold[r][k] = "creating"
      BY <1>2, <1>4, <2>1
    <3>2. hold[s][k] # "creating" /\ hold[s][k] # "joining"
      BY <1>1, <3>1 DEF Counted
    <3> QED BY <1>1, <3>2
  <2>2. CASE i # k
    BY <1>2, <1>4, <2>2 DEF Counted
  <2> QED BY <2>1, <2>2
<1>5. Counted'
  BY <1>1, <1>2, <1>3, <1>4, BothHolders DEF Counted
<1> QED BY <1>1, <1>2, <1>5

(* A book that somebody else has or waits for outlives the one who leaves. *)
LEMMA LeftCounts ==
  ASSUME Typed, Counted, NEW s \in Holders, NEW ks \in SUBSET Keys, Left(s, ks),
         UNCHANGED kept,
         hold' \in [Holders -> [Keys -> Holding]],
         \A k \in ks : hold[s][k] = "held" /\ hold'[s][k] = "no",
         \A k \in Keys \ ks : \/ hold'[s][k] = hold[s][k]
                              \/ hold[s][k] \notin Active /\ hold'[s][k] \notin Active,
         \A r \in Holders \ {s}, k \in Keys : hold'[r][k] = hold[r][k]
  PROVE  /\ entry' \in [Keys -> EntryRow] /\ book' \in [Keys -> Book]
         /\ Counted'
         /\ \A r \in Holders \ {s}, k \in Keys : hold[r][k] \in Active => book'[k] = book[k]
<1>1. ASSUME NEW k \in Keys
      PROVE  /\ entry'[k] \in EntryRow /\ book'[k] \in Book
             /\ entry'[k].refs = kept'[k] + Uses("task", k)' + Uses("other", k)'
             /\ \A r \in Holders : hold'[r][k] = "held" => entry'[k].up
             /\ \A r \in Holders \ {s} : hold[r][k] \in Active => book'[k] = book[k]
  <2>1. /\ entry[k] \in EntryRow /\ entry[k].refs \in Nat /\ entry[k].up \in BOOLEAN
        /\ book[k] \in Book /\ NoBook \in Book
    BY UsesTyped DEF Typed, Book
  <2>2. entry[k].refs = kept[k] + Uses("task", k) + Uses("other", k)
    BY DEF Counted
  <2>3. \A r \in Holders \ {s} : Uses(r, k)' = Uses(r, k)
    BY DEF Uses
  <2>4. CASE k \in ks
    <3>1. Uses(s, k) = 1 /\ Uses(s, k)' = 0
      BY <2>4 DEF Uses, Active
    <3>2. entry[k].refs > 0
      BY <2>2, <3>1, UsesTyped, BothHolders
    <3> DEFINE new == [refs |-> entry[k].refs - 1, up |-> entry[k].up /\ entry[k].refs > 1]
    <3>3. entry'[k] = new /\ book'[k] = IF entry[k].refs <= 1 THEN NoBook ELSE book[k]
      BY <2>4, <3>2 DEF Left
    <3>4. new \in EntryRow /\ new.refs = entry[k].refs - 1
      BY <2>1, <3>2 DEF EntryRow
    <3>5. new.refs = kept'[k] + Uses("task", k)' + Uses("other", k)'
      BY <2>2, <2>3, <3>1, <3>4, UsesTyped, BothHolders
    <3>6. \A r \in Holders \ {s} : hold[r][k] \in Active => entry[k].refs > 1
      <4> SUFFICES ASSUME NEW r \in Holders \ {s}, hold[r][k] \in Active
                   PROVE  entry[k].refs > 1
        OBVIOUS
      <4>1. Uses(r, k) = 1
        BY DEF Uses
      <4> QED BY <2>2, <3>1, <4>1, UsesTyped, BothHolders
    <3>7. \A r \in Holders : hold'[r][k] = "held" => entry'[k].up
      <4> SUFFICES ASSUME NEW r \in Holders, hold'[r][k] = "held"
                   PROVE  new.up
        BY <3>3
      <4>1. r # s /\ hold[r][k] = "held"
        BY <2>4
      <4>2. entry[k].up /\ entry[k].refs > 1
        BY <3>6, <4>1 DEF Counted, Active
      <4> QED BY <4>2
    <3> HIDE DEF new
    <3>8. \A r \in Holders \ {s} : hold[r][k] \in Active => book'[k] = book[k]
      BY <2>1, <3>3, <3>6
    <3> QED BY <2>1, <3>3, <3>4, <3>5, <3>7, <3>8
  <2>5. CASE k \notin ks
    <3>1. entry'[k] = entry[k] /\ book'[k] = book[k]
      BY <2>5 DEF Left
    <3>2. Uses(s, k)' = Uses(s, k)
      BY <2>5 DEF Uses
    <3>3. entry[k].refs = kept[k] + Uses("task", k)' + Uses("other", k)'
      BY <2>2, <2>3, <3>2, BothHolders
    <3>4. \A r \in Holders : hold'[r][k] = "held" => hold[r][k] = "held"
      BY <2>5 DEF Active
    <3> QED BY <2>1, <3>1, <3>3, <3>4 DEF Counted
  <2> QED BY <2>4, <2>5
<1>2. /\ entry' = [k \in Keys |-> entry'[k]] /\ book' = [k \in Keys |-> book'[k]]
  BY DEF Left
<1>3. entry' \in [Keys -> EntryRow] /\ book' \in [Keys -> Book]
  BY <1>1, <1>2
<1>4. ASSUME NEW i \in Keys, NEW r \in Holders, hold'[r][i] \in {"creating", "held"}
      PROVE  hold'[r][i] = hold[r][i]
  BY <1>4 DEF Active
<1>5. Counted'
  BY <1>1, <1>4 DEF Counted
<1> QED BY <1>1, <1>3, <1>5

(* A step beside the threads, or of one that is getting its books.         *)
LEMMA Beside ==
  ASSUME Inv, Typed', Counted', NotLost', UNCHANGED <<kind, owner, wake, subs, sent>>,
         \A w \in Workers : worker'[w].pc = worker[w].pc /\ worker'[w].pass = worker[w].pass,
         hold'["task"]["perp"] # "no" => hold'["task"]["spot"] = "held",
         subs => \A k \in Keys : hold'["task"][k] = "held",
         subs \/ HoldsNone' \/ \E w \in Workers : worker[w].pc = "subscribe",
         row'.gate.open => row.gate.open /\ row'.gate.id = row.gate.id
  PROVE  Inv'
<1> USE DEF Inv
<1>1. OneOwner'
  BY DEF OneOwner
<1>2. Subscriber'
  BY DEF Subscriber
<1>3. Passed'
  <2>1. BuysSpot' = BuysSpot
    BY DEF BuysSpot
  <2> QED BY <2>1 DEF Passed
<1> QED BY <1>1, <1>2, <1>3

(* The task's hold on the books is left as it is.                          *)
LEMMA HoldKept ==
  ASSUME Inv, hold'["task"] = hold["task"]
  PROVE  /\ hold'["task"]["perp"] # "no" => hold'["task"]["spot"] = "held"
         /\ subs => \A k \in Keys : hold'["task"][k] = "held"
         /\ subs \/ HoldsNone' \/ \E w \in Workers : worker[w].pc = "subscribe"
BY DEF Inv, Subscriber, HoldsNone

LEMMA NobodyWaits ==
  ASSUME \A w \in Workers : worker'[w].pc # "wait"
  PROVE  NotLost'
BY DEF NotLost

(* A step that leaves the entries and the holds alone counts alike.        *)
LEMMA CountedKept ==
  ASSUME Counted, UNCHANGED <<entry, hold, kept>>
  PROVE  Counted'
BY DEF Counted, Uses

LEMMA SubscribeStep ==
  ASSUME Inv, NEW w \in Workers, Subscribe(w)
  PROVE  Inv'
<1> USE DEF Inv
<1>1. /\ worker[w].pc = "subscribe" /\ ~subs
      /\ UNCHANGED <<kind, gates, owner, relaunch, wake, kept, telling, req, sent, opened, events>>
  BY DEF Subscribe
<1>2. owner = w /\ \A v \in Workers \ {w} : worker[v].pc \notin EmployedPcs
  BY <1>1, Alone DEF EmployedPcs, InLoopPcs
<1>3. CASE /\ UNCHANGED <<row, worker, subs, book>>
           /\ \E k \in Keys :
                /\ k = "perp" => hold["task"]["spot"] = "held"
                /\ \/ Join("task", k)
                   \/ Joined("task", k) /\ UNCHANGED entry
  <2>1. PICK k \in Keys :
          /\ k = "perp" => hold["task"]["spot"] = "held"
          /\ \/ Join("task", k)
             \/ Joined("task", k) /\ UNCHANGED entry
    BY <1>3
  <2>2. /\ entry' \in [Keys -> EntryRow] /\ hold' \in [Holders -> [Keys -> Holding]]
        /\ Counted'
        /\ k = "spot" => hold'["task"][k] = "held" \/ hold["task"][k] = "no"
        /\ hold'["task"][k] # "no"
        /\ \A i \in Keys : i # k => hold'["task"][i] = hold["task"][i]
    <3>1. CASE Join("task", k)
      <4>1. hold["task"][k] = "no"
        BY <3>1 DEF Join
      <4> QED BY <1>1, <3>1, <4>1, JoinCounts, BothHolders
    <3>2. CASE Joined("task", k) /\ UNCHANGED entry
      <4>1. entry' \in [Keys -> EntryRow]
        BY <3>2 DEF Typed
      <4> QED BY <1>1, <3>2, <4>1, JoinedCounts, BothHolders
    <3> QED BY <2>1, <3>1, <3>2
  <2>3. Typed'
    BY <1>1, <1>3, <2>2 DEF Typed
  <2>4. hold'["task"]["perp"] # "no" => hold'["task"]["spot"] = "held"
    <3>1. CASE k = "spot"
      BY <2>2, <3>1, BothHolders DEF Subscriber
    <3>2. CASE k = "perp"
      BY <2>1, <2>2, <3>2, BothHolders
    <3> QED BY <3>1, <3>2, BothHolders
  <2>5. NotLost'
    BY <1>1, <1>2, <1>3, NobodyWaits DEF EmployedPcs, InLoopPcs
  <2> QED BY <1>1, <1>3, <2>2, <2>3, <2>4, <2>5, Beside
<1>4. CASE /\ \A k \in Keys : hold["task"][k] = "held"
           /\ subs' = TRUE
           /\ UNCHANGED <<row, worker, entry, hold, book>>
  <2>1. Typed'
    BY <1>1, <1>4 DEF Typed
  <2>2. OneOwner' /\ Counted'
    BY <1>1, <1>4, CountedKept DEF OneOwner
  <2>3. Subscriber'
    BY <1>1, <1>2, <1>4, BothHolders DEF Subscriber, InLoopPcs, EmployedPcs, LookingPcs
  <2>4. Passed' /\ NotLost'
    <3>1. \A v \in Workers : worker'[v].pc # "send" /\ worker'[v].pc # "wait"
      BY <1>1, <1>2, <1>4 DEF EmployedPcs, InLoopPcs
    <3>2. BuysSpot' = BuysSpot
      BY <1>1 DEF BuysSpot
    <3> QED BY <1>1, <3>1, <3>2, NobodyWaits DEF Passed
  <2> QED BY <2>1, <2>2, <2>3, <2>4
<1>5. CASE /\ \E k \in Keys : hold["task"][k] = "failed"
           /\ Left("task", ReleasedOnFailure("task"))
           /\ hold' = [hold EXCEPT !["task"] = [k \in Keys |-> "no"]]
           /\ IF Running THEN Status("paused") ELSE UNCHANGED row
           /\ Goto(w, "after") /\ UNCHANGED subs
  <2>1. PICK new \in WorkerRow : worker' = [worker EXCEPT ![w] = new] /\ new.pc = "after"
    <3>1. "after" \in Places /\ Goto(w, "after") /\ Typed
      BY <1>5, Steps
    <3> QED BY <3>1, WentTo, Zenon
  <2>2. row' \in TaskRow /\ row'.gate.id <= opened
    <3>1. CASE Status("paused")
      BY <3>1, StatusTyped
    <3>2. CASE UNCHANGED row
      BY <3>2 DEF Typed
    <3> QED BY <1>5, <3>1, <3>2
  <2>3. \A k \in Keys : hold["task"][k] \in {"no", "held", "failed"}
    <3>1. PICK f \in Keys : hold["task"][f] = "failed"
      BY <1>5
    <3>2. CASE f = "spot"
      BY <3>1, <3>2, BothHolders DEF Subscriber
    <3>3. CASE f = "perp"
      BY <3>1, <3>3, BothHolders DEF Subscriber
    <3> QED BY <3>2, <3>3, BothHolders
  <2>4. /\ hold' \in [Holders -> [Keys -> Holding]]
        /\ \A k \in Keys : hold'["task"][k] = "no"
        /\ \A r \in Holders \ {"task"}, k \in Keys : hold'[r][k] = hold[r][k]
    BY <1>5, BothHolders DEF Typed, Holding
  <2>5. entry' \in [Keys -> EntryRow] /\ book' \in [Keys -> Book] /\ Counted'
    <3> DEFINE ks == ReleasedOnFailure("task")
    <3>1. ks \in SUBSET Keys /\ \A k \in ks : hold["task"][k] = "held" /\ hold'["task"][k] = "no"
      BY <2>4 DEF ReleasedOnFailure
    <3>2. \A k \in Keys \ ks : hold["task"][k] \notin Active /\ hold'["task"][k] \notin Active
      BY <2>3, <2>4 DEF ReleasedOnFailure, Active
    <3>3. Left("task", ks)
      BY <1>5
    <3> HIDE DEF ks
    <3> QED BY <1>1, <2>4, <3>1, <3>2, <3>3, LeftCounts, BothHolders
  <2>6. Typed'
    BY <1>1, <1>5, <2>1, <2>2, <2>4, <2>5, RowMoved DEF Typed
  <2>7. worker'[w].pc = "after" /\ \A v \in Workers \ {w} : worker'[v].pc = worker[v].pc
    BY <2>1, RowMoved
  <2>8. OneOwner'
    BY <1>1, <1>2, <2>7 DEF OneOwner, EmployedPcs, InLoopPcs
  <2>9. Subscriber'
    BY <1>1, <1>2, <1>5, <2>4, <2>7, BothHolders
       DEF Subscriber, HoldsNone, EmployedPcs, InLoopPcs, LookingPcs
  <2>10. Passed' /\ NotLost'
    <3>1. \A v \in Workers : worker'[v].pc # "send" /\ worker'[v].pc # "wait"
      BY <1>2, <2>7 DEF EmployedPcs, InLoopPcs
    <3>2. BuysSpot' = BuysSpot
      BY <1>1 DEF BuysSpot
    <3> QED BY <1>1, <3>1, <3>2, NobodyWaits DEF Passed
  <2> QED BY <2>5, <2>6, <2>8, <2>9, <2>10
<1> QED BY <1>3, <1>4, <1>5 DEF Subscribe

(* The books are released when the thread leaves.                          *)
LEMMA ExitStep ==
  ASSUME Inv, NEW w \in Workers, Exit(w)
  PROVE  Inv'
<1> USE DEF Inv
<1>1. /\ worker[w].pc = "exit"
      /\ Left("task", IF subs THEN Keys ELSE {})
      /\ hold' = IF subs THEN [hold EXCEPT !["task"] = [k \in Keys |-> "no"]] ELSE hold
      /\ subs' = FALSE /\ wake' = FALSE
      /\ Goto(w, "deregister")
      /\ UNCHANGED <<taskVars, owner, relaunch, kept, telling, req, sent, opened, events>>
  BY DEF Exit
<1>2. owner = w /\ \A v \in Workers \ {w} : worker[v].pc \notin EmployedPcs
  BY <1>1, Alone DEF EmployedPcs
<1>3. PICK new \in WorkerRow : worker' = [worker EXCEPT ![w] = new] /\ new.pc = "deregister"
  <2>1. "deregister" \in Places /\ Goto(w, "deregister") /\ Typed
    BY <1>1, Steps
  <2> QED BY <2>1, WentTo, Zenon
<1>4. worker'[w].pc = "deregister" /\ \A v \in Workers \ {w} : worker'[v].pc = worker[v].pc
  BY <1>3, RowMoved
<1>5. subs \/ HoldsNone
  BY <1>1, <1>2 DEF Subscriber, EmployedPcs, InLoopPcs
<1>6. /\ hold' \in [Holders -> [Keys -> Holding]]
      /\ \A k \in Keys : hold'["task"][k] = "no"
      /\ \A r \in Holders \ {"task"}, k \in Keys : hold'[r][k] = hold[r][k]
  <2>1. CASE subs
    BY <1>1, <2>1, BothHolders DEF Typed, Holding
  <2>2. CASE ~subs
    BY <1>1, <1>5, <2>2 DEF Typed, HoldsNone
  <2> QED BY <2>1, <2>2
<1>7. entry' \in [Keys -> EntryRow] /\ book' \in [Keys -> Book] /\ Counted'
  <2> DEFINE ks == IF subs THEN Keys ELSE {}
  <2>1. ks \in SUBSET Keys /\ \A k \in ks : hold["task"][k] = "held" /\ hold'["task"][k] = "no"
    BY <1>6 DEF Subscriber
  <2>2. \A k \in Keys \ ks : hold'["task"][k] = hold["task"][k]
    BY <1>5, <1>6 DEF HoldsNone
  <2>3. Left("task", ks)
    BY <1>1
  <2> HIDE DEF ks
  <2> QED BY <1>1, <1>6, <2>1, <2>2, <2>3, LeftCounts, BothHolders
<1>8. Typed'
  BY <1>1, <1>3, <1>6, <1>7, RowMoved DEF Typed, taskVars
<1>9. OneOwner'
  BY <1>1, <1>2, <1>4 DEF OneOwner, EmployedPcs, InLoopPcs
<1>10. Subscriber'
  BY <1>1, <1>2, <1>4, <1>6, BothHolders
     DEF Subscriber, HoldsNone, EmployedPcs, InLoopPcs, LookingPcs
<1>11. Passed' /\ NotLost'
  <2>1. \A v \in Workers : worker'[v].pc # "send" /\ worker'[v].pc # "wait"
    BY <1>2, <1>4 DEF EmployedPcs, InLoopPcs
  <2>2. BuysSpot' = BuysSpot
    BY <1>1 DEF BuysSpot, taskVars
  <2> QED BY <1>1, <2>1, <2>2, NobodyWaits DEF Passed
<1> QED BY <1>7, <1>8, <1>9, <1>10, <1>11

LEMMA Unemployed ==
  ASSUME Inv, owner = None
  PROVE  /\ \A v \in Workers : worker[v].pc \notin EmployedPcs
         /\ ~subs /\ HoldsNone
<1>1. \A v \in Workers : worker[v].pc \notin EmployedPcs
  BY Constants DEF Inv, OneOwner
<1> QED BY <1>1 DEF Inv, Subscriber, EmployedPcs, InLoopPcs

(* A thread is registered when none is.                                    *)
LEMMA HireStep ==
  ASSUME Inv, owner = None, NEW w \in Workers, NEW new \in WorkerRow, new.pc = "round",
         worker' = [worker EXCEPT ![w] = new], owner' = w,
         UNCHANGED <<kind, wake, subs, entry, hold, kept, sent>>, Typed'
  PROVE  Inv'
<1> USE DEF Inv
<1>1. worker'[w].pc = "round" /\ \A v \in Workers \ {w} : worker'[v].pc = worker[v].pc
  BY RowMoved
<1>2. OneOwner'
  BY <1>1, Unemployed DEF OneOwner, EmployedPcs, InLoopPcs
<1>3. Subscriber'
  BY <1>1, Unemployed DEF Subscriber, HoldsNone, EmployedPcs, InLoopPcs, LookingPcs
<1>4. Passed' /\ NotLost'
  <2>1. \A v \in Workers : worker'[v].pc # "send" /\ worker'[v].pc # "wait"
    BY <1>1, Unemployed DEF EmployedPcs, InLoopPcs
  <2>2. BuysSpot' = BuysSpot
    BY DEF BuysSpot
  <2> QED BY <2>1, <2>2, NobodyWaits DEF Passed
<1> QED BY <1>2, <1>3, <1>4, CountedKept

(* A thread that is off the register moves.                                *)
LEMMA OffStep ==
  ASSUME Inv, NEW w \in Workers, worker[w].pc \notin EmployedPcs,
         NEW new \in WorkerRow, new.pc \notin EmployedPcs,
         worker' = [worker EXCEPT ![w] = new],
         UNCHANGED <<taskVars, owner, wake, bookVars, req, sent>>, Typed'
  PROVE  Inv'
<1> USE DEF Inv
<1>u. UNCHANGED <<kind, row, gates, subs, entry, hold, kept, book, telling>>
  BY DEF taskVars, bookVars
<1>1. worker'[w].pc \notin EmployedPcs /\ \A v \in Workers \ {w} : worker'[v] = worker[v]
  BY RowMoved
<1>2. OneOwner'
  BY <1>1 DEF OneOwner
<1>3. Subscriber'
  BY <1>u, <1>1 DEF Subscriber, HoldsNone, EmployedPcs, InLoopPcs, LookingPcs
<1>4. Passed'
  <2>1. BuysSpot' = BuysSpot
    BY <1>u DEF BuysSpot
  <2> QED BY <1>u, <1>1, <2>1 DEF Passed, EmployedPcs, InLoopPcs
<1>5. NotLost'
  <2> SUFFICES ASSUME NEW v \in Workers, worker'[v].pc = "wait", ~worker'[v].woken
               PROVE  Content(v)' \/ Announcing' \/ telling' # {}
    BY DEF NotLost
  <2>1. v # w /\ worker'[v] = worker[v]
    BY <1>1 DEF EmployedPcs, InLoopPcs
  <2>2. Content(v) \/ Announcing \/ telling # {}
    BY <2>1 DEF NotLost
  <2>3. Content(v)' <=> Content(v)
    BY <1>u, <2>1, ContentKept
  <2>4. Announcing' <=> Announcing
    BY DEF Announcing
  <2> QED BY <1>u, <2>2, <2>3, <2>4
<1> QED BY <1>u, <1>2, <1>3, <1>4, <1>5, CountedKept

LEMMA DeregisterStep ==
  ASSUME Inv, NEW w \in Workers, Deregister(w)
  PROVE  Inv'
<1> USE DEF Inv
<1>1. /\ worker[w].pc = "deregister" /\ Goto(w, "hand over")
      /\ owner' = IF owner = w THEN None ELSE owner
      /\ UNCHANGED <<taskVars, relaunch, wake, bookVars, req, sent, opened, events>>
  BY DEF Deregister
<1>2. owner = w /\ \A v \in Workers \ {w} : worker[v].pc \notin EmployedPcs
  BY <1>1, Alone DEF EmployedPcs
<1>3. PICK new \in WorkerRow : worker' = [worker EXCEPT ![w] = new] /\ new.pc = "hand over"
  <2>1. "hand over" \in Places /\ Goto(w, "hand over") /\ Typed
    BY <1>1, Steps
  <2> QED BY <2>1, WentTo, Zenon
<1>4. worker'[w].pc = "hand over" /\ \A v \in Workers \ {w} : worker'[v].pc = worker[v].pc
  BY <1>3, RowMoved
<1>5. Typed'
  BY <1>1, <1>2, <1>3, RowMoved DEF Typed, taskVars, bookVars
<1>6. \A v \in Workers : worker'[v].pc \notin EmployedPcs
  BY <1>2, <1>4 DEF EmployedPcs, InLoopPcs
<1>7. OneOwner'
  BY <1>1, <1>2, <1>6, Constants DEF OneOwner
<1>8. Subscriber'
  <2>1. ~subs /\ HoldsNone
    BY <1>1, <1>2 DEF Subscriber, EmployedPcs, InLoopPcs
  <2> QED BY <1>1, <1>6, <2>1
          DEF Subscriber, HoldsNone, EmployedPcs, InLoopPcs, LookingPcs, bookVars
<1>9. Passed' /\ NotLost' /\ Counted'
  <2>1. \A v \in Workers : worker'[v].pc # "send" /\ worker'[v].pc # "wait"
    BY <1>6 DEF EmployedPcs, InLoopPcs
  <2>2. BuysSpot' = BuysSpot
    BY <1>1 DEF BuysSpot, taskVars
  <2> QED BY <1>1, <2>1, <2>2, NobodyWaits, CountedKept DEF Passed, bookVars
<1> QED BY <1>5, <1>7, <1>8, <1>9

LEMMA HandOverStep ==
  ASSUME Inv, NEW w \in Workers, HandOver(w)
  PROVE  Inv'
<1> USE DEF Inv
<1>1. /\ worker[w].pc = "hand over" /\ relaunch' = FALSE
      /\ UNCHANGED <<taskVars, owner, wake, bookVars, req, sent, opened, events>>
  BY DEF HandOver
<1>2. PICK pc \in {"again", None} : Goto(w, pc)
  BY DEF HandOver
<1>3. PICK new \in WorkerRow : worker' = [worker EXCEPT ![w] = new] /\ new.pc = pc
  <2>1. pc \in Places /\ Goto(w, pc) /\ Typed
    BY <1>2, Steps
  <2> QED BY <2>1, WentTo, Zenon
<1>4. Typed'
  BY <1>1, <1>3, RowMoved DEF Typed, taskVars, bookVars
<1>5. worker[w].pc \notin EmployedPcs /\ new.pc \notin EmployedPcs
  BY <1>1, <1>3 DEF EmployedPcs, InLoopPcs, None
<1> QED BY <1>1, <1>3, <1>4, <1>5, OffStep

LEMMA AgainStep ==
  ASSUME Inv, NEW w \in Workers, Again(w)
  PROVE  Inv'
<1> USE DEF Inv
<1>1. /\ worker[w].pc = "again"
      /\ UNCHANGED <<taskVars, relaunch, wake, bookVars, req, sent, opened, events>>
  BY DEF Again
<1>u. UNCHANGED <<kind, subs, entry, hold, kept>>
  BY <1>1 DEF taskVars, bookVars
<1>2. CASE /\ owner = None /\ owner' = w
           /\ worker' = [worker EXCEPT ![w] = [Idle EXCEPT !.pc = "round"]]
  <2> DEFINE new == [Idle EXCEPT !.pc = "round"]
  <2>1. new \in WorkerRow /\ new.pc = "round" /\ worker' = [worker EXCEPT ![w] = new]
    BY <1>2, IdleRow
  <2> HIDE DEF new
  <2>2. Typed'
    BY <1>1, <1>2, <2>1, RowMoved DEF Typed, taskVars, bookVars
  <2> QED BY <1>1, <1>2, <1>u, <2>1, <2>2, HireStep
<1>3. CASE worker' = [worker EXCEPT ![w] = Idle] /\ UNCHANGED owner
  <2>1. Typed'
    BY <1>1, <1>3, IdleRow, RowMoved DEF Typed, taskVars, bookVars
  <2>2. worker[w].pc \notin EmployedPcs /\ Idle.pc \notin EmployedPcs
    BY <1>1, IdleRow DEF EmployedPcs, InLoopPcs, None
  <2> QED BY <1>1, <1>3, <2>1, <2>2, IdleRow, OffStep
<1> QED BY <1>2, <1>3 DEF Again
-------------------------------------------------------------------------------
(* Requests.                                                               *)

LEMMA RequestStep ==
  ASSUME Inv, NEW k \in {"pause", "delete", "start", "fill"} \cup Toggles, Request(k)
  PROVE  Inv'
<1> USE DEF Inv
<1>1. /\ req' = [kind |-> k, step |-> IF k \in {"start", "fill"} THEN 2 ELSE 1]
      /\ UNCHANGED <<kind, threadVars, bookVars, sent, opened>>
      /\ events' = events + 1
  BY DEF Request, Happens
<1>2. /\ row' \in TaskRow /\ row'.gate.id <= opened
      /\ row'.gate.open => row.gate.open /\ row'.gate.id = row.gate.id
  <2>1. ASSUME NEW st \in {"paused", "running", "deleted", "done"}, Status(st)
        PROVE  /\ row' \in TaskRow /\ row'.gate.id <= opened
               /\ row'.gate = row.gate \/ row'.gate = NoGate
    BY <2>1, StatusTyped
  <2>2. CASE row' = [row EXCEPT !.gate.force = TRUE]
    <3>1. row \in TaskRow /\ row.gate \in GateRow
      BY DEF Typed, TaskRow
    <3> DEFINE gate == [row.gate EXCEPT !.force = TRUE]
    <3>2. gate \in GateRow /\ gate.id = row.gate.id /\ gate.open = row.gate.open
      BY <3>1 DEF GateRow
    <3>3. row' = [row EXCEPT !.gate = gate]
      BY <2>2, <3>1 DEF TaskRow
    <3> HIDE DEF gate
    <3>4. row' \in TaskRow /\ row'.gate = gate
      BY <3>1, <3>2, <3>3 DEF TaskRow
    <3> QED BY <3>2, <3>4 DEF Typed
  <2>3. CASE UNCHANGED row
    BY <2>3 DEF Typed
  <2>4. \/ Status("paused") \/ Status("deleted") \/ Status("running")
        \/ row' = [row EXCEPT !.gate.force = TRUE] \/ UNCHANGED row
    BY DEF Request, Toggles
  <2> QED BY <2>1, <2>2, <2>3, <2>4, NoGateTyped
<1>3. gates' \in [start : BOOLEAN, close : BOOLEAN]
  <2>1. gates \in [start : BOOLEAN, close : BOOLEAN]
    BY DEF Typed
  <2>2. \/ gates' = [gates EXCEPT !.start = ~gates.start]
        \/ gates' = [gates EXCEPT !.close = ~gates.close]
        \/ UNCHANGED gates
    BY DEF Request
  <2> QED BY <2>1, <2>2
<1>4. req' \in RequestRow /\ Announcing'
  <2>1. CASE k \in {"start", "fill"}
    BY <1>1, <2>1 DEF RequestRow, Announcing
  <2>2. CASE k \notin {"start", "fill"}
    BY <1>1, <2>2 DEF RequestRow, Announcing
  <2> QED BY <2>1, <2>2
<1>5. Typed'
  BY <1>1, <1>2, <1>3, <1>4 DEF Typed, threadVars, bookVars
<1>6. NotLost' /\ Counted'
  BY <1>1, <1>4, CountedKept DEF NotLost, bookVars
<1> QED BY <1>1, <1>2, <1>5, <1>6, HoldKept, Beside DEF threadVars, bookVars

(* A wake-up reaches every thread, when there is a condition.              *)
LEMMA Woken ==
  ASSUME Typed, worker' = Notified(worker) \/ worker' = worker
  PROVE  /\ worker' \in [Workers -> WorkerRow]
         /\ \A w \in Workers : /\ worker'[w].pc = worker[w].pc
                               /\ worker'[w].gate = worker[w].gate
                               /\ worker'[w].pass = worker[w].pass
                               /\ wake /\ worker' = Notified(worker) => worker'[w].woken
<1>1. worker \in [Workers -> WorkerRow]
  BY DEF Typed
<1>2. CASE worker' = worker /\ ~(wake /\ worker' = Notified(worker))
  BY <1>1, <1>2
<1>3. CASE wake /\ worker' = Notified(worker)
  <2>1. worker' = [w \in Workers |-> [worker[w] EXCEPT !.woken = TRUE]]
    BY <1>3 DEF Notified
  <2>2. \A w \in Workers : LET r == [worker[w] EXCEPT !.woken = TRUE]
                           IN /\ r \in WorkerRow /\ r.pc = worker[w].pc
                              /\ r.gate = worker[w].gate /\ r.pass = worker[w].pass /\ r.woken
    BY <1>1 DEF WorkerRow
  <2> QED BY <2>1, <2>2
<1>4. CASE ~wake
  BY <1>1, <1>4 DEF Notified
<1> QED BY <1>2, <1>3, <1>4

LEMMA AnnounceStep ==
  ASSUME Inv, Announce
  PROVE  Inv'
<1> USE DEF Inv
<1>1. /\ worker' = Notified(worker)
      /\ req' = [req EXCEPT !.step = 2] \/ req' = NoRequest
      /\ UNCHANGED <<taskVars, owner, relaunch, wake, bookVars, sent, opened, events>>
  BY DEF Announce, Announces
<1>2. req' \in RequestRow
  <2>1. req \in RequestRow /\ NoRequest \in RequestRow
    BY DEF Typed, RequestRow, NoRequest
  <2>2. [req EXCEPT !.step = 2] \in RequestRow
    BY <2>1 DEF RequestRow
  <2> QED BY <1>1, <2>1, <2>2
<1>3. Typed'
  BY <1>1, <1>2, Woken DEF Typed, taskVars, bookVars
<1>4. NotLost'
  <2>1. \A w \in Workers : worker'[w].pc = "wait" => worker'[w].woken
    BY <1>1, Woken DEF Subscriber, LookingPcs
  <2> QED BY <2>1 DEF NotLost
<1>5. Counted'
  BY <1>1, CountedKept DEF bookVars
<1> QED BY <1>1, <1>3, <1>4, <1>5, HoldKept, Woken, Beside DEF taskVars, bookVars

LEMMA EmployStep ==
  ASSUME Inv, Employ
  PROVE  Inv'
<1> USE DEF Inv
<1>1. /\ UNCHANGED <<taskVars, wake, bookVars, sent, opened, events>>
      /\ req.step = 2
      /\ IF req.kind \in {"start", "fill"}
         THEN req' = [req EXCEPT !.step = 1] ELSE req' = NoRequest
      /\ \/ \E again \in BOOLEAN : EnsureWorker(again)
         \/ UNCHANGED <<worker, owner, relaunch>>
  BY DEF Employ
<1>u. UNCHANGED <<kind, row, gates, subs, entry, hold, kept, book, telling>>
  BY <1>1 DEF taskVars, bookVars
<1>2. req' \in RequestRow /\ (Announcing => Announcing')
  <2>1. req \in RequestRow
    BY DEF Typed
  <2>2. CASE req.kind \in {"start", "fill"}
    BY <1>1, <2>1, <2>2 DEF RequestRow, Announcing
  <2>3. CASE req.kind \notin {"start", "fill"}
    BY <1>1, <2>3 DEF RequestRow, Announcing, NoRequest
  <2> QED BY <2>2, <2>3
<1>3. CASE relaunch' \in BOOLEAN /\ UNCHANGED <<worker, owner>>
  <2>1. Typed'
    BY <1>1, <1>2, <1>3 DEF Typed, taskVars, bookVars
  <2>2. NotLost'
    <3>1. \A w \in Workers : Content(w)' <=> Content(w)
      BY <1>u, <1>3, ContentKept
    <3> QED BY <1>u, <1>2, <1>3, <3>1 DEF NotLost
  <2> QED BY <1>1, <1>u, <1>3, <2>1, <2>2, HoldKept, CountedKept, Beside
<1>4. CASE owner = None /\ UNCHANGED relaunch
           /\ \E w \in Workers :
                owner' = w /\ worker' = [worker EXCEPT ![w] = [Idle EXCEPT !.pc = "round"]]
  <2>1. PICK w \in Workers :
          owner' = w /\ worker' = [worker EXCEPT ![w] = [Idle EXCEPT !.pc = "round"]]
    BY <1>4
  <2> DEFINE new == [Idle EXCEPT !.pc = "round"]
  <2>2. new \in WorkerRow /\ new.pc = "round" /\ worker' = [worker EXCEPT ![w] = new]
    BY <2>1, IdleRow
  <2> HIDE DEF new
  <2>3. Typed'
    BY <1>1, <1>2, <1>4, <2>1, <2>2, RowMoved DEF Typed, taskVars, bookVars
  <2> QED BY <1>1, <1>u, <1>4, <2>1, <2>2, <2>3, HireStep
<1> QED BY <1>1, <1>3, <1>4 DEF EnsureWorker, Typed
-------------------------------------------------------------------------------
(* The books, the other task, time and the process.                        *)

LEMMA SubscriptionFailsStep ==
  ASSUME Inv, NEW k \in Keys, SubscriptionFails(k)
  PROVE  Inv'
<1> USE DEF Inv
<1>1. /\ events' = events + 1
      /\ \E s \in Holders : hold[s][k] = "creating"
      /\ entry' = [entry EXCEPT ![k] = [refs |-> 0, up |-> FALSE]]
      /\ book' = [book EXCEPT ![k] = NoBook]
      /\ hold' = [s \in Holders |-> [hold[s] EXCEPT ![k] =
                    IF @ \in {"creating", "joining"} THEN "failed" ELSE @]]
      /\ kept' = [kept EXCEPT ![k] = 0]
      /\ UNCHANGED <<taskVars, threadVars, subs, telling, req, sent, opened>>
  BY DEF SubscriptionFails, BeingCreated, Happens
<1>u. UNCHANGED <<kind, row, gates, worker, owner, wake, telling>>
  BY <1>1 DEF taskVars, threadVars
<1>2. \A s \in Holders : hold[s][k] # "held"
  BY <1>1 DEF Counted
<1>3. /\ hold' \in [Holders -> [Keys -> Holding]]
      /\ \A s \in Holders, i \in Keys : i # k => hold'[s][i] = hold[s][i]
      /\ \A s \in Holders : hold'[s][k] =
           IF hold[s][k] \in {"creating", "joining"} THEN "failed" ELSE hold[s][k]
  BY <1>1 DEF Typed, Holding
<1>4. /\ entry' \in [Keys -> EntryRow] /\ entry'[k].refs = 0
      /\ \A i \in Keys \ {k} : entry'[i] = entry[i]
  BY <1>1 DEF Typed, EntryRow
<1>k. /\ kept' \in [Keys -> Nat] /\ kept'[k] = 0 /\ \A i \in Keys \ {k} : kept'[i] = kept[i]
  BY <1>1 DEF Typed
<1>5. Counted'
  <2> SUFFICES ASSUME NEW i \in Keys
               PROVE  /\ entry'[i].refs = kept'[i] + Uses("task", i)' + Uses("other", i)'
                      /\ \A s \in Holders : hold'[s][i] = "held" => entry'[i].up
                      /\ \A s, t \in Holders : hold'[s][i] = "creating" /\ s # t =>
                           hold'[t][i] \notin {"creating", "held"}
    BY DEF Counted
  <2>1. CASE i = k
    <3>1. \A s \in Holders : hold'[s][k] \notin Active
      BY <1>2, <1>3 DEF Active
    <3> QED BY <1>4, <1>k, <2>1, <3>1, BothHolders DEF Uses, Active
  <2>2. CASE i # k
    BY <1>3, <1>4, <1>k, <2>2, BothHolders DEF Counted, Uses
  <2> QED BY <2>1, <2>2
<1>6. Typed'
  <2>1. book' \in [Keys -> Book]
    BY <1>1 DEF Typed, Book
  <2> QED BY <1>1, <1>3, <1>4, <1>k, <2>1 DEF Typed, taskVars, threadVars
<1>7. hold'["task"]["perp"] # "no" => hold'["task"]["spot"] = "held"
  <2>1. CASE k = "spot"
    BY <1>2, <1>3, <2>1, BothHolders DEF Subscriber
  <2>2. CASE k = "perp"
    BY <1>3, <2>2, BothHolders DEF Subscriber
  <2> QED BY <2>1, <2>2, BothHolders
<1>8. ~subs
  BY <1>2, BothHolders DEF Subscriber
<1>9. HoldsNone => HoldsNone'
  BY <1>3, BothHolders DEF HoldsNone
<1>10. NotLost'
  <2>1. \A w \in Workers : worker'[w].pc # "wait"
    BY <1>u, <1>8 DEF Subscriber, LookingPcs
  <2> QED BY <2>1, NobodyWaits
<1>11. subs \/ HoldsNone' \/ \E w \in Workers : worker[w].pc = "subscribe"
  BY <1>9 DEF Subscriber
<1> QED BY <1>1, <1>u, <1>5, <1>6, <1>7, <1>8, <1>10, <1>11, Beside

(* A joiner that gives up leaves its count to nobody.                      *)
LEMMA JoinerGivesUpStep ==
  ASSUME Inv, NEW s \in Holders, NEW k \in Keys, JoinerGivesUp(s, k)
  PROVE  Inv'
<1> USE DEF Inv
<1>1. /\ hold[s][k] = "joining" /\ events' = events + 1
      /\ hold' = [hold EXCEPT ![s] = [hold[s] EXCEPT ![k] = "failed"]]
      /\ kept' = [kept EXCEPT ![k] = kept[k] + 1]
      /\ UNCHANGED <<taskVars, threadVars, subs, entry, book, telling, req, sent, opened>>
  BY DEF JoinerGivesUp, Happens, Typed
<1>u. UNCHANGED <<kind, row, gates, worker, owner, wake, telling>>
  BY <1>1 DEF taskVars, threadVars
<1>2. /\ hold' \in [Holders -> [Keys -> Holding]] /\ hold'[s][k] = "failed"
      /\ \A r \in Holders, i \in Keys : r # s \/ i # k => hold'[r][i] = hold[r][i]
  BY <1>1 DEF Typed, Holding
<1>3. /\ kept' \in [Keys -> Nat] /\ kept'[k] = kept[k] + 1
      /\ \A i \in Keys \ {k} : kept'[i] = kept[i]
  BY <1>1, UsesTyped DEF Typed
<1>4. Counted'
  <2> SUFFICES ASSUME NEW i \in Keys
               PROVE  /\ entry[i].refs = kept'[i] + Uses("task", i)' + Uses("other", i)'
                      /\ \A r \in Holders : hold'[r][i] = "held" => entry[i].up
                      /\ \A r, t \in Holders : hold'[r][i] = "creating" /\ r # t =>
                           hold'[t][i] \notin {"creating", "held"}
    BY <1>1 DEF Counted
  <2>1. CASE i = k
    <3>1. Uses(s, k) = 1 /\ Uses(s, k)' = 0
      BY <1>1, <1>2 DEF Uses, Active
    <3>2. \A r \in Holders \ {s} : Uses(r, k)' = Uses(r, k)
      BY <1>2 DEF Uses
    <3>3. entry[k].refs = kept[k] + Uses("task", k) + Uses("other", k)
      BY DEF Counted
    <3>4. entry[k].refs = kept'[k] + Uses("task", k)' + Uses("other", k)'
      BY <1>3, <3>1, <3>2, <3>3, UsesTyped, BothHolders
    <3>5. /\ \A r \in Holders : hold[r][k] = "held" => entry[k].up
          /\ \A r, t \in Holders : hold[r][k] = "creating" /\ r # t =>
               hold[t][k] \notin {"creating", "held"}
      BY DEF Counted
    <3>6. \A r \in Holders : hold'[r][k] # "failed" => hold'[r][k] = hold[r][k]
      BY <1>2
    <3>7. \A r \in Holders : hold'[r][k] = "held" => entry[k].up
      BY <3>5, <3>6
    <3>8. \A r, t \in Holders : hold'[r][k] = "creating" /\ r # t =>
            hold'[t][k] \notin {"creating", "held"}
      BY <3>5, <3>6
    <3> QED BY <2>1, <3>4, <3>7, <3>8
  <2>2. CASE i # k
    <3>1. /\ Uses("task", i)' = Uses("task", i) /\ Uses("other", i)' = Uses("other", i)
          /\ \A r \in Holders : hold'[r][i] = hold[r][i]
      BY <1>2, <2>2, BothHolders DEF Uses
    <3>2. /\ entry[i].refs = kept[i] + Uses("task", i) + Uses("other", i)
          /\ \A r \in Holders : hold[r][i] = "held" => entry[i].up
          /\ \A r, t \in Holders : hold[r][i] = "creating" /\ r # t =>
               hold[t][i] \notin {"creating", "held"}
      BY DEF Counted
    <3>3. kept'[i] = kept[i]
      BY <1>3, <2>2
    <3> QED BY <3>1, <3>2, <3>3
  <2> QED BY <2>1, <2>2
<1>5. Typed'
  BY <1>1, <1>2, <1>3 DEF Typed, taskVars, threadVars
<1>6. hold'["task"]["perp"] # "no" => hold'["task"]["spot"] = "held"
  BY <1>1, <1>2, BothHolders DEF Subscriber
<1>7. subs => \A i \in Keys : hold'["task"][i] = "held"
  BY <1>1, <1>2, BothHolders DEF Subscriber
<1>8. subs \/ HoldsNone' \/ \E w \in Workers : worker[w].pc = "subscribe"
  BY <1>1, <1>2, BothHolders DEF Subscriber, HoldsNone
<1>9. NotLost'
  <2>1. \A w \in Workers : Content(w)' <=> Content(w)
    BY <1>1, <1>u, ContentKept
  <2> QED BY <1>1, <1>u, <2>1 DEF NotLost, Announcing
<1> QED BY <1>1, <1>u, <1>4, <1>5, <1>6, <1>7, <1>8, <1>9, Beside

LEMMA StartWatchStep ==
  ASSUME Inv, NEW k \in Keys, StartWatch(k)
  PROVE  Inv'
<1> USE DEF Inv
<1>1. /\ entry' = [entry EXCEPT ![k] = [entry[k] EXCEPT !.up = TRUE]]
      /\ UNCHANGED <<taskVars, threadVars, subs, hold, kept, book, telling, req, sent, opened,
                     events>>
  BY DEF StartWatch, Typed
<1>u. UNCHANGED <<kind, row, gates, worker, owner, wake, telling>>
  BY <1>1 DEF taskVars, threadVars
<1>2. /\ entry' \in [Keys -> EntryRow] /\ entry'[k].refs = entry[k].refs /\ entry'[k].up
      /\ \A i \in Keys \ {k} : entry'[i] = entry[i]
  <2> DEFINE new == [entry[k] EXCEPT !.up = TRUE]
  <2>1. new \in EntryRow /\ new.refs = entry[k].refs /\ new.up
    BY UsesTyped DEF EntryRow
  <2>2. entry' = [entry EXCEPT ![k] = new]
    BY <1>1
  <2> HIDE DEF new
  <2> QED BY <2>1, <2>2 DEF Typed
<1>3. Counted'
  BY <1>1, <1>2 DEF Counted, Uses
<1>4. Typed'
  BY <1>1, <1>2 DEF Typed, taskVars, threadVars
<1>5. NotLost'
  <2>1. \A w \in Workers : Content(w)' <=> Content(w)
    BY <1>1, <1>u, ContentKept
  <2> QED BY <1>1, <1>u, <2>1 DEF NotLost, Announcing
<1> QED BY <1>1, <1>u, <1>3, <1>4, <1>5, HoldKept, Beside

LEMMA ChangeStep ==
  ASSUME Inv, NEW k \in Keys, Change(k)
  PROVE  Inv'
<1> USE DEF Inv
<1>1. /\ telling' = telling \cup {k} /\ events' = events + 1
      /\ UNCHANGED <<taskVars, threadVars, subs, entry, hold, kept, req, sent, opened>>
  BY DEF Change, Happens
<1>u. UNCHANGED <<kind, row, gates, worker, owner, wake>>
  BY <1>1 DEF taskVars, threadVars
<1>2. book' \in [Keys -> Book]
  <2>1. PICK b : book' = [book EXCEPT ![k] = b]
                 /\ (b = NoBook \/ \E quote \in Quotes[k] : b = [live |-> TRUE, quote |-> quote])
    BY DEF Change
  <2>2. Quotes[k] \subseteq Quote
    BY SmoothAssumption DEF Quote
  <2>3. CASE b = NoBook
    BY <2>1, <2>3 DEF Typed, Book
  <2>4. CASE \E quote \in Quotes[k] : b = [live |-> TRUE, quote |-> quote]
    <3>1. PICK quote \in Quote : b = [live |-> TRUE, quote |-> quote]
      BY <2>2, <2>4
    <3>2. b \in [live : {TRUE}, quote : Quote]
      BY <3>1
    <3> QED BY <2>1, <3>2 DEF Typed, Book
  <2> QED BY <2>1, <2>3, <2>4
<1>3. Typed'
  BY <1>1, <1>2 DEF Typed, taskVars, threadVars
<1>4. NotLost'
  BY <1>1 DEF NotLost
<1> QED BY <1>1, <1>u, <1>3, <1>4, HoldKept, CountedKept, Beside

LEMMA TellStep ==
  ASSUME Inv, NEW k \in Keys, Tell(k)
  PROVE  Inv'
<1> USE DEF Inv
<1>1. /\ telling' = telling \ {k}
      /\ worker' = IF subs THEN Notified(worker) ELSE worker
      /\ UNCHANGED <<taskVars, owner, relaunch, wake, subs, entry, hold, kept, book,
                     req, sent, opened, events>>
  BY DEF Tell
<1>2. Typed'
  BY <1>1, Woken DEF Typed, taskVars
<1>3. NotLost'
  <2>1. \A w \in Workers : worker'[w].pc = "wait" => worker'[w].woken
    BY <1>1, Woken DEF Subscriber, LookingPcs
  <2> QED BY <2>1 DEF NotLost
<1> QED BY <1>1, <1>2, <1>3, HoldKept, CountedKept, Woken, Beside DEF taskVars

LEMMA OtherStep ==
  ASSUME Inv, NEW k \in Keys, Other(k)
  PROVE  Inv'
<1> USE DEF Inv
<1>1. /\ UNCHANGED <<taskVars, threadVars, subs, kept, telling, req, sent, opened>>
      /\ events' \in Nat
  BY DEF Other, Happens, Quiet, Typed
<1>u. UNCHANGED <<kind, row, gates, worker, owner, wake>>
  BY <1>1 DEF taskVars, threadVars
<1>2. /\ entry' \in [Keys -> EntryRow] /\ hold' \in [Holders -> [Keys -> Holding]]
      /\ book' \in [Keys -> Book] /\ Counted' /\ hold'["task"] = hold["task"]
      /\ (\A i \in Keys : hold["task"][i] = "held") => book' = book
  <2>1. CASE Join("other", k) /\ UNCHANGED book
    <3>1. \A i \in Keys : hold'["task"][i] = hold["task"][i]
      BY <1>1, <2>1, JoinCounts, BothHolders
    <3>2. hold'["task"] = hold["task"]
      BY <1>1, <2>1, <3>1, JoinCounts, BothHolders DEF Typed
    <3> QED BY <1>1, <2>1, <3>2, JoinCounts, BothHolders DEF Typed
  <2>2. CASE /\ hold["other"][k] \in {"held", "failed"}
             /\ Left("other", ReleasedOnFailure("other") \cap {k})
             /\ hold' = [hold EXCEPT !["other"][k] = "no"]
    <3> DEFINE ks == ReleasedOnFailure("other") \cap {k}
    <3>1. /\ hold' \in [Holders -> [Keys -> Holding]] /\ hold'["other"][k] = "no"
          /\ \A i \in Keys \ {k} : hold'["other"][i] = hold["other"][i]
          /\ hold'["task"] = hold["task"]
      BY <2>2, BothHolders DEF Typed, Holding
    <3>2. ks \in SUBSET Keys /\ \A i \in ks : hold["other"][i] = "held" /\ hold'["other"][i] = "no"
      BY <3>1 DEF ReleasedOnFailure
    <3>3. \A i \in Keys \ ks : \/ hold'["other"][i] = hold["other"][i]
                               \/ hold["other"][i] \notin Active /\ hold'["other"][i] \notin Active
      BY <2>2, <3>1 DEF ReleasedOnFailure, Active
    <3>4. Left("other", ks)
      BY <2>2
    <3> HIDE DEF ks
    <3>5. \A r \in Holders \ {"other"}, i \in Keys : hold'[r][i] = hold[r][i]
      BY <3>1, BothHolders
    <3>6. /\ entry' \in [Keys -> EntryRow] /\ book' \in [Keys -> Book] /\ Counted'
          /\ \A r \in Holders \ {"other"}, i \in Keys : hold[r][i] \in Active => book'[i] = book[i]
      BY <1>1, <3>1, <3>2, <3>3, <3>4, <3>5, LeftCounts, BothHolders
    <3>7. (\A i \in Keys : hold["task"][i] = "held") => \A i \in Keys : book'[i] = book[i]
      BY <3>6, BothHolders DEF Active
    <3>8. book \in [Keys -> Book]
      BY DEF Typed
    <3> QED BY <3>1, <3>6, <3>7, <3>8
  <2> QED BY <2>1, <2>2 DEF Other
<1>3. Typed'
  BY <1>1, <1>2 DEF Typed, taskVars, threadVars
<1>4. NotLost'
  <2> SUFFICES ASSUME NEW w \in Workers, worker'[w].pc = "wait", ~worker'[w].woken
               PROVE  Content(w)' \/ Announcing' \/ telling' # {}
    BY DEF NotLost
  <2>1. book' = book
    BY <1>u, <1>2 DEF Subscriber, LookingPcs
  <2>2. Content(w)' <=> Content(w)
    BY <1>u, <2>1, ContentKept
  <2> QED BY <1>1, <1>u, <2>2 DEF NotLost, Announcing
<1> QED BY <1>1, <1>u, <1>2, <1>3, <1>4, HoldKept, Beside

LEMMA OtherJoinedStep ==
  ASSUME Inv, NEW k \in Keys, OtherJoined(k)
  PROVE  Inv'
<1> USE DEF Inv
<1>1. /\ Joined("other", k)
      /\ UNCHANGED <<taskVars, threadVars, subs, entry, kept, book, telling, req, sent, opened,
                     events>>
  BY DEF OtherJoined
<1>u. UNCHANGED <<kind, row, gates, worker, owner, wake, telling>>
  BY <1>1 DEF taskVars, threadVars
<1>2. /\ hold' \in [Holders -> [Keys -> Holding]] /\ Counted'
      /\ \A i \in Keys : hold'["task"][i] = hold["task"][i]
  BY <1>1, JoinedCounts, BothHolders
<1>3. hold'["task"] = hold["task"]
  BY <1>2, BothHolders DEF Typed
<1>4. Typed'
  BY <1>1, <1>2 DEF Typed, taskVars, threadVars
<1>5. NotLost'
  <2>1. \A w \in Workers : Content(w)' <=> Content(w)
    BY <1>1, <1>u, ContentKept
  <2> QED BY <1>1, <1>u, <2>1 DEF NotLost, Announcing
<1> QED BY <1>1, <1>u, <1>2, <1>3, <1>4, <1>5, HoldKept, Beside

LEMMA TickStep ==
  ASSUME Inv, Tick
  PROVE  Inv'
<1> USE DEF Inv
<1>1. /\ row.gate.left > 0
      /\ row' = [row EXCEPT !.gate = [row.gate EXCEPT !.left = row.gate.left - 1]]
      /\ UNCHANGED <<kind, gates, threadVars, bookVars, req, sent, opened, events>>
  BY DEF Tick, Typed, TaskRow
<1>u. UNCHANGED <<kind, worker, owner, wake, subs, entry, hold, kept, book, telling>>
  BY <1>1 DEF threadVars, bookVars
<1> DEFINE gate == [row.gate EXCEPT !.left = row.gate.left - 1]
<1>2. row \in TaskRow /\ row.gate \in GateRow
  BY DEF Typed, TaskRow
<1>3. /\ gate \in GateRow /\ gate.id = row.gate.id /\ gate.open = row.gate.open
      /\ gate.force = row.gate.force
  BY <1>1, <1>2, Constants DEF GateRow
<1>4. row' = [row EXCEPT !.gate = gate]
  BY <1>1
<1> HIDE DEF gate
<1>5. /\ row' \in TaskRow /\ row'.gate = gate /\ row'.status = row.status /\ row'.sent = row.sent
  BY <1>2, <1>3, <1>4 DEF TaskRow
<1>6. Typed'
  BY <1>1, <1>3, <1>5 DEF Typed, threadVars, bookVars
<1>7. NotLost'
  <2> SUFFICES ASSUME NEW w \in Workers, Content(w)
               PROVE  Content(w)'
    BY <1>1, <1>u DEF NotLost, Announcing
  <2>1. Running' = Running /\ GatesOn' = GatesOn /\ GateIsMine(w)' = GateIsMine(w)
    BY <1>1, <1>u, <1>3, <1>5 DEF Running, GatesOn, Closes, GateIsMine
  <2>2. Reason' \in {None, "timeout"}
    <3>1. Favourable' = Favourable
      BY <1>u DEF Favourable
    <3>2. ~row.gate.force /\ ~Favourable
      BY DEF Content, Reason, None
    <3> QED BY <1>3, <1>5, <3>1, <3>2 DEF Reason
  <2> QED BY <2>1, <2>2 DEF Content
<1> QED BY <1>1, <1>u, <1>3, <1>5, <1>6, <1>7, HoldKept, CountedKept, Beside

LEMMA RestartStep ==
  ASSUME Inv, Restart
  PROVE  Inv'
<1> USE DEF Inv
<1>1. /\ relaunch' = FALSE /\ wake' = FALSE /\ subs' = FALSE
      /\ entry' = [k \in Keys |-> [refs |-> 0, up |-> FALSE]]
      /\ hold' = [s \in Holders |-> [k \in Keys |-> "no"]]
      /\ kept' = [k \in Keys |-> 0]
      /\ book' = [k \in Keys |-> NoBook] /\ telling' = {} /\ req' = NoRequest
      /\ events' = events + 1
      /\ UNCHANGED <<taskVars, sent, opened>>
  BY DEF Restart, Happens
<1>2. /\ worker' \in [Workers -> WorkerRow]
      /\ owner' \in Workers \cup {None}
      /\ \A v \in Workers : worker'[v].pc = IF v = owner' THEN "round" ELSE None
  <2>1. CASE \E w \in Workers :
               /\ owner' = w
               /\ worker' = [v \in Workers |->
                    IF v = w THEN [Idle EXCEPT !.pc = "round"] ELSE Idle]
    BY <2>1, IdleRow
  <2>2. CASE owner' = None /\ worker' = [v \in Workers |-> Idle]
    BY <2>2, IdleRow, Constants
  <2> QED BY <2>1, <2>2 DEF Restart
<1>3. entry' \in [Keys -> EntryRow] /\ \A k \in Keys : entry'[k].refs = 0
  BY <1>1 DEF EntryRow
<1>4. /\ hold' \in [Holders -> [Keys -> Holding]]
      /\ \A s \in Holders, k \in Keys : hold'[s][k] = "no"
  BY <1>1 DEF Holding
<1>5. book' \in [Keys -> Book] /\ req' \in RequestRow /\ kept' \in [Keys -> Nat]
  BY <1>1 DEF Book, RequestRow, NoRequest
<1>6. Typed'
  <2>1. /\ kind' \in Kind /\ row' \in TaskRow /\ row'.gate.id <= opened' /\ opened' \in Nat
        /\ gates' \in [start : BOOLEAN, close : BOOLEAN]
    BY <1>1 DEF Typed, taskVars
  <2>2. /\ relaunch' \in BOOLEAN /\ wake' \in BOOLEAN /\ subs' \in BOOLEAN
        /\ telling' \subseteq Keys
    BY <1>1
  <2>3. events' \in Nat
    BY <1>1 DEF Typed
  <2> QED BY <1>2, <1>3, <1>4, <1>5, <2>1, <2>2, <2>3 DEF Typed
<1>7. OneOwner'
  BY <1>2 DEF OneOwner, EmployedPcs, InLoopPcs, None
<1>8. Counted'
  BY <1>1, <1>3, <1>4, BothHolders DEF Counted, Uses, Active
<1>9. Subscriber'
  BY <1>1, <1>2, <1>4, BothHolders DEF Subscriber, HoldsNone, LookingPcs, None
<1>10. Passed' /\ NotLost'
  <2>1. \A v \in Workers : worker'[v].pc # "send" /\ worker'[v].pc # "wait"
    BY <1>2 DEF None
  <2>2. BuysSpot' = BuysSpot
    BY <1>1 DEF BuysSpot, taskVars
  <2> QED BY <1>1, <2>1, <2>2, NobodyWaits DEF Passed
<1> QED BY <1>6, <1>7, <1>8, <1>9, <1>10
-------------------------------------------------------------------------------
LEMMA StepInv == Inv /\ [Next]_vars => Inv'
<1> SUFFICES ASSUME Inv, [Next]_vars PROVE Inv'
  OBVIOUS
<1>1. ASSUME NEW w \in Workers, WorkerStep(w) PROVE Inv'
  BY <1>1, RoundStep, OpenStep, SubscribeStep, SubscribedStep, LookStep, DecideStep, WaitStep,
     SendStep, AfterStep, ExitStep, DeregisterStep, HandOverStep, AgainStep DEF WorkerStep
<1>2. ASSUME NEW k \in Keys,
             \/ SubscriptionFails(k) \/ StartWatch(k) \/ Change(k) \/ Tell(k)
             \/ Other(k) \/ OtherJoined(k)
             \/ \E s \in Holders : JoinerGivesUp(s, k)
      PROVE  Inv'
  BY <1>2, SubscriptionFailsStep, StartWatchStep, ChangeStep, TellStep, OtherStep,
     OtherJoinedStep, JoinerGivesUpStep
<1>3. CASE UNCHANGED vars
  <2>1. UNCHANGED <<kind, row, gates, worker, owner, relaunch, wake, subs, entry, hold, kept, book,
                    telling, req, sent, opened, events>>
    BY <1>3 DEF vars, taskVars, threadVars, bookVars
  <2>2. Typed'
    BY <2>1 DEF Typed, Inv
  <2>3. NotLost'
    <3>1. \A w \in Workers : Content(w)' <=> Content(w)
      BY <2>1, ContentKept
    <3> QED BY <2>1, <3>1 DEF NotLost, Announcing, Inv
  <2> QED BY <2>1, <2>2, <2>3, HoldKept, CountedKept, Beside DEF Inv
<1> QED BY <1>1, <1>2, <1>3, RequestStep, AnnounceStep, EmployStep, TickStep, RestartStep DEF Next

(* The invariant of the gate, its threads and its books.                   *)
THEOREM GateInvariant == Spec => []Inv
BY InitInv, StepInv, PTL DEF Spec
-------------------------------------------------------------------------------
(* The properties.                                                         *)

LEMMA HoldersOf ==
  ASSUME Typed, Counted, NEW k \in Keys
  PROVE  /\ entry[k].refs = kept[k] + Cardinality({s \in Holders : hold[s][k] \in Active})
         /\ entry[k].refs \in Nat /\ kept[k] \in 0..entry[k].refs
<1> DEFINE S == {s \in Holders : hold[s][k] \in Active}
<1>1. Cardinality({}) = 0 /\ Cardinality({"task"}) = 1 /\ Cardinality({"other"}) = 1
  BY FS_EmptySet, FS_Singleton
<1>2. Cardinality({"task", "other"}) = 2
  <2>1. IsFiniteSet({"task"}) /\ "other" \notin {"task"}
    BY FS_Singleton
  <2>2. Cardinality({"task"} \cup {"other"}) = 2
    BY <1>1, <2>1, FS_AddElement
  <2>3. {"task"} \cup {"other"} = {"task", "other"}
    OBVIOUS
  <2> QED BY <2>2, <2>3
<1>3. entry[k].refs = kept[k] + Uses("task", k) + Uses("other", k) /\ kept[k] \in Nat
  BY DEF Counted, Typed
<1> DEFINE users == Uses("task", k) + Uses("other", k)
<1>4. users = Cardinality(S) /\ users \in Nat
  <2>1. CASE hold["task"][k] \in Active /\ hold["other"][k] \in Active
    <3>1. S = {"task", "other"}
      BY <2>1, BothHolders
    <3>2. Cardinality(S) = 2
      BY <1>2, <3>1
    <3>3. users = 2
      BY <2>1 DEF Uses
    <3> HIDE DEF users, S
    <3> QED BY <3>2, <3>3
  <2>2. CASE hold["task"][k] \in Active /\ hold["other"][k] \notin Active
    <3>1. S = {"task"}
      BY <2>2, BothHolders
    <3>2. Cardinality(S) = 1
      BY <1>1, <3>1
    <3>3. users = 1
      BY <2>2 DEF Uses
    <3> HIDE DEF users, S
    <3> QED BY <3>2, <3>3
  <2>3. CASE hold["task"][k] \notin Active /\ hold["other"][k] \in Active
    <3>1. S = {"other"}
      BY <2>3, BothHolders
    <3>2. Cardinality(S) = 1
      BY <1>1, <3>1
    <3>3. users = 1
      BY <2>3 DEF Uses
    <3> HIDE DEF users, S
    <3> QED BY <3>2, <3>3
  <2>4. CASE hold["task"][k] \notin Active /\ hold["other"][k] \notin Active
    <3>1. S = {}
      BY <2>4, BothHolders
    <3>2. Cardinality(S) = 0
      BY <1>1, <3>1
    <3>3. users = 0
      BY <2>4 DEF Uses
    <3> HIDE DEF users, S
    <3> QED BY <3>2, <3>3
  <2> QED BY <2>1, <2>2, <2>3, <2>4
<1>5. entry[k].refs = kept[k] + users
  <2>1. Uses("task", k) \in Nat /\ Uses("other", k) \in Nat
    BY DEF Uses
  <2> QED BY <1>3, <2>1
<1> HIDE DEF users, S
<1>6. entry[k].refs = kept[k] + Cardinality(S)
  BY <1>4, <1>5
<1>7. entry[k].refs \in Nat /\ kept[k] \in 0..entry[k].refs
  BY <1>3, <1>4, <1>5
<1> QED BY <1>6, <1>7 DEF S

(* A book's counter is its holders, those who are getting it, and the       *)
(* joiners that gave up waiting for its creator, whose counts the code      *)
(* keeps; however often subscriptions fail, threads leave and the process   *)
(* restarts (best_bid_ask_provider: subscribe, release).                    *)
THEOREM BooksAreReleased == Spec => []WatchedWhileHeld
<1>1. Inv => WatchedWhileHeld
  <2> SUFFICES ASSUME Inv PROVE WatchedWhileHeld
    OBVIOUS
  <2>1. \A k \in Keys : entry[k].refs = kept[k] +
          Cardinality({s \in Holders : hold[s][k] \in {"creating", "joining", "held"}})
    BY HoldersOf DEF Inv, Active
  <2>2. subs => \A k \in Keys : hold["task"][k] = "held"
    BY DEF Inv, Subscriber
  <2>3. (\A w \in Workers : ~Alive(w)) => \A k \in Keys : hold["task"][k] = "no"
    BY DEF Inv, Subscriber, HoldsNone, Alive, InLoopPcs, None
  <2>4. \A s \in Holders, k \in Keys : hold[s][k] = "held" => entry[k].up
    BY DEF Inv, Counted
  <2> QED BY <2>1, <2>2, <2>3, <2>4 DEF WatchedWhileHeld
<1> QED BY <1>1, GateInvariant, PTL

(* No pass, pause, delete or closed gate waits for the end of the window:   *)
(* a thread sleeps on what it should sleep on, or a wake-up is on its way   *)
(* (_wait_for_smooth_gate, _notify_smooth_task).                            *)
THEOREM WakeupsArrive == Spec => []NoWakeupLost
<1>1. Inv => NoWakeupLost
  <2> SUFFICES ASSUME Inv PROVE NoWakeupLost
    OBVIOUS
  <2>1. /\ row.status \in {"paused", "running", "deleted", "done"} /\ row.sent \in 0..Target
        /\ row.gate.left \in 0..Window /\ row.gate.id \in 0..opened
    <3>1. row \in TaskRow /\ row.gate \in GateRow /\ row.gate.id <= opened /\ opened \in Nat
      BY DEF Inv, Typed, TaskRow
    <3> QED BY <3>1 DEF TaskRow, GateRow
  <2>2. TypeOK
    BY <2>1, HoldersOf DEF Inv, Typed, TypeOK, Holding
  <2>3. Announcing => req # NoRequest
    BY DEF Announcing, NoRequest
  <2> QED BY <2>2, <2>3 DEF NoWakeupLost, Inv, NotLost, Content
<1> QED BY <1>1, GateInvariant, PTL

(* A pass of the market pays on the books that were read, for an open as    *)
(* for a close, in both directions, whatever the quotes, the threshold and  *)
(* the quantity (evaluate_smooth_gate, compute_opening_spread_pct).         *)
THEOREM MarketPassesPay == Spec => []MarketPairPays
<1>1. Inv => MarketPairPays
  BY DEF Inv, Passed, MarketPairPays, Pays
<1> QED BY <1>1, GateInvariant, PTL

(* A pair goes out on the gate that its pass was for (prepare_attempt,      *)
(* expected_gate_seq).                                                      *)
THEOREM PassesAreForTheirGate == Spec => PairOnItsGate
<1>1. ASSUME Inv, Next
      PROVE  row'.sent > row.sent => row.gate.open /\ sent'.id = row.gate.id
  <2> SUFFICES ASSUME row'.sent > row.sent
               PROVE  row.gate.open /\ sent'.id = row.gate.id
    OBVIOUS
  <2>1. row \in TaskRow /\ row.sent \in Nat
    BY <1>1 DEF Inv, Typed, TaskRow
  <2>2. row'.sent # row.sent
    BY <2>1
  <2>3. ASSUME NEW st \in {"paused", "running", "deleted", "done"}, Status(st)
        PROVE  FALSE
    BY <1>1, <2>2, <2>3, StatusTyped DEF Inv
  <2>4. row' # Cleared
    BY <1>1, <2>2, ClearedTyped DEF Inv
  <2>5. row' # row
    BY <2>2
  <2>6. ASSUME NEW g, row' = [row EXCEPT !.gate = g]
        PROVE  FALSE
    BY <2>1, <2>2, <2>6 DEF TaskRow
  <2>7. ASSUME NEW w \in Workers, WorkerStep(w) PROVE Send(w)
    <3>1. ~Round(w)
      BY <2>3, <2>4, <2>5 DEF Round
    <3>2. ~Open(w)
      BY <2>5, <2>6 DEF Open
    <3>3. ~Subscribe(w)
      BY <2>3, <2>5 DEF Subscribe
    <3>4. ~Decide(w)
      BY <2>4, <2>5 DEF Decide
    <3>5. /\ ~Subscribed(w) /\ ~Look(w) /\ ~Wait(w) /\ ~After(w)
          /\ ~Exit(w) /\ ~Deregister(w) /\ ~HandOver(w) /\ ~Again(w)
      BY <2>5 DEF Subscribed, Look, Wait, After, Exit, Deregister, HandOver, Again, taskVars
    <3> QED BY <2>7, <3>1, <3>2, <3>3, <3>4, <3>5 DEF WorkerStep
  <2>8. ASSUME NEW k \in {"pause", "delete", "start", "fill"} \cup Toggles, Request(k)
        PROVE  FALSE
    <3>1. row' = [row EXCEPT !.gate = [row.gate EXCEPT !.force = TRUE]]
      BY <2>3, <2>5, <2>8 DEF Request
    <3> QED BY <2>6, <3>1
  <2>9. ~Announce /\ ~Employ /\ ~Restart
    BY <2>5 DEF Announce, Employ, Restart, taskVars
  <2>10. ~Tick
    <3> SUFFICES ASSUME Tick PROVE FALSE
      OBVIOUS
    <3>1. row' = [row EXCEPT !.gate = [row.gate EXCEPT !.left = row.gate.left - 1]]
      BY <2>1 DEF Tick, TaskRow
    <3> QED BY <2>6, <3>1
  <2>11. ASSUME NEW k \in Keys
         PROVE  /\ ~SubscriptionFails(k) /\ ~StartWatch(k) /\ ~Change(k) /\ ~Tell(k)
                /\ ~Other(k) /\ ~OtherJoined(k)
                /\ \A s \in Holders : ~JoinerGivesUp(s, k)
    BY <2>5 DEF SubscriptionFails, StartWatch, Change, Tell, Other, OtherJoined, JoinerGivesUp,
                taskVars
  <2>12. PICK w \in Workers : Send(w)
    BY <1>1, <2>7, <2>8, <2>9, <2>10, <2>11 DEF Next
  <2> QED BY <1>1, <2>12, SendStep
<1>2. Inv /\ [Next]_vars => [row'.sent > row.sent => row.gate.open /\ sent'.id = row.gate.id]_vars
  BY <1>1
<1> QED BY <1>2, GateInvariant, PTL DEF Spec, PairOnItsGate
===============================================================================
