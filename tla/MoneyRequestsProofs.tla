------------------------ MODULE MoneyRequestsProofs ------------------------
(***************************************************************************)
(* MoneyRequests implements OneShot, and the repayment form's lock is      *)
(* safe, for any number of requests and server threads.                    *)
(***************************************************************************)
EXTENDS MoneyRequests, TLAPS

-----------------------------------------------------------------------------
(* The inductive invariant.                                                *)

Row == {NoRow} \cup [status : Status, late : BOOLEAN]
Thread == {Idle} \cup [pc : {"begin", "send", "waiting"}, req : Request,
                       own : BOOLEAN, fate : {"none", "moved", "refused"}]

Types ==
  /\ row \in [Request -> Row]
  /\ handler \in [Handler -> Thread]
  /\ calls \subseteq [req : Request, own : BOOLEAN]
  /\ wire \subseteq Handler \X Request
  /\ moves \in [Request -> Nat]
  /\ page \in [Kind -> [lock : Locks, id : Nat]]
  /\ lost \subseteq Request
  /\ acked \subseteq Request

(* A form that waits or is locked is about a request it made.              *)
FormHasRequest ==
  \A k \in Kind : /\ page[k].id <= MaxId[k]
                  /\ page[k].lock # "free" => page[k].id # 0

(* The thread is past the insert that only one thread of a request passes. *)
Serves(h) == handler[h].pc \in {"send", "waiting"}
OnWire(r) == \E h \in Handler : <<h, r>> \in wire

Pending == [status |-> "pending", late |-> FALSE]

(* One thread serves a request, and its row waits for that thread.         *)
OneServes ==
  /\ \A h \in Handler : Serves(h) => row[handler[h].req] = Pending
  /\ \A g, h \in Handler :
       Serves(g) /\ Serves(h) /\ handler[g].req = handler[h].req => g = h

(* What a thread knows of the exchange is true.                            *)
Knows(h) ==
  LET r == handler[h].req IN
  /\ handler[h].pc \in {"begin", "send"} => handler[h].fate = "none"
  /\ handler[h].pc = "send" => moves[r] = 0 /\ ~OnWire(r)
  /\ handler[h].pc = "waiting" =>
       /\ handler[h].fate = "none" => <<h, r>> \in wire
       /\ handler[h].fate # "none" => ~OnWire(r)
       /\ handler[h].fate = "refused" => moves[r] = 0
       /\ handler[h].fate = "moved" => moves[r] = 1

ThreadKnows == \A h \in Handler : Knows(h)

(* What the exchange still has was sent once, has not moved, and the store *)
(* does not say that it knows the end.                                     *)
WireIsOpen ==
  /\ \A g, h \in Handler, r \in Request :
       <<g, r>> \in wire /\ <<h, r>> \in wire => g = h
  /\ \A r \in Request : OnWire(r) => moves[r] = 0 /\ Told(r) \in {"pending", "unknown"}
  /\ \A r \in Request : row[r] = NoRow => moves[r] = 0 /\ ~OnWire(r)

Server == OneServes /\ ThreadKnows /\ WireIsOpen
Inv == Types /\ FormHasRequest /\ Server

-----------------------------------------------------------------------------
(* Types.                                                                  *)

\* A request names its kind and a number within the bound.
LEMMA RequestShape ==
  \A r \in Request : r.kind \in Kind /\ r.id \in 1..MaxId[r.kind]
BY DEF Request

\* Every kind and number make a request.
LEMMA RequestMade ==
  ASSUME NEW k \in Kind, NEW i \in 1..MaxId[k]
  PROVE  [kind |-> k, id |-> i] \in Request
BY DEF Request

\* An answer never leaves a form waiting, and never changes what it is about.
LEMMA FormAnswered ==
  ASSUME NEW k \in Kind, NEW f \in [lock : Locks, id : Nat], NEW ans
  PROVE  /\ FormAfter(k, f, ans) \in [lock : Locks \ {"waiting"}, id : Nat]
         /\ FormAfter(k, f, ans).id = f.id
BY DEF FormAfter, RepayForm, TransferForm, Locks

\* A reply leaves the forms typed and about the requests they made.
LEMMA ReplyTyped ==
  ASSUME Types, FormHasRequest, NEW c, c.req \in Request, NEW ans, Reply(c, ans)
  PROVE  /\ page' \in [Kind -> [lock : Locks, id : Nat]]
         /\ lost' \subseteq Request
         /\ FormHasRequest'
<1>1. CASE c.own /\ Waits(c.req)
  <2> DEFINE k == c.req.kind
  <2>1. k \in Kind
    BY RequestShape
  <2>2. page[k] \in [lock : Locks, id : Nat] /\ page[k].lock = "waiting"
    BY <1>1, <2>1 DEF Types, Waits
  <2>3. page' = [page EXCEPT ![k] = FormAfter(k, page[k], ans)]
    BY <1>1 DEF Reply
  <2>4. /\ FormAfter(k, page[k], ans) \in [lock : Locks, id : Nat]
        /\ FormAfter(k, page[k], ans).id = page[k].id
    BY <2>1, <2>2, FormAnswered
  <2>5. lost' \subseteq Request
    BY <1>1 DEF Reply, Types
  <2>6. page' \in [Kind -> [lock : Locks, id : Nat]]
    BY <2>1, <2>3, <2>4 DEF Types
  <2>7. FormHasRequest'
    <3> SUFFICES ASSUME NEW j \in Kind
                 PROVE  page'[j].id <= MaxId[j] /\ (page'[j].lock # "free" => page'[j].id # 0)
      BY DEF FormHasRequest
    <3>1. CASE j = k
      BY <2>1, <2>2, <2>3, <2>4, <3>1 DEF FormHasRequest, Types
    <3>2. CASE j # k
      BY <2>1, <2>3, <3>2 DEF FormHasRequest, Types
    <3> QED BY <3>1, <3>2
  <2> QED BY <2>5, <2>6, <2>7
<1>2. CASE ~(c.own /\ Waits(c.req))
  BY <1>2 DEF Reply, Types, FormHasRequest
<1> QED BY <1>1, <1>2

\* A thread that is at work has all its fields.
LEMMA HandlerTyped ==
  ASSUME Types, NEW h \in Handler, Busy(h)
  PROVE  handler[h] \in [pc : {"begin", "send", "waiting"}, req : Request,
                         own : BOOLEAN, fate : {"none", "moved", "refused"}]
BY DEF Types, Thread, Busy, Idle

\* Whatever the exchange answers is classified.
LEMMA ClassifiedStatus ==
  ASSUME NEW k, NEW a
  PROVE  Classify(k, a) \in Settled
BY DEF Classify, ClassifyTransfer, ClassifyRepay, Settled

\* The tables start empty and the forms free.
LEMMA InitTypes == Init => Types /\ FormHasRequest
<1> SUFFICES ASSUME Init PROVE Types /\ FormHasRequest
  OBVIOUS
<1>1. Types
  BY DEF Init, Types, Row, Thread, Form, Locks
<1>2. FormHasRequest
  BY MaxIdAssumption DEF Init, FormHasRequest, Form
<1> QED BY <1>1, <1>2

\* Steps of the page keep the types.
LEMMA TypesPage ==
  ASSUME Types, FormHasRequest, PageStep
  PROVE  Types' /\ FormHasRequest'
<1> USE MaxIdAssumption
<1>0. \A k \in Kind : MaxId[k] \in Nat /\ page[k] \in [lock : Locks, id : Nat]
  BY DEF Types
<1>1. ASSUME NEW k \in Kind, Submit(k) PROVE Types' /\ FormHasRequest'
  <2>1. page[k].id + 1 \in 1..MaxId[k]
    BY <1>0, <1>1 DEF Submit
  <2>2. [kind |-> k, id |-> page[k].id + 1] \in Request
    BY <2>1, RequestMade
  <2>3. [req |-> [kind |-> k, id |-> page[k].id + 1], own |-> TRUE] \in [req : Request, own : BOOLEAN]
    BY <2>2
  <2>4. Form("waiting", page[k].id + 1) \in [lock : Locks, id : Nat]
    BY <1>0 DEF Form, Locks
  <2>5. Types'
    BY <1>1, <2>3, <2>4 DEF Submit, Types, server, exchange
  <2>6. FormHasRequest'
    BY <1>0, <1>1 DEF Submit, FormHasRequest, Form, Types
  <2> QED BY <2>5, <2>6
<1>2. ASSUME NEW k \in Kind, LoseAnswer(k) PROVE Types' /\ FormHasRequest'
  <2>1. page[k].id \in 1..MaxId[k]
    BY <1>0, <1>2 DEF LoseAnswer, FormHasRequest
  <2>2. [kind |-> k, id |-> page[k].id] \in Request
    BY <2>1, RequestMade
  <2>3. /\ FormAfter(k, page[k], "dead") \in [lock : Locks, id : Nat]
        /\ FormAfter(k, page[k], "dead").id = page[k].id
    BY <1>0, FormAnswered
  <2>4. Types'
    BY <1>2, <2>2, <2>3 DEF LoseAnswer, Types, server, exchange
  <2>5. FormHasRequest'
    <3> SUFFICES ASSUME NEW j \in Kind
                 PROVE  page'[j].id <= MaxId[j] /\ (page'[j].lock # "free" => page'[j].id # 0)
      BY DEF FormHasRequest
    <3>1. CASE j = k
      BY <1>0, <1>2, <2>1, <2>3, <3>1 DEF LoseAnswer, Types
    <3>2. CASE j # k
      BY <1>2, <3>2 DEF LoseAnswer, FormHasRequest, Types
    <3> QED BY <3>1, <3>2
  <2> QED BY <2>4, <2>5
<1>3. ASSUME NEW k \in Kind, Acknowledge(k) PROVE Types' /\ FormHasRequest'
  <2>1. page[k].id \in 1..MaxId[k]
    BY <1>0, <1>3 DEF Acknowledge, FormHasRequest
  <2>2. [kind |-> k, id |-> page[k].id] \in Request
    BY <2>1, RequestMade
  <2>3. Types'
    BY <1>0, <1>3, <2>2 DEF Acknowledge, Types, Locks, server, exchange
  <2>4. FormHasRequest'
    BY <1>0, <1>3 DEF Acknowledge, FormHasRequest, Types
  <2> QED BY <2>3, <2>4
<1>4. ASSUME NEW r \in Request, Resend(r) PROVE Types' /\ FormHasRequest'
  <2>1. [req |-> r, own |-> FALSE] \in [req : Request, own : BOOLEAN]
    OBVIOUS
  <2> QED BY <1>4, <2>1 DEF Resend, Types, FormHasRequest, server, exchange
<1>5. CASE Recover
  <2> DEFINE r == [kind |-> "repay", id |-> page["repay"].id]
             f == RepayForm(page["repay"], row[r].status)
  <2>1. f \in [lock : Locks, id : Nat] /\ f.id = page["repay"].id
    BY <1>0 DEF RepayForm, Locks, Kind
  <2>2. page' = [page EXCEPT !["repay"] = f] /\ page["repay"].lock = "held"
    BY <1>5 DEF Recover
  <2> HIDE DEF f
  <2>3. Types'
    BY <1>5, <2>1, <2>2 DEF Recover, Types, server, exchange
  <2>4. FormHasRequest'
    BY <1>0, <2>1, <2>2 DEF FormHasRequest, Types
  <2> QED BY <2>3, <2>4
<1>6. ASSUME NEW ok \in BOOLEAN, Refreshed(ok) PROVE Types' /\ FormHasRequest'
  <2>1. Types'
    BY <1>0, <1>6 DEF Refreshed, Types, Locks, server, exchange, Kind
  <2>2. FormHasRequest'
    BY <1>0, <1>6 DEF Refreshed, FormHasRequest, Types
  <2> QED BY <2>1, <2>2
<1>7. CASE Reload
  <2>1. Types'
    BY <1>0, <1>7 DEF Reload, Types, Form, Locks, server, exchange
  <2>2. FormHasRequest'
    BY <1>0, <1>7 DEF Reload, FormHasRequest, Form
  <2> QED BY <2>1, <2>2
<1> QED BY <1>1, <1>2, <1>3, <1>4, <1>5, <1>6, <1>7 DEF PageStep

\* Steps of a thread keep the types.
LEMMA TypesThread ==
  ASSUME Types, FormHasRequest, NEW h \in Handler, HandlerStep(h)
  PROVE  Types' /\ FormHasRequest'
<1> DEFINE r == handler[h].req
<1>0. Busy(h) => /\ handler[h].pc \in {"begin", "send", "waiting"} /\ r \in Request
                 /\ handler[h].own \in BOOLEAN /\ handler[h].fate \in {"none", "moved", "refused"}
  BY DEF Types, Busy, Thread, Idle
<1>1. CASE Begin(h)
  <2>1. Busy(h)
    BY <1>1 DEF Begin, Busy
  <2>2. /\ page' \in [Kind -> [lock : Locks, id : Nat]]
        /\ lost' \subseteq Request
        /\ FormHasRequest'
    BY <1>0, <1>1, <2>1, ReplyTyped DEF Begin, Types, FormHasRequest
  <2>3. row' \in [Request -> Row]
    <3>1. [status |-> "pending", late |-> FALSE] \in Row
      BY DEF Row, Status
    <3> QED BY <1>0, <1>1, <2>1, <3>1 DEF Begin, Types
  <2>4. handler' \in [Handler -> Thread]
    <3>1. [handler[h] EXCEPT !.pc = "send"] \in Thread /\ Idle \in Thread
      BY <1>0, <2>1, HandlerTyped DEF Thread
    <3> QED BY <1>1, <3>1 DEF Begin, Drop, Types
  <2> QED BY <1>1, <2>2, <2>3, <2>4 DEF Begin, Types, exchange
<1>2. CASE Send(h)
  <2>1. Busy(h)
    BY <1>2 DEF Send, Busy
  <2>2. handler' \in [Handler -> Thread]
    <3>1. [handler[h] EXCEPT !.pc = "waiting"] \in Thread
      BY <1>0, <2>1, HandlerTyped DEF Thread
    <3> QED BY <1>2, <3>1 DEF Send, Types
  <2>3. wire' \subseteq Handler \X Request
    BY <1>0, <1>2, <2>1 DEF Send, Types
  <2> QED BY <1>2, <2>2, <2>3 DEF Send, Types, FormHasRequest
<1>3. ASSUME NEW a \in Answer, Resolve(h, a) PROVE Types' /\ FormHasRequest'
  <2>1. Busy(h)
    BY <1>3 DEF Resolve, Busy
  <2>2. /\ page' \in [Kind -> [lock : Locks, id : Nat]]
        /\ lost' \subseteq Request
        /\ FormHasRequest'
    BY <1>0, <1>3, <2>1, ReplyTyped DEF Resolve
  <2>3. row' \in [Request -> Row]
    BY <1>0, <1>3, <2>1, ClassifiedStatus DEF Resolve, Types, Row, Status
  <2> QED BY <1>3, <2>2, <2>3 DEF Resolve, Drop, Types, Thread, exchange
<1>4. CASE StoreFails(h)
  <2>1. /\ page' \in [Kind -> [lock : Locks, id : Nat]]
        /\ lost' \subseteq Request
        /\ FormHasRequest'
    BY <1>0, <1>4, ReplyTyped DEF StoreFails
  <2> QED BY <1>4, <2>1 DEF StoreFails, Drop, Types, Thread, exchange
<1> QED BY <1>1, <1>2, <1>3, <1>4 DEF HandlerStep

\* A thread taken, a decision of the exchange and a restart keep the types.
LEMMA TypesOther ==
  ASSUME Types, FormHasRequest
  PROVE  /\ \A h \in Handler, c \in calls, accepted \in BOOLEAN :
              Receive(h, c, accepted) => Types' /\ FormHasRequest'
         /\ \A h \in Handler, r \in Request, fate \in {"moved", "refused"} :
              Decide(h, r, fate) => Types' /\ FormHasRequest'
         /\ Restart => Types' /\ FormHasRequest'
<1>1. ASSUME NEW h \in Handler, NEW c \in calls, NEW accepted \in BOOLEAN,
             Receive(h, c, accepted)
      PROVE  Types' /\ FormHasRequest'
  <2>1. c.req \in Request /\ c.own \in BOOLEAN
    BY DEF Types
  <2>2. /\ page' \in [Kind -> [lock : Locks, id : Nat]]
        /\ lost' \subseteq Request
        /\ FormHasRequest'
    BY <1>1, <2>1, ReplyTyped DEF Receive, Types, FormHasRequest
  <2>3. handler' \in [Handler -> Thread]
    BY <1>1, <2>1 DEF Receive, Types, Thread
  <2> QED BY <1>1, <2>2, <2>3 DEF Receive, Types, exchange
<1>2. ASSUME NEW h \in Handler, NEW r \in Request, NEW fate \in {"moved", "refused"},
             Decide(h, r, fate)
      PROVE  Types' /\ FormHasRequest'
  <2>1. handler' \in [Handler -> Thread]
    BY <1>2 DEF Decide, Types, Thread, Idle, Works, Busy
  <2>2. moves' \in [Request -> Nat]
    BY <1>2 DEF Decide, Types
  <2> QED BY <1>2, <2>1, <2>2 DEF Decide, Types, FormHasRequest
<1>3. CASE Restart
  <2>1. \A k \in Kind : /\ page[k] \in [lock : Locks, id : Nat]
                        /\ FormAfter(k, page[k], "dead") \in [lock : Locks, id : Nat]
                        /\ FormAfter(k, page[k], "dead").id = page[k].id
    BY FormAnswered DEF Types
  <2>2. /\ page' \in [Kind -> [lock : Locks, id : Nat]]
        /\ \A k \in Kind : /\ page'[k].id = page[k].id
                           /\ page'[k].lock = page[k].lock \/ page[k].lock = "waiting"
    BY <1>3, <2>1 DEF Restart
  <2>3. FormHasRequest'
    BY <2>2 DEF FormHasRequest
  <2> QED BY <1>3, <2>2, <2>3 DEF Restart, Types, Thread, exchange
<1> QED BY <1>1, <1>2, <1>3

\* Every step keeps the types.
LEMMA TypesStep ==
  ASSUME Types, FormHasRequest, [Next]_vars
  PROVE  Types' /\ FormHasRequest'
<1>1. CASE UNCHANGED vars
  BY <1>1 DEF vars, Types, FormHasRequest
<1> QED BY <1>1, TypesPage, TypesThread, TypesOther DEF Next

-----------------------------------------------------------------------------
(* The server and the exchange.                                            *)

\* At the start nothing is served or sent.
LEMMA InitServer == Init => Server
BY DEF Init, Server, OneServes, ThreadKnows, Knows, WireIsOpen, Serves, OnWire, Idle

\* The page and the calls are nothing to the invariant.
LEMMA ServerUntouched ==
  ASSUME Server, UNCHANGED <<row, handler, wire, moves>>
  PROVE  Server'
BY DEF Server, OneServes, ThreadKnows, Knows, WireIsOpen, Serves, OnWire, Told

\* A thread that leaves, or has only taken a call, serves nobody.
LEMMA ServerWithout ==
  ASSUME Types, Server, UNCHANGED <<row, wire, moves>>,
         handler' \in [Handler -> Thread],
         \A h \in Handler : \/ handler'[h] = handler[h]
                             \/ handler'[h] = Idle
                             \/ (handler'[h].pc = "begin" /\ handler'[h].fate = "none")
  PROVE  Server'
<1>1. \A h \in Handler : Serves(h)' => Serves(h) /\ handler'[h] = handler[h]
  BY DEF Serves, Idle
<1>2. OneServes'
  BY <1>1 DEF Server, OneServes
<1>3. ThreadKnows'
  <2> SUFFICES ASSUME NEW g \in Handler PROVE Knows(g)'
    BY DEF ThreadKnows
  <2>1. CASE handler'[g] = handler[g]
    BY <2>1 DEF Server, ThreadKnows, Knows, OnWire
  <2>2. CASE handler'[g] = Idle
    BY <2>2 DEF Knows, Idle
  <2>3. CASE handler'[g].pc = "begin" /\ handler'[g].fate = "none"
    BY <2>3 DEF Knows
  <2> QED BY <2>1, <2>2, <2>3
<1>4. WireIsOpen'
  BY DEF Server, WireIsOpen, OnWire, Told
<1> QED BY <1>2, <1>3, <1>4 DEF Server

\* The insert makes the thread the only one that serves the request.
LEMMA ServerBegin ==
  ASSUME Types, Types', Server, NEW h \in Handler, Begin(h)
  PROVE  Server'
<1> DEFINE r == handler[h].req
<1>0. r \in Request
  BY DEF Begin, Types, Thread, Idle
<1>1. CASE row[r] = NoRow
  <2>1. /\ row' = [row EXCEPT ![r] = Pending]
        /\ handler' = [handler EXCEPT ![h].pc = "send"]
        /\ UNCHANGED <<wire, moves>>
    BY <1>1 DEF Begin, Pending, exchange
  <2>2. moves[r] = 0 /\ ~OnWire(r)
    BY <1>0, <1>1 DEF Server, WireIsOpen
  <2>3. \A g \in Handler : Serves(g) => handler[g].req # r
    BY <1>1 DEF Server, OneServes, Pending, NoRow
  <2>4. \A g \in Handler : g # h => handler'[g] = handler[g]
    BY <2>1 DEF Types
  <2>5. handler'[h].pc = "send" /\ handler'[h].req = r /\ handler'[h].fate = handler[h].fate
    BY <2>1 DEF Types, Thread, Begin
  <2>6. \A q \in Request : row'[q] = IF q = r THEN Pending ELSE row[q]
    BY <1>0, <2>1 DEF Types
  <2>7. OneServes'
    <3>1. \A g \in Handler : Serves(g) => handler[g].req \in Request
      BY DEF Types, Thread, Serves, Idle
    <3> QED BY <1>0, <2>3, <2>4, <2>5, <2>6, <3>1 DEF Server, OneServes, Serves
  <2>8. ThreadKnows'
    <3> SUFFICES ASSUME NEW g \in Handler PROVE Knows(g)'
      BY DEF ThreadKnows
    <3>0. Knows(g) /\ Knows(h)
      BY DEF Server, ThreadKnows
    <3>1. CASE g # h
      BY <2>1, <2>4, <3>0, <3>1 DEF Knows, OnWire
    <3>2. CASE g = h
      <4>1. handler[h].fate = "none"
        BY <3>0 DEF Begin, Knows
      <4> QED BY <2>1, <2>2, <2>5, <3>2, <4>1 DEF Knows, OnWire
    <3> QED BY <3>1, <3>2
  <2>9. WireIsOpen'
    BY <2>1, <2>2, <2>6 DEF Server, WireIsOpen, OnWire, Told, Pending, NoRow
  <2> QED BY <2>7, <2>8, <2>9 DEF Server
<1>2. CASE row[r] # NoRow
  BY <1>2, ServerWithout DEF Begin, Drop, Types, exchange
<1> QED BY <1>1, <1>2

\* Only the serving thread sends, and it sends once.
LEMMA ServerSend ==
  ASSUME Types, Types', Server, NEW h \in Handler, Send(h)
  PROVE  Server'
<1> DEFINE r == handler[h].req
<1>0. r \in Request /\ Serves(h)
  BY DEF Send, Types, Thread, Idle, Serves
<1>1. /\ handler' = [handler EXCEPT ![h].pc = "waiting"]
      /\ wire' = wire \cup {<<h, r>>}
      /\ UNCHANGED <<row, moves>>
  BY DEF Send
<1>2. /\ moves[r] = 0 /\ ~OnWire(r) /\ handler[h].fate = "none"
      /\ row[r] = Pending
  BY <1>0 DEF Server, OneServes, ThreadKnows, Knows, Send
<1>3. \A g \in Handler : g # h => handler'[g] = handler[g]
  BY <1>1 DEF Types
<1>4. handler'[h].pc = "waiting" /\ handler'[h].req = r /\ handler'[h].fate = "none"
  BY <1>1, <1>2 DEF Types, Thread, Send
<1>5. \A g \in Handler : Serves(g)' <=> Serves(g)
  BY <1>0, <1>3, <1>4 DEF Serves
<1>6. \A g \in Handler : Serves(g) /\ handler[g].req = r => g = h
  BY <1>0 DEF Server, OneServes
<1>7. \A g \in Handler, q \in Request :
        <<g, q>> \in wire' <=> <<g, q>> \in wire \/ (g = h /\ q = r)
  BY <1>1
<1>8. OneServes'
  BY <1>1, <1>3, <1>4, <1>5 DEF Server, OneServes
<1>9. ThreadKnows'
  <2> SUFFICES ASSUME NEW g \in Handler PROVE Knows(g)'
    BY DEF ThreadKnows
  <2>0. CASE g = h
    BY <1>1, <1>4, <2>0 DEF Knows
  <2>1. CASE g # h
    <3>1. handler'[g] = handler[g] /\ Knows(g)
      BY <1>3, <2>1 DEF Server, ThreadKnows
    <3>2. Serves(g) => handler[g].req \in Request /\ handler[g].req # r
      BY <1>6, <2>1 DEF Types, Thread, Serves, Idle
    <3>3. \A q \in Request : q # r => (OnWire(q)' <=> OnWire(q))
      BY <1>7 DEF OnWire
    <3> QED BY <1>1, <1>7, <2>1, <3>1, <3>2, <3>3 DEF Knows, Serves, OnWire
  <2> QED BY <2>0, <2>1
<1>10. WireIsOpen'
  <2>1. \A q \in Request : OnWire(q)' <=> OnWire(q) \/ q = r
    BY <1>7 DEF OnWire
  <2>2. Told(r) = "pending" /\ row[r] # NoRow
    BY <1>2 DEF Told, Pending, NoRow
  <2>3. \A f, g \in Handler, q \in Request : <<f, q>> \in wire' /\ <<g, q>> \in wire' => f = g
    BY <1>2, <1>7 DEF Server, WireIsOpen, OnWire
  <2> QED BY <1>0, <1>1, <1>2, <2>1, <2>2, <2>3 DEF Server, WireIsOpen, Told
<1> QED BY <1>8, <1>9, <1>10 DEF Server

\* The exchange decides what it has; the thread that waits learns it.
LEMMA ServerDecide ==
  ASSUME Types, Types', Server, NEW h \in Handler, NEW r \in Request,
         NEW fate \in {"moved", "refused"}, Decide(h, r, fate)
  PROVE  Server'
<1>1. /\ <<h, r>> \in wire
      /\ wire' = wire \ {<<h, r>>}
      /\ moves' = IF fate = "moved" THEN [moves EXCEPT ![r] = @ + 1] ELSE moves
      /\ handler' = IF Works(h, r) /\ handler[h].pc = "waiting"
                    THEN [handler EXCEPT ![h].fate = fate] ELSE handler
      /\ UNCHANGED row
  BY DEF Decide
<1>2. moves[r] = 0 /\ OnWire(r) /\ Told(r) \in {"pending", "unknown"} /\ row[r] # NoRow
  BY <1>1 DEF Server, WireIsOpen, OnWire
<1>3. \A g \in Handler : ~(<<g, r>> \in wire')
  BY <1>1 DEF Server, WireIsOpen
<1>4. \A g \in Handler, q \in Request : q # r => (<<g, q>> \in wire' <=> <<g, q>> \in wire)
  BY <1>1
<1>5. /\ \A q \in Request : q # r => moves'[q] = moves[q]
      /\ moves'[r] = IF fate = "moved" THEN 1 ELSE 0
  BY <1>1, <1>2 DEF Types
<1>6. \A q \in Request : OnWire(q)' <=> OnWire(q) /\ q # r
  BY <1>3, <1>4 DEF OnWire
<1>7. \A g \in Handler : /\ handler'[g].pc = handler[g].pc
                         /\ Serves(g) => /\ handler'[g].req = handler[g].req
                                         /\ handler[g].req \in Request
  BY <1>1 DEF Types, Thread, Serves, Idle, Works, Busy
<1>8. \A g \in Handler : g # h => handler'[g] = handler[g]
  BY <1>1 DEF Types
<1>9. OneServes'
  BY <1>1, <1>7 DEF Server, OneServes, Serves
<1>10. ThreadKnows'
  <2> SUFFICES ASSUME NEW g \in Handler PROVE Knows(g)'
    BY DEF ThreadKnows
  <2>1. CASE g = h /\ Works(h, r) /\ handler[h].pc = "waiting"
    <3>1. handler'[h].fate = fate /\ handler'[h].req = r /\ handler'[h].pc = "waiting"
      BY <1>1, <2>1 DEF Types, Thread, Works, Idle
    <3> QED BY <1>5, <1>6, <2>1, <3>1 DEF Knows
  <2>2. CASE ~(g = h /\ Works(h, r) /\ handler[h].pc = "waiting")
    <3>1. handler'[g] = handler[g]
      BY <1>1, <1>8, <2>2
    <3>2. Serves(g) => handler[g].req # r
      <4> SUFFICES ASSUME Serves(g), handler[g].req = r PROVE FALSE
        OBVIOUS
      <4>1. handler[g].pc = "waiting" /\ handler[g].fate = "none"
        BY <1>2 DEF Server, ThreadKnows, Knows, Serves
      <4>2. <<g, r>> \in wire
        BY <4>1 DEF Server, ThreadKnows, Knows
      <4>3. g = h
        BY <1>1, <4>2 DEF Server, WireIsOpen
      <4> QED BY <2>2, <4>1, <4>3 DEF Works, Busy
    <3> QED BY <1>4, <1>5, <1>6, <1>7, <3>1, <3>2 DEF Server, ThreadKnows, Knows, Serves
  <2> QED BY <2>1, <2>2
<1>11. WireIsOpen'
  <2>1. \A f, g \in Handler, q \in Request : <<f, q>> \in wire' /\ <<g, q>> \in wire' => f = g
    BY <1>1 DEF Server, WireIsOpen
  <2> QED BY <1>1, <1>2, <1>5, <1>6, <2>1 DEF Server, WireIsOpen, Told
<1> QED BY <1>9, <1>10, <1>11 DEF Server

\* The thread that writes the outcome is the only one that may, and what it writes
\* is true of the money.
LEMMA ServerResolve ==
  ASSUME Types, Types', Server, NEW h \in Handler, NEW a \in Answer, Resolve(h, a),
         NEW r, r = handler[h].req
  PROVE  /\ Server'
         /\ row[r] = Pending
         /\ row' = [row EXCEPT ![r] = row'[r]]
         /\ Told(r)' \in Settled
         /\ Told(r)' = "succeeded" => moves[r] = 1
         /\ Told(r)' = "failed" => moves[r] = 0
<1> DEFINE s == Classify(r.kind, a)
           late == s = "failed" /\ a = "timeout408"
<1>0. r \in Request /\ Serves(h)
  BY DEF Resolve, Types, Thread, Idle, Serves
<1>1. /\ row' = [row EXCEPT ![r] = [status |-> s, late |-> late]]
      /\ handler' = [handler EXCEPT ![h] = Idle]
      /\ UNCHANGED <<wire, moves>>
  BY DEF Resolve, Drop, exchange
<1>2. row[r] = Pending /\ \A g \in Handler : Serves(g) /\ handler[g].req = r => g = h
  BY <1>0 DEF Server, OneServes
<1>3. s \in Settled
  BY ClassifiedStatus
<1>4. Knows(h)
  BY DEF Server, ThreadKnows
<1>5. ASSUME handler[h].pc = "waiting"
      PROVE  /\ s = "succeeded" => moves[r] = 1
             /\ s = "failed" /\ ~late => moves[r] = 0
             /\ OnWire(r) => s = "unknown" \/ late
  <2>1. a \in Possible(handler[h].fate)
    BY <1>5 DEF Resolve
  <2>2. handler[h].fate \in {"none", "moved", "refused"}
    BY <1>5 DEF Types, Thread, Idle
  <2> QED BY <1>4, <1>5, <2>1, <2>2
          DEF Knows, Possible, Classify, ClassifyTransfer, ClassifyRepay
<1>6. ASSUME handler[h].pc = "send" PROVE s = "unknown"
  <2>1. a = "transport"
    BY <1>6 DEF Resolve
  <2> QED BY <2>1 DEF Classify, ClassifyTransfer, ClassifyRepay
<1>7. /\ s = "succeeded" => moves[r] = 1
      /\ s = "failed" /\ ~late => moves[r] = 0
      /\ OnWire(r) => s = "unknown" \/ late
  <2>1. handler[h].pc \in {"waiting", "send"}
    BY DEF Resolve
  <2>2. CASE handler[h].pc = "waiting"
    BY <1>5, <2>2
  <2>3. CASE handler[h].pc = "send"
    BY <1>6, <2>3
  <2> QED BY <2>1, <2>2, <2>3
<1>8. /\ row'[r] = [status |-> s, late |-> late]
      /\ row'[r] # NoRow
      /\ \A q \in Request : q # r => row'[q] = row[q]
  BY <1>0, <1>1 DEF Types, NoRow
<1>9. Told(r)' = IF late THEN "unknown" ELSE s
  <2>1. late \in BOOLEAN
    OBVIOUS
  <2> HIDE DEF s, late
  <2>2. row'[r].status = s /\ row'[r].late = late
    BY <1>8
  <2> QED BY <1>8, <2>1, <2>2 DEF Told
<1> HIDE DEF s, late
<1>10. \A g \in Handler : Serves(g)' => /\ Serves(g) /\ handler'[g] = handler[g]
                                        /\ handler[g].req \in Request /\ handler[g].req # r
  BY <1>0, <1>1, <1>2 DEF Types, Thread, Serves, Idle
<1>11. OneServes'
  BY <1>8, <1>10 DEF Server, OneServes
<1>12. ThreadKnows'
  <2> SUFFICES ASSUME NEW g \in Handler PROVE Knows(g)'
    BY DEF ThreadKnows
  <2>1. handler'[g] = handler[g] \/ handler'[g] = Idle
    BY <1>1 DEF Types
  <2>2. CASE handler'[g] = handler[g]
    BY <1>1, <2>2 DEF Server, ThreadKnows, Knows, OnWire
  <2>3. CASE handler'[g] = Idle
    BY <2>3 DEF Knows, Idle
  <2> QED BY <2>1, <2>2, <2>3
<1>13. WireIsOpen'
  <2>1. \A q \in Request : OnWire(q)' <=> OnWire(q)
    BY <1>1 DEF OnWire
  <2>2. OnWire(r) => Told(r)' \in {"pending", "unknown"}
    BY <1>3, <1>7, <1>9
  <2>3. \A q \in Request : q # r => Told(q)' = Told(q)
    BY <1>8 DEF Told
  <2> QED BY <1>1, <1>8, <2>1, <2>2, <2>3 DEF Server, WireIsOpen
<1> QED
  <2>1. row' = [row EXCEPT ![r] = row'[r]]
    BY <1>1, <1>8
  <2>2. Told(r)' \in Settled
    BY <1>3, <1>9 DEF Settled
  <2> QED BY <1>2, <1>7, <1>9, <1>11, <1>12, <1>13, <2>1, <2>2 DEF Server

\* Every step keeps the server's part of the invariant.
LEMMA ServerStep ==
  ASSUME Types, Types', Server, [Next]_vars
  PROVE  Server'
<1>1. CASE UNCHANGED vars
  BY <1>1, ServerUntouched DEF vars
<1>2. CASE PageStep
  BY <1>2, ServerUntouched
  DEF PageStep, Submit, LoseAnswer, Acknowledge, Resend, Recover, Refreshed, Reload, server, exchange
<1>3. ASSUME NEW h \in Handler, HandlerStep(h) PROVE Server'
  <2>1. CASE StoreFails(h)
    BY <2>1, ServerWithout DEF StoreFails, Drop, Types, exchange
  <2> QED BY <1>3, <2>1, ServerBegin, ServerSend, ServerResolve DEF HandlerStep
<1>4. ASSUME NEW h \in Handler, NEW c \in calls, NEW accepted \in BOOLEAN,
             Receive(h, c, accepted)
      PROVE  Server'
  BY <1>4, ServerWithout DEF Receive, Types, exchange
<1>5. CASE Restart
  BY <1>5, ServerWithout DEF Restart, Types, exchange
<1> QED BY <1>1, <1>2, <1>3, <1>4, <1>5, ServerDecide DEF Next

-----------------------------------------------------------------------------
(* Refinement.                                                             *)

\* One thread serves a request, knows only what is true of the exchange, and the
\* exchange decides a request once (store.begin, store.resolve).
THEOREM ServerInvariant == Spec => []Inv
<1>1. Init => Inv
  BY InitTypes, InitServer DEF Inv
<1>2. Inv /\ [Next]_vars => Inv'
  BY TypesStep, ServerStep DEF Inv
<1> QED BY <1>1, <1>2, PTL DEF Spec

\* The promise sees nothing of a step that leaves the rows and the money alone.
LEMMA PromiseStutters ==
  ASSUME UNCHANGED <<row, moves>>
  PROVE  UNCHANGED Promise!vars
BY DEF Promise!vars, Told

\* Every step is one of the promise, or nothing to it.
LEMMA PromiseStep ==
  ASSUME Inv, Inv', [Next]_vars
  PROVE  [Promise!Next]_(Promise!vars)
<1> USE DEF Inv
<1>1. CASE UNCHANGED vars
  BY <1>1, PromiseStutters DEF vars
<1>2. CASE PageStep
  BY <1>2, PromiseStutters
  DEF PageStep, Submit, LoseAnswer, Acknowledge, Resend, Recover, Refreshed, Reload, server, exchange
<1>3. ASSUME NEW h \in Handler, Begin(h) PROVE [Promise!Next]_(Promise!vars)
  <2> DEFINE r == handler[h].req
  <2>1. r \in Request
    BY <1>3 DEF Begin, Types, Thread, Idle
  <2>2. CASE row[r] # NoRow
    BY <1>3, <2>2, PromiseStutters DEF Begin, exchange
  <2>3. CASE row[r] = NoRow
    <3>1. row' = [row EXCEPT ![r] = Pending] /\ UNCHANGED moves
      BY <1>3, <2>3 DEF Begin, Pending, exchange
    <3>2. \A q \in Request : Told(q)' = IF q = r THEN "pending" ELSE Told(q)
      BY <2>1, <3>1 DEF Types, Told, Pending
    <3>3. Told(r) = "none"
      BY <2>3 DEF Told, NoRow
    <3>4. Promise!Register(r)
      BY <2>1, <3>1, <3>2, <3>3 DEF Promise!Register
    <3> QED BY <2>1, <3>4 DEF Promise!Next
  <2> QED BY <2>2, <2>3
<1>4. ASSUME NEW h \in Handler, NEW a \in Answer, Resolve(h, a)
      PROVE  [Promise!Next]_(Promise!vars)
  <2>1. PICK r \in Request : r = handler[h].req
    BY <1>4 DEF Resolve, Types, Thread, Idle
  <2>2. /\ row[r] = Pending
        /\ row' = [row EXCEPT ![r] = row'[r]]
        /\ Told(r)' \in Settled
        /\ Told(r)' = "succeeded" => moves[r] = 1
        /\ Told(r)' = "failed" => moves[r] = 0
    BY <1>4, <2>1, ServerResolve
  <2>3. UNCHANGED moves
    BY <1>4 DEF Resolve, exchange
  <2>4. Told(r) = "pending"
    BY <2>2 DEF Told, Pending
  <2>5. \A q \in Request : q # r => Told(q)' = Told(q)
    BY <2>1, <2>2 DEF Types, Told
  <2>6. Promise!Settle(r, Told(r)')
    BY <2>1, <2>2, <2>3, <2>4, <2>5 DEF Promise!Settle
  <2> QED BY <2>1, <2>2, <2>6 DEF Promise!Next, Promise!Final, Settled
<1>5. ASSUME NEW h \in Handler, NEW r \in Request, NEW fate \in {"moved", "refused"},
             Decide(h, r, fate)
      PROVE  [Promise!Next]_(Promise!vars)
  <2>1. CASE fate = "refused"
    BY <1>5, <2>1, PromiseStutters DEF Decide
  <2>2. CASE fate = "moved"
    <3>1. moves[r] = 0 /\ Told(r) \in {"pending", "unknown"}
      BY <1>5 DEF Decide, Server, WireIsOpen, OnWire
    <3>2. moves' = [moves EXCEPT ![r] = 1] /\ UNCHANGED row
      BY <1>5, <2>2, <3>1 DEF Decide, Types
    <3>3. \A q \in Request : Told(q)' = Told(q)
      BY <3>2 DEF Told
    <3>4. Promise!Move(r)
      BY <3>1, <3>2, <3>3 DEF Promise!Move
    <3> QED BY <3>4 DEF Promise!Next
  <2> QED BY <2>1, <2>2
<1>6. ASSUME NEW h \in Handler, Send(h) \/ StoreFails(h)
      PROVE  [Promise!Next]_(Promise!vars)
  BY <1>6, PromiseStutters DEF Send, StoreFails, exchange
<1>7. ASSUME NEW h \in Handler, NEW c \in calls, NEW accepted \in BOOLEAN,
             Receive(h, c, accepted)
      PROVE  [Promise!Next]_(Promise!vars)
  BY <1>7, PromiseStutters DEF Receive, exchange
<1>8. CASE Restart
  BY <1>8, PromiseStutters DEF Restart, exchange
<1> QED BY <1>1, <1>2, <1>3, <1>4, <1>5, <1>6, <1>7, <1>8 DEF Next, HandlerStep

\* The endpoints implement OneShot for any number of requests and threads
\* (server.py _handle_asset_transfer, _handle_margin_repay_post): no request
\* moves money twice or before it is stored, and what is stored at the end is
\* true and stays.
THEOREM RequestsKeepPromise == Spec => KeepsPromise
<1>1. Init => Promise!Init
  BY DEF Init, Promise!Init, Told, NoRow
<1>2. Inv /\ Inv' /\ [Next]_vars => [Promise!Next]_(Promise!vars)
  BY PromiseStep
<1> QED BY <1>1, <1>2, ServerInvariant, PTL DEF Spec, KeepsPromise, Promise!Spec

-----------------------------------------------------------------------------
(* The lock of the repayment form.                                         *)

(* Nothing of the request is left, and nobody will post it again.          *)
Gone(r) ==
  /\ row[r] = NoRow
  /\ \A c \in calls : c.req # r
  /\ \A h \in Handler : ~Works(h, r)
  /\ r \notin lost

Ended(r) == row[r].status \in {"succeeded", "failed"} \/ Gone(r) \/ r \in acked

(* While the form waits, its one call is under way or a thread has it.     *)
Awaited(r) ==
  /\ r \notin lost
  /\ \A c \in calls : c.req = r =>
       c.own /\ row[r] = NoRow /\ \A h \in Handler : ~Works(h, r)
  /\ \A h \in Handler : Works(h, r) => handler[h].own
  /\ \A g, h \in Handler : Works(g, r) /\ Works(h, r) => g = h

(* Requests before the form's current one, that one, and those to come.    *)
RepayOf(r) ==
  LET f == page["repay"] IN
  /\ r.id < f.id => Ended(r)
  /\ r.id = f.id => /\ f.lock = "free" => Ended(r)
                    /\ f.lock = "refresh" => row[r].status = "succeeded"
                    /\ f.lock = "waiting" => Awaited(r)
  /\ r.id > f.id => Gone(r)

RepayInv == \A r \in Request : r.kind = "repay" => RepayOf(r)

\* Kind and number identify a request.
LEMMA SameRequest ==
  \A q, r \in Request : q.kind = r.kind /\ q.id = r.id => q = r
BY DEF Request

\* What a reply does to the repayment form.
LEMMA ReplyRepay ==
  ASSUME Types, FormHasRequest, NEW c, c.req \in Request, NEW ans, Reply(c, ans),
         NEW r \in Request, r.kind = "repay"
  PROVE  LET f == page["repay"]
             meant == c.own /\ c.req.kind = "repay" /\ f.lock = "waiting" /\ f.id = c.req.id
         IN /\ ~meant => page'["repay"] = f /\ (r \in lost' <=> r \in lost)
            /\ meant => /\ page'["repay"] = RepayForm(f, ans)
                        /\ r # c.req => (r \in lost' <=> r \in lost)
                        /\ ans # "dead" => lost' = lost
<1>1. CASE ~(c.own /\ Waits(c.req))
  BY <1>1 DEF Reply, Waits
<1>2. CASE c.own /\ Waits(c.req)
  <2>1. page' = [page EXCEPT ![c.req.kind] = FormAfter(c.req.kind, page[c.req.kind], ans)]
    BY <1>2 DEF Reply
  <2>2. c.req.kind \in Kind /\ "repay" \in Kind
    BY RequestShape DEF Kind
  <2>3. lost' = lost \/ lost' = lost \cup {c.req}
    BY <1>2 DEF Reply
  <2>4. ans # "dead" => lost' = lost
    BY <1>2 DEF Reply
  <2>5. CASE c.req.kind = "repay"
    BY <1>2, <2>1, <2>2, <2>3, <2>4, <2>5 DEF Types, FormAfter, Waits
  <2>6. CASE c.req.kind # "repay"
    BY <1>2, <2>1, <2>2, <2>3, <2>6 DEF Types
  <2> QED BY <2>5, <2>6
<1> QED BY <1>1, <1>2

\* No repayment was made yet.
LEMMA InitRepay == Init => RepayInv
<1> SUFFICES ASSUME Init, NEW r \in Request, r.kind = "repay" PROVE RepayOf(r)
  BY DEF RepayInv
<1>1. page["repay"].id = 0 /\ page["repay"].lock = "free" /\ r.id \in Nat /\ r.id > 0
  BY RequestShape, MaxIdAssumption DEF Init, Form, Kind
<1>2. Gone(r)
  BY DEF Init, Gone, Works, Busy, Idle
<1> QED BY <1>1, <1>2 DEF RepayOf

\* Steps of the page.
LEMMA RepayPage ==
  ASSUME Inv, Inv', RepayInv, PageStep, NEW r \in Request, r.kind = "repay"
  PROVE  RepayOf(r)'
<1> USE DEF Inv
<1>0. /\ RepayOf(r) /\ "repay" \in Kind
      /\ r.id \in Nat /\ page["repay"].id \in Nat
      /\ page["repay"].lock \in Locks
  BY RequestShape, MaxIdAssumption DEF RepayInv, Types, Kind
<1>1. ASSUME NEW k \in Kind, Submit(k) PROVE RepayOf(r)'
  <2> DEFINE q == [kind |-> k, id |-> page[k].id + 1]
  <2>1. /\ UNCHANGED <<row, handler, lost, acked>>
        /\ calls' = calls \cup {[req |-> q, own |-> TRUE]}
    BY <1>1 DEF Submit, server
  <2>2. CASE k # "repay"
    <3>1. page'["repay"] = page["repay"] /\ q # r
      BY <1>1, <2>2 DEF Submit, Types
    <3> QED BY <1>0, <2>1, <3>1 DEF RepayOf, Ended, Gone, Awaited, Works, Busy
  <2>3. CASE k = "repay"
    <3>1. /\ page'["repay"].id = page["repay"].id + 1
          /\ page'["repay"].lock = "waiting"
          /\ page["repay"].lock = "free"
      BY <1>0, <1>1, <2>3 DEF Submit, Types, Form
    <3>2. CASE r.id = page["repay"].id + 1
      <4>1. Gone(r)
        BY <1>0, <3>2 DEF RepayOf
      <4>2. Awaited(r)'
        BY <2>1, <4>1 DEF Gone, Awaited, Works, Busy
      <4> QED BY <1>0, <3>1, <3>2, <4>2 DEF RepayOf
    <3>3. CASE r.id # page["repay"].id + 1
      <4>1. r # q
        BY <2>3, <3>3
      <4>2. /\ Ended(r) => Ended(r)'
            /\ Gone(r) => Gone(r)'
        BY <2>1, <4>1 DEF Ended, Gone, Works, Busy
      <4> QED BY <1>0, <3>1, <3>3, <4>2 DEF RepayOf
    <3> QED BY <3>2, <3>3
  <2> QED BY <2>2, <2>3
<1>2. ASSUME NEW k \in Kind, LoseAnswer(k) PROVE RepayOf(r)'
  <2> DEFINE q == [kind |-> k, id |-> page[k].id]
  <2>1. UNCHANGED <<row, handler, calls, acked>> /\ lost' = lost \cup {q}
    BY <1>2 DEF LoseAnswer, server
  <2>2. CASE k # "repay"
    <3>1. page'["repay"] = page["repay"] /\ q # r
      BY <1>2, <2>2 DEF LoseAnswer, Types
    <3> QED BY <1>0, <2>1, <3>1 DEF RepayOf, Ended, Gone, Awaited, Works, Busy
  <2>3. CASE k = "repay"
    <3>1. page'["repay"].id = page["repay"].id /\ page'["repay"].lock = "held"
      BY <1>0, <1>2, <2>3 DEF LoseAnswer, Types, FormAfter, RepayForm
    <3>2. CASE r.id = page["repay"].id
      BY <1>0, <3>1, <3>2 DEF RepayOf
    <3>3. CASE r.id # page["repay"].id
      BY <1>0, <2>1, <2>3, <3>1, <3>3 DEF RepayOf, Ended, Gone, Works, Busy
    <3> QED BY <3>2, <3>3
  <2> QED BY <2>2, <2>3
<1>3. ASSUME NEW k \in Kind, Acknowledge(k) PROVE RepayOf(r)'
  <2>1. UNCHANGED <<row, handler, calls, lost>> /\ acked' = acked \cup {[kind |-> k, id |-> page[k].id]}
    BY <1>3 DEF Acknowledge, server
  <2>2. CASE k # "repay"
    <3>1. page'["repay"] = page["repay"]
      BY <1>3, <2>2 DEF Acknowledge, Types
    <3> QED BY <1>0, <2>1, <3>1 DEF RepayOf, Ended, Gone, Awaited, Works, Busy
  <2>3. CASE k = "repay"
    <3>1. page'["repay"].id = page["repay"].id /\ page'["repay"].lock = "free"
      BY <1>0, <1>3, <2>3 DEF Acknowledge, Types
    <3>2. CASE r.id = page["repay"].id
      <4>1. r = [kind |-> "repay", id |-> page["repay"].id]
        BY <3>2 DEF Request
      <4>2. r \in acked'
        BY <2>1, <2>3, <4>1
      <4> QED BY <1>0, <3>1, <3>2, <4>2 DEF RepayOf, Ended
    <3>3. CASE r.id # page["repay"].id
      BY <1>0, <2>1, <3>1, <3>3 DEF RepayOf, Ended, Gone, Works, Busy
    <3> QED BY <3>2, <3>3
  <2> QED BY <2>2, <2>3
<1>4. ASSUME NEW q \in Request, Resend(q) PROVE RepayOf(r)'
  <2>1. /\ UNCHANGED <<row, handler, page, lost, acked>>
        /\ q \in lost
        /\ calls' = calls \cup {[req |-> q, own |-> FALSE]}
    BY <1>4 DEF Resend, server
  <2>2. CASE q = r
    <3>1. ~Gone(r) /\ ~Awaited(r)
      BY <2>1, <2>2 DEF Gone, Awaited
    <3> QED BY <1>0, <2>1, <3>1 DEF RepayOf, Ended
  <2>3. CASE q # r
    BY <1>0, <2>1, <2>3 DEF RepayOf, Ended, Gone, Awaited, Works, Busy
  <2> QED BY <2>2, <2>3
<1>5. CASE Recover
  <2>1. UNCHANGED <<row, handler, calls, lost, acked>> /\ page["repay"].lock = "held"
    BY <1>5 DEF Recover, server
  <2>2. page'["repay"] = RepayForm(page["repay"], row[[kind |-> "repay", id |-> page["repay"].id]].status)
    BY <1>0, <1>5 DEF Recover, Types
  <2>3. CASE r.id = page["repay"].id
    <3>1. r = [kind |-> "repay", id |-> page["repay"].id]
      BY <2>3 DEF Request
    <3>2. /\ page'["repay"].id = page["repay"].id
          /\ page'["repay"].lock # "waiting"
          /\ page'["repay"].lock = "free" => row[r].status \in {"failed", "error"}
          /\ page'["repay"].lock = "refresh" => row[r].status = "succeeded"
      BY <1>0, <2>2, <3>1 DEF RepayForm, Types
    <3>3. row[r].status # "error"
      BY DEF Types, Row, NoRow, Status, Settled
    <3> QED BY <1>0, <2>1, <2>3, <3>2, <3>3 DEF RepayOf, Ended
  <2>4. CASE r.id # page["repay"].id
    <3>1. page'["repay"].id = page["repay"].id
      BY <1>0, <2>2 DEF RepayForm, Types
    <3> QED BY <1>0, <2>1, <2>4, <3>1 DEF RepayOf, Ended, Gone, Works, Busy
  <2> QED BY <2>3, <2>4
<1>6. ASSUME NEW ok \in BOOLEAN, Refreshed(ok) PROVE RepayOf(r)'
  <2>1. UNCHANGED <<row, handler, calls, lost, acked>> /\ page["repay"].lock = "refresh"
    BY <1>6 DEF Refreshed, server
  <2>2. page'["repay"].id = page["repay"].id /\ page'["repay"].lock \in {"free", "held"}
    BY <1>0, <1>6 DEF Refreshed, Types
  <2> QED BY <1>0, <2>1, <2>2 DEF RepayOf, Ended, Gone, Works, Busy
<1>7. CASE Reload
  <2>1. /\ UNCHANGED <<row, handler, calls, acked>>
        /\ lost' = lost \cup {q \in Request : Waits(q)}
    BY <1>7 DEF Reload, server
  <2>2. /\ page'["repay"].id = page["repay"].id
        /\ page'["repay"].lock = IF page["repay"].lock = "free" THEN "free" ELSE "held"
    BY <1>0, <1>7 DEF Reload, Types, Form
  <2>3. r \in lost' => r \in lost \/ (r.id = page["repay"].id /\ page["repay"].lock = "waiting")
    BY <2>1 DEF Waits
  <2> QED BY <1>0, <2>1, <2>2, <2>3 DEF RepayOf, Ended, Gone, Works, Busy
<1> QED BY <1>1, <1>2, <1>3, <1>4, <1>5, <1>6, <1>7 DEF PageStep

\* A thread takes a call.
LEMMA RepayReceive ==
  ASSUME Inv, Inv', RepayInv, NEW r \in Request, r.kind = "repay",
         NEW h \in Handler, NEW c \in calls, NEW accepted \in BOOLEAN, Receive(h, c, accepted)
  PROVE  RepayOf(r)'
<1> USE DEF Inv
<1>0. /\ RepayOf(r)
      /\ r.id \in Nat /\ page["repay"].id \in Nat
      /\ c.req \in Request /\ c.own \in BOOLEAN
      /\ calls' = calls \ {c} /\ UNCHANGED <<row, acked>> /\ ~Busy(h)
      /\ \A d \in calls : d.req = c.req /\ d.own = c.own => d = c
  BY RequestShape, MaxIdAssumption DEF RepayInv, Types, Receive, Kind
<1>1. CASE accepted
  <2>1. /\ UNCHANGED <<page, lost>>
        /\ handler' = [handler EXCEPT ![h] =
             [pc |-> "begin", req |-> c.req, own |-> c.own, fate |-> "none"]]
    BY <1>1 DEF Receive
  <2>2. \A g \in Handler : Works(g, r)' <=> Works(g, r) \/ (g = h /\ c.req = r)
    BY <1>0, <2>1 DEF Types, Works, Busy
  <2>3. \A g \in Handler : g # h => handler'[g] = handler[g]
    BY <2>1 DEF Types
  <2>4. handler'[h].own = c.own
    BY <2>1 DEF Types
  <2>5. Gone(r) => Gone(r)'
    BY <1>0, <2>1, <2>2 DEF Gone
  <2>6. Awaited(r) => Awaited(r)'
    <3> SUFFICES ASSUME Awaited(r) PROVE Awaited(r)'
      OBVIOUS
    <3>1. CASE c.req = r
      <4>1. c.own /\ row[r] = NoRow /\ \A g \in Handler : ~Works(g, r)
        BY <3>1 DEF Awaited
      <4>2. \A d \in calls' : d.req # r
        BY <1>0, <3>1, <4>1 DEF Awaited
      <4> QED BY <2>1, <2>2, <2>4, <4>1, <4>2 DEF Awaited
    <3>2. CASE c.req # r
      BY <1>0, <2>1, <2>2, <2>3, <3>2 DEF Awaited, Works
    <3> QED BY <3>1, <3>2
  <2> QED BY <1>0, <2>1, <2>5, <2>6 DEF RepayOf, Ended
<1>2. CASE ~accepted
  <2> DEFINE f == page["repay"]
             meant == c.own /\ c.req.kind = "repay" /\ f.lock = "waiting" /\ f.id = c.req.id
  <2>1. UNCHANGED handler /\ Reply(c, "error")
    BY <1>2 DEF Receive
  <2>2. /\ ~meant => page'["repay"] = f /\ (r \in lost' <=> r \in lost)
        /\ meant => page'["repay"] = RepayForm(f, "error") /\ lost' = lost
    BY <1>0, <2>1, ReplyRepay
  <2>3. /\ Gone(r) /\ (r \in lost' <=> r \in lost) => Gone(r)'
        /\ Awaited(r) /\ (r \in lost' <=> r \in lost) => Awaited(r)'
    BY <1>0, <2>1 DEF Gone, Awaited, Works, Busy
  <2>4. CASE ~meant
    BY <1>0, <2>2, <2>3, <2>4 DEF RepayOf, Ended
  <2>5. CASE meant
    <3>1. page'["repay"].lock = "free" /\ page'["repay"].id = f.id /\ lost' = lost
      BY <2>2, <2>5, RequestShape DEF RepayForm, Types, Kind
    <3>2. CASE r.id = f.id
      <4>1. r = c.req
        BY <1>0, <2>5, <3>2, SameRequest
      <4>2. Awaited(r)
        BY <1>0, <2>5, <3>2 DEF RepayOf
      <4>3. Gone(r)'
        <5>1. \A d \in calls' : d.req # r
          BY <1>0, <2>5, <4>1, <4>2 DEF Awaited
        <5> QED BY <1>0, <2>1, <3>1, <4>1, <4>2, <5>1 DEF Awaited, Gone, Works, Busy
      <4> QED BY <1>0, <3>1, <3>2, <4>3 DEF RepayOf, Ended
    <3>3. CASE r.id # f.id
      BY <1>0, <2>3, <3>1, <3>3 DEF RepayOf, Ended
    <3> QED BY <3>2, <3>3
  <2> QED BY <2>4, <2>5
<1> QED BY <1>1, <1>2

\* A thread ends its request with a reply; a row that was settled stays.
LEMMA RepayReplied ==
  ASSUME Inv, Inv', RepayInv, NEW r \in Request, r.kind = "repay",
         NEW h \in Handler, Busy(h), NEW ans, Reply(handler[h], ans), Drop(h),
         UNCHANGED <<calls, acked>>,
         \A q \in Request : ~Works(h, q) => row'[q] = row[q],
         row[r].status \in {"succeeded", "failed"} => row'[r] = row[r],
         Works(h, r) => \/ ans = row'[r].status
                        \/ ans = "dead" /\ row'[r] = row[r]
  PROVE  RepayOf(r)'
<1> USE DEF Inv
<1> DEFINE q == handler[h].req
           f == page["repay"]
           meant == handler[h].own /\ q.kind = "repay" /\ f.lock = "waiting" /\ f.id = q.id
<1>0. /\ RepayOf(r) /\ q \in Request /\ handler[h].own \in BOOLEAN
      /\ r.id \in Nat /\ f.id \in Nat /\ f \in [lock : Locks, id : Nat]
  BY RequestShape, MaxIdAssumption DEF RepayInv, Types, Kind, Thread, Idle, Busy
<1>1. /\ ~meant => page'["repay"] = f /\ (r \in lost' <=> r \in lost)
      /\ meant => /\ page'["repay"] = RepayForm(f, ans)
                  /\ r # q => (r \in lost' <=> r \in lost)
                  /\ ans # "dead" => lost' = lost
  BY <1>0, ReplyRepay
<1>2. \A g \in Handler : Works(g, r)' <=> Works(g, r) /\ g # h
  BY DEF Drop, Types, Works, Busy, Idle
<1>3. \A g \in Handler : g # h => handler'[g] = handler[g]
  BY DEF Drop, Types
<1>4. Works(h, r) <=> q = r
  BY DEF Works
<1>5. Gone(r) /\ (r \in lost' <=> r \in lost) => Gone(r)'
  BY <1>2 DEF Gone
<1>6. Ended(r) /\ (r \in lost' <=> r \in lost) => Ended(r)'
  BY <1>5 DEF Ended
<1>7. CASE q # r
  <2>1. row'[r] = row[r] /\ ~Works(h, r)
    BY <1>4, <1>7
  <2>2. r \in lost' <=> r \in lost
    BY <1>1, <1>7
  <2>3. Awaited(r) => Awaited(r)'
    BY <1>2, <1>3, <2>1, <2>2 DEF Awaited
  <2>4. CASE ~meant
    BY <1>0, <1>1, <1>5, <1>6, <2>1, <2>2, <2>3, <2>4 DEF RepayOf
  <2>5. CASE meant
    <3>1. r.id # f.id
      BY <1>0, <1>7, <2>5, SameRequest
    <3>2. page'["repay"].id = f.id
      BY <1>0, <1>1, <2>5 DEF RepayForm
    <3> QED BY <1>0, <1>5, <1>6, <2>2, <3>1, <3>2 DEF RepayOf
  <2> QED BY <2>4, <2>5
<1>8. CASE q = r
  <2>1. ~Gone(r)
    BY <1>4, <1>8 DEF Gone
  <2>2. Ended(r) => Ended(r)'
    BY <2>1 DEF Ended
  <2>3. ~(r.id > f.id)
    BY <1>0, <2>1 DEF RepayOf
  <2>4. CASE ~meant
    <3>1. r.id = f.id => f.lock # "waiting"
      BY <1>0, <1>4, <1>8, <2>4 DEF RepayOf, Awaited
    <3> QED BY <1>0, <1>1, <2>2, <2>3, <2>4, <3>1 DEF RepayOf
  <2>5. CASE meant
    <3>1. /\ page'["repay"].id = f.id /\ page'["repay"].lock # "waiting"
          /\ page'["repay"].lock = "free" => ans \in {"failed", "error"}
          /\ page'["repay"].lock = "refresh" => ans = "succeeded"
      BY <1>0, <1>1, <2>5 DEF RepayForm
    <3>2. row'[r].status # "error"
      BY DEF Types, Row, NoRow, Status, Settled
    <3>3. ans \in {"failed", "error", "succeeded"} => row'[r].status = ans
      BY <1>4, <1>8
    <3> QED BY <1>0, <2>3, <2>5, <3>1, <3>2, <3>3, <1>8 DEF RepayOf, Ended
  <2> QED BY <2>4, <2>5
<1> QED BY <1>7, <1>8

\* A thread goes on with its request; nothing reaches the page.
LEMMA RepayWorks ==
  ASSUME Inv, Inv', RepayInv, NEW r \in Request, r.kind = "repay", NEW h \in Handler,
         UNCHANGED <<calls, page, lost, acked>>,
         \A g \in Handler : /\ Works(g, r)' <=> Works(g, r)
                            /\ Works(g, r) => handler'[g].own = handler[g].own,
         row'[r] = row[r] \/ (Works(h, r) /\ row[r] = NoRow)
  PROVE  RepayOf(r)'
<1>1. RepayOf(r)
  BY DEF RepayInv
<1>2. Gone(r) => Gone(r)'
  BY DEF Gone
<1>3. Ended(r) => Ended(r)'
  BY <1>2 DEF Ended, NoRow
<1>4. Awaited(r) => Awaited(r)'
  BY DEF Awaited
<1>5. row[r].status = "succeeded" => row'[r].status = "succeeded"
  BY DEF NoRow
<1> QED BY <1>1, <1>2, <1>3, <1>4, <1>5 DEF RepayOf

\* Every step keeps the repayment's part of the invariant.
LEMMA RepayStep ==
  ASSUME Inv, Inv', RepayInv, [Next]_vars
  PROVE  RepayInv'
<1> USE DEF Inv
<1> SUFFICES ASSUME NEW r \in Request, r.kind = "repay" PROVE RepayOf(r)'
  BY DEF RepayInv
<1>1. CASE UNCHANGED vars
  BY <1>1 DEF vars, RepayInv, RepayOf, Ended, Gone, Awaited, Works, Busy
<1>2. CASE PageStep
  BY <1>2, RepayPage
<1>3. ASSUME NEW h \in Handler, Begin(h) PROVE RepayOf(r)'
  <2> DEFINE q == handler[h].req
  <2>1. Busy(h) /\ q \in Request
    BY <1>3 DEF Begin, Busy, Types, Thread, Idle
  <2>2. CASE row[q] = NoRow
    <3>1. /\ row' = [row EXCEPT ![q] = [status |-> "pending", late |-> FALSE]]
          /\ handler' = [handler EXCEPT ![h].pc = "send"]
          /\ UNCHANGED <<calls, page, lost, acked>>
      BY <1>3, <2>2 DEF Begin
    <3>2. row'[r] = row[r] \/ (Works(h, r) /\ row[r] = NoRow)
      BY <2>1, <2>2, <3>1 DEF Types, Works
    <3>3. \A g \in Handler : /\ Works(g, r)' <=> Works(g, r)
                             /\ Works(g, r) => handler'[g].own = handler[g].own
      BY <2>1, <3>1 DEF Types, Thread, Works, Busy, Idle
    <3> QED BY <3>1, <3>2, <3>3, RepayWorks
  <2>3. CASE row[q] # NoRow
    <3>1. Drop(h) /\ Reply(handler[h], row[q].status) /\ UNCHANGED <<row, calls, acked>>
      BY <1>3, <2>3 DEF Begin
    <3>2. Works(h, r) => row[q].status = row'[r].status
      BY <3>1 DEF Works
    <3> QED BY <2>1, <3>1, <3>2, RepayReplied
  <2> QED BY <2>2, <2>3
<1>4. ASSUME NEW h \in Handler, Send(h) PROVE RepayOf(r)'
  <2>1. \A g \in Handler : /\ Works(g, r)' <=> Works(g, r)
                           /\ Works(g, r) => handler'[g].own = handler[g].own
    BY <1>4 DEF Send, Types, Thread, Works, Busy, Idle
  <2> QED BY <1>4, <2>1, RepayWorks DEF Send
<1>5. ASSUME NEW h \in Handler, NEW a \in Answer, Resolve(h, a) PROVE RepayOf(r)'
  <2> DEFINE q == handler[h].req
             s == Classify(q.kind, a)
  <2>1. Busy(h) /\ q \in Request
    BY <1>5 DEF Resolve, Busy, Types, Thread, Idle
  <2>2. row[q] = Pending
    BY <1>5, ServerResolve
  <2>3. /\ Drop(h) /\ Reply(handler[h], s) /\ UNCHANGED <<calls, acked>>
        /\ row' = [row EXCEPT ![q] = [status |-> s, late |-> s = "failed" /\ a = "timeout408"]]
    BY <1>5 DEF Resolve
  <2> HIDE DEF s
  <2>4. \A p \in Request : ~Works(h, p) => row'[p] = row[p]
    BY <2>1, <2>3 DEF Types, Works
  <2>5. row[r].status \in {"succeeded", "failed"} => row'[r] = row[r]
    BY <2>2, <2>3 DEF Types, Pending
  <2>6. Works(h, r) => s = row'[r].status
    BY <2>1, <2>3 DEF Types, Works
  <2> QED BY <2>1, <2>3, <2>4, <2>5, <2>6, RepayReplied
<1>6. ASSUME NEW h \in Handler, StoreFails(h) PROVE RepayOf(r)'
  BY <1>6, RepayReplied DEF StoreFails
<1>7. ASSUME NEW h \in Handler, NEW q \in Request, NEW fate \in {"moved", "refused"},
             Decide(h, q, fate)
      PROVE  RepayOf(r)'
  <2>1. \A g \in Handler : /\ Works(g, r)' <=> Works(g, r)
                           /\ Works(g, r) => handler'[g].own = handler[g].own
    BY <1>7 DEF Decide, Types, Thread, Works, Busy, Idle
  <2> QED BY <1>7, <2>1, RepayWorks DEF Decide
<1>8. CASE Restart
  <2>1. "repay" \in Kind /\ page["repay"] \in [lock : Locks, id : Nat]
    BY DEF Types, Kind
  <2>2. /\ UNCHANGED <<row, acked>> /\ calls' = {}
        /\ \A g \in Handler : ~Works(g, r)'
        /\ lost' = lost \cup {q \in Request : Waits(q)}
    BY <1>8 DEF Restart, Works, Busy, Idle
  <2>3. /\ page'["repay"].id = page["repay"].id
        /\ page'["repay"].lock = IF page["repay"].lock = "waiting" THEN "held" ELSE page["repay"].lock
    BY <1>8, <2>1 DEF Restart, FormAfter, RepayForm
  <2>4. r \in lost' => r \in lost \/ (r.id = page["repay"].id /\ page["repay"].lock = "waiting")
    BY <2>2 DEF Waits
  <2>5. RepayOf(r) /\ r.id \in Nat /\ page["repay"].id \in Nat
    BY <2>1, RequestShape, MaxIdAssumption DEF RepayInv, Kind
  <2> QED BY <2>2, <2>3, <2>4, <2>5 DEF RepayOf, Ended, Gone
<1> QED BY <1>1, <1>2, <1>3, <1>4, <1>5, <1>6, <1>7, <1>8, RepayReceive DEF Next, HandlerStep

\* The invariant implies the property.
LEMMA RepayConclusion == Inv /\ RepayInv => RepayUnlockIsSafe
<1> SUFFICES ASSUME Inv, RepayInv PROVE RepayUnlockIsSafe
  OBVIOUS
<1> USE DEF Inv
<1>1. TypeOK
  <2>1. \A k \in Kind : page[k].lock \in Locks /\ page[k].id \in 0..MaxId[k]
    BY MaxIdAssumption DEF Types, FormHasRequest
  <2>2. \A h \in Handler : Busy(h) => /\ handler[h].pc \in {"begin", "send", "waiting"}
                                      /\ handler[h].req \in Request
                                      /\ handler[h].own \in BOOLEAN
                                      /\ handler[h].fate \in {"none", "moved", "refused"}
    BY DEF Types, Thread, Busy, Idle
  <2>3. \A r \in Request : row[r] = NoRow \/ (row[r].status \in Status /\ row[r].late \in BOOLEAN)
    BY DEF Types, Row
  <2> QED BY <2>1, <2>2, <2>3 DEF Types, TypeOK
<1>2. ASSUME page["repay"].lock = "free",
             NEW r \in Request, r.kind = "repay", r.id <= page["repay"].id, r \notin acked
      PROVE  Closed(r)
  <2>1. r.id \in Nat /\ page["repay"].id \in Nat
    BY RequestShape, MaxIdAssumption DEF Types, Kind
  <2>2. Ended(r)
    BY <1>2, <2>1 DEF RepayInv, RepayOf
  <2> QED BY <1>2, <2>2 DEF Ended, Gone, Closed
<1> QED BY <1>1, <1>2 DEF RepayUnlockIsSafe

\* The repayment form never lets the user repay twice by accident, for any
\* number of requests and threads: it unlocks when all its requests are closed or
\* the user looked at the exchange (submitMarginRepay, recoverMarginRepay).
THEOREM RepayLockHolds == Spec => []RepayUnlockIsSafe
<1>1. Init => RepayInv
  BY InitRepay
<1>2. Inv /\ Inv' /\ RepayInv /\ [Next]_vars => RepayInv'
  BY RepayStep
<1>3. Inv /\ RepayInv => RepayUnlockIsSafe
  BY RepayConclusion
<1> QED BY <1>1, <1>2, <1>3, ServerInvariant, PTL DEF Spec

=============================================================================
