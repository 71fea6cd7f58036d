--------------------------- MODULE MoneyRequests ---------------------------
(***************************************************************************)
(* The two endpoints that move money once per request: POST                *)
(* /api/asset-transfer and POST /api/margin-repay (app/server.py), their   *)
(* two tables (asset_transfer/store.py, margin_repay/store.py), the page   *)
(* that calls them (frontend/index.html) and the exchange, which has no    *)
(* idempotency key.  Every POST runs in a thread of its own; the handler   *)
(* stores the request, sends it with no lock held and stores the outcome   *)
(* in a second transaction.                                                *)
(***************************************************************************)
EXTENDS Naturals, FiniteSets

CONSTANTS
  MaxId,        \* bound: [Kind -> requests the page makes of that kind]
  Handler       \* the threads that serve POSTs

Kind == {"transfer", "repay"}

ASSUME MaxIdAssumption == MaxId \in [Kind -> Nat]

VARIABLES
  row,          \* [Request -> Row or NoRow]: the two tables
  handler,      \* [Handler -> what the thread is doing]
  calls,        \* POSTs on their way to the server
  wire,         \* <<thread, request>> sent to the exchange and not decided
  moves,        \* [Request -> Nat]: times the exchange carried it out
  page,         \* [Kind -> the page's form for that kind]
  lost,         \* requests whose answer the page never got
  acked         \* requests the user settled by looking at the exchange

vars == <<row, handler, calls, wire, moves, page, lost, acked>>
server == <<row, handler>>
exchange == <<wire, moves>>

Request == UNION {[kind : {k}, id : 1..MaxId[k]] : k \in Kind}

NoRow == [status |-> "none"]
Settled == {"succeeded", "failed", "unknown"}
Status == Settled \cup {"pending"}

(* What comes back from the exchange, told apart as the code does.         *)
Answer == {"complete", "incomplete", "refused", "timeout408",
           "limited", "server5xx", "transport"}

(* _dispatch_asset_transfer: every 4xx but the two of the rate limit is a  *)
(* failure, 408 included.                                                  *)
ClassifyTransfer(a) ==
  CASE a = "complete" -> "succeeded"
    [] a \in {"refused", "timeout408"} -> "failed"
    [] OTHER -> "unknown"

(* _dispatch_margin_repay: 408 is an unknown outcome.                      *)
ClassifyRepay(a) ==
  CASE a = "complete" -> "succeeded"
    [] a = "refused" -> "failed"
    [] OTHER -> "unknown"

Classify(kind, a) == IF kind = "transfer" THEN ClassifyTransfer(a) ELSE ClassifyRepay(a)

(* The answers the exchange can give of a request it has carried out, has  *)
(* refused, or has not decided yet.                                        *)
Possible(fate) ==
  LET vague == {"timeout408", "server5xx", "transport"}
  IN CASE fate = "moved"   -> vague \cup {"complete", "incomplete"}
       [] fate = "refused" -> vague \cup {"refused", "incomplete", "limited"}
       [] OTHER            -> vague

Idle == [pc |-> "idle"]
Busy(h) == handler[h].pc # "idle"
Works(h, r) == Busy(h) /\ handler[h].req = r

Form(lock, id) == [lock |-> lock, id |-> id]

Init ==
  /\ row = [r \in Request |-> NoRow]
  /\ handler = [h \in Handler |-> Idle]
  /\ calls = {}
  /\ wire = {}
  /\ moves = [r \in Request |-> 0]
  /\ page = [k \in Kind |-> Form("free", 0)]
  /\ lost = {}
  /\ acked = {}
-----------------------------------------------------------------------------
(* The page.  What it makes of an answer: a stored record's status, "error" *)
(* for a 4xx or 503, "dead" for a connection that ended with no answer.     *)

(* Mutant: the repayment form treats a broken connection as "not sent". *)
RepayFormForgets(f, ans) ==
  [f EXCEPT !.lock = CASE ans \in {"failed", "error", "dead"} -> "free"
                       [] ans = "succeeded" -> "refresh"
                       [] OTHER -> "held"]

(* submitMarginRepay, finalizeMarginRepaySuccess *)
RepayForm(f, ans) ==
  [f EXCEPT !.lock = CASE ans \in {"failed", "error"} -> "free"
                       [] ans = "succeeded" -> "refresh"
                       [] OTHER -> "held"]

(* submitAssetTransfer: every failure of the call, a broken connection     *)
(* included, is shown as "not sent".                                       *)
TransferForm(f, ans) ==
  [f EXCEPT !.lock = IF ans = "unknown" THEN "held" ELSE "free"]

FormAfter(k, f, ans) == IF k = "repay" THEN RepayForm(f, ans) ELSE TransferForm(f, ans)

Waits(r) == page[r.kind].lock = "waiting" /\ page[r.kind].id = r.id

(* The thread's answer reaches the page when the page made that call and   *)
(* still waits for it.                                                     *)
Reply(c, ans) ==
  IF c.own /\ Waits(c.req)
  THEN /\ page' = [page EXCEPT ![c.req.kind] = FormAfter(c.req.kind, @, ans)]
       /\ lost' = IF ans = "dead" THEN lost \cup {c.req} ELSE lost
  ELSE UNCHANGED <<page, lost>>

(* A confirmed form is posted under a new id; the repayment's id is stored *)
(* in the browser first.                                                   *)
Submit(k) ==
  /\ page[k].lock = "free"
  /\ page[k].id < MaxId[k]
  /\ page' = [page EXCEPT ![k] = Form("waiting", @.id + 1)]
  /\ calls' = calls \cup {[req |-> [kind |-> k, id |-> page[k].id + 1], own |-> TRUE]}
  /\ UNCHANGED <<server, exchange, lost, acked>>

(* The connection breaks: the page has no answer, the call may still run.  *)
LoseAnswer(k) ==
  /\ page[k].lock = "waiting"
  /\ page' = [page EXCEPT ![k] = FormAfter(k, @, "dead")]
  /\ lost' = lost \cup {[kind |-> k, id |-> page[k].id]}
  /\ UNCHANGED <<server, calls, exchange, acked>>

(* A client that got no answer posts the same id again.                   *)
Resend(r) ==
  /\ r \in lost
  /\ calls' = calls \cup {[req |-> r, own |-> FALSE]}
  /\ UNCHANGED <<server, exchange, page, lost, acked>>

(* recoverMarginRepay with _handle_margin_repay_get: the stored row of the *)
(* same id; no row keeps the lock.                                         *)
Recover ==
  LET r == [kind |-> "repay", id |-> page["repay"].id] IN
  /\ page["repay"].lock = "held"
  /\ row[r] # NoRow
  /\ page' = [page EXCEPT !["repay"] = RepayForm(@, row[r].status)]
  /\ UNCHANGED <<server, calls, exchange, lost, acked>>

(* finalizeMarginRepaySuccess: the lock goes only with a refreshed account *)
Refreshed(ok) ==
  /\ page["repay"].lock = "refresh"
  /\ page' = [page EXCEPT !["repay"].lock = IF ok THEN "free" ELSE "held"]
  /\ UNCHANGED <<server, calls, exchange, lost, acked>>

(* acknowledgeRepayUnknown and its twin of the transfer form               *)
Acknowledge(k) ==
  /\ page[k].lock = "held"
  /\ page' = [page EXCEPT ![k].lock = "free"]
  /\ acked' = acked \cup {[kind |-> k, id |-> page[k].id]}
  /\ UNCHANGED <<server, calls, exchange, lost>>

(* The page is loaded again: the repayment's lock comes back from the      *)
(* browser's storage, the transfer form starts empty.                      *)
Reload ==
  /\ \E k \in Kind : page[k].lock # "free"
  /\ page' = [k \in Kind |->
                IF k = "repay" /\ page[k].lock # "free"
                THEN [page[k] EXCEPT !.lock = "held"]
                ELSE Form("free", page[k].id)]
  /\ lost' = lost \cup {r \in Request : Waits(r)}
  /\ UNCHANGED <<server, calls, exchange, acked>>
-----------------------------------------------------------------------------
(* The server.                                                             *)

Drop(h) == handler' = [handler EXCEPT ![h] = Idle]

(* A thread takes a POST.  Before the table is read it answers a 503 when  *)
(* the channel is not configured or no snapshot is published, and a 400    *)
(* for a body the parser refuses or an asset that is not held (transfer)   *)
(* or not owed (repayment) in the snapshot of this moment.                 *)
Receive(h, c, accepted) ==
  /\ ~Busy(h)
  /\ c \in calls
  /\ calls' = calls \ {c}
  /\ IF accepted
     THEN /\ handler' = [handler EXCEPT ![h] =
                [pc |-> "begin", req |-> c.req, own |-> c.own, fate |-> "none"]]
          /\ UNCHANGED <<page, lost>>
     ELSE /\ UNCHANGED handler
          /\ Reply(c, "error")
  /\ UNCHANGED <<row, exchange, acked>>

(* Mutant: the existing row is returned, and dispatched again while it is pending. *)
BeginResendsPending(h) ==
  LET r == handler[h].req IN
  /\ handler[h].pc = "begin"
  /\ IF row[r] = NoRow \/ row[r].status = "pending"
     THEN /\ row' = [row EXCEPT ![r] = [status |-> "pending", late |-> FALSE]]
          /\ handler' = [handler EXCEPT ![h].pc = "send"]
          /\ UNCHANGED <<page, lost>>
     ELSE /\ Drop(h)
          /\ Reply(handler[h], row[r].status)
          /\ UNCHANGED row
  /\ UNCHANGED <<calls, exchange, acked>>

(* store.begin: the insert that only the first request of an id passes; a  *)
(* later one is answered with the row as it is.                            *)
Begin(h) ==
  LET r == handler[h].req IN
  /\ handler[h].pc = "begin"
  /\ IF row[r] = NoRow
     THEN /\ row' = [row EXCEPT ![r] =
                [status |-> "pending", late |-> FALSE]]
          /\ handler' = [handler EXCEPT ![h].pc = "send"]
          /\ UNCHANGED <<page, lost>>
     ELSE /\ Drop(h)
          /\ Reply(handler[h], row[r].status)
          /\ UNCHANGED row
  /\ UNCHANGED <<calls, exchange, acked>>

(* The signed request leaves, once.                                        *)
Send(h) ==
  /\ handler[h].pc = "send"
  /\ wire' = wire \cup {<<h, handler[h].req>>}
  /\ handler' = [handler EXCEPT ![h].pc = "waiting"]
  /\ UNCHANGED <<row, calls, moves, page, lost, acked>>

(* The exchange decides a request, whether or not anybody still waits.     *)
Decide(h, r, fate) ==
  /\ <<h, r>> \in wire
  /\ wire' = wire \ {<<h, r>>}
  /\ moves' = IF fate = "moved" THEN [moves EXCEPT ![r] = @ + 1] ELSE moves
  /\ handler' = IF Works(h, r) /\ handler[h].pc = "waiting"
                THEN [handler EXCEPT ![h].fate = fate]
                ELSE handler
  /\ UNCHANGED <<row, calls, page, lost, acked>>

(* The answer is classified and store.resolve writes it.  No other thread  *)
(* can see anything between the two, so they are one step; a restart or a  *)
(* refused update before the row is written is Restart or StoreFails.      *)
Resolve(h, a) ==
  LET r == handler[h].req
      s == Classify(r.kind, a)
  IN
  /\ \/ handler[h].pc = "waiting" /\ a \in Possible(handler[h].fate)
     \/ handler[h].pc = "send" /\ a = "transport"     \* it raised and nothing left
  /\ row' = [row EXCEPT ![r] = [status |-> s, late |-> s = "failed" /\ a = "timeout408"]]
  /\ Drop(h)
  /\ Reply(handler[h], s)
  /\ UNCHANGED <<calls, exchange, acked>>

(* The database refuses the insert or the update: the thread ends and the  *)
(* connection with it; after a sent request the row stays pending.         *)
StoreFails(h) ==
  /\ Busy(h)
  /\ Drop(h)
  /\ Reply(handler[h], "dead")
  /\ UNCHANGED <<row, calls, exchange, acked>>

(* The process ends and starts again: the tables stay, the threads and the *)
(* snapshot do not, and what was sent is still with the exchange.          *)
Restart ==
  /\ handler' = [h \in Handler |-> Idle]
  /\ calls' = {}
  /\ page' = [k \in Kind |-> IF page[k].lock = "waiting"
                             THEN FormAfter(k, page[k], "dead") ELSE page[k]]
  /\ lost' = lost \cup {r \in Request : Waits(r)}
  /\ UNCHANGED <<row, exchange, acked>>

-----------------------------------------------------------------------------
PageStep ==
  \/ \E k \in Kind : \/ Submit(k)
                     \/ LoseAnswer(k)
                     \/ Acknowledge(k)
  \/ \E r \in Request : Resend(r)
  \/ Recover
  \/ \E ok \in BOOLEAN : Refreshed(ok)
  \/ Reload

HandlerStep(h) ==
  \/ Begin(h)
  \/ Send(h)
  \/ \E a \in Answer : Resolve(h, a)
  \/ StoreFails(h)

Next ==
  \/ PageStep
  \/ \E h \in Handler : \/ HandlerStep(h)
                        \/ \E c \in calls, accepted \in BOOLEAN : Receive(h, c, accepted)
                        \/ \E r \in Request, fate \in {"moved", "refused"} :
                             Decide(h, r, fate)
  \/ Restart

Spec == Init /\ [][Next]_vars
-----------------------------------------------------------------------------
Locks == {"free", "waiting", "held", "refresh"}

(* Every variable has its type; a thread past the check has a known        *)
(* request.                                                                *)
TypeOK ==
  /\ \A r \in Request :
       row[r] = NoRow \/ /\ row[r].status \in Status
                         /\ row[r].late \in BOOLEAN
  /\ \A h \in Handler :
       Busy(h) => /\ handler[h].pc \in {"begin", "send", "waiting"}
                  /\ handler[h].req \in Request
                  /\ handler[h].own \in BOOLEAN
                  /\ handler[h].fate \in {"none", "moved", "refused"}
  /\ calls \subseteq [req : Request, own : BOOLEAN]
  /\ wire \subseteq Handler \X Request
  /\ moves \in [Request -> Nat]
  /\ \A k \in Kind : page[k].lock \in Locks /\ page[k].id \in 0..MaxId[k]
  /\ lost \subseteq Request
  /\ acked \subseteq Request

(* What the store says of a request, read as the promise reads it.  A      *)
(* transfer answered 408 is stored as failed although its outcome is not   *)
(* known; here it counts as unknown (see the README).                      *)
Told(r) ==
  IF row[r] # NoRow /\ row[r].late
  THEN "unknown"
  ELSE row[r].status

Promise == INSTANCE OneShot WITH told <- [r \in Request |-> Told(r)], moves <- moves

(* The endpoints keep the promise whatever is retried, lost, answered late *)
(* or cut off by a restart: a request moves money at most once and only    *)
(* after it is stored, a stored outcome never changes, succeeded is said   *)
(* only of money that moved and failed only of money that never moves      *)
(* (server.py _handle_asset_transfer, _handle_margin_repay_post).          *)
KeepsPromise == Promise!Spec

(* A request that nobody will carry out any more, or whose end is known.   *)
Closed(r) ==
  \/ row[r].status \in {"succeeded", "failed"}
  \/ /\ row[r] = NoRow
     /\ \A c \in calls : c.req # r
     /\ \A h \in Handler : ~Works(h, r)

(* The repayment form lets the user repay again only when the requests it  *)
(* made before are closed or the user looked at the exchange: a reload, a  *)
(* lost answer or a restart never unlocks it (submitMarginRepay and        *)
(* recoverMarginRepay against _handle_margin_repay_post).                  *)
RepayUnlockIsSafe ==
  /\ TypeOK
  /\ page["repay"].lock = "free" =>
       \A r \in Request :
         r.kind = "repay" /\ r.id <= page["repay"].id /\ r \notin acked => Closed(r)

=============================================================================
