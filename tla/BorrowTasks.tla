----------------------------- MODULE BorrowTasks -----------------------------
(***************************************************************************)
(* The borrow-task core: the SQLite store, the service that schedules one  *)
(* signed loan POST at a time, the operator's HTTP requests and the        *)
(* sidecar lock that elects the one process allowed to dispatch            *)
(* (backend/borrow_tasks/ and backend/services/live_borrow_executor.py).   *)
(*                                                                         *)
(* Grain.  A process serialises its store methods with one RLock, but the  *)
(* database connection is in the driver's default mode: a SELECT opens no  *)
(* transaction, so a method that selects and then writes is two steps for  *)
(* ANOTHER process that has the same file open.  The two methods where it  *)
(* matters (insert_pending_attempt, resolve_attempt) are therefore split   *)
(* at that point, and StoreFree is the RLock.  Every other method that     *)
(* writes is one statement, or is only raced by itself, and is one step.   *)
(*                                                                         *)
(* Data.  Task ids are creation_seq numbers.  The version column is only   *)
(* ever compared with an earlier reading of itself and grows on every      *)
(* write, so it is kept as "was the row written since": req[r].fresh.      *)
(* Timestamps matter only through the cooldown, kept as three values.      *)
(***************************************************************************)
EXTENDS Naturals, FiniteSets, FiniteSetsExt

CONSTANTS
  MaxTasks,     \* bound: at most this many task rows
  MaxAttempts,  \* bound: at most this many dispatches
  Procs,        \* server processes that open the same database file
  Requests,     \* concurrent HTTP handler threads
  Targets,      \* success_target values an operator may enter
  LiveMode,     \* APP_BORROW_EXECUTOR = live (else the disabled executor)
  StoreFails,   \* a store method may raise (disk full, database locked)
  NoProc        \* nobody holds the sidecar lock

ASSUME BorrowAssumption ==
  /\ MaxTasks \in Nat
  /\ MaxAttempts \in Nat
  /\ Targets \subseteq Nat \ {0}
  /\ LiveMode \in BOOLEAN
  /\ StoreFails \in BOOLEAN
  /\ NoProc \notin Procs

Tasks    == 1..MaxTasks
Attempts == 1..MaxAttempts
NULL     == 0           \* SQL NULL in a column of task or attempt ids

VARIABLES
  status, count, target, authorized, marker, latest, \* table borrow_task
  rows, lastId,                                      \* table borrow_attempt
  cursor, enabled, rearm, cooldown,                  \* table borrow_settings
  owner,                                             \* sidecar flock holder
  up, pc, chosen, attempt, result, seen,             \* per process
  req,                                               \* handler threads
  loans,       \* per task: loans the exchange has really made
  unconfirmed  \* per task: loans whose tranId never reached the database

taskVars     == <<status, count, target, authorized, marker, latest>>
logVars      == <<rows, lastId>>
settingsVars == <<cursor, enabled, rearm, cooldown>>
procVars     == <<owner, up, pc, chosen, attempt, result, seen>>
exchangeVars == <<loans, unconfirmed>>
vars == <<taskVars, logVars, settingsVars, procVars, req, exchangeVars>>

-----------------------------------------------------------------------------
(* Vocabulary.                                                             *)

Statuses == {"borrowing", "paused", "deleted", "completed"}

\* What one POST can come back as; the kind stands for the whole coalesce key
\* (result_category, reason, business_code).  A transport failure is a
\* rejection: the operator chose to keep such tasks in rotation.
Kinds == {"success", "rejected", "rate_limited", "banned", "unknown", "disabled"}
FoldsAnything == Kinds                         \* mutant: also repeated loans
Coalesceable == {"rejected", "rate_limited", "banned", "disabled"}
Orphan == "orphan"     \* crash_orphan_responseless, written by recovery only

\* The pairs <<result kind, did the exchange lend>> a POST may end in.
PostOutcomes ==
  IF LiveMode
  THEN ({"success"} \X {TRUE}) \cup ({"rejected", "unknown"} \X BOOLEAN)
       \cup ({"rate_limited", "banned"} \X {FALSE})
  ELSE {"disabled"} \X {FALSE}

Absent == [state |-> "absent", task |-> NULL, kind |-> "none"]
NothingSeen == [status |-> "absent", count |-> 0, target |-> 0, latest |-> "none"]
NoReq  == [op |-> "none", proc |-> NoProc, task |-> NULL,
           target |-> 0, fresh |-> FALSE]

Exists(t)  == status[t] # "absent"
\* A dispatch is between its pending row and its resolution.
InFlight(p) == pc[p] \in {"posting", "answered", "resolving"}
\* The store's RLock of process p is not held across a step.
StoreUnlocked(p) == TRUE                                      \* mutant: no lock
StoreFree(p) == pc[p] \notin {"inserting", "resolving"}

\* Every UPDATE of a task row bumps version: requests that hold an earlier
\* reading of that row stop being fresh.
Touched(ts) ==
  [r \in Requests |->
     IF req[r].task \in ts THEN [req[r] EXCEPT !.fresh = FALSE] ELSE req[r]]

-----------------------------------------------------------------------------
(* A database left by earlier processes: no task, or tasks the v1          *)
(* migration quarantined (paused and not live-authorized, counts kept).    *)
Init ==
  /\ \E n \in 0..MaxTasks :
       /\ status = [t \in Tasks |-> IF t <= n THEN "paused" ELSE "absent"]
       /\ target \in { f \in [Tasks -> Targets \cup {0}] :
                         \A t \in Tasks : f[t] = 0 <=> t > n }
  /\ count \in { f \in [Tasks -> UNION { 0..g : g \in Targets \cup {0} }] :
                    \A t \in Tasks : f[t] <= target[t] }
  /\ authorized = [t \in Tasks |-> FALSE]
  /\ marker = [t \in Tasks |-> NULL]
  /\ latest = [t \in Tasks |-> "none"]
  /\ rows = [a \in Attempts |-> Absent]
  /\ lastId = 0
  /\ cursor = NULL /\ enabled = FALSE /\ rearm = FALSE /\ cooldown = "none"
  /\ owner = NoProc
  /\ up = [p \in Procs |-> FALSE]
  /\ pc = [p \in Procs |-> "idle"]
  /\ chosen = [p \in Procs |-> NULL]
  /\ attempt = [p \in Procs |-> NULL]
  /\ result = [p \in Procs |-> "none"]
  /\ seen = [p \in Procs |-> NothingSeen]
  /\ req = [r \in Requests |-> NoReq]
  /\ loans = count
  /\ unconfirmed = [t \in Tasks |-> 0]

-----------------------------------------------------------------------------
(* Processes.                                                              *)

\* try_acquire: a non-blocking flock.
AcquireAnyway == TRUE                          \* mutant: the lock is not asked
Acquires == owner = NoProc

\* What recovery leaves in the in-flight markers.
RecoverRowsOnly == marker                      \* mutant: markers are forgotten
RecoverMarkers == [t \in Tasks |-> NULL]

\* try_acquire, then open the store; only the owner recovers: it forgets every
\* in-flight marker and files pending rows as orphans.
StartProcess(p) ==
  /\ ~up[p]
  /\ up' = [up EXCEPT ![p] = TRUE]
  /\ IF Acquires
     THEN /\ owner' = p
          /\ marker' = RecoverMarkers
          /\ rows' = [a \in Attempts |->
                        IF rows[a].state = "pending"
                        THEN [rows[a] EXCEPT !.state = "resolved", !.kind = Orphan]
                        ELSE rows[a]]
     ELSE UNCHANGED <<owner, marker, rows>>
  /\ UNCHANGED <<status, count, target, authorized, latest, lastId, settingsVars,
                 pc, chosen, attempt, result, seen, req, exchangeVars>>

\* The dispatch of p is over: _dispatch_one's locals are gone.
EndTick(p) ==
  /\ pc' = [pc EXCEPT ![p] = "idle"]
  /\ chosen' = [chosen EXCEPT ![p] = NULL]
  /\ attempt' = [attempt EXCEPT ![p] = NULL]
  /\ result' = [result EXCEPT ![p] = "none"]
  /\ seen' = [seen EXCEPT ![p] = NothingSeen]

\* p holds a tranId it has not stored yet.
HoldsLoan(p) == pc[p] \in {"answered", "resolving"} /\ result[p] = "success"

\* The process dies: the kernel drops its flock, threads and handlers vanish.
\* A POST already on the wire may still be granted.
Crash(p) ==
  /\ up[p]
  /\ up' = [up EXCEPT ![p] = FALSE]
  /\ owner' = IF owner = p THEN NoProc ELSE owner
  /\ EndTick(p)
  /\ req' = [r \in Requests |-> IF req[r].proc = p THEN NoReq ELSE req[r]]
  /\ \/ /\ unconfirmed' = IF HoldsLoan(p)
                            THEN [unconfirmed EXCEPT ![chosen[p]] = @ + 1]
                            ELSE unconfirmed
        /\ UNCHANGED loans
     \/ /\ LiveMode /\ pc[p] = "posting"
        /\ loans' = [loans EXCEPT ![chosen[p]] = @ + 1]
        /\ unconfirmed' = [unconfirmed EXCEPT ![chosen[p]] = @ + 1]
  /\ UNCHANGED <<taskVars, logVars, settingsVars>>

-----------------------------------------------------------------------------
(* The scheduler thread: tick -> _dispatch_one.                            *)

Eligible == { t \in Tasks : /\ status[t] = "borrowing"
                            /\ marker[t] = NULL
                            /\ authorized[t]
                            /\ count[t] < target[t] }

\* Round robin: the first eligible task after the cursor, else the first one.
\* A cursor whose task is not eligible gives no position at all.
SelectNext(E, c) ==
  LET After == { t \in E : t > c }
  IN  IF c \in E /\ After # {} THEN Min(After) ELSE Min(E)

\* get_settings, list_eligible_tasks and select_next_task.
Choose(p) ==
  /\ up[p] /\ owner = p /\ pc[p] = "idle"
  /\ lastId < MaxAttempts
  /\ cooldown # "active"
  /\ Eligible # {}
  /\ pc' = [pc EXCEPT ![p] = "chosen"]
  /\ chosen' = [chosen EXCEPT ![p] = SelectNext(Eligible, cursor)]
  /\ UNCHANGED <<taskVars, logVars, settingsVars, owner, up, attempt, result,
                 seen, req, exchangeVars>>

\* Every gate insert_pending_attempt reads before it writes.
GatesWithoutReArm(t) ==                        \* mutant: a ban is not asked for
  /\ status[t] = "borrowing" /\ marker[t] = NULL /\ count[t] < target[t]
  /\ LiveMode => authorized[t] /\ enabled /\ cooldown # "active"
GatesOpen(t) ==
  /\ status[t] = "borrowing"
  /\ marker[t] = NULL
  /\ count[t] < target[t]
  /\ LiveMode => authorized[t] /\ enabled /\ ~rearm /\ cooldown # "active"

\* insert_pending_attempt, the reading half: a closed gate ends the tick.
InsertCheck(p) ==
  /\ pc[p] = "chosen"
  /\ IF GatesOpen(chosen[p])
     THEN /\ pc' = [pc EXCEPT ![p] = "inserting"]
          /\ UNCHANGED <<chosen, attempt, result, seen>>
     ELSE EndTick(p)
  /\ UNCHANGED <<taskVars, logVars, settingsVars, owner, up, req, exchangeVars>>

\* insert_pending_attempt, the writing half: pending row, cursor and marker.
InsertWrite(p) ==
  LET a == lastId + 1
      t == chosen[p]
  IN  /\ pc[p] = "inserting"
      /\ lastId < MaxAttempts
      /\ lastId' = a
      /\ rows' = [rows EXCEPT ![a] =
                    [state |-> "pending", task |-> t, kind |-> "none"]]
      /\ cursor' = t
      /\ marker' = [marker EXCEPT ![t] = a]
      /\ req' = Touched({t})
      /\ attempt' = [attempt EXCEPT ![p] = a]
      /\ pc' = [pc EXCEPT ![p] = "posting"]
      /\ UNCHANGED <<status, count, target, authorized, latest, enabled, rearm,
                     cooldown, owner, up, chosen, result, seen, exchangeVars>>

\* executor.execute with no store lock held; an exception is "unknown".
Post(p) ==
  /\ pc[p] = "posting"
  /\ \E o \in PostOutcomes :
       /\ result' = [result EXCEPT ![p] = o[1]]
       /\ loans' = IF o[2] THEN [loans EXCEPT ![chosen[p]] = @ + 1] ELSE loans
       /\ unconfirmed' = IF o[2] /\ o[1] # "success"
                         THEN [unconfirmed EXCEPT ![chosen[p]] = @ + 1]
                         ELSE unconfirmed
  /\ pc' = [pc EXCEPT ![p] = "answered"]
  /\ UNCHANGED <<taskVars, logVars, settingsVars, owner, up, chosen, attempt,
                 seen, req>>

\* resolve_attempt, the reading half.  A row that is gone raises, and
\* _dispatch_one swallows the exception: the answer is lost.
ResolveRead(p) ==
  LET t == rows[attempt[p]].task
  IN  /\ pc[p] = "answered"
      /\ IF rows[attempt[p]].state = "absent"
         THEN EndTick(p)
         ELSE /\ pc' = [pc EXCEPT ![p] = "resolving"]
              /\ seen' = [seen EXCEPT ![p] =
                    [status |-> status[t], count |-> count[t],
                     target |-> target[t], latest |-> latest[t]]]
              /\ UNCHANGED <<chosen, attempt, result>>
      /\ UNCHANGED <<taskVars, logVars, settingsVars, owner, up, req, exchangeVars>>

\* _resolve_status: deleted and completed stay, reaching the target completes.
ResolveStatus(current, newCount, tgt) ==
  IF current \in {"deleted", "completed"} THEN current
  ELSE IF newCount >= tgt THEN "completed" ELSE current

\* The newest resolved row of t older than attempt a repeats the failure k.
RepeatsLastFailure(t, a, k) ==
  LET Older == { b \in Attempts : /\ b < a
                                  /\ rows[b].state = "resolved"
                                  /\ rows[b].task = t }
  IN  Older # {} /\ rows[Max(Older)].kind = k

\* _apply_rate_limit: both kinds carry a retry delay, a 418 also needs re-arm.
ApplyRateLimit(k) ==
  /\ cooldown' = IF k \in {"rate_limited", "banned"} THEN "active" ELSE cooldown
  /\ rearm' = (rearm \/ k = "banned")

\* resolve_attempt, the writing half.  A repeated failure is folded into the
\* previous row; otherwise the task row is written from the earlier reading.
ResolveWrite(p) ==
  LET a == attempt[p]
      t == rows[a].task
      k == result[p]
      newCount == seen[p].count + (IF k = "success" THEN 1 ELSE 0)
  IN  /\ pc[p] = "resolving"
      /\ IF k \in Coalesceable /\ seen[p].latest = k /\ RepeatsLastFailure(t, a, k)
         THEN /\ rows' = [rows EXCEPT ![a] = Absent]
              /\ UNCHANGED <<status, count, latest>>
         ELSE /\ rows' = [rows EXCEPT ![a].state = "resolved", ![a].kind = k]
              /\ count' = [count EXCEPT ![t] = newCount]
              /\ status' = [status EXCEPT ![t] =
                   IF k = "success"
                   THEN ResolveStatus(seen[p].status, newCount, seen[p].target)
                   ELSE seen[p].status]
              /\ latest' = [latest EXCEPT ![t] = k]
      /\ marker' = [marker EXCEPT ![t] = NULL]
      /\ ApplyRateLimit(k)
      /\ req' = Touched({t})
      /\ EndTick(p)
      /\ UNCHANGED <<target, authorized, lastId, cursor, enabled, owner, up,
                     exchangeVars>>

\* A raising store method rolls back and is swallowed: a dispatch that was not
\* inserted is simply skipped, but one that cannot be resolved leaves its row
\* pending and its task marked until the next start.
StoreFailure(p) ==
  /\ StoreFails
  /\ pc[p] \in {"inserting", "resolving"}
  /\ EndTick(p)
  /\ unconfirmed' = IF HoldsLoan(p)
                    THEN [unconfirmed EXCEPT ![chosen[p]] = @ + 1]
                    ELSE unconfirmed
  /\ UNCHANGED <<taskVars, logVars, settingsVars, owner, up, req, loans>>

\* The retry delay runs out.
CooldownElapses ==
  /\ cooldown = "active"
  /\ cooldown' = "elapsed"
  /\ UNCHANGED <<taskVars, logVars, cursor, enabled, rearm, procVars, req, exchangeVars>>

-----------------------------------------------------------------------------
(* The operator's requests; any running process serves them.               *)

\* POST /tasks: a new task is authorized and borrowing at once.
Create(p) ==
  /\ up[p] /\ StoreFree(p)
  /\ \E t \in Tasks, tg \in Targets :
       /\ ~Exists(t) /\ \A u \in Tasks : u < t => Exists(u)
       /\ status' = [status EXCEPT ![t] = "borrowing"]
       /\ target' = [target EXCEPT ![t] = tg]
       /\ authorized' = [authorized EXCEPT ![t] = TRUE]
  /\ UNCHANGED <<count, marker, latest, logVars, settingsVars, procVars, req,
                 exchangeVars>>

\* A handler reads the task and decides what it will write.
Receive(p, r, t, op, tg, fr) ==
  /\ up[p] /\ StoreFree(p)
  /\ req[r].op = "none" /\ Exists(t)
  /\ req' = [req EXCEPT ![r] = [op |-> op, proc |-> p, task |-> t,
                                target |-> tg, fresh |-> fr]]
  /\ UNCHANGED <<taskVars, logVars, settingsVars, procVars, exchangeVars>>

\* post_start: paused only; at the target it completes instead.
ReadStart(p, r, t) ==
  /\ status[t] = "paused"
  /\ Receive(p, r, t, IF count[t] >= target[t] THEN "complete" ELSE "start",
             0, FALSE)

\* post_pause: borrowing only.
ReadPause(p, r, t) ==
  /\ status[t] = "borrowing"
  /\ Receive(p, r, t, "pause", 0, FALSE)

\* post_delete: anything not deleted yet.
ReadDelete(p, r, t) ==
  /\ status[t] # "deleted"
  /\ Receive(p, r, t, "delete", 0, FALSE)

\* post_edit: a runnable task and a target above its count; the version in the
\* body is the one the page showed, which may be outdated already.
ReadEdit(p, r, t) ==
  /\ status[t] \in {"borrowing", "paused"}
  /\ \E tg \in Targets, fr \in BOOLEAN :
       /\ tg > count[t]
       /\ Receive(p, r, t, "edit", tg, fr)

\* set_task_status: one UPDATE that does not look at the row again.
WriteStatus(r) ==
  LET t == req[r].task
  IN  /\ req[r].op \in {"start", "complete", "pause", "delete"}
      /\ StoreFree(req[r].proc)
      /\ status' = [status EXCEPT ![t] =
           CASE req[r].op = "start"    -> "borrowing"
             [] req[r].op = "complete" -> "completed"
             [] req[r].op = "pause"    -> "paused"
             [] req[r].op = "delete"   -> "deleted"]
      /\ authorized' = IF req[r].op \in {"start", "complete"}
                       THEN [authorized EXCEPT ![t] = TRUE] ELSE authorized
      /\ req' = [Touched({t}) EXCEPT ![r] = NoReq]
      /\ UNCHANGED <<count, target, marker, latest, logVars, settingsVars,
                     procVars, exchangeVars>>

\* edit_task: UPDATE ... WHERE version = the one in the body, else a conflict.
LastEditWins(r) == TRUE                        \* mutant: version not compared
VersionMatches(r) == req[r].fresh
WriteEdit(r) ==
  LET t == req[r].task
  IN  /\ req[r].op = "edit"
      /\ StoreFree(req[r].proc)
      /\ IF VersionMatches(r)
         THEN /\ target' = [target EXCEPT ![t] = req[r].target]
              /\ req' = [Touched({t}) EXCEPT ![r] = NoReq]
         ELSE /\ req' = [req EXCEPT ![r] = NoReq]
              /\ UNCHANGED target
      /\ UNCHANGED <<status, count, authorized, marker, latest, logVars,
                     settingsVars, procVars, exchangeVars>>

\* clear_attempt_logs keeps the rows a task's marker points at.
KeepNothing(a) == FALSE                        \* mutant: clears every row
KeptByClear(a) == \E t \in Tasks : marker[t] = a

ClearLogs(p) ==
  /\ up[p] /\ StoreFree(p)
  /\ rows' = [a \in Attempts |-> IF KeptByClear(a) THEN rows[a] ELSE Absent]
  /\ UNCHANGED <<taskVars, lastId, settingsVars, procVars, req, exchangeVars>>

\* set_execution_enabled(TRUE): an active cooldown is never bypassed.
ReArmAlways == TRUE                            \* mutant: Start lifts a cooldown
ReArms == cooldown # "active"
ExecutionStart(p) ==
  /\ up[p] /\ StoreFree(p)
  /\ enabled' = TRUE
  /\ IF ReArms
     THEN rearm' = FALSE /\ cooldown' = "none"
     ELSE UNCHANGED <<rearm, cooldown>>
  /\ UNCHANGED <<taskVars, logVars, cursor, procVars, req, exchangeVars>>

\* set_execution_enabled(FALSE).
ExecutionStop(p) ==
  /\ up[p] /\ StoreFree(p)
  /\ enabled' = FALSE
  /\ UNCHANGED <<taskVars, logVars, cursor, rearm, cooldown, procVars, req, exchangeVars>>

-----------------------------------------------------------------------------
Scheduler(p) == \/ Choose(p)      \/ InsertCheck(p) \/ InsertWrite(p)
                \/ Post(p)        \/ ResolveRead(p) \/ ResolveWrite(p)
                \/ StoreFailure(p)

Operator(p) == \/ Create(p) \/ ClearLogs(p) \/ ExecutionStart(p) \/ ExecutionStop(p)
               \/ \E r \in Requests, t \in Tasks :
                    \/ ReadStart(p, r, t)  \/ ReadPause(p, r, t)
                    \/ ReadDelete(p, r, t) \/ ReadEdit(p, r, t)

Next ==
  \/ \E p \in Procs : StartProcess(p) \/ Crash(p) \/ Scheduler(p) \/ Operator(p)
  \/ \E r \in Requests : WriteStatus(r) \/ WriteEdit(r)
  \/ CooldownElapses

Spec == Init /\ [][Next]_vars

-----------------------------------------------------------------------------
(* Properties.                                                             *)

AttemptRows == [state : {"absent", "pending", "resolved"},
                task : Tasks \cup {NULL}, kind : Kinds \cup {"none", Orphan}]
Readings    == [status : Statuses \cup {"absent"}, count : Nat, target : Nat,
                latest : Kinds \cup {"none"}]
RequestRows ==
  {row \in [op : {"none", "start", "complete", "pause", "delete", "edit"},
            proc : Procs \cup {NoProc}, task : Tasks \cup {NULL},
            target : Nat, fresh : BOOLEAN] :
     row.op # "none" => row.proc \in Procs /\ row.task \in Tasks}

\* The columns of the three tables.
TaskTableOK ==
  /\ status \in [Tasks -> Statuses \cup {"absent"}]
  /\ count \in [Tasks -> Nat] /\ target \in [Tasks -> Nat]
  /\ authorized \in [Tasks -> BOOLEAN]
  /\ marker \in [Tasks -> Attempts \cup {NULL}]
  /\ latest \in [Tasks -> Kinds \cup {"none"}]
AttemptTableOK ==
  /\ rows \in [Attempts -> AttemptRows]
  /\ lastId \in 0..MaxAttempts
  /\ \A a \in Attempts : rows[a].state # "absent" => rows[a].task \in Tasks
SettingsOK ==
  /\ cursor \in Tasks \cup {NULL}
  /\ enabled \in BOOLEAN /\ rearm \in BOOLEAN
  /\ cooldown \in {"none", "active", "elapsed"}
\* The dispatching threads: a dispatch has a task and, once inserted, a row.
DispatchersOK ==
  /\ pc \in [Procs -> {"idle", "chosen", "inserting", "posting", "answered", "resolving"}]
  /\ chosen \in [Procs -> Tasks \cup {NULL}]
  /\ attempt \in [Procs -> Attempts \cup {NULL}]
  /\ result \in [Procs -> Kinds \cup {"none"}]
  /\ seen \in [Procs -> Readings]
  /\ \A p \in Procs :
       /\ pc[p] # "idle" => chosen[p] \in Tasks
       /\ InFlight(p) => attempt[p] \in Attempts
RequestsOK == req \in [Requests -> RequestRows]

\* Every variable keeps its type; a dispatch always has a task, whatever
\* select_next_task was given, an attempt row always belongs to one, and a
\* handler between its read and its write has one and a process that runs it.
TypeOK ==
  /\ TaskTableOK /\ AttemptTableOK /\ SettingsOK /\ DispatchersOK /\ RequestsOK
  /\ owner \in Procs \cup {NoProc} /\ up \in [Procs -> BOOLEAN]
  /\ loans \in [Tasks -> Nat] /\ unconfirmed \in [Tasks -> Nat]

RowIsThere ==
  \A p \in Procs : InFlight(p) =>
    /\ rows[attempt[p]].state = "pending"
    /\ rows[attempt[p]].task = chosen[p]
    /\ marker[chosen[p]] = attempt[p]

\* While a POST is out, its attempt row is pending and its task's marker points
\* at it, whatever the operator clears, edits, pauses or deletes meanwhile: the
\* answer always finds the row it must resolve (insert_pending_attempt,
\* clear_attempt_logs, startup recovery).
InFlightIsMarked == TypeOK /\ RowIsThere

\* At most one process of all that opened the database has a dispatch under
\* way, across any crashes and restarts (the sidecar lock of ownership.py).
SoleDispatcher ==
  \A p, q \in Procs : pc[p] # "idle" /\ pc[q] # "idle" => p = q

\* No loan is lost from the books: each loan the exchange made is counted in
\* success_count, or is the answer the dispatcher still holds, or is one whose
\* tranId never reached the database (crash, ambiguous answer, store failure).
LoansAccounted ==
  \A t \in Tasks :
    loans[t] = count[t] + unconfirmed[t]
               + Cardinality({ p \in Procs : HoldsLoan(p) /\ chosen[p] = t })

\* A task borrows more often than its success_target only by loans that were
\* never confirmed, even when the target is edited while a POST is out, the task
\* is restarted, or the process dies and recovers.
OverborrowOnlyUnconfirmed ==
  \A t \in Tasks : loans[t] <= target[t] + unconfirmed[t]

\* After a 429 no POST leaves before the cooldown ran out, and after a 418 none
\* before a later manual Start: nothing is being inserted or posted meanwhile.
QuietWhileRateLimited ==
  LiveMode /\ (rearm \/ cooldown = "active") =>
    \A p \in Procs : pc[p] \in {"idle", "chosen"}

\* A marker never outlives its dispatch while an owner runs, so no task is
\* silently out of the rotation: a marked task is the one being dispatched.
\* (A store method that raises breaks this until the next start.)
NoStrandedMarker ==
  \A t \in Tasks : marker[t] # NULL /\ owner # NoProc =>
    InFlight(owner) /\ attempt[owner] = marker[t] /\ chosen[owner] = t

\* Resolving an attempt leaves the status the operator chose alone, except that
\* a success that reaches the target completes a borrowing or paused task.
ResolutionKeepsStatus ==
  [][\A p \in Procs :
       LET t == chosen[p]
       IN  pc[p] = "resolving" /\ up'[p] /\ pc'[p] = "idle" =>
             \/ status'[t] = status[t]
             \/ /\ status[t] \in {"borrowing", "paused"}
                /\ status'[t] = "completed"
                /\ count'[t] >= target[t]]_vars

\* A ban ends only in a manual Start made after its cooldown ran out; time and
\* restarts alone never end it (set_execution_enabled).
BanEndsByStart ==
  [][rearm /\ ~rearm' => cooldown # "active" /\ cooldown' = "none" /\ enabled']_vars

-----------------------------------------------------------------------------
(* The promise, LoanBook: threads, rows and markers forgotten.             *)

Asker == { p \in Procs : InFlight(p) }
AskedFor == IF Asker = {} THEN NULL ELSE chosen[CHOOSE p \in Asker : TRUE]
Phase ==
  CASE Asker = {}                          -> "idle"
    [] \E p \in Asker : pc[p] = "posting" -> "asked"
    [] \E p \in Asker : HoldsLoan(p)      -> "lent"
    [] OTHER                               -> "ended"
Silenced == LiveMode /\ (rearm \/ cooldown = "active")

Promise == INSTANCE LoanBook
  WITH Task <- Tasks, Ceiling <- Targets, ceiling <- target, booked <- count,
       lost <- unconfirmed, asking <- AskedFor, phase <- Phase, silenced <- Silenced

\* The engine implements LoanBook: over all processes it asks for one loan at a
\* time, under the target and outside of rate limits, an ask brings at most one
\* loan, and each step of the books goes with its step of an ask (service.py
\* _dispatch_one, store.py insert_pending_attempt and resolve_attempt).
KeepsLoanBook == Promise!Spec

==============================================================================
