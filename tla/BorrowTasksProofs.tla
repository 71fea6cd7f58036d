--------------------------- MODULE BorrowTasksProofs ---------------------------
(***************************************************************************)
(* Proofs about BorrowTasks, for any number of tasks, attempts, processes  *)
(* and handlers.                                                           *)
(***************************************************************************)
EXTENDS BorrowTasks, FiniteSetTheorems, WellFoundedInduction, TLAPS

-----------------------------------------------------------------------------
(* Choosing a task.                                                        *)

\* A finite nonempty set of naturals contains its minimum.  The minimum is
\* found by well-founded descent through the initial segments of the set.
LEMMA MinIsMember ==
  ASSUME NEW S, IsFiniteSet(S), S \subseteq Nat, S # {}
  PROVE  Min(S) \in S
<1> DEFINE Below(k) == { j \in S : j =< k }
           F == { Below(k) : k \in S }
<1>1. IsWellFoundedOn(StrictSubsetOrdering(S), FiniteSubsetsOf(S))
  BY FS_StrictSubsetOrderingWellFounded
<1>2. F \subseteq FiniteSubsetsOf(S) /\ F # {}
  <2>1. \A k \in S : IsFiniteSet(Below(k))
    BY FS_Subset
  <2> QED BY <2>1 DEF FiniteSubsetsOf
<1> HIDE DEF F
<1>3. PICK x \in F : \A y \in F : <<y, x>> \notin StrictSubsetOrdering(S)
  BY <1>1, <1>2, WFMin
<1>4. PICK k \in S : x = Below(k)
  BY <1>3 DEF F
<1>5. \A j \in S : k =< j
  <2> SUFFICES ASSUME NEW j \in S, j < k PROVE FALSE
    OBVIOUS
  <2>1. Below(j) \in F
    BY DEF F
  <2>2. Below(j) \subseteq Below(k) /\ k \in Below(k) /\ k \notin Below(j)
    <3>1. j \in Nat /\ k \in Nat /\ \A i \in S : i \in Nat
      OBVIOUS
    <3>2. k =< k /\ ~(k =< j) /\ \A i \in S : i =< j => i =< k
      BY <3>1
    <3> QED BY <3>1, <3>2
  <2>3. <<Below(j), Below(k)>> \in StrictSubsetOrdering(S)
    BY <2>2 DEF StrictSubsetOrdering
  <2> QED BY <1>3, <1>4, <2>1, <2>3
<1> QED BY <1>5 DEF Min

\* select_next_task returns one of the eligible tasks it is given.
LEMMA SelectNextIsEligible ==
  ASSUME NEW E \in SUBSET Tasks, E # {}, NEW c
  PROVE  SelectNext(E, c) \in E
<1>1. IsFiniteSet(Tasks) /\ Tasks \subseteq Nat
  BY BorrowAssumption, FS_Interval DEF Tasks
<1>2. \A S \in SUBSET E : S # {} => Min(S) \in S
  BY <1>1, FS_Subset, MinIsMember
<1>3. E # {} => Min(E) \in E
  BY <1>2
<1>4. { t \in E : t > c } # {} => Min({ t \in E : t > c }) \in { t \in E : t > c }
  BY <1>2
<1> QED BY <1>3, <1>4 DEF SelectNext

-----------------------------------------------------------------------------
(* Type correctness.                                                       *)

LEMMA InitTypeOK == Init => TypeOK
<1> SUFFICES ASSUME Init PROVE TypeOK
  OBVIOUS
<1> USE BorrowAssumption DEF Init, Tasks, NULL
<1>1. TaskTableOK
  <2>1. \A n \in UNION { 0..g : g \in Targets \cup {0} } : n \in Nat
    OBVIOUS
  <2>2. count \in [Tasks -> Nat]
    BY <2>1
  <2>3. target \in [Tasks -> Nat]
    <3>1. target \in [Tasks -> Targets \cup {0}] /\ Targets \cup {0} \subseteq Nat
      OBVIOUS
    <3> QED BY <3>1
  <2> QED BY <2>2, <2>3 DEF TaskTableOK, Statuses
<1>2. AttemptTableOK
  BY DEF AttemptTableOK, AttemptRows, Absent
<1>3. SettingsOK
  BY DEF SettingsOK
<1>4. DispatchersOK
  BY DEF DispatchersOK, InFlight, NothingSeen, Readings
<1>5. RequestsOK
  BY DEF RequestsOK, RequestRows, NoReq
<1>6. loans \in [Tasks -> Nat] /\ unconfirmed \in [Tasks -> Nat]
  BY <1>1 DEF TaskTableOK
<1> QED BY <1>1, <1>2, <1>3, <1>4, <1>5, <1>6 DEF TypeOK

\* What an action leaves alone keeps its type.
LEMMA UntouchedTyped ==
  /\ TaskTableOK /\ UNCHANGED taskVars => TaskTableOK'
  /\ AttemptTableOK /\ UNCHANGED logVars => AttemptTableOK'
  /\ SettingsOK /\ UNCHANGED settingsVars => SettingsOK'
  /\ DispatchersOK /\ UNCHANGED <<pc, chosen, attempt, result, seen>> => DispatchersOK'
  /\ RequestsOK /\ UNCHANGED req => RequestsOK'
<1>1. TaskTableOK /\ UNCHANGED taskVars => TaskTableOK'
  BY DEF TaskTableOK, taskVars
<1>2. AttemptTableOK /\ UNCHANGED logVars => AttemptTableOK'
  BY DEF AttemptTableOK, logVars
<1>3. SettingsOK /\ UNCHANGED settingsVars => SettingsOK'
  BY DEF SettingsOK, settingsVars
<1>4. DispatchersOK /\ UNCHANGED <<pc, chosen, attempt, result, seen>> => DispatchersOK'
  BY DEF DispatchersOK, InFlight
<1>5. RequestsOK /\ UNCHANGED req => RequestsOK'
  BY DEF RequestsOK
<1> QED BY <1>1, <1>2, <1>3, <1>4, <1>5

LEMMA EndTickTyped ==
  ASSUME DispatchersOK, NEW p \in Procs, EndTick(p)
  PROVE  DispatchersOK'
  BY DEF DispatchersOK, EndTick, NULL, NothingSeen, InFlight, Readings

LEMMA TouchedRows ==
  ASSUME RequestsOK, NEW ts
  PROVE  Touched(ts) \in [Requests -> RequestRows]
  BY DEF RequestsOK, RequestRows, Touched

LEMMA BlankRecordsTyped ==
  /\ NoReq \in RequestRows
  /\ Absent \in AttemptRows
  BY DEF NoReq, RequestRows, Absent, AttemptRows, NULL

LEMMA PostOutcomesTyped ==
  ASSUME NEW o \in PostOutcomes
  PROVE  o[1] \in Kinds
<1>1. CASE LiveMode
  BY <1>1 DEF PostOutcomes, Kinds
<1>2. CASE ~LiveMode
  BY <1>2 DEF PostOutcomes, Kinds
<1> QED BY <1>1, <1>2

LEMMA NextTypeOK == TypeOK /\ RowIsThere /\ [Next]_vars => TypeOK'
<1> SUFFICES ASSUME TypeOK, RowIsThere, [Next]_vars PROVE TypeOK'
  OBVIOUS
<1>t. /\ TaskTableOK /\ AttemptTableOK /\ SettingsOK /\ DispatchersOK /\ RequestsOK
      /\ owner \in Procs \cup {NoProc} /\ up \in [Procs -> BOOLEAN]
      /\ loans \in [Tasks -> Nat] /\ unconfirmed \in [Tasks -> Nat]
  BY DEF TypeOK
<1>1. ASSUME NEW p \in Procs, StartProcess(p) PROVE TypeOK'
  <2>1. TaskTableOK'
    BY <1>1, <1>t DEF StartProcess, RecoverMarkers, NULL, TaskTableOK
  <2>2. AttemptTableOK'
    <3>1. \A a \in Attempts :
            [rows[a] EXCEPT !.state = "resolved", !.kind = Orphan] \in AttemptRows
      BY <1>t DEF AttemptTableOK, AttemptRows
    <3>2. rows' \in [Attempts -> AttemptRows] /\ lastId' = lastId
      BY <1>1, <1>t, <3>1 DEF StartProcess, AttemptTableOK
    <3>3. ASSUME NEW a \in Attempts, rows'[a].state # "absent"
          PROVE  rows'[a].task \in Tasks
      <4>1. rows'[a].task = rows[a].task /\ rows[a].state # "absent"
        <5>1. rows[a] \in AttemptRows
          BY <1>t DEF AttemptTableOK
        <5>2. rows'[a] \in {rows[a], [rows[a] EXCEPT !.state = "resolved", !.kind = Orphan]}
              /\ (rows[a].state = "absent" => rows'[a] = rows[a])
          BY <1>1, <1>t DEF StartProcess, AttemptTableOK
        <5>3. \A x \in AttemptRows :
                [x EXCEPT !.state = "resolved", !.kind = Orphan].task = x.task
          BY DEF AttemptRows
        <5> QED BY <5>1, <5>2, <5>3, <3>3
      <4> QED BY <4>1, <1>t DEF AttemptTableOK
    <3> QED BY <1>t, <3>2, <3>3 DEF AttemptTableOK
  <2> QED BY <1>1, <1>t, <2>1, <2>2, UntouchedTyped DEF StartProcess, TypeOK, exchangeVars
<1>2. ASSUME NEW p \in Procs, Crash(p) PROVE TypeOK'
  <2>1. RequestsOK'
    BY <1>2, <1>t, BlankRecordsTyped DEF Crash, RequestsOK
  <2>2. DispatchersOK'
    BY <1>2, <1>t, EndTickTyped DEF Crash
  <2>3. loans' \in [Tasks -> Nat] /\ unconfirmed' \in [Tasks -> Nat]
    BY <1>2, <1>t DEF Crash
  <2> QED BY <1>2, <1>t, <2>1, <2>2, <2>3, UntouchedTyped DEF Crash, TypeOK
<1>3. ASSUME NEW p \in Procs, Choose(p) PROVE TypeOK'
  <2>1. SelectNext(Eligible, cursor) \in Tasks
    BY <1>3, SelectNextIsEligible DEF Choose, Eligible
  <2>2. DispatchersOK'
    BY <1>3, <1>t, <2>1 DEF Choose, DispatchersOK, InFlight
  <2> QED BY <1>3, <1>t, <2>2, UntouchedTyped DEF Choose, TypeOK, exchangeVars
<1>4. ASSUME NEW p \in Procs, InsertCheck(p) PROVE TypeOK'
  <2>1. DispatchersOK'
    <3>1. CASE EndTick(p)
      BY <3>1, <1>t, EndTickTyped
    <3>2. CASE ~EndTick(p)
      BY <1>4, <3>2, <1>t DEF InsertCheck, DispatchersOK, InFlight
    <3> QED BY <3>1, <3>2
  <2> QED BY <1>4, <1>t, <2>1, UntouchedTyped DEF InsertCheck, TypeOK, exchangeVars
<1>5. ASSUME NEW p \in Procs, InsertWrite(p) PROVE TypeOK'
  <2>1. lastId + 1 \in Attempts /\ chosen[p] \in Tasks
    BY <1>5, <1>t, BorrowAssumption
    DEF InsertWrite, AttemptTableOK, DispatchersOK, Attempts
  <2>2. AttemptTableOK'
    <3>1. [state |-> "pending", task |-> chosen[p], kind |-> "none"] \in AttemptRows
      BY <2>1 DEF AttemptRows
    <3>2. /\ lastId' = lastId + 1
          /\ rows' = [rows EXCEPT ![lastId + 1] =
                         [state |-> "pending", task |-> chosen[p], kind |-> "none"]]
      BY <1>5 DEF InsertWrite
    <3>3. lastId' \in 0..MaxAttempts
      BY <2>1, <3>2, BorrowAssumption DEF Attempts
    <3>4. rows' \in [Attempts -> AttemptRows]
      BY <1>t, <3>1, <3>2 DEF AttemptTableOK
    <3>5. \A a \in Attempts : rows'[a].state # "absent" => rows'[a].task \in Tasks
      BY <1>t, <2>1, <3>2 DEF AttemptTableOK
    <3> QED BY <3>3, <3>4, <3>5 DEF AttemptTableOK
  <2>3. TaskTableOK'
    BY <1>5, <1>t, <2>1 DEF InsertWrite, TaskTableOK
  <2>4. DispatchersOK'
    BY <1>5, <1>t, <2>1 DEF InsertWrite, DispatchersOK, InFlight
  <2>5. SettingsOK' /\ RequestsOK'
    BY <1>5, <1>t, <2>1, TouchedRows DEF InsertWrite, SettingsOK, RequestsOK
  <2> QED BY <1>5, <1>t, <2>2, <2>3, <2>4, <2>5 DEF InsertWrite, TypeOK, exchangeVars
<1>6. ASSUME NEW p \in Procs, Post(p) PROVE TypeOK'
  <2>1. PICK o \in PostOutcomes :
          /\ result' = [result EXCEPT ![p] = o[1]]
          /\ loans' = IF o[2] THEN [loans EXCEPT ![chosen[p]] = @ + 1] ELSE loans
          /\ unconfirmed' = IF o[2] /\ o[1] # "success"
                            THEN [unconfirmed EXCEPT ![chosen[p]] = @ + 1]
                            ELSE unconfirmed
    BY <1>6 DEF Post
  <2>2. o[1] \in Kinds
    BY PostOutcomesTyped
  <2>3. DispatchersOK'
    BY <1>6, <1>t, <2>1, <2>2 DEF Post, DispatchersOK, InFlight
  <2>4. loans' \in [Tasks -> Nat] /\ unconfirmed' \in [Tasks -> Nat]
    <3>1. chosen[p] \in Tasks
      BY <1>6, <1>t DEF Post, DispatchersOK
    <3>2. /\ loans' \in {loans, [loans EXCEPT ![chosen[p]] = @ + 1]}
          /\ unconfirmed' \in {unconfirmed, [unconfirmed EXCEPT ![chosen[p]] = @ + 1]}
      BY <2>1
    <3> QED BY <1>t, <3>1, <3>2
  <2> QED BY <1>6, <1>t, <2>3, <2>4, UntouchedTyped DEF Post, TypeOK
<1>7. ASSUME NEW p \in Procs, ResolveRead(p) PROVE TypeOK'
  <2>1. DispatchersOK'
    <3>1. CASE rows[attempt[p]].state = "absent"
      BY <1>7, <3>1, <1>t, EndTickTyped DEF ResolveRead
    <3>2. CASE rows[attempt[p]].state # "absent"
      <4>1. attempt[p] \in Attempts
        BY <1>7, <1>t DEF ResolveRead, DispatchersOK, InFlight
      <4>2. rows[attempt[p]].task \in Tasks
        BY <3>2, <4>1, <1>t DEF AttemptTableOK
      <4> DEFINE reading == [status |-> status[rows[attempt[p]].task],
                             count |-> count[rows[attempt[p]].task],
                             target |-> target[rows[attempt[p]].task],
                             latest |-> latest[rows[attempt[p]].task]]
      <4>3. reading \in Readings
        BY <4>2, <1>t DEF TaskTableOK, Readings
      <4>4. /\ pc' = [pc EXCEPT ![p] = "resolving"]
            /\ seen' = [seen EXCEPT ![p] = reading]
            /\ UNCHANGED <<chosen, attempt, result>>
            /\ pc[p] = "answered"
        BY <1>7, <3>2 DEF ResolveRead
      <4> HIDE DEF reading
      <4> QED BY <4>3, <4>4, <1>t DEF DispatchersOK, InFlight
    <3> QED BY <3>1, <3>2
  <2> QED BY <1>7, <1>t, <2>1, UntouchedTyped DEF ResolveRead, TypeOK, exchangeVars
<1>8. ASSUME NEW p \in Procs, ResolveWrite(p) PROVE TypeOK'
  <2>1. /\ result[p] \in Kinds \cup {"none"} /\ seen[p] \in Readings
        /\ attempt[p] \in Attempts
    BY <1>8, <1>t DEF ResolveWrite, DispatchersOK, InFlight
  <2>a. /\ seen[p].count \in Nat /\ seen[p].count + 0 \in Nat /\ seen[p].count + 1 \in Nat
        /\ seen[p].status \in Statuses \cup {"absent"}
    BY <2>1 DEF Readings
  <2>2. TaskTableOK'
    <3> DEFINE n == seen[p].count + (IF result[p] = "success" THEN 1 ELSE 0)
               st == IF result[p] = "success"
                     THEN ResolveStatus(seen[p].status, n, seen[p].target)
                     ELSE seen[p].status
               t == rows[attempt[p]].task
    <3>1. n \in Nat
      BY <2>a
    <3>2. st \in Statuses \cup {"absent"}
      BY <2>a DEF ResolveStatus, Statuses
    <3>3. /\ \/ UNCHANGED <<status, count, latest>>
             \/ /\ count' = [count EXCEPT ![t] = n]
                /\ status' = [status EXCEPT ![t] = st]
                /\ latest' = [latest EXCEPT ![t] = result[p]]
          /\ marker' = [marker EXCEPT ![t] = NULL]
          /\ UNCHANGED <<target, authorized>>
      BY <1>8 DEF ResolveWrite
    <3> HIDE DEF n, st, t
    <3>4. /\ status' \in [Tasks -> Statuses \cup {"absent"}]
          /\ count' \in [Tasks -> Nat]
          /\ latest' \in [Tasks -> Kinds \cup {"none"}]
      <4>1. CASE UNCHANGED <<status, count, latest>>
        BY <4>1, <1>t DEF TaskTableOK
      <4>2. CASE /\ count' = [count EXCEPT ![t] = n]
                 /\ status' = [status EXCEPT ![t] = st]
                 /\ latest' = [latest EXCEPT ![t] = result[p]]
        BY <4>2, <1>t, <2>1, <3>1, <3>2 DEF TaskTableOK
      <4> QED BY <3>3, <4>1, <4>2
    <3>5. marker' \in [Tasks -> Attempts \cup {NULL}]
      BY <1>t, <3>3 DEF TaskTableOK
    <3> QED BY <1>t, <3>3, <3>4, <3>5 DEF TaskTableOK
  <2>3. AttemptTableOK'
    <3> DEFINE a == attempt[p]
               filed == [rows[a] EXCEPT !.state = "resolved", !.kind = result[p]]
    <3>1. filed \in AttemptRows /\ filed.task = rows[a].task
      <4>1. rows[a] \in AttemptRows
        BY <1>t, <2>1 DEF AttemptTableOK
      <4> QED BY <4>1, <2>1 DEF AttemptRows
    <3>2. /\ rows' \in {[rows EXCEPT ![a] = Absent], [rows EXCEPT ![a] = filed]}
          /\ lastId' = lastId
      BY <1>8, <1>t, <2>1 DEF ResolveWrite, AttemptTableOK, AttemptRows
    <3>3. rows[a].task \in Tasks
      BY <1>8, <1>t, <2>1 DEF ResolveWrite, InFlight, RowIsThere, AttemptTableOK
    <3> HIDE DEF filed
    <3> QED BY <1>t, <2>1, <3>1, <3>2, <3>3, BlankRecordsTyped DEF AttemptTableOK, Absent
  <2>4. SettingsOK'
    BY <1>8, <1>t DEF ResolveWrite, ApplyRateLimit, SettingsOK
  <2>5. DispatchersOK' /\ RequestsOK'
    BY <1>8, <1>t, EndTickTyped, TouchedRows DEF ResolveWrite, RequestsOK
  <2> QED BY <1>8, <1>t, <2>2, <2>3, <2>4, <2>5 DEF ResolveWrite, TypeOK, exchangeVars
<1>9. ASSUME NEW p \in Procs, StoreFailure(p) PROVE TypeOK'
  <2>1. unconfirmed' \in [Tasks -> Nat]
    <3>1. chosen[p] \in Tasks
      BY <1>9, <1>t DEF StoreFailure, DispatchersOK
    <3>2. unconfirmed' \in {unconfirmed, [unconfirmed EXCEPT ![chosen[p]] = @ + 1]}
      BY <1>9 DEF StoreFailure
    <3> QED BY <1>t, <3>1, <3>2
  <2> QED BY <1>9, <1>t, <2>1, EndTickTyped, UntouchedTyped DEF StoreFailure, TypeOK
<1>10. CASE CooldownElapses
  <2>1. SettingsOK'
    BY <1>10, <1>t DEF CooldownElapses, SettingsOK
  <2> QED BY <1>10, <1>t, <2>1, UntouchedTyped
      DEF CooldownElapses, TypeOK, procVars, exchangeVars
<1>11. ASSUME NEW p \in Procs, Create(p) PROVE TypeOK'
  <2>1. TaskTableOK'
    BY <1>11, <1>t, BorrowAssumption DEF Create, TaskTableOK, Statuses
  <2> QED BY <1>11, <1>t, <2>1, UntouchedTyped DEF Create, TypeOK, procVars, exchangeVars
<1>12. ASSUME NEW p \in Procs, NEW r \in Requests, NEW t \in Tasks,
              ReadStart(p, r, t) \/ ReadPause(p, r, t)
              \/ ReadDelete(p, r, t) \/ ReadEdit(p, r, t)
       PROVE TypeOK'
  <2>1. PICK op \in {"start", "complete", "pause", "delete", "edit"},
             tg \in Nat, fr \in BOOLEAN : Receive(p, r, t, op, tg, fr)
    BY <1>12, BorrowAssumption DEF ReadStart, ReadPause, ReadDelete, ReadEdit
  <2>2. RequestsOK'
    <3>1. p \in Procs /\ t \in Tasks
      OBVIOUS
    <3>2. [op |-> op, proc |-> p, task |-> t, target |-> tg, fresh |-> fr] \in RequestRows
      BY <2>1, <3>1 DEF RequestRows
    <3> QED BY <1>t, <2>1, <3>2 DEF Receive, RequestsOK
  <2> QED BY <1>t, <2>1, <2>2, UntouchedTyped DEF Receive, TypeOK, procVars, exchangeVars
<1>13. ASSUME NEW r \in Requests, WriteStatus(r) PROVE TypeOK'
  <2>1. TaskTableOK'
    BY <1>13, <1>t DEF WriteStatus, TaskTableOK, Statuses
  <2>2. RequestsOK'
    BY <1>13, <1>t, BlankRecordsTyped, TouchedRows DEF WriteStatus, RequestsOK
  <2> QED BY <1>13, <1>t, <2>1, <2>2, UntouchedTyped
      DEF WriteStatus, TypeOK, procVars, exchangeVars
<1>14. ASSUME NEW r \in Requests, WriteEdit(r) PROVE TypeOK'
  <2>1. req[r].target \in Nat
    BY <1>t DEF RequestsOK, RequestRows
  <2>2. TaskTableOK'
    BY <1>14, <1>t, <2>1 DEF WriteEdit, TaskTableOK
  <2>3. RequestsOK'
    BY <1>14, <1>t, BlankRecordsTyped, TouchedRows DEF WriteEdit, RequestsOK
  <2> QED BY <1>14, <1>t, <2>2, <2>3, UntouchedTyped
      DEF WriteEdit, TypeOK, procVars, exchangeVars
<1>15. ASSUME NEW p \in Procs, ClearLogs(p) PROVE TypeOK'
  <2>1. AttemptTableOK'
    BY <1>15, <1>t, BlankRecordsTyped DEF ClearLogs, AttemptTableOK, Absent
  <2> QED BY <1>15, <1>t, <2>1, UntouchedTyped
      DEF ClearLogs, TypeOK, procVars, exchangeVars
<1>16. ASSUME NEW p \in Procs, ExecutionStart(p) \/ ExecutionStop(p) PROVE TypeOK'
  <2>1. SettingsOK'
    BY <1>16, <1>t DEF ExecutionStart, ExecutionStop, SettingsOK
  <2> QED BY <1>16, <1>t, <2>1, UntouchedTyped
      DEF ExecutionStart, ExecutionStop, TypeOK, procVars, exchangeVars
<1>17. CASE UNCHANGED vars
  BY <1>17, <1>t, UntouchedTyped DEF vars, TypeOK, procVars, exchangeVars
<1> QED
  BY <1>1, <1>2, <1>3, <1>4, <1>5, <1>6, <1>7, <1>8, <1>9, <1>10, <1>11, <1>12,
     <1>13, <1>14, <1>15, <1>16, <1>17
  DEF Next, Scheduler, Operator

-----------------------------------------------------------------------------
(* One dispatcher, whose row is there to be resolved.                      *)

\* Only the process that holds the sidecar lock has a dispatch under way.
OwnerDispatches ==
  \A p \in Procs : pc[p] # "idle" => up[p] /\ owner = p

\* The inductive invariant of the store and its dispatcher.
IInv == TypeOK /\ OwnerDispatches /\ RowIsThere

LEMMA InitIInv == Init => IInv
<1>1. Init => TypeOK
  BY InitTypeOK
<1>2. Init => OwnerDispatches /\ RowIsThere
  BY DEF Init, OwnerDispatches, RowIsThere, InFlight
<1> QED BY <1>1, <1>2 DEF IInv

LEMMA EndTickIdle ==
  ASSUME DispatchersOK, NEW p \in Procs, EndTick(p)
  PROVE  /\ pc'[p] = "idle" /\ ~InFlight(p)'
         /\ \A q \in Procs \ {p} :
              /\ pc'[q] = pc[q] /\ chosen'[q] = chosen[q] /\ attempt'[q] = attempt[q]
              /\ InFlight(q)' <=> InFlight(q)
  BY DEF DispatchersOK, EndTick, InFlight

LEMMA NextOwnerDispatches == IInv /\ [Next]_vars => OwnerDispatches'
<1> SUFFICES ASSUME IInv, [Next]_vars PROVE OwnerDispatches'
  OBVIOUS
<1>t. /\ DispatchersOK /\ OwnerDispatches
      /\ pc \in [Procs -> {"idle", "chosen", "inserting", "posting", "answered", "resolving"}]
      /\ owner \in Procs \cup {NoProc} /\ up \in [Procs -> BOOLEAN] /\ NoProc \notin Procs
  BY BorrowAssumption DEF IInv, TypeOK, DispatchersOK
<1> USE DEF OwnerDispatches
<1>1. ASSUME NEW p \in Procs, StartProcess(p) PROVE OwnerDispatches'
  BY <1>1, <1>t DEF StartProcess, Acquires
<1>2. ASSUME NEW p \in Procs, Crash(p) PROVE OwnerDispatches'
  BY <1>2, <1>t, EndTickIdle DEF Crash
<1>3. ASSUME NEW p \in Procs, Choose(p) PROVE OwnerDispatches'
  BY <1>3, <1>t DEF Choose
<1>4. ASSUME NEW p \in Procs, EndTick(p), UNCHANGED <<owner, up>> PROVE OwnerDispatches'
  BY <1>4, <1>t, EndTickIdle
<1>5. ASSUME NEW p \in Procs, pc[p] # "idle", UNCHANGED <<owner, up>>,
             \E l \in {"inserting", "posting", "answered", "resolving"} :
               pc' = [pc EXCEPT ![p] = l]
      PROVE  OwnerDispatches'
  BY <1>5, <1>t
<1>6. ASSUME NEW p \in Procs, Scheduler(p) PROVE OwnerDispatches'
  BY <1>3, <1>4, <1>5, <1>6
  DEF Scheduler, InsertCheck, InsertWrite, Post, ResolveRead, ResolveWrite, StoreFailure
<1>7. ASSUME UNCHANGED <<pc, owner, up>> PROVE OwnerDispatches'
  BY <1>7, <1>t
<1>8. ASSUME NEW p \in Procs, Operator(p) PROVE OwnerDispatches'
  BY <1>7, <1>8
  DEF Operator, Create, ClearLogs, ExecutionStart, ExecutionStop, ReadStart, ReadPause,
      ReadDelete, ReadEdit, Receive, procVars
<1>9. ASSUME NEW r \in Requests, WriteStatus(r) \/ WriteEdit(r) PROVE OwnerDispatches'
  BY <1>7, <1>9 DEF WriteStatus, WriteEdit, procVars
<1>10. CASE CooldownElapses \/ UNCHANGED vars
  BY <1>7, <1>10 DEF CooldownElapses, vars, procVars
<1> QED BY <1>1, <1>2, <1>6, <1>8, <1>9, <1>10 DEF Next

LEMMA NextRowIsThere == IInv /\ [Next]_vars => RowIsThere'
<1> SUFFICES ASSUME IInv, [Next]_vars, NEW q \in Procs, InFlight(q)'
             PROVE  /\ rows'[attempt'[q]].state = "pending"
                    /\ rows'[attempt'[q]].task = chosen'[q]
                    /\ marker'[chosen'[q]] = attempt'[q]
  BY DEF RowIsThere
<1> DEFINE Kept == /\ rows'[attempt'[q]].state = "pending"
                   /\ rows'[attempt'[q]].task = chosen'[q]
                   /\ marker'[chosen'[q]] = attempt'[q]
<1>t. TypeOK /\ DispatchersOK /\ TaskTableOK /\ AttemptTableOK
  BY DEF IInv, TypeOK
<1>o. \A p \in Procs : pc[p] # "idle" => up[p] /\ owner = p
  BY DEF IInv, OwnerDispatches
<1>m. InFlight(q) => /\ rows[attempt[q]].state = "pending"
                     /\ rows[attempt[q]].task = chosen[q]
                     /\ marker[chosen[q]] = attempt[q]
                     /\ chosen[q] \in Tasks /\ attempt[q] \in Attempts
                     /\ pc[q] # "idle"
  BY <1>t DEF IInv, RowIsThere, DispatchersOK, InFlight
<1>1. ASSUME NEW p \in Procs, StartProcess(p) PROVE Kept
  <2>1. CASE owner = NoProc
    <3>1. ~InFlight(q)
      BY <1>o, <2>1, BorrowAssumption DEF InFlight
    <3> QED BY <1>1, <3>1 DEF StartProcess, InFlight
  <2>2. CASE owner # NoProc
    BY <1>1, <1>m, <2>2 DEF StartProcess, Acquires, InFlight
  <2> QED BY <2>1, <2>2
<1>2. ASSUME NEW p \in Procs, EndTick(p), UNCHANGED <<rows, marker>> PROVE Kept
  BY <1>2, <1>m, <1>t, EndTickIdle
<1>3. ASSUME UNCHANGED <<pc, chosen, attempt>>, UNCHANGED <<rows, marker>> PROVE Kept
  BY <1>3, <1>m DEF InFlight
<1>4. ASSUME NEW p \in Procs, Choose(p) PROVE Kept
  BY <1>4, <1>m, <1>t DEF Choose, taskVars, logVars, InFlight, DispatchersOK
<1>5. ASSUME NEW p \in Procs, InsertCheck(p) PROVE Kept
  <2>1. CASE EndTick(p)
    BY <1>2, <1>5, <2>1 DEF InsertCheck, taskVars, logVars
  <2>2. CASE ~EndTick(p)
    BY <1>5, <1>m, <1>t, <2>2 DEF InsertCheck, taskVars, logVars, InFlight, DispatchersOK
  <2> QED BY <2>1, <2>2
<1>6. ASSUME NEW p \in Procs, InsertWrite(p) PROVE Kept
  <2>1. q = p
    BY <1>6, <1>m, <1>o, <1>t DEF InsertWrite, InFlight, DispatchersOK
  <2>2. lastId + 1 \in Attempts /\ chosen[p] \in Tasks
    BY <1>6, <1>t, BorrowAssumption
    DEF InsertWrite, AttemptTableOK, DispatchersOK, Attempts
  <2> QED BY <1>6, <1>t, <2>1, <2>2
      DEF InsertWrite, AttemptTableOK, TaskTableOK, DispatchersOK
<1>7. ASSUME NEW p \in Procs, Post(p) PROVE Kept
  BY <1>7, <1>m, <1>t DEF Post, taskVars, logVars, InFlight, DispatchersOK
<1>8. ASSUME NEW p \in Procs, ResolveRead(p) PROVE Kept
  <2>1. CASE EndTick(p)
    BY <1>2, <1>8, <2>1 DEF ResolveRead, taskVars, logVars
  <2>2. CASE ~EndTick(p)
    BY <1>8, <1>m, <1>t, <2>2 DEF ResolveRead, taskVars, logVars, InFlight, DispatchersOK
  <2> QED BY <2>1, <2>2
<1>9. ASSUME NEW p \in Procs, ResolveWrite(p) PROVE Kept
  \* The resolving process was the only one in flight, and its tick is over.
  <2>1. q # p /\ InFlight(q)
    BY <1>9, <1>t, EndTickIdle DEF ResolveWrite
  <2> QED BY <1>9, <1>m, <1>o, <2>1 DEF ResolveWrite
<1>10. ASSUME NEW p \in Procs, StoreFailure(p) PROVE Kept
  BY <1>2, <1>10 DEF StoreFailure, taskVars, logVars
<1>11. ASSUME NEW p \in Procs, Crash(p) PROVE Kept
  BY <1>2, <1>11 DEF Crash, taskVars, logVars
<1>12. ASSUME NEW p \in Procs, ClearLogs(p) PROVE Kept
  \* KeptByClear keeps the row because the marker of its task points at it.
  <2>1. InFlight(q) /\ UNCHANGED <<chosen, attempt, marker>>
    BY <1>12 DEF ClearLogs, InFlight, procVars, taskVars
  <2> QED BY <1>12, <1>m, <2>1 DEF ClearLogs, KeptByClear
<1>13. ASSUME NEW p \in Procs,
              \/ Create(p) \/ ExecutionStart(p) \/ ExecutionStop(p)
              \/ \E r \in Requests, t \in Tasks :
                   \/ ReadStart(p, r, t)  \/ ReadPause(p, r, t)
                   \/ ReadDelete(p, r, t) \/ ReadEdit(p, r, t)
       PROVE Kept
  BY <1>3, <1>13
  DEF Create, ExecutionStart, ExecutionStop, ReadStart, ReadPause, ReadDelete, ReadEdit,
      Receive, procVars, taskVars, logVars
<1>14. ASSUME NEW r \in Requests, WriteStatus(r) \/ WriteEdit(r) PROVE Kept
  BY <1>3, <1>14 DEF WriteStatus, WriteEdit, procVars, logVars
<1>15. ASSUME CooldownElapses \/ UNCHANGED vars PROVE Kept
  BY <1>3, <1>15 DEF CooldownElapses, vars, procVars, taskVars, logVars
<1> HIDE DEF Kept
<1>16. ASSUME NEW p \in Procs, Scheduler(p) PROVE Kept
  BY <1>4, <1>5, <1>6, <1>7, <1>8, <1>9, <1>10, <1>16 DEF Scheduler
<1>17. ASSUME NEW p \in Procs, Operator(p) PROVE Kept
  BY <1>12, <1>13, <1>17 DEF Operator
<1>18. ASSUME Next PROVE Kept
  <2>1. ASSUME NEW p \in Procs, StartProcess(p) \/ Crash(p) \/ Scheduler(p) \/ Operator(p)
        PROVE  Kept
    BY <1>1, <1>11, <1>16, <1>17, <2>1
  <2> QED BY <1>14, <1>15, <1>18, <2>1 DEF Next
<1> QED BY <1>15, <1>18 DEF Kept

LEMMA NextIInv == IInv /\ [Next]_vars => IInv'
  BY NextTypeOK, NextOwnerDispatches, NextRowIsThere DEF IInv

LEMMA IInvAlways == Spec => []IInv
  BY InitIInv, NextIInv, PTL DEF Spec

\* Every variable keeps its type in every reachable state: a dispatch always
\* has a task, whatever select_next_task was given, an attempt row always
\* belongs to one, and so does a handler between its read and its write.
THEOREM TypeCorrect == Spec => []TypeOK
<1>1. IInv => TypeOK
  BY DEF IInv
<1> QED BY <1>1, IInvAlways, PTL

\* While a POST is out its attempt row is pending and its task's marker points
\* at it, so the answer always finds the row that resolve_attempt must write.
THEOREM AnswerFindsItsRow == Spec => []InFlightIsMarked
<1>1. IInv => InFlightIsMarked
  BY DEF IInv, InFlightIsMarked
<1> QED BY <1>1, IInvAlways, PTL

\* The sidecar lock lets at most one process have a dispatch under way, over
\* any number of processes, crashes and restarts.
THEOREM OneDispatcher == Spec => []SoleDispatcher
<1>1. IInv => SoleDispatcher
  BY DEF IInv, OwnerDispatches, SoleDispatcher
<1> QED BY <1>1, IInvAlways, PTL

-----------------------------------------------------------------------------
(* Rate limits.                                                            *)

LEMMA NextQuiet == IInv /\ QuietWhileRateLimited /\ [Next]_vars => QuietWhileRateLimited'
<1> SUFFICES ASSUME IInv, QuietWhileRateLimited, [Next]_vars,
                    LiveMode, rearm' \/ cooldown' = "active", NEW q \in Procs
             PROVE  pc'[q] \in {"idle", "chosen"}
  BY DEF QuietWhileRateLimited
<1> DEFINE Quiet == pc'[q] \in {"idle", "chosen"}
<1>t. DispatchersOK /\ pc \in [Procs -> {"idle", "chosen", "inserting", "posting",
                                         "answered", "resolving"}]
  BY DEF IInv, TypeOK, DispatchersOK
<1>o. \A p \in Procs : pc[p] # "idle" => owner = p
  BY DEF IInv, OwnerDispatches
<1>q. rearm \/ cooldown = "active" => \A p \in Procs : pc[p] \in {"idle", "chosen"}
  BY DEF QuietWhileRateLimited
<1>1. ASSUME UNCHANGED pc, (rearm' => rearm), (cooldown' = "active" => cooldown = "active")
      PROVE Quiet
  BY <1>1, <1>q
<1>2. ASSUME NEW p \in Procs, EndTick(p), UNCHANGED <<rearm, cooldown>> PROVE Quiet
  BY <1>2, <1>q, <1>t, EndTickIdle
<1>3. ASSUME NEW p \in Procs, Crash(p) PROVE Quiet
  BY <1>2, <1>3 DEF Crash, settingsVars
<1>4. ASSUME NEW p \in Procs, Choose(p) PROVE Quiet
  BY <1>4, <1>q, <1>t DEF Choose, settingsVars
<1>5. ASSUME NEW p \in Procs, InsertCheck(p) PROVE Quiet
  BY <1>2, <1>5, <1>q, <1>t DEF InsertCheck, GatesOpen, settingsVars
<1>6. ASSUME NEW p \in Procs, InsertWrite(p) \/ Post(p) PROVE Quiet
  BY <1>6, <1>q, <1>t DEF InsertWrite, Post, settingsVars
<1>7. ASSUME NEW p \in Procs, ResolveRead(p) PROVE Quiet
  BY <1>2, <1>7, <1>q, <1>t DEF ResolveRead, settingsVars
<1>8. ASSUME NEW p \in Procs, ResolveWrite(p) PROVE Quiet
  \* The answer that sets the limits is that of the only dispatch there is.
  BY <1>8, <1>o, <1>t, EndTickIdle DEF ResolveWrite
<1>9. ASSUME NEW p \in Procs, StoreFailure(p) PROVE Quiet
  BY <1>2, <1>9 DEF StoreFailure, settingsVars
<1>10. ASSUME NEW p \in Procs, Scheduler(p) PROVE Quiet
  BY <1>4, <1>5, <1>6, <1>7, <1>8, <1>9, <1>10 DEF Scheduler
<1>11. ASSUME NEW p \in Procs, StartProcess(p) \/ Operator(p) PROVE Quiet
  BY <1>1, <1>11
  DEF StartProcess, Operator, Create, ClearLogs, ExecutionStart, ExecutionStop,
      ReadStart, ReadPause, ReadDelete, ReadEdit, Receive, procVars, settingsVars
<1>12. ASSUME NEW r \in Requests, WriteStatus(r) \/ WriteEdit(r) PROVE Quiet
  BY <1>1, <1>12 DEF WriteStatus, WriteEdit, procVars, settingsVars
<1>13. ASSUME CooldownElapses \/ UNCHANGED vars PROVE Quiet
  BY <1>1, <1>13 DEF CooldownElapses, vars, procVars, settingsVars
<1> QED BY <1>3, <1>10, <1>11, <1>12, <1>13 DEF Next

\* After a 429 or a 418 nothing is inserted or posted until the cooldown ran
\* out and, for a 418, the operator pressed Start again.
THEOREM RateLimitSilences == Spec => []QuietWhileRateLimited
<1>1. Init => QuietWhileRateLimited
  BY DEF Init, QuietWhileRateLimited
<1> QED BY <1>1, IInvAlways, NextQuiet, PTL DEF Spec

-----------------------------------------------------------------------------
(* In-flight markers.                                                      *)

LEMMA NextNoStrandedMarker ==
  ASSUME ~StoreFails
  PROVE  IInv /\ NoStrandedMarker /\ [Next]_vars => NoStrandedMarker'
<1> SUFFICES ASSUME IInv, NoStrandedMarker, [Next]_vars, NEW t \in Tasks,
                    marker'[t] # NULL, owner' # NoProc
             PROVE  InFlight(owner)' /\ attempt'[owner'] = marker'[t]
                    /\ chosen'[owner'] = t
  BY DEF NoStrandedMarker
<1> DEFINE Held == InFlight(owner)' /\ attempt'[owner'] = marker'[t] /\ chosen'[owner'] = t
<1>t. /\ TaskTableOK /\ DispatchersOK /\ NoProc \notin Procs
      /\ pc \in [Procs -> {"idle", "chosen", "inserting", "posting",
                           "answered", "resolving"}]
      /\ owner \in Procs \cup {NoProc}
  BY BorrowAssumption DEF IInv, TypeOK, DispatchersOK
<1>o. \A p \in Procs : pc[p] # "idle" => owner = p
  BY DEF IInv, OwnerDispatches
<1>m. marker[t] # NULL /\ owner # NoProc =>
        InFlight(owner) /\ attempt[owner] = marker[t] /\ chosen[owner] = t
  BY DEF NoStrandedMarker
<1>1. ASSUME UNCHANGED <<marker, owner, pc, chosen, attempt>> PROVE Held
  BY <1>1, <1>m DEF InFlight
<1>2. ASSUME NEW p \in Procs, StartProcess(p) PROVE Held
  BY <1>2, <1>m DEF StartProcess, Acquires, RecoverMarkers, InFlight
<1>3. ASSUME NEW p \in Procs, Crash(p) PROVE Held
  <2>1. owner # p /\ owner' = owner /\ owner \in Procs
    BY <1>3, <1>t DEF Crash
  <2> QED BY <1>3, <1>m, <1>t, <2>1, EndTickIdle DEF Crash, taskVars
<1>4. ASSUME NEW p \in Procs, Choose(p) PROVE Held
  BY <1>4, <1>m DEF Choose, taskVars, InFlight
<1>5. ASSUME NEW p \in Procs, InsertCheck(p) PROVE Held
  BY <1>5, <1>m, <1>o, <1>t DEF InsertCheck, taskVars, InFlight
<1>6. ASSUME NEW p \in Procs, InsertWrite(p) PROVE Held
  <2>1. owner = p /\ chosen[p] \in Tasks
    BY <1>6, <1>o, <1>t DEF InsertWrite, DispatchersOK
  <2>2. marker[t] = NULL
    BY <1>6, <1>m, <1>t, <2>1 DEF InsertWrite, InFlight
  <2> QED BY <1>6, <1>t, <2>1, <2>2 DEF InsertWrite, InFlight, TaskTableOK, DispatchersOK
<1>7. ASSUME NEW p \in Procs, Post(p) PROVE Held
  BY <1>7, <1>m, <1>t DEF Post, taskVars, InFlight
<1>8. ASSUME NEW p \in Procs, ResolveRead(p) PROVE Held
  <2>1. rows[attempt[p]].state # "absent"
    BY <1>8 DEF IInv, RowIsThere, InFlight, ResolveRead
  <2> QED BY <1>8, <1>m, <1>t, <2>1 DEF ResolveRead, taskVars, InFlight
<1>9. ASSUME NEW p \in Procs, ResolveWrite(p) PROVE Held
  \* The one marker there was is that of the attempt being resolved.
  <2>1. owner = p /\ rows[attempt[p]].task = chosen[p] /\ p \in Procs
    BY <1>9, <1>o DEF ResolveWrite, IInv, RowIsThere, InFlight
  <2>2. marker'[t] = IF t = chosen[p] THEN NULL ELSE marker[t]
    BY <1>9, <1>t, <2>1 DEF ResolveWrite, TaskTableOK
  <2> QED BY <1>m, <1>t, <2>1, <2>2
<1>10. ASSUME NEW p \in Procs, Scheduler(p) PROVE Held
  BY <1>4, <1>5, <1>6, <1>7, <1>8, <1>9, <1>10 DEF Scheduler, StoreFailure
<1>11. ASSUME NEW p \in Procs, Operator(p) PROVE Held
  BY <1>1, <1>11
  DEF Operator, Create, ClearLogs, ExecutionStart, ExecutionStop, ReadStart, ReadPause,
      ReadDelete, ReadEdit, Receive, procVars, taskVars
<1>12. ASSUME NEW r \in Requests, WriteStatus(r) \/ WriteEdit(r) PROVE Held
  BY <1>1, <1>12 DEF WriteStatus, WriteEdit, procVars
<1>13. ASSUME CooldownElapses \/ UNCHANGED vars PROVE Held
  BY <1>1, <1>13 DEF CooldownElapses, vars, procVars, taskVars
<1> HIDE DEF Held
<1>14. ASSUME Next PROVE Held
  <2>1. ASSUME NEW p \in Procs, StartProcess(p) \/ Crash(p) \/ Scheduler(p) \/ Operator(p)
        PROVE  Held
    BY <1>2, <1>3, <1>10, <1>11, <2>1
  <2> QED BY <1>12, <1>13, <1>14, <2>1 DEF Next
<1> QED BY <1>13, <1>14 DEF Held

\* As long as no store method raises, a marked task is the one its owner is
\* dispatching: crashes and restarts leave no task silently out of rotation.
THEOREM MarkersAreOfDispatches ==
  ASSUME ~StoreFails
  PROVE  Spec => []NoStrandedMarker
<1>1. Init => NoStrandedMarker
  BY DEF Init, NoStrandedMarker
<1> QED BY <1>1, IInvAlways, NextNoStrandedMarker, PTL DEF Spec

-----------------------------------------------------------------------------
(* The books.                                                              *)

\* The processes that hold a tranId of task t.
Holders(t) == { p \in Procs : HoldsLoan(p) /\ chosen[p] = t }

\* What resolve_attempt read is still so when it writes: nobody else counts.
ReadIsCurrent ==
  \A p \in Procs : pc[p] = "resolving" => seen[p].count = count[chosen[p]]

LEMMA AtMostOneElement ==
  ASSUME NEW S, \A x, y \in S : x = y
  PROVE  Cardinality(S) = IF S = {} THEN 0 ELSE 1
<1>1. CASE S = {}
  BY <1>1, FS_EmptySet
<1>2. CASE S # {}
  <2>1. PICK x \in S : TRUE
    BY <1>2
  <2>2. S = {x}
    BY <2>1
  <2> QED BY <1>2, <2>2, FS_Singleton
<1> QED BY <1>1, <1>2

\* With one dispatcher, the third term of LoansAccounted is 0 or 1.
LEMMA HoldersOfOne ==
  ASSUME OwnerDispatches, NEW t
  PROVE  Cardinality(Holders(t)) = IF Holders(t) = {} THEN 0 ELSE 1
  BY AtMostOneElement DEF Holders, OwnerDispatches, HoldsLoan

\* No handler's first step counts anything or moves a dispatch.
LEMMA OperatorLeavesBooks ==
  ASSUME NEW p \in Procs, Operator(p)
  PROVE  UNCHANGED <<count, procVars, exchangeVars>>
<1>1. CASE Create(p) \/ ClearLogs(p)
  BY <1>1 DEF Create, ClearLogs, taskVars
<1>2. CASE ExecutionStart(p) \/ ExecutionStop(p)
  BY <1>2 DEF ExecutionStart, ExecutionStop, taskVars
<1>3. ASSUME NEW r \in Requests, NEW t \in Tasks,
             ReadStart(p, r, t) \/ ReadPause(p, r, t)
             \/ ReadDelete(p, r, t) \/ ReadEdit(p, r, t)
      PROVE  UNCHANGED <<count, procVars, exchangeVars>>
  BY <1>3 DEF ReadStart, ReadPause, ReadDelete, ReadEdit, Receive, taskVars
<1> QED BY <1>1, <1>2, <1>3 DEF Operator

LEMMA NextReadIsCurrent == IInv /\ ReadIsCurrent /\ [Next]_vars => ReadIsCurrent'
<1> SUFFICES ASSUME IInv, ReadIsCurrent, [Next]_vars,
                    NEW q \in Procs, pc'[q] = "resolving"
             PROVE  seen'[q].count = count'[chosen'[q]]
  BY DEF ReadIsCurrent
<1> DEFINE Current == seen'[q].count = count'[chosen'[q]]
<1>t. /\ TaskTableOK /\ AttemptTableOK /\ DispatchersOK
      /\ pc \in [Procs -> {"idle", "chosen", "inserting", "posting",
                           "answered", "resolving"}]
  BY DEF IInv, TypeOK, DispatchersOK
<1>o. \A p \in Procs : pc[p] # "idle" => owner = p
  BY DEF IInv, OwnerDispatches
<1>r. pc[q] = "resolving" => seen[q].count = count[chosen[q]]
  BY DEF ReadIsCurrent
<1>1. ASSUME UNCHANGED <<pc, chosen, seen, count>> PROVE Current
  BY <1>1, <1>r
<1>2. ASSUME NEW p \in Procs, EndTick(p), UNCHANGED count PROVE Current
  <2>1. q # p /\ pc[q] = "resolving" /\ chosen'[q] = chosen[q] /\ seen'[q] = seen[q]
    BY <1>2, <1>t, EndTickIdle DEF EndTick, DispatchersOK
  <2> QED BY <1>2, <1>r, <2>1
<1>3. ASSUME NEW p \in Procs, Choose(p) \/ InsertWrite(p) \/ Post(p) PROVE Current
  BY <1>3, <1>r, <1>t DEF Choose, InsertWrite, Post, taskVars, DispatchersOK
<1>4. ASSUME NEW p \in Procs, InsertCheck(p) PROVE Current
  BY <1>2, <1>4, <1>r, <1>t DEF InsertCheck, taskVars
<1>5. ASSUME NEW p \in Procs, ResolveRead(p) PROVE Current
  <2>1. CASE EndTick(p)
    BY <1>2, <1>5, <2>1 DEF ResolveRead, taskVars
  <2>2. CASE ~EndTick(p)
    <3>1. rows[attempt[p]].task = chosen[p]
      BY <1>5 DEF IInv, RowIsThere, InFlight, ResolveRead
    <3> QED BY <1>5, <1>r, <1>t, <2>2, <3>1 DEF ResolveRead, taskVars, DispatchersOK
  <2> QED BY <2>1, <2>2
<1>6. ASSUME NEW p \in Procs, ResolveWrite(p) PROVE Current
  BY <1>6, <1>o, <1>t, EndTickIdle DEF ResolveWrite
<1>7. ASSUME NEW p \in Procs, StoreFailure(p) \/ Crash(p) PROVE Current
  BY <1>2, <1>7 DEF StoreFailure, Crash, taskVars
<1>8. ASSUME NEW p \in Procs, StartProcess(p) \/ Operator(p) PROVE Current
  <2>1. UNCHANGED <<pc, chosen, seen, count>>
    BY <1>8, OperatorLeavesBooks DEF StartProcess, procVars
  <2> QED BY <1>1, <2>1
<1>9. ASSUME NEW r \in Requests, WriteStatus(r) \/ WriteEdit(r) PROVE Current
  BY <1>1, <1>9 DEF WriteStatus, WriteEdit, procVars
<1>10. ASSUME CooldownElapses \/ UNCHANGED vars PROVE Current
  BY <1>1, <1>10 DEF CooldownElapses, vars, procVars, taskVars
<1> HIDE DEF Current
<1>11. ASSUME NEW p \in Procs, Scheduler(p) PROVE Current
  BY <1>3, <1>4, <1>5, <1>6, <1>7, <1>11 DEF Scheduler
<1>12. ASSUME Next PROVE Current
  <2>1. ASSUME NEW p \in Procs, StartProcess(p) \/ Crash(p) \/ Scheduler(p) \/ Operator(p)
        PROVE  Current
    BY <1>7, <1>8, <1>11, <2>1
  <2> QED BY <1>9, <1>10, <1>12, <2>1 DEF Next
<1> QED BY <1>10, <1>12 DEF Current

\* LoansAccounted with its cardinality resolved.
Booked(t) == loans[t] = count[t] + unconfirmed[t] + (IF Holders(t) = {} THEN 0 ELSE 1)

LEMMA BookedIsAccounted == OwnerDispatches => (LoansAccounted <=> \A t \in Tasks : Booked(t))
  BY HoldersOfOne DEF LoansAccounted, Booked, Holders

LEMMA NextBooked ==
  ASSUME IInv, OwnerDispatches', ReadIsCurrent, [Next]_vars,
         NEW t \in Tasks, Booked(t)
  PROVE  Booked(t)'
<1>t. /\ TaskTableOK /\ AttemptTableOK /\ DispatchersOK
      /\ pc \in [Procs -> {"idle", "chosen", "inserting", "posting",
                           "answered", "resolving"}]
      /\ result \in [Procs -> Kinds \cup {"none"}]
      /\ loans \in [Tasks -> Nat] /\ unconfirmed \in [Tasks -> Nat]
      /\ count \in [Tasks -> Nat]
  BY DEF IInv, TypeOK, DispatchersOK, TaskTableOK
<1>n. loans[t] \in Nat /\ unconfirmed[t] \in Nat /\ count[t] \in Nat
  BY <1>t
<1>o. \A p, q \in Procs : pc[p] # "idle" /\ pc[q] # "idle" => p = q
  BY DEF IInv, OwnerDispatches
\* The cases by what becomes of the holder.
<1>1. ASSUME UNCHANGED <<loans, unconfirmed, count>>, Holders(t)' = Holders(t)
      PROVE  Booked(t)'
  BY <1>1 DEF Booked
<1>2. ASSUME UNCHANGED <<loans, unconfirmed, count, pc, chosen, result>> PROVE Booked(t)'
  BY <1>2, <1>1 DEF Holders, HoldsLoan
<1>3. ASSUME NEW p \in Procs, EndTick(p), ~HoldsLoan(p)
      PROVE  Holders(t)' = Holders(t)
  BY <1>3, <1>t, EndTickIdle DEF EndTick, Holders, HoldsLoan
<1>4. ASSUME NEW p \in Procs, EndTick(p), HoldsLoan(p)
      PROVE  Holders(t)' = {} /\ Holders(t) = IF chosen[p] = t THEN {p} ELSE {}
  BY <1>4, <1>o, <1>t, EndTickIdle DEF EndTick, Holders, HoldsLoan
<1>5. ASSUME NEW p \in Procs, EndTick(p), UNCHANGED <<loans, count>>,
             unconfirmed' = IF HoldsLoan(p)
                            THEN [unconfirmed EXCEPT ![chosen[p]] = @ + 1]
                            ELSE unconfirmed
      PROVE  Booked(t)'
  <2>1. CASE HoldsLoan(p)
    BY <1>4, <1>5, <1>n, <1>t, <2>1 DEF Booked
  <2>2. CASE ~HoldsLoan(p)
    BY <1>1, <1>3, <1>5, <2>2
  <2> QED BY <2>1, <2>2
<1>6. ASSUME NEW p \in Procs, Crash(p) PROVE Booked(t)'
  <2>1. CASE UNCHANGED loans
    <3>1. ~(loans' = [loans EXCEPT ![chosen[p]] = @ + 1] /\ pc[p] = "posting")
      BY <1>6, <1>t, <2>1 DEF DispatchersOK
    <3> QED BY <1>5, <1>6, <2>1, <3>1 DEF Crash, taskVars
  <2>2. CASE ~UNCHANGED loans
    <3>1. /\ loans' = [loans EXCEPT ![chosen[p]] = @ + 1]
          /\ unconfirmed' = [unconfirmed EXCEPT ![chosen[p]] = @ + 1]
          /\ UNCHANGED count /\ EndTick(p) /\ ~HoldsLoan(p)
      BY <1>6, <2>2 DEF Crash, HoldsLoan, taskVars
    <3>2. Holders(t)' = Holders(t)
      BY <1>3, <3>1
    <3> QED BY <1>n, <1>t, <3>1, <3>2 DEF Booked
  <2> QED BY <2>1, <2>2
<1>7. ASSUME NEW p \in Procs, Choose(p) PROVE Booked(t)'
  <2>1. Holders(t)' = Holders(t)
    BY <1>7, <1>t DEF Choose, Holders, HoldsLoan, DispatchersOK
  <2> QED BY <1>1, <1>7, <2>1 DEF Choose, taskVars, exchangeVars
<1>8. ASSUME NEW p \in Procs, InsertCheck(p) PROVE Booked(t)'
  <2>1. Holders(t)' = Holders(t)
    <3>1. CASE EndTick(p)
      BY <1>3, <1>8, <3>1 DEF InsertCheck, HoldsLoan
    <3>2. CASE ~EndTick(p)
      BY <1>8, <1>t, <3>2 DEF InsertCheck, Holders, HoldsLoan
    <3> QED BY <3>1, <3>2
  <2> QED BY <1>1, <1>8, <2>1 DEF InsertCheck, taskVars, exchangeVars
<1>9. ASSUME NEW p \in Procs, InsertWrite(p) PROVE Booked(t)'
  <2>1. Holders(t)' = Holders(t)
    BY <1>9, <1>t DEF InsertWrite, Holders, HoldsLoan
  <2> QED BY <1>1, <1>9, <2>1 DEF InsertWrite, exchangeVars
<1>10. ASSUME NEW p \in Procs, Post(p) PROVE Booked(t)'
  <2>1. PICK o \in PostOutcomes :
          /\ result' = [result EXCEPT ![p] = o[1]]
          /\ loans' = IF o[2] THEN [loans EXCEPT ![chosen[p]] = @ + 1] ELSE loans
          /\ unconfirmed' = IF o[2] /\ o[1] # "success"
                            THEN [unconfirmed EXCEPT ![chosen[p]] = @ + 1]
                            ELSE unconfirmed
    BY <1>10 DEF Post
  <2>2. o[1] = "success" => o[2]
    BY DEF PostOutcomes
  <2>3. Holders(t) = {}
    BY <1>10, <1>o DEF Post, Holders, HoldsLoan
  <2>4. Holders(t)' = IF o[1] = "success" /\ chosen[p] = t THEN {p} ELSE {}
    BY <1>10, <1>o, <1>t, <2>1 DEF Post, Holders, HoldsLoan
  <2>5. count' = count /\ chosen[p] \in Tasks
    BY <1>10, <1>t DEF Post, taskVars, DispatchersOK
  <2> QED BY <1>n, <1>t, <2>1, <2>2, <2>3, <2>4, <2>5 DEF Booked
<1>11. ASSUME NEW p \in Procs, ResolveRead(p) PROVE Booked(t)'
  <2>1. rows[attempt[p]].state # "absent"
    BY <1>11 DEF IInv, RowIsThere, InFlight, ResolveRead
  <2>2. Holders(t)' = Holders(t)
    BY <1>11, <1>t, <2>1 DEF ResolveRead, Holders, HoldsLoan
  <2> QED BY <1>1, <1>11, <2>2 DEF ResolveRead, taskVars, exchangeVars
<1>12. ASSUME NEW p \in Procs, ResolveWrite(p) PROVE Booked(t)'
  \* A success is never folded, so the loan moves from the holder to the count.
  <2>1. /\ rows[attempt[p]].task = chosen[p] /\ seen[p].count = count[chosen[p]]
        /\ chosen[p] \in Tasks /\ EndTick(p) /\ UNCHANGED <<loans, unconfirmed>>
    BY <1>12, <1>t
    DEF ResolveWrite, IInv, RowIsThere, InFlight, ReadIsCurrent, DispatchersOK,
        exchangeVars
  <2>2. HoldsLoan(p) <=> result[p] = "success"
    BY <1>12 DEF ResolveWrite, HoldsLoan
  <2>3. CASE result[p] = "success"
    <3>1. count' = [count EXCEPT ![chosen[p]] = @ + 1]
      BY <1>12, <1>t, <2>1, <2>3 DEF ResolveWrite, Coalesceable
    <3> QED BY <1>4, <1>n, <1>t, <2>1, <2>2, <2>3, <3>1 DEF Booked
  <2>4. CASE result[p] # "success"
    <3>1. count' = count
      BY <1>12, <1>t, <2>1, <2>4 DEF ResolveWrite
    <3> QED BY <1>1, <1>3, <2>1, <2>2, <2>4, <3>1
  <2> QED BY <2>3, <2>4
<1>13. ASSUME NEW p \in Procs, StoreFailure(p) PROVE Booked(t)'
  BY <1>5, <1>13 DEF StoreFailure, taskVars
<1>14. ASSUME NEW p \in Procs, Scheduler(p) PROVE Booked(t)'
  BY <1>7, <1>8, <1>9, <1>10, <1>11, <1>12, <1>13, <1>14 DEF Scheduler
<1>15. ASSUME NEW p \in Procs, StartProcess(p) \/ Operator(p) PROVE Booked(t)'
  <2>1. UNCHANGED <<loans, unconfirmed, count, pc, chosen, result>>
    BY <1>15, OperatorLeavesBooks DEF StartProcess, procVars, exchangeVars
  <2> QED BY <1>2, <2>1
<1>16. ASSUME NEW r \in Requests, WriteStatus(r) \/ WriteEdit(r) PROVE Booked(t)'
  BY <1>2, <1>16 DEF WriteStatus, WriteEdit, procVars, exchangeVars
<1>17. ASSUME CooldownElapses \/ UNCHANGED vars PROVE Booked(t)'
  BY <1>2, <1>17 DEF CooldownElapses, vars, procVars, taskVars, exchangeVars
<1>18. ASSUME Next PROVE Booked(t)'
  <2>1. ASSUME NEW p \in Procs, StartProcess(p) \/ Crash(p) \/ Scheduler(p) \/ Operator(p)
        PROVE  Booked(t)'
    BY <1>6, <1>14, <1>15, <2>1
  <2> QED BY <1>16, <1>17, <1>18, <2>1 DEF Next
<1> QED BY <1>17, <1>18

BooksInv == IInv /\ ReadIsCurrent /\ \A t \in Tasks : Booked(t)

LEMMA InitBooks == Init => BooksInv
<1> SUFFICES ASSUME Init PROVE BooksInv
  OBVIOUS
<1>1. TypeOK /\ IInv
  BY InitTypeOK, InitIInv
<1>2. ASSUME NEW t \in Tasks PROVE Booked(t)
  <2>1. Holders(t) = {} /\ loans[t] = count[t] /\ unconfirmed[t] = 0 /\ count[t] \in Nat
    BY <1>1 DEF Init, Holders, HoldsLoan, TypeOK, TaskTableOK
  <2> QED BY <2>1 DEF Booked
<1>3. ReadIsCurrent
  BY DEF Init, ReadIsCurrent
<1> QED BY <1>1, <1>2, <1>3 DEF BooksInv

LEMMA NextBooks == BooksInv /\ [Next]_vars => BooksInv'
<1> SUFFICES ASSUME BooksInv, [Next]_vars PROVE BooksInv'
  OBVIOUS
<1>1. IInv' /\ ReadIsCurrent'
  BY NextIInv, NextReadIsCurrent DEF BooksInv
<1>2. \A t \in Tasks : Booked(t)'
  BY <1>1, NextBooked DEF BooksInv, IInv
<1> QED BY <1>1, <1>2 DEF BooksInv

\* Each loan the exchange made is counted, or held by the dispatcher, or one
\* whose tranId never reached the database; none is counted twice or lost.
THEOREM BooksBalance == Spec => []LoansAccounted
<1>1. BooksInv => LoansAccounted
  BY BookedIsAccounted DEF BooksInv, IInv
<1> QED BY <1>1, InitBooks, NextBooks, PTL DEF Spec

-----------------------------------------------------------------------------
(* The target.                                                             *)

\* A dispatch that passed the gates and has not been counted yet.
Counting(p) == pc[p] = "inserting" \/ InFlight(p)

\* There is room for the loan of every dispatch that passed the gates, also
\* after an edit of the target: only an edit that read the row as it still is
\* is written, and the dispatch makes every earlier reading stale.
CountsFit == \A t \in Tasks :
  count[t] =< target[t] /\ (status[t] = "absent" => count[t] = 0)
RoomForOne == \A p \in Procs :
  /\ Counting(p) => count[chosen[p]] < target[chosen[p]]
  /\ pc[p] # "idle" => status[chosen[p]] # "absent"
  /\ pc[p] = "resolving" => seen[p].status # "absent"
EditsFit == \A r \in Requests :
  req[r].op = "edit" /\ req[r].fresh =>
    req[r].task \in Tasks /\ count[req[r].task] < req[r].target
Room == CountsFit /\ RoomForOne /\ EditsFit

LEMMA InitRoom == Init => Room
<1> SUFFICES ASSUME Init PROVE Room
  OBVIOUS
<1>1. CountsFit
  <2> SUFFICES ASSUME NEW t \in Tasks
               PROVE  count[t] =< target[t] /\ (status[t] = "absent" => count[t] = 0)
    BY DEF CountsFit
  <2>1. count[t] =< target[t] /\ count[t] \in Nat
    BY InitTypeOK DEF Init, TypeOK, TaskTableOK
  <2>2. status[t] = "absent" => target[t] = 0
    BY DEF Init, Tasks
  <2> QED BY <2>1, <2>2
<1> QED BY <1>1 DEF Init, Room, RoomForOne, EditsFit, NoReq, Counting, InFlight

\* The version of a row that is written stops every edit that read it before.
LEMMA TouchedStale ==
  ASSUME RequestsOK, NEW ts, NEW r \in Requests
  PROVE  /\ req[r].task \in ts => ~Touched(ts)[r].fresh
         /\ req[r].task \notin ts => Touched(ts)[r] = req[r]
         /\ Touched(ts)[r].task = req[r].task /\ Touched(ts)[r].op = req[r].op
         /\ Touched(ts)[r].target = req[r].target
  BY DEF Touched, RequestsOK, RequestRows

\* What the requests still hold fits as long as nothing else is counted.
LEMMA EditsKept ==
  ASSUME EditsFit, UNCHANGED count,
         \A r \in Requests : req'[r] = req[r] \/ req'[r].op # "edit" \/ ~req'[r].fresh
  PROVE  EditsFit'
  BY DEF EditsFit

\* A dispatch that ends or goes on makes no new claim.
LEMMA ClaimsKept ==
  ASSUME RoomForOne, UNCHANGED <<status, count, target>>,
         \A p \in Procs : pc'[p] # "idle" =>
           /\ pc[p] # "idle" /\ chosen'[p] = chosen[p]
           /\ Counting(p)' => Counting(p)
           /\ pc'[p] = "resolving" => pc[p] = "resolving" /\ seen'[p] = seen[p]
  PROVE  RoomForOne'
  BY DEF RoomForOne, Counting, InFlight

LEMMA EndTickClaims ==
  ASSUME DispatchersOK, RoomForOne, NEW p \in Procs, EndTick(p), UNCHANGED <<status, count, target>>
  PROVE  RoomForOne'
<1>1. \A q \in Procs \ {p} : pc'[q] = pc[q] /\ chosen'[q] = chosen[q] /\ seen'[q] = seen[q]
  BY EndTickIdle DEF EndTick, DispatchersOK
<1>2. pc'[p] = "idle"
  BY EndTickIdle
<1> QED BY <1>1, <1>2, ClaimsKept DEF Counting, InFlight

LEMMA NextRoom == IInv /\ IInv' /\ ReadIsCurrent /\ Room /\ [Next]_vars => Room'
<1> SUFFICES ASSUME IInv, IInv', ReadIsCurrent, Room, [Next]_vars PROVE Room'
  OBVIOUS
<1>t. /\ TaskTableOK /\ AttemptTableOK /\ DispatchersOK /\ RequestsOK
      /\ CountsFit /\ RoomForOne /\ EditsFit
      /\ pc \in [Procs -> {"idle", "chosen", "inserting", "posting",
                           "answered", "resolving"}]
      /\ \A p \in Procs : pc[p] # "idle" => chosen[p] \in Tasks
  BY DEF IInv, TypeOK, DispatchersOK, Room
<1>n. \A t \in Tasks : count[t] \in Nat /\ target[t] \in Nat
  BY <1>t DEF TaskTableOK
<1>o. \A p, q \in Procs : pc[p] # "idle" /\ pc[q] # "idle" => p = q
  BY DEF IInv, OwnerDispatches
<1>1. ASSUME UNCHANGED <<status, count, target>> PROVE CountsFit'
  BY <1>1, <1>t DEF CountsFit
<1>2. ASSUME UNCHANGED <<count, req>> PROVE EditsFit'
  BY <1>2, <1>t DEF EditsFit
<1>3. ASSUME UNCHANGED <<status, count, target, pc, chosen, seen>> PROVE RoomForOne'
  BY <1>3, <1>t, ClaimsKept DEF Counting, InFlight
<1>4. ASSUME NEW p \in Procs, StartProcess(p) PROVE Room'
  BY <1>1, <1>2, <1>3, <1>4 DEF StartProcess, Room
<1>5. ASSUME NEW p \in Procs, Crash(p) PROVE Room'
  <2>1. EditsFit'
    <3>1. \A r \in Requests : req'[r] = req[r] \/ req'[r].op # "edit"
      BY <1>5 DEF Crash, NoReq
    <3> QED BY <1>5, <1>t, <3>1, EditsKept DEF Crash, taskVars
  <2> QED BY <1>1, <1>5, <1>t, <2>1, EndTickClaims DEF Crash, taskVars, Room
<1>6. ASSUME NEW p \in Procs, Choose(p) PROVE Room'
  <2>1. /\ pc' = [pc EXCEPT ![p] = "chosen"]
        /\ chosen' = [chosen EXCEPT ![p] = SelectNext(Eligible, cursor)]
        /\ pc[p] = "idle" /\ UNCHANGED <<status, count, target, seen, req>>
        /\ Eligible # {}
    BY <1>6 DEF Choose, taskVars
  <2>2. SelectNext(Eligible, cursor) \in Eligible
    BY <2>1, SelectNextIsEligible DEF Eligible
  <2>3. status[SelectNext(Eligible, cursor)] # "absent"
    BY <2>2 DEF Eligible
  <2>4. RoomForOne'
    BY <1>t, <2>1, <2>3 DEF RoomForOne, Counting, InFlight, DispatchersOK
  <2> QED BY <1>1, <1>2, <2>1, <2>4 DEF Room
<1>7. ASSUME NEW p \in Procs, InsertCheck(p) PROVE Room'
  <2>1. UNCHANGED <<status, count, target, req>> /\ pc[p] = "chosen"
    BY <1>7 DEF InsertCheck, taskVars
  <2>2. CASE EndTick(p)
    BY <1>1, <1>2, <1>t, <2>1, <2>2, EndTickClaims DEF Room
  <2>3. CASE ~EndTick(p)
    <3>1. /\ pc' = [pc EXCEPT ![p] = "inserting"] /\ UNCHANGED <<chosen, seen>>
          /\ count[chosen[p]] < target[chosen[p]]
      BY <1>7, <2>3 DEF InsertCheck, GatesOpen
    <3>2. RoomForOne'
      BY <1>t, <2>1, <3>1 DEF RoomForOne, Counting, InFlight
    <3> QED BY <1>1, <1>2, <2>1, <3>2 DEF Room
  <2> QED BY <2>2, <2>3
<1>8. ASSUME NEW p \in Procs, InsertWrite(p) PROVE Room'
  <2>1. /\ UNCHANGED <<status, count, target, chosen, seen>> /\ pc[p] = "inserting"
        /\ pc' = [pc EXCEPT ![p] = "posting"] /\ req' = Touched({chosen[p]})
    BY <1>8 DEF InsertWrite
  <2>2. RoomForOne'
    BY <1>t, <2>1 DEF RoomForOne, Counting, InFlight
  <2>3. EditsFit'
    BY <1>t, <2>1, TouchedStale, EditsKept
  <2> QED BY <1>1, <2>1, <2>2, <2>3 DEF Room
<1>9. ASSUME NEW p \in Procs, Post(p) PROVE Room'
  <2>1. /\ UNCHANGED <<status, count, target, chosen, seen, req>> /\ pc[p] = "posting"
        /\ pc' = [pc EXCEPT ![p] = "answered"]
    BY <1>9 DEF Post, taskVars
  <2>2. RoomForOne'
    BY <1>t, <2>1 DEF RoomForOne, Counting, InFlight
  <2> QED BY <1>1, <1>2, <2>1, <2>2 DEF Room
<1>10. ASSUME NEW p \in Procs, ResolveRead(p) PROVE Room'
  <2>1. UNCHANGED <<status, count, target, req>> /\ pc[p] = "answered"
    BY <1>10 DEF ResolveRead, taskVars
  <2>2. rows[attempt[p]].state # "absent" /\ rows[attempt[p]].task = chosen[p]
    BY <2>1 DEF IInv, RowIsThere, InFlight
  <2>3. /\ pc' = [pc EXCEPT ![p] = "resolving"] /\ UNCHANGED chosen
        /\ seen' = [seen EXCEPT ![p] =
              [status |-> status[chosen[p]], count |-> count[chosen[p]],
               target |-> target[chosen[p]], latest |-> latest[chosen[p]]]]
    BY <1>10, <2>2 DEF ResolveRead
  <2>4. seen'[p].status = status[chosen[p]] /\ \A q \in Procs \ {p} : seen'[q] = seen[q]
    BY <1>t, <2>3 DEF DispatchersOK
  <2>5. RoomForOne'
    BY <1>t, <2>1, <2>3, <2>4 DEF RoomForOne, Counting, InFlight
  <2> QED BY <1>1, <1>2, <2>1, <2>5 DEF Room
<1>11. ASSUME NEW p \in Procs, ResolveWrite(p) PROVE Room'
  \* There was room for one, and its reading was the present one.
  <2> DEFINE t == chosen[p]
  <2>1. /\ pc[p] = "resolving" /\ rows[attempt[p]].task = t /\ t \in Tasks
        /\ EndTick(p) /\ UNCHANGED target /\ req' = Touched({t})
        /\ count[t] < target[t] /\ seen[p].count = count[t] /\ seen[p].status # "absent"
    BY <1>11, <1>t
    DEF ResolveWrite, IInv, RowIsThere, InFlight, RoomForOne, Counting, ReadIsCurrent
  <2>2. /\ count'[t] \in {count[t], count[t] + 1}
        /\ status'[t] # "absent" \/ (count'[t] = count[t] /\ status'[t] = status[t])
        /\ \A u \in Tasks \ {t} : count'[u] = count[u] /\ status'[u] = status[u]
    <3> DEFINE k == result[p]
               n == seen[p].count + (IF k = "success" THEN 1 ELSE 0)
               st == IF k = "success"
                     THEN ResolveStatus(seen[p].status, n, seen[p].target)
                     ELSE seen[p].status
    <3>1. CASE UNCHANGED <<status, count>>
      BY <3>1
    <3>2. CASE /\ count' = [count EXCEPT ![t] = n]
               /\ status' = [status EXCEPT ![t] = st]
      <4>1. n \in {count[t], count[t] + 1}
        BY <1>n, <2>1
      <4>2. st # "absent"
        BY <2>1 DEF ResolveStatus
      <4> HIDE DEF n, st
      <4> QED BY <1>t, <2>1, <3>2, <4>1, <4>2 DEF TaskTableOK
    <3> QED BY <1>11, <2>1, <3>1, <3>2 DEF ResolveWrite
  <2> HIDE DEF t
  <2>3. CountsFit'
    <3> SUFFICES ASSUME NEW u \in Tasks
                 PROVE  count'[u] =< target'[u] /\ (status'[u] = "absent" => count'[u] = 0)
      BY DEF CountsFit
    <3>1. CASE u = t
      BY <1>n, <1>t, <2>1, <2>2, <3>1 DEF CountsFit
    <3>2. CASE u # t
      BY <1>t, <2>1, <2>2, <3>2 DEF CountsFit
    <3> QED BY <3>1, <3>2
  <2>4. RoomForOne'
    <3>1. \A q \in Procs : pc'[q] = "idle"
      BY <1>o, <1>t, <2>1, EndTickIdle
    <3> QED BY <3>1 DEF RoomForOne, Counting, InFlight
  <2>5. EditsFit'
    <3> SUFFICES ASSUME NEW r \in Requests, req'[r].op = "edit", req'[r].fresh
                 PROVE  req'[r].task \in Tasks /\ count'[req'[r].task] < req'[r].target
      BY DEF EditsFit
    <3>1. req[r].task \notin {t} /\ req'[r] = req[r]
      BY <1>t, <2>1, TouchedStale
    <3> QED BY <1>t, <2>2, <3>1 DEF EditsFit
  <2> QED BY <2>3, <2>4, <2>5 DEF Room
<1>12. ASSUME NEW p \in Procs, StoreFailure(p) PROVE Room'
  BY <1>1, <1>2, <1>12, <1>t, EndTickClaims DEF StoreFailure, taskVars, Room
<1>13. ASSUME NEW p \in Procs, Create(p) PROVE Room'
  <2>1. PICK t \in Tasks, tg \in Targets :
          /\ status[t] = "absent"
          /\ status' = [status EXCEPT ![t] = "borrowing"]
          /\ target' = [target EXCEPT ![t] = tg]
    BY <1>13 DEF Create, Exists
  <2>2. tg \in Nat \ {0} /\ count[t] = 0
    BY <1>t, <2>1, BorrowAssumption DEF CountsFit
  <2>3. UNCHANGED <<count, pc, chosen, seen, req>>
    BY <1>13 DEF Create, procVars
  <2>4. CountsFit'
    BY <1>t, <2>1, <2>2, <2>3 DEF CountsFit, TaskTableOK
  <2>5. RoomForOne'
    BY <1>t, <2>1, <2>3 DEF RoomForOne, Counting, InFlight, TaskTableOK
  <2> QED BY <1>2, <2>3, <2>4, <2>5 DEF Room
<1>14. ASSUME NEW p \in Procs, NEW r \in Requests, NEW t \in Tasks,
              ReadStart(p, r, t) \/ ReadPause(p, r, t)
              \/ ReadDelete(p, r, t) \/ ReadEdit(p, r, t)
       PROVE  Room'
  <2>1. ASSUME NEW op, NEW tg, NEW fr, Receive(p, r, t, op, tg, fr), op = "edit" => tg > count[t]
        PROVE  Room'
    <3> DEFINE new == [op |-> op, proc |-> p, task |-> t, target |-> tg, fresh |-> fr]
    <3>1. /\ req' = [req EXCEPT ![r] = new]
          /\ UNCHANGED <<status, count, target, pc, chosen, seen>>
      BY <2>1 DEF Receive, taskVars, procVars
    <3>2. new.op = op /\ new.task = t /\ new.target = tg
      OBVIOUS
    <3> HIDE DEF new
    <3>3. \A q \in Requests : req'[q] = IF q = r THEN new ELSE req[q]
      BY <1>t, <3>1 DEF RequestsOK
    <3>4. tg > count[t] => count[t] < tg
      OBVIOUS
    <3>5. EditsFit'
      BY <1>t, <2>1, <3>1, <3>2, <3>3, <3>4 DEF EditsFit
    <3> QED BY <1>1, <1>3, <3>1, <3>5 DEF Room
  <2>2. CASE ReadStart(p, r, t)
    <3>1. PICK op \in {"complete", "start"} : Receive(p, r, t, op, 0, FALSE)
      BY <2>2 DEF ReadStart
    <3> QED BY <2>1, <3>1
  <2>3. CASE ReadPause(p, r, t) \/ ReadDelete(p, r, t)
    <3>1. PICK op \in {"pause", "delete"} : Receive(p, r, t, op, 0, FALSE)
      BY <2>3 DEF ReadPause, ReadDelete
    <3> QED BY <2>1, <3>1
  <2>4. CASE ReadEdit(p, r, t)
    <3>1. PICK tg \in Targets, fr \in BOOLEAN : tg > count[t] /\ Receive(p, r, t, "edit", tg, fr)
      BY <2>4 DEF ReadEdit
    <3> QED BY <2>1, <3>1
  <2> QED BY <1>14, <2>2, <2>3, <2>4
<1>15. ASSUME NEW p \in Procs, ClearLogs(p) \/ ExecutionStart(p) \/ ExecutionStop(p)
       PROVE  Room'
  <2>1. UNCHANGED <<status, count, target, pc, chosen, seen, req>>
    BY <1>15 DEF ClearLogs, ExecutionStart, ExecutionStop, taskVars, procVars
  <2> QED BY <1>1, <1>2, <1>3, <2>1 DEF Room
<1>16. ASSUME NEW r \in Requests, WriteStatus(r) PROVE Room'
  <2>1. PICK st \in Statuses :
          /\ status' = [status EXCEPT ![req[r].task] = st]
          /\ UNCHANGED <<count, target, pc, chosen, seen>>
          /\ req' = [Touched({req[r].task}) EXCEPT ![r] = NoReq]
    <3>1. req[r].op \in {"start", "complete", "pause", "delete"}
      BY <1>16 DEF WriteStatus
    <3> QED BY <1>16, <3>1 DEF WriteStatus, procVars, Statuses
  <2>2. st # "absent"
    BY DEF Statuses
  <2>3. \A t \in Tasks : status'[t] = status[t] \/ status'[t] # "absent"
    BY <1>t, <2>1, <2>2 DEF TaskTableOK
  <2>4. CountsFit' /\ RoomForOne'
    BY <1>t, <2>1, <2>3 DEF CountsFit, RoomForOne, Counting, InFlight
  <2>5. EditsFit'
    <3>1. \A q \in Requests : \/ req'[q] = req[q] \/ req'[q].op # "edit" \/ ~req'[q].fresh
      BY <1>t, <2>1, TouchedStale DEF Touched, NoReq
    <3> QED BY <1>t, <2>1, <3>1, EditsKept
  <2> QED BY <2>4, <2>5 DEF Room
<1>17. ASSUME NEW r \in Requests, WriteEdit(r) PROVE Room'
  <2> DEFINE t == req[r].task
             tg == req[r].target
  <2>1. /\ req[r].op = "edit" /\ UNCHANGED <<status, count, pc, chosen, seen>>
        /\ \/ /\ req[r].fresh
              /\ target' = [target EXCEPT ![t] = tg]
              /\ req' = [Touched({t}) EXCEPT ![r] = NoReq]
           \/ UNCHANGED target /\ req' = [req EXCEPT ![r] = NoReq]
    BY <1>17 DEF WriteEdit, VersionMatches, procVars
  <2>2. EditsFit'
    <3>1. \A q \in Requests : \/ req'[q] = req[q] \/ req'[q].op # "edit" \/ ~req'[q].fresh
      <4>1. NoReq.op # "edit"
        BY DEF NoReq
      <4>2. CASE req' = [Touched({t}) EXCEPT ![r] = NoReq]
        BY <1>t, <4>1, <4>2, TouchedStale DEF Touched
      <4>3. CASE req' = [req EXCEPT ![r] = NoReq]
        BY <1>t, <4>1, <4>3 DEF RequestsOK
      <4> QED BY <2>1, <4>2, <4>3
    <3> QED BY <1>t, <2>1, <3>1, EditsKept
  <2>3. CASE UNCHANGED target
    BY <1>1, <1>3, <2>1, <2>2, <2>3 DEF Room
  <2>4. CASE req[r].fresh /\ target' = [target EXCEPT ![t] = tg]
    <3>1. count[t] < tg /\ tg \in Nat
      BY <1>t, <2>1, <2>4 DEF EditsFit, RequestsOK, RequestRows
    <3> HIDE DEF t, tg
    <3>2. \A u \in Tasks : target'[u] = IF u = t THEN tg ELSE target[u]
      BY <1>t, <2>4 DEF TaskTableOK
    <3>3. CountsFit'
      BY <1>n, <1>t, <2>1, <3>1, <3>2 DEF CountsFit
    <3>4. RoomForOne'
      BY <1>t, <2>1, <3>1, <3>2 DEF RoomForOne, Counting, InFlight
    <3> QED BY <2>2, <3>3, <3>4 DEF Room
  <2> QED BY <2>1, <2>3, <2>4
<1>18. ASSUME CooldownElapses \/ UNCHANGED vars PROVE Room'
  <2>1. UNCHANGED <<status, count, target, pc, chosen, seen, req>>
    BY <1>18 DEF CooldownElapses, vars, taskVars, procVars
  <2> QED BY <1>1, <1>2, <1>3, <2>1 DEF Room
<1>19. ASSUME NEW p \in Procs, Scheduler(p) \/ Operator(p) PROVE Room'
  BY <1>6, <1>7, <1>8, <1>9, <1>10, <1>11, <1>12, <1>13, <1>14, <1>15, <1>19
  DEF Scheduler, Operator
<1> QED BY <1>4, <1>5, <1>16, <1>17, <1>18, <1>19 DEF Next

\* A task borrows more often than its target only by loans whose tranId never
\* reached the database, also when the target is edited while a POST is out.
THEOREM NoOverborrow == Spec => []OverborrowOnlyUnconfirmed
<1>1. Init => BooksInv /\ Room
  BY InitBooks, InitRoom
<1>2. BooksInv /\ Room /\ [Next]_vars => BooksInv' /\ Room'
  <2>1. BooksInv /\ [Next]_vars => BooksInv'
    BY NextBooks
  <2> QED BY <2>1, NextRoom DEF BooksInv
<1>3. BooksInv /\ Room => OverborrowOnlyUnconfirmed
  <2> SUFFICES ASSUME BooksInv, Room, NEW t \in Tasks
               PROVE  loans[t] =< target[t] + unconfirmed[t]
    BY DEF OverborrowOnlyUnconfirmed
  <2>1. /\ loans[t] \in Nat /\ unconfirmed[t] \in Nat /\ count[t] \in Nat /\ target[t] \in Nat
        /\ count[t] =< target[t] /\ Booked(t)
    BY DEF BooksInv, IInv, TypeOK, TaskTableOK, Room, CountsFit
  <2>2. Holders(t) # {} => count[t] < target[t]
    BY DEF Room, RoomForOne, Holders, HoldsLoan, Counting, InFlight
  <2> QED BY <2>1, <2>2 DEF Booked
<1> QED BY <1>1, <1>2, <1>3, PTL DEF Spec

\* A ban is lifted by a manual Start after its cooldown ran out and by nothing
\* else, neither by time nor by a restart (set_execution_enabled).
THEOREM BansEndByHand == Spec => BanEndsByStart
<1> DEFINE Lifted == cooldown # "active" /\ cooldown' = "none" /\ enabled'
<1>1. ASSUME IInv, Next, rearm, ~rearm' PROVE Lifted
  <2>1. ASSUME NEW p \in Procs, ExecutionStart(p) PROVE Lifted
    BY <1>1, <2>1 DEF ExecutionStart, ReArms
  <2>2. ASSUME NEW p \in Procs, ResolveWrite(p) PROVE FALSE
    BY <1>1, <2>2 DEF ResolveWrite, ApplyRateLimit
  <2>3. UNCHANGED rearm => FALSE
    BY <1>1
  <2>4. ASSUME NEW p \in Procs, Scheduler(p) PROVE FALSE
    BY <2>2, <2>3, <2>4
    DEF Scheduler, Choose, InsertCheck, InsertWrite, Post, ResolveRead, StoreFailure, settingsVars
  <2>5. ASSUME NEW p \in Procs, Operator(p) PROVE Lifted
    BY <2>1, <2>3, <2>5
    DEF Operator, Create, ClearLogs, ExecutionStop, ReadStart, ReadPause, ReadDelete, ReadEdit,
        Receive, settingsVars
  <2>6. ASSUME NEW p \in Procs, StartProcess(p) \/ Crash(p) PROVE FALSE
    BY <2>3, <2>6 DEF StartProcess, Crash, settingsVars
  <2>7. ASSUME NEW r \in Requests, WriteStatus(r) \/ WriteEdit(r) PROVE FALSE
    BY <2>3, <2>7 DEF WriteStatus, WriteEdit, settingsVars
  <2>8. ~CooldownElapses
    BY <2>3 DEF CooldownElapses
  <2> HIDE DEF Lifted
  <2> QED BY <1>1, <2>4, <2>5, <2>6, <2>7, <2>8 DEF Next
<1>2. IInv /\ [Next]_vars => [rearm /\ ~rearm' => Lifted]_vars
  BY <1>1
<1> QED BY <1>2, IInvAlways, PTL DEF Spec, BanEndsByStart

-----------------------------------------------------------------------------
(* The status, where one process has the database.                         *)

\* What resolve_attempt read of the task is still so when it writes, for every
\* handler of the process waits for the store.
ReadingHolds == \A p \in Procs : pc[p] = "resolving" =>
  seen[p].status = status[chosen[p]] /\ seen[p].target = target[chosen[p]]
HandlersServed == \A r \in Requests : req[r].op # "none" => req[r].proc \in Procs
Reading == ReadingHolds /\ HandlersServed

\* A handler's steps keep their process.
LEMMA ServedKept ==
  ASSUME HandlersServed,
         \A r \in Requests :
           req'[r].op = "none" \/ (req'[r].op = req[r].op /\ req'[r].proc = req[r].proc)
  PROVE  HandlersServed'
  BY DEF HandlersServed

LEMMA TouchedServed ==
  ASSUME RequestsOK, NEW ts
  PROVE  \A r \in Requests : Touched(ts)[r].op = req[r].op /\ Touched(ts)[r].proc = req[r].proc
  BY DEF Touched, RequestsOK, RequestRows

\* While one process resolves, its store is locked, and it is the only one.
LEMMA NextReading ==
  ASSUME \A p, q \in Procs : p = q, IInv, Reading, [Next]_vars
  PROVE  Reading'
<1>t. /\ TaskTableOK /\ DispatchersOK /\ RequestsOK /\ ReadingHolds /\ HandlersServed
      /\ pc \in [Procs -> {"idle", "chosen", "inserting", "posting",
                           "answered", "resolving"}]
  BY DEF IInv, TypeOK, DispatchersOK, Reading
<1>1. ASSUME UNCHANGED <<status, target, pc, chosen, seen>> PROVE ReadingHolds'
  BY <1>1, <1>t DEF ReadingHolds
<1>2. ASSUME UNCHANGED req PROVE HandlersServed'
  BY <1>2, <1>t DEF HandlersServed
<1>3. ASSUME \A p \in Procs : pc'[p] # "resolving" PROVE ReadingHolds'
  BY <1>3 DEF ReadingHolds
<1>4. ASSUME NEW p \in Procs, EndTick(p) PROVE ReadingHolds'
  <2>1. pc'[p] = "idle"
    BY <1>4, <1>t, EndTickIdle
  <2> QED BY <1>3, <2>1
<1>5. ASSUME NEW p \in Procs, StartProcess(p) PROVE Reading'
  BY <1>1, <1>2, <1>5 DEF StartProcess, Reading
<1>6. ASSUME NEW p \in Procs, Crash(p) PROVE Reading'
  <2>1. HandlersServed'
    BY <1>6, <1>t, ServedKept DEF Crash, NoReq
  <2> QED BY <1>4, <1>6, <2>1 DEF Crash, Reading
<1>7. ASSUME NEW p \in Procs, Choose(p) \/ Post(p) PROVE Reading'
  <2>1. pc'[p] # "resolving" /\ UNCHANGED req
    BY <1>7, <1>t DEF Choose, Post
  <2> QED BY <1>2, <1>3, <2>1 DEF Reading
<1>8. ASSUME NEW p \in Procs, InsertCheck(p) PROVE Reading'
  <2>1. UNCHANGED req
    BY <1>8 DEF InsertCheck
  <2>2. pc' = [pc EXCEPT ![p] = "inserting"] \/ EndTick(p)
    BY <1>8 DEF InsertCheck
  <2>3. pc' = [pc EXCEPT ![p] = "inserting"] => pc'[p] # "resolving"
    BY <1>t
  <2> QED BY <1>2, <1>3, <1>4, <2>1, <2>2, <2>3 DEF Reading
<1>9. ASSUME NEW p \in Procs, InsertWrite(p) PROVE Reading'
  <2>1. pc'[p] # "resolving" /\ req' = Touched({chosen[p]})
    BY <1>9, <1>t DEF InsertWrite
  <2>2. HandlersServed'
    BY <1>t, <2>1, TouchedServed, ServedKept
  <2> QED BY <1>3, <2>1, <2>2 DEF Reading
<1>10. ASSUME NEW p \in Procs, ResolveRead(p) PROVE Reading'
  <2>1. UNCHANGED <<status, target, req>> /\ pc[p] = "answered"
    BY <1>10 DEF ResolveRead, taskVars
  <2>2. rows[attempt[p]].state # "absent" /\ rows[attempt[p]].task = chosen[p]
    BY <2>1 DEF IInv, RowIsThere, InFlight
  <2>3. /\ UNCHANGED chosen
        /\ seen' = [seen EXCEPT ![p] =
              [status |-> status[chosen[p]], count |-> count[chosen[p]],
               target |-> target[chosen[p]], latest |-> latest[chosen[p]]]]
    BY <1>10, <2>2 DEF ResolveRead
  <2>4. seen'[p].status = status[chosen[p]] /\ seen'[p].target = target[chosen[p]]
    BY <1>t, <2>3 DEF DispatchersOK
  <2> QED BY <1>2, <2>1, <2>3, <2>4 DEF Reading, ReadingHolds
<1>11. ASSUME NEW p \in Procs, ResolveWrite(p) PROVE Reading'
  <2>1. HandlersServed'
    BY <1>11, <1>t, TouchedServed, ServedKept DEF ResolveWrite
  <2> QED BY <1>4, <1>11, <2>1 DEF ResolveWrite, Reading
<1>12. ASSUME NEW p \in Procs, StoreFailure(p) PROVE Reading'
  BY <1>2, <1>4, <1>12 DEF StoreFailure, Reading
<1>13. ASSUME NEW p \in Procs, Create(p) PROVE Reading'
  <2>1. \A q \in Procs : pc'[q] # "resolving"
    BY <1>13 DEF Create, StoreFree, procVars
  <2> QED BY <1>2, <1>3, <1>13, <2>1 DEF Create, Reading
<1>14. ASSUME NEW p \in Procs, NEW r \in Requests, NEW t \in Tasks,
              ReadStart(p, r, t) \/ ReadPause(p, r, t)
              \/ ReadDelete(p, r, t) \/ ReadEdit(p, r, t)
       PROVE  Reading'
  <2>1. /\ UNCHANGED <<status, target, pc, chosen, seen>>
        /\ \E op, tg, fr : req' = [req EXCEPT ![r] =
             [op |-> op, proc |-> p, task |-> t, target |-> tg, fresh |-> fr]]
    BY <1>14 DEF ReadStart, ReadPause, ReadDelete, ReadEdit, Receive, taskVars, procVars
  <2>2. HandlersServed'
    <3>1. \A q \in Requests : q # r => req'[q] = req[q]
      BY <1>t, <2>1 DEF RequestsOK
    <3>2. req'[r].proc = p
      BY <1>t, <2>1 DEF RequestsOK
    <3> QED BY <1>t, <3>1, <3>2 DEF HandlersServed
  <2> QED BY <1>1, <2>1, <2>2 DEF Reading
<1>15. ASSUME NEW p \in Procs, ClearLogs(p) \/ ExecutionStart(p) \/ ExecutionStop(p)
       PROVE  Reading'
  <2>1. UNCHANGED <<status, target, pc, chosen, seen, req>>
    BY <1>15 DEF ClearLogs, ExecutionStart, ExecutionStop, taskVars, procVars
  <2> QED BY <1>1, <1>2, <2>1 DEF Reading
<1>16. ASSUME NEW r \in Requests, WriteStatus(r) \/ WriteEdit(r) PROVE Reading'
  <2>1. req[r].op # "none" /\ StoreFree(req[r].proc) /\ UNCHANGED procVars
    BY <1>16 DEF WriteStatus, WriteEdit
  <2>2. \A q \in Procs : pc'[q] # "resolving"
    BY <1>t, <2>1 DEF HandlersServed, StoreFree, procVars
  <2>3. HandlersServed'
    <3>1. /\ NoReq.op = "none"
          /\ \/ req' = [Touched({req[r].task}) EXCEPT ![r] = NoReq]
             \/ req' = [req EXCEPT ![r] = NoReq]
      BY <1>16 DEF WriteStatus, WriteEdit, NoReq
    <3>2. CASE req' = [Touched({req[r].task}) EXCEPT ![r] = NoReq]
      <4>1. \A q \in Requests : req'[q] = IF q = r THEN NoReq ELSE Touched({req[r].task})[q]
        BY <3>2 DEF Touched
      <4> QED BY <1>t, <3>1, <4>1, TouchedServed, ServedKept
    <3>3. CASE req' = [req EXCEPT ![r] = NoReq]
      <4>1. \A q \in Requests : req'[q] = IF q = r THEN NoReq ELSE req[q]
        BY <1>t, <3>3 DEF RequestsOK
      <4> QED BY <1>t, <3>1, <4>1, ServedKept
    <3> QED BY <3>1, <3>2, <3>3
  <2> QED BY <1>3, <2>2, <2>3 DEF Reading
<1>17. ASSUME CooldownElapses \/ UNCHANGED vars PROVE Reading'
  <2>1. UNCHANGED <<status, target, pc, chosen, seen, req>>
    BY <1>17 DEF CooldownElapses, vars, taskVars, procVars
  <2> QED BY <1>1, <1>2, <2>1 DEF Reading
<1>18. ASSUME NEW p \in Procs, Scheduler(p) \/ Operator(p) PROVE Reading'
  BY <1>7, <1>8, <1>9, <1>10, <1>11, <1>12, <1>13, <1>14, <1>15, <1>18 DEF Scheduler, Operator
<1> QED BY <1>5, <1>6, <1>16, <1>17, <1>18 DEF Next

\* The end of a dispatch is a resolution, a failed one, or the process's end.
LEMMA DispatchEnds ==
  ASSUME IInv, Next, NEW p \in Procs, pc[p] = "resolving", pc'[p] = "idle"
  PROVE  ResolveWrite(p) \/ StoreFailure(p) \/ Crash(p)
<1>t. /\ DispatchersOK
      /\ pc \in [Procs -> {"idle", "chosen", "inserting", "posting",
                           "answered", "resolving"}]
  BY DEF IInv, TypeOK, DispatchersOK
<1>1. pc' # pc
  OBVIOUS
<1>2. ASSUME NEW q \in Procs, EndTick(q) PROVE q = p
  BY <1>2, <1>t, EndTickIdle
<1>3. ASSUME NEW q \in Procs, Scheduler(q) PROVE q = p /\ (ResolveWrite(p) \/ StoreFailure(p))
  <2>1. \A l : l # "idle" => pc' # [pc EXCEPT ![q] = l]
    BY <1>t
  <2> QED BY <1>2, <1>3, <2>1
          DEF Scheduler, Choose, InsertCheck, InsertWrite, Post, ResolveRead, ResolveWrite, StoreFailure
<1>4. ASSUME NEW q \in Procs, Crash(q) PROVE q = p
  BY <1>2, <1>4 DEF Crash
<1>5. ASSUME NEW q \in Procs, StartProcess(q) \/ Operator(q) PROVE FALSE
  BY <1>1, <1>5, OperatorLeavesBooks DEF StartProcess, procVars
<1>6. ASSUME NEW r \in Requests, WriteStatus(r) \/ WriteEdit(r) PROVE FALSE
  BY <1>1, <1>6 DEF WriteStatus, WriteEdit, procVars
<1>7. ~CooldownElapses
  BY <1>1 DEF CooldownElapses, procVars
<1> QED BY <1>3, <1>4, <1>5, <1>6, <1>7 DEF Next

\* Where one process has the database, a resolution leaves the status that the
\* operator chose alone, but for a success that reaches the target
\* (resolve_attempt, _resolve_status).
THEOREM StatusIsTheOperators ==
  ASSUME \A p, q \in Procs : p = q
  PROVE  Spec => ResolutionKeepsStatus
<1> DEFINE Keeps(t) == \/ status'[t] = status[t]
                       \/ /\ status[t] \in {"borrowing", "paused"}
                          /\ status'[t] = "completed"
                          /\ count'[t] >= target[t]
           Resolves(p) == pc[p] = "resolving" /\ up'[p] /\ pc'[p] = "idle"
           Inv == IInv /\ ReadIsCurrent /\ Room /\ Reading
<1>1. ASSUME Inv, Next, NEW p \in Procs, Resolves(p) PROVE Keeps(chosen[p])
  <2> DEFINE t == chosen[p]
  <2>1. /\ rows[attempt[p]].task = t /\ t \in Tasks /\ status[t] \in Statuses
        /\ seen[p].status = status[t] /\ seen[p].target = target[t]
    BY <1>1 DEF IInv, RowIsThere, InFlight, TypeOK, DispatchersOK, TaskTableOK, Room,
                RoomForOne, Reading, ReadingHolds
  <2>2. CASE ResolveWrite(p)
    <3> DEFINE n == seen[p].count + (IF result[p] = "success" THEN 1 ELSE 0)
    <3>1. CASE UNCHANGED status
      BY <3>1
    <3>2. CASE /\ count' = [count EXCEPT ![t] = n]
               /\ status' = [status EXCEPT ![t] =
                    IF result[p] = "success" THEN ResolveStatus(status[t], n, target[t])
                    ELSE status[t]]
      <4>1. count'[t] = n
        BY <1>1, <2>1, <3>2 DEF Inv, IInv, TypeOK, TaskTableOK
      <4> HIDE DEF n, t
      <4>2. \/ status'[t] = status[t]
            \/ status'[t] = ResolveStatus(status[t], n, target[t])
        BY <1>1, <2>1, <3>2 DEF Inv, IInv, TypeOK, TaskTableOK
      <4> QED BY <2>1, <4>1, <4>2 DEF ResolveStatus, Statuses, t
    <3> QED BY <2>1, <2>2, <3>1, <3>2 DEF ResolveWrite
  <2>3. CASE StoreFailure(p)
    BY <2>3 DEF StoreFailure, taskVars
  <2>4. ~Crash(p)
    BY <1>1 DEF Crash, IInv, TypeOK
  <2> QED BY <1>1, <2>2, <2>3, <2>4, DispatchEnds
<1>2. Init => Inv
  BY InitBooks, InitRoom DEF BooksInv, Init, Reading, ReadingHolds, HandlersServed, NoReq
<1>3. Inv /\ [Next]_vars => Inv'
  BY NextIInv, NextReadIsCurrent, NextRoom, NextReading
<1>4. Inv /\ [Next]_vars => [\A p \in Procs : Resolves(p) => Keeps(chosen[p])]_vars
  BY <1>1
<1> HIDE DEF Inv, Keeps, Resolves
<1>5. Spec => [][\A p \in Procs : Resolves(p) => Keeps(chosen[p])]_vars
  BY <1>2, <1>3, <1>4, PTL DEF Spec
<1> QED BY <1>5 DEF ResolutionKeepsStatus, Resolves, Keeps

-----------------------------------------------------------------------------
(* The engine implements LoanBook.                                         *)

\* A target that an edit carries was entered by an operator.
EditsAreEntered == \A r \in Requests : req[r].op = "edit" => req[r].target \in Targets

\* What the promise rests on.
PromiseInv == BooksInv /\ Room /\ QuietWhileRateLimited /\ EditsAreEntered

LEMMA NextEditsAreEntered == IInv /\ EditsAreEntered /\ [Next]_vars => EditsAreEntered'
<1> SUFFICES ASSUME IInv, EditsAreEntered, [Next]_vars PROVE EditsAreEntered'
  OBVIOUS
<1>t. RequestsOK /\ NoReq.op # "edit"
  BY DEF IInv, TypeOK, NoReq
<1>1. ASSUME \A r \in Requests : \/ req'[r].op # "edit"
                                 \/ req'[r].op = req[r].op /\ req'[r].target = req[r].target
      PROVE  EditsAreEntered'
  BY <1>1 DEF EditsAreEntered
<1>2. ASSUME UNCHANGED req PROVE EditsAreEntered'
  BY <1>1, <1>2
<1>3. ASSUME NEW ts, req' = Touched(ts) PROVE EditsAreEntered'
  BY <1>1, <1>3, <1>t, TouchedStale
<1>4. ASSUME NEW p \in Procs, Crash(p) PROVE EditsAreEntered'
  BY <1>1, <1>4, <1>t DEF Crash
<1>5. ASSUME NEW p \in Procs, Scheduler(p) PROVE EditsAreEntered'
  BY <1>2, <1>3, <1>5
  DEF Scheduler, Choose, InsertCheck, InsertWrite, Post, ResolveRead, ResolveWrite, StoreFailure
<1>6. ASSUME NEW p \in Procs, NEW r \in Requests, NEW t \in Tasks, NEW op, NEW tg, NEW fr,
             Receive(p, r, t, op, tg, fr), op = "edit" => tg \in Targets
      PROVE  EditsAreEntered'
  BY <1>6, <1>t DEF Receive, EditsAreEntered, RequestsOK
<1>7. ASSUME NEW p \in Procs, Operator(p) PROVE EditsAreEntered'
  <2>1. ASSUME NEW r \in Requests, NEW t \in Tasks,
               \/ ReadStart(p, r, t)  \/ ReadPause(p, r, t)
               \/ ReadDelete(p, r, t) \/ ReadEdit(p, r, t)
        PROVE  EditsAreEntered'
    BY <1>6, <2>1 DEF ReadStart, ReadPause, ReadDelete, ReadEdit
  <2> QED BY <1>2, <1>7, <2>1 DEF Operator, Create, ClearLogs, ExecutionStart, ExecutionStop
<1>8. ASSUME NEW r \in Requests, WriteStatus(r) \/ WriteEdit(r) PROVE EditsAreEntered'
  <2>1. CASE req' = [req EXCEPT ![r] = NoReq]
    BY <1>1, <1>t, <2>1 DEF RequestsOK
  <2>2. ASSUME NEW ts, req' = [Touched(ts) EXCEPT ![r] = NoReq] PROVE EditsAreEntered'
    <3>1. \A q \in Requests : req'[q] = IF q = r THEN NoReq ELSE Touched(ts)[q]
      BY <2>2 DEF Touched
    <3> QED BY <1>1, <1>t, <3>1, TouchedStale
  <2> QED BY <1>8, <2>1, <2>2 DEF WriteStatus, WriteEdit
<1>9. CASE CooldownElapses \/ UNCHANGED vars
  BY <1>2, <1>9 DEF CooldownElapses, vars
<1>10. ASSUME NEW p \in Procs, StartProcess(p) PROVE EditsAreEntered'
  BY <1>2, <1>10 DEF StartProcess
<1> QED BY <1>4, <1>5, <1>7, <1>8, <1>9, <1>10 DEF Next

\* Who asks, for what, and how far the ask is.
LEMMA TheAsk ==
  ASSUME OwnerDispatches, NEW p \in Procs, InFlight(p)
  PROVE  /\ AskedFor = chosen[p]
         /\ Phase = IF pc[p] = "posting" THEN "asked"
                    ELSE IF result[p] = "success" THEN "lent" ELSE "ended"
<1>1. Asker = {p}
  BY DEF Asker, OwnerDispatches, InFlight
<1>2. (CHOOSE q \in Asker : TRUE) = p
  BY <1>1
<1> QED BY <1>1, <1>2 DEF AskedFor, Phase, HoldsLoan, InFlight

LEMMA TheAskNext ==
  ASSUME OwnerDispatches', NEW p \in Procs, InFlight(p)'
  PROVE  /\ AskedFor' = chosen'[p]
         /\ Phase' = IF pc'[p] = "posting" THEN "asked"
                     ELSE IF result'[p] = "success" THEN "lent" ELSE "ended"
<1>1. Asker' = {p}
  BY DEF Asker, OwnerDispatches, InFlight
<1>2. (CHOOSE q \in Asker' : TRUE) = p
  BY <1>1
<1> QED BY <1>1, <1>2 DEF AskedFor, Phase, HoldsLoan, InFlight

LEMMA NoAsk ==
  /\ (\A p \in Procs : ~InFlight(p)) => AskedFor = 0 /\ Phase = "idle"
  /\ (\A p \in Procs : ~InFlight(p)') => AskedFor' = 0 /\ Phase' = "idle"
  BY DEF Asker, AskedFor, Phase, NULL

\* Nothing happens to the ask.
LEMMA AskKept ==
  ASSUME OwnerDispatches, OwnerDispatches',
         \A q \in Procs :
           /\ InFlight(q)' <=> InFlight(q)
           /\ InFlight(q) => /\ pc'[q] = "posting" <=> pc[q] = "posting"
                             /\ chosen'[q] = chosen[q] /\ result'[q] = result[q]
  PROVE  AskedFor' = AskedFor /\ Phase' = Phase
<1>1. CASE \A q \in Procs : ~InFlight(q)
  BY <1>1, NoAsk
<1>2. ASSUME NEW q \in Procs, InFlight(q) PROVE AskedFor' = AskedFor /\ Phase' = Phase
  BY <1>2, TheAsk, TheAskNext
<1> QED BY <1>1, <1>2

LEMMA PromiseStutters ==
  ASSUME UNCHANGED <<target, count, loans, unconfirmed, AskedFor, Phase, Silenced>>
  PROVE  UNCHANGED Promise!vars
  BY DEF Promise!vars

\* Only the threads' ends are left to say.
LEMMA AskEnds ==
  ASSUME IInv, IInv', NEW p \in Procs, EndTick(p)
  PROVE  /\ ~InFlight(p) => AskedFor' = AskedFor /\ Phase' = Phase
         /\ InFlight(p) => AskedFor' = 0 /\ Phase' = "idle"
<1>t. DispatchersOK /\ OwnerDispatches /\ OwnerDispatches'
  BY DEF IInv, TypeOK
<1>1. \A q \in Procs \ {p} :
        /\ pc'[q] = pc[q] /\ chosen'[q] = chosen[q] /\ result'[q] = result[q]
        /\ InFlight(q)' <=> InFlight(q)
  BY <1>t, EndTickIdle DEF EndTick, DispatchersOK
<1>2. ~InFlight(p)'
  BY <1>t, EndTickIdle
<1>3. CASE ~InFlight(p)
  BY <1>t, <1>1, <1>2, <1>3, AskKept
<1>4. CASE InFlight(p)
  <2>1. \A q \in Procs : ~InFlight(q)'
    BY <1>t, <1>1, <1>2, <1>4 DEF OwnerDispatches, InFlight
  <2> QED BY <1>4, <2>1, NoAsk
<1> QED BY <1>3, <1>4

\* A dispatch that ends without a resolution: what it held is lost, and so may
\* be a loan of a POST that was still on the wire.
LEMMA EndStep ==
  ASSUME IInv, IInv', NEW p \in Procs, EndTick(p), UNCHANGED <<target, count, rearm, cooldown>>,
         \/ /\ UNCHANGED loans
            /\ unconfirmed' = IF HoldsLoan(p)
                              THEN [unconfirmed EXCEPT ![chosen[p]] = @ + 1]
                              ELSE unconfirmed
         \/ /\ pc[p] = "posting"
            /\ loans' = [loans EXCEPT ![chosen[p]] = @ + 1]
            /\ unconfirmed' = [unconfirmed EXCEPT ![chosen[p]] = @ + 1]
  PROVE  [Promise!Next]_(Promise!vars)
<1>s. Silenced' = Silenced
  BY DEF Silenced
<1>o. OwnerDispatches
  BY DEF IInv
<1>1. CASE ~InFlight(p)
  BY <1>s, <1>1, AskEnds, PromiseStutters DEF HoldsLoan, InFlight
<1>2. CASE InFlight(p)
  <2>1. AskedFor' = 0 /\ Phase' = "idle" /\ AskedFor = chosen[p]
    BY <1>o, <1>2, AskEnds, TheAsk
  <2>2. CASE pc[p] = "posting"
    <3>1. Phase = "asked" /\ ~HoldsLoan(p)
      BY <1>o, <1>2, <2>2, TheAsk DEF HoldsLoan
    <3>2. Promise!Miss("idle")
      BY <1>s, <2>1, <3>1 DEF Promise!Miss
    <3> QED BY <3>2 DEF Promise!Next
  <2>3. CASE pc[p] # "posting" /\ result[p] = "success"
    <3>1. Phase = "lent" /\ HoldsLoan(p)
      BY <1>o, <1>2, <2>3, TheAsk DEF HoldsLoan, InFlight
    <3>2. Promise!Lose
      BY <1>s, <2>1, <2>3, <3>1 DEF Promise!Lose
    <3> QED BY <3>2 DEF Promise!Next
  <2>4. CASE pc[p] # "posting" /\ result[p] # "success"
    <3>1. Phase = "ended" /\ ~HoldsLoan(p)
      BY <1>o, <1>2, <2>4, TheAsk DEF HoldsLoan
    <3>2. Promise!End
      BY <1>s, <2>1, <2>4, <3>1 DEF Promise!End
    <3> QED BY <3>2 DEF Promise!Next
  <2> QED BY <2>2, <2>3, <2>4
<1> QED BY <1>1, <1>2

\* The answer: a loan and a success, or a miss that may have lent all the same.
LEMMA PostStep ==
  ASSUME IInv, IInv', NEW p \in Procs, Post(p)
  PROVE  [Promise!Next]_(Promise!vars)
<1>t. /\ OwnerDispatches /\ OwnerDispatches' /\ DispatchersOK
      /\ pc \in [Procs -> {"idle", "chosen", "inserting", "posting", "answered", "resolving"}]
      /\ result \in [Procs -> Kinds \cup {"none"}]
  BY DEF IInv, TypeOK, DispatchersOK
<1>1. PICK o \in PostOutcomes :
        /\ result' = [result EXCEPT ![p] = o[1]]
        /\ loans' = IF o[2] THEN [loans EXCEPT ![chosen[p]] = @ + 1] ELSE loans
        /\ unconfirmed' = IF o[2] /\ o[1] # "success"
                          THEN [unconfirmed EXCEPT ![chosen[p]] = @ + 1]
                          ELSE unconfirmed
  BY DEF Post
<1>2. o[1] = "success" => o[2]
  BY DEF PostOutcomes
<1>3. /\ pc[p] = "posting" /\ pc' = [pc EXCEPT ![p] = "answered"]
      /\ UNCHANGED <<chosen, target, count, rearm, cooldown>>
  BY DEF Post, taskVars, settingsVars
<1>4. AskedFor = chosen[p] /\ Phase = "asked"
  BY <1>t, <1>3, TheAsk DEF InFlight
<1>5. AskedFor' = chosen[p] /\ Phase' = IF o[1] = "success" THEN "lent" ELSE "ended"
  <2>1. pc'[p] = "answered" /\ result'[p] = o[1]
    BY <1>t, <1>1, <1>3
  <2> QED BY <1>t, <1>3, <2>1, TheAskNext DEF InFlight
<1>6. Silenced' = Silenced
  BY <1>3 DEF Silenced
<1>7. CASE o[1] = "success"
  <2>1. Promise!Lend
    BY <1>1, <1>2, <1>3, <1>4, <1>5, <1>6, <1>7 DEF Promise!Lend
  <2> QED BY <2>1 DEF Promise!Next
<1>8. CASE o[1] # "success"
  <2>1. Promise!Miss("ended")
    BY <1>1, <1>3, <1>4, <1>5, <1>6, <1>8 DEF Promise!Miss
  <2> QED BY <2>1 DEF Promise!Next
<1> QED BY <1>7, <1>8

\* A resolution books the loan the dispatch held, from a count that is still
\* the stored one, and never folds it into an earlier row.
LEMMA ResolveStep ==
  ASSUME IInv, IInv', ReadIsCurrent, NEW p \in Procs, ResolveWrite(p)
  PROVE  [Promise!Next]_(Promise!vars)
<1>t. OwnerDispatches /\ DispatchersOK /\ TaskTableOK
  BY DEF IInv, TypeOK
<1>1. /\ pc[p] = "resolving" /\ InFlight(p) /\ EndTick(p)
      /\ UNCHANGED <<target, loans, unconfirmed>>
      /\ rows[attempt[p]].task = chosen[p] /\ seen[p].count = count[chosen[p]]
      /\ chosen[p] \in Tasks /\ count[chosen[p]] \in Nat
  BY <1>t DEF ResolveWrite, IInv, RowIsThere, InFlight, ReadIsCurrent, DispatchersOK, TaskTableOK,
              exchangeVars
<1>2. AskedFor' = 0 /\ Phase' = "idle" /\ AskedFor = chosen[p]
  BY <1>t, <1>1, AskEnds, TheAsk
<1>3. CASE result[p] = "success"
  <2>1. Phase = "lent"
    BY <1>t, <1>1, <1>3, TheAsk
  <2>2. count' = [count EXCEPT ![chosen[p]] = @ + 1]
    BY <1>t, <1>1, <1>3 DEF ResolveWrite, Coalesceable
  <2>3. Silenced' = Silenced
    BY <1>3 DEF ResolveWrite, ApplyRateLimit, Silenced
  <2>4. Promise!Book
    BY <1>1, <1>2, <2>1, <2>2, <2>3 DEF Promise!Book
  <2> QED BY <2>4 DEF Promise!Next
<1>4. CASE result[p] # "success"
  <2>1. Phase = "ended"
    BY <1>t, <1>1, <1>4, TheAsk
  <2>2. count' = count
    BY <1>t, <1>1, <1>4 DEF ResolveWrite, TaskTableOK
  <2>3. Silenced' \in {Silenced, TRUE}
    BY DEF ResolveWrite, ApplyRateLimit, Silenced
  <2>4. Promise!End
    BY <1>1, <1>2, <2>1, <2>2, <2>3 DEF Promise!End
  <2> QED BY <2>4 DEF Promise!Next
<1> QED BY <1>3, <1>4

LEMMA LoanBookStep ==
  ASSUME PromiseInv, IInv', [Next]_vars
  PROVE  [Promise!Next]_(Promise!vars)
<1> DEFINE Implements == [Promise!Next]_(Promise!vars)
<1>t. /\ IInv /\ ReadIsCurrent /\ Room /\ QuietWhileRateLimited /\ EditsAreEntered
      /\ OwnerDispatches /\ OwnerDispatches' /\ DispatchersOK /\ TaskTableOK /\ RequestsOK
      /\ pc \in [Procs -> {"idle", "chosen", "inserting", "posting", "answered", "resolving"}]
  BY DEF PromiseInv, BooksInv, IInv, TypeOK, DispatchersOK
<1>1. ASSUME UNCHANGED <<pc, chosen, result>> PROVE AskedFor' = AskedFor /\ Phase' = Phase
  BY <1>t, <1>1, AskKept DEF InFlight
<1>2. ASSUME UNCHANGED <<pc, chosen, result, target, count, loans, unconfirmed, rearm, cooldown>>
      PROVE  Implements
  BY <1>1, <1>2, PromiseStutters DEF Silenced
<1>3. ASSUME NEW p \in Procs, StartProcess(p) PROVE Implements
  BY <1>2, <1>3 DEF StartProcess, settingsVars, exchangeVars
<1>4. ASSUME NEW p \in Procs, Crash(p) PROVE Implements
  BY <1>t, <1>4, EndStep DEF Crash, taskVars, settingsVars
\* Before its row is inserted a dispatch asks for nothing.
<1>5. ASSUME NEW p \in Procs, Choose(p) PROVE Implements
  <2>1. AskedFor' = AskedFor /\ Phase' = Phase
    <3>1. \A q \in Procs \ {p} : pc[q] = "idle"
      BY <1>t, <1>5 DEF Choose, OwnerDispatches
    <3>2. \A q \in Procs : ~InFlight(q) /\ ~InFlight(q)'
      BY <1>t, <1>5, <3>1 DEF Choose, InFlight
    <3> QED BY <3>2, NoAsk
  <2> QED BY <1>5, <2>1, PromiseStutters DEF Choose, taskVars, settingsVars, exchangeVars, Silenced
<1>6. ASSUME NEW p \in Procs, InsertCheck(p) PROVE Implements
  <2>1. AskedFor' = AskedFor /\ Phase' = Phase
    <3>1. CASE EndTick(p)
      BY <1>t, <1>6, <3>1, AskEnds DEF InsertCheck, InFlight
    <3>2. CASE pc' = [pc EXCEPT ![p] = "inserting"] /\ UNCHANGED <<chosen, result>>
      BY <1>t, <1>6, <3>2, AskKept DEF InsertCheck, InFlight
    <3> QED BY <1>6, <3>1, <3>2 DEF InsertCheck
  <2> QED BY <1>6, <2>1, PromiseStutters DEF InsertCheck, taskVars, settingsVars, exchangeVars, Silenced
<1>7. ASSUME NEW p \in Procs, InsertWrite(p) PROVE Implements
  <2>1. /\ pc[p] = "inserting" /\ chosen[p] \in Tasks /\ UNCHANGED <<chosen, target, count>>
        /\ pc' = [pc EXCEPT ![p] = "posting"] /\ UNCHANGED <<loans, unconfirmed, rearm, cooldown>>
    BY <1>t, <1>7 DEF InsertWrite, DispatchersOK, exchangeVars
  <2>2. AskedFor = 0 /\ Phase = "idle"
    BY <1>t, <2>1, NoAsk DEF OwnerDispatches, InFlight
  <2>3. pc'[p] = "posting"
    BY <1>t, <2>1
  <2>4. AskedFor' = chosen[p] /\ Phase' = "asked"
    BY <1>t, <2>1, <2>3, TheAskNext DEF InFlight
  <2>5. ~Silenced /\ Silenced' = Silenced
    BY <1>t, <2>1 DEF QuietWhileRateLimited, Silenced
  <2>6. count[chosen[p]] < target[chosen[p]]
    BY <1>t, <2>1 DEF Room, RoomForOne, Counting
  <2>7. Promise!Ask(chosen[p])
    BY <2>1, <2>2, <2>4, <2>5, <2>6 DEF Promise!Ask, Promise!Idle
  <2> QED BY <2>1, <2>7 DEF Promise!Next
<1>8. ASSUME NEW p \in Procs, ResolveRead(p) PROVE Implements
  <2>1. rows[attempt[p]].state # "absent"
    BY <1>t, <1>8 DEF IInv, RowIsThere, InFlight, ResolveRead
  <2>2. AskedFor' = AskedFor /\ Phase' = Phase
    BY <1>t, <1>8, <2>1, AskKept DEF ResolveRead, InFlight
  <2> QED BY <1>8, <2>2, PromiseStutters DEF ResolveRead, taskVars, settingsVars, exchangeVars, Silenced
<1>9. ASSUME NEW p \in Procs, StoreFailure(p) PROVE Implements
  BY <1>t, <1>9, EndStep DEF StoreFailure, taskVars, settingsVars
<1>10. ASSUME NEW p \in Procs, Scheduler(p) PROVE Implements
  BY <1>t, <1>5, <1>6, <1>7, <1>8, <1>9, <1>10, PostStep, ResolveStep DEF Scheduler
<1>11. ASSUME NEW t \in Tasks, NEW n \in Targets, count[t] < n,
              target' = [target EXCEPT ![t] = n],
              UNCHANGED <<pc, chosen, result, count, loans, unconfirmed, rearm, cooldown>>
       PROVE  Implements
  <2>1. count[t] \in Nat /\ n \in Nat
    BY <1>t, BorrowAssumption DEF TaskTableOK
  <2>2. Promise!SetCeiling(t, n)
    BY <1>1, <1>11, <2>1 DEF Promise!SetCeiling, Silenced
  <2> QED BY <2>2 DEF Promise!Next
<1>12. ASSUME NEW p \in Procs, Create(p) PROVE Implements
  <2>1. PICK t \in Tasks, tg \in Targets : status[t] = "absent" /\ target' = [target EXCEPT ![t] = tg]
    BY <1>12 DEF Create, Exists
  <2>2. count[t] < tg
    BY <1>t, <2>1, BorrowAssumption DEF Room, CountsFit
  <2> QED BY <1>11, <1>12, <2>1, <2>2 DEF Create, procVars, settingsVars, exchangeVars
\* A silence ends when nobody asks.
<1>13. ASSUME UNCHANGED <<pc, chosen, result, target, count, loans, unconfirmed>>,
              Silenced' => Silenced
       PROVE  Implements
  <2>1. AskedFor' = AskedFor /\ Phase' = Phase
    BY <1>1, <1>13
  <2>2. CASE Silenced' = Silenced
    BY <1>13, <2>1, <2>2, PromiseStutters
  <2>3. CASE Silenced /\ ~Silenced'
    <3>1. Phase = "idle"
      BY <1>t, <2>3, NoAsk DEF QuietWhileRateLimited, Silenced, InFlight
    <3>2. Promise!Lift
      BY <1>13, <2>1, <2>3, <3>1 DEF Promise!Lift, Promise!Idle
    <3> QED BY <3>2 DEF Promise!Next
  <2>4. Silenced \in BOOLEAN /\ Silenced' \in BOOLEAN
    BY DEF Silenced
  <2> QED BY <1>13, <2>2, <2>3, <2>4
<1>14. ASSUME NEW p \in Procs, ExecutionStart(p) PROVE Implements
  <2>1. Silenced' => Silenced
    BY <1>14 DEF ExecutionStart, Silenced
  <2> QED BY <1>13, <1>14, <2>1 DEF ExecutionStart, procVars, taskVars, exchangeVars
<1>15. ASSUME NEW p \in Procs, Operator(p) PROVE Implements
  <2>1. ASSUME ClearLogs(p) \/ ExecutionStop(p)
                \/ \E r \in Requests, t \in Tasks :
                     \/ ReadStart(p, r, t)  \/ ReadPause(p, r, t)
                     \/ ReadDelete(p, r, t) \/ ReadEdit(p, r, t)
        PROVE  Implements
    BY <1>2, <2>1
    DEF ClearLogs, ExecutionStop, ReadStart, ReadPause, ReadDelete, ReadEdit, Receive, procVars,
        taskVars, settingsVars, exchangeVars
  <2> QED BY <1>12, <1>14, <1>15, <2>1 DEF Operator
<1>16. ASSUME NEW r \in Requests, WriteStatus(r) PROVE Implements
  BY <1>2, <1>16 DEF WriteStatus, procVars, settingsVars, exchangeVars
<1>17. ASSUME NEW r \in Requests, WriteEdit(r) PROVE Implements
  <2>1. CASE UNCHANGED target
    BY <1>2, <1>17, <2>1 DEF WriteEdit, procVars, settingsVars, exchangeVars
  <2>2. CASE req[r].fresh /\ target' = [target EXCEPT ![req[r].task] = req[r].target]
    <3>1. req[r].task \in Tasks /\ count[req[r].task] < req[r].target /\ req[r].target \in Targets
      BY <1>t, <1>17, <2>2 DEF WriteEdit, Room, EditsFit, EditsAreEntered
    <3> QED BY <1>11, <1>17, <2>2, <3>1 DEF WriteEdit, procVars, settingsVars, exchangeVars
  <2> QED BY <1>17, <2>1, <2>2 DEF WriteEdit, VersionMatches
<1>18. ASSUME CooldownElapses \/ UNCHANGED vars PROVE Implements
  <2>1. Silenced' => Silenced
    BY <1>18 DEF CooldownElapses, vars, settingsVars, Silenced
  <2> QED BY <1>13, <1>18, <2>1
          DEF CooldownElapses, vars, procVars, taskVars, exchangeVars
<1> HIDE DEF Implements
<1>19. ASSUME Next PROVE Implements
  <2>1. ASSUME NEW p \in Procs, StartProcess(p) \/ Crash(p) \/ Scheduler(p) \/ Operator(p)
        PROVE  Implements
    BY <1>3, <1>4, <1>10, <1>15, <2>1
  <2> QED BY <1>16, <1>17, <1>18, <1>19, <2>1 DEF Next
<1>20. Implements
  BY <1>18, <1>19
<1> QED BY <1>20 DEF Implements

\* For any tasks, processes and handlers the borrow engine implements LoanBook:
\* it asks for one loan at a time, never beyond the target nor in a rate limit,
\* and each loan is booked once or is one that nobody can tell of (service.py
\* _dispatch_one, store.py insert_pending_attempt, resolve_attempt).
THEOREM EngineKeepsLoanBook == Spec => KeepsLoanBook
<1>1. Init => PromiseInv
  <2> SUFFICES ASSUME Init PROVE PromiseInv
    OBVIOUS
  <2>1. BooksInv /\ Room
    BY InitBooks, InitRoom
  <2>2. QuietWhileRateLimited /\ EditsAreEntered
    BY DEF Init, QuietWhileRateLimited, EditsAreEntered, NoReq
  <2> QED BY <2>1, <2>2 DEF PromiseInv
<1>2. PromiseInv /\ [Next]_vars => PromiseInv' /\ IInv'
  <2> SUFFICES ASSUME PromiseInv, [Next]_vars PROVE PromiseInv' /\ IInv'
    OBVIOUS
  <2>1. BooksInv' /\ IInv'
    BY NextBooks DEF PromiseInv, BooksInv
  <2>2. Room' /\ QuietWhileRateLimited' /\ EditsAreEntered'
    BY <2>1, NextRoom, NextQuiet, NextEditsAreEntered DEF PromiseInv, BooksInv
  <2> QED BY <2>1, <2>2 DEF PromiseInv
<1>3. Init => Promise!Init
  <2> SUFFICES ASSUME Init PROVE Promise!Init
    OBVIOUS
  <2>1. TypeOK /\ Room
    BY InitTypeOK, InitRoom
  <2>2. AskedFor = 0 /\ Phase = "idle" /\ ~Silenced
    BY NoAsk DEF Init, InFlight, Silenced
  <2>3. target \in [Tasks -> Nat] /\ count \in [Tasks -> Nat] /\ \A t \in Tasks : count[t] <= target[t]
    BY <2>1 DEF TypeOK, TaskTableOK, Room, CountsFit
  <2> QED BY <2>2, <2>3 DEF Init, Promise!Init
<1>4. PromiseInv /\ IInv' /\ [Next]_vars => [Promise!Next]_(Promise!vars)
  BY LoanBookStep
<1> QED BY <1>1, <1>2, <1>3, <1>4, PTL DEF Spec, KeepsLoanBook, Promise!Spec
===============================================================================
