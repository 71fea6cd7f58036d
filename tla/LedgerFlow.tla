----------------------------- MODULE LedgerFlow -----------------------------
(***************************************************************************)
(* The hourly pull of interest and income rows (ledger_flow/service.py and *)
(* scheduler.py) and the coverage it records (ledger_flow/store.py): which *)
(* stretch of time the local tables claim to hold completely.  Rows are    *)
(* not kept; what is kept is which instants were really read, and when.    *)
(***************************************************************************)
EXTENDS Integers, Sequences, FiniteSets, SequencesExt

CONSTANTS
  MaxTime,      \* bound: the clock
  MaxRuns,      \* bound: pulls in a behaviour
  MaxTrouble,   \* bound: pulls with a failed or truncated answer, errors, restarts
  Overlap,      \* _3H_MS: what is read again before the end of the coverage
  Horizon,      \* _30D_MS: how far back the exchange answers
  FirstPull,    \* _1D_MS: the window of the first pull
  Hour,         \* the natural hour of the cadence
  Spacing,      \* _5MIN_MS: the pause between two attempts of an hour
  Attempts,     \* _MAX_ATTEMPTS_PER_HOUR
  Lookback      \* _RUN_LOOKBACK: how many run records are consulted

ASSUME TimesAssumption ==
  /\ MaxTime \in Nat /\ MaxRuns \in Nat /\ MaxTrouble \in Nat /\ Lookback \in Nat
  /\ Overlap \in Nat \ {0} /\ Horizon \in Nat /\ Overlap < Horizon
  /\ FirstPull \in Nat \ {0} /\ FirstPull <= Horizon
  /\ Hour \in Nat \ {0} /\ Spacing \in Nat /\ Attempts \in Nat \ {0}

VARIABLES
  now,          \* the clock
  cov,          \* [Source -> [start, end]], None where never pulled
  gaps,         \* the recorded gaps of both sources
  runs,         \* flow_refresh_runs, newest first
  capital,      \* coverage of the capital flow, pulled after the other two
  flight,       \* the pull that holds the flight lock, or NoFlight
  cadence,      \* "boot" until the start-up pull was considered
  read,         \* history: [Source -> instants read completely]
  final,        \* history: [Source -> instants read Overlap after they passed]
  cut,          \* history: sources whose window once began at the horizon
  blind,        \* history: [Source -> instants of windows none of whose rows could be read]
  trouble       \* history: what has gone wrong so far, up to MaxTrouble

vars == <<now, cov, gaps, runs, capital, flight, cadence, read, final, cut, blind,
          trouble>>
history == <<read, final, cut, blind>>

Source == {"interest", "income"}
None == 0 - Horizon - 1      \* before every instant of the model
NoFlight == [stage |-> "none"]
AtLeast(a, b) == IF a > b THEN a ELSE b
AtMost(a, b) == IF a < b THEN a ELSE b

Gap(s, from, to) == [source |-> s, from |-> from, to |-> to]

(* Mutant: the rows before the old end are not read again.                 *)
WindowStartNoOverlap(end) ==
  IF end = None THEN now - FirstPull ELSE AtLeast(end, now - Horizon)

(* The window of a source: from Overlap before the end of its coverage, or *)
(* from the horizon, which leaves a gap when it lies after that end.       *)
WindowStart(end) ==
  IF end = None THEN now - FirstPull ELSE AtLeast(end - Overlap, now - Horizon)

(* Mutant: nothing is recorded of a downtime.                              *)
NoDowntimeGap(s, end) == {}

(* A downtime longer than the horizon is a gap that stays.                 *)
DowntimeGap(s, end) ==
  IF end = None \/ end >= now - Horizon THEN {} ELSE {Gap(s, end, now - Horizon)}

Window(s) ==
  LET end == cov[s].end IN
  [from |-> WindowStart(end), gap |-> DowntimeGap(s, end)]

(* What the pages of one source come to: an error of any page, all rows of *)
(* the window, or as many as the page cap allows.  Interest comes newest   *)
(* first, so what it holds back lies before the oldest row at edge; income *)
(* comes oldest first and stops at the newest row at edge.  Rows the code  *)
(* cannot read are dropped; an answer cut short of which nothing is left   *)
(* has no edge at all.                                                     *)
Failed == [ok |-> FALSE, truncated |-> FALSE, edge |-> None]
Whole == [ok |-> TRUE, truncated |-> FALSE, edge |-> None]
Unreadable == [ok |-> TRUE, truncated |-> TRUE, edge |-> None]
Results(from, to) ==
  {Failed, Whole, Unreadable} \cup [ok : {TRUE}, truncated : {TRUE}, edge : from..to]

(* The instants whose rows are all in the answer.                          *)
ReadBy(s, from, to, r) ==
  LET first == IF r.truncated /\ s = "interest" THEN r.edge + 1 ELSE from
      end == IF r.truncated /\ s = "income" THEN r.edge ELSE to
  IN IF r.ok /\ r # Unreadable THEN first..(end - 1) ELSE {}
-----------------------------------------------------------------------------
(* The run records.                                                        *)

SuccessKind == {"scheduled", "startup_catchup", "backfill"}

Recent == SubSeq(runs, 1, AtMost(Len(runs), Lookback))

(* _is_success_run: a manual pull is never a success of the cadence.       *)
Succeeded(r) == r.kind \in SuccessKind /\ r.ok

(* Mutant: a success in the first minutes of the hour does not count.      *)
SuccessLater(t) == \E r \in Range(Recent) : Succeeded(r) /\ r.at > t + 1

SuccessSince(t) == \E r \in Range(Recent) : Succeeded(r) /\ r.at >= t

AttemptsSince(t) == SelectSeq(Recent, LAMBDA r : r.kind \in SuccessKind /\ r.at >= t)

LastSuccess == SelectSeq(Recent, Succeeded)

CoverageExists == \E s \in Source : cov[s].end # None

HourStart == now - (now % Hour)

(* LedgerScheduler.decide *)
Due ==
  LET tried == AttemptsSince(HourStart) IN
  /\ now % Hour >= 1
  /\ ~SuccessSince(HourStart)
  /\ Len(tried) < Attempts
  /\ \A r \in Range(tried) : now - r.at >= Spacing
-----------------------------------------------------------------------------
Init ==
  /\ now = 0
  /\ cov = [s \in Source |-> [start |-> None, end |-> None]]
  /\ gaps = {}
  /\ runs = <<>>
  /\ capital = [start |-> None, end |-> None]
  /\ flight = NoFlight
  /\ cadence = "boot"
  /\ read = [s \in Source |-> {}]
  /\ final = [s \in Source |-> {}]
  /\ cut = {}
  /\ blind = [s \in Source |-> {}]
  /\ trouble = 0

Trouble(n) ==
  /\ trouble + n <= MaxTrouble
  /\ trouble' = trouble + n

(* run_once with the lock free: the clock, the coverage and the windows    *)
(* are read once, before the first page.                                   *)
Take(kind) ==
  /\ flight = NoFlight
  /\ Len(runs) < MaxRuns
  /\ flight' = [stage |-> "fetch", kind |-> kind, began |-> now, old |-> cov,
                window |-> [s \in Source |-> Window(s)],
                result |-> [s \in Source |-> Failed]]

(* _tick: a run is due, or the tick does nothing; a busy lock skips it.    *)
Tick ==
  /\ cadence = "ticking"
  /\ Due
  /\ Take("scheduled")
  /\ UNCHANGED <<now, cov, gaps, runs, capital, cadence, history, trouble>>

(* _startup_catchup, once after every start: an empty ledger is filled, an *)
(* old one caught up, a fresh one left alone.                              *)
Boot ==
  /\ cadence = "boot"
  /\ cadence' = "ticking"
  /\ LET fresh == LastSuccess # <<>> /\ now - Head(LastSuccess).at <= Hour IN
     IF fresh \/ flight # NoFlight
     THEN UNCHANGED flight
     ELSE Take(IF CoverageExists THEN "startup_catchup" ELSE "backfill")
  /\ UNCHANGED <<now, cov, gaps, runs, capital, history, trouble>>

(* trigger_refresh *)
Manual ==
  /\ Take("manual")
  /\ UNCHANGED <<now, cov, gaps, runs, capital, cadence, history, trouble>>

(* Both sources have answered; the run is recorded, in a transaction of    *)
(* its own, before either source is stored.                                *)
Record(result) ==
  /\ flight.stage = "fetch"
  /\ \A s \in Source : result[s] \in Results(flight.window[s].from, flight.began)
  /\ runs' = <<[kind |-> flight.kind, at |-> now,
                ok |-> \A s \in Source : result[s].ok]>> \o runs
  /\ flight' = [flight EXCEPT !.stage = "interest", !.result = result]
  /\ UNCHANGED <<now, cov, gaps, capital, cadence, history>>
  /\ Trouble(IF \E s \in Source : result[s] # Whole THEN 1 ELSE 0)

(* A source's rows, its coverage and its gaps, in one transaction.         *)
Store(s, start, end, newGaps) ==
  LET from == flight.window[s].from
      got == ReadBy(s, from, flight.began, flight.result[s])
      old == flight.old[s]
  IN
  IF flight.result[s].ok
  THEN /\ cov' = [cov EXCEPT ![s] = [start |-> start, end |-> end]]
       /\ gaps' = gaps \cup flight.window[s].gap \cup newGaps
       /\ read' = [read EXCEPT ![s] = @ \cup got]
       /\ final' = [final EXCEPT ![s] = @ \cup {t \in got : t + Overlap <= flight.began}]
       /\ blind' = IF flight.result[s] = Unreadable
                   THEN [blind EXCEPT ![s] = @ \cup from..(flight.began - 1)]
                   ELSE blind
       /\ cut' = IF old.end # None /\ flight.began - Horizon > old.end - Overlap THEN cut \cup {s} ELSE cut
  ELSE UNCHANGED <<cov, gaps, history>>

(* _commit_interest: a truncated answer holds the newest rows, so the end  *)
(* moves to the window's end and the part before the oldest is a gap.  The *)
(* end moves without an oldest row too, and then no gap says what is       *)
(* missing.                                                                *)
CommitInterest ==
  LET r == flight.result["interest"]
      from == flight.window["interest"].from
      oldStart == flight.old["interest"].start
      unmoved == IF oldStart # None THEN oldStart ELSE r.edge
      moved == IF oldStart # None THEN AtMost(oldStart, from) ELSE from
  IN
  /\ flight.stage = "interest"
  /\ Store("interest",
           IF r.truncated THEN unmoved ELSE moved,
           flight.began,
           IF r.truncated /\ r.edge # None THEN {Gap("interest", from, r.edge)} ELSE {})
  /\ flight' = [flight EXCEPT !.stage = "income"]
  /\ UNCHANGED <<now, runs, capital, cadence, trouble>>

(* _commit_income: a truncated answer holds the oldest rows, so the end    *)
(* moves to the newest of them and the next pull resumes before it; it     *)
(* moves to the window's end when there is no newest row.                  *)
CommitIncome ==
  LET r == flight.result["income"]
      from == flight.window["income"].from
      oldStart == flight.old["income"].start
  IN
  /\ flight.stage = "income"
  /\ Store("income",
           IF oldStart # None THEN AtMost(oldStart, from) ELSE from,
           IF r.truncated /\ r.edge # None THEN r.edge ELSE flight.began,
           {})
  /\ flight' = [stage |-> "capital", began |-> flight.began]
  /\ UNCHANGED <<now, runs, capital, cadence, trouble>>

(* _run_capital_flow: one page, its own coverage, no horizon and no gap;   *)
(* whatever goes wrong in it ends with it.                                 *)
PullCapital(ok) ==
  LET from == IF capital.end = None THEN flight.began - FirstPull ELSE capital.end - Overlap
  IN
  /\ flight.stage = "capital"
  /\ capital' = IF ok
                THEN [start |-> IF capital.start = None THEN from
                                ELSE AtMost(capital.start, from),
                      end |-> flight.began]
                ELSE capital
  /\ flight' = NoFlight
  /\ Trouble(IF ok THEN 0 ELSE 1)
  /\ UNCHANGED <<now, cov, gaps, runs, cadence, history>>

(* Anything else that raises (a database, a row the code cannot handle)    *)
(* ends the run where it stands and releases the lock.                     *)
Raise ==
  /\ flight # NoFlight
  /\ flight' = NoFlight
  /\ Trouble(1)
  /\ UNCHANGED <<now, cov, gaps, runs, capital, cadence, history>>

(* The process ends and starts again.                                      *)
Restart ==
  /\ flight' = NoFlight
  /\ cadence' = "boot"
  /\ Trouble(1)
  /\ UNCHANGED <<now, cov, gaps, runs, capital, history>>

Pass ==
  /\ now < MaxTime
  /\ now' = now + 1
  /\ UNCHANGED <<cov, gaps, runs, capital, flight, cadence, history, trouble>>

Next ==
  \/ Tick \/ Boot \/ Manual
  \/ /\ flight.stage = "fetch"
     /\ \E i \in Results(flight.window["interest"].from, flight.began),
           u \in Results(flight.window["income"].from, flight.began) :
          Record([s \in Source |-> IF s = "interest" THEN i ELSE u])
  \/ CommitInterest \/ CommitIncome
  \/ \E ok \in BOOLEAN : PullCapital(ok)
  \/ Raise \/ Restart \/ Pass

Spec == Init /\ [][Next]_vars
-----------------------------------------------------------------------------
(* What the answer to GET flow-log calls complete (_build_coverage).       *)
Complete(from, to) ==
  /\ \A s \in Source : cov[s].start # None /\ cov[s].start <= from
  /\ \A g \in gaps : ~(g.from <= to /\ g.to >= from)

Instant == (0 - Horizon)..MaxTime

TypeOK ==
  /\ now \in 0..MaxTime
  /\ cov \in [Source -> [start : Instant \cup {None}, end : Instant \cup {None}]]
  /\ gaps \subseteq [source : Source, from : Instant, to : Instant]
  /\ Len(runs) <= MaxRuns
  /\ \A r \in Range(runs) : r.kind \in SuccessKind \cup {"manual"} /\ r.at \in 0..now
  /\ flight.stage \in {"none", "fetch", "interest", "income", "capital"}
  /\ cadence \in {"boot", "ticking"}

(* A window called complete was read, in both sources, up to the end of    *)
(* their coverage: after truncated pages, failures of one source, commits  *)
(* that never happened and downtimes longer than the horizon               *)
(* (service.py _build_coverage against _commit_interest, _commit_income).  *)
(* The windows in blind are the exception: there the code calls complete   *)
(* what it never read (service.py:284-287, :307).                          *)
CompleteIsRead ==
  /\ TypeOK
  /\ \A from, to \in Instant :
       from <= to /\ Complete(from, to) =>
         \A s \in Source :
           \A t \in from..to : cov[s].end # None /\ t < cov[s].end => t \in read[s] \cup blind[s]

(* Rows that the exchange publishes up to Overlap late are caught: what    *)
(* lies that far behind the end of the coverage, and is in no gap, was     *)
(* read when it was final -- unless the horizon once cut the window, which *)
(* leaves the late rows before the old end unread and unmarked             *)
(* (service.py _compute_window), and but for the windows in blind, which   *)
(* are behind the end with nothing read of them and no gap.                *)
LateRowsCaught ==
  \A s \in Source \ cut :
    cov[s].start # None /\ cov[s].end # None =>
      \A t \in cov[s].start..(cov[s].end - Overlap) :
        \/ t \in final[s] \cup blind[s]
        \/ \E g \in gaps : g.source = s /\ g.from <= t /\ t <= g.to

(* The cadence has at most one success in a natural hour, whatever was     *)
(* pulled by hand, cut off by a restart or finished after the hour in      *)
(* which it began (scheduler.py decide).                                   *)
OneSuccessAnHour ==
  \A i, j \in 1..Len(runs) :
    /\ i # j
    /\ runs[i].kind = "scheduled" /\ runs[i].ok
    /\ runs[j].kind = "scheduled" /\ runs[j].ok
    => runs[i].at \div Hour # runs[j].at \div Hour
=============================================================================
