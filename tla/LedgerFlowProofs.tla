--------------------------- MODULE LedgerFlowProofs ---------------------------
(***************************************************************************)
(* What the ledger calls complete was read, for any clock, any number of   *)
(* pulls and troubles, and any overlap, horizon and first window.          *)
(***************************************************************************)
EXTENDS LedgerFlow, SequenceTheorems, TLAPS

-----------------------------------------------------------------------------
(* The inductive invariant.                                                *)

CovRow == [start : Instant \cup {None}, end : Instant \cup {None}]
GapRow == [source : Source, from : Instant, to : Instant]
Kinds == SuccessKind \cup {"manual"}
Run == [kind : Kinds, at : Nat, ok : BOOLEAN]
AnyResult == {Failed, Whole, Unreadable} \cup [ok : {TRUE}, truncated : {TRUE}, edge : Int]
Pull == [stage : {"fetch", "interest", "income"}, kind : Kinds, began : Nat,
         old : [Source -> CovRow],
         window : [Source -> [from : Instant, gap : SUBSET GapRow]],
         result : [Source -> AnyResult]]

Pulling == flight.stage \in {"fetch", "interest", "income"}

Tables ==
  /\ now \in 0..MaxTime
  /\ cov \in [Source -> CovRow]
  /\ gaps \subseteq GapRow
  /\ runs \in Seq(Run) /\ Len(runs) <= MaxRuns
  /\ \A i \in 1..Len(runs) : runs[i].at <= now
  /\ cadence \in {"boot", "ticking"}
  /\ read \in [Source -> SUBSET Int] /\ final \in [Source -> SUBSET Int]
  /\ blind \in [Source -> SUBSET Int]
  /\ \A s \in Source : /\ cov[s].start # None => cov[s].end # None
                       /\ cov[s].end <= now

(* The source is not stored yet, so the run still has its coverage right.  *)
Pending(s) == flight.stage \in {"fetch", "interest"} \/ (flight.stage = "income" /\ s = "income")

(* What Window read of a source when the pull began.                       *)
Planned(s) ==
  LET end == cov[s].end
      back == flight.began - Horizon
  IN /\ flight.old[s] = cov[s]
     /\ end <= flight.began
     /\ flight.window[s].from = IF end = None THEN flight.began - FirstPull
                                ELSE AtLeast(end - Overlap, back)
     /\ flight.window[s].gap = IF end = None \/ end >= back THEN {} ELSE {Gap(s, end, back)}

Flight ==
  /\ flight.stage \in {"none", "fetch", "interest", "income", "capital"}
  /\ Pulling => flight \in Pull /\ flight.began <= now
  /\ flight.stage = "fetch" => Len(runs) < MaxRuns
  /\ \A s \in Source : Pending(s) => Planned(s)
  /\ flight.stage \in {"interest", "income"} =>
       \A s \in Source : flight.result[s] \in Results(flight.window[s].from, flight.began)

InGap(s, t) == \E g \in gaps : g.source = s /\ g.from <= t /\ t <= g.to

(* Between the ends of the coverage everything was read, lies in a gap, or *)
(* is in the window of an answer none of whose rows could be read.         *)
Held(s) ==
  cov[s].start # None =>
    \A t \in Int : cov[s].start <= t /\ t < cov[s].end =>
      t \in read[s] \cup blind[s] \/ InGap(s, t)

(* ... and was read late enough, unless the horizon cut the window.        *)
Late(s) ==
  s \notin cut /\ cov[s].start # None =>
    \A t \in Int : cov[s].start <= t /\ t <= cov[s].end - Overlap =>
      t \in final[s] \cup blind[s] \/ InGap(s, t)

Covered == \A s \in Source : Held(s) /\ Late(s)
Inv == Tables /\ Flight /\ Covered

-----------------------------------------------------------------------------
(* Numbers and windows.                                                    *)

\* None lies before every instant.
LEMMA Instants ==
  /\ Horizon \in Nat /\ MaxTime \in Nat /\ MaxRuns \in Nat
  /\ Overlap \in Nat /\ Overlap > 0 /\ FirstPull \in Nat /\ FirstPull <= Horizon
  /\ None \in Int
  /\ \A t : t \in Instant <=> t \in Int /\ 0 - Horizon <= t /\ t <= MaxTime
  /\ \A t \in Instant : t > None
BY TimesAssumption DEF Instant, None

\* A pull plans its windows within the instants of the model.
LEMMA WindowTyped ==
  ASSUME Tables, NEW s \in Source
  PROVE  /\ WindowStart(cov[s].end) \in Instant
         /\ DowntimeGap(s, cov[s].end) \subseteq GapRow
<1>1. /\ now \in Nat /\ now <= MaxTime
      /\ cov[s].end \in Instant \cup {None} /\ cov[s].end <= now
  BY Instants DEF Tables, CovRow
<1>2. WindowStart(cov[s].end) \in Instant
  BY <1>1, Instants DEF WindowStart, AtLeast
<1>3. ASSUME cov[s].end # None, ~(cov[s].end >= now - Horizon)
      PROVE  Gap(s, cov[s].end, now - Horizon) \in GapRow
  <2>1. now - Horizon \in Instant /\ cov[s].end \in Instant
    BY <1>1, <1>3, Instants
  <2> QED BY <2>1 DEF Gap, GapRow
<1> QED BY <1>2, <1>3 DEF DowntimeGap

\* Results are of one type whatever the window is.
LEMMA ResultTyped ==
  ASSUME NEW from \in Int, NEW to \in Int, NEW r \in Results(from, to)
  PROVE  /\ r \in AnyResult
         /\ r.ok \in BOOLEAN /\ r.truncated \in BOOLEAN
         /\ r # Unreadable /\ r.truncated => r.edge \in from..to
<1>1. CASE r \in {Failed, Whole, Unreadable}
  <2>1. r \in AnyResult
    BY <1>1 DEF AnyResult
  <2>2. r.ok \in BOOLEAN /\ r.truncated \in BOOLEAN /\ (r # Unreadable => r.truncated = FALSE)
    <3>1. CASE r = Failed
      BY <3>1 DEF Failed
    <3>2. CASE r = Whole
      BY <3>2 DEF Whole
    <3>3. CASE r = Unreadable
      BY <3>3 DEF Unreadable
    <3> QED BY <1>1, <3>1, <3>2, <3>3
  <2> QED BY <2>1, <2>2
<1>2. CASE r \in [ok : {TRUE}, truncated : {TRUE}, edge : from..to]
  <2>1. /\ r = [ok |-> TRUE, truncated |-> TRUE, edge |-> r.edge]
        /\ r.edge \in from..to /\ r.ok = TRUE /\ r.truncated = TRUE
    BY <1>2
  <2>2. r \in [ok : {TRUE}, truncated : {TRUE}, edge : Int]
    <3>1. from..to \subseteq Int
      OBVIOUS
    <3> QED BY <1>2, <3>1
  <2>3. r \in AnyResult
    BY <2>2 DEF AnyResult
  <2> QED BY <2>1, <2>3
<1> QED BY <1>1, <1>2 DEF Results

-----------------------------------------------------------------------------
(* One source is stored.                                                   *)

\* What lies before the window, and in the old coverage or after its end, is held
\* or falls into the gap of a downtime.
LEMMA BeforeWindow ==
  ASSUME Tables, NEW s \in Source, Planned(s), flight.began \in Nat, Held(s),
         NEW t \in Int, cov[s].start # None, cov[s].start <= t, t < flight.window[s].from
  PROVE  \/ t \in read[s] \cup blind[s] \/ InGap(s, t)
         \/ \E g \in flight.window[s].gap : g.source = s /\ g.from <= t /\ t <= g.to
<1> DEFINE end == cov[s].end
           back == flight.began - Horizon
<1>1. end # None /\ end \in Int /\ back \in Int
  BY Instants DEF Tables, CovRow
<1>2. CASE t < end
  BY <1>2 DEF Held
<1>3. CASE t >= end
  <2>1. end < back /\ t <= back
    BY <1>1, <1>3, Instants DEF Planned, AtLeast
  <2>2. flight.window[s].gap = {Gap(s, end, back)}
    BY <1>1, <2>1 DEF Planned
  <2> QED BY <1>3, <2>1, <2>2 DEF Gap
<1> QED BY <1>1, <1>2, <1>3

\* What an answer none of whose rows could be read leaves in the dark.
Lost(s) == IF flight.result[s] = Unreadable
           THEN flight.window[s].from..(flight.began - 1) ELSE {}

\* Storing a source keeps the coverage true when the new bounds hold nothing but
\* what was just read or could not be, what is marked as a gap, and what lies in the
\* old coverage before the window.
LEMMA Stored ==
  ASSUME Inv, NEW s \in Source, Planned(s), flight \in Pull, flight.result[s].ok,
         NEW start \in Instant \cup {None}, NEW end \in Instant, end <= flight.began,
         NEW newGaps \in SUBSET GapRow,
         Store(s, start, end, newGaps),
         \A t \in Int : start # None /\ start <= t /\ t < end =>
           \/ t \in ReadBy(s, flight.window[s].from, flight.began, flight.result[s]) \cup Lost(s)
           \/ \E g \in newGaps : g.source = s /\ g.from <= t /\ t <= g.to
           \/ cov[s].start # None /\ cov[s].start <= t /\ t < flight.window[s].from,
         ReadBy(s, flight.window[s].from, flight.began, flight.result[s]) \subseteq Int
  PROVE  Covered' /\ cov' \in [Source -> CovRow] /\ gaps' \subseteq GapRow
         /\ read' \in [Source -> SUBSET Int] /\ final' \in [Source -> SUBSET Int]
         /\ blind' \in [Source -> SUBSET Int]
         /\ cov' = [cov EXCEPT ![s] = [start |-> start, end |-> end]]
<1> USE DEF Inv
<1> DEFINE from == flight.window[s].from
           got == ReadBy(s, from, flight.began, flight.result[s])
<1>1. /\ cov' = [cov EXCEPT ![s] = [start |-> start, end |-> end]]
      /\ gaps' = gaps \cup flight.window[s].gap \cup newGaps
      /\ read' = [read EXCEPT ![s] = @ \cup got]
      /\ final' = [final EXCEPT ![s] = @ \cup {t \in got : t + Overlap <= flight.began}]
      /\ blind' = [blind EXCEPT ![s] = @ \cup Lost(s)]
      /\ cut' = IF cov[s].end # None /\ flight.began - Horizon > cov[s].end - Overlap
                THEN cut \cup {s} ELSE cut
  <2>1. blind' = [blind EXCEPT ![s] = @ \cup Lost(s)]
    <3>1. CASE flight.result[s] = Unreadable
      BY <3>1 DEF Store, Lost
    <3>2. CASE flight.result[s] # Unreadable
      BY <3>2 DEF Store, Lost, Tables
    <3> QED BY <3>1, <3>2
  <2> QED BY <2>1 DEF Store, Planned
<1> HIDE DEF got
<1>2. cov' \in [Source -> CovRow] /\ gaps' \subseteq GapRow
  <2>1. [start |-> start, end |-> end] \in CovRow
    BY DEF CovRow
  <2>2. flight.window[s].gap \subseteq GapRow
    BY DEF Pull
  <2> QED BY <1>1, <2>1, <2>2 DEF Tables
<1>3. /\ read' \in [Source -> SUBSET Int] /\ final' \in [Source -> SUBSET Int]
      /\ blind' \in [Source -> SUBSET Int]
  <2>1. got \subseteq Int
    BY DEF got
  <2>2. Lost(s) \subseteq Int
    <3>1. \A a, b : a..b \subseteq Int
      OBVIOUS
    <3> QED BY <3>1 DEF Lost
  <2> QED BY <1>1, <2>1, <2>2 DEF Tables
<1>4. \A q \in Source, t \in Int : InGap(q, t) => InGap(q, t)'
  BY <1>1 DEF InGap
<1>5. /\ cov'[s].start = start /\ cov'[s].end = end
      /\ blind'[s] = blind[s] \cup Lost(s)
      /\ read'[s] = read[s] \cup got
      /\ final'[s] = final[s] \cup {t \in got : t + Overlap <= flight.began}
      /\ \A q \in Source : q # s =>
           /\ cov'[q] = cov[q] /\ read'[q] = read[q]
           /\ final'[q] = final[q] /\ blind'[q] = blind[q]
  BY <1>1, Instants DEF Tables
<1>6. ASSUME NEW t \in Int, start # None, start <= t, t < end
      PROVE  \/ t \in got \cup Lost(s) \/ InGap(s, t)'
             \/ cov[s].start # None /\ cov[s].start <= t /\ t < from
  BY <1>1, <1>6 DEF InGap, got
<1>7. flight.began \in Nat
  BY DEF Pull
<1>8. Held(s)'
  <2> SUFFICES ASSUME start # None, NEW t \in Int, start <= t, t < end
               PROVE  t \in read'[s] \cup blind'[s] \/ InGap(s, t)'
    BY <1>5 DEF Held
  <2>1. CASE cov[s].start # None /\ cov[s].start <= t /\ t < from
    <3>1. \/ t \in read[s] \cup blind[s] \/ InGap(s, t)
          \/ \E g \in flight.window[s].gap : g.source = s /\ g.from <= t /\ t <= g.to
      BY <1>7, <2>1, BeforeWindow DEF Covered
    <3>2. ASSUME NEW g \in flight.window[s].gap, g.source = s, g.from <= t, t <= g.to
          PROVE  InGap(s, t)'
      BY <1>1, <3>2 DEF InGap
    <3> QED BY <1>4, <1>5, <3>1, <3>2
  <2> QED BY <1>5, <1>6, <2>1
<1>9. Late(s)'
  <2> SUFFICES ASSUME s \notin cut', start # None, NEW t \in Int, start <= t, t <= end - Overlap
               PROVE  t \in final'[s] \cup blind'[s] \/ InGap(s, t)'
    BY <1>5 DEF Late
  <2>1. t < end /\ t + Overlap <= flight.began
    BY <1>7, Instants
  <2>2. CASE cov[s].start # None /\ cov[s].start <= t /\ t < from
    <3>1. cov[s].end # None /\ cov[s].end \in Int
      BY <2>2, Instants DEF Tables, CovRow
    <3>2. ~(flight.began - Horizon > cov[s].end - Overlap) /\ s \notin cut
      BY <1>1, <3>1
    <3>3. t <= cov[s].end - Overlap
      BY <1>7, <2>2, <3>1, <3>2, Instants DEF Planned, AtLeast
    <3>4. t \in final[s] \cup blind[s] \/ InGap(s, t)
      BY <2>2, <3>2, <3>3 DEF Covered, Late
    <3> QED BY <1>4, <1>5, <3>4
  <2> QED BY <1>5, <1>6, <2>1, <2>2
<1>10. ASSUME NEW q \in Source, q # s PROVE Held(q)' /\ Late(q)'
  <2>1. q \notin cut' => q \notin cut
    BY <1>1
  <2> QED BY <1>4, <1>5, <1>10, <2>1 DEF Covered, Held, Late
<1> QED BY <1>1, <1>2, <1>3, <1>8, <1>9, <1>10 DEF Covered

\* A source whose answer was an error stays as it is.
LEMMA NotStored ==
  ASSUME Covered, UNCHANGED <<cov, gaps, history>>
  PROVE  Covered'
BY DEF Covered, Held, Late, InGap, history

-----------------------------------------------------------------------------
(* The two commits.                                                        *)

\* The interest commit: a truncated answer leaves the part before its oldest row as
\* a gap, and never moves the start of the coverage back over it.
LEMMA InterestStep ==
  ASSUME Inv, CommitInterest
  PROVE  Inv'
<1> USE DEF Inv
<1> DEFINE s == "interest"
           r == flight.result[s]
           from == flight.window[s].from
           oldStart == flight.old[s].start
           unmoved == IF oldStart # None THEN oldStart ELSE r.edge
           moved == IF oldStart # None THEN AtMost(oldStart, from) ELSE from
           start == IF r.truncated THEN unmoved ELSE moved
           newGaps == IF r.truncated /\ r.edge # None THEN {Gap(s, from, r.edge)} ELSE {}
<1>1. /\ flight.stage = "interest"
      /\ Store(s, start, flight.began, newGaps)
      /\ flight' = [flight EXCEPT !.stage = "income"]
      /\ UNCHANGED <<now, runs, capital, cadence, trouble>>
  BY DEF CommitInterest
<1>2. /\ s \in Source /\ flight \in Pull /\ flight.began \in Nat /\ flight.began <= now
      /\ Planned(s) /\ r \in Results(from, flight.began)
      /\ now \in Nat /\ now <= MaxTime /\ from \in Instant /\ from \in Int
  BY <1>1, Instants DEF Source, Flight, Pulling, Pull, Pending, Tables
<1>3. /\ r.ok \in BOOLEAN /\ r.truncated \in BOOLEAN
      /\ r # Unreadable /\ r.truncated => r.edge \in from..flight.began
  BY <1>2, ResultTyped
<1>4. oldStart = cov[s].start /\ oldStart \in Instant \cup {None}
  BY <1>2 DEF Planned, Tables, CovRow
<1>5. CASE r.ok
  <2>1. /\ r.truncated \in BOOLEAN
        /\ r # Unreadable /\ r.truncated => r.edge \in from..flight.began
        /\ r = Unreadable => r.truncated /\ r.edge = None
    BY <1>3 DEF Unreadable
  <2>2. flight.began \in Instant /\ (r.truncated => r.edge \in Instant \cup {None})
    BY <1>2, <2>1, Instants
  <2>3. start \in Instant \cup {None}
    BY <1>2, <1>4, <2>1, <2>2 DEF AtMost
  <2>4. newGaps \in SUBSET GapRow
    BY <1>2, <2>2 DEF Gap, GapRow
  <2>5. /\ r # Unreadable /\ r.truncated =>
             ReadBy(s, from, flight.began, r) = (r.edge + 1)..(flight.began - 1)
        /\ r = Unreadable => Lost(s) = from..(flight.began - 1)
                             /\ ReadBy(s, from, flight.began, r) = {}
        /\ ~r.truncated => ReadBy(s, from, flight.began, r) = from..(flight.began - 1)
    BY <1>5, <2>1 DEF ReadBy, Lost
  <2>6. ASSUME NEW t \in Int, start # None, start <= t, t < flight.began
        PROVE  \/ t \in ReadBy(s, from, flight.began, r) \cup Lost(s)
               \/ \E g \in newGaps : g.source = s /\ g.from <= t /\ t <= g.to
               \/ cov[s].start # None /\ cov[s].start <= t /\ t < from
    <3>0. CASE r = Unreadable
      <4>1. start = oldStart
        BY <2>1, <2>6, <3>0
      <4> QED BY <1>2, <1>4, <2>5, <2>6, <3>0, <4>1
    <3>1. CASE r # Unreadable /\ r.truncated
      <4>1. r.edge \in Int /\ from <= r.edge /\ r.edge # None
        BY <1>2, <2>1, <3>1, Instants
      <4>2. CASE t > r.edge
        BY <1>2, <2>5, <2>6, <3>1, <4>1, <4>2
      <4>3. CASE from <= t /\ t <= r.edge
        <5>1. newGaps = {Gap(s, from, r.edge)}
          BY <3>1, <4>1
        <5> QED BY <4>3, <5>1 DEF Gap
      <4>4. CASE t < from
        BY <1>2, <1>4, <2>6, <3>1, <4>1, <4>4
      <4> QED BY <1>2, <4>1, <4>2, <4>3, <4>4
    <3>2. CASE ~r.truncated
      BY <1>2, <1>4, <2>5, <2>6, <3>2, Instants DEF AtMost
    <3> QED BY <2>1, <3>0, <3>1, <3>2
  <2>7. ReadBy(s, from, flight.began, r) \subseteq Int
    <3>1. \A a, b : a..b \subseteq Int
      OBVIOUS
    <3> QED BY <2>1, <2>5, <3>1
  <2>11. \A t \in Int : start # None /\ start <= t /\ t < flight.began =>
           \/ t \in ReadBy(s, from, flight.began, r) \cup Lost(s)
           \/ \E g \in newGaps : g.source = s /\ g.from <= t /\ t <= g.to
           \/ cov[s].start # None /\ cov[s].start <= t /\ t < from
    BY <2>6
  <2>12. flight.began <= flight.began /\ flight.result[s].ok
    BY <1>2, <1>5
  <2> HIDE DEF start, newGaps, s
  <2>8. /\ Covered' /\ cov' \in [Source -> CovRow] /\ gaps' \subseteq GapRow
        /\ read' \in [Source -> SUBSET Int] /\ final' \in [Source -> SUBSET Int]
        /\ blind' \in [Source -> SUBSET Int]
        /\ cov' = [cov EXCEPT ![s] = [start |-> start, end |-> flight.began]]
    BY <1>1, <1>2, <2>2, <2>3, <2>4, <2>7, <2>11, <2>12, Stored
  <2>9. Tables'
    BY <1>1, <1>2, <2>2, <2>3, <2>8, Instants DEF Tables
  <2>10. Flight'
    BY <1>1, <1>2, <2>8 DEF Flight, Pulling, Pending, Planned, Pull, Source, s
  <2> QED BY <2>8, <2>9, <2>10
<1>6. CASE ~r.ok
  <2>1. UNCHANGED <<cov, gaps, history>>
    BY <1>1, <1>6 DEF Store
  <2>2. Covered'
    BY <2>1, NotStored
  <2>3. Tables'
    BY <1>1, <2>1 DEF Tables, history
  <2>4. Flight'
    BY <1>1, <1>2, <2>1 DEF Flight, Pulling, Pending, Planned, Pull, Source
  <2> QED BY <2>2, <2>3, <2>4
<1> QED BY <1>5, <1>6

\* The income commit: a truncated answer ends the coverage at its newest row.
LEMMA IncomeStep ==
  ASSUME Inv, CommitIncome
  PROVE  Inv'
<1> USE DEF Inv
<1> DEFINE s == "income"
           r == flight.result[s]
           from == flight.window[s].from
           oldStart == flight.old[s].start
           start == IF oldStart # None THEN AtMost(oldStart, from) ELSE from
           end == IF r.truncated /\ r.edge # None THEN r.edge ELSE flight.began
<1>1. /\ flight.stage = "income"
      /\ Store(s, start, end, {})
      /\ flight' = [stage |-> "capital", began |-> flight.began]
      /\ UNCHANGED <<now, runs, capital, cadence, trouble>>
  BY DEF CommitIncome
<1>2. /\ s \in Source /\ flight \in Pull /\ flight.began \in Nat /\ flight.began <= now
      /\ Planned(s) /\ r \in Results(from, flight.began)
      /\ now \in Nat /\ now <= MaxTime /\ from \in Instant /\ from \in Int
  BY <1>1, Instants DEF Source, Flight, Pulling, Pull, Pending, Tables
<1>3. /\ r.ok \in BOOLEAN /\ r.truncated \in BOOLEAN
      /\ r # Unreadable /\ r.truncated => r.edge \in from..flight.began
  BY <1>2, ResultTyped
<1>4. oldStart = cov[s].start /\ oldStart \in Instant \cup {None}
  BY <1>2 DEF Planned, Tables, CovRow
<1>5. Flight'
  BY <1>1 DEF Flight, Pulling, Pending
<1>6. CASE r.ok
  <2>1. /\ r.truncated \in BOOLEAN
        /\ r # Unreadable /\ r.truncated => r.edge \in from..flight.began /\ r.edge # None
        /\ r = Unreadable => r.truncated /\ r.edge = None
    BY <1>2, <1>3, Instants DEF Unreadable
  <2>2. end \in Instant /\ end <= flight.began /\ end \in Int
    BY <1>2, <2>1, Instants
  <2>3. start \in Instant
    BY <1>2, <1>4 DEF AtMost
  <2>4. /\ r # Unreadable => ReadBy(s, from, flight.began, r) = from..(end - 1)
        /\ r = Unreadable => Lost(s) = from..(end - 1) /\ ReadBy(s, from, flight.began, r) = {}
    BY <1>6, <2>1 DEF ReadBy, Lost
  <2>5. ASSUME NEW t \in Int, start # None, start <= t, t < end
        PROVE  \/ t \in ReadBy(s, from, flight.began, r) \cup Lost(s)
               \/ \E g \in {} : g.source = s /\ g.from <= t /\ t <= g.to
               \/ cov[s].start # None /\ cov[s].start <= t /\ t < from
    <3>1. CASE from <= t
      <4>1. t \in from..(end - 1)
        BY <1>2, <2>2, <2>5, <3>1
      <4>2. t \in ReadBy(s, from, flight.began, r) \cup Lost(s)
        <5> HIDE DEF end, from, r, s
        <5> QED BY <2>4, <4>1
      <4> QED BY <4>2
    <3>2. CASE ~(from <= t)
      <4>1. oldStart # None /\ start = AtMost(oldStart, from)
        BY <2>5, <3>2
      <4>2. oldStart <= t
        BY <1>2, <1>4, <2>5, <3>2, <4>1, Instants DEF AtMost
      <4>3. t < from
        BY <1>2, <3>2
      <4> HIDE DEF start, end, from, r, s, oldStart
      <4> QED BY <1>4, <4>1, <4>2, <4>3
    <3> QED BY <3>1, <3>2
  <2>8. ReadBy(s, from, flight.began, r) \subseteq Int /\ {} \in SUBSET GapRow
    <3>1. \A a, b : a..b \subseteq Int
      OBVIOUS
    <3> QED BY <2>4, <3>1
  <2> HIDE DEF start, end, s
  <2>6. /\ Covered' /\ cov' \in [Source -> CovRow] /\ gaps' \subseteq GapRow
        /\ read' \in [Source -> SUBSET Int] /\ final' \in [Source -> SUBSET Int]
        /\ blind' \in [Source -> SUBSET Int]
        /\ cov' = [cov EXCEPT ![s] = [start |-> start, end |-> end]]
    BY <1>1, <1>2, <1>6, <2>2, <2>3, <2>5, <2>8, Stored
  <2>7. Tables'
    BY <1>1, <1>2, <2>2, <2>3, <2>6, Instants DEF Tables
  <2> QED BY <1>5, <2>6, <2>7
<1>7. CASE ~r.ok
  <2>1. UNCHANGED <<cov, gaps, history>>
    BY <1>1, <1>7 DEF Store
  <2>2. Covered'
    BY <2>1, NotStored
  <2>3. Tables'
    BY <1>1, <2>1 DEF Tables, history
  <2> QED BY <1>5, <2>2, <2>3
<1> QED BY <1>6, <1>7

-----------------------------------------------------------------------------
(* The other steps.                                                        *)

\* A pull begins: it plans its windows from the coverage as it is.
LEMMA TakeStep ==
  ASSUME Inv, NEW kind \in Kinds, Take(kind), cadence' \in {"boot", "ticking"},
         UNCHANGED <<now, cov, gaps, runs, capital, history, trouble>>
  PROVE  Inv'
<1> USE DEF Inv
<1>1. Covered'
  BY NotStored
<1>2. Tables'
  BY DEF Tables, history
<1>3. flight' = [stage |-> "fetch", kind |-> kind, began |-> now, old |-> cov,
                 window |-> [s \in Source |-> Window(s)],
                 result |-> [s \in Source |-> Failed]]
  BY DEF Take
<1>4. \A s \in Source : Window(s) \in [from : Instant, gap : SUBSET GapRow]
  BY WindowTyped DEF Window
<1>5. flight' \in Pull /\ flight'.began <= now'
  <2>1. now \in Nat /\ now <= now
    BY DEF Tables
  <2>2. Failed \in AnyResult
    BY DEF AnyResult
  <2> QED BY <1>3, <1>4, <2>1, <2>2 DEF Pull, Tables
<1>6. ASSUME NEW s \in Source PROVE Planned(s)'
  <2>1. flight'.window[s] = Window(s)
    BY <1>3
  <2> QED BY <1>3, <2>1 DEF Planned, Tables, Window, WindowStart, DowntimeGap
<1>7. Flight'
  BY <1>3, <1>5, <1>6 DEF Flight, Pulling, Take
<1> QED BY <1>1, <1>2, <1>7

\* The answers arrive and the run is recorded.
LEMMA RecordStep ==
  ASSUME Inv, NEW result \in [Source -> AnyResult], Record(result)
  PROVE  Inv'
<1> USE DEF Inv
<1> DEFINE run == [kind |-> flight.kind, at |-> now, ok |-> \A s \in Source : result[s].ok]
<1>1. /\ flight.stage = "fetch"
      /\ runs' = <<run>> \o runs
      /\ flight' = [flight EXCEPT !.stage = "interest", !.result = result]
      /\ UNCHANGED <<now, cov, gaps, capital, cadence, history>>
  BY DEF Record
<1>2. Covered'
  BY <1>1, NotStored
<1>3. flight \in Pull /\ flight.began <= now /\ Len(runs) < MaxRuns
  BY <1>1 DEF Flight, Pulling
<1>4. <<run>> \in Seq(Run) /\ Len(<<run>>) = 1 /\ <<run>>[1] = run
  <2>1. run \in Run
    BY <1>3 DEF Run, Pull, Tables
  <2> HIDE DEF run
  <2> QED BY <2>1
<1>5. /\ runs' \in Seq(Run) /\ Len(runs') = Len(runs) + 1
      /\ \A i \in 1..Len(runs') : runs'[i] = IF i <= 1 THEN run ELSE runs[i - 1]
  <2>1. runs \in Seq(Run)
    BY DEF Tables
  <2> HIDE DEF run
  <2> QED BY <1>1, <1>4, <2>1, ConcatProperties, LenProperties
<1>6. Tables'
  <2>1. Len(runs) \in Nat
    BY LenProperties DEF Tables
  <2>2. ASSUME NEW i \in 1..Len(runs') PROVE runs'[i].at <= now
    <3>1. CASE i <= 1
      BY <1>5, <3>1 DEF Tables
    <3>2. CASE i > 1
      <4> HIDE DEF run
      <4>1. i - 1 \in 1..Len(runs) /\ runs'[i] = runs[i - 1]
        BY <1>5, <2>1, <3>2
      <4> QED BY <4>1 DEF Tables
    <3> QED BY <3>1, <3>2
  <2> HIDE DEF run
  <2> QED BY <1>1, <1>3, <1>5, <2>1, <2>2, Instants DEF Tables, history
<1>7. Flight'
  <2>1. flight' \in Pull /\ flight'.began = flight.began /\ flight'.old = flight.old
        /\ flight'.window = flight.window /\ flight'.result = result
        /\ flight'.stage = "interest"
    BY <1>1, <1>3 DEF Pull
  <2>2. \A s \in Source : Planned(s)'
    BY <1>1, <2>1 DEF Flight, Pending, Planned
  <2>3. \A s \in Source : result[s] \in Results(flight.window[s].from, flight.began)
    BY DEF Record
  <2> QED BY <1>1, <1>3, <2>1, <2>2, <2>3 DEF Flight, Pulling, Pending
<1> QED BY <1>2, <1>6, <1>7

\* Nothing is held at first, and nobody pulls.
LEMMA InitHolds == Init => Inv
<1> SUFFICES ASSUME Init PROVE Inv
  OBVIOUS
<1>1. Tables
  <2>1. runs \in Seq(Run) /\ Len(runs) = 0
    BY DEF Init
  <2> QED BY <2>1, Instants DEF Init, Tables, CovRow, None
<1>2. Flight
  BY DEF Init, Flight, Pulling, Pending, NoFlight
<1>3. Covered
  BY DEF Init, Covered, Held, Late
<1> QED BY <1>1, <1>2, <1>3 DEF Inv

\* A run that ends without storing anything more.
LEMMA EndStep ==
  ASSUME Inv, flight' = NoFlight, cadence' \in {"boot", "ticking"},
         UNCHANGED <<now, cov, gaps, runs, history>>
  PROVE  Inv'
<1> USE DEF Inv
<1>1. Covered'
  BY NotStored
<1>2. Tables'
  BY DEF Tables, history
<1>3. Flight'
  BY DEF Flight, Pulling, Pending, NoFlight
<1> QED BY <1>1, <1>2, <1>3

\* Every step keeps the invariant.
LEMMA Step ==
  ASSUME Inv, [Next]_vars
  PROVE  Inv'
<1> USE DEF Inv
<1>0. cadence \in {"boot", "ticking"}
  BY DEF Tables
<1>1. CASE UNCHANGED vars
  <2>1. Covered'
    BY <1>1, NotStored DEF vars, history
  <2>2. Tables'
    BY <1>1 DEF vars, Tables
  <2>3. Flight'
    BY <1>1 DEF vars, Flight, Pulling, Pending, Planned
  <2> QED BY <2>1, <2>2, <2>3
<1>2. CASE Tick
  BY <1>0, <1>2, TakeStep DEF Tick, Kinds, SuccessKind
<1>3. CASE Boot
  <2>1. CASE UNCHANGED flight
    <3>1. Covered'
      BY <1>3, NotStored DEF Boot
    <3> QED BY <1>3, <2>1, <3>1 DEF Boot, history, Tables, Flight, Pulling, Pending, Planned
  <2>2. CASE ~UNCHANGED flight
    BY <1>3, <2>2, TakeStep DEF Boot, Kinds, SuccessKind
  <2> QED BY <2>1, <2>2
<1>4. CASE Manual
  BY <1>0, <1>4, TakeStep DEF Manual, Kinds
<1>5. ASSUME flight.stage = "fetch",
             NEW i \in Results(flight.window["interest"].from, flight.began),
             NEW u \in Results(flight.window["income"].from, flight.began),
             Record([s \in Source |-> IF s = "interest" THEN i ELSE u])
      PROVE  Inv'
  <2>1. \A s \in Source : flight.window[s].from \in Int /\ flight.began \in Int
    BY <1>5, Instants DEF Flight, Pulling, Pull
  <2>2. i \in AnyResult /\ u \in AnyResult
    BY <2>1, ResultTyped DEF Source
  <2> QED BY <1>5, <2>2, RecordStep
<1>6. CASE CommitInterest
  BY <1>6, InterestStep
<1>7. CASE CommitIncome
  BY <1>7, IncomeStep
<1>8. ASSUME NEW ok \in BOOLEAN, PullCapital(ok) PROVE Inv'
  BY <1>0, <1>8, EndStep DEF PullCapital
<1>9. CASE Raise
  BY <1>0, <1>9, EndStep DEF Raise
<1>10. CASE Restart
  BY <1>10, EndStep DEF Restart
<1>11. CASE Pass
  <2>1. Covered'
    BY <1>11, NotStored DEF Pass
  <2>2. Tables'
    <3>1. ASSUME NEW i \in 1..Len(runs) PROVE runs[i].at \in Nat /\ runs[i].at <= now
      <4>1. runs[i] \in Run
        BY ElementOfSeq DEF Tables
      <4> QED BY <4>1 DEF Tables, Run
    <3>2. \A q \in Source : cov[q].end \in Int /\ cov[q].end <= now
      BY Instants DEF Tables, CovRow
    <3>3. now \in Nat /\ now' = now + 1 /\ now' \in 0..MaxTime
      BY <1>11, Instants DEF Pass, Tables
    <3>4. \A i \in 1..Len(runs) : runs[i].at <= now'
      BY <3>1, <3>3
    <3>5. \A q \in Source : cov[q].end <= now'
      BY <3>2, <3>3
    <3> QED BY <1>11, <3>3, <3>4, <3>5 DEF Pass, Tables, history
  <2>3. Flight'
    <3>1. now \in Nat /\ now' = now + 1
      BY <1>11 DEF Pass, Tables
    <3>2. Pulling => flight \in Pull /\ flight.began <= now'
      BY <3>1 DEF Flight, Pull
    <3> QED BY <1>11, <3>2 DEF Pass, Flight, Pulling, Pending, Planned
  <2> QED BY <2>1, <2>2, <2>3
<1> QED BY <1>1, <1>2, <1>3, <1>4, <1>5, <1>6, <1>7, <1>8, <1>9, <1>10, <1>11 DEF Next

-----------------------------------------------------------------------------
(* The theorems.                                                           *)

\* The run that is under way has planned its windows from the coverage as it still
\* is, and the coverage of each source holds only what was read or is marked.
THEOREM LedgerInvariant == Spec => []Inv
<1> QED BY InitHolds, Step, PTL DEF Spec

\* The invariant implies the type invariant.
LEMMA Typed == Inv => TypeOK
<1> SUFFICES ASSUME Inv PROVE TypeOK
  OBVIOUS
<1>1. \A r \in Range(runs) : r.kind \in Kinds /\ r.at \in 0..now
  <2> SUFFICES ASSUME NEW i \in DOMAIN runs PROVE runs[i].kind \in Kinds /\ runs[i].at \in 0..now
    BY DEF Range
  <2>1. i \in 1..Len(runs) /\ runs[i] \in Run
    BY LenProperties, ElementOfSeq DEF Inv, Tables
  <2> QED BY <2>1 DEF Inv, Tables, Run
<1> QED BY <1>1 DEF Inv, Tables, Flight, TypeOK, CovRow, GapRow, Kinds

\* What GET flow-log calls complete was read in both sources, up to the end of
\* their coverage, or lies in the window of an answer cut short of which no row
\* could be read, for every clock, horizon and overlap (service.py
\* _build_coverage, _commit_interest, _commit_income).
THEOREM CompleteWasRead == Spec => []CompleteIsRead
<1>1. Inv => CompleteIsRead
  <2> SUFFICES ASSUME Inv, NEW from \in Instant, NEW to \in Instant, from <= to,
                      Complete(from, to), NEW s \in Source, NEW t \in from..to
               PROVE  cov[s].end # None /\ t < cov[s].end => t \in read[s] \cup blind[s]
    BY Typed DEF CompleteIsRead
  <2>1. cov[s].start # None /\ cov[s].start <= from /\ cov[s].start \in Int
    BY Instants DEF Complete, Inv, Tables, CovRow
  <2>2. from \in Int /\ to \in Int
    BY Instants
  <2>3. ~InGap(s, t)
    BY <2>2 DEF Complete, InGap, Inv, Tables, GapRow, Instant
  <2>4. Held(s)
    BY DEF Inv, Covered
  <2> QED BY <2>1, <2>2, <2>3, <2>4 DEF Held
<1> QED BY <1>1, LedgerInvariant, PTL

\* A row that the exchange publishes up to Overlap late is caught, or its instant
\* is marked as a gap or lies in such a window (service.py _compute_window).
THEOREM LateRowsAreCaught == Spec => []LateRowsCaught
<1>1. Inv => LateRowsCaught
  <2> SUFFICES ASSUME Inv, NEW s \in Source \ cut, cov[s].start # None, cov[s].end # None,
                      NEW t \in cov[s].start..(cov[s].end - Overlap)
               PROVE  t \in final[s] \cup blind[s] \/ \E g \in gaps : g.source = s /\ g.from <= t /\ t <= g.to
    BY DEF LateRowsCaught
  <2>1. cov[s].start \in Int /\ cov[s].end - Overlap \in Int
    BY Instants DEF Inv, Tables, CovRow
  <2> QED BY <2>1 DEF Inv, Covered, Late, InGap
<1> QED BY <1>1, LedgerInvariant, PTL

-----------------------------------------------------------------------------
(* One success an hour.                                                    *)

HourOf(t) == t \div Hour
Scheduled(r) == r.kind = "scheduled" /\ r.ok

\* Two scheduled successes that the cadence could see together differ in their hour.
SuccessesApart ==
  \A i, j \in 1..Len(runs) :
    i < j /\ j <= i + Lookback /\ Scheduled(runs[i]) /\ Scheduled(runs[j])
      => HourOf(runs[i].at) # HourOf(runs[j].at)

\* A scheduled pull that has not been recorded began in an hour after those of the
\* successes it consulted.
HourIsFree ==
  flight.stage = "fetch" /\ flight.kind = "scheduled" =>
    \A i \in 1..Len(runs) :
      i <= Lookback /\ Succeeded(runs[i]) => HourOf(runs[i].at) < HourOf(flight.began)

Cadence == SuccessesApart /\ HourIsFree

\* The quotient and the remainder of a division.
LEMMA Quotient ==
  ASSUME NEW n \in Nat
  PROVE  /\ HourOf(n) \in Int /\ n % Hour \in Int /\ Hour * HourOf(n) \in Int
         /\ n - (n % Hour) = Hour * HourOf(n)
         /\ Hour * HourOf(n) <= n /\ n < Hour * HourOf(n) + Hour
<1>1. Hour \in Nat /\ Hour > 0
  BY TimesAssumption
<1> QED BY <1>1 DEF HourOf

\* What lies before the start of an hour lies in an earlier hour.
LEMMA EarlierHour ==
  ASSUME NEW a \in Nat, NEW n \in Nat, a < n - (n % Hour)
  PROVE  HourOf(a) < HourOf(n)
<1>1. Hour \in Nat /\ Hour > 0
  BY TimesAssumption
<1>2. /\ HourOf(a) \in Int /\ Hour * HourOf(a) \in Int /\ Hour * HourOf(a) <= a
      /\ HourOf(n) \in Int /\ n - (n % Hour) = Hour * HourOf(n)
  BY <1>1, Quotient
<1>3. Hour * HourOf(a) < Hour * HourOf(n)
  BY <1>1, <1>2
<1> QED BY <1>1, <1>2, <1>3

\* Time does not lead back into an earlier hour.
LEMMA LaterHour ==
  ASSUME NEW a \in Nat, NEW n \in Nat, a <= n
  PROVE  HourOf(a) <= HourOf(n)
<1>1. Hour \in Nat /\ Hour > 0
  BY TimesAssumption
<1>2. /\ HourOf(a) \in Int /\ Hour * HourOf(a) \in Int /\ Hour * HourOf(a) <= a
      /\ HourOf(n) \in Int /\ Hour * HourOf(n) \in Int /\ n < Hour * HourOf(n) + Hour
  BY <1>1, Quotient
<1>3. Hour * HourOf(a) < Hour * HourOf(n) + Hour
  BY <1>1, <1>2
<1>4. Hour * HourOf(a) < Hour * (HourOf(n) + 1)
  BY <1>1, <1>2, <1>3
<1> QED BY <1>1, <1>2, <1>4

\* A due run finds no success of this hour among the records it looks at.
LEMMA DueMeansFree ==
  ASSUME Inv, Due, NEW i \in 1..Len(runs), i <= Lookback, Succeeded(runs[i])
  PROVE  HourOf(runs[i].at) < HourOf(now)
<1> DEFINE n == AtMost(Len(runs), Lookback)
<1>1. runs \in Seq(Run) /\ Len(runs) \in Nat /\ Lookback \in Nat /\ now \in Nat
  BY LenProperties, TimesAssumption DEF Inv, Tables
<1>2. runs[i] \in Run
  BY <1>1, ElementOfSeq
<1>3. n \in Nat /\ n <= Len(runs) /\ i <= n
  BY <1>1 DEF AtMost
<1> HIDE DEF n
<1>4. Recent = SubSeq(runs, 1, n)
  BY DEF Recent, n
<1>5. i \in DOMAIN Recent /\ Recent[i] = runs[i]
  BY <1>1, <1>3, <1>4, SubSeqProperties
<1>6. runs[i] \in Range(Recent)
  BY <1>5 DEF Range
<1>7. runs[i].at \in Nat /\ HourStart = now - (now % Hour)
  BY <1>2 DEF Run, HourStart
<1>8. ~(runs[i].at >= HourStart)
  BY <1>6 DEF Due, SuccessSince
<1>9. now % Hour \in Int
  BY <1>1, Quotient
<1>10. runs[i].at < now - (now % Hour)
  BY <1>1, <1>7, <1>8, <1>9
<1> QED BY <1>1, <1>7, <1>10, EarlierHour

\* A step that leaves the records alone, and begins no scheduled pull, keeps the
\* cadence.
LEMMA CadenceKept ==
  ASSUME Cadence, UNCHANGED runs,
         UNCHANGED flight \/ flight'.stage # "fetch" \/ flight'.kind # "scheduled"
  PROVE  Cadence'
BY DEF Cadence, SuccessesApart, HourIsFree

\* A new record stands before all others; its hour is that of its pull or later.
LEMMA CadenceRecorded ==
  ASSUME Inv, Cadence, NEW result \in [Source -> AnyResult], Record(result)
  PROVE  Cadence'
<1> DEFINE run == [kind |-> flight.kind, at |-> now, ok |-> \A s \in Source : result[s].ok]
<1>1. /\ flight.stage = "fetch" /\ runs' = <<run>> \o runs
      /\ flight' = [flight EXCEPT !.stage = "interest", !.result = result]
  BY DEF Record
<1>2. /\ flight \in Pull /\ flight.began \in Nat /\ flight.began <= now /\ now \in Nat
      /\ runs \in Seq(Run) /\ Len(runs) \in Nat /\ Lookback \in Nat
  BY <1>1, LenProperties, TimesAssumption DEF Inv, Flight, Pulling, Tables, Pull
<1>3. run \in Run /\ run.kind = flight.kind /\ run.at = now
  BY <1>2 DEF Run, Pull
<1> HIDE DEF run
<1>4. <<run>> \in Seq(Run) /\ Len(<<run>>) = 1 /\ <<run>>[1] = run
  BY <1>3
<1>5. /\ runs' \in Seq(Run) /\ Len(runs') = Len(runs) + 1
      /\ \A i \in 1..Len(runs') : runs'[i] = IF i <= 1 THEN run ELSE runs[i - 1]
  BY <1>1, <1>2, <1>4, ConcatProperties, LenProperties
<1>6. flight'.stage # "fetch"
  BY <1>1, <1>2 DEF Pull
<1>7. ASSUME NEW i \in 1..Len(runs), i <= Lookback, Scheduled(run), Scheduled(runs[i])
      PROVE  HourOf(runs[i].at) < HourOf(now)
  <2>1. flight.kind = "scheduled" /\ Succeeded(runs[i])
    BY <1>3, <1>7 DEF Scheduled, Succeeded, SuccessKind
  <2>2. HourOf(runs[i].at) < HourOf(flight.began)
    BY <1>1, <1>7, <2>1 DEF Cadence, HourIsFree
  <2>3. HourOf(flight.began) <= HourOf(now)
    BY <1>2, LaterHour
  <2>4. runs[i].at \in Nat
    <3>1. runs[i] \in Run
      BY <1>2, ElementOfSeq
    <3> QED BY <3>1 DEF Run
  <2>5. HourOf(runs[i].at) \in Int /\ HourOf(flight.began) \in Int /\ HourOf(now) \in Int
    BY <1>2, <2>4, Quotient
  <2> QED BY <2>2, <2>3, <2>5
<1>8. SuccessesApart'
  <2> SUFFICES ASSUME NEW i \in 1..Len(runs'), NEW j \in 1..Len(runs'),
                      i < j, j <= i + Lookback, Scheduled(runs'[i]), Scheduled(runs'[j])
               PROVE  HourOf(runs'[i].at) # HourOf(runs'[j].at)
    BY DEF SuccessesApart, Scheduled, HourOf
  <2>1. j - 1 \in 1..Len(runs) /\ runs'[j] = runs[j - 1]
    BY <1>2, <1>5
  <2>2. CASE i = 1
    <3>1. runs'[i] = run /\ j - 1 <= Lookback
      BY <1>2, <1>5, <2>2
    <3>2. HourOf(runs[j - 1].at) < HourOf(now)
      BY <1>7, <2>1, <3>1
    <3>3. runs[j - 1].at \in Nat
      <4>1. runs[j - 1] \in Run
        BY <1>2, <2>1, ElementOfSeq
      <4> QED BY <4>1 DEF Run
    <3>4. HourOf(now) \in Int /\ HourOf(runs[j - 1].at) \in Int
      BY <1>2, <3>3, Quotient
    <3> QED BY <1>3, <2>1, <3>1, <3>2, <3>4
  <2>3. CASE i # 1
    <3>1. i - 1 \in 1..Len(runs) /\ runs'[i] = runs[i - 1]
          /\ i - 1 < j - 1 /\ j - 1 <= (i - 1) + Lookback
      BY <1>2, <1>5, <2>3
    <3> QED BY <2>1, <3>1 DEF Cadence, SuccessesApart
  <2> QED BY <2>2, <2>3
<1> QED BY <1>6, <1>8 DEF Cadence, HourIsFree

\* Every step keeps the cadence.
LEMMA CadenceStep ==
  ASSUME Inv, Cadence, [Next]_vars
  PROVE  Cadence'
<1>1. CASE UNCHANGED vars
  BY <1>1, CadenceKept DEF vars
<1>2. CASE Tick
  <2>1. UNCHANGED runs /\ Due /\ flight'.began = now
    BY <1>2 DEF Tick, Take
  <2>2. HourIsFree'
    BY <2>1, DueMeansFree DEF HourIsFree, Succeeded, SuccessKind, HourOf
  <2> QED BY <2>1, <2>2 DEF Cadence, SuccessesApart
<1>3. CASE Boot
  <2>1. UNCHANGED runs
    BY <1>3 DEF Boot
  <2>2. UNCHANGED flight \/ flight'.kind # "scheduled"
    BY <1>3 DEF Boot, Take
  <2> QED BY <2>1, <2>2, CadenceKept
<1>4. CASE Manual
  BY <1>4, CadenceKept DEF Manual, Take
<1>5. ASSUME flight.stage = "fetch",
             NEW i \in Results(flight.window["interest"].from, flight.began),
             NEW u \in Results(flight.window["income"].from, flight.began),
             Record([s \in Source |-> IF s = "interest" THEN i ELSE u])
      PROVE  Cadence'
  <2>1. \A s \in Source : flight.window[s].from \in Int /\ flight.began \in Int
    BY <1>5, Instants DEF Inv, Flight, Pulling, Pull
  <2>2. i \in AnyResult /\ u \in AnyResult
    BY <2>1, ResultTyped DEF Source
  <2> QED BY <1>5, <2>2, CadenceRecorded
<1>6. CASE CommitInterest
  <2>1. flight'.stage # "fetch" /\ UNCHANGED runs
    BY <1>6 DEF CommitInterest, Inv, Flight, Pulling, Pull
  <2> QED BY <2>1, CadenceKept
<1>7. CASE CommitIncome
  BY <1>7, CadenceKept DEF CommitIncome
<1>8. ASSUME NEW ok \in BOOLEAN, PullCapital(ok) PROVE Cadence'
  BY <1>8, CadenceKept DEF PullCapital, NoFlight
<1>9. CASE Raise
  BY <1>9, CadenceKept DEF Raise, NoFlight
<1>10. CASE Restart
  BY <1>10, CadenceKept DEF Restart, NoFlight
<1>11. CASE Pass
  BY <1>11, CadenceKept DEF Pass
<1> QED BY <1>1, <1>2, <1>3, <1>4, <1>5, <1>6, <1>7, <1>8, <1>9, <1>10, <1>11 DEF Next

\* Among any Lookback consecutive records and the next one, no two scheduled
\* successes fall into one hour, for every clock and hour (scheduler.py decide,
\* _run_records).
THEOREM SuccessesNearDiffer == Spec => []SuccessesApart
<1>1. Init => Cadence
  <2> SUFFICES ASSUME Init PROVE Cadence
    OBVIOUS
  <2>1. Len(runs) = 0 /\ flight.stage = "none"
    BY DEF Init, NoFlight
  <2> QED BY <2>1 DEF Cadence, SuccessesApart, HourIsFree
<1>2. Cadence => SuccessesApart
  BY DEF Cadence
<1> QED BY <1>1, <1>2, CadenceStep, LedgerInvariant, PTL DEF Spec

\* As long as the cadence sees every record, it has at most one success in a natural
\* hour, whatever was pulled by hand, cut off by a restart or finished after the
\* hour in which it began (scheduler.py decide).
THEOREM OneSuccess ==
  ASSUME MaxRuns <= Lookback
  PROVE  Spec => []OneSuccessAnHour
<1>1. Inv /\ SuccessesApart => OneSuccessAnHour
  <2> SUFFICES ASSUME Inv, SuccessesApart, NEW i \in 1..Len(runs), NEW j \in 1..Len(runs),
                      i # j, Scheduled(runs[i]), Scheduled(runs[j])
               PROVE  HourOf(runs[i].at) # HourOf(runs[j].at)
    BY DEF OneSuccessAnHour, Scheduled, HourOf
  <2>1. Len(runs) \in Nat /\ Lookback \in Nat /\ Len(runs) <= Lookback
    BY LenProperties, TimesAssumption DEF Inv, Tables
  <2>2. (i < j \/ j < i) /\ j <= i + Lookback /\ i <= j + Lookback
    BY <2>1
  <2> QED BY <2>2 DEF SuccessesApart
<1> QED BY <1>1, LedgerInvariant, SuccessesNearDiffer, PTL
=============================================================================
