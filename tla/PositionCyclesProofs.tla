------------------------ MODULE PositionCyclesProofs ------------------------
(***************************************************************************)
(* Proofs about PositionCycles, for any number of tasks, pairs and events,  *)
(* any fills and commissions, and any account with one position a side:     *)
(* the books are the exchange's position, the close log is the curve, the   *)
(* merge loses nothing, and fee columns are written once.                   *)
(***************************************************************************)
EXTENDS PositionCycles, FiniteSetTheorems, WellFoundedInduction, SequenceTheorems, TLAPS

-----------------------------------------------------------------------------
(* The inductive invariant.                                                *)

Stages == {"sent", "executed", "settled", "done"}
Fees == [bnb : BOOLEAN, price : BOOLEAN, other : {None} \cup Assets]
LegRow == [qty : Nat, whole : BOOLEAN, quote : Nat, fee : Fees]
PairRow == [task : Tasks, cycle : Nat, stage : Stages, late : BOOLEAN,
            order : [LegNames -> LegFill], row : [LegNames -> LegRow]]

\* A sequence, of whatever it holds.
IsSeq(s) == s \in Seq({s[i] : i \in DOMAIN s})

PairsTyped == kind \in [Tasks -> Kind] /\ pairs \in Seq(PairRow)
CyclesTyped ==
  /\ IsSeq(cycles)
  /\ \A c \in DOMAIN cycles :
       /\ DOMAIN cycles[c] = {"direction", "closed", "shown"}
       /\ cycles[c].direction \in Directions /\ cycles[c].closed \in BOOLEAN
FinTyped ==
  /\ DOMAIN fin = Tasks
  /\ \A t \in Tasks :
       /\ fin[t] = [pc |-> fin[t].pc, cycle |-> fin[t].cycle, got |-> fin[t].got]
       /\ fin[t].pc \in {"idle", "flat", "close", "read"} /\ IsSeq(fin[t].got)
Typed ==
  /\ PairsTyped /\ CyclesTyped /\ FinTyped
  /\ task \in [Tasks -> TaskRows]
  /\ IsSeq(logs)
  /\ um \in Int /\ cached \subseteq Int
  /\ fill \in [todo : SUBSET Nat, cursor : Nat, failed : SUBSET Nat]

\* What the store knows of a pair in each stage.
StagedPair(p) ==
  /\ p.stage = "sent" => p.order["perp"].qty = 0
  /\ p.stage \in {"sent", "executed"} => ~p.late /\ \A l \in LegNames : p.row[l] = NoRow
  /\ p.stage \in {"settled", "done"} => p.row["perp"].qty = p.order["perp"].qty
Staged == \A i \in Ids : pairs[i].cycle <= Len(cycles) /\ StagedPair(pairs[i])

\* The exchange's position is what the pairs it executed add up to.
Executed == um = Net(Ids)

\* The backfill is after legs that are settled.
Filling ==
  \A id \in fill.todo :
    PairOf(id) \in Ids /\ pairs[PairOf(id)].stage \in {"settled", "done"}

\* The figures, as functions of the kinds and the pairs.
FilledIn(c, type, l, ks, ps) ==
  {i \in DOMAIN ps : ps[i].cycle = c /\ ks[ps[i].task].type = type /\ ps[i].row[l].qty > 0}
QtyOf(is, l, ps) == SumOf([i \in is |-> ps[i].row[l].qty])
QuoteOf(is, l, ps) == SumOf([i \in is |-> ps[i].row[l].quote])
PricedOf(is, l, ps) == {i \in is : ps[i].row[l].quote > 0}
AvgOf(is, l, ps) == IF PricedOf(is, l, ps) = {} THEN NoAvg
                    ELSE <<QuoteOf(is, l, ps), QtyOf(PricedOf(is, l, ps), l, ps)>>
BasisIn(c, type, l, ks, ps) ==
  LET is == FilledIn(c, type, l, ks, ps)
  IN [avg |-> AvgOf(is, l, ps), qty |-> QtyOf(is, l, ps)]
RowIn(c, type, ks, ps) ==
  LET on(l) == FilledIn(c, type, l, ks, ps)
  IN [kind |-> type, spot |-> AvgOf(on("spot"), "spot", ps), perp |-> AvgOf(on("perp"), "perp", ps),
      qty |-> IF type = "open" THEN QtyOf(on("perp"), "perp", ps)
              ELSE QtyOf(on("spot"), "spot", ps),
      unbalanced |-> QtyOf(on("spot"), "spot", ps) # QtyOf(on("perp"), "perp", ps)]
CurveIn(c, ks, ps) ==
  {RowIn(c, type, ks, ps) : type \in
     {ty \in {"open", "close"} : \E l \in LegNames : FilledIn(c, ty, l, ks, ps) # {}}}

\* The four the close log begins with.
Figures(c, ks, ps) ==
  <<BasisIn(c, "open", "perp", ks, ps), BasisIn(c, "close", "perp", ks, ps),
    BasisIn(c, "open", "spot", ks, ps), BasisIn(c, "close", "spot", ks, ps)>>

\* What was read, logged or drawn of a closed cycle still stands, unless a pair of it
\* came late.
NoLate(c, ps) == \A i \in DOMAIN ps : ps[i].cycle = c => ~ps[i].late
Finishes(f, ks, ps, cs) ==
  /\ f.pc \in {"close", "read"} => f.cycle \in DOMAIN cs
  /\ f.pc = "close" => f.got = <<>>
  /\ f.pc = "read" =>
       /\ cs[f.cycle].closed
       /\ NoLate(f.cycle, ps) =>
            \A k \in 1..4 : k <= Len(f.got) => f.got[k] = Figures(f.cycle, ks, ps)[k]
Told(g, ks, ps) ==
  <<g.openPerp, g.closePerp, g.openSpot, g.closeSpot>> = Figures(g.cycle, ks, ps)
LogStands(g, ks, ps, cs) ==
  /\ g.cycle \in DOMAIN cs /\ cs[g.cycle].closed
  /\ NoLate(g.cycle, ps) => Told(g, ks, ps)
Finishing == \A t \in Tasks : Finishes(fin[t], kind, pairs, cycles)
Logged == \A k \in DOMAIN logs : LogStands(logs[k], kind, pairs, cycles)
Drawn ==
  \A c \in DOMAIN cycles :
    cycles[c].closed /\ NoLate(c, pairs) => cycles[c].shown = CurveIn(c, kind, pairs)

Inv == Typed /\ Staged /\ Executed /\ Filling /\ Finishing /\ Logged /\ Drawn

-----------------------------------------------------------------------------
(* Least and greatest numbers.                                             *)

\* A set of numbers that is not empty has a least one.
LEMMA Least ==
  ASSUME NEW S \in SUBSET Nat, NEW top \in S
  PROVE  \E k \in S : \A j \in S : k <= j
<1> DEFINE T == S \cap (0..top)
           Below(k) == {j \in T : j <= k}
           F == {Below(k) : k \in T}
<1>1. IsFiniteSet(T)
  <2>1. IsFiniteSet(0..top)
    BY FS_Interval
  <2> QED BY <2>1, FS_Subset
<1>2. IsWellFoundedOn(StrictSubsetOrdering(T), FiniteSubsetsOf(T))
  BY <1>1, FS_StrictSubsetOrderingWellFounded
<1>3. F \subseteq FiniteSubsetsOf(T) /\ F # {}
  <2>1. \A k \in T : IsFiniteSet(Below(k)) /\ Below(k) \subseteq T
    <3>1. \A k \in T : Below(k) \subseteq T
      OBVIOUS
    <3> QED BY <1>1, <3>1, FS_Subset
  <2>2. top \in T
    OBVIOUS
  <2> HIDE DEF T, Below
  <2> QED BY <2>1, <2>2 DEF FiniteSubsetsOf, F
<1> HIDE DEF F
<1>4. PICK x \in F : \A y \in F : <<y, x>> \notin StrictSubsetOrdering(T)
  BY <1>2, <1>3, WFMin
<1>5. PICK k \in T : x = Below(k)
  BY <1>4 DEF F
<1>6. \A j \in T : k <= j
  <2> SUFFICES ASSUME NEW j \in T, j < k PROVE FALSE
    OBVIOUS
  <2>1. Below(j) \in F
    BY DEF F
  <2>2. Below(j) \subseteq Below(k) /\ k \in Below(k) /\ k \notin Below(j)
    OBVIOUS
  <2>3. Below(j) \subseteq T /\ Below(k) \subseteq T /\ Below(j) # Below(k)
    BY <2>2
  <2>4. <<Below(j), Below(k)>> \in StrictSubsetOrdering(T)
    BY <2>2, <2>3 DEF StrictSubsetOrdering
  <2> QED BY <1>4, <1>5, <2>1, <2>4
<1>7. ASSUME NEW j \in S PROVE k <= j
  <2>1. k <= top /\ k \in Nat /\ j \in Nat /\ top \in Nat
    BY <1>6
  <2>2. CASE j <= top
    BY <1>6, <2>1, <2>2
  <2> QED BY <2>1, <2>2
<1> QED BY <1>7

\* A bounded set of numbers that is not empty has its maximum.
LEMMA Greatest ==
  ASSUME NEW n \in Nat, NEW S \in SUBSET (0..n), S # {}
  PROVE  Max(S) \in S /\ \A y \in S : Max(S) >= y
<1> DEFINE R == {n - y : y \in S}
<1>1. R \in SUBSET Nat
  OBVIOUS
<1>2. PICK z \in S : TRUE
  OBVIOUS
<1>3. n - z \in R
  OBVIOUS
<1> HIDE DEF R
<1>4. PICK k \in R : \A j \in R : k <= j
  BY <1>1, <1>3, Least
<1>5. PICK x \in S : k = n - x
  BY <1>4 DEF R
<1>6. ASSUME NEW y \in S PROVE x >= y
  <2>1. k <= n - y
    BY <1>4 DEF R
  <2> QED BY <1>5, <2>1
<1> QED BY <1>6 DEF Max

\* A least number of a set that has one is in it.
LEMMA LeastIsIn ==
  ASSUME NEW S \in SUBSET Nat, S # {}
  PROVE  Min(S) \in S
<1>1. PICK top \in S : TRUE
  OBVIOUS
<1>2. \E k \in S : \A j \in S : k <= j
  BY Least
<1> QED BY <1>2 DEF Min

-----------------------------------------------------------------------------
(* Sums.                                                                   *)

\* The sum over a set adds the values one by one, in the order of Pick; this is the
\* function MapThenSumSet recurs with.
Pick(s) == CHOOSE x \in s : TRUE
Summed(g, F, s) == IF s = {} THEN 0 ELSE F[Pick(s)] + g[s \ {Pick(s)}]
Equation(g, F, S) == g = [s \in SUBSET S |-> Summed(g, F, s)]
Total(F, S) == MapThenSumSet(LAMBDA i : F[i], S)
Alike(F, G, S) == \A x \in S : F[x] = G[x]

\* What is picked is in the set, and without it the set is smaller.
LEMMA PickShrinks ==
  ASSUME NEW s, IsFiniteSet(s), s # {}
  PROVE  /\ Pick(s) \in s /\ IsFiniteSet(s \ {Pick(s)})
         /\ Cardinality(s) \in Nat /\ Cardinality(s) > 0
         /\ Cardinality(s \ {Pick(s)}) = Cardinality(s) - 1
<1>1. Pick(s) \in s
  BY DEF Pick
<1> HIDE DEF Pick
<1>2. Cardinality(s) \in Nat /\ Cardinality(s) # 0
  BY FS_CardinalityType, FS_EmptySet
<1> QED BY <1>1, <1>2, FS_RemoveElement

\* Two such functions agree where their values do.
LEMMA SumUnique ==
  ASSUME NEW S, IsFiniteSet(S), NEW T, S \subseteq T, NEW F, NEW G,
         Alike(F, G, S),
         NEW g, NEW h, Equation(g, F, S), Equation(h, G, T)
  PROVE  \A s \in SUBSET S : g[s] = h[s]
<1> DEFINE C == {Cardinality(s) : s \in {s \in SUBSET S : g[s] # h[s]}}
<1>1. \A s \in SUBSET S : IsFiniteSet(s) /\ Cardinality(s) \in Nat
  BY FS_Subset, FS_CardinalityType
<1>2. C \in SUBSET Nat
  BY <1>1
<1>3. \A s \in SUBSET S : g[s] = Summed(g, F, s) /\ h[s] = Summed(h, G, s)
  BY DEF Equation
<1>4. SUFFICES ASSUME NEW r \in SUBSET S, g[r] # h[r] PROVE FALSE
  OBVIOUS
<1>5. Cardinality(r) \in C
  BY <1>4
<1> HIDE DEF C
<1>6. PICK k \in C : \A j \in C : k <= j
  BY <1>2, <1>5, Least
<1>7. PICK s \in SUBSET S : g[s] # h[s] /\ k = Cardinality(s)
  BY <1>6 DEF C
<1>8. s # {}
  BY <1>3, <1>7 DEF Summed
<1> DEFINE x == Pick(s)
           u == s \ {x}
<1>9. x \in s /\ Cardinality(u) = k - 1 /\ k \in Nat
  BY <1>1, <1>7, <1>8, PickShrinks
<1>10. g[u] = h[u]
  <2>1. u \in SUBSET S
    OBVIOUS
  <2>2. CASE g[u] # h[u]
    <3>1. Cardinality(u) \in C
      BY <2>1, <2>2 DEF C
    <3> QED BY <1>6, <1>9, <3>1
  <2> QED BY <2>2
<1>11. F[x] = G[x]
  BY <1>9 DEF Alike
<1> QED BY <1>3, <1>7, <1>8, <1>10, <1>11 DEF Summed

\* There is such a function, and its values are numbers like those it adds.
LEMMA SumExists ==
  ASSUME NEW S, IsFiniteSet(S), NEW R, R = Nat \/ R = Int, NEW F, \A x \in S : F[x] \in R
  PROVE  \E g \in [SUBSET S -> R] : Equation(g, F, S)
<1> DEFINE Part(k) == {s \in SUBSET S : Cardinality(s) <= k}
           Solves(g, k) == \A s \in Part(k) : g[s] = Summed(g, F, s)
           Has(k) == \E g \in [Part(k) -> R] : Solves(g, k)
           N == {k \in Nat : ~Has(k)}
<1>1. \A s \in SUBSET S : IsFiniteSet(s) /\ Cardinality(s) \in Nat
  BY FS_Subset, FS_CardinalityType
<1>2. Cardinality(S) \in Nat /\ \A s \in SUBSET S : Cardinality(s) <= Cardinality(S)
  BY <1>1, FS_Subset
<1>3. 0 \in R /\ \A a, b \in R : a + b \in R
  OBVIOUS
<1>4. Has(0)
  <2> DEFINE g == [s \in Part(0) |-> 0]
  <2>1. g \in [Part(0) -> R]
    BY <1>3
  <2>2. ASSUME NEW s \in Part(0) PROVE g[s] = Summed(g, F, s)
    <3>1. s = {}
      <4>1. Cardinality(s) = 0 /\ IsFiniteSet(s)
        BY <1>1
      <4> QED BY <4>1, FS_EmptySet
    <3> QED BY <3>1 DEF Summed
  <2> QED BY <2>1, <2>2
<1>5. ASSUME NEW k \in Nat, Has(k) PROVE Has(k + 1)
  <2>1. PICK g \in [Part(k) -> R] : Solves(g, k)
    BY <1>5
  <2> DEFINE h == [s \in Part(k + 1) |-> Summed(g, F, s)]
  <2>2. ASSUME NEW s \in Part(k + 1), s # {}
        PROVE  Pick(s) \in S /\ s \ {Pick(s)} \in Part(k)
    <3>1. Pick(s) \in s /\ Cardinality(s \ {Pick(s)}) = Cardinality(s) - 1
      BY <1>1, <2>2, PickShrinks
    <3> QED BY <1>1, <3>1
  <2>3. \A s \in Part(k) : s \in Part(k + 1) /\ h[s] = g[s]
    <3>1. \A s \in Part(k) : s \in Part(k + 1)
      BY <1>1
    <3> QED BY <2>1, <3>1
  <2>4. h \in [Part(k + 1) -> R]
    <3>1. ASSUME NEW s \in Part(k + 1) PROVE Summed(g, F, s) \in R
      <4>1. CASE s = {}
        BY <1>3, <4>1 DEF Summed
      <4>2. CASE s # {}
        <5>1. F[Pick(s)] \in R /\ g[s \ {Pick(s)}] \in R
          BY <2>2, <4>2
        <5> QED BY <1>3, <4>2, <5>1 DEF Summed
      <4> QED BY <4>1, <4>2
    <3> QED BY <3>1
  <2>5. ASSUME NEW s \in Part(k + 1) PROVE h[s] = Summed(h, F, s)
    <3>1. CASE s = {}
      BY <3>1 DEF Summed
    <3>2. CASE s # {}
      <4>1. h[s \ {Pick(s)}] = g[s \ {Pick(s)}]
        BY <2>2, <2>3, <3>2
      <4> QED BY <3>2, <4>1 DEF Summed
    <3> QED BY <3>1, <3>2
  <2> QED BY <2>4, <2>5
<1> HIDE DEF Has
<1>6. \A k \in Nat : Has(k)
  <2> SUFFICES ASSUME NEW j \in N PROVE FALSE
    OBVIOUS
  <2>1. PICK k \in N : \A i \in N : k <= i
    <3>1. N \in SUBSET Nat
      OBVIOUS
    <3> HIDE DEF N
    <3> QED BY <3>1, Least
  <2>2. k # 0 /\ k \in Nat
    BY <1>4
  <2>3. Has(k - 1)
    BY <2>1, <2>2
  <2> QED BY <1>5, <2>2, <2>3
<1>7. PICK g \in [Part(Cardinality(S)) -> R] : Solves(g, Cardinality(S))
  BY <1>2, <1>6 DEF Has
<1>8. Part(Cardinality(S)) = SUBSET S
  BY <1>2
<1>9. g \in [SUBSET S -> R] /\ \A s \in SUBSET S : g[s] = Summed(g, F, s)
  BY <1>7, <1>8
<1>10. Equation(g, F, S)
  BY <1>9 DEF Equation
<1> QED BY <1>9, <1>10

\* MapThenSumSet takes one of the functions that satisfy the equation.
LEMMA TotalIsSome ==
  ASSUME NEW S, NEW F, NEW h, Equation(h, F, S)
  PROVE  \E g : Equation(g, F, S) /\ Total(F, S) = g[S]
BY DEF Total, MapThenSumSet, MapThenFoldSet, Equation, Summed, Pick

\* MapThenSumSet returns the value of such a function, also of one over more.
LEMMA TotalIs ==
  ASSUME NEW T, IsFiniteSet(T), NEW F, NEW g, Equation(g, F, T), NEW S \in SUBSET T,
         \A x \in T : F[x] \in Int
  PROVE  Total(F, S) = g[S]
<1>1. IsFiniteSet(S) /\ S \subseteq T /\ \A x \in S : F[x] \in Int
  BY FS_Subset
<1>2. PICK h : Equation(h, F, S)
  BY <1>1, SumExists
<1>3. PICK f : Equation(f, F, S) /\ Total(F, S) = f[S]
  BY <1>2, TotalIsSome
<1>4. \A s \in SUBSET S : f[s] = g[s]
  <2>1. Alike(F, F, S)
    BY DEF Alike
  <2> QED BY <1>1, <1>3, <2>1, SumUnique
<1> QED BY <1>3, <1>4

\* A sum of natural numbers is one, and nothing adds up to nothing.
LEMMA TotalTyped ==
  ASSUME NEW S, IsFiniteSet(S), NEW F, \A x \in S : F[x] \in Nat
  PROVE  Total(F, S) \in Nat /\ Total(F, {}) = 0
<1>1. PICK g \in [SUBSET S -> Nat] : Equation(g, F, S)
  BY SumExists
<1>2. Total(F, S) = g[S] /\ Total(F, {}) = g[{}]
  <2>1. \A x \in S : F[x] \in Int
    OBVIOUS
  <2> QED BY <1>1, <2>1, TotalIs
<1>3. g[{}] = Summed(g, F, {})
  BY <1>1 DEF Equation
<1> QED BY <1>1, <1>2, <1>3 DEF Summed

\* One more member adds its value.
LEMMA TotalAdds ==
  ASSUME NEW S, IsFiniteSet(S), NEW a, a \notin S, NEW F,
         \A x \in S \cup {a} : F[x] \in Int
  PROVE  Total(F, S \cup {a}) = Total(F, S) + F[a]
<1> DEFINE T == S \cup {a}
<1>1. IsFiniteSet(T)
  BY FS_AddElement
<1>2. PICK g \in [SUBSET T -> Int] : Equation(g, F, T)
  BY <1>1, SumExists
<1>3. \A s \in SUBSET T : g[s] = Summed(g, F, s) /\ g[s] \in Int
  BY <1>2 DEF Equation
<1>4. \A s \in SUBSET T : IsFiniteSet(s) /\ Cardinality(s) \in Nat
  BY <1>1, FS_Subset, FS_CardinalityType
<1> DEFINE Adds(s, b) == g[s \cup {b}] = g[s] + F[b]
           C == {Cardinality(s) : s \in {s \in SUBSET T : \E b \in T \ s : ~Adds(s, b)}}
<1>5. \A s \in SUBSET T : \A b \in T \ s : Adds(s, b)
  <2> SUFFICES ASSUME NEW r \in SUBSET T, NEW d \in T \ r, ~Adds(r, d) PROVE FALSE
    OBVIOUS
  <2> HIDE DEF Adds, T
  <2>1. Cardinality(r) \in C
    OBVIOUS
  <2>2. C \in SUBSET Nat
    BY <1>4
  <2> HIDE DEF C
  <2>3. PICK k \in C : \A j \in C : k <= j
    BY <2>1, <2>2, Least
  <2>4. PICK s \in SUBSET T : k = Cardinality(s) /\ \E b \in T \ s : ~Adds(s, b)
    BY <2>3 DEF C
  <2>5. PICK b \in T \ s : ~Adds(s, b)
    BY <2>4
  <2>6. ASSUME NEW t \in SUBSET T, Cardinality(t) < k, NEW e \in T \ t PROVE Adds(t, e)
    <3>1. CASE ~Adds(t, e)
      <4>1. Cardinality(t) \in C
        BY <3>1 DEF C
      <4> QED BY <1>4, <2>3, <2>4, <2>6, <4>1
    <3> QED BY <3>1
  <2> DEFINE u == s \cup {b}
             x == Pick(u)
             t == s \ {x}
  <2>7. u \in SUBSET T /\ u # {} /\ x \in u /\ g[u] = F[x] + g[u \ {x}]
    <3>1. u \in SUBSET T /\ u # {}
      OBVIOUS
    <3>2. x \in u
      BY <1>4, <3>1, PickShrinks
    <3> QED BY <1>3, <3>1, <3>2 DEF Summed
  <2> HIDE DEF x
  <2>8. CASE x = b
    <3>1. u \ {x} = s
      BY <2>8
    <3>2. g[s] \in Int /\ F[b] \in Int
      BY <1>3 DEF T
    <3>3. g[u] = F[b] + g[s]
      BY <2>7, <2>8, <3>1
    <3> QED BY <2>5, <3>2, <3>3 DEF Adds
  <2>9. CASE x # b
    <3>1. x \in s /\ u \ {x} = t \cup {b} /\ s = t \cup {x} /\ t \in SUBSET T
      BY <2>7, <2>9
    <3>2. Cardinality(t) < k
      <4>1. Cardinality(t) = Cardinality(s) - 1
        BY <1>4, <3>1, FS_RemoveElement
      <4> QED BY <1>4, <2>4, <4>1
    <3>3. Adds(t, b) /\ Adds(t, x)
      BY <2>6, <3>1, <3>2
    <3>4. g[t] \in Int /\ F[b] \in Int /\ F[x] \in Int
      BY <1>3, <2>7, <3>1 DEF T
    <3>5. g[u] = F[x] + (g[t] + F[b]) /\ g[s] = g[t] + F[x]
      BY <2>7, <3>1, <3>3 DEF Adds
    <3> QED BY <2>5, <3>4, <3>5 DEF Adds
  <2> QED BY <2>8, <2>9
<1>6. Total(F, T) = g[T] /\ Total(F, S) = g[S]
  BY <1>1, <1>2, TotalIs
<1> QED BY <1>5, <1>6

\* Values outside the set do not matter.
LEMMA TotalSame ==
  ASSUME NEW S, IsFiniteSet(S), NEW F, NEW G, Alike(F, G, S), \A x \in S : F[x] \in Int
  PROVE  Total(F, S) = Total(G, S)
<1>1. PICK g : Equation(g, F, S)
  BY SumExists
<1>2. (\A x \in S : G[x] \in Int) /\ \E h : Equation(h, G, S)
  <2>1. \A x \in S : G[x] \in Int
    BY DEF Alike
  <2> QED BY <2>1, SumExists
<1>5. PICK h : Equation(h, G, S)
  BY <1>2
<1>3. Total(F, S) = g[S] /\ Total(G, S) = h[S]
  BY <1>1, <1>2, <1>5, TotalIs
<1>4. g[S] = h[S]
  BY <1>1, <1>5, SumUnique
<1> QED BY <1>3, <1>4

\* What adds up like the sum is the sum.
Adds(g, F, T) == g[{}] = 0 /\ \A s \in SUBSET T : \A a \in T \ s : g[s \cup {a}] = g[s] + F[a]

LEMMA SumIs ==
  ASSUME NEW T, IsFiniteSet(T), NEW F, \A x \in T : F[x] \in Int, NEW g, Adds(g, F, T)
  PROVE  Total(F, T) = g[T]
<1> DEFINE Good(s) == Total(F, s) = g[s]
           C == {Cardinality(s) : s \in {s \in SUBSET T : ~Good(s)}}
<1>1. \A s \in SUBSET T : IsFiniteSet(s) /\ Cardinality(s) \in Nat
  BY FS_Subset, FS_CardinalityType
<1>2. \A s \in SUBSET T : Good(s)
  <2> SUFFICES ASSUME NEW r \in SUBSET T, ~Good(r) PROVE FALSE
    OBVIOUS
  <2> HIDE DEF Good
  <2>1. Cardinality(r) \in C
    OBVIOUS
  <2>2. C \in SUBSET Nat
    BY <1>1
  <2> HIDE DEF C
  <2>3. PICK k \in C : \A j \in C : k <= j
    BY <2>1, <2>2, Least
  <2>4. PICK s \in SUBSET T : k = Cardinality(s) /\ ~Good(s)
    BY <2>3 DEF C
  <2>5. s # {}
    <3>1. Total(F, {}) = 0
      BY TotalTyped, FS_EmptySet
    <3> QED BY <2>4, <3>1 DEF Good, Adds
  <2>6. PICK a \in s : TRUE
    BY <2>5
  <2> DEFINE u == s \ {a}
  <2>7. /\ u \in SUBSET T /\ a \in T \ u /\ s = u \cup {a}
        /\ Cardinality(u) = Cardinality(s) - 1
    BY <1>1, FS_RemoveElement
  <2> HIDE DEF u
  <2>8. Good(u)
    <3>1. CASE ~Good(u)
      <4>1. Cardinality(u) \in C
        BY <2>7, <3>1 DEF C
      <4> QED BY <1>1, <2>3, <2>4, <2>7, <4>1
    <3> QED BY <3>1
  <2>9. Total(F, s) = Total(F, u) + F[a]
    BY <1>1, <2>7, TotalAdds
  <2>10. g[s] = g[u] + F[a]
    BY <2>7 DEF Adds
  <2> QED BY <2>4, <2>8, <2>9, <2>10 DEF Good
<1> QED BY <1>2
\* A sum of integers is an integer.
LEMMA TotalInt ==
  ASSUME NEW S, IsFiniteSet(S), NEW F, \A x \in S : F[x] \in Int
  PROVE  Total(F, S) \in Int
<1>1. PICK g \in [SUBSET S -> Int] : Equation(g, F, S)
  BY SumExists
<1>2. Total(F, S) = g[S]
  BY <1>1, TotalIs
<1> QED BY <1>1, <1>2

\* Zeros add up to zero.
LEMMA TotalZero ==
  ASSUME NEW S, IsFiniteSet(S), NEW F, \A x \in S : F[x] = 0
  PROVE  Total(F, S) = 0
<1> DEFINE g == [s \in SUBSET S |-> 0]
<1>1. Adds(g, F, S)
  BY DEF Adds
<1>2. \A x \in S : F[x] \in Int
  OBVIOUS
<1>3. Total(F, S) = g[S]
  BY <1>1, <1>2, SumIs
<1> QED BY <1>3

\* A part and the rest of it.
LEMMA TotalSplit ==
  ASSUME NEW S, IsFiniteSet(S), NEW A \in SUBSET S, NEW F, \A x \in S : F[x] \in Int
  PROVE  /\ Total(F, A) \in Int /\ Total(F, S \ A) \in Int
         /\ Total(F, S) = Total(F, A) + Total(F, S \ A)
<1> DEFINE T(s) == Total(F, s)
           g == [s \in SUBSET S |-> T(s \cap A) + T(s \ A)]
<1>1. \A s \in SUBSET S : IsFiniteSet(s) /\ T(s) \in Int
  BY FS_Subset, TotalInt
<1>2. \A s \in SUBSET S : \A a \in S \ s : T(s \cup {a}) = T(s) + F[a]
  BY <1>1, TotalAdds
<1>3. T({}) = 0
  BY TotalZero, FS_EmptySet
<1> HIDE DEF T
<1>4. ASSUME NEW s \in SUBSET S, NEW a \in S \ s PROVE g[s \cup {a}] = g[s] + F[a]
  <2>0. ASSUME NEW u, u \in SUBSET S, a \in S \ u PROVE T(u \cup {a}) = T(u) + F[a]
    BY <1>2, <2>0
  <2>1. /\ s \cap A \in SUBSET S /\ s \ A \in SUBSET S /\ s \cup {a} \in SUBSET S
        /\ T(s \cap A) \in Int /\ T(s \ A) \in Int /\ F[a] \in Int
        /\ a \in S \ (s \cap A) /\ a \in S \ (s \ A)
    BY <1>1
  <2> DEFINE u == s \cup {a}
  <2>4. g[u] = T(u \cap A) + T(u \ A) /\ g[s] = T(s \cap A) + T(s \ A)
    BY <2>1
  <2> HIDE DEF g, u
  <2>5. SUFFICES g[u] = g[s] + F[a]
    BY DEF u
  <2>2. CASE a \in A
    <3>1. u \cap A = (s \cap A) \cup {a} /\ u \ A = s \ A
      BY <2>2 DEF u
    <3>2. T((s \cap A) \cup {a}) = T(s \cap A) + F[a]
      BY <2>0, <2>1
    <3>3. T(u \cap A) = T(s \cap A) + F[a] /\ T(u \ A) = T(s \ A)
      BY <3>1, <3>2, Zenon
    <3> QED BY <2>1, <2>4, <3>3
  <2>3. CASE a \notin A
    <3>1. u \cap A = s \cap A /\ u \ A = (s \ A) \cup {a}
      BY <2>3 DEF u
    <3>2. T((s \ A) \cup {a}) = T(s \ A) + F[a]
      BY <2>0, <2>1
    <3>3. T(u \cap A) = T(s \cap A) /\ T(u \ A) = T(s \ A) + F[a]
      BY <3>1, <3>2, Zenon
    <3> QED BY <2>1, <2>4, <3>3
  <2> QED BY <2>2, <2>3
<1>5. g[{}] = 0
  <2>1. {} \cap A = {} /\ {} \ A = {}
    OBVIOUS
  <2> QED BY <1>3, <2>1
<1>6. g[S] = T(A) + T(S \ A)
  <2>1. S \cap A = A
    OBVIOUS
  <2> QED BY <2>1
<1>7. Total(F, S) = g[S]
  <2>1. Adds(g, F, S)
    BY <1>4, <1>5 DEF Adds
  <2> HIDE DEF g
  <2> QED BY <2>1, SumIs
<1>8. T(A) \in Int /\ T(S \ A) \in Int
  BY <1>1
<1> QED BY <1>6, <1>7, <1>8 DEF T

\* One value changes.
LEMMA TotalChange ==
  ASSUME NEW S, IsFiniteSet(S), NEW k \in S, NEW F, NEW G,
         \A x \in S : F[x] \in Int /\ G[x] \in Int,
         \A x \in S \ {k} : F[x] = G[x]
  PROVE  Total(G, S) = Total(F, S) + (G[k] - F[k])
<1> DEFINE R == S \ {k}
<1>1. IsFiniteSet(R) /\ S = R \cup {k} /\ k \notin R
  BY FS_Subset
<1>2. Alike(F, G, R)
  BY DEF Alike
<1>3. /\ \A x \in R : F[x] \in Int
      /\ \A x \in R \cup {k} : F[x] \in Int
      /\ \A x \in R \cup {k} : G[x] \in Int
  OBVIOUS
<1> HIDE DEF R
<1>4. Total(F, R) = Total(G, R) /\ Total(F, R) \in Int
  BY <1>1, <1>2, <1>3, TotalSame, TotalInt
<1>5. Total(F, S) = Total(F, R) + F[k]
  BY <1>1, <1>3, TotalAdds
<1>6. Total(G, S) = Total(G, R) + G[k]
  BY <1>1, <1>3, TotalAdds
<1> QED BY <1>4, <1>5, <1>6

\* The values of a set's members, gathered by where they belong.
Fiber(h, J, p) == {i \in J : h[i] = p}
LEMMA TotalFibers ==
  ASSUME NEW J, IsFiniteSet(J), NEW P, IsFiniteSet(P), NEW h \in [J -> P],
         NEW F, \A i \in J : F[i] \in Int,
         NEW G, \A p \in P : G[p] = Total(F, Fiber(h, J, p))
  PROVE  Total(G, P) = Total(F, J)
<1> DEFINE At(s, p) == {i \in s : h[i] = p}
           Part(s) == [p \in P |-> Total(F, At(s, p))]
           g == [s \in SUBSET J |-> Total(Part(s), P)]
<1>1. \A s \in SUBSET J : \A p \in P : IsFiniteSet(At(s, p)) /\ At(s, p) \in SUBSET J
  <2>1. \A s \in SUBSET J : \A p \in P : At(s, p) \in SUBSET J
    OBVIOUS
  <2> HIDE DEF At
  <2> QED BY <2>1, FS_Subset
<1>2. \A s \in SUBSET J : \A p \in P : Part(s)[p] \in Int
  BY <1>1, TotalInt
<1>3. g[{}] = 0
  <2>1. \A p \in P : Part({})[p] = 0
    <3>1. \A p \in P : At({}, p) = {}
      OBVIOUS
    <3>2. Total(F, {}) = 0
      BY TotalZero, FS_EmptySet
    <3> QED BY <3>1, <3>2
  <2> HIDE DEF Part
  <2> QED BY <2>1, TotalZero
<1>4. ASSUME NEW s \in SUBSET J, NEW a \in J \ s PROVE g[s \cup {a}] = g[s] + F[a]
  <2> DEFINE u == s \cup {a}
  <2>1. u \in SUBSET J /\ h[a] \in P /\ F[a] \in Int
    OBVIOUS
  <2>2. \A p \in P \ {h[a]} : At(s, p) = At(u, p)
    OBVIOUS
  <2>3. At(u, h[a]) = At(s, h[a]) \cup {a} /\ a \notin At(s, h[a])
    OBVIOUS
  <2>4. Part(u)[h[a]] = Part(s)[h[a]] + F[a]
    <3>1. IsFiniteSet(At(s, h[a])) /\ \A x \in At(s, h[a]) \cup {a} : F[x] \in Int
      BY <1>1, <2>1
    <3>2. Part(u)[h[a]] = Total(F, At(u, h[a])) /\ Part(s)[h[a]] = Total(F, At(s, h[a]))
      BY <2>1
    <3> HIDE DEF At, Part
    <3>3. Total(F, At(s, h[a]) \cup {a}) = Total(F, At(s, h[a])) + F[a]
      BY <2>3, <3>1, TotalAdds
    <3> QED BY <2>3, <3>2, <3>3
  <2>5. \A p \in P \ {h[a]} : Part(s)[p] = Part(u)[p]
    BY <2>2
  <2>6. \A p \in P : Part(s)[p] \in Int /\ Part(u)[p] \in Int
    BY <1>2, <2>1
  <2> HIDE DEF Part, At, u
  <2>7. Total(Part(u), P) = Total(Part(s), P) + (Part(u)[h[a]] - Part(s)[h[a]])
    BY <2>1, <2>5, <2>6, TotalChange
  <2>8. Total(Part(s), P) \in Int
    BY <2>6, TotalInt
  <2>9. g[u] = Total(Part(u), P) /\ g[s] = Total(Part(s), P)
    BY <2>1
  <2> QED BY <2>1, <2>4, <2>6, <2>7, <2>8, <2>9 DEF u
<1>5. Total(F, J) = g[J]
  <2>1. Adds(g, F, J)
    BY <1>3, <1>4 DEF Adds
  <2> HIDE DEF g
  <2> QED BY <2>1, SumIs
<1>6. Total(Part(J), P) = Total(G, P)
  <2>1. Alike(Part(J), G, P) /\ \A p \in P : Part(J)[p] \in Int
    BY <1>2 DEF Alike, Fiber
  <2> HIDE DEF Part
  <2> QED BY <2>1, TotalSame
<1> QED BY <1>5, <1>6

\* A sum with the sign turned, or not.
LEMMA TotalSigned ==
  ASSUME NEW S, IsFiniteSet(S), NEW F, NEW G, NEW e \in {-1, 1},
         \A x \in S : F[x] \in Int /\ G[x] = e * F[x]
  PROVE  Total(G, S) = e * Total(F, S)
<1> DEFINE T(s) == Total(F, s)
           g == [s \in SUBSET S |-> e * T(s)]
<1>1. \A s \in SUBSET S : IsFiniteSet(s) /\ T(s) \in Int
  BY FS_Subset, TotalInt
<1>2. \A s \in SUBSET S : \A a \in S \ s : T(s \cup {a}) = T(s) + F[a]
  BY <1>1, TotalAdds
<1>3. T({}) = 0
  BY TotalZero, FS_EmptySet
<1> HIDE DEF T
<1>4. \A x \in S : G[x] \in Int
  OBVIOUS
<1>5. ASSUME NEW s \in SUBSET S, NEW a \in S \ s PROVE g[s \cup {a}] = g[s] + G[a]
  <2>1. /\ T(s \cup {a}) = T(s) + F[a] /\ T(s) \in Int /\ F[a] \in Int
        /\ g[s \cup {a}] = e * T(s \cup {a}) /\ g[s] = e * T(s) /\ G[a] = e * F[a]
    BY <1>1, <1>2
  <2> HIDE DEF g
  <2>2. CASE e = 1
    BY <2>1, <2>2
  <2>3. CASE e = -1
    BY <2>1, <2>3
  <2> QED BY <2>2, <2>3
<1>6. Adds(g, G, S)
  <2>1. e * 0 = 0
    OBVIOUS
  <2>2. g[{}] = 0
    BY <1>3, <2>1
  <2> HIDE DEF g
  <2> QED BY <1>5, <2>2 DEF Adds
<1>7. g[S] = e * T(S)
  OBVIOUS
<1> HIDE DEF g
<1>8. Total(G, S) = g[S]
  BY <1>4, <1>6, SumIs
<1> QED BY <1>7, <1>8 DEF T
-----------------------------------------------------------------------------
(* Sequences and types.                                                    *)

\* A function on 1..n is a sequence of length n.
LEMMA Sequence ==
  ASSUME NEW S, NEW n \in Nat, NEW s \in [1..n -> S]
  PROVE  s \in Seq(S) /\ Len(s) = n
<1>1. s \in Seq(S)
  BY SeqDef
<1>2. Len(s) \in Nat /\ DOMAIN s = 1..Len(s)
  BY <1>1, LenProperties
<1>3. 1..Len(s) = 1..n
  BY <1>2
<1>4. Len(s) = n
  <2>1. \A k \in Nat : k \in 1..Len(s) <=> k \in 1..n
    BY <1>3
  <2> QED BY <1>2, <2>1
<1> QED BY <1>1, <1>4

\* The positions of a sequence.
LEMMA SeqIndices ==
  ASSUME NEW s, IsSeq(s)
  PROVE  Len(s) \in Nat /\ DOMAIN s = 1..Len(s)
BY LenProperties DEF IsSeq

LEMMA SeqAppend ==
  ASSUME NEW s, IsSeq(s), NEW e
  PROVE  /\ IsSeq(Append(s, e)) /\ Len(s) \in Nat
         /\ Len(Append(s, e)) = Len(s) + 1 /\ DOMAIN Append(s, e) = 1..(Len(s) + 1)
         /\ \A i \in 1..Len(s) : Append(s, e)[i] = s[i]
         /\ Append(s, e)[Len(s) + 1] = e
<1> DEFINE R == {s[i] : i \in DOMAIN s} \cup {e}
           a == Append(s, e)
<1>1. s \in [1..Len(s) -> {s[i] : i \in DOMAIN s}] /\ Len(s) \in Nat /\ DOMAIN s = 1..Len(s)
  BY LenProperties DEF IsSeq
<1>2. s \in [1..Len(s) -> R] /\ e \in R
  BY <1>1
<1> HIDE DEF R
<1>3. s \in Seq(R)
  BY <1>1, <1>2, Sequence
<1>4. /\ a \in Seq(R) /\ Len(a) = Len(s) + 1
      /\ \A i \in 1..Len(s) : a[i] = s[i]
      /\ a[Len(s) + 1] = e
  BY <1>2, <1>3, AppendProperties
<1>5. DOMAIN a = 1..(Len(s) + 1) /\ a \in [1..Len(a) -> R]
  BY <1>4, LenProperties
<1>6. IsSeq(a)
  <2> HIDE DEF a
  <2>1. a \in [1..Len(a) -> {a[i] : i \in DOMAIN a}] /\ Len(a) \in Nat
    BY <1>1, <1>4, <1>5
  <2> QED BY <2>1, Sequence DEF IsSeq
<1> QED BY <1>1, <1>4, <1>5, <1>6

LEMMA SeqExcept ==
  ASSUME NEW s, IsSeq(s), NEW k \in DOMAIN s, NEW e
  PROVE  LET u == [s EXCEPT ![k] = e]
         IN  /\ IsSeq(u) /\ DOMAIN u = DOMAIN s /\ Len(u) = Len(s)
             /\ \A i \in DOMAIN s : u[i] = IF i = k THEN e ELSE s[i]
<1> DEFINE u == [s EXCEPT ![k] = e]
<1>1. Len(s) \in Nat /\ DOMAIN s = 1..Len(s)
  BY SeqIndices
<1>2. DOMAIN u = DOMAIN s /\ \A i \in DOMAIN s : u[i] = IF i = k THEN e ELSE s[i]
  <2>1. s \in [1..Len(s) -> {s[i] : i \in DOMAIN s}]
    BY LenProperties DEF IsSeq
  <2> QED BY <1>1, <2>1
<1>3. u = [i \in DOMAIN s |-> u[i]]
  OBVIOUS
<1> HIDE DEF u
<1>4. u \in [1..Len(s) -> {u[i] : i \in DOMAIN u}]
  BY <1>1, <1>2, <1>3
<1>5. u \in Seq({u[i] : i \in DOMAIN u}) /\ Len(u) = Len(s)
  BY <1>1, <1>4, Sequence
<1> QED BY <1>2, <1>5 DEF u, IsSeq

\* The pairs are numbered, finitely many and of their kind.
LEMMA PairsAre ==
  ASSUME PairsTyped
  PROVE  /\ Len(pairs) \in Nat /\ Ids = 1..Len(pairs) /\ IsFiniteSet(Ids)
         /\ \A i \in Ids :
              /\ pairs[i] \in PairRow /\ pairs[i].task \in Tasks /\ pairs[i].cycle \in Nat
              /\ \A l \in LegNames : /\ pairs[i].row[l] \in LegRow
                                     /\ pairs[i].row[l].qty \in Nat /\ pairs[i].row[l].quote \in Nat
                                     /\ pairs[i].order[l] \in LegFill
                                     /\ pairs[i].order[l].qty \in Nat
<1>1. Len(pairs) \in Nat /\ Ids = 1..Len(pairs)
  BY LenProperties DEF PairsTyped, Ids
<1>2. IsFiniteSet(Ids)
  BY <1>1, FS_Interval
<1>3. \A i \in Ids : pairs[i] \in PairRow
  BY <1>1, ElementOfSeq DEF PairsTyped
<1>4. ASSUME NEW i \in Ids
      PROVE  /\ pairs[i].task \in Tasks /\ pairs[i].cycle \in Nat
             /\ pairs[i].row \in [LegNames -> LegRow] /\ pairs[i].order \in [LegNames -> LegFill]
  BY <1>3 DEF PairRow
<1>5. ASSUME NEW i \in Ids, NEW l \in LegNames
      PROVE  /\ pairs[i].row[l] \in LegRow
             /\ pairs[i].row[l].qty \in Nat /\ pairs[i].row[l].quote \in Nat
             /\ pairs[i].order[l] \in LegFill /\ pairs[i].order[l].qty \in Nat
  <2>1. pairs[i].row[l] \in LegRow /\ pairs[i].order[l] \in LegFill
    BY <1>4
  <2> QED BY <2>1 DEF LegRow, LegFill
<1> QED BY <1>1, <1>2, <1>3, <1>4, <1>5

\* A pair adds to the position or takes from it.
LEMMA SignIs ==
  ASSUME kind \in [Tasks -> Kind], NEW t \in Tasks
  PROVE  Sign(t) \in {-1, 1} /\ \A q \in Nat : Sign(t) * q \in Int /\ Sign(t) * 0 = 0
<1>1. Sign(t) \in {-1, 1}
  BY DEF Sign
<1> HIDE DEF Sign
<1> QED BY <1>1
-----------------------------------------------------------------------------
(* What no step does to the pairs.                                         *)

\* From p to q a pair goes on: its figures stay, or it is settled, and then it is
\* marked late if its cycle is not open.
KeepsFigures(p, q) ==
  /\ q.late = p.late
  /\ \A l \in LegNames : q.row[l].qty = p.row[l].qty /\ q.row[l].quote = p.row[l].quote
Settles(p, q, open) == ~p.late /\ q.late = ~open
KeepsFees(p, q) == \A l \in LegNames : p.row[l].fee # NoFee => q.row[l].fee = p.row[l].fee
GoesOn(p, q, open) ==
  /\ q.task = p.task /\ q.cycle = p.cycle
  /\ p.stage \in {"settled", "done"} => q.stage \in {"settled", "done"}
  /\ KeepsFees(p, q)
  /\ KeepsFigures(p, q) \/ Settles(p, q, open)
Blank(p) == ~p.late /\ \A l \in LegNames : p.row[l].qty = 0

Steady ==
  /\ PairsTyped' /\ Staged' /\ Executed' /\ kind' = kind
  /\ \A i \in Ids : i \in Ids' /\ GoesOn(pairs[i], pairs'[i], OpenCycle(pairs[i].cycle))
  /\ \A i \in Ids' \ Ids : Blank(pairs'[i])

\* What a pair adds to the position.
Value(p) == Sign(p.task) * p.order["perp"].qty

LEMMA SumOfIs == \A f : SumOf(f) = Total(f, DOMAIN f)
BY DEF SumOf, Total

LEMMA NetIs == \A is : Net(is) = Total([i \in is |-> Value(pairs[i])], is)
BY SumOfIs DEF Net, Value

LEMMA NetNext ==
  ASSUME kind' = kind
  PROVE  Net(Ids)' = Total([i \in Ids' |-> Value(pairs'[i])], Ids')
<1>1. Net(Ids)' = SumOf([i \in Ids' |-> Value(pairs'[i])])
  BY DEF Net, Value, Sign
<1> QED BY <1>1, SumOfIs

\* A step that leaves the pairs alone.
LEMMA PairsStay ==
  ASSUME PairsTyped, Staged, Executed, UNCHANGED <<kind, pairs, um>>,
         Len(cycles) \in Nat, Len(cycles') \in Nat, Len(cycles) <= Len(cycles')
  PROVE  Steady
<1>1. Ids' = Ids /\ \A i \in Ids : pairs'[i] = pairs[i]
  BY DEF Ids
<1>2. \A i \in Ids : pairs[i].cycle \in Nat
  BY PairsAre
<1>3. PairsTyped'
  BY DEF PairsTyped
<1>4. Staged'
  BY <1>1, <1>2 DEF Staged
<1>5. Executed'
  <2>1. Net(Ids)' = Net(Ids)
    BY <1>1, NetIs, NetNext
  <2> QED BY <2>1 DEF Executed
<1>6. \A i \in Ids : GoesOn(pairs[i], pairs'[i], OpenCycle(pairs[i].cycle))
  BY <1>1 DEF GoesOn, KeepsFigures, KeepsFees
<1> QED BY <1>1, <1>3, <1>4, <1>5, <1>6 DEF Steady

\* A step that moves one pair.
LEMMA PairMoves ==
  ASSUME PairsTyped, Staged, Executed, UNCHANGED <<kind, cycles>>,
         NEW i \in Ids, NEW q \in PairRow, pairs' = [pairs EXCEPT ![i] = q],
         um' = um + (Value(q) - Value(pairs[i])),
         StagedPair(q), GoesOn(pairs[i], q, OpenCycle(pairs[i].cycle))
  PROVE  Steady
<1>1. /\ Len(pairs) \in Nat /\ Ids = 1..Len(pairs) /\ IsFiniteSet(Ids)
      /\ \A j \in Ids : /\ pairs[j] \in PairRow /\ pairs[j].task \in Tasks
                        /\ pairs[j].order["perp"].qty \in Nat
  BY PairsAre DEF LegNames
<1>2. /\ pairs' \in Seq(PairRow) /\ Len(pairs') = Len(pairs)
      /\ \A j \in Ids : pairs'[j] = IF j = i THEN q ELSE pairs[j]
  BY <1>1, ExceptSeq DEF PairsTyped
<1>3. Ids' = Ids
  BY <1>1, <1>2, LenProperties DEF Ids
<1>4. PairsTyped'
  BY <1>2 DEF PairsTyped
<1>5. q.task = pairs[i].task /\ q.cycle = pairs[i].cycle /\ q.order["perp"].qty \in Nat
  BY DEF GoesOn, PairRow, LegNames, LegFill
<1>6. Staged'
  BY <1>2, <1>3, <1>5 DEF Staged
<1>7. \A j \in Ids : GoesOn(pairs[j], pairs'[j], OpenCycle(pairs[j].cycle))
  BY <1>2 DEF GoesOn, KeepsFigures, KeepsFees
<1>8. Executed'
  <2> DEFINE F == [j \in Ids |-> Value(pairs[j])]
             G == [j \in Ids |-> Value(pairs'[j])]
  <2>1. kind \in [Tasks -> Kind]
    BY DEF PairsTyped
  <2>2. \A j \in Ids : F[j] \in Int /\ G[j] \in Int
    <3>1. ASSUME NEW j \in Ids PROVE Value(pairs[j]) \in Int
      BY <1>1, <2>1, SignIs DEF Value
    <3>2. Value(q) \in Int
      BY <1>1, <1>5, <2>1, SignIs DEF Value
    <3> QED BY <1>2, <3>1, <3>2
  <2>3. \A j \in Ids \ {i} : F[j] = G[j]
    BY <1>2
  <2>4. F[i] = Value(pairs[i]) /\ G[i] = Value(q)
    BY <1>2
  <2>5. Net(Ids) = Total(F, Ids)
    BY NetIs
  <2>6. Net(Ids)' = Total(G, Ids)
    BY <1>3, NetNext
  <2> HIDE DEF F, G
  <2>7. Total(G, Ids) = Total(F, Ids) + (G[i] - F[i])
    BY <1>1, <2>2, <2>3, TotalChange
  <2> QED BY <2>4, <2>5, <2>6, <2>7 DEF Executed
<1> QED BY <1>3, <1>4, <1>6, <1>7, <1>8 DEF Steady
\* A step that sends a new pair.
LEMMA PairJoins ==
  ASSUME PairsTyped, Staged, Executed, UNCHANGED <<kind, um>>,
         Len(cycles) \in Nat, Len(cycles') \in Nat, Len(cycles) <= Len(cycles'),
         NEW q \in PairRow, pairs' = Append(pairs, q), q.cycle <= Len(cycles'),
         q.stage = "sent", StagedPair(q), Blank(q)
  PROVE  Steady
<1> DEFINE n == Len(pairs) + 1
<1>1. /\ Len(pairs) \in Nat /\ Ids = 1..Len(pairs) /\ IsFiniteSet(Ids)
      /\ \A j \in Ids : /\ pairs[j] \in PairRow /\ pairs[j].task \in Tasks
                        /\ pairs[j].cycle \in Nat /\ pairs[j].order["perp"].qty \in Nat
  BY PairsAre DEF LegNames
<1>2. /\ pairs' \in Seq(PairRow) /\ Len(pairs') = n
      /\ \A j \in Ids : pairs'[j] = pairs[j]
      /\ pairs'[n] = q
  BY <1>1, AppendProperties DEF PairsTyped
<1>3. Ids' = Ids \cup {n} /\ n \notin Ids
  <2>1. Ids' = 1..n
    BY <1>2, LenProperties DEF Ids
  <2> QED BY <1>1, <2>1
<1> HIDE DEF n
<1>4. PairsTyped'
  BY <1>2 DEF PairsTyped
<1>5. Staged'
  <2>1. \A j \in Ids : pairs[j].cycle <= Len(cycles')
    BY <1>1 DEF Staged
  <2>2. \A j \in Ids' : j \in Ids \/ j = n
    BY <1>3
  <2> QED BY <1>2, <2>1, <2>2 DEF Staged
<1>6. \A j \in Ids : j \in Ids' /\ GoesOn(pairs[j], pairs'[j], OpenCycle(pairs[j].cycle))
  BY <1>2, <1>3 DEF GoesOn, KeepsFigures, KeepsFees
<1>7. \A j \in Ids' \ Ids : Blank(pairs'[j])
  BY <1>2, <1>3
<1>8. Executed'
  <2> DEFINE F == [j \in Ids |-> Value(pairs[j])]
             G == [j \in Ids' |-> Value(pairs'[j])]
  <2>1. kind \in [Tasks -> Kind] /\ q.task \in Tasks
    BY DEF PairsTyped, PairRow
  <2>2. Value(q) = 0
    <3>1. q.order["perp"].qty = 0
      BY DEF StagedPair
    <3> QED BY <2>1, <3>1, SignIs DEF Value
  <2>3. \A j \in Ids : Value(pairs[j]) \in Int
    BY <1>1, <2>1, SignIs DEF Value
  <2>4. /\ \A j \in Ids : F[j] \in Int
        /\ \A j \in Ids \cup {n} : G[j] \in Int
        /\ Alike(F, G, Ids) /\ G[n] = 0
    <3>1. \A j \in Ids : F[j] = Value(pairs[j]) /\ G[j] = Value(pairs[j])
      BY <1>2, <1>3
    <3>2. G[n] = 0
      BY <1>2, <1>3, <2>2
    <3> HIDE DEF F, G
    <3> QED BY <2>3, <3>1, <3>2 DEF Alike
  <2>5. Net(Ids) = Total(F, Ids) /\ Net(Ids)' = Total(G, Ids')
    BY NetIs, NetNext
  <2> HIDE DEF F, G
  <2>6. Total(G, Ids \cup {n}) = Total(G, Ids) + G[n]
    BY <1>1, <1>3, <2>4, TotalAdds
  <2>7. Total(F, Ids) = Total(G, Ids) /\ Total(F, Ids) \in Int
    BY <1>1, <2>4, TotalSame, TotalInt
  <2> QED BY <1>3, <2>4, <2>5, <2>6, <2>7 DEF Executed
<1> QED BY <1>3, <1>4, <1>5, <1>6, <1>7, <1>8 DEF Steady

-----------------------------------------------------------------------------
(* Each action's pairs.                                                    *)

LEMMA NewPair ==
  ASSUME NEW t \in Tasks, NEW c \in Nat
  PROVE  /\ Pair(t, c) \in PairRow /\ Pair(t, c).cycle = c /\ Pair(t, c).task = t
         /\ Pair(t, c).stage = "sent"
         /\ StagedPair(Pair(t, c)) /\ Blank(Pair(t, c))
<1>1. NoFee \in Fees /\ NoLegFill \in LegFill
  BY DEF NoFee, Fees, NoLegFill, LegFill
<1>2. NoRow \in LegRow /\ NoRow.qty = 0
  BY <1>1 DEF NoRow, LegRow
<1>3. /\ [l \in LegNames |-> NoLegFill] \in [LegNames -> LegFill]
      /\ [l \in LegNames |-> NoRow] \in [LegNames -> LegRow]
  BY <1>1, <1>2
<1>4. Pair(t, c) \in PairRow
  BY <1>3 DEF Pair, PairRow, Stages
<1>5. NoLegFill.qty = 0 /\ "perp" \in LegNames
  BY DEF NoLegFill, LegNames
<1> QED BY <1>2, <1>4, <1>5 DEF Pair, StagedPair, Blank

\* The number of the latest active cycle is one of theirs.
LEMMA LatestActive ==
  ASSUME CyclesTyped, NEW d, ActiveCycles(d) # {}
  PROVE  Max(ActiveCycles(d)) \in ActiveCycles(d)
<1>1. Len(cycles) \in Nat /\ DOMAIN cycles = 1..Len(cycles)
  BY SeqIndices DEF CyclesTyped
<1>2. ActiveCycles(d) \in SUBSET (0..Len(cycles))
  BY <1>1 DEF ActiveCycles
<1> QED BY <1>1, <1>2, Greatest

\* What happens to cycles: they stay what they are once they are closed.
CyclesGrow ==
  /\ CyclesTyped'
  /\ \A c \in DOMAIN cycles : /\ c \in DOMAIN cycles'
                              /\ cycles[c].closed => cycles'[c] = cycles[c]

LEMMA CyclesStay ==
  ASSUME CyclesTyped, UNCHANGED cycles
  PROVE  CyclesGrow /\ Len(cycles) \in Nat /\ Len(cycles') \in Nat /\ Len(cycles) <= Len(cycles')
BY SeqIndices DEF CyclesTyped, CyclesGrow

LEMMA DispatchPairs ==
  ASSUME Typed, Staged, Executed, NEW t \in Tasks, Dispatch(t)
  PROVE  /\ Steady /\ CyclesGrow
         /\ \A c \in DOMAIN cycles' \ DOMAIN cycles : ~cycles'[c].closed
         /\ \A c \in DOMAIN cycles : cycles'[c] = cycles[c]
<1>1. /\ UNCHANGED <<kind, um>> /\ PairsTyped /\ CyclesTyped
      /\ Len(cycles) \in Nat /\ DOMAIN cycles = 1..Len(cycles)
  BY SeqIndices DEF Dispatch, Typed, CyclesTyped
<1> DEFINE d == kind[t].direction
<1>2. d \in Directions
  BY <1>1 DEF PairsTyped, Kind
<1>3. CASE ActiveCycles(d) # {}
  <2>1. /\ pairs' = Append(pairs, Pair(t, Max(ActiveCycles(d)))) /\ UNCHANGED cycles
    BY <1>3 DEF Dispatch, BookPair
  <2>2. Max(ActiveCycles(d)) \in DOMAIN cycles
    BY <1>1, <1>3, LatestActive DEF ActiveCycles
  <2>3. CyclesGrow
    BY <1>1, <2>1, CyclesStay
  <2>4. Steady
    <3> DEFINE c == Max(ActiveCycles(d))
    <3>1. c \in Nat /\ c <= Len(cycles')
      BY <1>1, <2>1, <2>2
    <3> HIDE DEF c
    <3> QED BY <1>1, <2>1, <3>1, NewPair, PairJoins DEF c
  <2> QED BY <2>1, <2>3, <2>4
<1>4. CASE ActiveCycles(d) = {}
  <2> DEFINE c == Len(cycles) + 1
  <2>1. pairs' = Append(pairs, Pair(t, c)) /\ cycles' = Append(cycles, NewCycle(d))
    BY <1>4 DEF Dispatch, BookPair
  <2>2. /\ IsSeq(cycles') /\ Len(cycles') = c /\ DOMAIN cycles' = 1..c
        /\ \A k \in DOMAIN cycles : cycles'[k] = cycles[k]
        /\ cycles'[c] = NewCycle(d)
    BY <1>1, <2>1, SeqAppend DEF CyclesTyped
  <2>3. /\ DOMAIN NewCycle(d) = {"direction", "closed", "shown"}
        /\ NewCycle(d).direction \in Directions /\ NewCycle(d).closed = FALSE
    BY <1>2 DEF NewCycle
  <2>4. c \in Nat /\ \A k \in 1..c : k \in DOMAIN cycles \/ k = c
    BY <1>1
  <2> HIDE DEF c
  <2>5. CyclesTyped'
    BY <1>1, <2>2, <2>3, <2>4 DEF CyclesTyped
  <2>6. \A k \in DOMAIN cycles : k \in DOMAIN cycles'
    BY <1>1, <2>2, <2>4 DEF c
  <2>7. CyclesGrow
    BY <2>2, <2>5, <2>6 DEF CyclesGrow
  <2>8. Steady
    <3>1. Len(cycles) <= Len(cycles') /\ Len(cycles') \in Nat /\ c <= Len(cycles')
      BY <1>1, <2>2, <2>4 DEF c
    <3>2. /\ Pair(t, c) \in PairRow /\ Pair(t, c).cycle = c
          /\ Pair(t, c).stage = "sent" /\ StagedPair(Pair(t, c)) /\ Blank(Pair(t, c))
      BY <2>4, NewPair
    <3> QED BY <1>1, <2>1, <3>1, <3>2, PairJoins
  <2>9. \A k \in DOMAIN cycles' \ DOMAIN cycles : ~cycles'[k].closed
    BY <2>2, <2>3, <2>4
  <2> QED BY <2>2, <2>7, <2>8, <2>9
<1> QED BY <1>3, <1>4
LEMMA ExecutePairs ==
  ASSUME Typed, Staged, Executed, NEW i \in Ids, Execute(i)
  PROVE  Steady /\ um' \in Int
<1> DEFINE p == pairs[i]
<1>1. PICK r \in Results :
        /\ pairs' = [pairs EXCEPT ![i].stage = "executed", ![i].order = r]
        /\ um' = um + Sign(p.task) * r["perp"].qty
  BY DEF Execute
<1>2. PairsTyped /\ p \in PairRow /\ p.task \in Tasks /\ UNCHANGED <<kind, cycles>> /\ um \in Int
  BY PairsAre DEF Typed, Execute
<1>3. p.stage = "sent" /\ StagedPair(p)
  BY DEF Execute, Staged
<1> DEFINE q == [p EXCEPT !.stage = "executed", !.order = r]
<1>4. r \in [LegNames -> LegFill]
  BY CyclesAssumption
<1>5. pairs' = [pairs EXCEPT ![i] = q]
  BY <1>1, <1>2
<1> HIDE DEF p
<1>6. /\ q \in PairRow /\ q.task = p.task /\ q.cycle = p.cycle /\ q.stage = "executed"
      /\ q.order = r /\ q.row = p.row /\ q.late = p.late
  BY <1>2, <1>4 DEF PairRow, Stages
<1> HIDE DEF q
<1>7. StagedPair(q) /\ GoesOn(p, q, OpenCycle(p.cycle))
  BY <1>3, <1>6 DEF StagedPair, GoesOn, KeepsFees, KeepsFigures
<1>8. r["perp"].qty \in Nat
  <2>1. r["perp"] \in LegFill
    BY <1>4 DEF LegNames
  <2> QED BY <2>1 DEF LegFill
<1>9. Value(q) \in Int /\ um' = um + (Value(q) - Value(p))
  <2>1. kind \in [Tasks -> Kind] /\ p.order["perp"].qty = 0
    BY <1>2, <1>3 DEF PairsTyped, StagedPair
  <2>2. Value(p) = 0 /\ Value(q) \in Int /\ Value(q) = Sign(p.task) * r["perp"].qty
    BY <1>2, <1>6, <1>8, <2>1, SignIs DEF Value
  <2> QED BY <1>1, <1>2, <2>2
<1>10. Steady
  BY <1>2, <1>5, <1>6, <1>7, <1>9, PairMoves DEF p
<1>11. Value(p) = 0
  <2>1. kind \in [Tasks -> Kind] /\ p.order["perp"].qty = 0
    BY <1>2, <1>3 DEF PairsTyped, StagedPair
  <2> QED BY <1>2, <2>1, SignIs DEF Value
<1>12. um' \in Int
  BY <1>2, <1>9, <1>11
<1> QED BY <1>10, <1>12

\* A step that keeps what the pair's order adds to the position.
LEMMA PairMovesOnly ==
  ASSUME PairsTyped, Staged, Executed, um \in Int, UNCHANGED <<kind, cycles, um>>,
         NEW i \in Ids, NEW q \in PairRow, pairs' = [pairs EXCEPT ![i] = q],
         q.order = pairs[i].order,
         StagedPair(q), GoesOn(pairs[i], q, OpenCycle(pairs[i].cycle))
  PROVE  Steady
<1>1. Value(q) = Value(pairs[i])
  BY DEF Value, GoesOn
<1>2. Value(pairs[i]) \in Int
  BY PairsAre, SignIs DEF Value, PairsTyped, LegNames
<1>3. um' = um + (Value(q) - Value(pairs[i]))
  BY <1>1, <1>2
<1> QED BY <1>3, PairMoves

LEMMA SettlePairs ==
  ASSUME Typed, Staged, Executed, NEW i \in Ids, Settle(i)
  PROVE  Steady
<1> DEFINE p == pairs[i]
           row == [l \in LegNames |-> Row(p.order[l], NoFee)]
           q == [p EXCEPT !.stage = "settled", !.late = ~OpenCycle(p.cycle), !.row = row]
<1>1. pairs' = [pairs EXCEPT ![i].stage = "settled", ![i].late = ~OpenCycle(p.cycle),
                  ![i].row = row]
  BY DEF Settle
<1>2. /\ PairsTyped /\ p \in PairRow /\ UNCHANGED <<kind, cycles, um>> /\ um \in Int
      /\ \A l \in LegNames : p.order[l] \in LegFill
  BY PairsAre DEF Typed, Settle
<1>3. p.stage = "executed" /\ StagedPair(p)
  BY DEF Settle, Staged
<1>4. pairs' = [pairs EXCEPT ![i] = q]
  BY <1>1, <1>2
<1>5. row \in [LegNames -> LegRow] /\ row["perp"].qty = p.order["perp"].qty
  <2>1. NoFee \in Fees
    BY DEF NoFee, Fees
  <2>2. \A l \in LegNames : Row(p.order[l], NoFee) \in LegRow
    BY <1>2, <2>1 DEF Row, LegRow, LegFill
  <2>3. "perp" \in LegNames
    BY DEF LegNames
  <2> QED BY <2>2, <2>3 DEF Row
<1>6. OpenCycle(p.cycle) \in BOOLEAN
  BY DEF OpenCycle
<1> HIDE DEF p, row
<1>7. /\ q \in PairRow /\ q.task = p.task /\ q.cycle = p.cycle /\ q.stage = "settled"
      /\ q.order = p.order /\ q.row = row /\ q.late = ~OpenCycle(p.cycle)
  BY <1>2, <1>5, <1>6 DEF PairRow, Stages
<1> HIDE DEF q
<1>8. StagedPair(q)
  BY <1>5, <1>7 DEF StagedPair
<1>9. \A l \in LegNames : p.row[l].fee = NoFee
  BY <1>3 DEF StagedPair, NoRow
<1>10. GoesOn(p, q, OpenCycle(p.cycle))
  <2>1. KeepsFees(p, q)
    BY <1>9 DEF KeepsFees
  <2>2. Settles(p, q, OpenCycle(p.cycle))
    BY <1>3, <1>7 DEF StagedPair, Settles
  <2> QED BY <1>3, <1>7, <2>1, <2>2 DEF GoesOn
<1> QED BY <1>2, <1>4, <1>7, <1>8, <1>10, PairMovesOnly DEF p

\* The columns of a fee, and what writing them leaves alone.
LEMMA FeesAre ==
  ASSUME NEW a \in Answer
  PROVE  FeeColumns(a) \in Fees
<1> DEFINE others == a.assets \ {"BNB"}
           other == IF others \in {{"USDT"}, {"base"}} THEN CHOOSE x \in others : TRUE ELSE None
<1>1. a.assets \in SUBSET Assets /\ a.priced \in BOOLEAN
  BY DEF Answer
<1>2. other \in {None} \cup Assets
  <2>1. CASE others = {"USDT"}
    BY <2>1 DEF Assets
  <2>2. CASE others = {"base"}
    BY <2>2 DEF Assets
  <2>3. CASE others \notin {{"USDT"}, {"base"}}
    BY <2>3
  <2> QED BY <2>1, <2>2, <2>3
<1>3. NoFee \in Fees
  BY DEF NoFee, Fees
<1> HIDE DEF other
<1>4. [bnb |-> "BNB" \in a.assets, price |-> "BNB" \in a.assets /\ a.priced,
       other |-> other] \in Fees
  BY <1>1, <1>2 DEF Fees
<1> QED BY <1>3, <1>4 DEF FeeColumns, other

LEMMA UpdateKeeps ==
  ASSUME NEW row \in LegRow, NEW fee \in Fees
  PROVE  /\ UpdateLegFees(row, fee) \in LegRow
         /\ UpdateLegFees(row, fee).qty = row.qty /\ UpdateLegFees(row, fee).quote = row.quote
         /\ row.fee # NoFee => UpdateLegFees(row, fee).fee = row.fee
BY DEF UpdateLegFees, LegRow

\* A step that only writes fees, and moves the pair on.
LEMMA FeesWritten ==
  ASSUME Typed, Staged, Executed, UNCHANGED <<kind, cycles, um>>, NEW i \in Ids,
         NEW stage \in {"settled", "done"}, NEW row \in [LegNames -> LegRow],
         pairs[i].stage \in {"settled", "done"},
         pairs' = [pairs EXCEPT ![i] = [pairs[i] EXCEPT !.stage = stage, !.row = row]],
         \A l \in LegNames : /\ row[l].qty = pairs[i].row[l].qty
                             /\ row[l].quote = pairs[i].row[l].quote
                             /\ pairs[i].row[l].fee # NoFee => row[l].fee = pairs[i].row[l].fee
  PROVE  Steady
<1> DEFINE p == pairs[i]
           q == [p EXCEPT !.stage = stage, !.row = row]
<1>1. p \in PairRow /\ PairsTyped /\ um \in Int /\ StagedPair(p)
  BY PairsAre DEF Typed, Staged
<1>2. pairs' = [pairs EXCEPT ![i] = q]
  OBVIOUS
<1>3. /\ p.stage \in {"settled", "done"}
      /\ \A l \in LegNames : /\ row[l].qty = p.row[l].qty /\ row[l].quote = p.row[l].quote
                             /\ p.row[l].fee # NoFee => row[l].fee = p.row[l].fee
  OBVIOUS
<1> HIDE DEF p
<1>4. /\ q \in PairRow /\ q.task = p.task /\ q.cycle = p.cycle /\ q.stage = stage
      /\ q.order = p.order /\ q.row = row /\ q.late = p.late
  BY <1>1 DEF PairRow, Stages
<1> HIDE DEF q
<1>5. "perp" \in LegNames
  BY DEF LegNames
<1>6. StagedPair(q)
  BY <1>1, <1>3, <1>4, <1>5 DEF StagedPair
<1>7. GoesOn(p, q, OpenCycle(p.cycle))
  <2>1. KeepsFees(p, q)
    BY <1>3, <1>4 DEF KeepsFees
  <2>2. KeepsFigures(p, q)
    BY <1>3, <1>4 DEF KeepsFigures
  <2> QED BY <1>4, <2>1, <2>2 DEF GoesOn
<1> QED BY <1>1, <1>2, <1>4, <1>6, <1>7, PairMovesOnly DEF p

LEMMA FetchPairs ==
  ASSUME Typed, Staged, Executed, NEW i \in Ids, FetchFees(i)
  PROVE  Steady
<1> DEFINE p == pairs[i]
<1>1. PICK a \in Answers :
        pairs' = [pairs EXCEPT ![i].stage = "done",
                    ![i].row = [l \in LegNames |->
                                  IF LegsMissingFee(p.row[l])
                                  THEN UpdateLegFees(p.row[l], FeeColumns(a[l])) ELSE p.row[l]]]
  <2>1. i \in DOMAIN pairs /\ pairs[i] \in PairRow
    BY PairsAre DEF Typed, Ids
  <2> QED BY <2>1 DEF FetchFees, PairRow
<1>2. p \in PairRow /\ \A l \in LegNames : p.row[l] \in LegRow /\ a[l] \in Answer
  BY PairsAre, CyclesAssumption DEF Typed
<1> DEFINE row == [l \in LegNames |-> IF LegsMissingFee(p.row[l])
                                      THEN UpdateLegFees(p.row[l], FeeColumns(a[l])) ELSE p.row[l]]
<1>3. ASSUME NEW l \in LegNames
      PROVE  /\ row[l] \in LegRow
             /\ row[l].qty = p.row[l].qty /\ row[l].quote = p.row[l].quote
             /\ p.row[l].fee # NoFee => row[l].fee = p.row[l].fee
  <2>1. FeeColumns(a[l]) \in Fees
    BY <1>2, FeesAre
  <2>2. /\ UpdateLegFees(p.row[l], FeeColumns(a[l])) \in LegRow
        /\ UpdateLegFees(p.row[l], FeeColumns(a[l])).qty = p.row[l].qty
        /\ UpdateLegFees(p.row[l], FeeColumns(a[l])).quote = p.row[l].quote
        /\ p.row[l].fee # NoFee => UpdateLegFees(p.row[l], FeeColumns(a[l])).fee = p.row[l].fee
    BY <1>2, <2>1, UpdateKeeps
  <2> QED BY <1>2, <2>2
<1>4. row \in [LegNames -> LegRow]
  BY <1>3
<1>5. pairs' = [pairs EXCEPT ![i] = [pairs[i] EXCEPT !.stage = "done", !.row = row]]
  BY <1>1, <1>2
<1>6. UNCHANGED <<kind, cycles, um>> /\ pairs[i].stage \in {"settled", "done"}
  BY DEF FetchFees
<1> HIDE DEF row
<1> QED BY <1>3, <1>4, <1>5, <1>6, FeesWritten

\* The leg the backfill is at.
LEMMA FillingLeg ==
  ASSUME Typed, Filling, fill.todo # {}
  PROVE  LET id == Min(fill.todo)
         IN  /\ id \in fill.todo /\ id \in Nat /\ PairOf(id) \in Ids /\ LegOf(id) \in LegNames
             /\ pairs[PairOf(id)].stage \in {"settled", "done"}
<1>1. fill.todo \in SUBSET Nat
  BY DEF Typed
<1>2. Min(fill.todo) \in fill.todo
  BY <1>1, LeastIsIn
<1> QED BY <1>1, <1>2 DEF Filling, LegOf, LegNames

LEMMA BackfillPairs ==
  ASSUME Typed, Staged, Executed, Filling, BackfillLeg
  PROVE  Steady
<1> DEFINE i == PairOf(Min(fill.todo))
           l == LegOf(Min(fill.todo))
           p == pairs[i]
<1>1. /\ i \in Ids /\ l \in LegNames /\ p.stage \in {"settled", "done"}
      /\ UNCHANGED <<kind, cycles, um>> /\ PairsTyped
  BY FillingLeg DEF BackfillLeg, Typed
<1>2. PICK a \in {answers[l] : answers \in Answers} :
        IF a.says = "limited" THEN UNCHANGED pairs
        ELSE pairs' = [pairs EXCEPT ![i].row[l] = UpdateLegFees(@, FeeColumns(a))]
  BY DEF BackfillLeg
<1>3. CASE a.says = "limited"
  <2>1. Len(cycles) \in Nat
    BY SeqIndices DEF Typed, CyclesTyped
  <2> QED BY <1>1, <1>2, <1>3, <2>1, PairsStay
<1>4. CASE a.says # "limited"
  <2>1. a \in Answer /\ p \in PairRow /\ \A m \in LegNames : p.row[m] \in LegRow
    BY <1>1, PairsAre, CyclesAssumption
  <2>2. pairs' = [pairs EXCEPT ![i].row[l] = UpdateLegFees(p.row[l], FeeColumns(a))]
    BY <1>1, <1>2, <1>4, <2>1 DEF PairRow
  <2> DEFINE fee == UpdateLegFees(p.row[l], FeeColumns(a))
             row == [p.row EXCEPT ![l] = fee]
  <2>3. /\ fee \in LegRow /\ fee.qty = p.row[l].qty /\ fee.quote = p.row[l].quote
        /\ p.row[l].fee # NoFee => fee.fee = p.row[l].fee
    BY <1>1, <2>1, FeesAre, UpdateKeeps
  <2>4. pairs' = [pairs EXCEPT ![i] = [p EXCEPT !.stage = p.stage, !.row = row]]
    BY <1>1, <2>1, <2>2 DEF PairRow
  <2> HIDE DEF fee
  <2>5. p.row \in [LegNames -> LegRow]
    BY <2>1 DEF PairRow
  <2> HIDE DEF p
  <2>6. /\ row \in [LegNames -> LegRow]
        /\ \A m \in LegNames : row[m] = IF m = l THEN fee ELSE p.row[m]
    BY <1>1, <2>3, <2>5
  <2> HIDE DEF row
  <2>7. \A m \in LegNames : /\ row[m].qty = p.row[m].qty /\ row[m].quote = p.row[m].quote
                            /\ p.row[m].fee # NoFee => row[m].fee = p.row[m].fee
    BY <2>3, <2>6
  <2> QED BY <1>1, <2>4, <2>6, <2>7, FeesWritten DEF p
<1> QED BY <1>3, <1>4

LEMMA CrashPairs ==
  ASSUME Typed, Staged, Executed, Crash
  PROVE  Steady
<1>1. /\ PairsTyped /\ UNCHANGED <<kind, cycles, um>>
      /\ Len(pairs) \in Nat /\ Ids = 1..Len(pairs) /\ \A i \in Ids : pairs[i] \in PairRow
  BY PairsAre DEF Typed, Crash
<1> DEFINE Done(p) == [p EXCEPT !.stage = IF @ = "settled" THEN "done" ELSE @]
<1>2. pairs' = [i \in Ids |-> Done(pairs[i])]
  BY <1>1 DEF Crash, PairRow
<1>3. ASSUME NEW i \in Ids
      PROVE  /\ Done(pairs[i]) \in PairRow /\ StagedPair(Done(pairs[i]))
             /\ GoesOn(pairs[i], Done(pairs[i]), OpenCycle(pairs[i].cycle))
             /\ Done(pairs[i]).cycle = pairs[i].cycle
             /\ Value(Done(pairs[i])) = Value(pairs[i])
  <2> DEFINE p == pairs[i]
             q == Done(p)
  <2>1. p \in PairRow /\ StagedPair(p)
    BY <1>1 DEF Staged
  <2> HIDE DEF p
  <2>2. /\ q \in PairRow /\ q.task = p.task /\ q.cycle = p.cycle /\ q.order = p.order
        /\ q.row = p.row /\ q.late = p.late
        /\ q.stage = IF p.stage = "settled" THEN "done" ELSE p.stage
    BY <2>1 DEF PairRow, Stages
  <2> HIDE DEF q
  <2>3. StagedPair(q) /\ GoesOn(p, q, OpenCycle(p.cycle)) /\ Value(q) = Value(p)
    BY <2>1, <2>2 DEF StagedPair, GoesOn, KeepsFees, KeepsFigures, Value
  <2> QED BY <2>2, <2>3 DEF q, p
<1> HIDE DEF Done
<1>4. pairs' \in [1..Len(pairs) -> PairRow]
  BY <1>1, <1>2, <1>3
<1>5. pairs' \in Seq(PairRow) /\ Ids' = Ids /\ \A i \in Ids : pairs'[i] = Done(pairs[i])
  BY <1>1, <1>2, <1>4, Sequence DEF Ids
<1>6. PairsTyped'
  BY <1>1, <1>5 DEF PairsTyped
<1>7. Staged'
  BY <1>1, <1>3, <1>5 DEF Staged
<1>8. Executed'
  <2>1. [i \in Ids |-> Value(pairs[i])] = [i \in Ids' |-> Value(pairs'[i])]
    BY <1>3, <1>5
  <2>2. Net(Ids)' = Net(Ids)
    BY <1>1, <1>5, <2>1, NetIs, NetNext
  <2> QED BY <1>1, <2>2 DEF Executed
<1>9. \A i \in Ids : i \in Ids' /\ GoesOn(pairs[i], pairs'[i], OpenCycle(pairs[i].cycle))
  BY <1>3, <1>5
<1> QED BY <1>1, <1>5, <1>6, <1>7, <1>8, <1>9 DEF Steady

\* Closing a cycle leaves the others alone.
LEMMA CloseCycles ==
  ASSUME Typed, NEW t \in Tasks, CloseCycle(t), fin[t].cycle \in DOMAIN cycles
  PROVE  /\ CyclesGrow /\ Len(cycles) \in Nat /\ Len(cycles') = Len(cycles)
         /\ DOMAIN cycles' = DOMAIN cycles
         /\ \A c \in DOMAIN cycles : /\ cycles[c].closed \/ c # fin[t].cycle => cycles'[c] = cycles[c]
                                     /\ ~cycles[c].closed /\ c = fin[t].cycle =>
                                          cycles'[c].closed /\ cycles'[c].shown = Curve(c)
<1> DEFINE k == fin[t].cycle
           e == [cycles[k] EXCEPT !.closed = TRUE, !.shown = Curve(k)]
<1>1. CyclesTyped /\ Len(cycles) \in Nat
  BY SeqIndices DEF Typed, CyclesTyped
<1>2. CASE cycles[k].closed
  <2>1. cycles' = cycles
    BY <1>2 DEF CloseCycle
  <2> QED BY <1>1, <1>2, <2>1, CyclesStay
<1>3. CASE ~cycles[k].closed
  <2>1. cycles' = [cycles EXCEPT ![k].closed = TRUE, ![k].shown = Curve(k)]
    BY <1>3 DEF CloseCycle
  <2>2. DOMAIN cycles[k] = {"direction", "closed", "shown"} /\ cycles[k].direction \in Directions
    BY <1>1 DEF CyclesTyped
  <2>3. cycles' = [cycles EXCEPT ![k] = e]
    BY <2>1
  <2>4. /\ DOMAIN e = {"direction", "closed", "shown"} /\ e.direction = cycles[k].direction
        /\ e.closed = TRUE /\ e.shown = Curve(k)
    BY <2>2
  <2> HIDE DEF e
  <2>5. /\ IsSeq(cycles') /\ DOMAIN cycles' = DOMAIN cycles /\ Len(cycles') = Len(cycles)
        /\ \A c \in DOMAIN cycles : cycles'[c] = IF c = k THEN e ELSE cycles[c]
    <3>1. IsSeq(cycles) /\ k \in DOMAIN cycles
      BY <1>1 DEF CyclesTyped
    <3> HIDE DEF k
    <3> QED BY <2>3, <3>1, SeqExcept
  <2>6. CyclesTyped'
    BY <1>1, <2>2, <2>4, <2>5 DEF CyclesTyped
  <2>7. CyclesGrow
    BY <1>3, <2>5, <2>6 DEF CyclesGrow
  <2> QED BY <1>1, <1>3, <2>4, <2>5, <2>7
<1> QED BY <1>2, <1>3

-----------------------------------------------------------------------------
(* The figures of a closed cycle.                                          *)

LegKept(is, l, ps, qs) ==
  \A i \in is : qs[i].row[l].qty = ps[i].row[l].qty /\ qs[i].row[l].quote = ps[i].row[l].quote

\* They are functions of the legs' figures.
LEMMA FiguresOf ==
  ASSUME NEW is, NEW l, NEW ps, NEW qs, LegKept(is, l, ps, qs)
  PROVE  QtyOf(is, l, qs) = QtyOf(is, l, ps) /\ AvgOf(is, l, qs) = AvgOf(is, l, ps)
<1>1. QtyOf(is, l, qs) = QtyOf(is, l, ps)
  <2>1. [i \in is |-> qs[i].row[l].qty] = [i \in is |-> ps[i].row[l].qty]
    BY DEF LegKept
  <2> QED BY <2>1 DEF QtyOf
<1>2. QuoteOf(is, l, qs) = QuoteOf(is, l, ps)
  <2>1. [i \in is |-> qs[i].row[l].quote] = [i \in is |-> ps[i].row[l].quote]
    BY DEF LegKept
  <2> QED BY <2>1 DEF QuoteOf
<1>3. PricedOf(is, l, qs) = PricedOf(is, l, ps)
  BY DEF PricedOf, LegKept
<1>4. QtyOf(PricedOf(is, l, qs), l, qs) = QtyOf(PricedOf(is, l, ps), l, ps)
  <2> DEFINE js == PricedOf(is, l, ps)
  <2>1. [i \in js |-> qs[i].row[l].qty] = [i \in js |-> ps[i].row[l].qty]
    BY DEF LegKept, PricedOf
  <2> HIDE DEF js
  <2>2. QtyOf(js, l, qs) = QtyOf(js, l, ps)
    BY <2>1 DEF QtyOf
  <2> QED BY <1>3, <2>2 DEF js
<1> QED BY <1>1, <1>2, <1>3, <1>4 DEF AvgOf

LEMMA FilledIs == \A c, type, l : FilledOn(c, type, l) = FilledIn(c, type, l, kind, pairs)
BY DEF FilledOn, FilledIn, Ids, TypeOf

LEMMA BasisIs == \A c, type, l : LegBasis(c, type, l) = BasisIn(c, type, l, kind, pairs)
BY FilledIs DEF LegBasis, Avg, Qty, Quote, Priced, BasisIn, AvgOf, QtyOf, QuoteOf, PricedOf

LEMMA CurveIs == \A c : Curve(c) = CurveIn(c, kind, pairs)
<1>1. \A c, type : CurveRow(c, type) = RowIn(c, type, kind, pairs)
  BY FilledIs DEF CurveRow, Avg, Qty, Quote, Priced, RowIn, AvgOf, QtyOf, QuoteOf, PricedOf
<1> QED BY <1>1, FilledIs DEF Curve, CurveIn

\* Pairs that keep their figures keep their place among the filled ones.
LEMMA FilledStays ==
  ASSUME PairsTyped, Steady, NEW c, NEW type, NEW l \in LegNames,
         \A i \in Ids : pairs[i].cycle = c => KeepsFigures(pairs[i], pairs'[i])
  PROVE  /\ FilledIn(c, type, l, kind', pairs') = FilledIn(c, type, l, kind, pairs)
         /\ LegKept(FilledIn(c, type, l, kind, pairs), l, pairs, pairs')
<1>1. ASSUME NEW i \in Ids
      PROVE  /\ i \in Ids' /\ pairs'[i].task = pairs[i].task /\ pairs'[i].cycle = pairs[i].cycle
             /\ pairs[i].cycle = c => /\ pairs'[i].row[l].qty = pairs[i].row[l].qty
                                      /\ pairs'[i].row[l].quote = pairs[i].row[l].quote
  BY DEF Steady, GoesOn, KeepsFigures
<1>2. \A i \in Ids' \ Ids : ~(pairs'[i].row[l].qty > 0)
  BY DEF Steady, Blank
<1>3. kind' = kind
  BY DEF Steady
<1>4. LegKept(FilledIn(c, type, l, kind, pairs), l, pairs, pairs')
  BY <1>1 DEF LegKept, FilledIn, Ids
<1>5. FilledIn(c, type, l, kind', pairs') = FilledIn(c, type, l, kind, pairs)
  BY <1>1, <1>2, <1>3 DEF FilledIn, Ids
<1> QED BY <1>4, <1>5

\* What is told of a closed cycle stands, unless a pair of it was settled late.
LEMMA FiguresStay ==
  ASSUME Typed, Steady, NEW c \in DOMAIN cycles, cycles[c].closed, NoLate(c, pairs')
  PROVE  /\ NoLate(c, pairs)
         /\ Figures(c, kind', pairs') = Figures(c, kind, pairs)
         /\ CurveIn(c, kind', pairs') = CurveIn(c, kind, pairs)
<1>1. PairsTyped /\ ~OpenCycle(c)
  <2>1. c # NoCycle
    BY SeqIndices DEF Typed, CyclesTyped, NoCycle
  <2> QED BY <2>1 DEF Typed, OpenCycle
<1>2. ASSUME NEW i \in Ids, pairs[i].cycle = c
      PROVE  KeepsFigures(pairs[i], pairs'[i]) /\ ~pairs[i].late
  <2>1. /\ i \in Ids' /\ pairs'[i].cycle = c
        /\ KeepsFigures(pairs[i], pairs'[i]) \/ Settles(pairs[i], pairs'[i], OpenCycle(c))
    BY <1>2 DEF Steady, GoesOn
  <2>2. ~pairs'[i].late
    BY <2>1 DEF NoLate, Ids
  <2>3. ~Settles(pairs[i], pairs'[i], OpenCycle(c))
    BY <1>1, <2>2 DEF Settles
  <2>4. KeepsFigures(pairs[i], pairs'[i])
    BY <2>1, <2>3
  <2> QED BY <2>2, <2>4 DEF KeepsFigures
<1>3. NoLate(c, pairs)
  BY <1>2 DEF NoLate, Ids
<1>4. \A type : \A l \in LegNames :
        /\ FilledIn(c, type, l, kind', pairs') = FilledIn(c, type, l, kind, pairs)
        /\ LegKept(FilledIn(c, type, l, kind, pairs), l, pairs, pairs')
  BY <1>1, <1>2, FilledStays
<1>5. ASSUME NEW type, NEW l \in LegNames
      PROVE  LET is == FilledIn(c, type, l, kind, pairs)
             IN  /\ QtyOf(is, l, pairs') = QtyOf(is, l, pairs)
                 /\ AvgOf(is, l, pairs') = AvgOf(is, l, pairs)
  BY <1>4, FiguresOf
<1>6. "spot" \in LegNames /\ "perp" \in LegNames
  BY DEF LegNames
<1>7. \A type : \A l \in LegNames :
        BasisIn(c, type, l, kind', pairs') = BasisIn(c, type, l, kind, pairs)
  BY <1>4, <1>5 DEF BasisIn
<1>8. Figures(c, kind', pairs') = Figures(c, kind, pairs)
  BY <1>6, <1>7 DEF Figures
<1>9. \A type : RowIn(c, type, kind', pairs') = RowIn(c, type, kind, pairs)
  BY <1>4, <1>5, <1>6 DEF RowIn
<1>10. CurveIn(c, kind', pairs') = CurveIn(c, kind, pairs)
  <2> DEFINE Some(ks, ps) == {ty \in {"open", "close"} :
                                \E l \in LegNames : FilledIn(c, ty, l, ks, ps) # {}}
  <2>1. Some(kind', pairs') = Some(kind, pairs)
    BY <1>4
  <2> DEFINE s == Some(kind, pairs)
  <2>2. /\ CurveIn(c, kind, pairs) = {RowIn(c, type, kind, pairs) : type \in s}
        /\ CurveIn(c, kind', pairs') = {RowIn(c, type, kind', pairs') : type \in s}
    BY <2>1 DEF CurveIn
  <2> HIDE DEF s
  <2> QED BY <1>9, <2>2
<1> QED BY <1>3, <1>8, <1>10

\* What stood of the closed cycles stands after the step.
LEMMA StillStands ==
  ASSUME Typed, Steady, CyclesGrow
  PROVE  /\ \A f : Finishes(f, kind, pairs, cycles) => Finishes(f, kind', pairs', cycles')
         /\ \A g : LogStands(g, kind, pairs, cycles) => LogStands(g, kind', pairs', cycles')
<1>1. \A c \in DOMAIN cycles : /\ c \in DOMAIN cycles'
                               /\ cycles[c].closed => cycles'[c].closed
  BY DEF CyclesGrow
<1>2. ASSUME NEW f, Finishes(f, kind, pairs, cycles)
      PROVE  Finishes(f, kind', pairs', cycles')
  <2> DEFINE c == f.cycle
  <2>1. f.pc \in {"close", "read"} => c \in DOMAIN cycles /\ c \in DOMAIN cycles'
    BY <1>1, <1>2 DEF Finishes
  <2>2. ASSUME f.pc = "read" PROVE cycles[c].closed /\ cycles'[c].closed /\ c \in DOMAIN cycles
    BY <1>1, <1>2, <2>1, <2>2 DEF Finishes
  <2>3. ASSUME f.pc = "read", NoLate(c, pairs')
        PROVE  \A k \in 1..4 : k <= Len(f.got) => f.got[k] = Figures(c, kind', pairs')[k]
    <3>1. NoLate(c, pairs) /\ Figures(c, kind', pairs') = Figures(c, kind, pairs)
      BY <2>2, <2>3, FiguresStay
    <3>2. \A k \in 1..4 : k <= Len(f.got) => f.got[k] = Figures(c, kind, pairs)[k]
      BY <1>2, <2>3, <3>1 DEF Finishes
    <3> QED BY <3>1, <3>2
  <2> QED BY <1>2, <2>1, <2>2, <2>3 DEF Finishes
<1>3. ASSUME NEW g, LogStands(g, kind, pairs, cycles)
      PROVE  LogStands(g, kind', pairs', cycles')
  <2> DEFINE c == g.cycle
  <2>1. c \in DOMAIN cycles /\ cycles[c].closed /\ c \in DOMAIN cycles' /\ cycles'[c].closed
    BY <1>1, <1>3 DEF LogStands
  <2>2. ASSUME NoLate(c, pairs') PROVE Told(g, kind', pairs')
    <3>1. NoLate(c, pairs) /\ Figures(c, kind', pairs') = Figures(c, kind, pairs)
      BY <2>1, <2>2, FiguresStay
    <3>2. Told(g, kind, pairs)
      BY <1>3, <3>1 DEF LogStands
    <3> QED BY <3>1, <3>2 DEF Told
  <2> QED BY <2>1, <2>2 DEF LogStands
<1> QED BY <1>2, <1>3

-----------------------------------------------------------------------------
(* The invariant.                                                          *)

\* Of the other variables, what a step must say.
Local ==
  /\ FinTyped' /\ task' \in [Tasks -> TaskRows] /\ IsSeq(logs')
  /\ um' \in Int /\ cached' \subseteq Int
  /\ fill' \in [todo : SUBSET Nat, cursor : Nat, failed : SUBSET Nat]

\* Nothing new is read, logged, or to be backfilled.
Modest ==
  /\ \A t \in Tasks : fin'[t] = fin[t] \/ fin'[t].pc \in {"idle", "flat"}
  /\ logs' = logs /\ fill'.todo \subseteq fill.todo

\* No cycle is closed.
NoneCloses ==
  \A c \in DOMAIN cycles' : cycles'[c].closed => c \in DOMAIN cycles /\ cycles[c].closed

LEMMA FinishingStays ==
  ASSUME Inv, Steady, CyclesGrow,
         \A t \in Tasks : fin'[t] = fin[t] \/ Finishes(fin'[t], kind', pairs', cycles')
  PROVE  Finishing'
<1>1. \A t \in Tasks : Finishes(fin'[t], kind', pairs', cycles')
  BY StillStands DEF Inv, Finishing
<1> QED BY <1>1 DEF Finishing

LEMMA LoggedStays ==
  ASSUME Inv, Steady, CyclesGrow, logs' = logs
  PROVE  Logged'
<1>1. \A k \in DOMAIN logs' : LogStands(logs'[k], kind', pairs', cycles')
  BY StillStands DEF Inv, Logged
<1> QED BY <1>1 DEF Logged

LEMMA DrawnStays ==
  ASSUME Inv, Steady, CyclesGrow, NoneCloses
  PROVE  Drawn'
<1>1. ASSUME NEW c \in DOMAIN cycles', cycles'[c].closed, NoLate(c, pairs')
      PROVE  cycles'[c].shown = CurveIn(c, kind', pairs')
  <2>1. c \in DOMAIN cycles /\ cycles[c].closed /\ cycles'[c] = cycles[c]
    BY <1>1 DEF NoneCloses, CyclesGrow
  <2>2. NoLate(c, pairs) /\ CurveIn(c, kind', pairs') = CurveIn(c, kind, pairs)
    BY <1>1, <2>1, FiguresStay DEF Inv
  <2> QED BY <2>1, <2>2 DEF Inv, Drawn
<1> QED BY <1>1 DEF Drawn

LEMMA FillingStays ==
  ASSUME Inv, Steady, fill'.todo \subseteq fill.todo
  PROVE  Filling'
<1>1. \A id \in fill'.todo :
        PairOf(id) \in Ids' /\ pairs'[PairOf(id)].stage \in {"settled", "done"}
  BY DEF Inv, Filling, Steady, GoesOn
<1> QED BY <1>1 DEF Filling

LEMMA TypedNext ==
  ASSUME Steady, CyclesGrow, Local
  PROVE  Typed'
<1>1. IsSeq(logs)'
  BY DEF Local, IsSeq
<1> QED BY <1>1 DEF Steady, CyclesGrow, Local, Typed

\* A modest step keeps the invariant.
LEMMA ModestStep ==
  ASSUME Inv, Steady, CyclesGrow, NoneCloses, Local, Modest
  PROVE  Inv'
<1>1. Finishing'
  <2>1. \A f : f.pc \in {"idle", "flat"} => Finishes(f, kind', pairs', cycles')
    BY DEF Finishes
  <2> QED BY <2>1, FinishingStays DEF Modest
<1>2. Filling' /\ Logged' /\ Drawn'
  BY FillingStays, LoggedStays, DrawnStays DEF Modest
<1>3. Typed' /\ Staged' /\ Executed'
  BY TypedNext DEF Steady
<1> QED BY <1>1, <1>2, <1>3 DEF Inv

\* What the cycles and pairs do when a step leaves them alone.
LEMMA NothingBooked ==
  ASSUME Inv, UNCHANGED <<kind, pairs, cycles, um>>
  PROVE  Steady /\ CyclesGrow /\ NoneCloses
<1>1. CyclesGrow /\ Len(cycles) \in Nat /\ Len(cycles') \in Nat /\ Len(cycles) <= Len(cycles')
  BY CyclesStay DEF Inv, Typed
<1>2. Steady
  BY <1>1, PairsStay DEF Inv, Typed
<1> QED BY <1>1, <1>2 DEF NoneCloses

LEMMA CyclesKept ==
  ASSUME Inv, UNCHANGED cycles
  PROVE  CyclesGrow /\ NoneCloses
BY CyclesStay DEF Inv, Typed, NoneCloses

\* What the types are of what a step leaves alone.
LEMMA LocalKept ==
  ASSUME Inv
  PROVE  /\ UNCHANGED fin => FinTyped'
         /\ UNCHANGED task => task' \in [Tasks -> TaskRows]
         /\ UNCHANGED logs => IsSeq(logs')
         /\ UNCHANGED um => um' \in Int
         /\ UNCHANGED cached => cached' \subseteq Int
         /\ UNCHANGED fill => fill' \in [todo : SUBSET Nat, cursor : Nat, failed : SUBSET Nat]
<1>1. ASSUME UNCHANGED fin PROVE FinTyped'
  <2>1. FinTyped
    BY DEF Inv, Typed
  <2>2. /\ DOMAIN fin' = Tasks
        /\ \A t \in Tasks :
             /\ fin'[t] = [pc |-> fin'[t].pc, cycle |-> fin'[t].cycle, got |-> fin'[t].got]
             /\ fin'[t].pc \in {"idle", "flat", "close", "read"} /\ IsSeq(fin'[t].got)
    BY <1>1, <2>1 DEF FinTyped
  <2> QED BY <2>2 DEF FinTyped, IsSeq
<1> QED BY <1>1 DEF Inv, Typed

\* A task's row after one of its fields is written.
LEMMA TaskWritten ==
  ASSUME task \in [Tasks -> TaskRows], NEW t \in Tasks
  PROVE  /\ \A to \in {"paused", "running", "done", "deleted"} :
              [task EXCEPT ![t].status = to] \in [Tasks -> TaskRows]
         /\ [task EXCEPT ![t].scheduled = @ + 1] \in [Tasks -> TaskRows]
<1>1. task[t] \in TaskRows
  OBVIOUS
<1>2. ASSUME NEW to \in {"paused", "running", "done", "deleted"}
      PROVE  [task EXCEPT ![t].status = to] \in [Tasks -> TaskRows]
  <2>1. [task[t] EXCEPT !.status = to] \in TaskRows
    BY <1>1 DEF TaskRows
  <2> QED BY <2>1
<1>3. [task EXCEPT ![t].scheduled = @ + 1] \in [Tasks -> TaskRows]
  <2>1. [task[t] EXCEPT !.scheduled = @ + 1] \in TaskRows
    BY <1>1 DEF TaskRows
  <2> QED BY <2>1
<1> QED BY <1>2, <1>3

\* Writing a worker's locals.
LEMMA FinWritten ==
  ASSUME FinTyped, NEW t \in Tasks, NEW f, f = [pc |-> f.pc, cycle |-> f.cycle, got |-> f.got],
         f.pc \in {"idle", "flat", "close", "read"}, IsSeq(f.got), fin' = [fin EXCEPT ![t] = f]
  PROVE  FinTyped' /\ fin'[t] = f /\ \A s \in Tasks \ {t} : fin'[s] = fin[s]
<1>1. DOMAIN fin' = Tasks /\ fin'[t] = f /\ \A s \in Tasks \ {t} : fin'[s] = fin[s]
  BY DEF FinTyped
<1>2. ASSUME NEW s \in Tasks
      PROVE  /\ fin'[s] = [pc |-> fin'[s].pc, cycle |-> fin'[s].cycle, got |-> fin'[s].got]
             /\ fin'[s].pc \in {"idle", "flat", "close", "read"} /\ IsSeq(fin'[s].got)
  <2>1. CASE s = t
    BY <1>1, <2>1
  <2>2. CASE s # t
    BY <1>1, <2>2 DEF FinTyped
  <2> QED BY <2>1, <2>2
<1>3. FinTyped'
  BY <1>1, <1>2 DEF FinTyped, IsSeq
<1> QED BY <1>1, <1>3

LEMMA DispatchStep ==
  ASSUME Inv, NEW t \in Tasks, Dispatch(t)
  PROVE  Inv'
<1>1. Steady /\ CyclesGrow /\ NoneCloses
  BY DispatchPairs DEF Inv, NoneCloses
<1>2. Local
  <2>1. task' \in [Tasks -> TaskRows]
    BY TaskWritten DEF Inv, Typed, Dispatch
  <2> QED BY <2>1, LocalKept DEF Dispatch, Local
<1>3. Modest
  BY DEF Dispatch, Modest
<1> QED BY <1>1, <1>2, <1>3, ModestStep

LEMMA PairStep ==
  ASSUME Inv, NEW i \in Ids, Execute(i) \/ Settle(i) \/ FetchFees(i)
  PROVE  Inv'
<1>1. Typed /\ Staged /\ Executed
  BY DEF Inv
<1>2. CASE Execute(i)
  <2>1. Steady /\ um' \in Int
    BY <1>1, <1>2, ExecutePairs
  <2>2. CyclesGrow /\ NoneCloses
    BY <1>2, CyclesKept DEF Execute
  <2>3. Local /\ Modest
    BY <1>2, <2>1, LocalKept DEF Execute, Local, Modest
  <2> QED BY <2>1, <2>2, <2>3, ModestStep
<1>3. CASE Settle(i)
  <2>1. Steady
    BY <1>1, <1>3, SettlePairs
  <2>2. CyclesGrow /\ NoneCloses
    BY <1>3, CyclesKept DEF Settle
  <2>3. task' \in [Tasks -> TaskRows]
    <3>1. task \in [Tasks -> TaskRows] /\ pairs[i].task \in Tasks
      BY <1>1, PairsAre DEF Typed
    <3>2. [task EXCEPT ![pairs[i].task].status = "done"] \in [Tasks -> TaskRows]
      BY <3>1, TaskWritten
    <3> QED BY <1>3, <3>1, <3>2 DEF Settle
  <2>4. Local /\ Modest
    BY <1>3, <2>3, LocalKept DEF Settle, Local, Modest
  <2> QED BY <2>1, <2>2, <2>4, ModestStep
<1>4. CASE FetchFees(i)
  <2>1. Steady
    BY <1>1, <1>4, FetchPairs
  <2>2. CyclesGrow /\ NoneCloses
    BY <1>4, CyclesKept DEF FetchFees
  <2>3. Local /\ Modest
    BY <1>4, LocalKept DEF FetchFees, Local, Modest
  <2> QED BY <2>1, <2>2, <2>3, ModestStep
<1> QED BY <1>2, <1>3, <1>4

LEMMA RefreshStep ==
  ASSUME Inv, RefreshCache
  PROVE  Inv'
<1>1. Steady /\ CyclesGrow /\ NoneCloses
  BY NothingBooked DEF RefreshCache
<1>2. cached' \subseteq Int
  BY DEF RefreshCache, Inv, Typed
<1>3. Local /\ Modest
  BY <1>2, LocalKept DEF RefreshCache, Local, Modest
<1> QED BY <1>1, <1>3, ModestStep

LEMMA OperatorStep ==
  ASSUME Inv, NEW t \in Tasks, CreateClose(t) \/ Start(t) \/ Pause(t) \/ Delete(t)
  PROVE  Inv'
<1>1. /\ UNCHANGED <<kind, pairs, cycles, logs, um, cached, fin, fill>>
      /\ \E to \in {"paused", "running", "done", "deleted"} : task' = [task EXCEPT ![t].status = to]
  BY DEF CreateClose, Start, Pause, Delete, SetStatus
<1>2. Steady /\ CyclesGrow /\ NoneCloses
  BY <1>1, NothingBooked
<1>3. task' \in [Tasks -> TaskRows]
  <2>1. PICK to \in {"paused", "running", "done", "deleted"} : task' = [task EXCEPT ![t].status = to]
    BY <1>1
  <2>2. task \in [Tasks -> TaskRows]
    BY DEF Inv, Typed
  <2>3. [task EXCEPT ![t].status = to] \in [Tasks -> TaskRows]
    BY <2>2, TaskWritten
  <2> QED BY <2>1, <2>3
<1>4. Local /\ Modest
  BY <1>1, <1>3, LocalKept DEF Local, Modest
<1> QED BY <1>2, <1>4, ModestStep

LEMMA VerifyStep ==
  ASSUME Inv, NEW t \in Tasks, VerifyCloseFlat(t)
  PROVE  Inv'
<1>1. UNCHANGED <<kind, pairs, cycles, logs, um, cached, fill>>
  BY DEF VerifyCloseFlat
<1>2. Steady /\ CyclesGrow /\ NoneCloses
  BY <1>1, NothingBooked
<1>3. task' \in [Tasks -> TaskRows]
  BY TaskWritten DEF Inv, Typed, VerifyCloseFlat
<1>4. FinTyped' /\ \A s \in Tasks : fin'[s] = fin[s] \/ fin'[s].pc \in {"idle", "flat"}
  <2>1. CASE UNCHANGED fin
    BY <2>1, LocalKept
  <2>2. CASE fin' = [fin EXCEPT ![t].pc = "flat"]
    <3> DEFINE f == [fin[t] EXCEPT !.pc = "flat"]
    <3>1. fin[t] = [pc |-> fin[t].pc, cycle |-> fin[t].cycle, got |-> fin[t].got] /\ IsSeq(fin[t].got)
      BY DEF Inv, Typed, FinTyped
    <3>2. f.pc = "flat" /\ f.cycle = fin[t].cycle /\ f.got = fin[t].got /\
          f = [pc |-> "flat", cycle |-> fin[t].cycle, got |-> fin[t].got]
      BY <3>1
    <3>3. fin' = [fin EXCEPT ![t] = f]
      BY <2>2
    <3> HIDE DEF f
    <3>4. FinTyped' /\ fin'[t] = f /\ \A s \in Tasks \ {t} : fin'[s] = fin[s]
      BY <3>1, <3>2, <3>3, FinWritten DEF Inv, Typed
    <3> QED BY <3>2, <3>4
  <2> QED BY <2>1, <2>2 DEF VerifyCloseFlat
<1>5. Local /\ Modest
  BY <1>1, <1>3, <1>4, LocalKept DEF Local, Modest
<1> QED BY <1>2, <1>5, ModestStep

\* What a worker does with its locals alone.
LEMMA WorkerStep ==
  ASSUME Inv, NEW t \in Tasks, UNCHANGED <<kind, um, cached, fill>>,
         task' \in [Tasks -> TaskRows], IsSeq(logs'), Logged',
         Steady, CyclesGrow, Drawn',
         NEW f, f = [pc |-> f.pc, cycle |-> f.cycle, got |-> f.got],
         f.pc \in {"idle", "flat", "close", "read"}, IsSeq(f.got), fin' = [fin EXCEPT ![t] = f],
         Finishes(f, kind', pairs', cycles')
  PROVE  Inv'
<1>1. FinTyped' /\ fin'[t] = f /\ \A s \in Tasks \ {t} : fin'[s] = fin[s]
  BY FinWritten DEF Inv, Typed
<1>2. Typed' /\ Staged' /\ Executed'
  <2>1. Local
    BY <1>1, LocalKept DEF Local
  <2> QED BY <2>1, TypedNext DEF Steady
<1>3. Filling'
  BY FillingStays
<1>4. Finishing'
  BY <1>1, FinishingStays
<1> QED BY <1>2, <1>3, <1>4 DEF Inv

LEMMA TakeStep ==
  ASSUME Inv, NEW t \in Tasks, TakeCycle(t)
  PROVE  Inv'
<1> DEFINE active == ActiveCycles(kind[t].direction)
           f == IF active = {} THEN Idle ELSE [Idle EXCEPT !.pc = "close", !.cycle = Max(active)]
<1>1. /\ UNCHANGED <<kind, pairs, cycles, logs, um, cached, fill>>
      /\ fin' = [fin EXCEPT ![t] = f]
  BY DEF TakeCycle
<1>2. Steady /\ CyclesGrow /\ NoneCloses
  BY <1>1, NothingBooked
<1>3. task' \in [Tasks -> TaskRows]
  BY TaskWritten DEF Inv, Typed, TakeCycle
<1>4. IsSeq(logs') /\ Logged' /\ Drawn'
  BY <1>1, <1>2, LocalKept, LoggedStays, DrawnStays
<1>5. /\ f = [pc |-> f.pc, cycle |-> f.cycle, got |-> f.got] /\ f.got = <<>>
      /\ f.pc \in {"idle", "close"}
      /\ f.pc = "close" => f.cycle \in DOMAIN cycles
  <2>1. active # {} => Max(active) \in DOMAIN cycles
    BY LatestActive DEF Inv, Typed, ActiveCycles
  <2> QED BY <2>1 DEF Idle
<1> HIDE DEF f
<1>6. IsSeq(<<>>)
  BY DEF IsSeq
<1>7. Finishes(f, kind', pairs', cycles') /\ IsSeq(f.got)
  BY <1>1, <1>5, <1>6 DEF Finishes
<1>8. f.pc \in {"idle", "flat", "close", "read"}
  BY <1>5
<1> QED BY <1>1, <1>2, <1>3, <1>4, <1>5, <1>7, <1>8, WorkerStep

LEMMA CloseStep ==
  ASSUME Inv, NEW t \in Tasks, CloseCycle(t)
  PROVE  Inv'
<1> DEFINE k == fin[t].cycle
           f == [fin[t] EXCEPT !.pc = "read"]
<1>1. /\ UNCHANGED <<kind, task, pairs, logs, um, cached, fill>>
      /\ fin' = [fin EXCEPT ![t].pc = "read"]
  BY DEF CloseCycle
<1>2. k \in DOMAIN cycles /\ fin[t].got = <<>>
  BY DEF CloseCycle, Inv, Finishing, Finishes
<1>3. /\ CyclesGrow /\ Len(cycles) \in Nat /\ Len(cycles') = Len(cycles)
      /\ DOMAIN cycles' = DOMAIN cycles
      /\ \A c \in DOMAIN cycles : /\ cycles[c].closed \/ c # k => cycles'[c] = cycles[c]
                                  /\ ~cycles[c].closed /\ c = k =>
                                       cycles'[c].closed /\ cycles'[c].shown = Curve(c)
  BY <1>2, CloseCycles DEF Inv
<1>4. Steady
  BY <1>1, <1>3, PairsStay DEF Inv, Typed
<1>5. task' \in [Tasks -> TaskRows] /\ IsSeq(logs') /\ Logged'
  BY <1>1, <1>3, <1>4, LocalKept, LoggedStays
<1>6. ASSUME NEW c \in DOMAIN cycles', cycles'[c].closed, NoLate(c, pairs')
      PROVE  cycles'[c].shown = CurveIn(c, kind', pairs')
  <2>1. CurveIn(c, kind', pairs') = CurveIn(c, kind, pairs) /\ NoLate(c, pairs) /\ c \in DOMAIN cycles
    BY <1>1, <1>3, <1>6
  <2>2. CASE cycles[c].closed
    <3>1. cycles'[c] = cycles[c]
      BY <1>3, <2>1, <2>2
    <3> QED BY <2>1, <2>2, <3>1 DEF Inv, Drawn
  <2>3. CASE ~cycles[c].closed
    <3>1. cycles'[c].shown = Curve(c)
      BY <1>3, <1>6, <2>1, <2>3
    <3> QED BY <2>1, <3>1, CurveIs
  <2> QED BY <2>2, <2>3
<1>7. Drawn'
  BY <1>6 DEF Drawn
<1>8. /\ f.pc = "read" /\ f.cycle = k /\ f.got = <<>>
      /\ f = [pc |-> f.pc, cycle |-> f.cycle, got |-> f.got] /\ fin' = [fin EXCEPT ![t] = f]
  <2>1. fin[t] = [pc |-> fin[t].pc, cycle |-> fin[t].cycle, got |-> fin[t].got]
    BY DEF Inv, Typed, FinTyped
  <2> QED BY <1>1, <1>2, <2>1
<1>9. cycles'[k].closed /\ k \in DOMAIN cycles'
  <2>1. CASE cycles[k].closed
    BY <1>2, <1>3, <2>1
  <2>2. CASE ~cycles[k].closed
    BY <1>2, <1>3, <2>2
  <2> QED BY <2>1, <2>2
<1>10. IsSeq(<<>>)
  BY DEF IsSeq
<1> HIDE DEF f, k
<1>11. Finishes(f, kind', pairs', cycles')
  <2>1. \A n \in 1..4 : ~(n <= Len(<<>>))
    OBVIOUS
  <2> QED BY <1>8, <1>9, <2>1 DEF Finishes
<1> QED BY <1>1, <1>3, <1>4, <1>5, <1>7, <1>8, <1>10, <1>11, WorkerStep

\* The figures read first are those the log begins with.
LEMMA FirstReads ==
  \A c : \A k \in 1..4 : Read(Reads[k], c) = Figures(c, kind, pairs)[k]
<1> TAKE c
<1>1. /\ Read("openPerp", c) = LegBasis(c, "open", "perp")
      /\ Read("closePerp", c) = LegBasis(c, "close", "perp")
      /\ Read("openSpot", c) = LegBasis(c, "open", "spot")
      /\ Read("closeSpot", c) = LegBasis(c, "close", "spot")
  BY DEF Read
<1>2. Reads[1] = "openPerp" /\ Reads[2] = "closePerp" /\ Reads[3] = "openSpot" /\ Reads[4] = "closeSpot"
  BY DEF Reads
<1>3. /\ Figures(c, kind, pairs)[1] = BasisIn(c, "open", "perp", kind, pairs)
      /\ Figures(c, kind, pairs)[2] = BasisIn(c, "close", "perp", kind, pairs)
      /\ Figures(c, kind, pairs)[3] = BasisIn(c, "open", "spot", kind, pairs)
      /\ Figures(c, kind, pairs)[4] = BasisIn(c, "close", "spot", kind, pairs)
  BY DEF Figures
<1>4. \A k \in 1..4 : k = 1 \/ k = 2 \/ k = 3 \/ k = 4
  OBVIOUS
<1> QED BY <1>1, <1>2, <1>3, <1>4, BasisIs

LEMMA ReadStep ==
  ASSUME Inv, NEW t \in Tasks, ReadFigure(t)
  PROVE  Inv'
<1> DEFINE n == Len(fin[t].got) + 1
           c == fin[t].cycle
           figure == Read(Reads[n], c)
           got == Append(fin[t].got, figure)
           f == [fin[t] EXCEPT !.got = got]
<1>1. /\ UNCHANGED <<kind, task, pairs, cycles, logs, um, cached, fill>> /\ fin[t].pc = "read"
      /\ fin' = [fin EXCEPT ![t].got = Append(@, Read(Reads[Len(@) + 1], fin[t].cycle))]
  BY DEF ReadFigure
<1>2. Steady /\ CyclesGrow /\ NoneCloses
  BY <1>1, NothingBooked
<1>3. task' \in [Tasks -> TaskRows] /\ IsSeq(logs') /\ Logged' /\ Drawn'
  BY <1>1, <1>2, LocalKept, LoggedStays, DrawnStays
<1>4. /\ fin[t] = [pc |-> fin[t].pc, cycle |-> fin[t].cycle, got |-> fin[t].got]
      /\ IsSeq(fin[t].got) /\ DOMAIN fin = Tasks /\ Finishes(fin[t], kind, pairs, cycles)
  BY DEF Inv, Typed, FinTyped, Finishing
<1>5. fin' = [fin EXCEPT ![t] = f]
  BY <1>1, <1>4
<1>6. /\ IsSeq(got) /\ Len(fin[t].got) \in Nat /\ Len(got) = n
      /\ \A k \in 1..Len(fin[t].got) : got[k] = fin[t].got[k]
      /\ got[n] = figure
  BY <1>4, SeqAppend
<1> HIDE DEF got, figure
<1>7. /\ f.pc = "read" /\ f.cycle = c /\ f.got = got
      /\ f = [pc |-> f.pc, cycle |-> f.cycle, got |-> f.got]
  BY <1>1, <1>4
<1> HIDE DEF f
<1>8. ASSUME NoLate(c, pairs), NEW k \in 1..4, k <= n
      PROVE  got[k] = Figures(c, kind, pairs)[k]
  <2>1. CASE k = n
    <3>1. figure = Figures(c, kind, pairs)[n]
      BY <2>1, FirstReads DEF figure
    <3> QED BY <1>6, <2>1, <3>1
  <2>2. CASE k # n
    <3>1. k \in 1..Len(fin[t].got)
      BY <1>6, <1>8, <2>2
    <3>2. fin[t].got[k] = Figures(c, kind, pairs)[k]
      BY <1>1, <1>4, <1>8, <3>1 DEF Finishes
    <3> QED BY <1>6, <3>1, <3>2
  <2> QED BY <2>1, <2>2
<1>9. Finishes(f, kind', pairs', cycles')
  <2>1. c \in DOMAIN cycles /\ cycles[c].closed
    BY <1>1, <1>4 DEF Finishes
  <2> QED BY <1>1, <1>6, <1>7, <1>8, <2>1 DEF Finishes
<1> QED BY <1>1, <1>2, <1>3, <1>5, <1>6, <1>7, <1>9, WorkerStep

LEMMA LogStep ==
  ASSUME Inv, NEW t \in Tasks, InsertCloseLog(t)
  PROVE  Inv'
<1> DEFINE c == fin[t].cycle
           got == fin[t].got
           g == LogRow(c, got)
<1>1. /\ UNCHANGED <<kind, task, pairs, cycles, um, cached, fill>>
      /\ fin[t].pc = "read" /\ Len(got) = Len(Reads) /\ fin' = [fin EXCEPT ![t] = Idle]
      /\ logs' = Append(logs, g) \/ logs' = logs
  BY DEF InsertCloseLog
<1>2. Steady /\ CyclesGrow /\ NoneCloses
  BY <1>1, NothingBooked
<1>3. task' \in [Tasks -> TaskRows] /\ Drawn'
  BY <1>1, <1>2, LocalKept, DrawnStays
<1>4. /\ Idle = [pc |-> Idle.pc, cycle |-> Idle.cycle, got |-> Idle.got]
      /\ Idle.pc = "idle" /\ Idle.got = <<>>
  BY DEF Idle
<1>5. IsSeq(Idle.got) /\ Finishes(Idle, kind', pairs', cycles')
  BY <1>4 DEF IsSeq, Finishes
<1>6. LogStands(g, kind, pairs, cycles)
  <2>1. Finishes(fin[t], kind, pairs, cycles) /\ Len(got) = 7
    BY <1>1 DEF Inv, Finishing, Reads
  <2>2. c \in DOMAIN cycles /\ cycles[c].closed
    BY <1>1, <2>1 DEF Finishes
  <2>3. /\ g.cycle = c /\ g.openPerp = got[1] /\ g.closePerp = got[2]
        /\ g.openSpot = got[3] /\ g.closeSpot = got[4]
    BY DEF LogRow
  <2>4. ASSUME NoLate(c, pairs) PROVE Told(g, kind, pairs)
    <3>1. \A k \in 1..4 : got[k] = Figures(c, kind, pairs)[k]
      BY <1>1, <2>1, <2>4 DEF Finishes
    <3>2. <<got[1], got[2], got[3], got[4]>> = Figures(c, kind, pairs)
      <4>1. /\ got[1] = BasisIn(c, "open", "perp", kind, pairs)
            /\ got[2] = BasisIn(c, "close", "perp", kind, pairs)
            /\ got[3] = BasisIn(c, "open", "spot", kind, pairs)
            /\ got[4] = BasisIn(c, "close", "spot", kind, pairs)
        BY <3>1 DEF Figures
      <4> QED BY <4>1 DEF Figures
    <3> QED BY <2>3, <3>2 DEF Told
  <2> HIDE DEF g
  <2> QED BY <2>2, <2>3, <2>4 DEF LogStands
<1>7. IsSeq(logs') /\ Logged'
  <2>1. IsSeq(logs) /\ Logged
    BY DEF Inv, Typed
  <2>2. LogStands(g, kind', pairs', cycles')
    BY <1>2, <1>6, StillStands DEF Inv
  <2>3. CASE logs' = logs
    BY <1>2, <2>1, <2>3, LoggedStays
  <2>4. CASE logs' = Append(logs, g)
    <3> HIDE DEF g
    <3>1. /\ IsSeq(logs') /\ DOMAIN logs' = 1..(Len(logs) + 1) /\ Len(logs) \in Nat
          /\ \A k \in 1..Len(logs) : logs'[k] = logs[k]
          /\ logs'[Len(logs) + 1] = g
      BY <2>1, <2>4, SeqAppend
    <3>2. DOMAIN logs = 1..Len(logs)
      BY <2>1, SeqIndices
    <3>3. ASSUME NEW k \in DOMAIN logs' PROVE LogStands(logs'[k], kind', pairs', cycles')
      <4>1. CASE k = Len(logs) + 1
        BY <2>2, <3>1, <4>1
      <4>2. CASE k # Len(logs) + 1
        <5>1. k \in 1..Len(logs)
          BY <3>1, <4>2
        <5>2. LogStands(logs[k], kind', pairs', cycles')
          BY <1>2, <2>1, <3>2, <5>1, StillStands DEF Inv, Logged
        <5> QED BY <3>1, <5>1, <5>2
      <4> QED BY <4>1, <4>2
    <3> QED BY <3>1, <3>3 DEF Logged
  <2> QED BY <1>1, <2>3, <2>4
<1> QED BY <1>1, <1>2, <1>3, <1>4, <1>5, <1>7, WorkerStep

\* A leg without fees is one the exchange filled whole, of a settled pair.
LEMMA MissingSettled ==
  ASSUME Typed, Staged, NEW id \in MissingFees
  PROVE  id \in Nat /\ PairOf(id) \in Ids /\ pairs[PairOf(id)].stage \in {"settled", "done"}
<1>1. PICK x \in Ids \X LegNames : id = LegId(x[1], x[2]) /\ LegsMissingFee(pairs[x[1]].row[x[2]])
  BY DEF MissingFees
<1> DEFINE i == x[1]
           l == x[2]
<1>2. i \in Ids /\ l \in LegNames /\ i \in Nat /\ i >= 1
  BY PairsAre DEF Typed
<1>3. id \in Nat /\ PairOf(id) = i
  <2>1. id = 2 * i - 1 \/ id = 2 * i
    BY <1>1, <1>2 DEF LegId
  <2> HIDE DEF i
  <2>2. CASE id = 2 * i - 1
    <3>1. id \in Nat /\ id + 1 = 2 * i
      BY <1>2, <2>2
    <3> QED BY <1>2, <3>1 DEF PairOf
  <2>3. CASE id = 2 * i
    <3>1. id \in Nat /\ (2 * i + 1) \div 2 = i
      BY <1>2, <2>3
    <3> QED BY <1>2, <2>3, <3>1 DEF PairOf
  <2> QED BY <2>1, <2>2, <2>3
<1>4. pairs[i].stage \in {"settled", "done"}
  <2>1. pairs[i].stage \in Stages
    BY <1>2, PairsAre DEF Typed, PairRow
  <2>2. pairs[i].row[l] # NoRow
    BY <1>1 DEF LegsMissingFee, NoRow
  <2>3. StagedPair(pairs[i])
    BY <1>2 DEF Staged
  <2>4. pairs[i].stage \notin {"sent", "executed"}
    BY <1>2, <2>2, <2>3 DEF StagedPair
  <2> QED BY <2>1, <2>4 DEF Stages
<1> QED BY <1>2, <1>3, <1>4

LEMMA StartBackfillStep ==
  ASSUME Inv, StartBackfill
  PROVE  Inv'
<1>1. /\ UNCHANGED <<kind, task, pairs, cycles, logs, um, cached, fin>>
      /\ fill' = [fill EXCEPT !.todo = {id \in MissingFees \ fill.failed : id > fill.cursor}]
  BY DEF StartBackfill
<1>2. Steady /\ CyclesGrow /\ NoneCloses
  BY <1>1, NothingBooked
<1>3. fill \in [todo : SUBSET Nat, cursor : Nat, failed : SUBSET Nat]
  BY DEF Inv, Typed
<1>4. \A id \in fill'.todo : id \in MissingFees
  BY <1>1, <1>3
<1>5. fill' \in [todo : SUBSET Nat, cursor : Nat, failed : SUBSET Nat]
  <2>1. {id \in MissingFees \ fill.failed : id > fill.cursor} \in SUBSET Nat
    BY MissingSettled DEF Inv
  <2> QED BY <1>1, <1>3, <2>1
<1>6. Filling'
  <2>1. \A id \in fill'.todo :
          PairOf(id) \in Ids' /\ pairs'[PairOf(id)].stage \in {"settled", "done"}
    BY <1>1, <1>4, MissingSettled DEF Inv, Ids
  <2> QED BY <2>1 DEF Filling
<1>7. Typed' /\ Staged' /\ Executed'
  <2>1. Local
    BY <1>1, <1>5, LocalKept DEF Local
  <2> QED BY <1>2, <2>1, TypedNext DEF Steady
<1>8. Finishing' /\ Logged' /\ Drawn'
  BY <1>1, <1>2, FinishingStays, LoggedStays, DrawnStays
<1> QED BY <1>6, <1>7, <1>8 DEF Inv

LEMMA BackfillStep ==
  ASSUME Inv, BackfillLeg
  PROVE  Inv'
<1>1. Steady
  BY BackfillPairs DEF Inv
<1>2. UNCHANGED <<kind, task, cycles, logs, um, cached, fin>> /\ fill.todo # {}
  BY DEF BackfillLeg
<1>3. CyclesGrow /\ NoneCloses
  BY <1>2, CyclesKept
<1>4. /\ fill' \in [todo : SUBSET Nat, cursor : Nat, failed : SUBSET Nat]
      /\ fill'.todo \subseteq fill.todo
  <2> DEFINE id == Min(fill.todo)
  <2>1. id \in Nat /\ fill \in [todo : SUBSET Nat, cursor : Nat, failed : SUBSET Nat]
    BY <1>2, FillingLeg DEF Inv, Typed
  <2>2. \/ fill' = [fill EXCEPT !.todo = {}]
        \/ \E more \in {{}, {id}} :
             fill' = [todo |-> fill.todo \ {id}, cursor |-> id, failed |-> fill.failed \cup more]
    BY DEF BackfillLeg
  <2> HIDE DEF id
  <2> QED BY <2>1, <2>2
<1>5. Local /\ Modest
  BY <1>2, <1>4, LocalKept DEF Local, Modest
<1> QED BY <1>1, <1>3, <1>5, ModestStep

LEMMA CrashStep ==
  ASSUME Inv, Crash
  PROVE  Inv'
<1>1. Steady
  BY CrashPairs DEF Inv
<1>2. /\ UNCHANGED <<kind, task, cycles, logs, um, fill>>
      /\ cached' = {} /\ fin' = [t \in Tasks |-> Idle]
  BY DEF Crash
<1>3. CyclesGrow /\ NoneCloses
  BY <1>2, CyclesKept
<1>4. /\ Idle = [pc |-> Idle.pc, cycle |-> Idle.cycle, got |-> Idle.got]
      /\ Idle.pc = "idle" /\ IsSeq(Idle.got)
  BY DEF Idle, IsSeq
<1>5. FinTyped' /\ \A t \in Tasks : fin'[t].pc = "idle"
  <2>1. DOMAIN fin' = Tasks /\ \A t \in Tasks : fin'[t] = Idle
    BY <1>2
  <2> HIDE DEF Idle
  <2> QED BY <1>4, <2>1 DEF FinTyped, IsSeq
<1>6. Local /\ Modest
  BY <1>2, <1>5, LocalKept DEF Local, Modest
<1> QED BY <1>1, <1>3, <1>6, ModestStep

LEMMA InitInv == Init => Inv
<1> SUFFICES ASSUME Init PROVE Inv
  OBVIOUS
<1> PICK setup \in Setups :
      LET old == setup.old IN
        /\ kind = setup.kind
        /\ pairs = [i \in DOMAIN old |-> LegacyPair(old[i].task, old[i].result)]
        /\ um = SumOf([i \in DOMAIN old |-> Sign(old[i].task) * old[i].result["perp"].qty])
        /\ task = [t \in Tasks |->
                     LET n == Cardinality({i \in DOMAIN old : old[i].task = t})
                     IN [scheduled |-> n,
                         status |-> IF kind[t].type = "close" THEN "absent"
                                    ELSE IF n = Target[t] THEN "done" ELSE "running"]]
        /\ cycles = <<>> /\ logs = <<>> /\ cached = {}
        /\ fin = [t \in Tasks |-> Idle] /\ fill = NoFill
        /\ events = 0
  BY DEF Init
<1> DEFINE old == setup.old
<1>1. kind \in [Tasks -> Kind] /\ old \in Seq([task : Tasks, result : Results])
  BY CyclesAssumption
<1>2. Len(old) \in Nat /\ DOMAIN old = 1..Len(old) /\ IsFiniteSet(DOMAIN old)
  BY <1>1, LenProperties, FS_Interval
<1>3. \A i \in DOMAIN old : /\ old[i] \in [task : Tasks, result : Results]
                            /\ old[i].task \in Tasks /\ old[i].result \in [LegNames -> LegFill]
  <2>1. \A i \in 1..Len(old) : old[i] \in [task : Tasks, result : Results]
    <3> HIDE DEF old
    <3> QED BY <1>1, ElementOfSeq
  <2>2. Results \subseteq [LegNames -> LegFill]
    BY CyclesAssumption
  <2> HIDE DEF old
  <2> QED BY <1>2, <2>1, <2>2
<1>4. pairs = [i \in DOMAIN old |-> LegacyPair(old[i].task, old[i].result)]
  OBVIOUS
<1>5. um = SumOf([i \in DOMAIN old |-> Sign(old[i].task) * old[i].result["perp"].qty])
  OBVIOUS
<1>6. \A t \in Tasks : \E n : /\ n = Cardinality({i \in DOMAIN old : old[i].task = t})
                             /\ task[t] = [scheduled |-> n,
                                           status |-> IF kind[t].type = "close" THEN "absent"
                                                      ELSE IF n = Target[t] THEN "done" ELSE "running"]
  OBVIOUS
<1>7. task = [t \in Tasks |-> task[t]]
  OBVIOUS
<1>8. /\ cycles = <<>> /\ logs = <<>> /\ cached = {}
      /\ fin = [t \in Tasks |-> Idle] /\ fill = NoFill
  OBVIOUS
<1> HIDE DEF old
<1>9. ASSUME NEW i \in DOMAIN old
      PROVE  /\ pairs[i] \in PairRow /\ StagedPair(pairs[i]) /\ ~pairs[i].late
             /\ pairs[i].cycle = 0
             /\ Value(pairs[i]) = Sign(old[i].task) * old[i].result["perp"].qty
  <2> DEFINE t == old[i].task
             r == old[i].result
             row == [l \in LegNames |-> Row(r[l], NoFee)]
  <2>1. /\ t \in Tasks /\ r \in [LegNames -> LegFill] /\ "perp" \in LegNames
        /\ NoFee \in Fees
    BY <1>3 DEF LegNames, NoFee, Fees
  <2>2. pairs[i] = [task |-> t, cycle |-> 0, stage |-> "done", late |-> FALSE,
                    order |-> r, row |-> row]
    BY <1>4 DEF LegacyPair, Pair, NoCycle
  <2>3. row \in [LegNames -> LegRow] /\ row["perp"].qty = r["perp"].qty
    <3>1. \A l \in LegNames : Row(r[l], NoFee) \in LegRow
      BY <2>1 DEF Row, LegRow, LegFill
    <3> QED BY <2>1, <3>1 DEF Row
  <2> HIDE DEF row, t, r
  <2> DEFINE p == [task |-> t, cycle |-> 0, stage |-> "done", late |-> FALSE,
                   order |-> r, row |-> row]
  <2>4. p \in PairRow
    BY <2>1, <2>3 DEF PairRow, Stages
  <2>5. StagedPair(p) /\ ~p.late /\ p.cycle = 0
    BY <2>3 DEF StagedPair
  <2>6. Value(p) = Sign(t) * r["perp"].qty
    BY DEF Value
  <2>7. pairs[i] = p
    BY <2>2
  <2> HIDE DEF p
  <2> QED BY <2>4, <2>5, <2>6, <2>7 DEF t, r
<1>10. Ids = DOMAIN old
  BY <1>4 DEF Ids
<1>11. PairsTyped
  <2>1. pairs \in [1..Len(old) -> PairRow]
    BY <1>2, <1>4, <1>9
  <2> QED BY <1>1, <1>2, <2>1, Sequence DEF PairsTyped
<1>12. IsSeq(<<>>) /\ DOMAIN <<>> = {} /\ Len(<<>>) = 0
  BY DEF IsSeq
<1>13. CyclesTyped /\ IsSeq(logs) /\ DOMAIN logs = {} /\ DOMAIN cycles = {} /\ Len(cycles) = 0
  BY <1>8, <1>12 DEF CyclesTyped
<1>14. Staged
  <2>1. \A i \in Ids : pairs[i].cycle = 0 /\ StagedPair(pairs[i])
    BY <1>9, <1>10
  <2>2. Len(cycles) = 0
    BY <1>13
  <2>3. ASSUME NEW i \in Ids PROVE pairs[i].cycle <= Len(cycles)
    <3>1. pairs[i].cycle = 0
      BY <2>1
    <3> QED BY <2>2, <3>1, 0 <= 0
  <2> QED BY <2>1, <2>3 DEF Staged
<1>15. Executed /\ um \in Int
  <2>1. [i \in Ids |-> Value(pairs[i])]
          = [i \in DOMAIN old |-> Sign(old[i].task) * old[i].result["perp"].qty]
    BY <1>9, <1>10
  <2>2. um = Total([i \in Ids |-> Value(pairs[i])], Ids)
    BY <1>5, <2>1, SumOfIs
  <2>3. \A i \in Ids : Value(pairs[i]) \in Int
    BY <1>11, PairsAre, SignIs DEF Value, PairsTyped, LegNames
  <2>4. Total([i \in Ids |-> Value(pairs[i])], Ids) \in Int
    <3> DEFINE F == [i \in Ids |-> Value(pairs[i])]
    <3>1. IsFiniteSet(Ids) /\ \A i \in Ids : F[i] \in Int
      BY <1>2, <1>10, <2>3
    <3> HIDE DEF F
    <3>2. Total(F, Ids) \in Int
      BY <3>1, TotalInt
    <3> QED BY <3>2 DEF F
  <2> QED BY <2>2, <2>4, NetIs DEF Executed
<1>16. task \in [Tasks -> TaskRows]
  <2>1. ASSUME NEW t \in Tasks PROVE task[t] \in TaskRows
    <3>1. PICK n : /\ n = Cardinality({i \in DOMAIN old : old[i].task = t})
                   /\ task[t] = [scheduled |-> n,
                                 status |-> IF kind[t].type = "close" THEN "absent"
                                            ELSE IF n = Target[t] THEN "done" ELSE "running"]
      BY <1>6
    <3>2. IsFiniteSet({i \in DOMAIN old : old[i].task = t})
      BY <1>2, FS_Subset
    <3>3. n \in Nat
      BY <3>1, <3>2, FS_CardinalityType
    <3> QED BY <3>1, <3>3 DEF TaskRows
  <2> QED BY <1>7, <2>1
<1>17. /\ Idle = [pc |-> Idle.pc, cycle |-> Idle.cycle, got |-> Idle.got]
       /\ Idle.pc = "idle" /\ IsSeq(Idle.got)
  BY DEF Idle, IsSeq
<1>18. FinTyped /\ \A t \in Tasks : fin[t].pc = "idle"
  <2>1. DOMAIN fin = Tasks /\ \A t \in Tasks : fin[t] = Idle
    BY <1>8
  <2> HIDE DEF Idle
  <2> QED BY <1>17, <2>1 DEF FinTyped
<1>19. fill \in [todo : SUBSET Nat, cursor : Nat, failed : SUBSET Nat] /\ fill.todo = {}
  BY <1>8 DEF NoFill
<1>20. Typed
  BY <1>8, <1>11, <1>13, <1>15, <1>16, <1>18, <1>19 DEF Typed
<1>21. Filling /\ Finishing /\ Logged /\ Drawn
  BY <1>13, <1>18, <1>19 DEF Filling, Finishing, Finishes, Logged, Drawn
<1> QED BY <1>14, <1>15, <1>20, <1>21 DEF Inv

\* Stuttering.
LEMMA Stutter ==
  ASSUME Inv, UNCHANGED vars
  PROVE  Inv'
<1>1. UNCHANGED <<kind, task, pairs, cycles, logs, um, cached, fin, fill>>
  BY DEF vars
<1>2. Steady /\ CyclesGrow /\ NoneCloses
  BY <1>1, NothingBooked
<1>3. Local /\ Modest
  BY <1>1, LocalKept DEF Local, Modest
<1> QED BY <1>2, <1>3, ModestStep

LEMMA StepInv == Inv /\ [Next]_vars => Inv'
<1> SUFFICES ASSUME Inv, [Next]_vars PROVE Inv'
  OBVIOUS
<1>1. CASE UNCHANGED vars
  BY <1>1, Stutter
<1>2. ASSUME NEW t \in Tasks,
             \/ Dispatch(t) \/ VerifyCloseFlat(t) \/ Finalize(t)
             \/ CreateClose(t) \/ Start(t) \/ Pause(t) \/ Delete(t)
      PROVE  Inv'
  <2>1. CASE Dispatch(t)
    BY <2>1, DispatchStep
  <2>2. CASE VerifyCloseFlat(t)
    BY <2>2, VerifyStep
  <2>3. CASE TakeCycle(t)
    BY <2>3, TakeStep
  <2>4. CASE CloseCycle(t)
    BY <2>4, CloseStep
  <2>5. CASE ReadFigure(t)
    BY <2>5, ReadStep
  <2>6. CASE InsertCloseLog(t)
    BY <2>6, LogStep
  <2>7. CASE CreateClose(t) \/ Start(t) \/ Pause(t) \/ Delete(t)
    BY <2>7, OperatorStep
  <2> QED BY <1>2, <2>1, <2>2, <2>3, <2>4, <2>5, <2>6, <2>7 DEF Finalize
<1>3. ASSUME NEW i \in Ids, Execute(i) \/ Settle(i) \/ FetchFees(i) PROVE Inv'
  BY <1>3, PairStep
<1>4. CASE RefreshCache
  BY <1>4, RefreshStep
<1>5. CASE StartBackfill
  BY <1>5, StartBackfillStep
<1>6. CASE BackfillLeg
  BY <1>6, BackfillStep
<1>7. CASE Crash
  BY <1>7, CrashStep
<1> QED BY <1>1, <1>2, <1>3, <1>4, <1>5, <1>6, <1>7 DEF Next

\* The invariant: the rows are of their kinds; a pair's row and its order agree with
\* its stage; the exchange's position is what the executed pairs add up to; and what
\* the worker has read of a closed cycle, the close log and the last rows on the
\* curve stand as long as no pair of that cycle is settled after the closing.
THEOREM CyclesInvariant == Spec => []Inv
<1>1. Init => Inv
  BY InitInv
<1>2. Inv /\ [Next]_vars => Inv'
  BY StepInv
<1> QED BY <1>1, <1>2, PTL DEF Spec

-----------------------------------------------------------------------------
(* The properties.                                                         *)

\* The close log has the figures the curve showed.
LEMMA LogFromInv == Inv => LogIsTheCurve
<1> SUFFICES ASSUME Inv, NEW k \in DOMAIN logs,
                    \A i \in Ids : pairs[i].cycle = logs[k].cycle => ~pairs[i].late
             PROVE  LET g == logs[k]
                        c == g.cycle
                    IN  /\ cycles[c].closed
                        /\ {[kind |-> s.kind, spot |-> s.spot, perp |-> s.perp, qty |-> s.qty] :
                              s \in cycles[c].shown}
                             = {[kind |-> ty, spot |-> OfKind(g, ty).spot,
                                 perp |-> OfKind(g, ty).perp, qty |-> OfKind(g, ty).qty] :
                                  ty \in {x \in {"open", "close"} :
                                            \E l \in LegNames : FilledOn(c, x, l) # {}}}
  BY DEF LogIsTheCurve
<1> DEFINE g == logs[k]
           c == g.cycle
           Some == {x \in {"open", "close"} : \E l \in LegNames : FilledOn(c, x, l) # {}}
<1>1. /\ c \in DOMAIN cycles /\ cycles[c].closed /\ NoLate(c, pairs)
      /\ Told(g, kind, pairs)
  BY DEF Inv, Logged, LogStands, NoLate, Ids
<1>2. cycles[c].shown = {RowIn(c, ty, kind, pairs) : ty \in Some}
  <2>1. cycles[c].shown = CurveIn(c, kind, pairs)
    BY <1>1 DEF Inv, Drawn
  <2>2. Some = {x \in {"open", "close"} : \E l \in LegNames : FilledIn(c, x, l, kind, pairs) # {}}
    BY FilledIs
  <2> QED BY <2>1, <2>2 DEF CurveIn
<1>3. /\ g.openPerp = BasisIn(c, "open", "perp", kind, pairs)
      /\ g.closePerp = BasisIn(c, "close", "perp", kind, pairs)
      /\ g.openSpot = BasisIn(c, "open", "spot", kind, pairs)
      /\ g.closeSpot = BasisIn(c, "close", "spot", kind, pairs)
  BY <1>1 DEF Told, Figures
<1>4. ASSUME NEW ty \in {"open", "close"}
      PROVE  LET s == RowIn(c, ty, kind, pairs)
             IN  /\ s.kind = ty /\ s.spot = OfKind(g, ty).spot
                 /\ s.perp = OfKind(g, ty).perp /\ s.qty = OfKind(g, ty).qty
  <2> HIDE DEF g, c
  <2>1. CASE ty = "open"
    BY <1>3, <2>1 DEF RowIn, OfKind, BasisIn
  <2>2. CASE ty = "close"
    BY <1>3, <2>2 DEF RowIn, OfKind, BasisIn
  <2> QED BY <2>1, <2>2
<1>5. {[kind |-> s.kind, spot |-> s.spot, perp |-> s.perp, qty |-> s.qty] :
         s \in {RowIn(c, ty, kind, pairs) : ty \in Some}}
        = {[kind |-> ty, spot |-> OfKind(g, ty).spot,
            perp |-> OfKind(g, ty).perp, qty |-> OfKind(g, ty).qty] : ty \in Some}
  <2>1. \A ty \in Some : ty \in {"open", "close"}
    OBVIOUS
  <2> HIDE DEF Some, g, c
  <2> QED BY <1>4, <2>1
<1> QED BY <1>1, <1>2, <1>5

THEOREM CloseLogIsTheCurve == Spec => []LogIsTheCurve
BY CyclesInvariant, LogFromInv, PTL

\* What a bucket of the open positions says is what its pairs executed.
LEMMA BucketIsItsPairs ==
  ASSUME Inv, Settled, NEW d \in Directions, NEW c
  PROVE  Bucket(d, c).position = Total([i \in Ids |-> Value(pairs[i])], OnBucket(d, c))
<1> DEFINE V == [i \in Ids |-> Value(pairs[i])]
           Q == [i \in Ids |-> pairs[i].row["perp"].qty]
           is == OnBucket(d, c)
           opens == {i \in is : TypeOf(i) = "open"}
           closes == {i \in is : TypeOf(i) = "close"}
           e == IF d = "forward" THEN -1 ELSE 1
<1>1. PairsTyped /\ Staged /\ kind \in [Tasks -> Kind]
  BY DEF Inv, Typed, PairsTyped
<1>2. /\ IsFiniteSet(Ids) /\ is \subseteq Ids /\ opens \subseteq is /\ closes = is \ opens
      /\ e \in {-1, 1} /\ -e \in {-1, 1}
  <2>1. \A i \in is : TypeOf(i) \in {"open", "close"}
    BY <1>1, PairsAre DEF OnBucket, TypeOf, Kind
  <2>2. closes = is \ opens
    BY <2>1
  <2>3. IsFiniteSet(Ids) /\ is \subseteq Ids
    BY <1>1, PairsAre DEF OnBucket
  <2>4. e \in {-1, 1} /\ -e \in {-1, 1}
    <3>1. e = -1 \/ e = 1
      OBVIOUS
    <3> HIDE DEF e
    <3>2. \A n \in Int : n = -1 \/ n = 1 => -n \in {-1, 1}
      OBVIOUS
    <3>3. e \in Int
      BY <3>1
    <3> QED BY <3>1, <3>2, <3>3
  <2> QED BY <2>2, <2>3, <2>4
<1>3. IsFiniteSet(is) /\ IsFiniteSet(opens) /\ IsFiniteSet(closes)
  BY <1>2, FS_Subset
<1>4. \A i \in Ids : /\ Q[i] \in Nat /\ Q[i] = pairs[i].row["perp"].qty
                     /\ V[i] \in Int /\ V[i] = Sign(pairs[i].task) * Q[i]
  <2>1. ASSUME NEW i \in Ids
        PROVE  /\ pairs[i].row["perp"].qty = pairs[i].order["perp"].qty
               /\ pairs[i].row["perp"].qty \in Nat /\ pairs[i].task \in Tasks
    <3>1. StagedPair(pairs[i]) /\ pairs[i].stage \in {"settled", "done"}
      BY <1>1 DEF Staged, Settled
    <3> QED BY <1>1, <3>1, PairsAre DEF StagedPair, LegNames
  <2>2. \A i \in Ids : Value(pairs[i]) \in Int
    BY <1>1, <2>1, SignIs DEF Value
  <2> QED BY <2>1, <2>2 DEF Value
<1> HIDE DEF V, Q
<1>5. ASSUME NEW i \in is
      PROVE  /\ i \in opens => V[i] = e * Q[i]
             /\ i \in closes => V[i] = (-e) * Q[i]
  <2>1. /\ kind[pairs[i].task].direction = d /\ TypeOf(i) = kind[pairs[i].task].type
        /\ Q[i] \in Nat /\ V[i] = Sign(pairs[i].task) * Q[i]
    BY <1>2, <1>4 DEF OnBucket, DirectionOf, TypeOf
  <2>2. i \in opens => Sign(pairs[i].task) = e
    BY <2>1 DEF Sign, Directions
  <2>3. i \in closes => Sign(pairs[i].task) = -e
    BY <2>1 DEF Sign, Directions
  <2> QED BY <2>1, <2>2, <2>3
<1>6. /\ Qty(opens, "perp") = Total(Q, opens) /\ Qty(closes, "perp") = Total(Q, closes)
      /\ Total(Q, opens) \in Int /\ Total(Q, closes) \in Int
  <2>1. ASSUME NEW s \in SUBSET is, IsFiniteSet(s)
        PROVE  Qty(s, "perp") = Total(Q, s) /\ Total(Q, s) \in Int
    <3> DEFINE F == [i \in s |-> pairs[i].row["perp"].qty]
    <3>1. Alike(F, Q, s) /\ \A i \in s : F[i] \in Int /\ Q[i] \in Int
      BY <1>2, <1>4 DEF Alike
    <3>2. Qty(s, "perp") = Total(F, s)
      BY SumOfIs DEF Qty
    <3> HIDE DEF F
    <3> QED BY <2>1, <3>1, <3>2, TotalSame, TotalInt
  <2> QED BY <1>2, <1>3, <2>1
<1> HIDE DEF opens, closes, is, e
<1>7. Total(V, opens) = e * Total(Q, opens) /\ Total(V, closes) = (-e) * Total(Q, closes)
  <2>1. /\ \A i \in opens : Q[i] \in Int /\ V[i] = e * Q[i]
        /\ \A i \in closes : Q[i] \in Int /\ V[i] = (-e) * Q[i]
    BY <1>2, <1>4, <1>5
  <2>2. Total(V, opens) = e * Total(Q, opens)
    BY <1>2, <1>3, <2>1, TotalSigned
  <2>3. Total(V, closes) = (-e) * Total(Q, closes)
    BY <1>2, <1>3, <2>1, TotalSigned
  <2> QED BY <2>2, <2>3
<1>8. Total(V, is) = Total(V, opens) + Total(V, closes)
  <2>1. \A i \in is : V[i] \in Int
    BY <1>2, <1>4
  <2> QED BY <1>2, <1>3, <2>1, TotalSplit
<1>9. Bucket(d, c).position = e * (Total(Q, opens) - Total(Q, closes))
  BY <1>6 DEF Bucket, Remaining, is, opens, closes, e
<1>10. Total(V, is) = e * (Total(Q, opens) - Total(Q, closes))
  <2>1. CASE e = 1
    BY <1>6, <1>7, <1>8, <2>1
  <2>2. CASE e = -1
    BY <1>6, <1>7, <1>8, <2>2
  <2> QED BY <1>2, <2>1, <2>2
<1> QED BY <1>9, <1>10 DEF V, is

LEMMA BooksBalance ==
  ASSUME Inv, Settled
  PROVE  um = SumOf([p \in Positions |-> p.position])
                + Net({i \in Ids : ~OpenCycle(pairs[i].cycle)})
<1> DEFINE V == [i \in Ids |-> Value(pairs[i])]
           O == {i \in Ids : OpenCycle(pairs[i].cycle)}
           C == {i \in Ids : ~OpenCycle(pairs[i].cycle)}
           J == {i \in O : \E l \in LegNames : pairs[i].row[l].qty > 0}
           h == [i \in J |-> Bucket(DirectionOf(i), pairs[i].cycle)]
           G == [p \in Positions |-> p.position]
<1>1. /\ PairsTyped /\ CyclesTyped /\ Staged /\ kind \in [Tasks -> Kind] /\ um = Net(Ids)
  BY DEF Inv, Typed, PairsTyped, Executed
<1>2. /\ IsFiniteSet(Ids) /\ O \subseteq Ids /\ C = Ids \ O /\ J \subseteq O
  BY <1>1, PairsAre
<1>3. IsFiniteSet(O) /\ IsFiniteSet(C) /\ IsFiniteSet(J)
  BY <1>2, FS_Subset
<1>4. \A i \in Ids : V[i] \in Int /\ V[i] = Value(pairs[i])
  BY <1>1, PairsAre, SignIs DEF Value, LegNames
<1>5. um = Total(V, Ids)
  BY <1>1, NetIs
<1>6. Net(C) = Total(V, C)
  <2> DEFINE F == [i \in C |-> Value(pairs[i])]
  <2>1. Alike(F, V, C) /\ \A i \in C : F[i] \in Int
    BY <1>2, <1>4 DEF Alike
  <2>2. Net(C) = Total(F, C)
    BY NetIs
  <2> HIDE DEF F, V
  <2> QED BY <1>3, <2>1, <2>2, TotalSame
<1>7. ASSUME NEW i \in O \ J PROVE V[i] = 0
  <2>1. StagedPair(pairs[i]) /\ pairs[i].stage \in {"settled", "done"} /\ "perp" \in LegNames
    BY <1>1, <1>2 DEF Staged, Settled, LegNames
  <2>2. pairs[i].row["perp"].qty \in Nat /\ ~(pairs[i].row["perp"].qty > 0)
    BY <1>1, <1>2, <2>1, PairsAre
  <2>3. pairs[i].order["perp"].qty = 0 /\ pairs[i].task \in Tasks
    BY <1>1, <1>2, <2>1, <2>2, PairsAre DEF StagedPair
  <2> QED BY <1>1, <1>2, <1>4, <2>3, SignIs DEF Value
<1>8. h \in [J -> Positions] /\ \A p \in Positions : \E i \in J : h[i] = p
  <2>1. ASSUME NEW i \in J PROVE Bucket(DirectionOf(i), pairs[i].cycle) \in Positions
    <3> DEFINE y == <<DirectionOf(i), pairs[i].cycle>>
    <3>1. y[1] = DirectionOf(i) /\ y[2] = pairs[i].cycle
      OBVIOUS
    <3>2. y \in Directions \X ({NoCycle} \cup DOMAIN cycles)
      <4>1. DirectionOf(i) \in Directions
        BY <1>1, PairsAre DEF DirectionOf, Kind
      <4>2. pairs[i].cycle \in 0..Len(cycles)
        BY <1>1, PairsAre, SeqIndices DEF CyclesTyped, Staged
      <4>3. pairs[i].cycle \in {NoCycle} \cup DOMAIN cycles
        BY <1>1, <4>2, SeqIndices DEF CyclesTyped, NoCycle
      <4> QED BY <4>1, <4>3
    <3>3. OpenCycle(y[2]) /\ i \in OnBucket(y[1], y[2])
      BY <3>1 DEF OnBucket
    <3> HIDE DEF y
    <3> QED BY <3>1, <3>2, <3>3 DEF Positions
  <2>2. ASSUME NEW p \in Positions PROVE \E i \in J : h[i] = p
    <3>1. PICK y \in Directions \X ({NoCycle} \cup DOMAIN cycles) :
            OpenCycle(y[2]) /\ OnBucket(y[1], y[2]) # {} /\ p = Bucket(y[1], y[2])
      BY DEF Positions
    <3>2. PICK i \in OnBucket(y[1], y[2]) : TRUE
      BY <3>1
    <3>3. i \in J /\ DirectionOf(i) = y[1] /\ pairs[i].cycle = y[2]
      BY <3>1, <3>2 DEF OnBucket
    <3> QED BY <3>1, <3>3
  <2> QED BY <2>1, <2>2
<1>9. IsFiniteSet(Positions)
  <2>1. h \in Surjection(J, Positions)
    <3> HIDE DEF h, J
    <3> QED BY <1>8 DEF Surjection
  <2> HIDE DEF h, J
  <2> QED BY <1>3, <2>1, FS_Surjection
<1>10. ASSUME NEW p \in Positions
       PROVE  G[p] = Total(V, Fiber(h, J, p))
  <2>1. PICK y \in Directions \X ({NoCycle} \cup DOMAIN cycles) :
          OpenCycle(y[2]) /\ p = Bucket(y[1], y[2])
    BY DEF Positions
  <2>2. Fiber(h, J, p) = OnBucket(y[1], y[2])
    <3>1. ASSUME NEW i \in J, h[i] = p PROVE i \in OnBucket(y[1], y[2])
      <4>1. p.direction = y[1] /\ p.cycle = y[2]
        BY <2>1 DEF Bucket
      <4>2. h[i].direction = DirectionOf(i) /\ h[i].cycle = pairs[i].cycle
        BY DEF Bucket
      <4> QED BY <3>1, <4>1, <4>2 DEF OnBucket
    <3>2. ASSUME NEW i \in OnBucket(y[1], y[2]) PROVE i \in J /\ h[i] = p
      <4>1. i \in J /\ DirectionOf(i) = y[1] /\ pairs[i].cycle = y[2]
        BY <2>1 DEF OnBucket
      <4> QED BY <2>1, <4>1
    <3> QED BY <3>1, <3>2 DEF Fiber
  <2>3. y[1] \in Directions
    OBVIOUS
  <2>4. p.position = Total(V, OnBucket(y[1], y[2]))
    BY <2>1, <2>3, BucketIsItsPairs
  <2>5. G[p] = p.position
    OBVIOUS
  <2> HIDE DEF G, V, h, J
  <2> QED BY <2>2, <2>4, <2>5
<1>11. Total(G, Positions) = Total(V, J)
  <2>1. \A i \in J : V[i] \in Int
    BY <1>2, <1>4
  <2> HIDE DEF G, V, h, J
  <2> QED BY <1>3, <1>8, <1>9, <1>10, <2>1, TotalFibers
<1>12. SumOf([p \in Positions |-> p.position]) = Total(V, J)
  BY <1>11, SumOfIs
<1> HIDE DEF V, O, C, J, G, h
<1>13. /\ Total(V, Ids) = Total(V, O) + Total(V, Ids \ O) /\ Total(V, O) \in Int
       /\ Total(V, Ids \ O) \in Int
  BY <1>2, <1>4, TotalSplit
<1>14. Total(V, O) = Total(V, J) + Total(V, O \ J) /\ Total(V, J) \in Int
  <2>1. \A i \in O : V[i] \in Int
    BY <1>2, <1>4
  <2> QED BY <1>2, <1>3, <2>1, TotalSplit
<1>15. Total(V, O \ J) = 0
  <2>1. IsFiniteSet(O \ J)
    BY <1>3, FS_Subset
  <2> QED BY <1>7, <2>1, TotalZero
<1>16. um = Total(V, J) + Total(V, C)
  BY <1>2, <1>5, <1>13, <1>14, <1>15
<1> QED BY <1>6, <1>12, <1>16 DEF C

LEMMA TypeFromInv ==
  ASSUME Inv
  PROVE  TypeOK
<1>1. /\ PairsTyped /\ CyclesTyped /\ Staged /\ Filling /\ Logged
      /\ task \in [Tasks -> TaskRows] /\ um \in Int /\ cached \subseteq Int
      /\ fill \in [todo : SUBSET Nat, cursor : Nat, failed : SUBSET Nat]
  BY DEF Inv, Typed
<1>2. ASSUME NEW i \in Ids
      PROVE  /\ pairs[i].task \in Tasks /\ pairs[i].cycle \in 0..Len(cycles)
             /\ pairs[i].stage \in {"sent", "executed", "settled", "done"}
             /\ pairs[i].order \in [LegNames -> LegFill]
  <2>1. pairs[i] \in PairRow
    BY <1>1, PairsAre
  <2>2. pairs[i].cycle \in 0..Len(cycles)
    BY <1>1, PairsAre, SeqIndices DEF CyclesTyped, Staged
  <2> QED BY <2>1, <2>2 DEF PairRow, Stages
<1>3. ASSUME NEW id \in fill.todo PROVE id \in 1..(2 * Len(pairs))
  <2>1. id \in Nat /\ (id + 1) \div 2 \in 1..Len(pairs) /\ Len(pairs) \in Nat
    BY <1>1, PairsAre DEF Filling, PairOf
  <2> DEFINE n == Len(pairs)
             m == (id + 1) \div 2
  <2>2. 2 * m <= id + 1 /\ id <= 2 * m /\ m \in Nat
    BY <2>1
  <2> HIDE DEF m
  <2>3. m \in 1..n /\ n \in Nat
    BY <2>1 DEF m
  <2> HIDE DEF n
  <2>4. id \in 1..(2 * n)
    BY <2>1, <2>2, <2>3
  <2> QED BY <2>4 DEF n
<1>4. \A k \in DOMAIN logs : logs[k].cycle \in DOMAIN cycles
  BY <1>1 DEF Logged, LogStands
<1> QED BY <1>1, <1>2, <1>3, <1>4 DEF TypeOK

\* Every variable is of its kind; and with every pair settled, the open positions and
\* the closed cycles together are the exchange's position.
THEOREM BooksAreTheExchange == Spec => []BooksMatchExchange
<1>1. Inv => BooksMatchExchange
  BY TypeFromInv, BooksBalance DEF BooksMatchExchange
<1> QED BY <1>1, CyclesInvariant, PTL

\* Every step is steady.
LEMMA StepSteady ==
  ASSUME Inv, [Next]_vars
  PROVE  Steady
<1>1. CASE UNCHANGED <<kind, pairs, cycles, um>>
  BY <1>1, NothingBooked
<1>2. ASSUME NEW t \in Tasks, Dispatch(t) PROVE Steady
  BY <1>2, DispatchPairs DEF Inv
<1>3. ASSUME NEW t \in Tasks, CloseCycle(t) PROVE Steady
  <2>1. fin[t].cycle \in DOMAIN cycles
    BY <1>3 DEF CloseCycle, Inv, Finishing, Finishes
  <2>2. UNCHANGED <<kind, pairs, um>> /\ Len(cycles) \in Nat /\ Len(cycles') = Len(cycles)
    BY <1>3, <2>1, CloseCycles DEF CloseCycle, Inv
  <2> QED BY <2>2, PairsStay DEF Inv, Typed
<1>4. ASSUME NEW i \in Ids, Execute(i) \/ Settle(i) \/ FetchFees(i) PROVE Steady
  BY <1>4, ExecutePairs, SettlePairs, FetchPairs DEF Inv
<1>5. CASE BackfillLeg
  BY <1>5, BackfillPairs DEF Inv
<1>6. CASE Crash
  BY <1>6, CrashPairs DEF Inv
<1>7. ASSUME NEW t \in Tasks,
             \/ VerifyCloseFlat(t) \/ TakeCycle(t) \/ ReadFigure(t) \/ InsertCloseLog(t)
             \/ CreateClose(t) \/ Start(t) \/ Pause(t) \/ Delete(t)
      PROVE  UNCHANGED <<kind, pairs, cycles, um>>
  BY <1>7 DEF VerifyCloseFlat, TakeCycle, ReadFigure, InsertCloseLog,
              CreateClose, Start, Pause, Delete, SetStatus
<1>8. ASSUME UNCHANGED vars \/ RefreshCache \/ StartBackfill
      PROVE  UNCHANGED <<kind, pairs, cycles, um>>
  BY <1>8 DEF vars, RefreshCache, StartBackfill
<1> QED BY <1>1, <1>2, <1>3, <1>4, <1>5, <1>6, <1>7, <1>8 DEF Next, Finalize

\* No step changes fee columns that were written.
THEOREM FeesAreWrittenOnce == Spec => FeeWrittenOnce
<1>1. ASSUME Inv, [Next]_vars
      PROVE  [\A i \in Ids : \A l \in LegNames :
                pairs[i].row[l].fee # NoFee => pairs'[i].row[l].fee = pairs[i].row[l].fee]_vars
  <2>1. Steady
    BY <1>1, StepSteady
  <2> QED BY <2>1 DEF Steady, GoesOn, KeepsFees
<1> QED BY <1>1, CyclesInvariant, PTL DEF Spec, FeeWrittenOnce

\* The merged table has each open bucket and each position of the account once, and
\* no drift for an account that could not be read.
LEMMA MergeKeepsAll ==
  ASSUME NEW account \in Accounts
  PROVE  LET ps == Positions
             rows == Merge(account, ps)
         IN /\ \A b \in ps : Cardinality({r \in rows : b \in r.bucket}) = 1
            /\ \A u \in UmPositions(account) : Cardinality({r \in rows : u \in r.um}) = 1
            /\ \A r \in rows : ~account.verified => ~r.drift
<1> DEFINE ps == Positions
           us == UmPositions(account)
           left == ps \ Matched(account, ps)
           OfUm(u) == MergeRow(MatchOf(u, ps), {u}, account)
           OfBucket(b) == MergeRow({b}, {}, account)
           base == {OfUm(u) : u \in us} \cup {OfBucket(b) : b \in left}
           reverse == {r \in base : \E b \in r.bucket : b.direction = "reverse"}
           drift == ReverseDrift(reverse, account)
           f(r) == IF r \in reverse THEN [r EXCEPT !.drift = drift] ELSE r
           rows == Merge(account, ps)
<1>1. \A u, v \in us : u.direction = v.direction => u = v
  BY CyclesAssumption DEF UmPositions
<1>2. rows = (base \ reverse) \cup {[r EXCEPT !.drift = drift] : r \in reverse}
  BY DEF Merge
<1> HIDE DEF ps, rows, us
<1>3. \A u : /\ OfUm(u).bucket = MatchOf(u, ps) /\ OfUm(u).um = {u}
             /\ OfUm(u).drift => account.verified
  BY DEF MergeRow
<1>4. \A b : /\ OfBucket(b).bucket = {b} /\ OfBucket(b).um = {}
             /\ OfBucket(b).drift => account.verified
  BY DEF MergeRow
<1>5. drift => account.verified
  BY DEF ReverseDrift
<1>6. ASSUME NEW r \in base
      PROVE  /\ [r EXCEPT !.drift = drift].bucket = r.bucket
             /\ [r EXCEPT !.drift = drift].um = r.um
             /\ [r EXCEPT !.drift = drift].drift = drift
             /\ r.drift => account.verified
  <2> HIDE DEF drift
  <2>1. DOMAIN r = {"bucket", "um", "status", "exposure", "drift"}
    BY DEF MergeRow
  <2>2. r.drift => account.verified
    <3>1. (\E u \in us : r = OfUm(u)) \/ (\E b \in left : r = OfBucket(b))
      OBVIOUS
    <3> HIDE DEF OfUm, OfBucket, base, reverse, left
    <3> QED BY <1>3, <1>4, <3>1, Zenon
  <2> DEFINE q == [r EXCEPT !.drift = drift]
  <2>3. q.bucket = r.bucket /\ q.um = r.um
    BY <2>1
  <2>4. q.drift = drift
    BY <2>1
  <2> QED BY <2>2, <2>3, <2>4
<1> HIDE DEF drift, OfUm, OfBucket
<1>7. /\ \A r \in base : f(r) \in rows
      /\ \A q \in rows : \E r \in base : q = f(r)
  <2> HIDE DEF base
  <2> QED BY <1>2
<1>8. \A r \in base : /\ f(r).bucket = r.bucket /\ f(r).um = r.um
                      /\ f(r).drift => account.verified
  <2> HIDE DEF base, reverse
  <2> QED BY <1>5, <1>6
<1> HIDE DEF f, reverse
<1>9. ASSUME NEW b \in ps PROVE Cardinality({r \in rows : b \in r.bucket}) = 1
  <2>1. \E r \in base : b \in r.bucket /\ \A q \in base : b \in q.bucket => q = r
    <3>1. CASE b \in Matched(account, ps)
      <4>1. PICK u \in us : b \in MatchOf(u, ps)
        BY <3>1 DEF Matched, us
      <4>2. OfUm(u) \in base /\ b \in OfUm(u).bucket
        BY <1>3, <4>1
      <4>3. \A v \in us : b \in MatchOf(v, ps) => v = u
        BY <1>1, <4>1 DEF MatchOf, Newest
      <4>4. ASSUME NEW q \in base, b \in q.bucket PROVE q = OfUm(u)
        <5>1. CASE \E v \in us : q = OfUm(v)
          BY <1>3, <4>3, <4>4, <5>1
        <5>2. CASE \E c \in left : q = OfBucket(c)
          BY <1>4, <3>1, <4>4, <5>2
        <5> QED BY <5>1, <5>2
      <4> QED BY <4>2, <4>4
    <3>2. CASE b \notin Matched(account, ps)
      <4>1. OfBucket(b) \in base /\ b \in OfBucket(b).bucket
        BY <1>4, <3>2
      <4>2. ASSUME NEW q \in base, b \in q.bucket PROVE q = OfBucket(b)
        <5>1. CASE \E v \in us : q = OfUm(v)
          BY <1>3, <3>2, <4>2, <5>1 DEF Matched, us
        <5>2. CASE \E c \in left : q = OfBucket(c)
          BY <1>4, <4>2, <5>2
        <5> QED BY <5>1, <5>2
      <4> QED BY <4>1, <4>2
    <3> QED BY <3>1, <3>2
  <2> HIDE DEF base
  <2>2. PICK r \in base : b \in r.bucket /\ \A q \in base : b \in q.bucket => q = r
    BY <2>1
  <2>3. {q \in rows : b \in q.bucket} = {f(r)}
    BY <1>7, <1>8, <2>2
  <2> QED BY <2>3, FS_Singleton
<1>10. ASSUME NEW u \in us PROVE Cardinality({r \in rows : u \in r.um}) = 1
  <2>1. OfUm(u) \in base /\ u \in OfUm(u).um /\ \A q \in base : u \in q.um => q = OfUm(u)
    BY <1>3, <1>4
  <2> HIDE DEF base
  <2>2. {q \in rows : u \in q.um} = {f(OfUm(u))}
    BY <1>7, <1>8, <2>1
  <2> QED BY <2>2, FS_Singleton
<1>11. \A r \in rows : ~account.verified => ~r.drift
  <2> HIDE DEF base
  <2> QED BY <1>7, <1>8
<1> QED BY <1>9, <1>10, <1>11 DEF ps, us, rows

THEOREM MergeIsComplete == Spec => []MergeLosesNothing
<1>1. MergeLosesNothing
  BY MergeKeepsAll DEF MergeLosesNothing
<1> QED BY <1>1, PTL
=============================================================================
