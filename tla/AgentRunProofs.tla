---------------------------- MODULE AgentRunProofs ----------------------------
(***************************************************************************)
(* Proofs about AgentRun: its types, the ownership boundary, one side per  *)
(* symbol, no addition to what is held, and the limits of the day and of   *)
(* the cash reserve.                                                       *)
(***************************************************************************)
EXTENDS AgentRun, FiniteSetTheorems, SequenceTheorems, WellFoundedInduction, TLAPS

(***************************************************************************)
(* Induction, by a least counterexample                                    *)
(***************************************************************************)

LEMMA LeastElement ==
  ASSUME NEW T \in SUBSET Nat, T # {}
  PROVE  \E m \in T : \A k \in T : m <= k
<1> DEFINE R == {ss \in Nat \X Nat : ss[1] < ss[2]}
<1>1. IsWellFoundedOn(R, Nat)
  BY NatLessThanWellFounded DEF OpToRel
<1> HIDE DEF R
<1>2. PICK m \in T : \A k \in T : ~ (<<k, m>> \in R)
  BY <1>1, WFMin
<1>3. \A k \in T : ~ (k < m)
  BY <1>2 DEF R
<1> QED BY <1>3

\* A set of rows has a latest one.
LEMMA LatestRow ==
  ASSUME NEW N \in Nat, NEW S \in SUBSET (1..N), S # {}
  PROVE  \E i \in S : \A j \in S : j <= i
<1> DEFINE T == {k \in Nat : \E i \in S : k = N - i}
<1>1. T \in SUBSET Nat /\ T # {}
  <2>1. PICK i \in S : TRUE
    OBVIOUS
  <2>2. N - i \in T
    OBVIOUS
  <2> QED BY <2>2
<1>2. PICK m \in T : \A k \in T : m <= k
  <2> HIDE DEF T
  <2> QED BY <1>1, LeastElement
<1>3. PICK i \in S : m = N - i
  BY <1>2
<1>4. ASSUME NEW j \in S PROVE j <= i
  <2>1. N - j \in T
    OBVIOUS
  <2>2. N - i <= N - j
    BY <1>2, <1>3, <2>1
  <2> QED BY <2>2
<1> QED BY <1>4

(***************************************************************************)
(* Running sums of a sequence of weights                                   *)
(***************************************************************************)

Sums(w, f) ==
  /\ f \in [0..Len(w) -> Nat]
  /\ f[0] = 0
  /\ \A n \in 1..Len(w) : f[n] = f[n - 1] + w[n]

\* The sums of an initial part of the weights.
SumsTo(w, n, f) ==
  /\ f \in [0..n -> Nat]
  /\ f[0] = 0
  /\ \A k \in 1..n : f[k] = f[k - 1] + w[k]

LEMMA SumsToExist ==
  ASSUME NEW w \in Seq(Nat), NEW N \in 0..Len(w)
  PROVE  \E f : SumsTo(w, N, f)
<1> DEFINE T == {n \in 0..Len(w) : ~ \E f : SumsTo(w, n, f)}
<1>1. SUFFICES ASSUME T # {} PROVE FALSE
  OBVIOUS
<1>2. PICK m \in T : \A k \in T : m <= k
  <2>1. T \in SUBSET Nat
    OBVIOUS
  <2> HIDE DEF T
  <2> QED BY <1>1, <2>1, LeastElement
<1>3. m # 0
  <2>1. SumsTo(w, 0, [k \in 0..0 |-> 0])
    BY DEF SumsTo
  <2> QED BY <2>1
<1>4. m - 1 \in 0..Len(w) /\ m \in 1..Len(w) /\ m - 1 \notin T
  BY <1>2, <1>3
<1>5. PICK f : SumsTo(w, m - 1, f)
  BY <1>4
<1>6. w[m] \in Nat /\ f \in [0..(m - 1) -> Nat]
  BY <1>4, <1>5 DEF SumsTo
<1> DEFINE g == [k \in 0..m |-> IF k = m THEN f[m - 1] + w[m] ELSE f[k]]
<1>7. SumsTo(w, m, g)
  <2>1. g \in [0..m -> Nat]
    BY <1>4, <1>6
  <2>2. g[0] = 0
    BY <1>4, <1>5 DEF SumsTo
  <2>3. ASSUME NEW k \in 1..m PROVE g[k] = g[k - 1] + w[k]
    <3>1. CASE k = m
      BY <3>1, <1>4
    <3>2. CASE k # m
      BY <3>2, <1>4, <1>5 DEF SumsTo
    <3> QED BY <3>1, <3>2
  <2> QED BY <2>1, <2>2, <2>3 DEF SumsTo
<1> QED BY <1>7

\* Total adds the weights up.
LEMMA TotalIsSum ==
  ASSUME NEW w \in Seq(Nat)
  PROVE  \E f : Sums(w, f) /\ Total(w) = f[Len(w)]
<1> DEFINE step(g) == [n \in 0..Len(w) |-> IF n = 0 THEN 0 ELSE g[n - 1] + w[n]]
           sum == CHOOSE g : g = step(g)
<1>1. Len(w) \in Nat
  OBVIOUS
<1>2. PICK f : SumsTo(w, Len(w), f)
  BY <1>1, SumsToExist
<1>3. f = step(f)
  BY <1>1, <1>2 DEF SumsTo
<1>4. sum = step(sum)
  <2> HIDE DEF step
  <2> QED BY <1>3
<1>5. Sums(w, sum)
  <2> HIDE DEF sum
  <2> DEFINE T == {n \in 0..Len(w) : sum[n] # f[n]}
  <2>1. sum = step(sum) /\ f \in [0..Len(w) -> Nat]
    BY <1>2, <1>4 DEF SumsTo
  <2>2. ASSUME T # {} PROVE FALSE
    <3>1. PICK m \in T : \A k \in T : m <= k
      <4>1. T \in SUBSET Nat
        OBVIOUS
      <4> HIDE DEF T
      <4> QED BY <2>2, <4>1, LeastElement
    <3>2. m # 0
      BY <1>1, <1>2, <2>1 DEF SumsTo
    <3>3. m - 1 \in 0..Len(w) /\ m \in 1..Len(w) /\ m - 1 \notin T
      BY <1>1, <3>1, <3>2
    <3>4. sum[m] = sum[m - 1] + w[m]
      <4> DEFINE h == step(sum)
      <4>1. h[m] = sum[m - 1] + w[m]
        BY <3>2, <3>3
      <4>2. sum = h
        BY <2>1
      <4> HIDE DEF h
      <4> QED BY <4>1, <4>2
    <3>5. f[m] = f[m - 1] + w[m]
      BY <1>2, <3>3 DEF SumsTo
    <3>6. sum[m] = f[m]
      BY <3>3, <3>4, <3>5
    <3> QED BY <3>1, <3>6
  <2>3. \A n \in 0..Len(w) : sum[n] = f[n]
    BY <2>2
  <2>4. DOMAIN sum = 0..Len(w) /\ sum = [n \in 0..Len(w) |-> sum[n]]
    BY <2>1
  <2>5. sum = f
    BY <2>1, <2>3, <2>4
  <2> QED BY <1>2, <2>5 DEF Sums, SumsTo
<1>6. Total(w) = sum[Len(w)]
  BY DEF Total
<1> QED BY <1>5, <1>6

\* A book whose weights grew in one row at most, and by d at most, has not
\* grown by more.
LEMMA SumsCompare ==
  ASSUME NEW v \in Seq(Nat), NEW w \in Seq(Nat), NEW f, NEW g, NEW d \in Nat, NEW k \in Nat,
         Sums(v, f), Sums(w, g), Len(v) <= Len(w),
         \A n \in 1..Len(v) : n # k => w[n] <= v[n],
         k \in 1..Len(v) => w[k] <= v[k] + d
  PROVE  \A n \in 0..Len(v) : g[n] <= f[n] + (IF k \in 1..n THEN d ELSE 0)
<1> DEFINE Extra(n) == IF k \in 1..n THEN d ELSE 0
           T == {n \in 0..Len(v) : ~ (g[n] <= f[n] + Extra(n))}
<1>0. Len(v) \in Nat /\ Len(w) \in Nat
  OBVIOUS
<1>1. SUFFICES ASSUME T # {} PROVE FALSE
  OBVIOUS
<1>2. PICK m \in T : \A j \in T : m <= j
  <2>1. T \in SUBSET Nat
    OBVIOUS
  <2> HIDE DEF T
  <2> QED BY <1>1, <2>1, LeastElement
<1>3. m # 0
  BY <1>0, <1>2 DEF Sums
<1>4. m - 1 \in 0..Len(v) /\ m \in 1..Len(v) /\ m \in 1..Len(w) /\ m - 1 \notin T
  BY <1>0, <1>2, <1>3
<1> HIDE DEF T, Extra
<1>5. f[m] = f[m - 1] + v[m] /\ f[m - 1] \in Nat /\ v[m] \in Nat
  <2>1. v[m] \in Nat
    BY <1>4, ElementOfSeq
  <2> QED BY <2>1, <1>0, <1>4 DEF Sums
<1>6. g[m] = g[m - 1] + w[m] /\ g[m - 1] \in Nat /\ w[m] \in Nat
  <2>1. w[m] \in Nat /\ m - 1 \in 0..Len(w)
    BY <1>0, <1>4, ElementOfSeq
  <2> QED BY <2>1, <1>0, <1>4 DEF Sums
<1> USE DEF T, Extra
<1>a. \A a, b, x, y, e \in Nat :
        (a <= b + e /\ x <= y) \/ (a <= b /\ x <= y + e) => a + x <= (b + y) + e
  OBVIOUS
<1>7. g[m - 1] <= f[m - 1] + Extra(m - 1)
  BY <1>4
<1>8. CASE m = k
  <2>1. Extra(m) = d /\ Extra(m - 1) = 0
    BY <1>4, <1>8
  <2>2. w[m] <= v[m] + d
    BY <1>4, <1>8
  <2>3. g[m - 1] <= f[m - 1]
    BY <1>5, <1>7, <2>1, SMTT(30)
  <2>4. g[m] <= f[m] + d
    <3> HIDE DEF T, Extra
    <3>1. g[m - 1] + w[m] <= (f[m - 1] + v[m]) + d
      BY <1>a, <1>5, <1>6, <2>2, <2>3
    <3> QED BY <1>5, <1>6, <3>1
  <2> QED BY <1>2, <2>1, <2>4
<1>9. CASE m # k
  <2>1. Extra(m) = Extra(m - 1) /\ Extra(m) \in Nat
    BY <1>4, <1>9
  <2>2. w[m] <= v[m]
    BY <1>4, <1>9
  <2> DEFINE e == Extra(m)
  <2>3. e \in Nat /\ g[m - 1] <= f[m - 1] + e
    BY <1>7, <2>1
  <2>4. g[m] <= f[m] + e
    <3> HIDE DEF e, T, Extra
    <3>1. g[m - 1] + w[m] <= (f[m - 1] + v[m]) + e
      BY <1>a, <1>5, <1>6, <2>2, <2>3
    <3> QED BY <1>5, <1>6, <3>1
  <2> QED BY <1>2, <2>4
<1> QED BY <1>8, <1>9

\* The total, of a book with the same rows or with one more.
LEMMA TotalGrows ==
  ASSUME NEW v \in Seq(Nat), NEW w \in Seq(Nat), NEW d \in Nat, NEW k \in Nat,
         \A n \in 1..Len(v) : n # k => w[n] <= v[n],
         k \in 1..Len(v) => w[k] <= v[k] + d,
         \/ Len(w) = Len(v)
         \/ Len(w) = Len(v) + 1 /\ k = Len(w) /\ w[Len(w)] <= d
  PROVE  Total(w) <= Total(v) + d
<1>0. Len(v) \in Nat /\ Len(w) \in Nat
  OBVIOUS
<1>1. PICK f : Sums(v, f) /\ Total(v) = f[Len(v)]
  BY TotalIsSum
<1>2. PICK g : Sums(w, g) /\ Total(w) = g[Len(w)]
  BY TotalIsSum
<1>3. \A n \in 0..Len(v) : g[n] <= f[n] + (IF k \in 1..n THEN d ELSE 0)
  <2>1. Len(v) <= Len(w)
    BY <1>0
  <2> QED BY <1>1, <1>2, <2>1, SumsCompare, Zenon
<1>4. g[Len(v)] <= f[Len(v)] + (IF k \in 1..Len(v) THEN d ELSE 0)
  BY <1>0, <1>3
<1>5. f[Len(v)] \in Nat /\ g[Len(v)] \in Nat /\ g[Len(w)] \in Nat
  BY <1>0, <1>1, <1>2, SMTT(30) DEF Sums
<1>6. CASE Len(w) = Len(v)
  BY <1>1, <1>2, <1>4, <1>5, <1>6
<1>7. CASE Len(w) = Len(v) + 1 /\ k = Len(w) /\ w[Len(w)] <= d
  <2>1. g[Len(w)] = g[Len(v)] + w[Len(w)] /\ w[Len(w)] \in Nat
    <3>1. w[Len(w)] \in Nat /\ Len(w) \in 1..Len(w) /\ Len(v) = Len(w) - 1
      BY <1>0, <1>7, ElementOfSeq
    <3> QED BY <1>2, <3>1 DEF Sums
  <2>2. k \notin 1..Len(v)
    BY <1>0, <1>7
  <2>3. g[Len(v)] <= f[Len(v)]
    BY <1>4, <1>5, <2>2
  <2> QED BY <1>1, <1>2, <1>5, <1>7, <2>1, <2>3
<1> QED BY <1>6, <1>7

(***************************************************************************)
(* The types                                                               *)
(***************************************************************************)

\* Whether a run of the profile is being executed by the thread.
RunOf(t, p) == run[t] # NoRun /\ run[t].profile = p

LEMMA SettingTypes ==
  ASSUME TypeOK, NEW p \in Profiles
  PROVE  /\ prefs[p].maxPositions \in 1..5 /\ prefs[p].perRun \in 0..5
         /\ prefs[p].perDay \in 0..5 /\ prefs[p].reserve \in Nat
         /\ prefs[p].reopen \in BOOLEAN
         /\ Basis(p) \in Nat
<1>1. prefs[p] \in SettingNames
  BY RunAssumption DEF TypeOK
<1>2. prefs[p].maxPositions \in 1..5 /\ prefs[p].perRun \in 0..5
        /\ prefs[p].perDay \in 0..5 /\ prefs[p].reserve \in Nat
        /\ prefs[p].reopen \in BOOLEAN
  BY <1>1 DEF SettingNames
<1>3. \A m \in 1..5 : MaxOrder * m \in Nat
  BY RunAssumption
<1> QED BY <1>2, <1>3 DEF Basis

LEMMA OwnRows ==
  ASSUME TypeOK, NEW p
  PROVE  /\ Own(p) \subseteq DOMAIN rows /\ DOMAIN rows = 1..Len(rows) /\ Len(rows) \in Nat
         /\ DOMAIN rows \subseteq RowIds
         /\ \A i \in DOMAIN rows : rows[i] \in Rows
         /\ \A i : i \in Own(p) <=> i \in DOMAIN rows /\ rows[i].open /\ rows[i].owner = p
<1>1. rows \in Seq(Rows)
  BY DEF TypeOK
<1>2. DOMAIN rows = 1..Len(rows) /\ Len(rows) \in Nat
  BY <1>1
<1>3. \A i \in DOMAIN rows : rows[i] \in Rows
  BY <1>1, <1>2, ElementOfSeq
<1> QED BY <1>2, <1>3 DEF Own, Open, RowIds

LEMMA BookIsSum ==
  ASSUME TypeOK, NEW p
  PROVE  Weights(p) \in Seq(Nat) /\ Len(Weights(p)) = Len(rows) /\ LotsOf(p) \in Nat
<1>1. \A i \in DOMAIN rows : rows[i].lots \in Nat
  BY OwnRows DEF Rows
<1>2. Weights(p) \in [1..Len(rows) -> Nat] /\ Len(rows) \in Nat
  BY <1>1, OwnRows DEF Weights
<1>3. Weights(p) \in Seq(Nat) /\ Len(Weights(p)) = Len(rows)
  BY <1>2
<1>4. PICK f : Sums(Weights(p), f) /\ Total(Weights(p)) = f[Len(Weights(p))]
  BY <1>3, TotalIsSum
<1>5. LotsOf(p) \in Nat
  BY <1>2, <1>3, <1>4 DEF LotsOf, Sums
<1> QED BY <1>3, <1>5

LEMMA FunctionIsSeq ==
  ASSUME NEW S, NEW N \in Nat, NEW f \in [1..N -> S]
  PROVE  f \in Seq(S) /\ Len(f) = N
OBVIOUS

\* The elements of a concatenation are those of its parts, in their places.
LEMMA Concatenation ==
  ASSUME NEW S, NEW L \in Seq(S), NEW F \in Seq(S), NEW o, o = L \o F
  PROVE  /\ o \in Seq(S)
         /\ \A n \in DOMAIN o :
              /\ n \in Nat
              /\ \/ n \in DOMAIN L /\ o[n] = L[n]
                 \/ n \notin DOMAIN L /\ n - Len(L) \in DOMAIN F /\ o[n] = F[n - Len(L)]
<1>1. /\ o \in Seq(S) /\ Len(o) = Len(L) + Len(F)
      /\ \A i \in 1..(Len(L) + Len(F)) : o[i] = IF i <= Len(L) THEN L[i] ELSE F[i - Len(L)]
  BY ConcatProperties
<1>2. /\ DOMAIN o = 1..Len(o) /\ DOMAIN L = 1..Len(L) /\ DOMAIN F = 1..Len(F)
      /\ Len(L) \in Nat /\ Len(F) \in Nat
  BY <1>1, LenProperties
<1> QED BY <1>1, <1>2

\* The listings of a set of symbols.
LEMMA Listings ==
  ASSUME NEW S \in SUBSET Symbols, NEW q \in SetToSeqs(S)
  PROVE  /\ q \in Seq(S) /\ DOMAIN q = 1..Len(q) /\ Len(q) \in Nat
         /\ \A n \in DOMAIN q : q[n] \in S
         /\ \A m, n \in DOMAIN q : q[m] = q[n] => m = n
<1>1. Cardinality(S) \in Nat
  BY RunAssumption, FS_Subset, FS_CardinalityType
<1>2. q \in [1..Cardinality(S) -> S] /\ \A m, n \in 1..Cardinality(S) : q[m] = q[n] => m = n
  BY DEF SetToSeqs
<1>3. q \in Seq(S)
  BY <1>1, <1>2
<1> QED BY <1>1, <1>2, <1>3

\* What a plan opens: candidates first, each within the day's cap at its place;
\* every symbol once, and none that is held and neither stopped nor flipped.
PlannedFor(p, r, signal, opening) ==
  /\ \A m, n \in DOMAIN opening : opening[m].symbol = opening[n].symbol => m = n
  /\ \A n \in DOMAIN opening : ~opening[n].flip => booked[p] + (n - 1) < prefs[p].perDay
  /\ \A n \in DOMAIN opening :
       \/ prefs[p].reopen
       \/ opening[n].symbol \notin Held(p, r)
       \/ opening[n].symbol \in SymbolsOf(Flipped(p, r, signal))

LEMMA PlanFacts ==
  ASSUME TypeOK, NEW p \in Profiles, NEW r \in Reviews(p), NEW signal \in Signals,
         NEW queue \in Plannable(p, r, signal),
         NEW flips \in SetToSeqs(FlipSymbols(p, r, signal, queue)),
         NEW opening, opening = Legs(queue, signal, FALSE) \o Legs(flips, signal, TRUE)
  PROVE  opening \in Seq(Opens) /\ PlannedFor(p, r, signal, opening)
<1> DEFINE L == Legs(queue, signal, FALSE)
           F == Legs(flips, signal, TRUE)
<1>1. PICK S \in SUBSET Symbols : queue \in SetToSeqs(S)
  BY DEF Plannable, Queues
<1>2. /\ queue \in Seq(S) /\ DOMAIN queue = 1..Len(queue) /\ Len(queue) \in Nat
      /\ \A n \in DOMAIN queue : queue[n] \in S
      /\ \A m, n \in DOMAIN queue : queue[m] = queue[n] => m = n
  BY <1>1, Listings
<1>3. \A n \in DOMAIN queue :
        /\ queue[n] \notin Held(p, r) \/ prefs[p].reopen
        /\ signal[queue[n]] \in Sides
        /\ booked[p] + (n - 1) < prefs[p].perDay
  BY DEF Plannable, OpensOn, Room
<1> DEFINE FS == FlipSymbols(p, r, signal, queue)
<1>4. \A s \in FS : /\ s \in Symbols /\ s \in SymbolsOf(Flipped(p, r, signal))
                    /\ signal[s] \in Sides /\ s \notin Range(queue)
  <2>1. SUFFICES ASSUME NEW s \in FS
                 PROVE  /\ s \in Symbols /\ s \in SymbolsOf(Flipped(p, r, signal))
                        /\ signal[s] \in Sides /\ s \notin Range(queue)
    OBVIOUS
  <2>2. s \in SymbolsOf(Flipped(p, r, signal)) /\ s \notin Range(queue)
    BY DEF FlipSymbols
  <2>3. PICK i \in Flipped(p, r, signal) : s = rows[i].symbol
    BY <2>2 DEF SymbolsOf
  <2>4. i \in Own(p) /\ signal[s] = Other(rows[i].side)
    BY <2>3 DEF Flipped, Reconciled, Flips
  <2>5. rows[i] \in Rows
    BY <2>4, OwnRows
  <2>6. s \in Symbols /\ signal[s] \in Sides
    BY <2>3, <2>4, <2>5 DEF Rows, Other, Sides
  <2> QED BY <2>2, <2>6
<1>5. /\ flips \in Seq(FS) /\ DOMAIN flips = 1..Len(flips) /\ Len(flips) \in Nat
      /\ \A n \in DOMAIN flips : flips[n] \in FS
      /\ \A m, n \in DOMAIN flips : flips[m] = flips[n] => m = n
  <2>1. FS \in SUBSET Symbols
    BY <1>4
  <2> QED BY <2>1, Listings
<1> HIDE DEF FS
<1>6. /\ L \in Seq(Opens) /\ Len(L) = Len(queue) /\ DOMAIN L = DOMAIN queue
      /\ \A n \in DOMAIN queue : L[n].symbol = queue[n] /\ L[n].flip = FALSE
  <2>1. \A n \in DOMAIN queue : [symbol |-> queue[n], side |-> signal[queue[n]], flip |-> FALSE] \in Opens
    BY <1>2, <1>3 DEF Opens
  <2>2. L \in [1..Len(queue) -> Opens]
    BY <1>2, <2>1 DEF Legs
  <2>3. L \in Seq(Opens) /\ Len(L) = Len(queue)
    <3> HIDE DEF L
    <3> QED BY <1>2, <2>2, FunctionIsSeq
  <2> QED BY <1>2, <2>3 DEF Legs
<1>7. /\ F \in Seq(Opens) /\ Len(F) = Len(flips) /\ DOMAIN F = DOMAIN flips
      /\ \A n \in DOMAIN flips : F[n].symbol = flips[n] /\ F[n].flip = TRUE
  <2>1. \A n \in DOMAIN flips : [symbol |-> flips[n], side |-> signal[flips[n]], flip |-> TRUE] \in Opens
    BY <1>4, <1>5 DEF Opens
  <2>2. F \in [1..Len(flips) -> Opens]
    BY <1>5, <2>1 DEF Legs
  <2>3. F \in Seq(Opens) /\ Len(F) = Len(flips)
    <3> HIDE DEF F
    <3> QED BY <1>5, <2>2, FunctionIsSeq
  <2> QED BY <1>5, <2>3 DEF Legs
<1> HIDE DEF L, F
<1> DEFINE Joined(o) == /\ o \in Seq(Opens)
                       /\ \A n \in DOMAIN o :
                            /\ n \in Nat
                            /\ \/ n \in DOMAIN L /\ o[n] = L[n]
                               \/ n \notin DOMAIN L /\ n - Len(L) \in DOMAIN F /\ o[n] = F[n - Len(L)]
<1>8. Joined(opening)
  <2>1. opening = L \o F
    BY DEF L, F
  <2>2. ASSUME NEW o, o = L \o F
        PROVE  Joined(o)
    BY <1>6, <1>7, <2>2, Concatenation
  <2> HIDE DEF Joined
  <2> QED BY <2>1, <2>2, Zenon
<1>9. ASSUME NEW n \in DOMAIN opening
      PROVE  \/ n \in DOMAIN queue /\ opening[n].symbol = queue[n] /\ ~opening[n].flip
             \/ /\ n \notin DOMAIN queue /\ n - Len(queue) \in DOMAIN flips
                /\ opening[n].symbol = flips[n - Len(queue)] /\ opening[n].flip
  <2>1. \/ n \in DOMAIN L /\ opening[n] = L[n]
        \/ n \notin DOMAIN L /\ n - Len(L) \in DOMAIN F /\ opening[n] = F[n - Len(L)]
    BY <1>8, <1>9, Zenon
  <2>2. CASE n \in DOMAIN L /\ opening[n] = L[n]
    BY <1>6, <2>2, Zenon
  <2>3. CASE n \notin DOMAIN L /\ n - Len(L) \in DOMAIN F /\ opening[n] = F[n - Len(L)]
    BY <1>6, <1>7, <2>3, Zenon
  <2> QED BY <2>1, <2>2, <2>3, Zenon
<1>10. ASSUME NEW m \in DOMAIN opening, NEW n \in DOMAIN opening,
              opening[m].symbol = opening[n].symbol
       PROVE  m = n
  <2>0. \A k \in DOMAIN queue : queue[k] \in Range(queue)
    BY DEF Range
  <2>1. m \in Nat /\ n \in Nat
    BY <1>8
  <2>2. CASE m \in DOMAIN queue /\ n \in DOMAIN queue
    BY <1>2, <1>9, <1>10, <2>2
  <2>3. CASE m \notin DOMAIN queue /\ n \notin DOMAIN queue
    <3>1. m - Len(queue) = n - Len(queue)
      BY <1>5, <1>9, <1>10, <2>3
    <3> QED BY <1>2, <2>1, <3>1
  <2>4. ASSUME NEW k \in DOMAIN opening, NEW l \in DOMAIN opening,
               opening[k].symbol = opening[l].symbol, k \in DOMAIN queue, l \notin DOMAIN queue
        PROVE  FALSE
    <3>1. opening[k].symbol \in Range(queue)
      BY <1>9, <2>0, <2>4
    <3>2. opening[l].symbol \in FS
      BY <1>5, <1>9, <2>4
    <3> QED BY <1>4, <2>4, <3>1, <3>2
  <2> QED BY <1>10, <2>2, <2>3, <2>4
<1>11. \A n \in DOMAIN opening : ~opening[n].flip => booked[p] + (n - 1) < prefs[p].perDay
  BY <1>3, <1>9
<1>12. \A n \in DOMAIN opening :
         \/ prefs[p].reopen
         \/ opening[n].symbol \notin Held(p, r)
         \/ opening[n].symbol \in SymbolsOf(Flipped(p, r, signal))
  BY <1>3, <1>4, <1>5, <1>9
<1> QED BY <1>8, <1>10, <1>11, <1>12 DEF PlannedFor

\* A row that opens or closes is otherwise as it was, and so are the others.
LEMMA RowToggled ==
  ASSUME TypeOK, NEW k \in DOMAIN rows, NEW b \in BOOLEAN, rows' = [rows EXCEPT ![k].open = b]
  PROVE  /\ rows' \in Seq(Rows) /\ DOMAIN rows' = DOMAIN rows /\ Len(rows') = Len(rows)
         /\ \A i \in DOMAIN rows : i # k => rows'[i] = rows[i]
         /\ rows'[k].symbol = rows[k].symbol /\ rows'[k].side = rows[k].side
         /\ rows'[k].owner = rows[k].owner /\ rows'[k].lots = rows[k].lots /\ rows'[k].open = b
<1>1. DOMAIN rows = 1..Len(rows) /\ rows[k] \in Rows /\ rows \in Seq(Rows)
  BY OwnRows DEF TypeOK
<1> DEFINE new == [rows[k] EXCEPT !.open = b]
<1>2. new \in Rows /\ new.symbol = rows[k].symbol /\ new.side = rows[k].side
        /\ new.owner = rows[k].owner /\ new.lots = rows[k].lots /\ new.open = b
  BY <1>1 DEF Rows
<1>3. rows' = [rows EXCEPT ![k] = new]
  OBVIOUS
<1> HIDE DEF new
<1>4. rows' \in Seq(Rows) /\ Len(rows') = Len(rows)
        /\ \A i \in 1..Len(rows) : rows'[i] = IF i = k THEN new ELSE rows[i]
  BY <1>1, <1>2, <1>3, ExceptSeq
<1>5. DOMAIN rows' = 1..Len(rows')
  BY <1>4
<1> QED BY <1>1, <1>2, <1>4, <1>5

\* A fill adds a row, or lots to the one row that matches.
LEMMA UpsertFacts ==
  ASSUME TypeOK, NEW s \in Symbols, NEW side \in Sides, NEW owner \in Owners, NEW lots \in Nat,
         Upsert(s, side, owner, lots)
  PROVE  /\ rows' \in Seq(Rows)
         /\ \/ /\ Matches(s, side, owner) = {}
               /\ Len(rows') = Len(rows) + 1
               /\ \A i \in DOMAIN rows : rows'[i] = rows[i]
               /\ rows'[Len(rows) + 1] = [symbol |-> s, side |-> side, owner |-> owner,
                                          lots |-> lots, open |-> TRUE]
            \/ \E k \in DOMAIN rows :
                 /\ Matches(s, side, owner) = {k}
                 /\ Len(rows') = Len(rows)
                 /\ \A i \in DOMAIN rows : i # k => rows'[i] = rows[i]
                 /\ rows'[k].symbol = rows[k].symbol /\ rows'[k].side = rows[k].side
                 /\ rows'[k].owner = rows[k].owner /\ rows'[k].open = rows[k].open
                 /\ rows'[k].lots = rows[k].lots + lots
<1>1. DOMAIN rows = 1..Len(rows) /\ Len(rows) \in Nat /\ rows \in Seq(Rows)
  BY OwnRows DEF TypeOK
<1> DEFINE new == [symbol |-> s, side |-> side, owner |-> owner, lots |-> lots, open |-> TRUE]
<1>2. CASE Matches(s, side, owner) = {} /\ rows' = Append(rows, new)
  <2>1. new \in Rows
    BY DEF Rows
  <2> HIDE DEF new
  <2>2. /\ rows' \in Seq(Rows) /\ Len(rows') = Len(rows) + 1
        /\ \A i \in DOMAIN rows : rows'[i] = rows[i]
        /\ rows'[Len(rows) + 1] = new
    BY <1>1, <1>2, <2>1, AppendProperties
  <2> QED BY <1>2, <2>2 DEF new
<1>3. ASSUME NEW k \in Matches(s, side, owner), Matches(s, side, owner) = {k},
             rows' = [rows EXCEPT ![k].lots = @ + lots]
      PROVE  /\ rows' \in Seq(Rows)
             /\ k \in DOMAIN rows
             /\ Len(rows') = Len(rows)
             /\ \A i \in DOMAIN rows : i # k => rows'[i] = rows[i]
             /\ rows'[k].symbol = rows[k].symbol /\ rows'[k].side = rows[k].side
             /\ rows'[k].owner = rows[k].owner /\ rows'[k].open = rows[k].open
             /\ rows'[k].lots = rows[k].lots + lots
  <2>1. k \in DOMAIN rows /\ rows[k] \in Rows
    BY OwnRows DEF Matches, Open
  <2> DEFINE more == [rows[k] EXCEPT !.lots = @ + lots]
  <2>2. more \in Rows /\ more.symbol = rows[k].symbol /\ more.side = rows[k].side
          /\ more.owner = rows[k].owner /\ more.open = rows[k].open /\ more.lots = rows[k].lots + lots
    BY <2>1 DEF Rows
  <2>3. rows' = [rows EXCEPT ![k] = more]
    BY <1>3
  <2> HIDE DEF more
  <2>4. rows' \in Seq(Rows) /\ Len(rows') = Len(rows)
          /\ \A i \in 1..Len(rows) : rows'[i] = IF i = k THEN more ELSE rows[i]
    BY <1>1, <2>1, <2>2, <2>3, ExceptSeq
  <2> QED BY <1>1, <2>1, <2>2, <2>4
<1>4. \/ Matches(s, side, owner) = {} /\ rows' = Append(rows, new)
      \/ \E k \in Matches(s, side, owner) :
           Matches(s, side, owner) = {k} /\ rows' = [rows EXCEPT ![k].lots = @ + lots]
  BY DEF Upsert
<1>5. CASE \E k \in Matches(s, side, owner) :
             Matches(s, side, owner) = {k} /\ rows' = [rows EXCEPT ![k].lots = @ + lots]
  <2>1. PICK k \in Matches(s, side, owner) :
               Matches(s, side, owner) = {k} /\ rows' = [rows EXCEPT ![k].lots = @ + lots]
    BY <1>5
  <2> QED BY <1>3, <2>1
<1> QED BY <1>2, <1>4, <1>5

\* The position a run closes next is one of those it has marked.
LEMMA NextCloseIsMarked ==
  ASSUME TypeOK, NEW t \in Threads, run[t] # NoRun, run[t].closing # {}
  PROVE  NextClose(t) \in run[t].closing /\ NextClose(t) \in DOMAIN rows
<1>1. run[t].closing \in SUBSET (1..Len(rows)) /\ Len(rows) \in Nat /\ run[t].closing \subseteq DOMAIN rows
  BY OwnRows DEF TypeOK
<1>2. \E i \in run[t].closing : \A j \in run[t].closing : j <= i
  BY <1>1, LatestRow
<1> QED BY <1>1, <1>2 DEF NextClose

\* What a run holds.
LEMMA RunTypes ==
  ASSUME TypeOK, NEW t \in Threads, run[t] # NoRun
  PROVE  /\ run[t] \in Runs /\ run[t].profile \in Profiles
         /\ run[t].closing \subseteq DOMAIN rows /\ run[t].unmarked \subseteq run[t].closing
         /\ run[t].opening \in Seq(Opens) /\ DOMAIN run[t].opening = 1..Len(run[t].opening)
         /\ Len(run[t].opening) \in Nat
         /\ run[t].notional \in Nat /\ run[t].done \in Nat
<1>1. run[t] \in Runs
  BY DEF TypeOK
<1>2. run[t].opening \in Seq(Opens)
  BY <1>1 DEF Runs
<1> QED BY <1>1, <1>2, LenProperties DEF TypeOK, Runs

\* The rest of a plan.
LEMMA Rest ==
  ASSUME NEW q \in Seq(Opens), q # <<>>
  PROVE  /\ Head(q) \in Opens /\ Head(q) = q[1] /\ 1 \in DOMAIN q
         /\ Tail(q) \in Seq(Opens)
         /\ \A n \in DOMAIN Tail(q) : n \in Nat /\ n + 1 \in DOMAIN q /\ Tail(q)[n] = q[n + 1]
<1>1. Len(q) \in Nat \ {0} /\ DOMAIN q = 1..Len(q)
  BY EmptySeq, LenProperties
<1>2. Tail(q) \in Seq(Opens) /\ Len(Tail(q)) = Len(q) - 1
        /\ \A n \in 1..(Len(q) - 1) : Tail(q)[n] = q[n + 1]
  BY HeadTailProperties
<1>3. DOMAIN Tail(q) = 1..(Len(q) - 1)
  BY <1>2, LenProperties
<1>4. Head(q) = q[1] /\ q[1] \in Opens
  BY <1>1, ElementOfSeq
<1> QED BY <1>1, <1>2, <1>3, <1>4

\* What a start of a run stores for its thread.
StartsAs(t, p, r, signal, queue, flips, unmarked) ==
  run' = [run EXCEPT ![t] =
            [profile  |-> p,
             closing  |-> Stopped(p, r) \cup Reversed(p, r, signal),
             unmarked |-> unmarked,
             opening  |-> Legs(queue, signal, FALSE) \o Legs(flips, signal, TRUE),
             notional |-> LotsOf(p),
             done     |-> 0]]

LEMMA StartFacts ==
  ASSUME TypeOK, NEW t \in Threads, NEW p \in Profiles, Start(t, p)
  PROVE  /\ run[t] = NoRun
         /\ \E r \in Reviews(p), signal \in Signals :
              \E unmarked \in SUBSET (Stopped(p, r) \cup Reversed(p, r, signal)),
                 queue \in Plannable(p, r, signal) :
                \E flips \in SetToSeqs(FlipSymbols(p, r, signal, queue)) :
                  StartsAs(t, p, r, signal, queue, flips, unmarked)
         /\ strained' = [strained EXCEPT ![p] = @ \cup
                           (IF \E u \in Threads : RunOf(u, p) THEN {"overlap"} ELSE {})]
         /\ begun < MaxRuns /\ begun' = begun + 1
         /\ UNCHANGED <<prefs, rows, booked, made, acts>>
BY DEF Start, StartsAs, Strain, RunOf

LEMMA ClosingIsOwn ==
  ASSUME TypeOK, NEW p \in Profiles, NEW r \in Reviews(p), NEW signal
  PROVE  Stopped(p, r) \cup Reversed(p, r, signal) \subseteq Own(p)
BY DEF Reviews, Stopped, Reversed, Reconciled

\* What the list of rows keeps in every one of these changes.
RowsLast ==
  /\ rows' \in Seq(Rows) /\ DOMAIN rows \subseteq DOMAIN rows' /\ DOMAIN rows' = 1..Len(rows')
  /\ Len(rows) <= Len(rows')
  /\ \A i \in DOMAIN rows : /\ rows'[i].symbol = rows[i].symbol
                            /\ rows'[i].side = rows[i].side
                            /\ rows'[i].owner = rows[i].owner

LEMMA RowsLastWhenToggled ==
  ASSUME TypeOK, NEW k \in DOMAIN rows, NEW b \in BOOLEAN, rows' = [rows EXCEPT ![k].open = b]
  PROVE  RowsLast
<1>1. DOMAIN rows = 1..Len(rows) /\ Len(rows) \in Nat
  BY OwnRows
<1>2. /\ rows' \in Seq(Rows) /\ DOMAIN rows' = DOMAIN rows /\ Len(rows') = Len(rows)
      /\ \A i \in DOMAIN rows : i # k => rows'[i] = rows[i]
      /\ rows'[k].symbol = rows[k].symbol /\ rows'[k].side = rows[k].side
      /\ rows'[k].owner = rows[k].owner
  BY RowToggled
<1> QED BY <1>1, <1>2 DEF RowsLast

LEMMA RowsLastWhenFilled ==
  ASSUME TypeOK, NEW s \in Symbols, NEW side \in Sides, NEW owner \in Owners, NEW lots \in Nat,
         Upsert(s, side, owner, lots)
  PROVE  RowsLast
<1>1. DOMAIN rows = 1..Len(rows) /\ Len(rows) \in Nat
  BY OwnRows
<1>2. /\ rows' \in Seq(Rows)
      /\ \/ /\ Len(rows') = Len(rows) + 1
            /\ \A i \in DOMAIN rows : rows'[i] = rows[i]
         \/ \E k \in DOMAIN rows :
              /\ Len(rows') = Len(rows)
              /\ \A i \in DOMAIN rows : i # k => rows'[i] = rows[i]
              /\ rows'[k].symbol = rows[k].symbol /\ rows'[k].side = rows[k].side
              /\ rows'[k].owner = rows[k].owner
  BY UpsertFacts
<1>3. DOMAIN rows' = 1..Len(rows')
  BY <1>2
<1>4. Len(rows') \in Nat /\ Len(rows) <= Len(rows')
  BY <1>1, <1>2
<1>5. \A i \in DOMAIN rows : /\ rows'[i].symbol = rows[i].symbol
                            /\ rows'[i].side = rows[i].side
                            /\ rows'[i].owner = rows[i].owner
  BY <1>2
<1>6. DOMAIN rows \subseteq DOMAIN rows'
  BY <1>1, <1>3, <1>4
<1> QED BY <1>2, <1>3, <1>4, <1>5, <1>6 DEF RowsLast

LEMMA TypesKept ==
  ASSUME TypeOK, [Next]_vars
  PROVE  TypeOK'
<1> USE RunAssumption
<1>0. /\ rows \in Seq(Rows) /\ DOMAIN rows = 1..Len(rows) /\ Len(rows) \in Nat
      /\ \A t \in Threads : run[t] # NoRun =>
           run[t].closing \subseteq DOMAIN rows /\ run[t].unmarked \subseteq run[t].closing
  BY OwnRows DEF TypeOK
<1>a. ASSUME rows' \in Seq(Rows), Len(rows) <= Len(rows'), UNCHANGED run
      PROVE  \A t \in Threads : run'[t] # NoRun =>
               run'[t].closing \subseteq DOMAIN rows' /\ run'[t].unmarked \subseteq run'[t].closing
  <2>1. DOMAIN rows' = 1..Len(rows') /\ Len(rows') \in Nat
    BY <1>a
  <2>2. DOMAIN rows \subseteq DOMAIN rows'
    BY <1>0, <1>a, <2>1
  <2> QED BY <1>0, <1>a, <2>2
<1>b. ASSUME NEW t \in Threads, NEW q \in Runs \cup {NoRun}, run' = [run EXCEPT ![t] = q],
             rows' \in Seq(Rows), Len(rows) <= Len(rows'),
             q # NoRun => q.closing \subseteq DOMAIN rows /\ q.unmarked \subseteq q.closing
      PROVE  /\ run' \in [Threads -> Runs \cup {NoRun}]
             /\ \A u \in Threads : run'[u] # NoRun =>
                  run'[u].closing \subseteq DOMAIN rows' /\ run'[u].unmarked \subseteq run'[u].closing
  <2>1. DOMAIN rows' = 1..Len(rows') /\ Len(rows') \in Nat
    BY <1>b
  <2>2. DOMAIN rows \subseteq DOMAIN rows'
    BY <1>0, <1>b, <2>1
  <2>3. run \in [Threads -> Runs \cup {NoRun}]
    BY DEF TypeOK
  <2>4. \A u \in Threads : run'[u] = IF u = t THEN q ELSE run[u]
    BY <1>b, <2>3
  <2>5. run' \in [Threads -> Runs \cup {NoRun}]
    BY <1>b, <2>3
  <2> QED BY <1>0, <1>b, <2>2, <2>4, <2>5
<1>c. /\ prefs \in [Profiles -> Settings] /\ booked \in [Profiles -> Nat]
      /\ made \in [Profiles -> Nat] /\ strained \in [Profiles -> SUBSET Strains]
      /\ run \in [Threads -> Runs \cup {NoRun}]
      /\ begun \in 0..MaxRuns /\ acts \in 0..MaxActs
  BY DEF TypeOK
<1>d. ASSUME NEW p \in Profiles, NEW why \in SUBSET Strains, Strain(p, why)
      PROVE  strained' \in [Profiles -> SUBSET Strains]
  BY <1>c, <1>d DEF Strain
<1>1. ASSUME NEW t \in Threads, NEW p \in Profiles, Start(t, p) PROVE TypeOK'
  <2>a. PICK r \in Reviews(p), signal \in Signals :
          \E unmarked \in SUBSET (Stopped(p, r) \cup Reversed(p, r, signal)),
             queue \in Plannable(p, r, signal) :
            \E flips \in SetToSeqs(FlipSymbols(p, r, signal, queue)) :
              StartsAs(t, p, r, signal, queue, flips, unmarked)
    BY <1>1, StartFacts
  <2>b. PICK unmarked \in SUBSET (Stopped(p, r) \cup Reversed(p, r, signal)),
             queue \in Plannable(p, r, signal) :
            \E flips \in SetToSeqs(FlipSymbols(p, r, signal, queue)) :
              StartsAs(t, p, r, signal, queue, flips, unmarked)
    BY <2>a
  <2>1. PICK flips \in SetToSeqs(FlipSymbols(p, r, signal, queue)) :
              StartsAs(t, p, r, signal, queue, flips, unmarked)
    BY <2>b
  <2> DEFINE opening == Legs(queue, signal, FALSE) \o Legs(flips, signal, TRUE)
             closing == Stopped(p, r) \cup Reversed(p, r, signal)
             q == [profile |-> p, closing |-> closing, unmarked |-> unmarked,
                   opening |-> opening, notional |-> LotsOf(p), done |-> 0]
  <2>2. opening \in Seq(Opens)
    BY PlanFacts
  <2>3. closing \subseteq DOMAIN rows /\ closing \in SUBSET RowIds /\ unmarked \subseteq closing
    BY ClosingIsOwn, OwnRows
  <2>4. LotsOf(p) \in Nat
    BY BookIsSum
  <2>5. run' = [run EXCEPT ![t] = q]
    BY <2>1 DEF StartsAs
  <2> HIDE DEF opening, closing
  <2>6. q \in Runs /\ q.closing \subseteq DOMAIN rows /\ q.unmarked \subseteq q.closing
    BY <2>2, <2>3, <2>4 DEF Runs
  <2> HIDE DEF q
  <2>7. UNCHANGED <<prefs, rows, booked, made, acts>> /\ begun' \in 0..MaxRuns
    BY <1>1, <1>c DEF Start
  <2>8. strained' \in [Profiles -> SUBSET Strains]
    BY <1>1, <1>d DEF Start, Strains
  <2> QED BY <1>0, <1>b, <1>c, <2>5, <2>6, <2>7, <2>8 DEF TypeOK
<1>2. ASSUME NEW t \in Threads, Close(t) PROVE TypeOK'
  <2> DEFINE i == NextClose(t)
             q == [run[t] EXCEPT !.closing = @ \ {i}, !.unmarked = @ \ {i}]
  <2>1. run[t] # NoRun /\ run[t].closing # {}
    BY <1>2 DEF Close
  <2>2. i \in run[t].closing /\ i \in DOMAIN rows
    BY <2>1, NextCloseIsMarked
  <2>3. run' = [run EXCEPT ![t] = q]
    BY <1>2, <1>c DEF Close
  <2>4. rows' \in Seq(Rows) /\ Len(rows) <= Len(rows')
    <3>1. CASE rows' = [rows EXCEPT ![i].open = FALSE]
      <4>1. RowsLast
        <5> HIDE DEF i
        <5>1. FALSE \in BOOLEAN
          OBVIOUS
        <5> QED BY <2>2, <3>1, <5>1, RowsLastWhenToggled
      <4> QED BY <4>1 DEF RowsLast
    <3>2. CASE rows' = rows
      BY <1>0, <3>2
    <3> QED BY <1>2, <3>1, <3>2 DEF Close, CloseRow
  <2>5. run[t] \in Runs /\ run[t].closing \subseteq DOMAIN rows /\ run[t].unmarked \subseteq run[t].closing
          /\ run[t].profile \in Profiles
    BY <2>1, RunTypes
  <2> HIDE DEF i
  <2>6. q \in Runs /\ q.closing \subseteq DOMAIN rows /\ q.unmarked \subseteq q.closing
    BY <2>5 DEF Runs
  <2> HIDE DEF q
  <2>7. strained' \in [Profiles -> SUBSET Strains]
    BY <1>2, <1>d, <2>5 DEF Close, Strains
  <2>8. UNCHANGED <<prefs, booked, made, begun, acts>>
    BY <1>2 DEF Close
  <2> QED BY <1>b, <1>c, <2>3, <2>4, <2>6, <2>7, <2>8 DEF TypeOK
<1>3. ASSUME NEW t \in Threads, OpenOne(t) PROVE TypeOK'
  <2> DEFINE p == run[t].profile
             o == Head(run[t].opening)
             rest == [run[t] EXCEPT !.opening = Tail(@)]
  <2>1. run[t] # NoRun /\ run[t].opening # <<>>
    BY <1>3 DEF OpenOne
  <2>2. run[t] \in Runs /\ run[t].closing \subseteq DOMAIN rows /\ run[t].unmarked \subseteq run[t].closing
          /\ p \in Profiles /\ run[t].opening \in Seq(Opens) /\ run[t].done \in Nat /\ run[t].notional \in Nat
    BY <2>1, RunTypes
  <2>3. o \in Opens /\ Tail(run[t].opening) \in Seq(Opens)
    BY <2>1, <2>2, Rest
  <2>4. rest \in Runs /\ rest.closing = run[t].closing /\ rest.unmarked = run[t].unmarked /\ rest.done = run[t].done
    BY <2>2, <2>3 DEF Runs
  <2>5. UNCHANGED <<prefs, booked, begun, acts>>
    BY <1>3 DEF OpenOne
  <2>6. CASE run' = [run EXCEPT ![t] = rest] /\ UNCHANGED <<rows, made, strained>>
    <3> HIDE DEF rest
    <3> QED BY <1>0, <1>b, <1>c, <2>2, <2>4, <2>5, <2>6 DEF TypeOK
  <2>7. ASSUME NEW lots \in 1..MaxOrder, Sized(p, run[t].notional, lots) > 0,
               Upsert(o.symbol, o.side, p, Sized(p, run[t].notional, lots)),
               run' = [run EXCEPT ![t] = [rest EXCEPT !.done = @ + 1]],
               made' = [made EXCEPT ![p] = @ + (IF o.flip THEN 0 ELSE 1)],
               Strain(p, IF run[t].done > 0 THEN {"several"} ELSE {})
        PROVE  TypeOK'
    <3> DEFINE sized == Sized(p, run[t].notional, lots)
               q == [rest EXCEPT !.done = @ + 1]
    <3>1. sized \in Nat
      <4>1. CashCap(p, run[t].notional) \in Int
        BY <2>2, SettingTypes DEF CashCap
      <4>2. lots \in Int
        OBVIOUS
      <4>3. sized \in Int
        BY <4>1, <4>2 DEF Sized
      <4> QED BY <2>7, <4>3
    <3>2. o.symbol \in Symbols /\ o.side \in Sides /\ p \in Owners
      BY <2>2, <2>3 DEF Opens, Owners
    <3>3. rows' \in Seq(Rows) /\ Len(rows) <= Len(rows')
      <4> HIDE DEF sized, o, p
      <4>1. Upsert(o.symbol, o.side, p, sized)
        BY <2>7 DEF sized
      <4>2. RowsLast
        BY <3>1, <3>2, <4>1, RowsLastWhenFilled, Zenon
      <4> QED BY <4>2 DEF RowsLast
    <3>4. q \in Runs /\ q.closing \subseteq DOMAIN rows /\ q.unmarked \subseteq q.closing
      <4>1. ASSUME NEW c \in Runs
            PROVE  /\ c.done \in Nat /\ [c EXCEPT !.done = c.done + 1] \in Runs
                   /\ [c EXCEPT !.done = c.done + 1].closing = c.closing
                   /\ [c EXCEPT !.done = c.done + 1].unmarked = c.unmarked
        BY DEF Runs
      <4> HIDE DEF rest
      <4>2. rest \in Runs /\ rest.closing \subseteq DOMAIN rows /\ rest.unmarked \subseteq rest.closing
        BY <2>2, <2>4, Zenon
      <4>3. q = [rest EXCEPT !.done = rest.done + 1]
        OBVIOUS
      <4> HIDE DEF q
      <4> QED BY <4>1, <4>2, <4>3
    <3>5. made' \in [Profiles -> Nat]
      BY <1>c, <2>2, <2>7, SMTT(30)
    <3>6. strained' \in [Profiles -> SUBSET Strains]
      BY <1>d, <2>2, <2>7 DEF Strains
    <3> HIDE DEF q, rest, o, sized
    <3>7. run' = [run EXCEPT ![t] = q]
      BY <2>7 DEF q
    <3> QED BY <1>b, <1>c, <2>5, <3>3, <3>4, <3>5, <3>6, <3>7 DEF TypeOK
  <2> QED BY <1>3, <2>6, <2>7 DEF OpenOne
<1>4. ASSUME NEW t \in Threads, Record(t) PROVE TypeOK'
  <2>1. run[t] # NoRun /\ run' = [run EXCEPT ![t] = NoRun]
          /\ UNCHANGED <<prefs, rows, made, strained, begun, acts>>
          /\ booked' = [booked EXCEPT ![run[t].profile] = BookedBy(run[t].profile, t)]
    BY <1>4 DEF Record
  <2>2. booked' \in [Profiles -> Nat]
    BY <1>c, <2>1, RunTypes DEF BookedBy
  <2> QED BY <1>0, <1>b, <1>c, <2>1, <2>2 DEF TypeOK
<1>5. ASSUME NEW t \in Threads, Die(t) PROVE TypeOK'
  <2>1. run[t] # NoRun /\ run' = [run EXCEPT ![t] = NoRun]
          /\ UNCHANGED <<prefs, rows, booked, made, begun, acts>>
    BY <1>5 DEF Die
  <2>2. strained' \in [Profiles -> SUBSET Strains]
    BY <1>5, <1>d, <2>1, RunTypes DEF Die, Strains
  <2> QED BY <1>0, <1>b, <1>c, <2>1, <2>2 DEF TypeOK
<1>6. ASSUME NEW s \in Symbols, NEW side \in Sides, ManualOpen(s, side) PROVE TypeOK'
  <2>1. Upsert(s, side, Manual, 1) /\ Manual \in Owners /\ UNCHANGED <<prefs, booked, run, made, begun>>
          /\ acts' \in 0..MaxActs
    BY <1>6, <1>c DEF ManualOpen, Acts, Owners
  <2>2. rows' \in Seq(Rows) /\ Len(rows) <= Len(rows')
    <3>1. 1 \in Nat
      OBVIOUS
    <3>2. RowsLast
      BY <2>1, <3>1, RowsLastWhenFilled, Zenon
    <3> QED BY <3>2 DEF RowsLast
  <2>3. strained' \in [Profiles -> SUBSET Strains]
    BY <1>6, <1>c DEF ManualOpen, Strains
  <2> QED BY <1>a, <1>c, <2>1, <2>2, <2>3 DEF TypeOK
<1>7. ASSUME NEW i \in DOMAIN rows, ManualClose(i) PROVE TypeOK'
  <2>1. rows' = [rows EXCEPT ![i].open = FALSE] /\ UNCHANGED <<prefs, booked, run, made, strained, begun>>
          /\ acts' \in 0..MaxActs
    BY <1>7, <1>c DEF ManualClose, CloseRow, Acts
  <2>2. rows' \in Seq(Rows) /\ Len(rows) <= Len(rows')
    BY <2>1, RowsLastWhenToggled DEF RowsLast
  <2> QED BY <1>a, <1>c, <2>1, <2>2 DEF TypeOK
<1>8. ASSUME NEW i \in DOMAIN rows, Undo(i) PROVE TypeOK'
  <2>1. rows' = [rows EXCEPT ![i].open = TRUE] /\ UNCHANGED <<prefs, booked, run, made, begun>>
          /\ acts' \in 0..MaxActs
    BY <1>8, <1>c DEF Undo, Acts
  <2>2. rows' \in Seq(Rows) /\ Len(rows) <= Len(rows')
    BY <2>1, RowsLastWhenToggled DEF RowsLast
  <2>3. strained' \in [Profiles -> SUBSET Strains]
    BY <1>8, <1>c DEF Undo, Strains
  <2> QED BY <1>a, <1>c, <2>1, <2>2, <2>3 DEF TypeOK
<1>9. ASSUME NewDay PROVE TypeOK'
  <2>1. UNCHANGED <<prefs, rows, run, strained, begun, acts>>
          /\ booked' \in [Profiles -> Nat] /\ made' \in [Profiles -> Nat]
    BY <1>9 DEF NewDay
  <2> QED BY <1>0, <1>a, <1>c, <2>1 DEF TypeOK
<1>10. ASSUME UNCHANGED vars PROVE TypeOK'
  BY <1>0, <1>a, <1>c, <1>10 DEF vars, TypeOK
<1> QED BY <1>1, <1>2, <1>3, <1>4, <1>5, <1>6, <1>7, <1>8, <1>9, <1>10 DEF Next

\* The book after a step, in the terms of the rows after it.
LEMMA BookAfter ==
  ASSUME TypeOK', NEW p
  PROVE  /\ DOMAIN rows' = 1..Len(rows') /\ Len(rows') \in Nat
         /\ \A i : i \in Own(p)' <=> i \in DOMAIN rows' /\ rows'[i].open /\ rows'[i].owner = p
         /\ \A i \in DOMAIN rows' : rows'[i].lots \in Nat
         /\ Weights(p)' \in Seq(Nat) /\ Len(Weights(p)') = Len(rows')
         /\ \A i \in DOMAIN rows' : Weights(p)'[i] = IF i \in Own(p)' THEN rows'[i].lots ELSE 0
<1>1. rows' \in Seq(Rows)
  BY DEF TypeOK
<1>2. DOMAIN rows' = 1..Len(rows') /\ Len(rows') \in Nat
  BY <1>1
<1>3. \A i \in DOMAIN rows' : rows'[i] \in Rows
  BY <1>1, <1>2, ElementOfSeq
<1>4. \A i \in DOMAIN rows' : rows'[i].lots \in Nat
  BY <1>3 DEF Rows
<1>5. Weights(p)' = [i \in 1..Len(rows') |-> IF i \in Own(p)' THEN rows'[i].lots ELSE 0]
  BY <1>2 DEF Weights
<1>6. Weights(p)' \in [1..Len(rows') -> Nat]
  BY <1>2, <1>4, <1>5
<1>7. Weights(p)' \in Seq(Nat) /\ Len(Weights(p)') = Len(rows')
  <2> HIDE <1>5
  <2> QED BY <1>2, <1>6, FunctionIsSeq
<1>8. \A i : i \in Own(p)' <=> i \in DOMAIN rows' /\ rows'[i].open /\ rows'[i].owner = p
  BY DEF Own, Open
<1> QED BY <1>2, <1>4, <1>5, <1>7, <1>8

\* How far the lots of a book grow when one row is filled.
LEMMA BookGrows ==
  ASSUME TypeOK, TypeOK', NEW p, NEW d \in Nat, NEW k \in Nat,
         Len(rows') = Len(rows) \/ (Len(rows') = Len(rows) + 1 /\ k = Len(rows')),
         \A i \in Own(p)' : i # k => i \in Own(p) /\ rows'[i].lots <= rows[i].lots,
         k \in Own(p)' =>
           IF k \in DOMAIN rows THEN k \in Own(p) /\ rows'[k].lots <= rows[k].lots + d
                                ELSE rows'[k].lots <= d
  PROVE  LotsOf(p)' <= LotsOf(p) + d
<1> DEFINE v == Weights(p)
           w == Weights(p)'
<1>1. /\ v \in Seq(Nat) /\ Len(v) = Len(rows) /\ Len(rows) \in Nat
      /\ DOMAIN rows = 1..Len(rows)
      /\ \A i \in DOMAIN rows : rows[i].lots \in Nat
      /\ \A i \in DOMAIN rows : v[i] = IF i \in Own(p) THEN rows[i].lots ELSE 0
  BY BookIsSum, OwnRows DEF Weights, Rows
<1>2. /\ w \in Seq(Nat) /\ Len(w) = Len(rows') /\ Len(rows') \in Nat
      /\ DOMAIN rows' = 1..Len(rows')
      /\ \A i \in DOMAIN rows' : rows'[i].lots \in Nat
      /\ \A i \in DOMAIN rows' : w[i] = IF i \in Own(p)' THEN rows'[i].lots ELSE 0
  BY BookAfter
<1> HIDE DEF v, w
<1>3. Len(rows) <= Len(rows')
  BY <1>1, <1>2
<1>4. ASSUME NEW n \in 1..Len(v), n # k PROVE w[n] <= v[n]
  <2>1. n \in DOMAIN rows /\ n \in DOMAIN rows' /\ v[n] \in Nat
    BY <1>1, <1>2, <1>3
  <2>2. CASE n \in Own(p)'
    BY <1>1, <1>2, <1>4, <2>1, <2>2
  <2>3. CASE n \notin Own(p)'
    BY <1>2, <2>1, <2>3
  <2> QED BY <2>2, <2>3
<1>5. ASSUME k \in 1..Len(v) PROVE w[k] <= v[k] + d
  <2>1. k \in DOMAIN rows /\ k \in DOMAIN rows' /\ v[k] \in Nat
    BY <1>1, <1>2, <1>3, <1>5
  <2>2. CASE k \in Own(p)'
    BY <1>1, <1>2, <2>1, <2>2
  <2>3. CASE k \notin Own(p)'
    BY <1>2, <2>1, <2>3
  <2> QED BY <2>2, <2>3
<1>6. Len(rows') = Len(rows) + 1 /\ k = Len(rows') => w[k] <= d
  <2>1. Len(rows') = Len(rows) + 1 /\ k = Len(rows') => k \in DOMAIN rows' /\ k \notin DOMAIN rows
    BY <1>1, <1>2
  <2> QED BY <1>2, <2>1
<1>7. Total(w) <= Total(v) + d
  BY <1>1, <1>2, <1>4, <1>5, <1>6, TotalGrows
<1> QED BY <1>7 DEF LotsOf, v, w

\* A book that a step leaves alone, or makes smaller.
Kept(p) == Own(p)' \subseteq Own(p) /\ LotsOf(p)' <= LotsOf(p)

LEMMA KeptWhenFewer ==
  ASSUME TypeOK, TypeOK', NEW p,
         Len(rows') = Len(rows) \/ Len(rows') = Len(rows) + 1,
         \A i \in Own(p)' : i \in Own(p) /\ rows'[i].lots = rows[i].lots
  PROVE  Kept(p)
<1>1. /\ Len(rows') \in Nat /\ LotsOf(p) \in Nat
      /\ \A i \in Own(p) : i \in DOMAIN rows /\ rows[i].lots \in Nat
  BY BookAfter, BookIsSum, OwnRows DEF Rows
<1> DEFINE k == Len(rows')
<1>2. 0 \in Nat /\ k \in Nat
  BY <1>1
<1>3. LotsOf(p)' <= LotsOf(p) + 0
  <2>1. Len(rows') = Len(rows) \/ (Len(rows') = Len(rows) + 1 /\ k = Len(rows'))
    OBVIOUS
  <2>2. \A i \in Own(p)' : i # k => i \in Own(p) /\ rows'[i].lots <= rows[i].lots
    BY <1>1
  <2>3. k \in Own(p)' =>
           IF k \in DOMAIN rows THEN k \in Own(p) /\ rows'[k].lots <= rows[k].lots + 0
                                ELSE rows'[k].lots <= 0
    BY <1>1
  <2> HIDE DEF k
  <2> QED BY <1>2, <2>1, <2>2, <2>3, BookGrows
<1>4. LotsOf(p)' <= LotsOf(p)
  BY <1>1, <1>3
<1> QED BY <1>4 DEF Kept

LEMMA KeptWhenSame ==
  ASSUME TypeOK, UNCHANGED rows, NEW p
  PROVE  Kept(p) /\ Own(p)' = Own(p) /\ LotsOf(p)' = LotsOf(p)
<1>1. Own(p)' = Own(p)
  BY DEF Own, Open
<1>2. Weights(p)' = Weights(p)
  BY <1>1 DEF Weights
<1>3. LotsOf(p)' = LotsOf(p) /\ LotsOf(p) \in Nat
  BY <1>2, BookIsSum DEF LotsOf
<1> QED BY <1>1, <1>3 DEF Kept

LEMMA KeptWhenClosed ==
  ASSUME TypeOK, TypeOK', NEW p, NEW k \in DOMAIN rows, rows' = [rows EXCEPT ![k].open = FALSE]
  PROVE  Kept(p) /\ k \notin Own(p)'
<1>1. /\ DOMAIN rows' = DOMAIN rows /\ Len(rows') = Len(rows)
      /\ \A i \in DOMAIN rows : i # k => rows'[i] = rows[i]
      /\ rows'[k].open = FALSE
  BY RowToggled
<1>2. \A i \in Own(p)' : i # k /\ i \in Own(p) /\ rows'[i].lots = rows[i].lots
  BY <1>1, BookAfter, OwnRows
<1> QED BY <1>1, <1>2, KeptWhenFewer

LEMMA KeptWhenAnothersReopens ==
  ASSUME TypeOK, TypeOK', NEW p, NEW k \in DOMAIN rows, rows' = [rows EXCEPT ![k].open = TRUE],
         rows[k].owner # p
  PROVE  Kept(p)
<1>1. /\ DOMAIN rows' = DOMAIN rows /\ Len(rows') = Len(rows)
      /\ \A i \in DOMAIN rows : i # k => rows'[i] = rows[i]
      /\ rows'[k].owner = rows[k].owner
  BY RowToggled
<1>2. \A i \in Own(p)' : i \in Own(p) /\ rows'[i].lots = rows[i].lots
  BY <1>1, BookAfter, OwnRows
<1> QED BY <1>1, <1>2, KeptWhenFewer

\* A fill for another owner that joins no row of this book.
LEMMA KeptWhenAnothersFills ==
  ASSUME TypeOK, TypeOK', NEW p, NEW s \in Symbols, NEW side \in Sides,
         NEW owner \in Owners, NEW lots \in Nat, Upsert(s, side, owner, lots), owner # p
  PROVE  /\ Own(p)' \subseteq Own(p)
         /\ Own(p) \cap Matches(s, side, owner) = {} => Kept(p)
<1>1. CASE /\ Len(rows') = Len(rows) + 1
           /\ \A i \in DOMAIN rows : rows'[i] = rows[i]
           /\ rows'[Len(rows) + 1].owner = owner
  <2>1. \A i \in Own(p)' : i \in Own(p) /\ rows'[i].lots = rows[i].lots
    <3>1. DOMAIN rows' = 1..Len(rows') /\ DOMAIN rows = 1..Len(rows) /\ Len(rows) \in Nat
      BY BookAfter, OwnRows
    <3>2. \A i \in DOMAIN rows' : i \in DOMAIN rows \/ i = Len(rows) + 1
      BY <1>1, <3>1
    <3> QED BY <1>1, <3>2, BookAfter, OwnRows, SMTT(30)
  <2> QED BY <1>1, <2>1, KeptWhenFewer
<1>2. ASSUME NEW k \in DOMAIN rows, Matches(s, side, owner) = {k}, Len(rows') = Len(rows),
             \A i \in DOMAIN rows : i # k => rows'[i] = rows[i],
             rows'[k].owner = rows[k].owner, rows'[k].open = rows[k].open
      PROVE  /\ Own(p)' \subseteq Own(p)
             /\ Own(p) \cap Matches(s, side, owner) = {} => Kept(p)
  <2>1. DOMAIN rows' = DOMAIN rows
    BY <1>2, BookAfter, OwnRows
  <2>2. \A i \in Own(p)' : i \in Own(p) /\ (i # k => rows'[i].lots = rows[i].lots)
    BY <1>2, <2>1, BookAfter, OwnRows
  <2>3. ASSUME Own(p) \cap Matches(s, side, owner) = {} PROVE Kept(p)
    <3>1. k \notin Own(p)
      BY <1>2, <2>3
    <3>2. \A i \in Own(p)' : i \in Own(p) /\ rows'[i].lots = rows[i].lots
      BY <2>2, <3>1
    <3> QED BY <1>2, <3>2, KeptWhenFewer
  <2> QED BY <2>2, <2>3
<1>3. \/ /\ Len(rows') = Len(rows) + 1
         /\ \A i \in DOMAIN rows : rows'[i] = rows[i]
         /\ rows'[Len(rows) + 1] = [symbol |-> s, side |-> side, owner |-> owner,
                                    lots |-> lots, open |-> TRUE]
      \/ \E k \in DOMAIN rows :
           /\ Matches(s, side, owner) = {k}
           /\ Len(rows') = Len(rows)
           /\ \A i \in DOMAIN rows : i # k => rows'[i] = rows[i]
           /\ rows'[k].owner = rows[k].owner /\ rows'[k].open = rows[k].open
  BY UpsertFacts
<1> QED BY <1>1, <1>2, <1>3

\* A fill of the profile itself: at most one row more, of the symbol filled.
LEMMA BookWhenFilled ==
  ASSUME TypeOK, TypeOK', NEW p \in Profiles, NEW s \in Symbols, NEW side \in Sides,
         NEW lots \in Nat, Upsert(s, side, p, lots)
  PROVE  /\ LotsOf(p)' <= LotsOf(p) + lots
         /\ \E k : \A i \in Own(p)' : i \in Own(p) \/ (i = k /\ rows'[i].symbol = s)
<1>0. p \in Owners
  BY DEF Owners
<1>1. CASE /\ Len(rows') = Len(rows) + 1
           /\ \A i \in DOMAIN rows : rows'[i] = rows[i]
           /\ rows'[Len(rows) + 1] = [symbol |-> s, side |-> side, owner |-> p,
                                      lots |-> lots, open |-> TRUE]
  <2> DEFINE k == Len(rows) + 1
  <2>1. DOMAIN rows' = 1..Len(rows') /\ DOMAIN rows = 1..Len(rows) /\ Len(rows) \in Nat
    BY BookAfter, OwnRows
  <2>2. \A i \in DOMAIN rows' : i \in DOMAIN rows \/ i = k
    BY <1>1, <2>1
  <2>3. /\ \A i \in DOMAIN rows : rows'[i] = rows[i] /\ rows[i].lots \in Nat
        /\ rows'[k].symbol = s /\ rows'[k].lots = lots /\ k = Len(rows') /\ k \in Nat
        /\ k \notin DOMAIN rows
    BY <1>1, <2>1, OwnRows DEF Rows
  <2> HIDE DEF k
  <2>4. \A i \in Own(p)' : i # k => i \in Own(p) /\ rows'[i].lots <= rows[i].lots
    BY <2>2, <2>3, BookAfter, OwnRows
  <2>5. LotsOf(p)' <= LotsOf(p) + lots
    <3>1. rows'[k].lots <= lots
      BY <2>3
    <3> QED BY <1>1, <2>3, <2>4, <3>1, BookGrows
  <2>6. \A i \in Own(p)' : i \in Own(p) \/ (i = k /\ rows'[i].symbol = s)
    BY <2>2, <2>3, <2>4
  <2> QED BY <2>5, <2>6
<1>2. ASSUME NEW k \in DOMAIN rows, Matches(s, side, p) = {k}, Len(rows') = Len(rows),
             \A i \in DOMAIN rows : i # k => rows'[i] = rows[i],
             rows'[k].owner = rows[k].owner, rows'[k].open = rows[k].open,
             rows'[k].lots = rows[k].lots + lots
      PROVE  LotsOf(p)' <= LotsOf(p) + lots /\ Own(p)' \subseteq Own(p)
  <2>1. DOMAIN rows' = DOMAIN rows /\ k \in Nat /\ \A i \in DOMAIN rows : rows[i].lots \in Nat
    BY <1>2, BookAfter, OwnRows DEF Rows
  <2>2. \A i \in Own(p)' : i \in Own(p) /\ (i # k => rows'[i].lots <= rows[i].lots)
    BY <1>2, <2>1, BookAfter, OwnRows
  <2>3. rows'[k].lots <= rows[k].lots + lots
    BY <1>2, <2>1
  <2>4. LotsOf(p)' <= LotsOf(p) + lots
    BY <1>2, <2>1, <2>2, <2>3, BookGrows
  <2> QED BY <2>2, <2>4
<1> QED BY <1>0, <1>1, <1>2, UpsertFacts

(***************************************************************************)
(* What a step does to one profile                                         *)
(***************************************************************************)

LEMMA RunUpdated ==
  ASSUME TypeOK, NEW t \in Threads, NEW q, run' = [run EXCEPT ![t] = q]
  PROVE  run'[t] = q /\ \A u \in Threads : u # t => run'[u] = run[u]
BY DEF TypeOK

LEMMA Strained ==
  ASSUME TypeOK, NEW p \in Profiles, NEW why \in SUBSET Strains, Strain(p, why)
  PROVE  /\ why \subseteq strained'[p]
         /\ \A r \in Profiles : strained[r] \subseteq strained'[r]
BY DEF TypeOK, Strain

LEMMA StrainsStay ==
  ASSUME TypeOK, [Next]_vars
  PROVE  prefs' = prefs /\ \A p \in Profiles : strained[p] \subseteq strained'[p]
<1>1. ASSUME NEW t \in Threads, NEW p \in Profiles, Start(t, p)
      PROVE  prefs' = prefs /\ \A r \in Profiles : strained[r] \subseteq strained'[r]
  BY <1>1, Strained DEF Start, Strains
<1>2. ASSUME NEW t \in Threads, Close(t)
      PROVE  prefs' = prefs /\ \A r \in Profiles : strained[r] \subseteq strained'[r]
  BY <1>2, Strained, RunTypes DEF Close, Strains
<1>3. ASSUME NEW t \in Threads, OpenOne(t)
      PROVE  prefs' = prefs /\ \A r \in Profiles : strained[r] \subseteq strained'[r]
  BY <1>3, Strained, RunTypes DEF OpenOne, Strains
<1>4. ASSUME NEW t \in Threads, Die(t)
      PROVE  prefs' = prefs /\ \A r \in Profiles : strained[r] \subseteq strained'[r]
  BY <1>4, Strained, RunTypes DEF Die, Strains
<1>5. ASSUME NEW s \in Symbols, NEW side \in Sides, ManualOpen(s, side)
      PROVE  prefs' = prefs /\ \A r \in Profiles : strained[r] \subseteq strained'[r]
  BY <1>5 DEF ManualOpen
<1>6. ASSUME NEW i \in DOMAIN rows, Undo(i)
      PROVE  prefs' = prefs /\ \A r \in Profiles : strained[r] \subseteq strained'[r]
  BY <1>6 DEF Undo
<1>7. ASSUME UNCHANGED <<prefs, strained>>
      PROVE  prefs' = prefs /\ \A r \in Profiles : strained[r] \subseteq strained'[r]
  BY <1>7
<1>8. ASSUME NEW t \in Threads, Record(t) PROVE UNCHANGED <<prefs, strained>>
  BY <1>8 DEF Record
<1>9. ASSUME NEW i \in DOMAIN rows, ManualClose(i) PROVE UNCHANGED <<prefs, strained>>
  BY <1>9 DEF ManualClose
<1>10. NewDay \/ UNCHANGED vars => UNCHANGED <<prefs, strained>>
  BY DEF NewDay, vars
<1> QED BY <1>1, <1>2, <1>3, <1>4, <1>5, <1>6, <1>7, <1>8, <1>9, <1>10 DEF Next

\* A close: one row less to close, and that row is not held any more unless it
\* was left open for want of a mark.
LEMMA CloseStep ==
  ASSUME TypeOK, TypeOK', NEW t \in Threads, Close(t)
  PROVE  /\ run[t] # NoRun /\ run'[t] # NoRun /\ run[t].profile \in Profiles
         /\ run'[t].profile = run[t].profile /\ run'[t].opening = run[t].opening
         /\ run'[t].notional = run[t].notional /\ run'[t].done = run[t].done
         /\ \A u \in Threads : u # t => run'[u] = run[u]
         /\ \A p \in Profiles : Kept(p)
         /\ UNCHANGED <<prefs, booked, made, begun, acts>>
         /\ \E i \in run[t].closing :
              /\ run'[t].closing = run[t].closing \ {i}
              /\ \A p \in Profiles :
                   RunOf(t, p) /\ i \in Own(p)' => "unmarked" \in strained'[p]
              /\ \A j \in DOMAIN rows : rows'[j] # rows[j] => j = i
<1> DEFINE i == NextClose(t)
           q == [run[t] EXCEPT !.closing = @ \ {i}, !.unmarked = @ \ {i}]
           p == run[t].profile
<1>1. run[t] # NoRun /\ run[t].closing # {} /\ UNCHANGED <<prefs, booked, made, begun, acts>>
  BY DEF Close
<1>2. i \in run[t].closing /\ i \in DOMAIN rows
  BY <1>1, NextCloseIsMarked
<1>3. run[t] \in Runs /\ p \in Profiles
  BY <1>1, RunTypes
<1>4. run'[t] = q /\ \A u \in Threads : u # t => run'[u] = run[u]
  <2>1. run' = [run EXCEPT ![t] = q]
    BY DEF Close, TypeOK
  <2> HIDE DEF q
  <2> QED BY <2>1, RunUpdated
<1>5. Strain(p, IF rows[i].open /\ ~Closes(t, i) THEN {"unmarked"} ELSE {})
        /\ IF Closes(t, i) THEN CloseRow(i) ELSE UNCHANGED rows
  BY DEF Close
<1> HIDE DEF i
<1>6. /\ q.profile = p /\ q.opening = run[t].opening /\ q.notional = run[t].notional
      /\ q.done = run[t].done /\ q.closing = run[t].closing \ {i} /\ q \in Runs
  BY <1>3 DEF Runs
<1>7. q # NoRun
  BY <1>6, NoRunAssumption
<1> HIDE DEF q
<1>8. CASE Closes(t, i)
  <2>1. rows' = [rows EXCEPT ![i].open = FALSE]
    BY <1>5, <1>8 DEF CloseRow
  <2>2. \A r : Kept(r) /\ i \notin Own(r)'
    BY <1>2, <2>1, KeptWhenClosed
  <2>3. \A j \in DOMAIN rows : rows'[j] # rows[j] => j = i
    BY <1>2, <2>1, RowToggled
  <2> QED BY <1>1, <1>2, <1>3, <1>4, <1>6, <1>7, <2>2, <2>3
<1>9. CASE ~Closes(t, i)
  <2>1. UNCHANGED rows
    BY <1>5, <1>9
  <2>2. \A r : Kept(r) /\ Own(r)' = Own(r)
    BY <2>1, KeptWhenSame
  <2>3. i \in Own(p) => "unmarked" \in strained'[p]
    <3>1. {"unmarked"} \in SUBSET Strains
      BY DEF Strains
    <3>2. i \in Own(p) => rows[i].open
      BY OwnRows
    <3> QED BY <1>3, <1>5, <1>9, <3>1, <3>2, Strained
  <2>4. \A r \in Profiles : RunOf(t, r) /\ i \in Own(r)' => "unmarked" \in strained'[r]
    BY <2>2, <2>3 DEF RunOf
  <2> QED BY <1>1, <1>2, <1>3, <1>4, <1>6, <1>7, <2>1, <2>2, <2>4
<1> QED BY <1>8, <1>9

\* An open: skipped, or filled with what its caps leave.
Skips(t) ==
  /\ run'[t].done = run[t].done
  /\ UNCHANGED <<rows, made, strained>>

Fills(t, p, o) ==
  \E sized \in Nat :
    /\ sized > 0
    /\ prefs[p].reserve > 0 => sized <= CashCap(p, run[t].notional)
    /\ Upsert(o.symbol, o.side, p, sized)
    /\ run'[t].done = run[t].done + 1
    /\ made' = [made EXCEPT ![p] = @ + (IF o.flip THEN 0 ELSE 1)]
    /\ run[t].done > 0 => "several" \in strained'[p]

LEMMA OpenStep ==
  ASSUME TypeOK, TypeOK', NEW t \in Threads, OpenOne(t)
  PROVE  /\ run[t] # NoRun /\ run'[t] # NoRun /\ run[t].profile \in Profiles
         /\ run[t].closing = {} /\ run[t].opening # <<>> /\ Head(run[t].opening) \in Opens
         /\ run'[t].profile = run[t].profile /\ run'[t].opening = Tail(run[t].opening)
         /\ run'[t].notional = run[t].notional /\ run'[t].closing = {}
         /\ \A u \in Threads : u # t => run'[u] = run[u]
         /\ UNCHANGED <<prefs, booked, begun, acts>>
         /\ Skips(t) \/ Fills(t, run[t].profile, Head(run[t].opening))
<1> DEFINE p == run[t].profile
           o == Head(run[t].opening)
           rest == [run[t] EXCEPT !.opening = Tail(@)]
<1>1. run[t] # NoRun /\ run[t].closing = {} /\ run[t].opening # <<>>
        /\ UNCHANGED <<prefs, booked, begun, acts>>
  BY DEF OpenOne
<1>2. /\ run[t] \in Runs /\ p \in Profiles /\ run[t].opening \in Seq(Opens)
      /\ run[t].done \in Nat /\ run[t].notional \in Nat
  BY <1>1, RunTypes
<1>3. o \in Opens /\ Tail(run[t].opening) \in Seq(Opens)
  BY <1>1, <1>2, Rest
<1>4. /\ rest \in Runs /\ rest.profile = p /\ rest.closing = {} /\ rest.done = run[t].done
      /\ rest.notional = run[t].notional /\ rest.opening = Tail(run[t].opening)
  BY <1>1, <1>2, <1>3 DEF Runs
<1>5. \/ run' = [run EXCEPT ![t] = rest] /\ UNCHANGED <<rows, made, strained>>
      \/ \E lots \in 1..MaxOrder :
           /\ Sized(p, run[t].notional, lots) > 0
           /\ Upsert(o.symbol, o.side, p, Sized(p, run[t].notional, lots))
           /\ run' = [run EXCEPT ![t] = [rest EXCEPT !.done = @ + 1]]
           /\ made' = [made EXCEPT ![p] = @ + (IF o.flip THEN 0 ELSE 1)]
           /\ Strain(p, IF run[t].done > 0 THEN {"several"} ELSE {})
  BY DEF OpenOne
<1> HIDE DEF rest, o
<1>6. CASE run' = [run EXCEPT ![t] = rest] /\ UNCHANGED <<rows, made, strained>>
  <2>1. run'[t] = rest /\ \A u \in Threads : u # t => run'[u] = run[u]
    BY <1>6, RunUpdated
  <2>2. rest # NoRun
    BY <1>4, NoRunAssumption
  <2> QED BY <1>1, <1>2, <1>3, <1>4, <1>6, <2>1, <2>2 DEF Skips, o
<1>7. ASSUME NEW lots \in 1..MaxOrder, Sized(p, run[t].notional, lots) > 0,
             Upsert(o.symbol, o.side, p, Sized(p, run[t].notional, lots)),
             run' = [run EXCEPT ![t] = [rest EXCEPT !.done = @ + 1]],
             made' = [made EXCEPT ![p] = @ + (IF o.flip THEN 0 ELSE 1)],
             Strain(p, IF run[t].done > 0 THEN {"several"} ELSE {})
      PROVE  /\ run'[t] # NoRun /\ run'[t].profile = p
             /\ run'[t].opening = Tail(run[t].opening)
             /\ run'[t].notional = run[t].notional /\ run'[t].closing = {}
             /\ \A u \in Threads : u # t => run'[u] = run[u]
             /\ Fills(t, p, o)
  <2> DEFINE sized == Sized(p, run[t].notional, lots)
             q == [rest EXCEPT !.done = @ + 1]
  <2>1. run'[t] = q /\ \A u \in Threads : u # t => run'[u] = run[u]
    <3> HIDE DEF q
    <3>1. run' = [run EXCEPT ![t] = q]
      BY <1>7 DEF q
    <3> QED BY <3>1, RunUpdated
  <2>2. /\ q \in Runs /\ q.profile = p /\ q.closing = {} /\ q.done = run[t].done + 1
        /\ q.notional = run[t].notional /\ q.opening = Tail(run[t].opening)
    BY <1>2, <1>4 DEF Runs
  <2>3. q # NoRun
    BY <2>2, NoRunAssumption
  <2>4. CashCap(p, run[t].notional) \in Int
    BY <1>2, SettingTypes DEF CashCap
  <2>5. sized \in Nat /\ (prefs[p].reserve > 0 => sized <= CashCap(p, run[t].notional))
    <3>1. lots \in Int /\ prefs[p].reserve \in Nat
      BY <1>2, SettingTypes, RunAssumption
    <3>2. sized \in Int
      BY <2>4, <3>1 DEF Sized
    <3>3. sized \in Nat
      BY <1>7, <3>2
    <3>4. prefs[p].reserve > 0 => sized <= CashCap(p, run[t].notional)
      BY <2>4, <3>1 DEF Sized
    <3> QED BY <3>3, <3>4
  <2>6. run[t].done > 0 => "several" \in strained'[p]
    <3>1. {"several"} \in SUBSET Strains /\ {} \in SUBSET Strains
      BY DEF Strains
    <3> QED BY <1>2, <1>7, <3>1, Strained
  <2>7. run'[t].done = run[t].done + 1
    BY <2>1, <2>2
  <2> HIDE DEF q
  <2>8. sized > 0 /\ Upsert(o.symbol, o.side, p, sized)
    BY <1>7
  <2> HIDE DEF sized
  <2>9. Fills(t, p, o)
    BY <1>7, <2>5, <2>6, <2>7, <2>8 DEF Fills
  <2> QED BY <2>1, <2>2, <2>3, <2>9
<1> QED BY <1>1, <1>2, <1>3, <1>5, <1>6, <1>7 DEF o

LEMMA StartUpdates ==
  ASSUME TypeOK, NEW t \in Threads, NEW p \in Profiles, Start(t, p)
  PROVE  \E n : n.profile = p /\ run' = [run EXCEPT ![t] = n]
<1>1. PICK r \in Reviews(p), signal \in Signals :
        \E unmarked \in SUBSET (Stopped(p, r) \cup Reversed(p, r, signal)),
           queue \in Plannable(p, r, signal) :
          \E flips \in SetToSeqs(FlipSymbols(p, r, signal, queue)) :
            StartsAs(t, p, r, signal, queue, flips, unmarked)
  BY StartFacts
<1>2. PICK unmarked \in SUBSET (Stopped(p, r) \cup Reversed(p, r, signal)),
           queue \in Plannable(p, r, signal) :
        \E flips \in SetToSeqs(FlipSymbols(p, r, signal, queue)) :
          StartsAs(t, p, r, signal, queue, flips, unmarked)
  BY <1>1
<1>3. PICK flips \in SetToSeqs(FlipSymbols(p, r, signal, queue)) :
             StartsAs(t, p, r, signal, queue, flips, unmarked)
  BY <1>2
<1> DEFINE n == [profile  |-> p,
                 closing  |-> Stopped(p, r) \cup Reversed(p, r, signal),
                 unmarked |-> unmarked,
                 opening  |-> Legs(queue, signal, FALSE) \o Legs(flips, signal, TRUE),
                 notional |-> LotsOf(p),
                 done     |-> 0]
<1>4. n.profile = p
  OBVIOUS
<1>5. run' = [run EXCEPT ![t] = n]
  BY <1>3 DEF StartsAs
<1> HIDE DEF n
<1> QED BY <1>4, <1>5

\* A step that is not the profile's own: its runs and its counters stay, and its
\* book shrinks if it changes at all, but for an undone close or a joined order.
Quiet(p) ==
  /\ \A u \in Threads : /\ RunOf(u, p)' <=> RunOf(u, p)
                        /\ RunOf(u, p) => run'[u] = run[u]
  /\ made'[p] = made[p] /\ booked'[p] = booked[p]
  /\ \/ "undone" \in strained'[p]
     \/ Own(p)' \subseteq Own(p) /\ (LotsOf(p)' <= LotsOf(p) \/ "added" \in strained'[p])

LEMMA QuietWhenAnothersRun ==
  ASSUME TypeOK, NEW p \in Profiles, NEW t \in Threads, Kept(p), ~RunOf(t, p), ~RunOf(t, p)',
         \A u \in Threads : u # t => run'[u] = run[u],
         made'[p] = made[p], booked'[p] = booked[p]
  PROVE  Quiet(p)
BY DEF Quiet, Kept, RunOf

LEMMA QuietWhenRunsStay ==
  ASSUME TypeOK, NEW p \in Profiles, UNCHANGED <<run, made, booked>>,
         \/ "undone" \in strained'[p]
         \/ Own(p)' \subseteq Own(p) /\ (LotsOf(p)' <= LotsOf(p) \/ "added" \in strained'[p])
  PROVE  Quiet(p)
BY DEF Quiet, RunOf

LEMMA StepCases ==
  ASSUME TypeOK, TypeOK', [Next]_vars, NEW p \in Profiles
  PROVE  \/ Quiet(p)
         \/ \E t \in Threads : Start(t, p)
         \/ \E t \in Threads : RunOf(t, p) /\ (Close(t) \/ OpenOne(t) \/ Record(t) \/ Die(t))
         \/ NewDay
<1>1. ASSUME NEW t \in Threads, NEW q \in Profiles, Start(t, q), q # p PROVE Quiet(p)
  <2>1. run[t] = NoRun /\ UNCHANGED <<prefs, rows, booked, made, acts>>
    BY <1>1 DEF Start
  <2>2. PICK n : n.profile = q /\ run' = [run EXCEPT ![t] = n]
    BY <1>1, StartUpdates
  <2>4. run'[t].profile = q /\ \A u \in Threads : u # t => run'[u] = run[u]
    BY <2>2, RunUpdated
  <2>5. ~RunOf(t, p) /\ ~RunOf(t, p)'
    BY <1>1, <2>1, <2>4 DEF RunOf
  <2>6. Kept(p)
    BY <2>1, KeptWhenSame
  <2> QED BY <2>1, <2>4, <2>5, <2>6, QuietWhenAnothersRun
<1>2. ASSUME NEW t \in Threads, Close(t), ~RunOf(t, p) PROVE Quiet(p)
  <2>1. /\ run[t] # NoRun /\ run'[t].profile = run[t].profile /\ Kept(p)
        /\ \A u \in Threads : u # t => run'[u] = run[u]
        /\ UNCHANGED <<booked, made>>
    BY <1>2, CloseStep
  <2>2. ~RunOf(t, p)'
    BY <1>2, <2>1 DEF RunOf
  <2> QED BY <1>2, <2>1, <2>2, QuietWhenAnothersRun
<1>3. ASSUME NEW t \in Threads, OpenOne(t), ~RunOf(t, p) PROVE Quiet(p)
  <2> DEFINE q == run[t].profile
             o == Head(run[t].opening)
  <2>1. /\ run[t] # NoRun /\ run'[t].profile = q /\ q \in Profiles /\ o \in Opens
        /\ \A u \in Threads : u # t => run'[u] = run[u]
        /\ UNCHANGED booked
        /\ Skips(t) \/ Fills(t, q, o)
    BY <1>3, OpenStep
  <2>2. ~RunOf(t, p)' /\ q # p
    BY <1>3, <2>1 DEF RunOf
  <2>3. Kept(p) /\ made'[p] = made[p]
    <3>1. CASE Skips(t)
      BY <3>1, KeptWhenSame DEF Skips
    <3>2. CASE Fills(t, q, o)
      <4> HIDE DEF q, o
      <4>1. PICK sized \in Nat : /\ Upsert(o.symbol, o.side, q, sized)
                                 /\ made' = [made EXCEPT ![q] = @ + (IF o.flip THEN 0 ELSE 1)]
        BY <3>2 DEF Fills
      <4>2. o.symbol \in Symbols /\ o.side \in Sides /\ q \in Owners
        BY <2>1 DEF Opens, Owners
      <4>3. Own(p) \cap Matches(o.symbol, o.side, q) = {}
        BY <2>1, <2>2, RunAssumption DEF Own, Matches
      <4>4. Kept(p)
        BY <2>2, <4>1, <4>2, <4>3, KeptWhenAnothersFills, Zenon
      <4>5. made'[p] = made[p]
        BY <2>2, <4>1 DEF TypeOK
      <4> QED BY <4>4, <4>5
    <3> QED BY <2>1, <3>1, <3>2
  <2> QED BY <1>3, <2>1, <2>2, <2>3, QuietWhenAnothersRun
<1>4. ASSUME NEW t \in Threads, Record(t) \/ Die(t), ~RunOf(t, p) PROVE Quiet(p)
  <2>1. /\ run[t] # NoRun /\ run' = [run EXCEPT ![t] = NoRun] /\ UNCHANGED <<rows, made>>
        /\ UNCHANGED booked \/ booked' = [booked EXCEPT ![run[t].profile] = BookedBy(run[t].profile, t)]
    BY <1>4 DEF Record, Die
  <2>2. run'[t] = NoRun /\ \A u \in Threads : u # t => run'[u] = run[u]
    BY <2>1, RunUpdated
  <2>3. Kept(p) /\ ~RunOf(t, p)'
    BY <2>1, <2>2, KeptWhenSame DEF RunOf
  <2>4. booked'[p] = booked[p]
    BY <1>4, <2>1 DEF RunOf, TypeOK
  <2> QED BY <1>4, <2>1, <2>2, <2>3, <2>4, QuietWhenAnothersRun
<1>5. ASSUME NEW s \in Symbols, NEW side \in Sides, ManualOpen(s, side) PROVE Quiet(p)
  <2>1. /\ Upsert(s, side, Manual, 1) /\ UNCHANGED <<run, made, booked>>
        /\ Own(p) \cap Matches(s, side, Manual) # {} => "added" \in strained'[p]
    BY <1>5 DEF ManualOpen
  <2>2. Manual \in Owners /\ Manual # p /\ 1 \in Nat
    BY RunAssumption DEF Owners
  <2>3. /\ Own(p)' \subseteq Own(p)
        /\ Own(p) \cap Matches(s, side, Manual) = {} => Kept(p)
    BY <2>1, <2>2, KeptWhenAnothersFills, Zenon
  <2> QED BY <2>1, <2>3, QuietWhenRunsStay DEF Kept
<1>6. ASSUME NEW i \in DOMAIN rows, ManualClose(i) PROVE Quiet(p)
  <2>1. rows' = [rows EXCEPT ![i].open = FALSE] /\ UNCHANGED <<run, made, booked>>
    BY <1>6 DEF ManualClose, CloseRow
  <2>2. Kept(p)
    BY <2>1, KeptWhenClosed
  <2> QED BY <2>1, <2>2, QuietWhenRunsStay DEF Kept
<1>7. ASSUME NEW i \in DOMAIN rows, Undo(i) PROVE Quiet(p)
  <2>1. rows' = [rows EXCEPT ![i].open = TRUE] /\ UNCHANGED <<run, made, booked>>
          /\ (rows[i].owner = p => "undone" \in strained'[p])
    BY <1>7 DEF Undo
  <2>2. rows[i].owner # p => Kept(p)
    BY <2>1, KeptWhenAnothersReopens
  <2> QED BY <2>1, <2>2, QuietWhenRunsStay DEF Kept
<1>8. ASSUME UNCHANGED vars PROVE Quiet(p)
  BY <1>8, KeptWhenSame, QuietWhenRunsStay DEF vars, Kept
<1> QED BY <1>1, <1>2, <1>3, <1>4, <1>5, <1>6, <1>7, <1>8 DEF Next

\* A start: the plan of a profile that no other thread runs, or an overlap.
LEMMA StartStep ==
  ASSUME TypeOK, NEW t \in Threads, NEW p \in Profiles, Start(t, p)
  PROVE  /\ run[t] = NoRun /\ run'[t] # NoRun /\ run'[t].profile = p
         /\ \A u \in Threads : u # t => run'[u] = run[u]
         /\ UNCHANGED <<prefs, rows, booked, made, acts>>
         /\ (\E u \in Threads : RunOf(u, p)) => "overlap" \in strained'[p]
         /\ run'[t].notional = LotsOf(p) /\ run'[t].done = 0
         /\ \E r \in Reviews(p), signal \in Signals :
              /\ run'[t].closing = Stopped(p, r) \cup Reversed(p, r, signal)
              /\ PlannedFor(p, r, signal, run'[t].opening)
<1>1. PICK r \in Reviews(p), signal \in Signals :
        \E unmarked \in SUBSET (Stopped(p, r) \cup Reversed(p, r, signal)),
           queue \in Plannable(p, r, signal) :
          \E flips \in SetToSeqs(FlipSymbols(p, r, signal, queue)) :
            StartsAs(t, p, r, signal, queue, flips, unmarked)
  BY StartFacts
<1>2. PICK unmarked \in SUBSET (Stopped(p, r) \cup Reversed(p, r, signal)),
           queue \in Plannable(p, r, signal) :
        \E flips \in SetToSeqs(FlipSymbols(p, r, signal, queue)) :
          StartsAs(t, p, r, signal, queue, flips, unmarked)
  BY <1>1
<1>3. PICK flips \in SetToSeqs(FlipSymbols(p, r, signal, queue)) :
             StartsAs(t, p, r, signal, queue, flips, unmarked)
  BY <1>2
<1> DEFINE opening == Legs(queue, signal, FALSE) \o Legs(flips, signal, TRUE)
           closing == Stopped(p, r) \cup Reversed(p, r, signal)
           n0 == [profile  |-> p, closing  |-> closing, unmarked |-> unmarked,
                  opening  |-> opening, notional |-> LotsOf(p), done |-> 0]
<1>4. opening \in Seq(Opens) /\ PlannedFor(p, r, signal, opening)
  <2>1. opening = Legs(queue, signal, FALSE) \o Legs(flips, signal, TRUE)
    OBVIOUS
  <2> HIDE DEF opening
  <2> QED BY <2>1, PlanFacts
<1>5. run' = [run EXCEPT ![t] = n0]
  BY <1>3 DEF StartsAs
<1>6. closing \in SUBSET RowIds /\ unmarked \in SUBSET RowIds /\ LotsOf(p) \in Nat
  <2>1. closing \subseteq DOMAIN rows
    BY ClosingIsOwn, OwnRows
  <2>2. DOMAIN rows \subseteq RowIds
    BY OwnRows
  <2>3. LotsOf(p) \in Nat
    BY BookIsSum
  <2> QED BY <2>1, <2>2, <2>3
<1> HIDE DEF opening, closing
<1>7. /\ n0.profile = p /\ n0.closing = closing /\ n0.opening = opening
      /\ n0.notional = LotsOf(p) /\ n0.done = 0 /\ n0 \in Runs
  BY <1>4, <1>6 DEF Runs
<1> HIDE DEF n0
<1>8. run'[t] = n0 /\ \A u \in Threads : u # t => run'[u] = run[u]
  BY <1>5, RunUpdated
<1>9. n0 # NoRun
  BY <1>7, NoRunAssumption
<1>10. run[t] = NoRun /\ UNCHANGED <<prefs, rows, booked, made, acts>>
  BY DEF Start
<1>11. (\E u \in Threads : RunOf(u, p)) => "overlap" \in strained'[p]
  BY StartFacts DEF TypeOK
<1> QED BY <1>4, <1>7, <1>8, <1>9, <1>10, <1>11 DEF closing

LEMMA PlansAfter ==
  ASSUME TypeOK', NEW t \in Threads, run'[t] # NoRun
  PROVE  DOMAIN run'[t].opening \subseteq Nat
<1>1. run'[t].opening \in Seq(Opens)
  BY DEF TypeOK, Runs
<1> QED BY <1>1, LenProperties

(***************************************************************************)
(* Runs of their own, one at a time                                        *)
(***************************************************************************)

\* Only rows of its own profile are marked for a run to close.
RunsOwn ==
  \A t \in Threads :
    run[t] # NoRun => \A i \in run[t].closing : rows[i].owner = run[t].profile

\* Without an overlap a profile is run by one thread at a time.
Alone ==
  \A p \in Profiles, t, u \in Threads :
    Calm(p, {"overlap"}) /\ RunOf(t, p) /\ RunOf(u, p) => t = u

LEMMA RowsAlwaysLast ==
  ASSUME TypeOK, TypeOK', [Next]_vars
  PROVE  RowsLast
<1>0. UNCHANGED rows => RowsLast
  <2>1. DOMAIN rows = 1..Len(rows) /\ Len(rows) \in Nat /\ rows \in Seq(Rows)
    BY OwnRows DEF TypeOK
  <2> QED BY <2>1 DEF RowsLast
<1>1. ASSUME NEW t \in Threads, Close(t) PROVE RowsLast
  <2>1. run[t] # NoRun /\ run[t].closing # {}
    BY <1>1 DEF Close
  <2>2. NextClose(t) \in DOMAIN rows
    BY <2>1, NextCloseIsMarked
  <2>3. UNCHANGED rows \/ rows' = [rows EXCEPT ![NextClose(t)].open = FALSE]
    BY <1>1 DEF Close, CloseRow
  <2> QED BY <1>0, <2>2, <2>3, RowsLastWhenToggled
<1>2. ASSUME NEW t \in Threads, OpenOne(t) PROVE RowsLast
  <2> DEFINE q == run[t].profile
             o == Head(run[t].opening)
  <2>1. q \in Owners /\ o.symbol \in Symbols /\ o.side \in Sides /\ (Skips(t) \/ Fills(t, q, o))
    BY <1>2, OpenStep DEF Owners, Opens
  <2> HIDE DEF q, o
  <2>2. CASE Skips(t)
    BY <1>0, <2>2 DEF Skips
  <2>3. CASE Fills(t, q, o)
    <3>1. PICK sized \in Nat : Upsert(o.symbol, o.side, q, sized)
      BY <2>3 DEF Fills
    <3> QED BY <2>1, <3>1, RowsLastWhenFilled, Zenon
  <2> QED BY <2>1, <2>2, <2>3
<1>3. ASSUME NEW s \in Symbols, NEW side \in Sides, ManualOpen(s, side) PROVE RowsLast
  <2>1. Upsert(s, side, Manual, 1) /\ Manual \in Owners /\ 1 \in Nat
    BY <1>3 DEF ManualOpen, Owners
  <2> QED BY <2>1, RowsLastWhenFilled, Zenon
<1>4. ASSUME NEW i \in DOMAIN rows, ManualClose(i) \/ Undo(i) PROVE RowsLast
  <2>1. rows' = [rows EXCEPT ![i].open = FALSE] \/ rows' = [rows EXCEPT ![i].open = TRUE]
    BY <1>4 DEF ManualClose, CloseRow, Undo
  <2> QED BY <2>1, RowsLastWhenToggled
<1>5. ASSUME NEW t \in Threads, Record(t) \/ Die(t) \/ \E p \in Profiles : Start(t, p)
      PROVE  UNCHANGED rows
  BY <1>5 DEF Record, Die, Start
<1>6. NewDay \/ UNCHANGED vars => UNCHANGED rows
  BY DEF NewDay, vars
<1> QED BY <1>0, <1>1, <1>2, <1>3, <1>4, <1>5, <1>6 DEF Next

\* Which runs a step leaves as they were, and what becomes of the one it moves.
LEMMA RunsMove ==
  ASSUME TypeOK, TypeOK', [Next]_vars
  PROVE  \/ UNCHANGED run
         \/ \E t \in Threads :
              /\ \A u \in Threads : u # t => run'[u] = run[u]
              /\ \/ run'[t] = NoRun
                 \/ \E p \in Profiles : Start(t, p)
                 \/ /\ run[t] # NoRun /\ run'[t].profile = run[t].profile
                    /\ run'[t].closing \subseteq run[t].closing
<1>1. ASSUME NEW t \in Threads, Close(t)
      PROVE  /\ \A u \in Threads : u # t => run'[u] = run[u]
             /\ run[t] # NoRun /\ run'[t].profile = run[t].profile
             /\ run'[t].closing \subseteq run[t].closing
  BY <1>1, CloseStep
<1>2. ASSUME NEW t \in Threads, OpenOne(t)
      PROVE  /\ \A u \in Threads : u # t => run'[u] = run[u]
             /\ run[t] # NoRun /\ run'[t].profile = run[t].profile
             /\ run'[t].closing \subseteq run[t].closing
  BY <1>2, OpenStep
<1>3. ASSUME NEW t \in Threads, Record(t) \/ Die(t)
      PROVE  run'[t] = NoRun /\ \A u \in Threads : u # t => run'[u] = run[u]
  BY <1>3, RunUpdated DEF Record, Die
<1>4. ASSUME NEW t \in Threads, NEW p \in Profiles, Start(t, p)
      PROVE  \A u \in Threads : u # t => run'[u] = run[u]
  BY <1>4, StartStep
<1>5. ASSUME NEW s \in Symbols, NEW side \in Sides, ManualOpen(s, side) PROVE UNCHANGED run
  BY <1>5 DEF ManualOpen
<1>6. ASSUME NEW i \in DOMAIN rows, ManualClose(i) \/ Undo(i) PROVE UNCHANGED run
  BY <1>6 DEF ManualClose, Undo
<1>7. NewDay \/ UNCHANGED vars => UNCHANGED run
  BY DEF NewDay, vars
<1> QED BY <1>1, <1>2, <1>3, <1>4, <1>5, <1>6, <1>7 DEF Next

LEMMA RunsOwnKept ==
  ASSUME TypeOK, TypeOK', RunsOwn, [Next]_vars
  PROVE  RunsOwn'
<1>1. SUFFICES ASSUME NEW t \in Threads, run'[t] # NoRun, NEW i \in run'[t].closing
               PROVE  rows'[i].owner = run'[t].profile
  BY DEF RunsOwn
<1>2. \A j \in DOMAIN rows : rows'[j].owner = rows[j].owner
  BY RowsAlwaysLast DEF RowsLast
<1>3. CASE run'[t] = run[t]
  BY <1>1, <1>2, <1>3, RunTypes DEF RunsOwn
<1>4. CASE run[t] # NoRun /\ run'[t].profile = run[t].profile
             /\ run'[t].closing \subseteq run[t].closing
  BY <1>1, <1>2, <1>4, RunTypes DEF RunsOwn
<1>5. ASSUME NEW p \in Profiles, Start(t, p) PROVE rows'[i].owner = run'[t].profile
  <2>1. PICK r \in Reviews(p), signal \in Signals :
          /\ run'[t].closing = Stopped(p, r) \cup Reversed(p, r, signal)
          /\ run'[t].profile = p
    BY <1>5, StartStep
  <2>2. i \in Own(p)
    BY <1>1, <2>1, ClosingIsOwn
  <2> QED BY <1>2, <2>1, <2>2, OwnRows
<1> QED BY <1>1, <1>3, <1>4, <1>5, RunsMove

LEMMA AloneKept ==
  ASSUME TypeOK, TypeOK', Alone, [Next]_vars
  PROVE  Alone'
<1>1. SUFFICES ASSUME NEW p \in Profiles, NEW t \in Threads, NEW u \in Threads,
                      Calm(p, {"overlap"})', RunOf(t, p)', RunOf(u, p)', t # u
               PROVE  FALSE
  BY DEF Alone
<1>2. Calm(p, {"overlap"})
  BY <1>1, StrainsStay DEF Calm
<1>3. ~(RunOf(t, p) /\ RunOf(u, p))
  BY <1>1, <1>2 DEF Alone
<1>4. PICK v \in Threads : \E q \in Profiles : Start(v, q) /\ q = p
  <2>1. ~UNCHANGED run
    BY <1>1, <1>3 DEF RunOf
  <2>2. PICK v \in Threads :
          /\ \A w \in Threads : w # v => run'[w] = run[w]
          /\ \/ run'[v] = NoRun
             \/ \E q \in Profiles : Start(v, q)
             \/ /\ run[v] # NoRun /\ run'[v].profile = run[v].profile
    BY <2>1, RunsMove
  <2>3. v = t \/ v = u
    BY <1>1, <1>3, <2>2 DEF RunOf
  <2>4. \E q \in Profiles : Start(v, q)
    BY <1>1, <1>3, <2>2, <2>3 DEF RunOf
  <2>5. PICK q \in Profiles : Start(v, q)
    BY <2>4
  <2>6. run'[v].profile = q
    BY <2>5, StartStep
  <2>7. q = p
    BY <1>1, <2>3, <2>6 DEF RunOf
  <2> QED BY <2>5, <2>7
<1>5. /\ run[v] = NoRun
      /\ \A w \in Threads : w # v => run'[w] = run[w]
      /\ (\E w \in Threads : RunOf(w, p)) => "overlap" \in strained'[p]
  BY <1>4, StartStep
<1>6. \E w \in Threads : RunOf(w, p)
  BY <1>1, <1>5 DEF RunOf
<1> QED BY <1>1, <1>5, <1>6 DEF Calm

(***************************************************************************)
(* One side per symbol: a symbol is held once, planned once, and no longer *)
(* held when it is opened                                                  *)
(***************************************************************************)

PlanAvoids(t, p) ==
  /\ \A m, n \in DOMAIN run[t].opening :
       run[t].opening[m].symbol = run[t].opening[n].symbol => m = n
  /\ \A n \in DOMAIN run[t].opening, i \in Own(p) :
       rows[i].symbol = run[t].opening[n].symbol => i \in run[t].closing

Disturbed(p) == prefs[p].reopen \/ ~Calm(p, {"unmarked", "overlap", "undone"})

HeldOnce(p) ==
  ~Disturbed(p) =>
    /\ \A i, j \in Own(p) : rows[i].symbol = rows[j].symbol => i = j
    /\ \A t \in Threads : RunOf(t, p) => PlanAvoids(t, p)

\* A profile that is calm after a step was so before.
LEMMA CalmBefore ==
  ASSUME TypeOK, [Next]_vars, NEW p \in Profiles, NEW why, Calm(p, why)'
  PROVE  Calm(p, why)
BY StrainsStay DEF Calm

LEMMA SymbolsStay ==
  ASSUME TypeOK, TypeOK', [Next]_vars, NEW p
  PROVE  \A i \in Own(p) : rows'[i].symbol = rows[i].symbol
BY RowsAlwaysLast, OwnRows DEF RowsLast

\* No other thread runs the profile of a run that a step has moved.
LEMMA AloneAfter ==
  ASSUME Alone', NEW p \in Profiles, ~Disturbed(p)', NEW t \in Threads, RunOf(t, p)'
  PROVE  \A u \in Threads : RunOf(u, p)' => u = t
BY DEF Alone, Disturbed, Calm

LEMMA HeldOnceKept ==
  ASSUME TypeOK, TypeOK', Alone, Alone', [Next]_vars, NEW p \in Profiles, HeldOnce(p)
  PROVE  HeldOnce(p)'
<1>1. SUFFICES ASSUME ~Disturbed(p)'
               PROVE  /\ (\A i, j \in Own(p) : rows[i].symbol = rows[j].symbol => i = j)'
                      /\ \A t \in Threads : RunOf(t, p)' => PlanAvoids(t, p)'
  BY DEF HeldOnce
<1>2. ~Disturbed(p)
  BY <1>1, StrainsStay DEF Disturbed, Calm
<1>3. /\ \A i, j \in Own(p) : rows[i].symbol = rows[j].symbol => i = j
      /\ \A t \in Threads : RunOf(t, p) => PlanAvoids(t, p)
  BY <1>2 DEF HeldOnce
<1>4. /\ "overlap" \notin strained'[p] /\ "unmarked" \notin strained'[p]
      /\ "undone" \notin strained'[p] /\ ~prefs'[p].reopen /\ ~prefs[p].reopen
  BY <1>1, <1>2 DEF Disturbed, Calm
<1>5. \A i \in Own(p) : rows'[i].symbol = rows[i].symbol
  BY SymbolsStay
<1>6. ASSUME Own(p)' \subseteq Own(p)
      PROVE  (\A i, j \in Own(p) : rows[i].symbol = rows[j].symbol => i = j)'
  BY <1>3, <1>5, <1>6
<1>7. CASE Quiet(p)
  <2>1. Own(p)' \subseteq Own(p)
    BY <1>4, <1>7 DEF Quiet
  <2>2. ASSUME NEW t \in Threads, RunOf(t, p)' PROVE PlanAvoids(t, p)'
    <3>1. PlanAvoids(t, p) /\ run'[t] = run[t]
      BY <1>3, <1>7, <2>2 DEF Quiet
    <3> QED BY <1>5, <2>1, <3>1 DEF PlanAvoids
  <2> QED BY <1>6, <2>1, <2>2
<1>8. CASE \E t \in Threads : Start(t, p)
  <2>1. PICK t \in Threads : Start(t, p)
    BY <1>8
  <2>2. /\ run'[t] # NoRun /\ run'[t].profile = p /\ UNCHANGED rows
        /\ \E r \in Reviews(p), signal \in Signals :
             /\ run'[t].closing = Stopped(p, r) \cup Reversed(p, r, signal)
             /\ PlannedFor(p, r, signal, run'[t].opening)
    BY <2>1, StartStep
  <2>3. PICK r \in Reviews(p), signal \in Signals :
          /\ run'[t].closing = Stopped(p, r) \cup Reversed(p, r, signal)
          /\ PlannedFor(p, r, signal, run'[t].opening)
    BY <2>2
  <2>4. Own(p)' = Own(p)
    BY <2>2, KeptWhenSame
  <2>5. ASSUME NEW n \in DOMAIN run'[t].opening, NEW i \in Own(p),
               rows[i].symbol = run'[t].opening[n].symbol
        PROVE  i \in run'[t].closing
    <3> DEFINE s == run'[t].opening[n].symbol
    <3>1. s \notin Held(p, r) \/ s \in SymbolsOf(Flipped(p, r, signal))
      BY <1>4, <2>3 DEF PlannedFor
    <3>2. \/ \E j \in Stopped(p, r) : rows[j].symbol = s
          \/ \E j \in Flipped(p, r, signal) : rows[j].symbol = s
      BY <2>5, <3>1 DEF Held, SymbolsOf
    <3>3. Flipped(p, r, signal) \subseteq Reversed(p, r, signal)
      BY DEF Flipped, Reversed, ClosesOnSignal
    <3>4. PICK j \in run'[t].closing : rows[j].symbol = s
      BY <2>3, <3>2, <3>3
    <3>5. j \in Own(p)
      BY <2>3, ClosingIsOwn
    <3> QED BY <1>3, <2>5, <3>4, <3>5
  <2>6. PlanAvoids(t, p)'
    BY <2>2, <2>3, <2>4, <2>5 DEF PlanAvoids, PlannedFor
  <2>7. RunOf(t, p)'
    BY <2>2 DEF RunOf
  <2>8. \A u \in Threads : RunOf(u, p)' => u = t
    BY <1>1, <2>7, AloneAfter
  <2> QED BY <1>6, <2>4, <2>6, <2>8
<1>9. ASSUME NEW t \in Threads, RunOf(t, p), Close(t)
      PROVE  /\ (\A i, j \in Own(p) : rows[i].symbol = rows[j].symbol => i = j)'
             /\ \A u \in Threads : RunOf(u, p)' => PlanAvoids(u, p)'
  <2>1. /\ run'[t] # NoRun /\ run'[t].profile = run[t].profile
        /\ run'[t].opening = run[t].opening /\ Kept(p)
        /\ \E i \in run[t].closing :
              /\ run'[t].closing = run[t].closing \ {i}
              /\ i \in Own(p)' => "unmarked" \in strained'[p]
    BY <1>9, CloseStep
  <2>2. PICK i \in run[t].closing :
              /\ run'[t].closing = run[t].closing \ {i}
              /\ i \in Own(p)' => "unmarked" \in strained'[p]
    BY <2>1
  <2>3. PlanAvoids(t, p)
    BY <1>3, <1>9
  <2>4. Own(p)' \subseteq Own(p) \ {i}
    BY <1>4, <2>1, <2>2 DEF Kept
  <2>5. PlanAvoids(t, p)'
    BY <1>5, <2>1, <2>2, <2>3, <2>4 DEF PlanAvoids
  <2>6. RunOf(t, p)'
    BY <1>9, <2>1 DEF RunOf
  <2>7. \A u \in Threads : RunOf(u, p)' => u = t
    BY <1>1, <2>6, AloneAfter
  <2> QED BY <1>6, <2>4, <2>5, <2>7
<1>10. ASSUME NEW t \in Threads, RunOf(t, p), OpenOne(t)
       PROVE  /\ (\A i, j \in Own(p) : rows[i].symbol = rows[j].symbol => i = j)'
              /\ \A u \in Threads : RunOf(u, p)' => PlanAvoids(u, p)'
  <2> DEFINE q == run[t].opening
             o == Head(q)
  <2>1. /\ run'[t] # NoRun /\ run'[t].profile = run[t].profile /\ run[t].profile = p
        /\ run[t].closing = {} /\ q # <<>> /\ o \in Opens /\ run'[t].opening = Tail(q)
        /\ run'[t].closing = {} /\ (Skips(t) \/ Fills(t, p, o))
    BY <1>10, OpenStep DEF RunOf
  <2>2. PlanAvoids(t, p)
    BY <1>3, <1>10
  <2>3. /\ o = q[1] /\ 1 \in DOMAIN q
        /\ \A n \in DOMAIN Tail(q) : n \in Nat /\ n + 1 \in DOMAIN q /\ Tail(q)[n] = q[n + 1]
    BY <1>10, <2>1, RunTypes, Rest DEF RunOf
  <2>4. /\ \A m, n \in DOMAIN q : q[m].symbol = q[n].symbol => m = n
        /\ \A n \in DOMAIN q, i \in Own(p) : rows[i].symbol # q[n].symbol
    BY <2>1, <2>2 DEF PlanAvoids
  <2> HIDE DEF q, o
  <2>5. \A n \in DOMAIN Tail(q) :
          /\ Tail(q)[n].symbol # o.symbol
          /\ \A i \in Own(p) : rows[i].symbol # Tail(q)[n].symbol
    <3>1. SUFFICES ASSUME NEW n \in DOMAIN Tail(q)
                   PROVE  /\ Tail(q)[n].symbol # o.symbol
                          /\ \A i \in Own(p) : rows[i].symbol # Tail(q)[n].symbol
      OBVIOUS
    <3>2. n \in Nat /\ n + 1 \in DOMAIN q /\ Tail(q)[n] = q[n + 1] /\ n + 1 # 1
      <4>1. n \in DOMAIN Tail(q) => n \in Nat /\ n + 1 \in DOMAIN q /\ Tail(q)[n] = q[n + 1]
        BY <2>3
      <4>2. n # 0
        BY <4>1, <3>1, <2>1, RunTypes, <1>10, Rest, HeadTailProperties DEF q, RunOf
      <4> QED BY <3>1, <4>1, <4>2
    <3> QED BY <2>3, <2>4, <3>2
  <2>6. \A m, n \in DOMAIN Tail(q) : Tail(q)[m].symbol = Tail(q)[n].symbol => m = n
    <3>1. SUFFICES ASSUME NEW m \in DOMAIN Tail(q), NEW n \in DOMAIN Tail(q),
                          Tail(q)[m].symbol = Tail(q)[n].symbol
                   PROVE  m = n
      OBVIOUS
    <3>2. m \in Nat /\ n \in Nat /\ m + 1 = n + 1
      BY <2>3, <2>4, <3>1
    <3> QED BY <3>2
  <2>7. /\ \E k : \A i \in Own(p)' : i \in Own(p) \/ (i = k /\ rows'[i].symbol = o.symbol)
    <3>1. CASE Skips(t)
      BY <3>1, KeptWhenSame DEF Skips
    <3>2. CASE Fills(t, p, o)
      <4>1. PICK sized \in Nat : Upsert(o.symbol, o.side, p, sized)
        BY <3>2 DEF Fills
      <4>2. o.symbol \in Symbols /\ o.side \in Sides
        BY <2>1 DEF Opens
      <4> QED BY <4>1, <4>2, BookWhenFilled, Zenon
    <3> QED BY <2>1, <3>1, <3>2
  <2>8. PICK k : \A i \in Own(p)' : i \in Own(p) \/ (i = k /\ rows'[i].symbol = o.symbol)
    BY <2>7
  <2>9. \A i \in Own(p) : rows'[i].symbol # o.symbol
    BY <1>5, <2>3, <2>4
  <2>10. (\A i, j \in Own(p) : rows[i].symbol = rows[j].symbol => i = j)'
    BY <1>3, <1>5, <2>8, <2>9
  <2>11. PlanAvoids(t, p)'
    <3>1. \A n \in DOMAIN Tail(q), i \in Own(p)' : rows'[i].symbol # Tail(q)[n].symbol
      BY <1>5, <2>5, <2>8
    <3> QED BY <2>1, <2>6, <3>1 DEF PlanAvoids
  <2>12. RunOf(t, p)'
    BY <2>1 DEF RunOf
  <2>13. \A u \in Threads : RunOf(u, p)' => u = t
    BY <1>1, <2>12, AloneAfter
  <2> QED BY <2>10, <2>11, <2>13
<1>11. ASSUME NEW t \in Threads, RunOf(t, p), Record(t) \/ Die(t)
       PROVE  /\ (\A i, j \in Own(p) : rows[i].symbol = rows[j].symbol => i = j)'
              /\ \A u \in Threads : RunOf(u, p)' => PlanAvoids(u, p)'
  <2>1. run' = [run EXCEPT ![t] = NoRun] /\ UNCHANGED rows
    BY <1>11 DEF Record, Die
  <2>2. run'[t] = NoRun /\ \A u \in Threads : u # t => run'[u] = run[u]
    BY <2>1, RunUpdated
  <2>3. Own(p)' = Own(p)
    BY <2>1, KeptWhenSame
  <2>4. ASSUME NEW u \in Threads, RunOf(u, p)' PROVE PlanAvoids(u, p)'
    <3>1. run'[u] = run[u] /\ RunOf(u, p)
      BY <2>2, <2>4 DEF RunOf
    <3> QED BY <1>3, <2>1, <2>3, <3>1 DEF PlanAvoids
  <2> QED BY <1>6, <2>3, <2>4
<1>12. CASE NewDay
  <2>1. UNCHANGED <<rows, run>>
    BY <1>12 DEF NewDay
  <2>2. Own(p)' = Own(p)
    BY <2>1, KeptWhenSame
  <2>3. ASSUME NEW u \in Threads, RunOf(u, p)' PROVE PlanAvoids(u, p)'
    <3>1. run'[u] = run[u] /\ RunOf(u, p)
      BY <2>1, <2>3 DEF RunOf
    <3> QED BY <1>3, <2>1, <2>2, <3>1 DEF PlanAvoids
  <2> QED BY <1>6, <2>2, <2>3
<1> QED BY <1>7, <1>8, <1>9, <1>10, <1>11, <1>12, StepCases

(***************************************************************************)
(* The limits                                                              *)
(***************************************************************************)

\* What a run of the day has planned fits into what the records leave: its n-th
\* intent, unless a flip, is within the day's cap even if all before it fill.
WithinDay(p) ==
  Calm(p, {"overlap", "died"}) =>
    /\ made[p] <= prefs[p].perDay
    /\ \A t \in Threads : RunOf(t, p) =>
         /\ made[p] <= booked[p] + run[t].done
         /\ \A n \in DOMAIN run[t].opening :
              ~run[t].opening[n].flip => made[p] + n <= prefs[p].perDay
    /\ (\A t \in Threads : ~RunOf(t, p)) => made[p] <= booked[p]

\* The same, of one run.
DayOf(t, p) ==
  /\ made[p] <= booked[p] + run[t].done
  /\ \A n \in DOMAIN run[t].opening :
       ~run[t].opening[n].flip => made[p] + n <= prefs[p].perDay

LEMMA CountTypes ==
  ASSUME TypeOK, NEW p \in Profiles
  PROVE  made[p] \in Nat /\ booked[p] \in Nat /\ prefs[p].perDay \in Nat
<1>1. prefs[p].perDay \in Nat
  BY SettingTypes
<1>2. made[p] \in Nat /\ booked[p] \in Nat
  BY DEF TypeOK
<1> QED BY <1>1, <1>2

LEMMA WithinDayKept ==
  ASSUME TypeOK, TypeOK', Alone, Alone', [Next]_vars, NEW p \in Profiles, WithinDay(p)
  PROVE  WithinDay(p)'
<1>1. SUFFICES ASSUME Calm(p, {"overlap", "died"})'
               PROVE  /\ made'[p] <= prefs'[p].perDay
                      /\ \A t \in Threads : RunOf(t, p)' => DayOf(t, p)'
                      /\ (\A t \in Threads : ~RunOf(t, p)') => made'[p] <= booked'[p]
  BY DEF WithinDay, DayOf
<1>2. /\ made[p] <= prefs[p].perDay
      /\ \A t \in Threads : RunOf(t, p) => DayOf(t, p)
      /\ (\A t \in Threads : ~RunOf(t, p)) => made[p] <= booked[p]
  BY <1>1, CalmBefore DEF WithinDay, DayOf
<1>3. prefs' = prefs /\ made[p] \in Nat /\ booked[p] \in Nat /\ prefs[p].perDay \in Nat
  BY StrainsStay, CountTypes
<1>4. "overlap" \notin strained'[p] /\ "died" \notin strained'[p]
  BY <1>1 DEF Calm
<1>5. ASSUME NEW t \in Threads, RunOf(t, p)' PROVE \A u \in Threads : RunOf(u, p)' => u = t
  BY <1>4, <1>5 DEF Alone, Calm
<1>6. ASSUME NEW t \in Threads, RunOf(t, p) PROVE \A u \in Threads : RunOf(u, p) => u = t
  BY <1>1, <1>6, CalmBefore DEF Alone, Calm
<1>7. CASE Quiet(p)
  <2>1. ASSUME NEW t \in Threads, RunOf(t, p)' PROVE DayOf(t, p)'
    BY <1>2, <1>3, <1>7, <2>1 DEF Quiet, DayOf
  <2>2. (\A t \in Threads : ~RunOf(t, p)') => made'[p] <= booked'[p]
    BY <1>2, <1>7 DEF Quiet
  <2>3. made'[p] <= prefs'[p].perDay
    BY <1>2, <1>3, <1>7 DEF Quiet
  <2> QED BY <2>1, <2>2, <2>3
<1>8. CASE \E t \in Threads : Start(t, p)
  <2>1. PICK t \in Threads : Start(t, p)
    BY <1>8
  <2>2. /\ run'[t] # NoRun /\ run'[t].profile = p /\ run'[t].done = 0
        /\ UNCHANGED <<booked, made>>
        /\ (\E u \in Threads : RunOf(u, p)) => "overlap" \in strained'[p]
        /\ \E r \in Reviews(p), signal \in Signals :
             PlannedFor(p, r, signal, run'[t].opening)
    BY <2>1, StartStep
  <2>3. RunOf(t, p)' /\ \A u \in Threads : RunOf(u, p)' => u = t
    BY <1>5, <2>2 DEF RunOf
  <2>4. made[p] <= booked[p]
    BY <1>2, <1>4, <2>2
  <2>5. \A n \in DOMAIN run'[t].opening :
          ~run'[t].opening[n].flip => booked[p] + (n - 1) < prefs[p].perDay
    BY <2>2 DEF PlannedFor
  <2>6. DOMAIN run'[t].opening \subseteq Nat
    BY <2>2, PlansAfter
  <2>7. \A n \in DOMAIN run'[t].opening :
          ~run'[t].opening[n].flip => made[p] + n <= prefs[p].perDay
    BY <1>3, <2>4, <2>5, <2>6
  <2>8. DayOf(t, p)'
    BY <1>3, <2>2, <2>4, <2>7 DEF DayOf
  <2> QED BY <1>2, <1>3, <2>2, <2>3, <2>8
<1>9. ASSUME NEW t \in Threads, RunOf(t, p), Close(t)
      PROVE  /\ made'[p] <= prefs'[p].perDay
             /\ \A u \in Threads : RunOf(u, p)' => DayOf(u, p)'
             /\ (\A u \in Threads : ~RunOf(u, p)') => made'[p] <= booked'[p]
  <2>1. /\ run'[t] # NoRun /\ run'[t].profile = run[t].profile
        /\ run'[t].opening = run[t].opening /\ run'[t].done = run[t].done
        /\ UNCHANGED <<booked, made>>
    BY <1>9, CloseStep
  <2>2. RunOf(t, p)' /\ \A u \in Threads : RunOf(u, p)' => u = t
    BY <1>5, <1>9, <2>1 DEF RunOf
  <2>3. DayOf(t, p)'
    BY <1>2, <1>3, <1>9, <2>1 DEF DayOf
  <2> QED BY <1>2, <1>3, <2>1, <2>2, <2>3
<1>10. ASSUME NEW t \in Threads, RunOf(t, p), OpenOne(t)
       PROVE  /\ made'[p] <= prefs'[p].perDay
              /\ \A u \in Threads : RunOf(u, p)' => DayOf(u, p)'
              /\ (\A u \in Threads : ~RunOf(u, p)') => made'[p] <= booked'[p]
  <2> DEFINE q == run[t].opening
             o == Head(q)
  <2>1. /\ run'[t] # NoRun /\ run'[t].profile = run[t].profile /\ run[t].profile = p
        /\ q # <<>> /\ run'[t].opening = Tail(q) /\ o \in Opens
        /\ UNCHANGED booked /\ (Skips(t) \/ Fills(t, p, o))
    BY <1>10, OpenStep DEF RunOf
  <2>2. /\ o = q[1] /\ 1 \in DOMAIN q
        /\ \A n \in DOMAIN Tail(q) : n \in Nat /\ n + 1 \in DOMAIN q /\ Tail(q)[n] = q[n + 1]
    BY <1>10, <2>1, RunTypes, Rest DEF RunOf
  <2>3. /\ made[p] <= booked[p] + run[t].done
        /\ \A n \in DOMAIN q : ~q[n].flip => made[p] + n <= prefs[p].perDay
    BY <1>2, <1>10 DEF DayOf
  <2>4. run[t].done \in Nat
    BY <1>10, RunTypes DEF RunOf
  <2> HIDE DEF q, o
  <2>5. o.flip \in BOOLEAN
    BY <2>1 DEF Opens
  <2>6. /\ made'[p] \in Nat /\ made[p] <= made'[p] /\ made'[p] <= made[p] + 1
        /\ made'[p] <= booked[p] + run'[t].done
        /\ made'[p] <= prefs[p].perDay
    <3>1. CASE Skips(t)
      BY <1>2, <1>3, <2>3, <3>1 DEF Skips
    <3>2. CASE Fills(t, p, o)
      <4>1. /\ run'[t].done = run[t].done + 1
            /\ made' = [made EXCEPT ![p] = @ + (IF o.flip THEN 0 ELSE 1)]
        BY <3>2 DEF Fills
      <4>2. made'[p] = made[p] + (IF o.flip THEN 0 ELSE 1)
        BY <4>1 DEF TypeOK
      <4>3. ~o.flip => made[p] + 1 <= prefs[p].perDay
        BY <2>2, <2>3
      <4>4. CASE o.flip
        <5>1. made'[p] = made[p]
          BY <1>3, <4>2, <4>4
        <5> QED BY <1>2, <1>3, <2>3, <2>4, <4>1, <5>1
      <4>5. CASE ~o.flip
        <5>1. made'[p] = made[p] + 1
          BY <4>2, <4>5
        <5> QED BY <1>2, <1>3, <2>3, <2>4, <4>1, <4>3, <4>5, <5>1
      <4> QED BY <4>4, <4>5
    <3> QED BY <2>1, <3>1, <3>2
  <2>7. ASSUME NEW n \in DOMAIN Tail(q), ~Tail(q)[n].flip
        PROVE  made'[p] + n <= prefs[p].perDay
    <3>1. n \in Nat /\ made[p] + (n + 1) <= prefs[p].perDay
      BY <2>2, <2>3, <2>7
    <3> QED BY <1>3, <2>6, <3>1
  <2>8. DayOf(t, p)'
    BY <1>3, <2>1, <2>6, <2>7 DEF DayOf
  <2>9. RunOf(t, p)' /\ \A u \in Threads : RunOf(u, p)' => u = t
    BY <1>5, <2>1 DEF RunOf
  <2> QED BY <1>3, <2>6, <2>8, <2>9
<1>11. ASSUME NEW t \in Threads, RunOf(t, p), Record(t) \/ Die(t)
       PROVE  /\ made'[p] <= prefs'[p].perDay
              /\ \A u \in Threads : RunOf(u, p)' => DayOf(u, p)'
              /\ (\A u \in Threads : ~RunOf(u, p)') => made'[p] <= booked'[p]
  <2>1. /\ run' = [run EXCEPT ![t] = NoRun] /\ UNCHANGED made
        /\ run[t] # NoRun /\ run[t].profile = p
    BY <1>11 DEF Record, Die, RunOf
  <2>2. run'[t] = NoRun /\ \A u \in Threads : u # t => run'[u] = run[u]
    BY <2>1, RunUpdated
  <2>3. \A u \in Threads : ~RunOf(u, p)'
    BY <1>6, <1>11, <2>2 DEF RunOf
  <2>4. made[p] <= booked[p] + run[t].done /\ run[t].done \in Nat
    BY <1>2, <1>11, <2>1, RunTypes DEF DayOf
  <2>5. made[p] <= booked'[p]
    <3>1. CASE Record(t)
      <4>1. booked' = [booked EXCEPT ![p] = BookedBy(p, t)]
        BY <2>1, <3>1 DEF Record
      <4>2. booked'[p] = booked[p] + run[t].done
        BY <4>1 DEF BookedBy, TypeOK
      <4> QED BY <2>4, <4>2
    <3>2. CASE Die(t)
      <4>1. UNCHANGED booked /\ Strain(p, IF run[t].done > 0 THEN {"died"} ELSE {})
        BY <2>1, <3>2 DEF Die
      <4>2. {"died"} \in SUBSET Strains
        BY DEF Strains
      <4>3. run[t].done > 0 => "died" \in strained'[p]
        BY <4>1, <4>2, Strained
      <4>4. run[t].done = 0
        BY <1>4, <2>4, <4>3
      <4> QED BY <1>3, <2>4, <4>1, <4>4
    <3> QED BY <1>11, <3>1, <3>2
  <2> QED BY <1>2, <1>3, <2>1, <2>3, <2>5
<1>12. CASE NewDay
  <2>1. UNCHANGED run /\ made'[p] = 0 /\ booked'[p] = 0
    BY <1>12 DEF NewDay
  <2>2. ASSUME NEW t \in Threads, RunOf(t, p)' PROVE DayOf(t, p)'
    <3>1. RunOf(t, p) /\ DayOf(t, p)
      BY <1>2, <2>1, <2>2 DEF RunOf
    <3>2. run[t].done \in Nat /\ DOMAIN run[t].opening \subseteq Nat
      BY <3>1, RunTypes DEF RunOf
    <3>3. \A n \in DOMAIN run[t].opening : ~run[t].opening[n].flip => 0 + n <= prefs[p].perDay
      BY <1>3, <3>1, <3>2 DEF DayOf
    <3> QED BY <1>3, <2>1, <3>2, <3>3 DEF DayOf
  <2> QED BY <1>3, <2>1, <2>2
<1> QED BY <1>7, <1>8, <1>9, <1>10, <1>11, <1>12, StepCases

\* The book has not grown since it was read by the run that opens first.
WithinReserve(p) ==
  Calm(p, {"overlap", "undone", "added", "several"}) /\ prefs[p].reserve > 0 =>
    /\ Own(p) # {} => LotsOf(p) + prefs[p].reserve <= Basis(p)
    /\ \A t \in Threads :
         RunOf(t, p) /\ run[t].done = 0 => LotsOf(p) <= run[t].notional

LEMMA WithinReserveKept ==
  ASSUME TypeOK, TypeOK', Alone, Alone', [Next]_vars, NEW p \in Profiles, WithinReserve(p)
  PROVE  WithinReserve(p)'
<1>1. SUFFICES ASSUME Calm(p, {"overlap", "undone", "added", "several"})', prefs'[p].reserve > 0
               PROVE  /\ Own(p)' # {} => LotsOf(p)' + prefs'[p].reserve <= Basis(p)'
                      /\ \A t \in Threads :
                           RunOf(t, p)' /\ run'[t].done = 0 => LotsOf(p)' <= run'[t].notional
  BY DEF WithinReserve
<1>2. /\ "overlap" \notin strained'[p] /\ "undone" \notin strained'[p]
      /\ "added" \notin strained'[p] /\ "several" \notin strained'[p]
  BY <1>1 DEF Calm
<1>3. /\ prefs' = prefs /\ prefs[p].reserve \in Nat /\ Basis(p) \in Nat /\ Basis(p)' = Basis(p)
      /\ LotsOf(p) \in Nat /\ LotsOf(p)' \in Nat
  <2>1. LotsOf(p)' \in Nat
    <3>1. PICK f : Sums(Weights(p)', f) /\ Total(Weights(p)') = f[Len(Weights(p)')]
      BY BookAfter, TotalIsSum
    <3> QED BY <3>1, BookAfter DEF LotsOf, Sums
  <2> QED BY <2>1, StrainsStay, SettingTypes, BookIsSum DEF Basis
<1>4. /\ Own(p) # {} => LotsOf(p) + prefs[p].reserve <= Basis(p)
      /\ \A t \in Threads :
           RunOf(t, p) /\ run[t].done = 0 => LotsOf(p) <= run[t].notional
  BY <1>1, <1>3, CalmBefore DEF WithinReserve
<1>5. ASSUME NEW t \in Threads, RunOf(t, p)' PROVE \A u \in Threads : RunOf(u, p)' => u = t
  BY <1>2, <1>5 DEF Alone, Calm
<1>6. ASSUME Kept(p),
             \A t \in Threads : RunOf(t, p)' /\ run'[t].done = 0 =>
               RunOf(t, p) /\ run[t].done = 0 /\ run'[t].notional = run[t].notional
      PROVE  /\ Own(p)' # {} => LotsOf(p)' + prefs'[p].reserve <= Basis(p)'
             /\ \A t \in Threads :
                  RunOf(t, p)' /\ run'[t].done = 0 => LotsOf(p)' <= run'[t].notional
  <2>1. Own(p)' # {} => LotsOf(p)' + prefs'[p].reserve <= Basis(p)'
    <3>1. Own(p)' # {} => Own(p) # {}
      BY <1>6 DEF Kept
    <3>2. LotsOf(p)' <= LotsOf(p)
      BY <1>6 DEF Kept
    <3> QED BY <1>3, <1>4, <3>1, <3>2
  <2>2. ASSUME NEW t \in Threads, RunOf(t, p)', run'[t].done = 0
        PROVE  LotsOf(p)' <= run'[t].notional
    <3>1. RunOf(t, p) /\ run[t].done = 0 /\ run'[t].notional = run[t].notional
      BY <1>6, <2>2
    <3>2. LotsOf(p) <= run[t].notional /\ run[t].notional \in Nat
      BY <1>4, <3>1, RunTypes DEF RunOf
    <3>3. LotsOf(p)' <= LotsOf(p)
      BY <1>6 DEF Kept
    <3> QED BY <1>3, <3>1, <3>2, <3>3
  <2> QED BY <2>1, <2>2
<1>7. CASE Quiet(p)
  <2>1. Kept(p)
    BY <1>2, <1>7 DEF Quiet, Kept
  <2>2. \A t \in Threads : RunOf(t, p)' => RunOf(t, p) /\ run'[t] = run[t]
    BY <1>7 DEF Quiet
  <2> QED BY <1>6, <2>1, <2>2
<1>8. CASE \E t \in Threads : Start(t, p)
  <2>1. PICK t \in Threads : Start(t, p)
    BY <1>8
  <2>2. /\ run'[t] # NoRun /\ run'[t].profile = p /\ run'[t].notional = LotsOf(p)
        /\ UNCHANGED rows
    BY <2>1, StartStep
  <2>3. Own(p)' = Own(p) /\ LotsOf(p)' = LotsOf(p)
    BY <2>2, KeptWhenSame
  <2>4. RunOf(t, p)' /\ \A u \in Threads : RunOf(u, p)' => u = t
    BY <1>5, <2>2 DEF RunOf
  <2> QED BY <1>3, <1>4, <2>2, <2>3, <2>4
<1>9. ASSUME NEW t \in Threads, RunOf(t, p), Close(t)
      PROVE  /\ Own(p)' # {} => LotsOf(p)' + prefs'[p].reserve <= Basis(p)'
             /\ \A u \in Threads :
                  RunOf(u, p)' /\ run'[u].done = 0 => LotsOf(p)' <= run'[u].notional
  <2>1. /\ run'[t].notional = run[t].notional /\ run'[t].done = run[t].done /\ Kept(p)
        /\ \A u \in Threads : u # t => run'[u] = run[u]
    BY <1>9, CloseStep
  <2>2. ASSUME NEW u \in Threads, RunOf(u, p)', run'[u].done = 0
        PROVE  RunOf(u, p) /\ run[u].done = 0 /\ run'[u].notional = run[u].notional
    BY <1>9, <2>1, <2>2 DEF RunOf
  <2> QED BY <1>6, <2>1, <2>2
<1>10. ASSUME NEW t \in Threads, RunOf(t, p), OpenOne(t)
       PROVE  /\ Own(p)' # {} => LotsOf(p)' + prefs'[p].reserve <= Basis(p)'
              /\ \A u \in Threads :
                   RunOf(u, p)' /\ run'[u].done = 0 => LotsOf(p)' <= run'[u].notional
  <2> DEFINE o == Head(run[t].opening)
  <2>1. /\ run'[t] # NoRun /\ run'[t].profile = run[t].profile /\ run[t].profile = p
        /\ run'[t].notional = run[t].notional /\ o \in Opens
        /\ \A u \in Threads : u # t => run'[u] = run[u]
        /\ (Skips(t) \/ Fills(t, p, o))
    BY <1>10, OpenStep DEF RunOf
  <2> HIDE DEF o
  <2>2. CASE Skips(t)
    <3>1. Kept(p) /\ run'[t].done = run[t].done
      BY <2>2, KeptWhenSame DEF Skips
    <3>2. ASSUME NEW u \in Threads, RunOf(u, p)', run'[u].done = 0
          PROVE  RunOf(u, p) /\ run[u].done = 0 /\ run'[u].notional = run[u].notional
      BY <1>10, <2>1, <3>1, <3>2 DEF RunOf
    <3> QED BY <1>6, <3>1, <3>2
  <2>3. CASE Fills(t, p, o)
    <3>1. PICK sized \in Nat :
            /\ prefs[p].reserve > 0 => sized <= CashCap(p, run[t].notional)
            /\ Upsert(o.symbol, o.side, p, sized)
            /\ run'[t].done = run[t].done + 1
            /\ run[t].done > 0 => "several" \in strained'[p]
      BY <2>3 DEF Fills
    <3>2. o.symbol \in Symbols /\ o.side \in Sides
      BY <2>1 DEF Opens
    <3>3. LotsOf(p)' <= LotsOf(p) + sized
      BY <3>1, <3>2, BookWhenFilled, Zenon
    <3>4. run[t].done \in Nat /\ run[t].notional \in Nat
      BY <1>10, RunTypes DEF RunOf
    <3>5. run[t].done = 0
      BY <1>2, <3>1, <3>4
    <3>6. LotsOf(p) <= run[t].notional
      BY <1>4, <1>10, <3>5
    <3>7. sized <= Basis(p) - prefs[p].reserve - run[t].notional
      BY <1>1, <1>3, <3>1 DEF CashCap
    <3>8. LotsOf(p)' + prefs[p].reserve <= Basis(p)
      BY <1>3, <3>3, <3>4, <3>6, <3>7
    <3>9. RunOf(t, p)' /\ \A u \in Threads : RunOf(u, p)' => u = t
      BY <1>5, <2>1 DEF RunOf
    <3>10. run'[t].done # 0
      BY <3>1, <3>4
    <3> QED BY <1>3, <3>8, <3>9, <3>10
  <2> QED BY <2>1, <2>2, <2>3
<1>11. ASSUME NEW t \in Threads, RunOf(t, p), Record(t) \/ Die(t)
       PROVE  /\ Own(p)' # {} => LotsOf(p)' + prefs'[p].reserve <= Basis(p)'
              /\ \A u \in Threads :
                   RunOf(u, p)' /\ run'[u].done = 0 => LotsOf(p)' <= run'[u].notional
  <2>1. run' = [run EXCEPT ![t] = NoRun] /\ UNCHANGED rows
    BY <1>11 DEF Record, Die
  <2>2. run'[t] = NoRun /\ \A u \in Threads : u # t => run'[u] = run[u]
    BY <2>1, RunUpdated
  <2>3. Kept(p)
    BY <2>1, KeptWhenSame
  <2>4. \A u \in Threads : RunOf(u, p)' => RunOf(u, p) /\ run'[u] = run[u]
    BY <2>2 DEF RunOf
  <2> QED BY <1>6, <2>3, <2>4
<1>12. CASE NewDay
  <2>1. UNCHANGED <<rows, run>>
    BY <1>12 DEF NewDay
  <2>2. Kept(p)
    BY <2>1, KeptWhenSame
  <2>3. \A u \in Threads : RunOf(u, p)' => RunOf(u, p) /\ run'[u] = run[u]
    BY <2>1 DEF RunOf
  <2> QED BY <1>6, <2>2, <2>3
<1> QED BY <1>7, <1>8, <1>9, <1>10, <1>11, <1>12, StepCases

(***************************************************************************)
(* The theorems                                                            *)
(***************************************************************************)

RunInv ==
  /\ TypeOK /\ RunsOwn /\ Alone
  /\ \A p \in Profiles : HeldOnce(p) /\ WithinDay(p) /\ WithinReserve(p)

LEMMA RunInvStarts ==
  ASSUME Init
  PROVE  RunInv
<1>1. TypeOK
  <2>1. /\ prefs \in [Profiles -> Settings] /\ rows = <<>>
        /\ booked = [p \in Profiles |-> 0] /\ made = [p \in Profiles |-> 0]
        /\ run = [t \in Threads |-> NoRun] /\ strained = [p \in Profiles |-> {}]
        /\ begun = 0 /\ acts = 0
    BY DEF Init
  <2>2. rows \in Seq(Rows)
    BY <2>1
  <2>3. begun \in 0..MaxRuns /\ acts \in 0..MaxActs
    BY <2>1, RunAssumption
  <2>4. \A t \in Threads : run[t] = NoRun
    BY <2>1
  <2> QED BY <2>1, <2>2, <2>3, <2>4 DEF TypeOK
<1>2. \A t \in Threads : run[t] = NoRun
  BY DEF Init
<1>3. RunsOwn /\ Alone
  BY <1>2 DEF RunsOwn, Alone, RunOf
<1>4. ASSUME NEW p \in Profiles PROVE HeldOnce(p) /\ WithinDay(p) /\ WithinReserve(p)
  <2>1. Own(p) = {}
    BY DEF Init, Own, Open
  <2>2. made[p] = 0 /\ booked[p] = 0
    BY DEF Init
  <2>3. prefs[p].perDay \in Nat
    BY <1>1, SettingTypes
  <2>4. \A t \in Threads : ~RunOf(t, p)
    BY <1>2 DEF RunOf
  <2> QED BY <2>1, <2>2, <2>3, <2>4 DEF HeldOnce, WithinDay, WithinReserve
<1> QED BY <1>1, <1>3, <1>4 DEF RunInv

LEMMA RunInvKept ==
  ASSUME RunInv, [Next]_vars
  PROVE  RunInv'
<1>1. TypeOK /\ RunsOwn /\ Alone
  BY DEF RunInv
<1>2. TypeOK'
  BY <1>1, TypesKept
<1>3. RunsOwn'
  BY <1>1, <1>2, RunsOwnKept
<1>4. Alone'
  BY <1>1, <1>2, AloneKept
<1>5. ASSUME NEW p \in Profiles PROVE (HeldOnce(p) /\ WithinDay(p) /\ WithinReserve(p))'
  <2>1. HeldOnce(p) /\ WithinDay(p) /\ WithinReserve(p)
    BY DEF RunInv
  <2> QED BY <1>1, <1>2, <1>4, <2>1, HeldOnceKept, WithinDayKept, WithinReserveKept
<1> QED BY <1>2, <1>3, <1>4, <1>5 DEF RunInv

\* Every reachable state of the runs satisfies their invariant.
THEOREM RunsAreSound == Spec => []RunInv
<1>1. Init => RunInv
  BY RunInvStarts
<1>2. RunInv /\ [Next]_vars => RunInv'
  BY RunInvKept
<1> QED BY <1>1, <1>2, PTL DEF Spec

\* The types of settings, positions, runs and counters, for any number of
\* threads, profiles and symbols and every setting of a profile.
THEOREM RunTypesHold == Spec => []TypeOK
<1>1. RunInv => TypeOK
  BY DEF RunInv
<1> QED BY <1>1, RunsAreSound, PTL

\* A profile is never long and short in one symbol, but for an unmarked close,
\* an overlap, an undone close or settings that allow it (service.py:2450-2760).
THEOREM OneSideStays == Spec => []OneSidePerSymbol
<1>1. RunInv => OneSidePerSymbol
  <2>1. SUFFICES ASSUME RunInv, NEW p \in Profiles, BothSides(p)
                 PROVE  prefs[p].reopen \/ ~Calm(p, {"unmarked", "overlap", "undone"})
    BY DEF OneSidePerSymbol
  <2>2. PICK i \in Own(p), j \in Own(p) :
          rows[i].symbol = rows[j].symbol /\ rows[i].side # rows[j].side
    BY <2>1 DEF BothSides
  <2>3. i # j
    BY <2>2
  <2>4. HeldOnce(p)
    BY <2>1 DEF RunInv
  <2> QED BY <2>2, <2>3, <2>4 DEF HeldOnce, Disturbed
<1> QED BY <1>1, RunsAreSound, PTL

\* The day's cap and the cash reserve hold over all the runs of a profile, apart
\* from the accidents each of them names (service.py:1347-1370).
THEOREM LimitsStay == Spec => []LimitsKept
<1>1. RunInv => LimitsKept
  <2>1. SUFFICES ASSUME RunInv, NEW p \in Profiles
                 PROVE  /\ made[p] > prefs[p].perDay => ~Calm(p, {"overlap", "died"})
                        /\ /\ prefs[p].reserve > 0
                           /\ Own(p) # {}
                           /\ LotsOf(p) + prefs[p].reserve > Basis(p)
                           => ~Calm(p, {"overlap", "undone", "added", "several"})
    BY DEF LimitsKept, DailyCapKept, ReserveKept
  <2>2. TypeOK /\ WithinDay(p) /\ WithinReserve(p)
    BY <2>1 DEF RunInv
  <2>3. made[p] \in Nat /\ prefs[p].perDay \in Nat
    BY <2>2, CountTypes
  <2>4. LotsOf(p) \in Nat /\ prefs[p].reserve \in Nat /\ Basis(p) \in Nat
    BY <2>2, BookIsSum, SettingTypes
  <2>5. made[p] > prefs[p].perDay => ~Calm(p, {"overlap", "died"})
    BY <2>2, <2>3 DEF WithinDay
  <2>6. prefs[p].reserve > 0 /\ Own(p) # {} /\ LotsOf(p) + prefs[p].reserve > Basis(p)
          => ~Calm(p, {"overlap", "undone", "added", "several"})
    BY <2>2, <2>4 DEF WithinReserve
  <2> QED BY <2>5, <2>6
<1> QED BY <1>1, RunsAreSound, PTL

LEMMA TailIsShorter ==
  ASSUME NEW q \in Seq(Opens), q # <<>>
  PROVE  Tail(q) # q
<1>1. Len(Tail(q)) = Len(q) - 1
  BY HeadTailProperties, Zenon
<1>2. Len(q) \in Nat
  BY LenProperties
<1>3. \A a \in Nat : a - 1 # a
  OBVIOUS
<1>4. Len(Tail(q)) # Len(q)
  BY <1>1, <1>2, <1>3, Zenon
<1> QED BY <1>4, Zenon

\* A fill changes one row that exists, at most.
LEMMA FilledChanges ==
  ASSUME TypeOK, NEW s \in Symbols, NEW side \in Sides, NEW owner \in Owners, NEW lots \in Nat,
         Upsert(s, side, owner, lots), NEW i \in DOMAIN rows, rows'[i] # rows[i]
  PROVE  i \in Matches(s, side, owner)
<1>1. \/ \A j \in DOMAIN rows : rows'[j] = rows[j]
      \/ \E k \in DOMAIN rows : /\ Matches(s, side, owner) = {k}
                                /\ \A j \in DOMAIN rows : j # k => rows'[j] = rows[j]
  <2>1. \/ \A j \in DOMAIN rows : rows'[j] = rows[j]
        \/ \E k \in DOMAIN rows :
             /\ Matches(s, side, owner) = {k}
             /\ Len(rows') = Len(rows)
             /\ \A j \in DOMAIN rows : j # k => rows'[j] = rows[j]
             /\ rows'[k].symbol = rows[k].symbol /\ rows'[k].side = rows[k].side
             /\ rows'[k].owner = rows[k].owner /\ rows'[k].open = rows[k].open
             /\ rows'[k].lots = rows[k].lots + lots
    BY UpsertFacts, Zenon
  <2> QED BY <2>1, Zenon
<1> QED BY <1>1

\* What a step does to one row of the book.
LEMMA RowChanges ==
  ASSUME RunInv, RunInv', [Next]_vars, run' # run, NEW i \in DOMAIN rows, rows'[i] # rows[i]
  PROVE  /\ \E t \in Threads : /\ run'[t] # run[t] /\ run[t] # NoRun
                               /\ run[t].profile = rows[i].owner
         /\ rows'[i].lots > rows[i].lots =>
              rows[i].owner \in Profiles /\ Disturbed(rows[i].owner)
<1>0. TypeOK /\ TypeOK' /\ RunsOwn
  BY DEF RunInv
<1>1. rows[i] \in Rows
  BY <1>0, OwnRows
<1>2. ASSUME NEW t \in Threads, Close(t)
      PROVE  /\ run'[t] # run[t] /\ run[t] # NoRun /\ run[t].profile = rows[i].owner
             /\ ~(rows'[i].lots > rows[i].lots)
  <2>1. /\ run[t] # NoRun
        /\ \E k \in run[t].closing :
             /\ run'[t].closing = run[t].closing \ {k}
             /\ \A j \in DOMAIN rows : rows'[j] # rows[j] => j = k
    BY <1>0, <1>2, CloseStep
  <2>2. i \in run[t].closing /\ run'[t].closing = run[t].closing \ {i}
    BY <2>1
  <2>3. run'[t] # run[t]
    BY <2>2
  <2>4. run[t].profile = rows[i].owner
    BY <1>0, <2>1, <2>2 DEF RunsOwn
  <2>5. NextClose(t) \in DOMAIN rows
    BY <1>0, <2>1, <2>2, NextCloseIsMarked
  <2>6. UNCHANGED rows \/ rows' = [rows EXCEPT ![NextClose(t)].open = FALSE]
    BY <1>2 DEF Close, CloseRow
  <2>7. rows'[i].lots = rows[i].lots
    BY <1>0, <2>5, <2>6, RowToggled
  <2>8. rows[i].lots \in Nat
    BY <1>1 DEF Rows
  <2> QED BY <2>1, <2>3, <2>4, <2>7, <2>8
<1>3. ASSUME NEW t \in Threads, OpenOne(t)
      PROVE  /\ run'[t] # run[t] /\ run[t] # NoRun /\ run[t].profile = rows[i].owner
             /\ rows[i].owner \in Profiles /\ Disturbed(rows[i].owner)
  <2> DEFINE p == run[t].profile
             q == run[t].opening
             o == Head(q)
  <2>1. /\ run[t] # NoRun /\ p \in Profiles /\ run[t].closing = {} /\ q # <<>>
        /\ o \in Opens /\ run'[t].opening = Tail(q) /\ (Skips(t) \/ Fills(t, p, o))
    BY <1>0, <1>3, OpenStep
  <2>2. q \in Seq(Opens)
    BY <1>0, <2>1, RunTypes
  <2>3. o = q[1] /\ 1 \in DOMAIN q
    BY <2>1, <2>2, Rest
  <2>4. Tail(q) # q
    BY <2>1, <2>2, TailIsShorter
  <2>5. RunOf(t, p)
    BY <2>1 DEF RunOf
  <2> HIDE DEF p, q, o
  <2>6. PICK sized \in Nat : Upsert(o.symbol, o.side, p, sized)
    BY <2>1 DEF Skips, Fills
  <2>7. o.symbol \in Symbols /\ o.side \in Sides /\ p \in Owners
    BY <2>1 DEF Opens, Owners
  <2>9. i \in Matches(o.symbol, o.side, p)
    BY <1>0, <2>6, <2>7, FilledChanges, Zenon
  <2>10. i \in Own(p) /\ rows[i].symbol = o.symbol
    BY <2>1, <2>9, RunAssumption DEF Own, Matches
  <2>11. rows[i].owner = p
    BY <2>10 DEF Own
  <2>12. HeldOnce(p)
    BY <2>1 DEF RunInv
  <2>13. ~PlanAvoids(t, p)
    BY <2>1, <2>3, <2>10 DEF PlanAvoids, q
  <2>14. Disturbed(p)
    BY <2>5, <2>12, <2>13 DEF HeldOnce
  <2>15. run'[t] # run[t]
    BY <2>1, <2>4 DEF q
  <2> QED BY <2>1, <2>11, <2>14, <2>15 DEF p
<1>4. ASSUME NEW t \in Threads, Record(t) \/ Die(t) \/ \E p \in Profiles : Start(t, p)
      PROVE  UNCHANGED rows
  BY <1>4 DEF Record, Die, Start
<1>5. ASSUME NEW s \in Symbols, NEW side \in Sides, ManualOpen(s, side) PROVE UNCHANGED run
  BY <1>5 DEF ManualOpen
<1>6. ASSUME NEW k \in DOMAIN rows, ManualClose(k) \/ Undo(k) PROVE UNCHANGED run
  BY <1>6 DEF ManualClose, Undo
<1>7. NewDay \/ UNCHANGED vars => UNCHANGED run
  BY DEF NewDay, vars
<1> QED BY <1>2, <1>3, <1>4, <1>5, <1>6, <1>7 DEF Next

\* A run adds lots to a position it holds only under settings that allow it, or
\* after one of the accidents the property names (docs/agent-mode.md:79).
THEOREM NothingAdded == Spec => NoAddition
<1> DEFINE NoAdd == \A i \in DOMAIN rows :
             /\ run' # run
             /\ rows'[i].lots > rows[i].lots
             => LET p == rows[i].owner
                IN p \in Profiles /\ (prefs[p].reopen
                     \/ ~Calm(p, {"unmarked", "overlap", "undone"}))
<1>1. RunInv /\ RunInv' /\ [Next]_vars => [NoAdd]_vars
  <2>1. SUFFICES ASSUME RunInv, RunInv', [Next]_vars, NEW i \in DOMAIN rows, run' # run,
                        rows'[i].lots > rows[i].lots
                 PROVE  rows[i].owner \in Profiles /\ Disturbed(rows[i].owner)
    BY DEF Disturbed
  <2>2. rows'[i] # rows[i]
    <3>1. rows[i].lots \in Nat
      BY <2>1, OwnRows DEF RunInv, Rows
    <3> QED BY <2>1, <3>1
  <2> QED BY <2>1, <2>2, RowChanges
<1> QED BY <1>1, RunsAreSound, PTL DEF Spec, NoAddition

\* A run changes no position but those of its own profile (service.py:2402).
THEOREM OwnershipStays == Spec => OwnershipBoundary
<1> DEFINE Bounded == \A i \in DOMAIN rows :
             rows'[i] # rows[i] =>
               \/ run' = run
               \/ \E t \in Threads : /\ run'[t] # run[t]
                                     /\ run[t] # NoRun
                                     /\ run[t].profile = rows[i].owner
<1>1. RunInv /\ RunInv' /\ [Next]_vars => [Bounded]_vars
  BY RowChanges
<1> QED BY <1>1, RunsAreSound, PTL DEF Spec, OwnershipBoundary
===============================================================================
