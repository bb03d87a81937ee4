---------------------------- MODULE ReplayProofs ----------------------------
(***************************************************************************)
(* Theorems about Replay, for any bars, limits, threads and numbers of     *)
(* events and runs; and about momentum in the recommendation queue, for    *)
(* any scores, charts, candidates and modes.                               *)
(***************************************************************************)
EXTENDS Replay, MomentumRanking, MomentumFamilies, SequenceTheorems,
        FiniteSetTheorems, WellFoundedInduction, TLAPS

(***************************************************************************)
(* The pipeline                                                            *)
(***************************************************************************)

\* A quotient times its divisor is at most the dividend.
LEMMA Quotient ==
  ASSUME NEW n \in Nat, NEW d \in Nat \ {0}
  PROVE  n \div d \in Nat /\ (n \div d) * d <= n /\ n \div d <= n
<1>1. n \div d \in Nat
  OBVIOUS
<1>2. n = d * (n \div d) + (n % d) /\ n % d \in Nat
  OBVIOUS
<1> DEFINE q == n \div d
<1>3. q * d <= n
  BY <1>1, <1>2
<1>4. q <= n
  <2> HIDE DEF q
  <2>1. q \in Nat
    BY <1>1 DEF q
  <2>2. q <= q * d
    BY <2>1
  <2> QED BY <1>3, <2>1, <2>2
<1> QED BY <1>1, <1>3, <1>4

\* A product shrinks with its first factor.
LEMMA Products ==
  ASSUME NEW a \in Nat, NEW b \in Nat, NEW d \in Nat, a <= b
  PROVE  a * d <= b * d /\ a * d \in Nat
OBVIOUS

LEMMA ProductIsInt ==
  ASSUME NEW a \in Int, NEW b \in Int
  PROVE  a * b \in Int
OBVIOUS

\* Every setup has an entry zone in order, and a stop outside it, on the side
\* where the position loses.
ZoneOK(s) ==
  /\ s.low \in Int /\ s.high \in Int /\ s.stop \in Int /\ s.long \in BOOLEAN
  /\ s.low <= s.high
  /\ IF s.long THEN s.stop < s.low ELSE s.stop > s.high

LEMMA ZoneIsSound ==
  ASSUME NEW c \in Contexts, NEW bullish \in BOOLEAN
  PROVE  ZoneOK(Setup(c, bullish))
<1>1. c \in Context /\ FromBars(c)
  BY ReplayAssumption
<1> DEFINE a == c.atr \div 40
           g == c.range \div 40
<1>2. a \in Nat \ {0} /\ g \in Nat
  BY <1>1, ReplayAssumption DEF Context, FromBars
<1>3. /\ Part(4, c.atr) = 4 * a /\ Part(10, c.atr) = 10 * a /\ Part(12, c.atr) = 12 * a
      /\ Part(24, c.atr) = 24 * a /\ Part(32, c.atr) = 32 * a
      /\ Part(72, c.atr) = 72 * a /\ Part(96, c.atr) = 96 * a
      /\ Part(14, c.range) = 14 * g /\ Part(48, c.range) = 48 * g
  BY DEF Part
<1>4. /\ {c.high, c.low, c.high20, c.low20, c.atr} \subseteq Int
      /\ c.low20 <= c.low /\ c.low <= c.high /\ c.high <= c.high20
  BY <1>1 DEF Context, FromBars
<1> HIDE DEF a, g
<1>5. ZoneOK(EventContinuation(c))
  BY <1>2, <1>3, <1>4 DEF EventContinuation, Plan, ZoneOK, Larger
<1>6. ZoneOK(PullbackLong(c))
  BY <1>2, <1>3, <1>4 DEF PullbackLong, Plan, ZoneOK, Smaller
<1>7. ZoneOK(PullbackShort(c))
  BY <1>2, <1>3, <1>4 DEF PullbackShort, Plan, ZoneOK, Larger
<1>8. ZoneOK(FailedEventFade(c))
  BY <1>2, <1>3, <1>4 DEF FailedEventFade, Plan, ZoneOK, Larger
<1> QED
  BY <1>5, <1>6, <1>7, <1>8 DEF Setup

\* The entry lies in the zone.
LEMMA EntryInZone ==
  ASSUME NEW s, ZoneOK(s)
  PROVE  Entry(s) \in Int /\ s.low <= Entry(s) /\ Entry(s) <= s.high
BY DEF Entry, ZoneOK

\* What the risk engine promises about a recommendation: its shares risk no
\* more than the risk of a trade and cost no more than the cap on a position.
RecOK(rec) ==
  /\ rec \in Rec
  /\ rec.shares \in 0..RiskDollars
  /\ Distance(rec.entry, rec.stop) \in Nat
  /\ rec.shares * Distance(rec.entry, rec.stop) <= RiskDollars
  /\ rec.shares * rec.entry <= PositionCap
  /\ IF rec.long THEN rec.stop < rec.entry ELSE rec.stop > rec.entry

LEMMA DistanceIsNat ==
  ASSUME NEW x \in Int, NEW y \in Int
  PROVE  Distance(x, y) \in Nat /\ (x # y => Distance(x, y) > 0)
BY DEF Distance, Larger

LEMMA SharesAreBounded ==
  ASSUME NEW s, ZoneOK(s)
  PROVE  /\ Shares(s) \in 0..RiskDollars
         /\ StopDistance(s) \in Nat
         /\ Shares(s) * StopDistance(s) <= RiskDollars
         /\ Shares(s) * Entry(s) <= PositionCap
<1> DEFINE e == Entry(s)
           d == StopDistance(s)
           m == Larger(e, 1)
           p == RiskDollars \div d
           q == PositionCap \div m
<1>1. e \in Int /\ s.stop \in Int /\ e # s.stop
  BY EntryInZone DEF ZoneOK
<1>2. d \in Nat \ {0}
  <2>1. d = Larger(e - s.stop, s.stop - e)
    BY DEF StopDistance, Distance
  <2> HIDE DEF d, e
  <2> QED BY <1>1, <2>1 DEF Larger
<1>3. m \in Nat \ {0} /\ e <= m
  BY <1>1 DEF Larger
<1>4. p \in Nat /\ p * d <= RiskDollars /\ p <= RiskDollars
  BY <1>2, Quotient, ReplayAssumption
<1>5. q \in Nat /\ q * m <= PositionCap
  BY <1>3, Quotient, ReplayAssumption
<1>6. Shares(s) = Smaller(p, q)
  BY <1>2 DEF Shares
<1> HIDE DEF e, d, m, p, q
<1> DEFINE n == Shares(s)
<1>7. n \in Nat /\ n <= p /\ n <= q
  BY <1>4, <1>5, <1>6 DEF Smaller
<1> HIDE DEF n
<1>8. n * d <= p * d /\ n * d \in Nat
  BY <1>2, <1>4, <1>7, Products
<1>9. n * m <= q * m /\ n * m \in Nat
  BY <1>3, <1>5, <1>7, Products
<1>10. n * e <= n * m
  BY <1>1, <1>3, <1>7
<1>11. p * d \in Nat /\ q * m \in Nat /\ n * e \in Int
  BY <1>1, <1>2, <1>3, <1>4, <1>5, <1>7
<1>12. n * d <= RiskDollars
  BY <1>4, <1>8, <1>11, ReplayAssumption
<1>13. n * e <= PositionCap
  BY <1>5, <1>9, <1>10, <1>11, ReplayAssumption
<1> QED
  BY <1>2, <1>4, <1>7, <1>12, <1>13, ReplayAssumption DEF n, d, e

LEMMA RecIsSound ==
  ASSUME NEW c \in Contexts, NEW bullish \in BOOLEAN, NEW heat \in Nat,
         NEW override \in BOOLEAN
  PROVE  LET rec == Recommendation(c, bullish, heat, override) IN
         /\ RecOK(rec)
         /\ rec.approved /\ ~ override =>
              heat + rec.shares * Distance(rec.entry, rec.stop) <= HeatLimit
<1> DEFINE s == Setup(c, bullish)
           rec == Recommendation(c, bullish, heat, override)
<1>1. ZoneOK(s)
  BY ZoneIsSound
<1>2. /\ rec.shares = Shares(s) /\ rec.entry = Entry(s) /\ rec.stop = s.stop
      /\ rec.long = s.long
      /\ rec.approved = (override \/ (Shares(s) >= 1 /\ HeatOK(s, heat) /\ QualityOK(s, c)))
  BY DEF Recommendation
<1>3. Distance(rec.entry, rec.stop) = StopDistance(s)
  BY <1>2 DEF StopDistance
<1>4. rec \in Rec
  BY <1>1, SharesAreBounded, EntryInZone DEF Recommendation, Rec, ZoneOK
<1> HIDE DEF s, rec
<1>5. RecOK(rec)
  BY <1>1, <1>2, <1>3, <1>4, SharesAreBounded, EntryInZone DEF RecOK, ZoneOK
<1>6. rec.approved /\ ~ override =>
        heat + rec.shares * Distance(rec.entry, rec.stop) <= HeatLimit
  BY <1>2, <1>3 DEF HeatOK
<1> QED BY <1>5, <1>6 DEF rec

(***************************************************************************)
(* Typing                                                                  *)
(***************************************************************************)

Working ==
  [stage : {"generate", "submit", "fill"}, context : Contexts, override : BOOLEAN,
   left : 0..MaxEvents, mine : Seq(Ids), steps : Seq(StepRow),
   start : Portfolio, portfolio : Portfolio]

\* The order a request is about has been recommended, and is what was
\* recommended.
Open(q) == q.stage \in {"submit", "fill"}

\* Each recommendation is sound, and each order and fill repeats it.
RowsOK ==
  \A r \in Ids :
    /\ recs[r] # None => RecOK(recs[r])
    /\ orders[r] = None => fills[r] = None
    /\ orders[r] # None =>
         /\ recs[r] # None
         /\ orders[r].shares = recs[r].shares
         /\ orders[r].status = "submitted" => orders[r].filled = 0 /\ fills[r] = None
         /\ orders[r].status = "filled" =>
              /\ orders[r].shares > 0
              /\ orders[r].filled = orders[r].shares
              /\ fills[r] = [shares |-> orders[r].shares, price |-> recs[r].entry]

Risk(r) == recs[r].shares * Distance(recs[r].entry, recs[r].stop)

Limited(q) == ~ q.override /\ q.start.heat <= HeatLimit

\* A request that is about an order works on its last recommendation, which is
\* stored and, until Submit, not ordered; there is room for its risk.
RequestOK(q) ==
  /\ q.stage # "idle" /\ Limited(q) => q.portfolio.heat <= HeatLimit
  /\ Open(q) =>
       /\ Len(q.mine) > 0
       /\ recs[Current(q)] # None
       /\ recs[Current(q)].approved
       /\ IF q.stage = "submit" THEN orders[Current(q)] = None
          ELSE orders[Current(q)] # None /\ orders[Current(q)].status = "submitted"
       /\ Limited(q) => q.portfolio.heat + Risk(Current(q)) <= HeatLimit

\* No two requests are about the same order.
Apart ==
  \A t, u \in Threads :
    t # u /\ Open(task[t]) /\ Open(task[u]) => Current(task[t]) # Current(task[u])

IInv ==
  /\ TypeOK
  /\ RowsOK
  /\ \A t \in Threads : RequestOK(task[t])
  /\ Apart
  /\ HeatKept

LEMMA IdleIsApart ==
  /\ Idle \in Task /\ Idle.stage = "idle"
  /\ \A q \in Task : q # Idle => q \in Working
BY DEF Task, Idle, Working

LEMMA TypeInit == Init => IInv
<1> SUFFICES ASSUME Init PROVE IInv
  OBVIOUS
<1>1. TypeOK
  BY IdleIsApart, EmptySeq DEF Init, TypeOK
<1>2. RowsOK
  BY DEF Init, RowsOK
<1>3. \A t \in Threads : RequestOK(task[t])
  BY DEF Init, RequestOK, Open, Idle
<1>4. Apart
  BY DEF Init, Apart, Open, Idle
<1>5. HeatKept
  BY DEF Init, HeatKept
<1> QED BY <1>1, <1>2, <1>3, <1>4, <1>5 DEF IInv

\* The recommendation and the order a request is about.
LEMMA CurrentIsId ==
  ASSUME NEW q \in Working, Len(q.mine) > 0
  PROVE  Current(q) \in Ids
BY DEF Working, Current

LEMMA Appended ==
  ASSUME NEW S, NEW s \in Seq(S), NEW e \in S
  PROVE  /\ Append(s, e) \in Seq(S)
         /\ Len(Append(s, e)) = Len(s) + 1
         /\ Append(s, e)[Len(Append(s, e))] = e
OBVIOUS

\* What a request is about stays as it was.
LEMMA RequestStays ==
  ASSUME NEW u \in Threads, RequestOK(task[u]), task'[u] = task[u],
         recs' = recs, orders' = orders
  PROVE  RequestOK(task[u])'
BY DEF RequestOK, Limited, Open, Risk, Current

LEMMA StartStep ==
  ASSUME IInv, NEW t \in Threads, NEW c \in Contexts, NEW override \in BOOLEAN,
         NEW heat \in StartHeats, NEW events \in 1..MaxEvents,
         Start(t, c, override, heat, events)
  PROVE  IInv'
<1> DEFINE p == [heat |-> heat, notional |-> 0]
           q == [stage |-> "generate", context |-> c, override |-> override,
                 left |-> events, mine |-> <<>>, steps |-> <<>>,
                 start |-> p, portfolio |-> p]
<1>1. p \in Portfolio /\ p.heat = heat
  BY ReplayAssumption DEF Portfolio
<1>2. /\ task' = [task EXCEPT ![t] = q]
      /\ recs' = recs /\ orders' = orders /\ fills' = fills /\ runs' = runs
  BY DEF Start
<1> HIDE DEF p
<1>3. q \in Task
  BY <1>1, EmptySeq, ReplayAssumption DEF Task
<1>4. q.stage = "generate" /\ q.start = p /\ q.portfolio = p
  OBVIOUS
<1> HIDE DEF q
<1>5. \A u \in Threads : task'[u] = IF u = t THEN q ELSE task[u]
  BY <1>2 DEF IInv, TypeOK
<1>6. TypeOK'
  BY <1>2, <1>3 DEF IInv, TypeOK
<1>7. RowsOK' /\ HeatKept'
  BY <1>2 DEF IInv, RowsOK, RecOK, HeatKept
<1>8. \A u \in Threads : RequestOK(task[u])'
  <2> TAKE u \in Threads
  <2>1. CASE u = t
    BY <1>4, <1>5, <2>1 DEF RequestOK, Limited, Open
  <2>2. CASE u # t
    <3>1. RequestOK(task[u]) /\ task'[u] = task[u]
      BY <1>5, <2>2 DEF IInv
    <3> QED BY <1>2, <3>1, RequestStays
  <2> QED BY <2>1, <2>2
<1>9. Apart'
  BY <1>4, <1>5 DEF IInv, Apart, Open, Current
<1> QED BY <1>6, <1>7, <1>8, <1>9 DEF IInv

LEMMA GenerateStep ==
  ASSUME IInv, NEW t \in Threads, NEW bullish \in BOOLEAN, NEW r \in Ids,
         Generate(t, bullish, r)
  PROVE  IInv'
<1> DEFINE q   == task[t]
           rec == Recommendation(q.context, bullish, q.portfolio.heat, q.override)
           new == [q EXCEPT !.left = @ - 1, !.mine = Append(@, r),
                            !.stage = IF rec.approved THEN "submit" ELSE "generate",
                            !.steps = IF rec.approved THEN @
                                      ELSE Append(@, Step(q.portfolio, q.portfolio))]
<1>1. /\ q.stage = "generate" /\ q.left > 0 /\ recs[r] = None
      /\ recs' = [recs EXCEPT ![r] = rec]
      /\ task' = [task EXCEPT ![t] = new]
      /\ orders' = orders /\ fills' = fills /\ runs' = runs
  BY DEF Generate
<1>2. q \in Working
  BY <1>1, IdleIsApart DEF IInv, TypeOK
<1>q. q = task[t]
  OBVIOUS
<1> HIDE DEF q
<1>3. RecOK(rec) /\ rec \in Rec
      /\ (rec.approved /\ ~ q.override =>
            q.portfolio.heat + rec.shares * Distance(rec.entry, rec.stop) <= HeatLimit)
  BY <1>2, RecIsSound DEF Working, Portfolio, RecOK
<1>4. rec # None /\ rec.approved \in BOOLEAN
  BY <1>3, ReplayAssumption DEF Rec
<1> HIDE DEF rec
<1>5. Append(q.mine, r) \in Seq(Ids) /\ Len(Append(q.mine, r)) > 0
      /\ Append(q.mine, r)[Len(Append(q.mine, r))] = r
  BY <1>2, Appended DEF Working
<1>6. Step(q.portfolio, q.portfolio) \in StepRow
  BY <1>2 DEF Working, Step, StepRow
<1>7. Append(q.steps, Step(q.portfolio, q.portfolio)) \in Seq(StepRow)
  BY <1>2, <1>6, Appended DEF Working
<1>8. /\ new \in Working
      /\ new.stage = IF rec.approved THEN "submit" ELSE "generate"
      /\ new.mine = Append(q.mine, r)
      /\ new.start = q.start /\ new.portfolio = q.portfolio /\ new.override = q.override
  <2>1. q.left - 1 \in 0..MaxEvents
    BY <1>1, <1>2, ReplayAssumption DEF Working
  <2> QED BY <1>2, <1>4, <1>5, <1>7, <2>1 DEF Working
<1>9. Current(new) = r
  BY <1>5, <1>8 DEF Current
<1> HIDE DEF new
<1>10. \A u \in Threads : task'[u] = IF u = t THEN new ELSE task[u]
  BY <1>1 DEF IInv, TypeOK
<1>11. \A i \in Ids : recs'[i] = IF i = r THEN rec ELSE recs[i]
  BY <1>1 DEF IInv, TypeOK
<1>12. TypeOK'
  BY <1>1, <1>3, <1>8 DEF IInv, TypeOK, Task, Working
<1>13. orders[r] = None /\ fills[r] = None
  BY <1>1 DEF IInv, RowsOK
<1>14. RowsOK'
  <2> SUFFICES ASSUME NEW i \in Ids
               PROVE  /\ recs'[i] # None => RecOK(recs'[i])
                      /\ orders[i] = None => fills[i] = None
                      /\ orders[i] # None => recs'[i] = recs[i] /\ i # r
    BY <1>1 DEF IInv, RowsOK, RecOK
  <2> QED BY <1>3, <1>11, <1>13 DEF IInv, RowsOK
<1>15. HeatKept'
  BY <1>1 DEF IInv, HeatKept
<1>16. \A u \in Threads : Open(task[u]) => Current(task[u]) \in Ids /\ Current(task[u]) # r
  BY <1>1, IdleIsApart, CurrentIsId DEF IInv, TypeOK, RequestOK, Open
<1>17. \A u \in Threads : RequestOK(task[u])'
  <2> TAKE u \in Threads
  <2>1. CASE u = t
    <3>1. q.stage # "idle" /\ Limited(q) => q.portfolio.heat <= HeatLimit
      BY <1>q DEF IInv, RequestOK
    <3>2. Limited(q) = Limited(new)
      BY <1>8 DEF Limited
    <3>3. Limited(q) => q.portfolio.heat <= HeatLimit
      BY <1>1, <3>1
    <3>4. rec.approved /\ Limited(q) =>
            q.portfolio.heat + rec.shares * Distance(rec.entry, rec.stop) <= HeatLimit
      BY <1>3 DEF Limited
    <3>5. recs'[r] = rec /\ orders'[r] = None /\ Len(new.mine) > 0
      BY <1>1, <1>5, <1>8, <1>11, <1>13
    <3>6. rec.approved => recs'[r].approved
      BY <3>5
    <3> QED
      BY <1>4, <1>8, <1>9, <1>10, <2>1, <3>2, <3>3, <3>4, <3>5, <3>6
      DEF RequestOK, Open, Risk, Limited, Current
  <2>2. CASE u # t
    <3>1. RequestOK(task[u]) /\ task'[u] = task[u]
      BY <1>10, <2>2 DEF IInv
    <3>2. Open(task[u]) => recs'[Current(task[u])] = recs[Current(task[u])]
      BY <1>11, <1>16
    <3> QED BY <1>1, <3>1, <3>2 DEF RequestOK, Limited, Open, Risk, Current
  <2> QED BY <2>1, <2>2
<1>18. Apart'
  BY <1>9, <1>10, <1>16 DEF IInv, Apart, Open, Current
<1> QED BY <1>12, <1>14, <1>15, <1>17, <1>18 DEF IInv

LEMMA SubmitStep ==
  ASSUME IInv, NEW t \in Threads, Submit(t)
  PROVE  IInv'
<1> DEFINE q   == task[t]
           r   == Current(q)
           row == [status |-> "submitted", shares |-> recs[r].shares, filled |-> 0]
           new == [q EXCEPT !.stage = "fill"]
<1>1. /\ q.stage = "submit"
      /\ orders' = [orders EXCEPT ![r] = row]
      /\ task' = [task EXCEPT ![t] = new]
      /\ recs' = recs /\ fills' = fills /\ runs' = runs
  BY DEF Submit
<1>2. q \in Working
  BY <1>1, IdleIsApart DEF IInv, TypeOK
<1>3. RequestOK(q)
  BY DEF IInv
<1>q. q = task[t]
  OBVIOUS
<1> HIDE DEF q
<1>4. r \in Ids /\ recs[r] # None /\ orders[r] = None
  BY <1>1, <1>2, <1>3, CurrentIsId DEF RequestOK, Open
<1>5. RecOK(recs[r]) /\ fills[r] = None
  BY <1>4 DEF IInv, RowsOK
<1>6. row \in Order /\ row # None
  BY <1>5, ReplayAssumption DEF RecOK, Rec, Order
<1>7. /\ new \in Working /\ new.stage = "fill" /\ new.mine = q.mine
      /\ new.start = q.start /\ new.portfolio = q.portfolio /\ new.override = q.override
  BY <1>2 DEF Working
<1>8. Current(new) = r
  BY <1>7 DEF Current
<1>9. row.status = "submitted" /\ row.shares = recs[r].shares /\ row.filled = 0
  OBVIOUS
<1> HIDE DEF r, row, new
<1>10. \A u \in Threads : task'[u] = IF u = t THEN new ELSE task[u]
  BY <1>1 DEF IInv, TypeOK
<1>11. \A i \in Ids : orders'[i] = IF i = r THEN row ELSE orders[i]
  BY <1>1 DEF IInv, TypeOK
<1>12. TypeOK'
  BY <1>1, <1>6, <1>7 DEF IInv, TypeOK, Task, Working
<1>13. RowsOK'
  BY <1>1, <1>4, <1>5, <1>6, <1>9, <1>11 DEF IInv, RowsOK, RecOK
<1>14. HeatKept'
  BY <1>1 DEF IInv, HeatKept
<1>15. \A u \in Threads :
         u # t /\ Open(task[u]) => Current(task[u]) \in Ids /\ Current(task[u]) # r
  <2> SUFFICES ASSUME NEW u \in Threads, u # t, Open(task[u])
               PROVE  Current(task[u]) \in Ids /\ Current(task[u]) # r
    OBVIOUS
  <2>1. Current(task[u]) \in Ids
    BY IdleIsApart, CurrentIsId DEF IInv, TypeOK, RequestOK, Open
  <2>2. Open(q)
    BY <1>1 DEF Open
  <2> QED BY <1>q, <2>1, <2>2 DEF IInv, Apart, r
<1>16. \A u \in Threads : RequestOK(task[u])'
  <2> TAKE u \in Threads
  <2>1. CASE u = t
    BY <1>1, <1>3, <1>4, <1>6, <1>7, <1>8, <1>9, <1>10, <1>11, <2>1
    DEF RequestOK, Open, Limited, Risk, Current, r
  <2>2. CASE u # t
    <3>1. RequestOK(task[u]) /\ task'[u] = task[u]
      BY <1>10, <2>2 DEF IInv
    <3>2. Open(task[u]) => orders'[Current(task[u])] = orders[Current(task[u])]
      BY <1>11, <1>15, <2>2
    <3> QED BY <1>1, <3>1, <3>2 DEF RequestOK, Limited, Open, Risk, Current
  <2> QED BY <2>1, <2>2
<1>17. Apart'
  BY <1>8, <1>10, <1>15 DEF IInv, Apart, Open, Current
<1> QED BY <1>12, <1>13, <1>14, <1>16, <1>17 DEF IInv

\* What a fill finds: the order of the request, submitted and not filled.
LEMMA FillFinds ==
  ASSUME IInv, NEW t \in Threads, task[t].stage = "fill"
  PROVE  LET q == task[t]
             r == Current(q)
         IN  /\ q \in Working
             /\ r \in Ids /\ recs[r] # None /\ RecOK(recs[r]) /\ recs[r] \in Rec
             /\ orders[r] # None /\ orders[r] \in Order
             /\ orders[r].status = "submitted" /\ orders[r].filled = 0
             /\ orders[r].shares = recs[r].shares
             /\ fills[r] = None
             /\ FillSize(r) = recs[r].shares
<1> DEFINE q == task[t]
           r == Current(q)
<1>1. q \in Working
  BY IdleIsApart DEF IInv, TypeOK
<1>2. RequestOK(q)
  BY DEF IInv
<1>3. r \in Ids /\ recs[r] # None /\ orders[r] # None /\ orders[r].status = "submitted"
  BY <1>1, <1>2, CurrentIsId DEF RequestOK, Open
<1>4. RecOK(recs[r]) /\ recs[r] \in Rec /\ orders[r] \in Order
  BY <1>3 DEF IInv, RowsOK, RecOK, TypeOK
<1>5. orders[r].shares = recs[r].shares /\ orders[r].filled = 0 /\ fills[r] = None
  BY <1>3 DEF IInv, RowsOK
<1>6. FillSize(r) = recs[r].shares
  BY <1>4, <1>5 DEF FillSize, Rec
<1> QED BY <1>1, <1>3, <1>4, <1>5, <1>6

LEMMA FillStep ==
  ASSUME IInv, NEW t \in Threads, Fill(t)
  PROVE  IInv'
<1> DEFINE q     == task[t]
           r     == Current(q)
           n     == FillSize(r)
           after == ApplyFill(q.portfolio, Risk(r), n * recs[r].entry)
           new   == [q EXCEPT !.stage = "generate", !.portfolio = after,
                              !.steps = Append(@, Step(q.portfolio, after))]
<1>1. q.stage = "fill" /\ recs' = recs /\ runs' = runs
  BY DEF Fill
<1>2. /\ q \in Working
      /\ r \in Ids /\ recs[r] # None /\ RecOK(recs[r]) /\ recs[r] \in Rec
      /\ orders[r] # None /\ orders[r] \in Order
      /\ orders[r].status = "submitted" /\ orders[r].filled = 0
      /\ orders[r].shares = recs[r].shares
      /\ fills[r] = None
      /\ n = recs[r].shares
  BY <1>1, FillFinds
<1>3. RequestOK(q)
  BY DEF IInv
<1>4. CASE /\ n > 0
           /\ orders' = [orders EXCEPT ![r].status = "filled", ![r].filled = n]
           /\ fills' = [fills EXCEPT ![r] = [shares |-> n, price |-> recs[r].entry]]
           /\ task' = [task EXCEPT ![t] = new]
  <2> DEFINE row  == [orders[r] EXCEPT !.status = "filled", !.filled = n]
             fill == [shares |-> n, price |-> recs[r].entry]
  <2>1. Risk(r) \in Nat /\ n * recs[r].entry \in Int
    <3>1. /\ recs[r].shares \in Nat /\ recs[r].entry \in Int
          /\ Distance(recs[r].entry, recs[r].stop) \in Nat
      BY <1>2, ReplayAssumption DEF RecOK, Rec
    <3>2. Risk(r) \in Nat
      BY <3>1, Products DEF Risk
    <3> HIDE DEF n
    <3>3. n \in Nat
      BY <1>2, <3>1
    <3>4. n * recs[r].entry \in Int
      BY <3>1, <3>3, ProductIsInt
    <3> QED BY <3>2, <3>4
  <2>2. after \in Portfolio /\ after.heat = q.portfolio.heat + Risk(r)
    <3>1. q.portfolio.heat \in Nat /\ q.portfolio.notional \in Int
      BY <1>2 DEF Working, Portfolio
    <3>2. after = [heat |-> q.portfolio.heat + Risk(r),
                   notional |-> q.portfolio.notional + n * recs[r].entry]
      BY DEF ApplyFill
    <3> HIDE DEF after, n, q
    <3> QED BY <2>1, <3>1, <3>2 DEF Portfolio
  <2> HIDE DEF after
  <2>3. Step(q.portfolio, after) \in StepRow
    BY <1>2, <2>2 DEF Working, Step, StepRow
  <2>4. Append(q.steps, Step(q.portfolio, after)) \in Seq(StepRow)
    BY <1>2, <2>3, Appended DEF Working
  <2>5. /\ new \in Working /\ new.stage = "generate" /\ new.portfolio = after
        /\ new.start = q.start /\ new.override = q.override
    BY <1>2, <2>2, <2>4 DEF Working
  <2>6. row \in Order /\ row # None /\ row.status = "filled" /\ row.filled = n
        /\ row.shares = n
    BY <1>2, ReplayAssumption DEF Order, Rec
  <2>7. fill \in FillRow /\ fill # None
    BY <1>2, ReplayAssumption DEF FillRow, Rec
  <2>8. \A i \in Ids : orders'[i] = IF i = r THEN row ELSE orders[i]
    BY <1>2, <1>4 DEF IInv, TypeOK
  <2>9. \A i \in Ids : fills'[i] = IF i = r THEN fill ELSE fills[i]
    BY <1>2, <1>4 DEF IInv, TypeOK
  <2>10. orders' = [orders EXCEPT ![r] = row]
    BY <1>2, <1>4 DEF IInv, TypeOK
  <2>q. q = task[t] /\ fill = [shares |-> n, price |-> recs[r].entry]
    OBVIOUS
  <2> HIDE DEF q, new, row, fill, n
  <2>11. \A u \in Threads : task'[u] = IF u = t THEN new ELSE task[u]
    BY <1>4 DEF IInv, TypeOK
  <2>12. TypeOK'
    BY <1>1, <1>2, <1>4, <2>5, <2>6, <2>7, <2>10, <2>q DEF IInv, TypeOK, Task, Working
  <2>13. RowsOK'
    <3> SUFFICES ASSUME NEW i \in Ids
                 PROVE  /\ recs[i] # None => RecOK(recs[i])
                        /\ orders'[i] = None => fills'[i] = None
                        /\ orders'[i] # None =>
                             /\ recs[i] # None
                             /\ orders'[i].shares = recs[i].shares
                             /\ orders'[i].status = "submitted" =>
                                  orders'[i].filled = 0 /\ fills'[i] = None
                             /\ orders'[i].status = "filled" =>
                                  /\ orders'[i].shares > 0
                                  /\ orders'[i].filled = orders'[i].shares
                                  /\ fills'[i] = [shares |-> orders'[i].shares,
                                                  price |-> recs[i].entry]
      BY <1>1 DEF RowsOK, RecOK
    <3>1. CASE i = r
      <4>1. orders'[i] = row /\ fills'[i] = fill /\ recs[i] # None /\ RecOK(recs[i])
        BY <1>2, <2>8, <2>9, <3>1
      <4>2. row # None /\ fill # None /\ row.status = "filled"
            /\ row.shares = n /\ row.filled = n /\ n = recs[i].shares /\ n > 0
        BY <1>2, <1>4, <2>6, <2>7, <3>1
      <4>3. fill = [shares |-> row.shares, price |-> recs[i].entry]
        BY <2>q, <3>1, <4>2
      <4> QED BY <4>1, <4>2, <4>3
    <3>2. CASE i # r
      BY <2>8, <2>9, <3>2 DEF IInv, RowsOK
    <3> QED BY <3>1, <3>2
  <2>14. HeatKept'
    BY <1>1 DEF IInv, HeatKept
  <2>15. Limited(q) => after.heat <= HeatLimit
    BY <1>1, <1>3, <2>2 DEF RequestOK, Open
  <2>16. \A u \in Threads :
           u # t /\ Open(task[u]) => Current(task[u]) \in Ids /\ Current(task[u]) # r
    <3> SUFFICES ASSUME NEW u \in Threads, u # t, Open(task[u])
                 PROVE  Current(task[u]) \in Ids /\ Current(task[u]) # r
      OBVIOUS
    <3>1. Current(task[u]) \in Ids
      BY IdleIsApart, CurrentIsId DEF IInv, TypeOK, RequestOK, Open
    <3>2. Open(q)
      BY <1>1 DEF Open
    <3> QED BY <2>q, <3>1, <3>2 DEF IInv, Apart
  <2>17. \A u \in Threads : RequestOK(task[u])'
    <3> TAKE u \in Threads
    <3>1. CASE u = t
      BY <2>5, <2>11, <2>15, <3>1 DEF RequestOK, Open, Limited
    <3>2. CASE u # t
      <4>1. RequestOK(task[u]) /\ task'[u] = task[u]
        BY <2>11, <3>2 DEF IInv
      <4>2. Open(task[u]) => orders'[Current(task[u])] = orders[Current(task[u])]
        BY <2>8, <2>16, <3>2
      <4> QED BY <1>1, <4>1, <4>2 DEF RequestOK, Limited, Open, Risk, Current
    <3> QED BY <3>1, <3>2
  <2>18. Apart'
    BY <2>5, <2>11 DEF IInv, Apart, Open, Current
  <2> QED BY <2>12, <2>13, <2>14, <2>17, <2>18 DEF IInv
<1>5. CASE /\ n <= 0
           /\ task' = [task EXCEPT ![t] = Idle]
           /\ UNCHANGED <<orders, fills>>
  <2>1. \A u \in Threads : task'[u] = IF u = t THEN Idle ELSE task[u]
    BY <1>5 DEF IInv, TypeOK
  <2>2. TypeOK'
    BY <1>1, <1>5, IdleIsApart DEF IInv, TypeOK
  <2>3. RowsOK' /\ HeatKept'
    BY <1>1, <1>5 DEF IInv, RowsOK, RecOK, HeatKept
  <2>4. \A u \in Threads : RequestOK(task[u])'
    <3> TAKE u \in Threads
    <3>1. CASE u = t
      BY <2>1, <3>1, IdleIsApart DEF RequestOK, Open
    <3>2. CASE u # t
      <4>1. RequestOK(task[u]) /\ task'[u] = task[u]
        BY <2>1, <3>2 DEF IInv
      <4> QED BY <1>1, <1>5, <4>1, RequestStays
    <3> QED BY <3>1, <3>2
  <2>5. Apart'
    BY <2>1, IdleIsApart DEF IInv, Apart, Open, Current
  <2> QED BY <2>2, <2>3, <2>4, <2>5 DEF IInv
<1> QED BY <1>4, <1>5 DEF Fill, Risk

LEMMA RecordStep ==
  ASSUME IInv, NEW t \in Threads, Record(t)
  PROVE  IInv'
<1> DEFINE q    == task[t]
           good == {i \in DOMAIN q.mine : recs[q.mine[i]].approved}
           run  == [override |-> q.override, start |-> q.start, ending |-> q.portfolio,
                    recs |-> q.mine, steps |-> q.steps, approved |-> Cardinality(good)]
<1>1. /\ q.stage = "generate" /\ runs' = Append(runs, run)
      /\ task' = [task EXCEPT ![t] = Idle]
      /\ recs' = recs /\ orders' = orders /\ fills' = fills
  BY DEF Record
<1>2. q \in Working
  BY <1>1, IdleIsApart DEF IInv, TypeOK
<1>3. RequestOK(q)
  BY DEF IInv
<1>4. Cardinality(good) \in Nat
  <2>1. DOMAIN q.mine = 1..Len(q.mine) /\ Len(q.mine) \in Nat
    BY <1>2 DEF Working
  <2>2. IsFiniteSet(1..Len(q.mine))
    BY <2>1, FS_Interval
  <2>3. IsFiniteSet(good)
    BY <2>1, <2>2, FS_Subset
  <2> QED BY <2>3, FS_CardinalityType
<1> HIDE DEF good
<1>5. run \in Run /\ run.override = q.override /\ run.start = q.start
      /\ run.ending = q.portfolio
  BY <1>2, <1>4 DEF Run, Working
<1> HIDE DEF run
<1>6. runs' \in Seq(Run) /\ DOMAIN runs' = DOMAIN runs \cup {Len(runs) + 1}
      /\ \A i \in DOMAIN runs' :
           runs'[i] = IF i = Len(runs) + 1 THEN run ELSE runs[i]
  BY <1>1, <1>5 DEF IInv, TypeOK
<1>7. \A u \in Threads : task'[u] = IF u = t THEN Idle ELSE task[u]
  BY <1>1 DEF IInv, TypeOK
<1>8. TypeOK'
  BY <1>1, <1>6, IdleIsApart DEF IInv, TypeOK
<1>9. RowsOK'
  BY <1>1 DEF IInv, RowsOK, RecOK
<1>10. Limited(q) => q.portfolio.heat <= HeatLimit
  BY <1>1, <1>3 DEF RequestOK
<1>11. HeatKept'
  BY <1>5, <1>6, <1>10 DEF IInv, HeatKept, Limited
<1>12. \A u \in Threads : RequestOK(task[u])'
  <2> TAKE u \in Threads
  <2>1. CASE u = t
    BY <1>7, <2>1, IdleIsApart DEF RequestOK, Open
  <2>2. CASE u # t
    <3>1. RequestOK(task[u]) /\ task'[u] = task[u]
      BY <1>7, <2>2 DEF IInv
    <3> QED BY <1>1, <3>1, RequestStays
  <2> QED BY <2>1, <2>2
<1>13. Apart'
  BY <1>7, IdleIsApart DEF IInv, Apart, Open, Current
<1> QED BY <1>8, <1>9, <1>11, <1>12, <1>13 DEF IInv

LEMMA InvStep == IInv /\ [Next]_vars => IInv'
<1> SUFFICES ASSUME IInv, [Next]_vars PROVE IInv'
  OBVIOUS
<1>1. CASE UNCHANGED vars
  BY <1>1 DEF vars, IInv, TypeOK, RowsOK, RecOK, RequestOK, Limited, Open, Risk,
    Current, Apart, HeatKept
<1>2. CASE Next
  BY <1>2, StartStep, GenerateStep, SubmitStep, FillStep, RecordStep DEF Next
<1> QED BY <1>1, <1>2

LEMMA Invariant == Spec => []IInv
<1>1. Init => IInv
  BY TypeInit
<1> QED BY <1>1, InvStep, PTL DEF Spec

(***************************************************************************)
(* Sums over finite sets                                                   *)
(***************************************************************************)

LEMMA LeastElement ==
  ASSUME NEW T \in SUBSET Nat, T # {}
  PROVE  \E m \in T : \A k \in T : m <= k
<1> DEFINE R == {ss \in Nat \X Nat : ss[1] < ss[2]}
<1>1. IsWellFoundedOn(R, Nat)
  BY NatLessThanWellFounded DEF OpToRel
<1> HIDE DEF R
<1>2. PICK m \in T : \A k \in T : ~ (<<k, m>> \in R)
  BY <1>1, WFMin
<1>3. \A k \in T : ~ (k < m)
  BY <1>2 DEF R
<1> QED BY <1>3

\* Of some subsets of a finite set there is a smallest.
LEMMA SmallestSet ==
  ASSUME NEW S, IsFiniteSet(S), NEW B \in SUBSET (SUBSET S), B # {}
  PROVE  \E T \in B : \A x \in T : T \ {x} \notin B
<1> DEFINE N == {n \in Nat : \E T \in B : Cardinality(T) = n}
<1>1. ASSUME NEW T \in B
      PROVE  IsFiniteSet(T) /\ Cardinality(T) \in N
  <2>1. IsFiniteSet(T)
    BY FS_Subset
  <2> QED BY <2>1, FS_CardinalityType
<1>2. N \in SUBSET Nat /\ N # {}
  BY <1>1
<1>3. PICK m \in N : \A k \in N : m <= k
  <2> HIDE DEF N
  <2> QED BY <1>2, LeastElement
<1>4. PICK T \in B : Cardinality(T) = m
  BY <1>3
<1>5. ASSUME NEW x \in T, T \ {x} \in B PROVE FALSE
  <2>1. Cardinality(T \ {x}) = m - 1 /\ Cardinality(T \ {x}) \in N
    BY <1>1, <1>4, <1>5, FS_RemoveElement
  <2>2. m \in Nat /\ m <= Cardinality(T \ {x})
    BY <1>3, <2>1
  <2> HIDE DEF N
  <2> QED BY <2>1, <2>2
<1> QED BY <1>5

\* The sums of a weight over all subsets of S.
Sums(w, S, g) ==
  /\ g \in [SUBSET S -> Int]
  /\ g[{}] = 0
  /\ \A T \in SUBSET S : \A x \in T : g[T] = w[x] + g[T \ {x}]

LEMMA SumsExist ==
  ASSUME NEW S, IsFiniteSet(S), NEW w, \A x \in S : w[x] \in Int
  PROVE  \E g : Sums(w, S, g)
<1> DEFINE B == {T \in SUBSET S : ~ \E g : Sums(w, T, g)}
<1>1. SUFFICES ASSUME B # {} PROVE FALSE
  OBVIOUS
<1>2. PICK T \in B : \A x \in T : T \ {x} \notin B
  <2>1. B \in SUBSET (SUBSET S)
    OBVIOUS
  <2> HIDE DEF B
  <2> QED BY <1>1, <2>1, SmallestSet
<1>3. T \in SUBSET S /\ ~ \E g : Sums(w, T, g)
  BY <1>2
<1>4. T # {}
  <2>1. Sums(w, {}, [U \in SUBSET {} |-> 0])
    BY DEF Sums
  <2> QED BY <1>3, <2>1
<1>5. PICK x \in T : TRUE
  BY <1>4
<1>6. PICK g : Sums(w, T \ {x}, g)
  BY <1>2, <1>3, <1>5
<1> HIDE DEF B
<1> DEFINE W(U) == IF x \in U THEN w[x] ELSE 0
           h == [U \in SUBSET T |-> W(U) + g[U \ {x}]]
<1>7. \A U \in SUBSET T : W(U) \in Int /\ g[U \ {x}] \in Int
  <2>1. w[x] \in Int /\ \A U \in SUBSET T : U \ {x} \in SUBSET (T \ {x})
    BY <1>3, <1>5
  <2> QED BY <1>6, <2>1 DEF Sums
<1>8. \A U : x \in U => W(U) = w[x] /\ W(U \ {x}) = 0
  OBVIOUS
<1>9. \A U, y : y # x => W(U \ {y}) = W(U)
  OBVIOUS
<1>10. W({}) = 0 /\ g[{}] = 0 /\ {} \ {x} = {}
  BY <1>6 DEF Sums
<1> HIDE DEF W
<1>11. \A U \in SUBSET T : h[U] = W(U) + g[U \ {x}]
  OBVIOUS
<1>12. h \in [SUBSET T -> Int] /\ h[{}] = 0
  <2>1. \A U \in SUBSET T : W(U) + g[U \ {x}] \in Int
    BY <1>7
  <2>2. h[{}] = 0
    <3>1. h[{}] = W({}) + g[{} \ {x}]
      BY <1>11
    <3>2. W({}) = 0 /\ g[{} \ {x}] = 0
      BY <1>10
    <3> QED BY <3>1, <3>2
  <2> QED BY <2>1, <2>2
<1> HIDE DEF h
<1>13. ASSUME NEW U \in SUBSET T, NEW y \in U
       PROVE  h[U] = w[y] + h[U \ {y}]
  <2>1. h[U] = W(U) + g[U \ {x}] /\ h[U \ {y}] = W(U \ {y}) + g[(U \ {y}) \ {x}]
    <3>1. U \ {y} \in SUBSET T
      OBVIOUS
    <3> QED BY <1>11, <3>1
  <2>2. CASE y = x
    <3>1. W(U) = w[x] /\ W(U \ {y}) = 0 /\ (U \ {y}) \ {x} = U \ {x}
      BY <1>8, <2>2
    <3>2. W(U) \in Int /\ g[U \ {x}] \in Int
      BY <1>7
    <3>3. h[U \ {y}] = 0 + g[U \ {x}]
      BY <2>1, <3>1
    <3> QED BY <2>1, <2>2, <3>1, <3>2, <3>3
  <2>3. CASE y # x
    <3>1. W(U \ {y}) = W(U) /\ (U \ {y}) \ {x} = (U \ {x}) \ {y}
      BY <1>9, <2>3
    <3>2. U \ {x} \in SUBSET (T \ {x}) /\ y \in U \ {x}
      BY <2>3
    <3>3. g[U \ {x}] = w[y] + g[(U \ {x}) \ {y}]
      BY <1>6, <3>2 DEF Sums
    <3>4. w[y] \in Int /\ g[(U \ {x}) \ {y}] \in Int /\ W(U) \in Int
      <4>1. (U \ {x}) \ {y} = (U \ {y}) \ {x}
        OBVIOUS
      <4> QED BY <1>3, <1>7, <4>1
    <3>5. h[U] = W(U) + (w[y] + g[(U \ {x}) \ {y}])
      BY <2>1, <3>3
    <3>6. h[U \ {y}] = W(U) + g[(U \ {x}) \ {y}]
      <4>1. W(U \ {y}) = W(U)
        BY <3>1
      <4>2. (U \ {y}) \ {x} = (U \ {x}) \ {y}
        BY <3>1
      <4> QED BY <2>1, <4>1, <4>2
    <3> QED BY <3>4, <3>5, <3>6
  <2> QED BY <2>2, <2>3
<1>14. Sums(w, T, h)
  BY <1>12, <1>13 DEF Sums
<1> QED BY <1>3, <1>14

\* Sum adds a weight up.
LEMMA SumIs ==
  ASSUME NEW S, IsFiniteSet(S), NEW w, NEW g, Sums(w, S, g)
  PROVE  Sum(w, S) = g[S]
<1> DEFINE pick(T) == CHOOSE x \in T : TRUE
           step(h) == [T \in SUBSET S |-> IF T = {} THEN 0 ELSE w[pick(T)] + h[T \ {pick(T)}]]
           sum == CHOOSE h : h = step(h)
<1>1. \A T \in SUBSET S : T # {} => pick(T) \in T
  OBVIOUS
<1>2. g = step(g)
  <2>1. \A T \in SUBSET S : g[T] = IF T = {} THEN 0 ELSE w[pick(T)] + g[T \ {pick(T)}]
    <3> HIDE DEF pick
    <3> QED BY <1>1 DEF Sums
  <2> HIDE DEF pick
  <2>2. g = [T \in SUBSET S |-> g[T]]
    BY DEF Sums
  <2> QED BY <2>1, <2>2
<1>3. sum = step(sum)
  <2> HIDE DEF step
  <2> QED BY <1>2
<1>4. \A T \in SUBSET S : sum[T] = g[T]
  <2> HIDE DEF sum, pick
  <2> DEFINE B == {T \in SUBSET S : sum[T] # g[T]}
  <2>1. SUFFICES ASSUME B # {} PROVE FALSE
    OBVIOUS
  <2>2. PICK T \in B : \A x \in T : T \ {x} \notin B
    <3>1. B \in SUBSET (SUBSET S)
      OBVIOUS
    <3> HIDE DEF B
    <3> QED BY <2>1, <3>1, SmallestSet
  <2>3. T \in SUBSET S /\ sum[T] # g[T]
    BY <2>2
  <2>4. \A h : step(h)[T] = IF T = {} THEN 0 ELSE w[pick(T)] + h[T \ {pick(T)}]
    BY <2>3
  <2>5. sum[T] = step(sum)[T] /\ g[T] = step(g)[T]
    <3> HIDE DEF step
    <3> QED BY <1>2, <1>3
  <2> HIDE DEF step
  <2>6. T # {}
    BY <2>3, <2>4, <2>5
  <2>7. pick(T) \in T
    BY <1>1, <2>3, <2>6
  <2>8. T \ {pick(T)} \in SUBSET S /\ T \ {pick(T)} \notin B
    BY <2>2, <2>3, <2>7
  <2>9. sum[T \ {pick(T)}] = g[T \ {pick(T)}]
    BY <2>8
  <2> QED BY <2>3, <2>4, <2>5, <2>6, <2>9
<1>5. Sum(w, S) = sum[S]
  BY DEF Sum, MapThenSumSet, MapThenFoldSet
<1> QED BY <1>4, <1>5

\* What Sum promises: nothing adds up to nothing, an element adds its weight,
\* and only the weights of the elements count.
LEMMA SumOfNone == \A w : Sum(w, {}) = 0
<1> TAKE w
<1>1. Sums(w, {}, [T \in SUBSET {} |-> 0])
  BY DEF Sums
<1> QED BY <1>1, SumIs, FS_EmptySet

LEMMA SumOfMore ==
  ASSUME NEW S, IsFiniteSet(S), NEW w, \A y \in S : w[y] \in Int, NEW x, x \notin S,
         w[x] \in Int
  PROVE  Sum(w, S) \in Int /\ Sum(w, S \cup {x}) = Sum(w, S) + w[x]
<1> DEFINE T == S \cup {x}
<1>1. IsFiniteSet(T) /\ \A y \in T : w[y] \in Int
  BY FS_AddElement
<1>2. PICK g : Sums(w, T, g)
  BY <1>1, SumsExist
<1>3. S \in SUBSET T /\ T \in SUBSET T /\ x \in T /\ T \ {x} = S
  OBVIOUS
<1> DEFINE f == [U \in SUBSET S |-> g[U]]
<1>4. Sums(w, S, f)
  <2>1. f \in [SUBSET S -> Int]
    BY <1>2, <1>3 DEF Sums
  <2>2. f[{}] = 0
    BY <1>2 DEF Sums
  <2>3. ASSUME NEW U \in SUBSET S, NEW y \in U PROVE f[U] = w[y] + f[U \ {y}]
    BY <1>2, <1>3 DEF Sums
  <2> HIDE DEF f
  <2> QED BY <2>1, <2>2, <2>3 DEF Sums
<1>5. Sum(w, T) = g[T] /\ Sum(w, S) = g[S]
  BY <1>1, <1>2, <1>4, SumIs
<1>6. g[T] = w[x] + g[S] /\ g[S] \in Int
  BY <1>2, <1>3 DEF Sums
<1> QED BY <1>5, <1>6

LEMMA SumOfSame ==
  ASSUME NEW S, IsFiniteSet(S), NEW v, NEW w, \A x \in S : v[x] \in Int /\ w[x] = v[x]
  PROVE  Sum(w, S) = Sum(v, S)
<1>1. PICK g : Sums(v, S, g)
  BY SumsExist
<1>2. Sums(w, S, g)
  BY <1>1 DEF Sums
<1> QED BY <1>1, <1>2, SumIs

(***************************************************************************)
(* What runs tell                                                          *)
(***************************************************************************)

Of(rs) == {rs[k] : k \in DOMAIN rs}

\* What a request has done so far: it recommended something new for each event,
\* filled what was approved, but for the order it is about, and noted a step
\* for each event it is done with.
Telling(q) ==
  /\ \A j, k \in DOMAIN q.mine : q.mine[j] = q.mine[k] => j = k
  /\ \A r \in Of(q.mine) :
       /\ recs[r] # None
       /\ fills[r] # None <=> recs[r].approved /\ ~ (Open(q) /\ r = Current(q))
  /\ Len(q.mine) = Len(q.steps) + (IF Open(q) THEN 1 ELSE 0)
  /\ Chained(q.start, q.portfolio, q.steps)
  /\ AddsUp(q.start, q.portfolio, q.mine)

Told(run) ==
  /\ run.approved = Cardinality(Filled(run.recs))
  /\ AddsUp(run.start, run.ending, run.recs)
  /\ DOMAIN run.steps = DOMAIN run.recs
  /\ Chained(run.start, run.ending, run.steps)

Busy(q) == q.stage # "idle"

\* No two requests, and no request and no run, share a recommendation.
OwnRecs ==
  /\ \A t, u \in Threads :
       t # u /\ Busy(task[t]) /\ Busy(task[u]) => Of(task[t].mine) \cap Of(task[u].mine) = {}
  /\ \A i \in DOMAIN runs : \A r \in Of(runs[i].recs) :
       /\ recs[r] # None
       /\ \A t \in Threads : Busy(task[t]) => r \notin Of(task[t].mine)

TellInv ==
  /\ \A t \in Threads : Busy(task[t]) => Telling(task[t])
  /\ OwnRecs
  /\ \A i \in DOMAIN runs : Told(runs[i])

\* The risk and the cost of a fill.
LEMMA Amounts ==
  ASSUME IInv, NEW r \in Ids, fills[r] # None
  PROVE  RiskOf[r] \in Int /\ CostOf[r] \in Int
<1>1. orders[r] # None
  BY DEF IInv, RowsOK
<1>2. recs[r] # None /\ fills[r] \in FillRow
  BY <1>1 DEF IInv, RowsOK, TypeOK
<1>3. Distance(recs[r].entry, recs[r].stop) \in Nat
  BY <1>2 DEF IInv, RowsOK, RecOK
<1> QED BY <1>2, <1>3 DEF RiskOf, CostOf, FillRow

LEMMA FilledIsFinite ==
  ASSUME IInv, NEW rs \in Seq(Ids)
  PROVE  /\ IsFiniteSet(Filled(rs)) /\ Filled(rs) \subseteq Ids
         /\ Filled(rs) = {r \in Of(rs) : fills[r] # None}
         /\ \A r \in Filled(rs) : RiskOf[r] \in Int /\ CostOf[r] \in Int
<1>1. rs \in [1..Len(rs) -> Of(rs)] /\ DOMAIN rs = 1..Len(rs) /\ Len(rs) \in Nat
  BY DEF Of
<1>2. rs \in Surjection(1..Len(rs), Of(rs))
  BY <1>1 DEF Surjection, Of
<1>3. IsFiniteSet(Of(rs))
  BY <1>1, <1>2, FS_NatSurjection DEF ExistsSurjection
<1>4. Filled(rs) \subseteq Of(rs) /\ Of(rs) \subseteq Ids
  BY <1>1 DEF Filled, Of
<1>5. IsFiniteSet(Filled(rs))
  BY <1>3, <1>4, FS_Subset
<1> QED BY <1>4, <1>5, Amounts DEF Filled, Of

\* What was filled for a list of recommendations, and what it adds up to, stays
\* when these stay.
LEMMA SumsStay ==
  ASSUME IInv, NEW rs \in Seq(Ids),
         \A r \in Of(rs) : recs'[r] = recs[r] /\ fills'[r] = fills[r]
  PROVE  /\ Filled(rs)' = Filled(rs)
         /\ \A start, ending : AddsUp(start, ending, rs) => AddsUp(start, ending, rs)'
<1>1. Filled(rs)' = Filled(rs)
  BY DEF Filled, Of
<1>2. \A r \in Filled(rs) : RiskOf'[r] = RiskOf[r] /\ CostOf'[r] = CostOf[r]
  <2> TAKE r \in Filled(rs)
  <2>1. r \in Ids /\ recs'[r] = recs[r] /\ fills'[r] = fills[r]
    BY FilledIsFinite
  <2> QED BY <2>1 DEF RiskOf, CostOf
<1> DEFINE S == Filled(rs)
<1>3. IsFiniteSet(S) /\ \A r \in S : RiskOf[r] \in Int /\ CostOf[r] \in Int
  BY FilledIsFinite
<1>4. Sum(RiskOf', S) = Sum(RiskOf, S) /\ Sum(CostOf', S) = Sum(CostOf, S)
  <2> HIDE DEF S
  <2>1. \A r \in S : RiskOf'[r] = RiskOf[r] /\ CostOf'[r] = CostOf[r]
    BY <1>2 DEF S
  <2> QED BY <1>3, <2>1, SumOfSame
<1> QED BY <1>1, <1>4 DEF AddsUp

\* A step that begins where the last one ended makes the chain longer.
LEMMA ChainedMore ==
  ASSUME NEW S, NEW steps \in Seq(S), NEW start, NEW ending, NEW step \in S,
         Chained(start, ending, steps), step.pre = ending
  PROVE  Chained(start, step.post, Append(steps, step))
<1> DEFINE more == Append(steps, step)
           n    == Len(steps)
<1>1. /\ n \in Nat /\ DOMAIN steps = 1..n /\ DOMAIN more = 1..(n + 1)
      /\ \A k \in 1..n : more[k] = steps[k]
      /\ more[n + 1] = step /\ Len(more) = n + 1 /\ more # <<>>
      /\ steps = <<>> <=> n = 0
  OBVIOUS
<1>2. /\ \A k \in 1..n : steps[k].pre = IF k = 1 THEN start ELSE steps[k - 1].post
      /\ step.pre = IF n = 0 THEN start ELSE steps[n].post
  BY <1>1 DEF Chained
<1> HIDE DEF more, n
<1>3. ASSUME NEW k \in 1..(n + 1)
      PROVE  more[k].pre = IF k = 1 THEN start ELSE more[k - 1].post
  <2>1. CASE k = n + 1
    BY <1>1, <1>2, <2>1
  <2>2. CASE k # n + 1
    <3>1. k \in 1..n /\ (k # 1 => k - 1 \in 1..n)
      BY <1>1, <2>2
    <3> QED BY <1>1, <1>2, <3>1
  <2> QED BY <2>1, <2>2
<1>4. step.post = IF more = <<>> THEN start ELSE more[Len(more)].post
  BY <1>1
<1> QED BY <1>1, <1>3, <1>4 DEF Chained, more

\* What it takes that a request tells what it has done after a step.
LEMMA TellsNow ==
  ASSUME NEW u \in Threads, NEW q, task'[u] = q,
         \A j, k \in DOMAIN q.mine : q.mine[j] = q.mine[k] => j = k,
         \A r \in Of(q.mine) :
           /\ recs'[r] # None
           /\ fills'[r] # None <=> recs'[r].approved /\ ~ (Open(q) /\ r = Current(q)),
         Len(q.mine) = Len(q.steps) + (IF Open(q) THEN 1 ELSE 0),
         Chained(q.start, q.portfolio, q.steps),
         AddsUp(q.start, q.portfolio, q.mine)'
  PROVE  Telling(task[u])'
<1>1. AddsUp(task[u].start, task[u].portfolio, task[u].mine)'
  BY DEF AddsUp, Filled
<1>2. Chained(task[u].start, task[u].portfolio, task[u].steps)'
  BY DEF Chained
<1>3. \A r \in Of(task'[u].mine) :
        /\ recs'[r] # None
        /\ fills'[r] # None <=>
             recs'[r].approved /\ ~ (Open(task'[u]) /\ r = Current(task'[u]))
  OBVIOUS
<1>4. /\ \A j, k \in DOMAIN task'[u].mine :
           task'[u].mine[j] = task'[u].mine[k] => j = k
      /\ Len(task'[u].mine) = Len(task'[u].steps) + (IF Open(task'[u]) THEN 1 ELSE 0)
  OBVIOUS
<1> QED BY <1>1, <1>2, <1>3, <1>4 DEF Telling, Open, Current, Of

LEMMA StillTells ==
  ASSUME IInv, NEW u \in Threads, NEW q \in Working, Telling(q), task'[u] = q,
         \A r \in Of(q.mine) : recs'[r] = recs[r] /\ fills'[r] = fills[r]
  PROVE  Telling(task[u])'
<1>1. AddsUp(q.start, q.portfolio, q.mine)'
  BY SumsStay DEF Telling, Working
<1>2. \A r \in Of(q.mine) :
        /\ recs'[r] # None
        /\ fills'[r] # None <=> recs'[r].approved /\ ~ (Open(q) /\ r = Current(q))
  BY DEF Telling
<1>3. /\ Len(q.mine) = Len(q.steps) + (IF Open(q) THEN 1 ELSE 0)
      /\ Chained(q.start, q.portfolio, q.steps)
  BY DEF Telling
<1>4. \A j, k \in DOMAIN q.mine : q.mine[j] = q.mine[k] => j = k
  BY DEF Telling
<1> QED BY <1>1, <1>2, <1>3, <1>4, TellsNow

\* Whatever a step does to the recommendations of one request, or to new ones,
\* what the other requests and the runs tell stays true.
LEMMA OthersTell ==
  ASSUME IInv, TellInv, NEW t \in Threads, NEW X,
         \A x \in X : recs[x] = None \/ (Busy(task[t]) /\ x \in Of(task[t].mine)),
         \A r \in Ids : r \notin X => recs'[r] = recs[r] /\ fills'[r] = fills[r],
         \A u \in Threads : u # t => task'[u] = task[u]
  PROVE  /\ \A u \in Threads : u # t /\ Busy(task[u]) => Telling(task[u])'
         /\ \A i \in DOMAIN runs : runs'[i] = runs[i] => Told(runs[i])'
<1>1. ASSUME NEW u \in Threads, u # t, Busy(task[u]) PROVE Telling(task[u])'
  <2>1. task'[u] = task[u] /\ Telling(task[u])
    BY <1>1 DEF TellInv
  <2>2. PICK q : q = task[u]
    OBVIOUS
  <2>3. q \in Working /\ Telling(q) /\ task'[u] = q
    BY <1>1, <2>1, <2>2, IdleIsApart DEF IInv, TypeOK, Busy
  <2>4. q.mine \in Seq(Ids) /\ Of(q.mine) \subseteq Ids
    BY <2>3 DEF Working, Of
  <2>5. \A r \in Of(q.mine) : recs[r] # None /\ r \notin X
    <3>1. \A r \in Of(q.mine) : Busy(task[t]) => r \notin Of(task[t].mine)
      BY <1>1, <2>2 DEF TellInv, OwnRecs
    <3> QED BY <2>3, <3>1 DEF Telling
  <2>6. \A r \in Of(q.mine) : recs'[r] = recs[r] /\ fills'[r] = fills[r]
    BY <2>4, <2>5
  <2> QED BY <2>3, <2>6, StillTells
<1>2. ASSUME NEW i \in DOMAIN runs, runs'[i] = runs[i] PROVE Told(runs[i])'
  <2>1. PICK run : run = runs[i]
    OBVIOUS
  <2>r. run \in Run
    BY <2>1 DEF IInv, TypeOK
  <2>2. Told(run) /\ run.recs \in Seq(Ids) /\ runs'[i] = run
    BY <1>2, <2>1, <2>r DEF TellInv, Run
  <2>3. Of(run.recs) \subseteq Ids
    BY <2>2 DEF Of
  <2>4. \A r \in Of(run.recs) : r \notin X
    BY <2>1 DEF TellInv, OwnRecs
  <2>5. \A r \in Of(run.recs) : recs'[r] = recs[r] /\ fills'[r] = fills[r]
    BY <2>3, <2>4
  <2>6. Filled(run.recs)' = Filled(run.recs) /\ AddsUp(run.start, run.ending, run.recs)'
    BY <2>2, <2>5, SumsStay DEF Told
  <2>7. Told(run)'
    BY <2>2, <2>6 DEF Told, Chained
  <2> QED
    BY <2>2, <2>7 DEF Told, Chained, AddsUp, Filled
<1> QED BY <1>1, <1>2


LEMMA StartTells ==
  ASSUME IInv, IInv', TellInv, NEW t \in Threads, NEW c \in Contexts, NEW override \in BOOLEAN,
         NEW heat \in StartHeats, NEW events \in 1..MaxEvents,
         Start(t, c, override, heat, events)
  PROVE  TellInv'
<1>p. PICK p : p = [heat |-> heat, notional |-> 0]
  OBVIOUS
<1>q. PICK q : q = [stage |-> "generate", context |-> c, override |-> override,
                    left |-> events, mine |-> <<>>, steps |-> <<>>,
                    start |-> p, portfolio |-> p]
  OBVIOUS
<1>1. p.heat = heat /\ p.notional = 0 /\ heat \in Int
  BY <1>p, ReplayAssumption
<1>2. /\ task' = [task EXCEPT ![t] = q]
      /\ recs' = recs /\ orders' = orders /\ fills' = fills /\ runs' = runs
  BY <1>p, <1>q DEF Start
<1>3. q.stage = "generate" /\ q.start = p /\ q.portfolio = p /\ q.mine = <<>> /\ q.steps = <<>>
  BY <1>q
<1>4. \A u \in Threads : task'[u] = IF u = t THEN q ELSE task[u]
  BY <1>2 DEF IInv, TypeOK
<1>5. Of(q.mine) = {}
  BY <1>3 DEF Of
<1>6. Telling(task[t])'
  <2>1. Filled(q.mine)' = {}
    BY <1>3 DEF Filled
  <2>2. AddsUp(q.start, q.portfolio, q.mine)'
    <3>1. Sum(RiskOf', {}) = 0 /\ Sum(CostOf', {}) = 0
      BY SumOfNone
    <3>2. p.heat + 0 = p.heat /\ p.notional + 0 = p.notional
      BY <1>1
    <3> QED BY <1>3, <2>1, <3>1, <3>2 DEF AddsUp
  <2>3. Telling(q)'
    BY <1>3, <1>5, <2>2 DEF Telling, Open, Chained
  <2> QED BY <1>4, <2>3
<1>7. /\ \A u \in Threads : u # t /\ Busy(task[u]) => Telling(task[u])'
      /\ \A i \in DOMAIN runs : Told(runs[i])'
  <2> DEFINE X == {}
  <2>1. \A u \in Threads : u # t => task'[u] = task[u]
    BY <1>4
  <2>2. \A x \in X : recs[x] = None
    OBVIOUS
  <2>3. \A r \in Ids : r \notin X => recs'[r] = recs[r] /\ fills'[r] = fills[r]
    BY <1>2
  <2>4. \A i \in DOMAIN runs : runs'[i] = runs[i]
    BY <1>2
  <2> HIDE DEF X
  <2> QED BY <2>1, <2>2, <2>3, <2>4, OthersTell
<1>8. OwnRecs'
  BY <1>2, <1>4, <1>5 DEF TellInv, OwnRecs, Busy
<1>9. \A u \in Threads : Busy(task[u])' => Telling(task[u])'
  BY <1>4, <1>6, <1>7 DEF Busy
<1> QED BY <1>2, <1>7, <1>8, <1>9 DEF TellInv

LEMMA GenerateTells ==
  ASSUME IInv, IInv', TellInv, NEW t \in Threads, NEW bullish \in BOOLEAN, NEW r \in Ids,
         Generate(t, bullish, r)
  PROVE  TellInv'
<1>q. PICK q : q = task[t]
  OBVIOUS
<1> DEFINE rec == Recommendation(q.context, bullish, q.portfolio.heat, q.override)
           step == Step(q.portfolio, q.portfolio)
<1>e. PICK new : new = [q EXCEPT !.left = @ - 1, !.mine = Append(@, r),
                            !.stage = IF rec.approved THEN "submit" ELSE "generate",
                            !.steps = IF rec.approved THEN @ ELSE Append(@, step)]
  OBVIOUS
<1>1. /\ q.stage = "generate" /\ q.left > 0 /\ recs[r] = None
      /\ recs' = [recs EXCEPT ![r] = rec]
      /\ task' = [task EXCEPT ![t] = new]
      /\ orders' = orders /\ fills' = fills /\ runs' = runs
  BY <1>q, <1>e DEF Generate
<1>2. q \in Working
  BY <1>1, <1>q, IdleIsApart DEF IInv, TypeOK
<1>3. rec # None /\ rec.approved \in BOOLEAN
  <2>1. RecOK(rec)
    BY <1>2, RecIsSound DEF Working, Portfolio
  <2> QED BY <2>1, ReplayAssumption DEF RecOK, Rec
<1> HIDE DEF rec
<1>4. /\ new.stage = IF rec.approved THEN "submit" ELSE "generate"
      /\ new.mine = Append(q.mine, r)
      /\ new.steps = IF rec.approved THEN q.steps ELSE Append(q.steps, step)
      /\ new.start = q.start /\ new.portfolio = q.portfolio
  BY <1>2, <1>e DEF Working
<1>5. Telling(q) /\ Busy(q) /\ ~ Open(q)
  BY <1>1, <1>q DEF TellInv, Busy, Open
<1>6. /\ Of(new.mine) = Of(q.mine) \cup {r} /\ r \notin Of(q.mine)
      /\ Current(new) = r /\ Len(new.mine) = Len(q.mine) + 1
  <2>1. r \notin Of(q.mine)
    BY <1>1, <1>5 DEF Telling
  <2>2. q.mine \in Seq(Ids)
    BY <1>2 DEF Working
  <2>3. /\ Len(new.mine) = Len(q.mine) + 1 /\ DOMAIN new.mine = DOMAIN q.mine \cup {Len(q.mine) + 1}
        /\ \A k \in DOMAIN new.mine : new.mine[k] = IF k = Len(q.mine) + 1 THEN r ELSE q.mine[k]
        /\ Len(q.mine) + 1 \notin DOMAIN q.mine
    BY <1>4, <2>2
  <2>4. Of(new.mine) = Of(q.mine) \cup {r}
    BY <2>3 DEF Of
  <2> QED BY <2>1, <2>3, <2>4 DEF Current
<1>7. Open(new) <=> rec.approved
  BY <1>3, <1>4 DEF Open
<1>8. \A u \in Threads : task'[u] = IF u = t THEN new ELSE task[u]
  BY <1>1 DEF IInv, TypeOK
<1>9. \A i \in Ids : recs'[i] = IF i = r THEN rec ELSE recs[i]
  BY <1>1 DEF IInv, TypeOK
<1>10. fills[r] = None
  BY <1>1 DEF IInv, RowsOK
<1>11. Of(q.mine) \subseteq Ids
  BY <1>2 DEF Working, Of
<1>12. Telling(task[t])'
  <2>1. \A j, k \in DOMAIN new.mine : new.mine[j] = new.mine[k] => j = k
    <3>1. \A j, k \in DOMAIN q.mine : q.mine[j] = q.mine[k] => j = k
      BY <1>5 DEF Telling
    <3>2. \A j \in DOMAIN q.mine : q.mine[j] # r
      BY <1>6 DEF Of
    <3> QED BY <1>2, <1>4, <3>1, <3>2 DEF Working
  <2>2. \A i \in Of(new.mine) :
          /\ recs'[i] # None
          /\ fills'[i] # None <=> recs'[i].approved /\ ~ (Open(new) /\ i = Current(new))
    <3> TAKE i \in Of(new.mine)
    <3>1. CASE i = r
      BY <1>1, <1>3, <1>6, <1>7, <1>9, <1>10, <3>1
    <3>2. CASE i # r
      <4>1. i \in Of(q.mine) /\ recs'[i] = recs[i]
        BY <1>6, <1>9, <1>11, <3>2
      <4> QED BY <1>1, <1>5, <1>6, <3>2, <4>1 DEF Telling
    <3> QED BY <3>1, <3>2
  <2>3. Len(new.mine) = Len(new.steps) + (IF Open(new) THEN 1 ELSE 0)
    <3>1. Len(q.mine) = Len(q.steps) /\ Len(q.steps) \in Nat
      BY <1>2, <1>5 DEF Telling, Working
    <3>2. step \in StepRow /\ q.steps \in Seq(StepRow)
      BY <1>2 DEF Working, Step, StepRow
    <3>3. Len(new.steps) = IF rec.approved THEN Len(q.steps) ELSE Len(q.steps) + 1
      BY <1>3, <1>4, <3>2
    <3>4. CASE rec.approved
      <4>1. Open(new) /\ Len(new.steps) = Len(q.steps)
        BY <1>7, <3>3, <3>4
      <4> QED BY <1>6, <3>1, <4>1
    <3>5. CASE ~ rec.approved
      <4>1. ~ Open(new) /\ Len(new.steps) = Len(q.steps) + 1
        BY <1>7, <3>3, <3>5
      <4> QED BY <1>6, <3>1, <4>1
    <3> QED BY <1>3, <3>4, <3>5
  <2>4. Chained(new.start, new.portfolio, new.steps)
    <3>1. Chained(q.start, q.portfolio, q.steps)
      BY <1>5 DEF Telling
    <3>2. CASE rec.approved
      BY <1>4, <3>1, <3>2
    <3>3. CASE ~ rec.approved
      <4>1. step.pre = q.portfolio /\ step.post = q.portfolio
        BY DEF Step
      <4>2. step \in StepRow
        BY <1>2 DEF Working, Step, StepRow
      <4>3. q.steps \in Seq(StepRow)
        BY <1>2 DEF Working
      <4>4. Chained(q.start, step.post, Append(q.steps, step))
        BY <3>1, <4>1, <4>2, <4>3, ChainedMore
      <4> QED BY <1>4, <3>3, <4>1, <4>4
    <3> QED BY <1>3, <3>2, <3>3
  <2>5. AddsUp(new.start, new.portfolio, new.mine)'
    <3>1. Filled(new.mine)' = Filled(q.mine)
      BY <1>1, <1>6, <1>10 DEF Filled, Of
    <3>2. \A i \in Of(q.mine) : recs'[i] = recs[i] /\ fills'[i] = fills[i]
      BY <1>1, <1>6, <1>9, <1>11
    <3>3. Filled(q.mine)' = Filled(q.mine) /\ AddsUp(q.start, q.portfolio, q.mine)'
      BY <1>2, <1>5, <3>2, SumsStay DEF Telling, Working
    <3> QED BY <1>4, <3>1, <3>3 DEF AddsUp
  <2> QED BY <1>8, <2>1, <2>2, <2>3, <2>4, <2>5, TellsNow
<1>13. /\ \A u \in Threads : u # t /\ Busy(task[u]) => Telling(task[u])'
       /\ \A i \in DOMAIN runs : Told(runs[i])'
  <2> DEFINE X == {r}
  <2>1. \A u \in Threads : u # t => task'[u] = task[u]
    BY <1>8
  <2>2. \A x \in X : recs[x] = None
    BY <1>1
  <2>3. \A i \in Ids : i \notin X => recs'[i] = recs[i] /\ fills'[i] = fills[i]
    BY <1>1, <1>9
  <2>4. \A i \in DOMAIN runs : runs'[i] = runs[i]
    BY <1>1
  <2> HIDE DEF X
  <2> QED BY <2>1, <2>2, <2>3, <2>4, OthersTell
<1>14. OwnRecs'
  <2>1. \A u \in Threads : Busy(task[u]) => r \notin Of(task[u].mine)
    BY <1>1 DEF TellInv, Telling
  <2>2. \A u \in Threads : Busy(task'[u]) =>
          Busy(task[u]) /\ Of(task'[u].mine) = Of(task[u].mine) \cup (IF u = t THEN {r} ELSE {})
    BY <1>5, <1>6, <1>8, <1>q
  <2>3. \A u, v \in Threads :
          u # v /\ Busy(task'[u]) /\ Busy(task'[v]) =>
            Of(task'[u].mine) \cap Of(task'[v].mine) = {}
    BY <2>1, <2>2 DEF TellInv, OwnRecs
  <2>4. \A i \in DOMAIN runs : \A x \in Of(runs[i].recs) :
          /\ x \in Ids /\ recs[x] # None
          /\ \A u \in Threads : Busy(task[u]) => x \notin Of(task[u].mine)
    <3>1. \A i \in DOMAIN runs : runs[i].recs \in Seq(Ids)
      <4> TAKE i \in DOMAIN runs
      <4>1. runs[i] \in Run
        BY DEF IInv, TypeOK
      <4> QED BY <4>1 DEF Run
    <3>2. \A i \in DOMAIN runs : Of(runs[i].recs) \subseteq Ids
      BY <3>1 DEF Of
    <3> QED BY <3>2 DEF TellInv, OwnRecs
  <2>5. \A i \in DOMAIN runs : \A x \in Of(runs[i].recs) :
          /\ recs'[x] # None
          /\ \A u \in Threads : Busy(task'[u]) => x \notin Of(task'[u].mine)
    BY <1>1, <1>9, <2>2, <2>4
  <2>6. \A i \in DOMAIN runs' : \A x \in Of(runs'[i].recs) :
          /\ recs'[x] # None
          /\ \A u \in Threads : Busy(task'[u]) => x \notin Of(task'[u].mine)
    BY <1>1, <2>5
  <2> QED BY <2>3, <2>6 DEF OwnRecs, Busy, Of
<1>15. \A u \in Threads : Busy(task[u])' => Telling(task[u])'
  BY <1>8, <1>12, <1>13 DEF Busy
<1> QED BY <1>1, <1>13, <1>14, <1>15 DEF TellInv

\* The requests that are served own what they recommended, as long as none of
\* them recommends anything new.
LEMMA StillOwn ==
  ASSUME TellInv, runs' = runs, recs' = recs,
         \A u \in Threads : Busy(task'[u]) => Busy(task[u]) /\ task'[u].mine = task[u].mine
  PROVE  OwnRecs'
<1>1. \A u \in Threads : Busy(task'[u]) =>
        Busy(task[u]) /\ Of(task'[u].mine) = Of(task[u].mine)
  OBVIOUS
<1>2. \A u, v \in Threads :
        u # v /\ Busy(task'[u]) /\ Busy(task'[v]) =>
          Of(task'[u].mine) \cap Of(task'[v].mine) = {}
  BY <1>1 DEF TellInv, OwnRecs
<1>3. \A i \in DOMAIN runs' : \A x \in Of(runs'[i].recs) :
        /\ recs'[x] # None
        /\ \A u \in Threads : Busy(task'[u]) => x \notin Of(task'[u].mine)
  BY <1>1 DEF TellInv, OwnRecs
<1> QED BY <1>2, <1>3 DEF OwnRecs, Busy, Of

LEMMA SubmitTells ==
  ASSUME IInv, IInv', TellInv, NEW t \in Threads, Submit(t)
  PROVE  TellInv'
<1>q. PICK q : q = task[t]
  OBVIOUS
<1>e. PICK new : new = [q EXCEPT !.stage = "fill"]
  OBVIOUS
<1>1. /\ q.stage = "submit" /\ task' = [task EXCEPT ![t] = new]
      /\ recs' = recs /\ fills' = fills /\ runs' = runs
  BY <1>q, <1>e DEF Submit
<1>2. q \in Working
  BY <1>1, <1>q, IdleIsApart DEF IInv, TypeOK
<1>3. Telling(q) /\ Busy(q) /\ Open(q)
  BY <1>1, <1>q DEF TellInv, Busy, Open
<1>4. /\ new.stage = "fill" /\ new.mine = q.mine /\ new.steps = q.steps
      /\ new.start = q.start /\ new.portfolio = q.portfolio
  BY <1>2, <1>e DEF Working
<1>5. Open(new) /\ Current(new) = Current(q)
  BY <1>4 DEF Open, Current
<1>6. \A u \in Threads : task'[u] = IF u = t THEN new ELSE task[u]
  BY <1>1 DEF IInv, TypeOK
<1>7. Telling(task[t])'
  <2>1. AddsUp(q.start, q.portfolio, q.mine)'
    BY <1>1, <1>2, <1>3, SumsStay DEF Telling, Working
  <2>2. AddsUp(new.start, new.portfolio, new.mine)'
    BY <1>4, <2>1 DEF AddsUp, Filled
  <2>3. \A r \in Of(new.mine) :
          /\ recs'[r] # None
          /\ fills'[r] # None <=> recs'[r].approved /\ ~ (Open(new) /\ r = Current(new))
    BY <1>1, <1>3, <1>4, <1>5 DEF Telling
  <2>4. /\ Len(new.mine) = Len(new.steps) + (IF Open(new) THEN 1 ELSE 0)
        /\ Chained(new.start, new.portfolio, new.steps)
    BY <1>3, <1>4, <1>5 DEF Telling
  <2>5. \A j, k \in DOMAIN new.mine : new.mine[j] = new.mine[k] => j = k
    BY <1>3, <1>4 DEF Telling
  <2> QED BY <1>6, <2>2, <2>3, <2>4, <2>5, TellsNow
<1>8. /\ \A u \in Threads : u # t /\ Busy(task[u]) => Telling(task[u])'
      /\ \A i \in DOMAIN runs : Told(runs[i])'
  <2> DEFINE X == {}
  <2>1. \A u \in Threads : u # t => task'[u] = task[u]
    BY <1>6
  <2>2. \A x \in X : recs[x] = None
    OBVIOUS
  <2>3. \A r \in Ids : r \notin X => recs'[r] = recs[r] /\ fills'[r] = fills[r]
    BY <1>1
  <2>4. \A i \in DOMAIN runs : runs'[i] = runs[i]
    BY <1>1
  <2> HIDE DEF X
  <2> QED BY <2>1, <2>2, <2>3, <2>4, OthersTell
<1>9. OwnRecs'
  BY <1>1, <1>3, <1>4, <1>6, <1>q, StillOwn
<1>10. \A u \in Threads : Busy(task[u])' => Telling(task[u])'
  BY <1>6, <1>7, <1>8 DEF Busy
<1> QED BY <1>1, <1>8, <1>9, <1>10 DEF TellInv

LEMMA FillTells ==
  ASSUME IInv, IInv', TellInv, NEW t \in Threads, Fill(t)
  PROVE  TellInv'
<1>q. PICK q : q = task[t]
  OBVIOUS
<1>r. PICK r : r = Current(q)
  OBVIOUS
<1> DEFINE n     == FillSize(r)
           risk  == recs[r].shares * Distance(recs[r].entry, recs[r].stop)
           cost  == n * recs[r].entry
           after == ApplyFill(q.portfolio, risk, cost)
<1>a. PICK ending : ending = after
  OBVIOUS
<1>e. PICK new : new = [q EXCEPT !.stage = "generate", !.portfolio = ending,
                              !.steps = Append(@, Step(q.portfolio, ending))]
  OBVIOUS
<1>1. q.stage = "fill" /\ recs' = recs /\ runs' = runs
  BY <1>q DEF Fill
<1>2. /\ q \in Working
      /\ r \in Ids /\ recs[r] # None /\ RecOK(recs[r]) /\ recs[r] \in Rec
      /\ fills[r] = None
      /\ n = recs[r].shares
  BY <1>1, <1>q, <1>r, FillFinds
<1>3. Telling(q) /\ Busy(q) /\ Open(q) /\ r \in Of(q.mine)
  <2>1. Telling(q) /\ Busy(q) /\ Open(q)
    BY <1>1, <1>q DEF TellInv, Busy, Open
  <2>2. Len(q.mine) > 0
    BY <1>q, <2>1 DEF IInv, RequestOK
  <2> QED BY <1>2, <1>r, <2>1, <2>2 DEF Current, Of, Working
<1>4. /\ \A u \in Threads : u # t => task'[u] = task[u]
      /\ \A i \in Ids : i # r => fills'[i] = fills[i]
      /\ \A u \in Threads : Busy(task'[u]) => Busy(task[u]) /\ task'[u].mine = task[u].mine
  <2>1. /\ task \in [Threads -> Task] /\ fills \in [Ids -> FillRow \cup {None}]
        /\ new.mine = q.mine
    BY <1>2, <1>e DEF IInv, TypeOK, Working
  <2> QED BY <1>2, <1>3, <1>a, <1>e, <1>q, <1>r, <2>1, IdleIsApart DEF Fill, Busy
<1>5. /\ \A u \in Threads : u # t /\ Busy(task[u]) => Telling(task[u])'
      /\ \A i \in DOMAIN runs : Told(runs[i])'
  <2> DEFINE X == {r}
  <2>1. \A x \in X : Busy(task[t]) /\ x \in Of(task[t].mine)
    BY <1>3, <1>q
  <2>2. \A i \in Ids : i \notin X => recs'[i] = recs[i] /\ fills'[i] = fills[i]
    BY <1>1, <1>4
  <2>3. \A i \in DOMAIN runs : runs'[i] = runs[i]
    BY <1>1
  <2> HIDE DEF X
  <2> QED BY <1>4, <2>1, <2>2, <2>3, OthersTell
<1>6. OwnRecs'
  BY <1>1, <1>4, StillOwn
<1>7. CASE /\ fills' = [fills EXCEPT ![r] = [shares |-> n, price |-> recs[r].entry]]
           /\ task' = [task EXCEPT ![t] = new]
  <2>1. /\ new.stage = "generate" /\ new.mine = q.mine /\ new.start = q.start
        /\ new.portfolio = ending /\ new.steps = Append(q.steps, Step(q.portfolio, ending))
    BY <1>2, <1>e DEF Working
  <2>2. ~ Open(new)
    BY <2>1 DEF Open
  <2>3. task'[t] = new
    BY <1>7 DEF IInv, TypeOK
  <2>4. fills'[r] = [shares |-> n, price |-> recs[r].entry] /\ fills'[r] # None
    <3>1. [shares |-> n, price |-> recs[r].entry] \in FillRow
      BY <1>2 DEF FillRow, Rec
    <3>2. fills'[r] = [shares |-> n, price |-> recs[r].entry]
      BY <1>2, <1>7 DEF IInv, TypeOK
    <3> QED BY <3>1, <3>2, ReplayAssumption
  <2>5. ending \in Portfolio /\ ending.heat = q.portfolio.heat + risk
        /\ ending.notional = q.portfolio.notional + cost
    <3>1. new \in Working
      BY <2>1, <2>3, IdleIsApart DEF IInv, TypeOK
    <3> QED BY <1>a, <2>1, <3>1 DEF ApplyFill, Working
  <2>6. \A j, k \in DOMAIN new.mine : new.mine[j] = new.mine[k] => j = k
    BY <1>3, <2>1 DEF Telling
  <2>7. \A i \in Of(new.mine) :
          /\ recs'[i] # None
          /\ fills'[i] # None <=> recs'[i].approved /\ ~ (Open(new) /\ i = Current(new))
    <3> TAKE i \in Of(new.mine)
    <3>1. CASE i = r
      <4>1. recs[r].approved
        BY <1>3, <1>q, <1>r DEF IInv, RequestOK
      <4> QED BY <1>1, <1>2, <2>2, <2>4, <3>1, <4>1
    <3>2. CASE i # r
      <4>1. i \in Of(q.mine) /\ i \in Ids
        BY <1>2, <2>1 DEF Of, Working
      <4>2. recs[i] # None /\ (fills[i] # None <=> recs[i].approved)
        BY <1>3, <1>r, <3>2, <4>1 DEF Telling
      <4> QED BY <1>1, <1>4, <2>2, <3>2, <4>1, <4>2
    <3> QED BY <3>1, <3>2
  <2>8. Len(new.mine) = Len(new.steps) + (IF Open(new) THEN 1 ELSE 0)
    <3>1. Len(q.mine) = Len(q.steps) + 1 /\ q.steps \in Seq(StepRow)
      BY <1>2, <1>3 DEF Telling, Working
    <3>2. Step(q.portfolio, ending) \in StepRow
      BY <1>2, <2>5 DEF Step, StepRow, Working
    <3>3. Len(new.steps) = Len(q.steps) + 1 /\ Len(q.steps) \in Nat
      BY <2>1, <3>1, <3>2
    <3> QED BY <2>1, <2>2, <3>1, <3>3
  <2>9. Chained(new.start, new.portfolio, new.steps)
    <3>1. Chained(q.start, q.portfolio, q.steps) /\ q.steps \in Seq(StepRow)
      BY <1>2, <1>3 DEF Telling, Working
    <3> DEFINE step == Step(q.portfolio, ending)
    <3>2. step \in StepRow /\ step.pre = q.portfolio /\ step.post = ending
      BY <1>2, <2>5 DEF Step, StepRow, Working
    <3> HIDE DEF step
    <3>3. Chained(q.start, step.post, Append(q.steps, step))
      BY <3>1, <3>2, ChainedMore
    <3> QED BY <2>1, <3>2, <3>3 DEF step
  <2>10. AddsUp(new.start, new.portfolio, new.mine)'
    <3>1. PICK S : S = Filled(q.mine)
      OBVIOUS
    <3>2. /\ IsFiniteSet(S) /\ S \subseteq Ids /\ r \notin S
          /\ \A i \in S : RiskOf[i] \in Int /\ CostOf[i] \in Int
      BY <1>2, <3>1, FilledIsFinite DEF Working
    <3>3. Filled(new.mine)' = S \cup {r}
      BY <1>2, <1>3, <1>4, <2>1, <2>4, <3>1 DEF Filled, Of, Working
    <3>4. \A i \in S : RiskOf'[i] = RiskOf[i] /\ CostOf'[i] = CostOf[i]
      BY <1>1, <1>4, <3>2 DEF RiskOf, CostOf
    <3>5. Sum(RiskOf', S) = Sum(RiskOf, S) /\ Sum(CostOf', S) = Sum(CostOf, S)
      BY <3>2, <3>4, SumOfSame
    <3>6. RiskOf'[r] = risk /\ CostOf'[r] = cost /\ risk \in Int /\ cost \in Int
      BY <1>1, <1>2, <2>4 DEF RiskOf, CostOf, RecOK, Rec
    <3> HIDE DEF risk, cost
    <3>7. /\ Sum(RiskOf', S) \in Int /\ Sum(RiskOf', S \cup {r}) = Sum(RiskOf', S) + risk
          /\ Sum(CostOf', S) \in Int /\ Sum(CostOf', S \cup {r}) = Sum(CostOf', S) + cost
      <4>1. \A i \in S : RiskOf'[i] \in Int /\ CostOf'[i] \in Int
        BY <3>2, <3>4
      <4>2. RiskOf'[r] \in Int /\ CostOf'[r] \in Int
        BY <3>6
      <4>3. Sum(RiskOf', S) \in Int /\ Sum(RiskOf', S \cup {r}) = Sum(RiskOf', S) + RiskOf'[r]
        BY <3>2, <4>1, <4>2, SumOfMore
      <4>4. Sum(CostOf', S) \in Int /\ Sum(CostOf', S \cup {r}) = Sum(CostOf', S) + CostOf'[r]
        BY <3>2, <4>1, <4>2, SumOfMore
      <4> QED BY <3>6, <4>3, <4>4
    <3>8. /\ q.portfolio.heat = q.start.heat + Sum(RiskOf, S)
          /\ q.portfolio.notional = q.start.notional + Sum(CostOf, S)
      BY <1>3, <3>1 DEF Telling, AddsUp
    <3>9. /\ q.start.heat \in Int /\ q.start.notional \in Int
      BY <1>2 DEF Working, Portfolio
    <3>10. /\ ending.heat = q.start.heat + Sum(RiskOf', S \cup {r})
           /\ ending.notional = q.start.notional + Sum(CostOf', S \cup {r})
      BY <2>5, <3>5, <3>6, <3>7, <3>8, <3>9
    <3> QED BY <2>1, <3>3, <3>10 DEF AddsUp
  <2>11. Telling(task[t])'
    BY <2>3, <2>6, <2>7, <2>8, <2>9, <2>10, TellsNow
  <2>12. \A u \in Threads : Busy(task[u])' => Telling(task[u])'
    BY <1>4, <1>5, <2>11 DEF Busy
  <2> QED BY <1>1, <1>5, <1>6, <2>12 DEF TellInv
<1>8. CASE task' = [task EXCEPT ![t] = Idle]
  <2>1. task'[t] = Idle
    BY <1>8 DEF IInv, TypeOK
  <2>2. \A u \in Threads : Busy(task[u])' => Telling(task[u])'
    BY <1>4, <1>5, <2>1, IdleIsApart DEF Busy
  <2> QED BY <1>1, <1>5, <1>6, <2>2 DEF TellInv
<1> QED BY <1>7, <1>8, <1>a, <1>e, <1>q, <1>r DEF Fill

LEMMA RecordTells ==
  ASSUME IInv, IInv', TellInv, NEW t \in Threads, Record(t)
  PROVE  TellInv'
<1>q. PICK q : q = task[t]
  OBVIOUS
<1>g. PICK good : good = {k \in DOMAIN q.mine : recs[q.mine[k]].approved}
  OBVIOUS
<1>r. PICK run : run = [override |-> q.override, start |-> q.start, ending |-> q.portfolio,
                        recs |-> q.mine, steps |-> q.steps, approved |-> Cardinality(good)]
  OBVIOUS
<1>1. /\ q.stage = "generate" /\ runs' = Append(runs, run)
      /\ task' = [task EXCEPT ![t] = Idle]
      /\ recs' = recs /\ fills' = fills
  BY <1>q, <1>g, <1>r DEF Record
<1>2. q \in Working /\ q.mine \in Seq(Ids)
  BY <1>1, <1>q, IdleIsApart DEF IInv, TypeOK, Working
<1>3. Telling(q) /\ Busy(q) /\ ~ Open(q)
  BY <1>1, <1>q DEF TellInv, Busy, Open
<1>4. \A u \in Threads : task'[u] = IF u = t THEN Idle ELSE task[u]
  BY <1>1 DEF IInv, TypeOK
<1>5. /\ run.start = q.start /\ run.ending = q.portfolio /\ run.recs = q.mine
      /\ run.steps = q.steps /\ run.approved = Cardinality(good)
  BY <1>r
<1>f. IsFiniteSet(good) /\ Cardinality(good) \in Nat
  <2>1. DOMAIN q.mine = 1..Len(q.mine) /\ Len(q.mine) \in Nat
    BY <1>2
  <2>2. IsFiniteSet(1..Len(q.mine))
    BY <2>1, FS_Interval
  <2>3. IsFiniteSet(good)
    BY <1>g, <2>1, <2>2, FS_Subset
  <2> QED BY <2>3, FS_CardinalityType
<1>6. /\ \A i \in DOMAIN runs : i \in DOMAIN runs' /\ runs'[i] = runs[i]
      /\ \A i \in DOMAIN runs' : i \in DOMAIN runs \/ runs'[i] = run
  <2>1. run \in Run
    BY <1>2, <1>f, <1>r DEF Run, Working
  <2> QED BY <1>1, <2>1 DEF IInv, TypeOK
<1>7. /\ \A u \in Threads : u # t /\ Busy(task[u]) => Telling(task[u])'
      /\ \A i \in DOMAIN runs : Told(runs[i])'
  <2> DEFINE X == {}
  <2>1. \A u \in Threads : u # t => task'[u] = task[u]
    BY <1>4
  <2>2. \A x \in X : recs[x] = None
    OBVIOUS
  <2>3. \A i \in Ids : i \notin X => recs'[i] = recs[i] /\ fills'[i] = fills[i]
    BY <1>1
  <2>4. \A i \in DOMAIN runs : runs'[i] = runs[i]
    BY <1>6
  <2> HIDE DEF X
  <2> QED BY <2>1, <2>2, <2>3, <2>4, OthersTell
<1>8. Cardinality(good) = Cardinality(Filled(q.mine))
  <2> DEFINE S == Filled(q.mine)
             f == [k \in good |-> q.mine[k]]
  <2>1. \A k \in DOMAIN q.mine : q.mine[k] \in S <=> k \in good
    BY <1>2, <1>3, <1>g DEF Telling, Of, Filled
  <2>2. \A x \in S : \E k \in DOMAIN q.mine : x = q.mine[k]
    BY DEF Filled
  <2>3. \A j, k \in DOMAIN q.mine : q.mine[j] = q.mine[k] => j = k
    BY <1>3 DEF Telling
  <2>4. good \subseteq DOMAIN q.mine
    BY <1>g
  <2> HIDE DEF S
  <2>5. f \in Bijection(good, S)
    BY <2>1, <2>2, <2>3, <2>4 DEF Bijection, Injection, Surjection, IsInjective
  <2> QED BY <1>f, <2>5, FS_Bijection DEF ExistsBijection, S
<1>9. Told(run)'
  <2>1. Filled(run.recs)' = Filled(q.mine) /\ AddsUp(run.start, run.ending, run.recs)'
    <3>1. Filled(q.mine)' = Filled(q.mine) /\ AddsUp(q.start, q.portfolio, q.mine)'
      BY <1>1, <1>2, <1>3, SumsStay DEF Telling
    <3> QED BY <1>5, <3>1 DEF AddsUp, Filled
  <2>2. DOMAIN run.steps = DOMAIN run.recs
    <3>1. Len(q.mine) = Len(q.steps) /\ q.steps \in Seq(StepRow)
      BY <1>2, <1>3 DEF Telling, Working
    <3> QED BY <1>2, <1>5, <3>1
  <2>3. Chained(run.start, run.ending, run.steps)
    BY <1>3, <1>5 DEF Telling
  <2> QED BY <1>5, <1>8, <2>1, <2>2, <2>3 DEF Told
<1>10. \A i \in DOMAIN runs' : Told(runs[i])'
  <2> TAKE i \in DOMAIN runs'
  <2>1. CASE runs'[i] = run
    BY <1>9, <2>1 DEF Told, AddsUp, Filled, Chained
  <2>2. CASE i \in DOMAIN runs
    BY <1>6, <1>7, <2>2
  <2> QED BY <1>6, <2>1, <2>2
<1>11. OwnRecs'
  <2>1. \A u \in Threads : Busy(task'[u]) => u # t /\ task'[u] = task[u]
    BY <1>4, IdleIsApart DEF Busy
  <2>2. \A u, v \in Threads :
          u # v /\ Busy(task'[u]) /\ Busy(task'[v]) =>
            Of(task'[u].mine) \cap Of(task'[v].mine) = {}
    BY <2>1 DEF TellInv, OwnRecs
  <2>3. \A i \in DOMAIN runs' : \A x \in Of(runs'[i].recs) :
          /\ recs'[x] # None
          /\ \A u \in Threads : Busy(task'[u]) => x \notin Of(task'[u].mine)
    <3> TAKE i \in DOMAIN runs'
    <3>1. CASE runs'[i] = run
      <4>1. runs'[i].recs = q.mine
        BY <1>5, <3>1
      <4>2. \A x \in Of(q.mine) : recs'[x] # None
        BY <1>1, <1>3 DEF Telling
      <4>3. \A u \in Threads : Busy(task'[u]) => Of(q.mine) \cap Of(task'[u].mine) = {}
        BY <1>3, <1>q, <2>1 DEF TellInv, OwnRecs
      <4> QED BY <4>1, <4>2, <4>3
    <3>2. CASE i \in DOMAIN runs
      <4>1. runs'[i] = runs[i]
        BY <1>6, <3>2
      <4> QED BY <1>1, <2>1, <3>2, <4>1 DEF TellInv, OwnRecs
    <3> QED BY <1>6, <3>1, <3>2
  <2> QED BY <2>2, <2>3 DEF OwnRecs, Busy, Of
<1>12. \A u \in Threads : Busy(task[u])' => Telling(task[u])'
  BY <1>4, <1>7, IdleIsApart DEF Busy
<1> QED BY <1>10, <1>11, <1>12 DEF TellInv

LEMMA TellStep == IInv /\ IInv' /\ TellInv /\ [Next]_vars => TellInv'
<1> SUFFICES ASSUME IInv, IInv', TellInv, [Next]_vars PROVE TellInv'
  OBVIOUS
<1>1. CASE UNCHANGED vars
  <2>1. UNCHANGED <<task, recs, fills, runs>>
    BY <1>1 DEF vars
  <2>2. \A u \in Threads : Busy(task[u])' => Telling(task[u])'
    <3> SUFFICES ASSUME NEW u \in Threads, Busy(task[u]) PROVE Telling(task[u])'
      BY <2>1 DEF Busy
    <3>1. PICK q : q = task[u]
      OBVIOUS
    <3>2. q \in Working /\ Telling(q) /\ task'[u] = q
      BY <2>1, <3>1, IdleIsApart DEF IInv, TypeOK, TellInv, Busy
    <3>3. \A r \in Of(q.mine) : recs'[r] = recs[r] /\ fills'[r] = fills[r]
      BY <2>1
    <3> QED BY <3>2, <3>3, StillTells
  <2>3. \A i \in DOMAIN runs' : Told(runs[i])'
    <3> TAKE i \in DOMAIN runs'
    <3>1. PICK run : run = runs[i]
      OBVIOUS
    <3>2. Told(run) /\ runs'[i] = run
      BY <2>1, <3>1 DEF TellInv
    <3>3. RiskOf' = RiskOf /\ CostOf' = CostOf
      BY <2>1 DEF RiskOf, CostOf
    <3>4. Filled(run.recs)' = Filled(run.recs)
      BY <2>1 DEF Filled
    <3>5. Told(run)'
      BY <3>2, <3>3, <3>4 DEF Told, AddsUp
    <3> QED BY <3>2, <3>5 DEF Told, AddsUp, Filled, Chained
  <2>4. OwnRecs'
    BY <2>1, StillOwn
  <2> QED BY <2>2, <2>3, <2>4 DEF TellInv
<1>2. CASE Next
  BY <1>2, StartTells, GenerateTells, SubmitTells, FillTells, RecordTells DEF Next
<1> QED BY <1>1, <1>2

LEMMA TellInit == Init => TellInv
BY DEF Init, TellInv, OwnRecs, Busy, Idle

LEMMA RunsTell == Spec => []TellInv
<1>1. Init => TellInv
  BY TellInit
<1> QED BY <1>1, TellStep, Invariant, PTL DEF Spec

(***************************************************************************)
(* Theorems                                                                *)
(***************************************************************************)

\* Every request, recommendation, order, fill and run of a replay is well
\* formed, and no portfolio has a negative heat.
THEOREM ReplayTypes == Spec => []TypeOK
<1>1. IInv => TypeOK
  BY DEF IInv
<1> QED BY <1>1, Invariant, PTL

\* Whatever the bars: what is filled risks no more than the risk of a trade,
\* costs no more than the cap on a position and has its stop on the side where
\* it loses; and a replay that overrides nothing and begins within the limit on
\* heat ends within it (SetupEngine, RiskEngine, ReplayEngine.run).
THEOREM ReplayWithinLimits == Spec => []WithinLimits
<1>1. IInv => WithinLimits
  <2> SUFFICES ASSUME IInv, NEW r \in Ids, fills[r] # None
               PROVE  /\ fills[r].shares * Distance(recs[r].entry, recs[r].stop) <= RiskDollars
                      /\ fills[r].shares * fills[r].price <= PositionCap
                      /\ IF recs[r].long THEN recs[r].stop < recs[r].entry
                         ELSE recs[r].stop > recs[r].entry
    BY DEF WithinLimits, OrderWithinBudget, IInv
  <2>1. orders[r] # None /\ orders[r] \in Order
    <3>1. orders[r] # None
      BY DEF IInv, RowsOK
    <3> QED BY <3>1 DEF IInv, TypeOK
  <2>2. orders[r].status = "filled"
    <3>1. orders[r].status \in {"submitted", "filled"}
      BY <2>1 DEF Order
    <3> QED BY <2>1, <3>1 DEF IInv, RowsOK
  <2>3. fills[r].shares = recs[r].shares /\ fills[r].price = recs[r].entry
    <3>1. /\ orders[r].shares = recs[r].shares
          /\ fills[r] = [shares |-> orders[r].shares, price |-> recs[r].entry]
      BY <2>1, <2>2 DEF IInv, RowsOK
    <3> QED BY <3>1
  <2>4. RecOK(recs[r])
    BY <2>1 DEF IInv, RowsOK
  <2> QED BY <2>3, <2>4 DEF RecOK
<1> QED BY <1>1, Invariant, PTL

\* The order management that a replay drives is the abstract one: what a
\* request submits and fills are steps of it, every other step leaves it alone,
\* and no order is filled twice or after it is final (PaperBroker, OMS).
THEOREM ReplayFollowsOMS == Spec => OrdersFollowOMS
<1>1. Init => Broker!Init
  <2> SUFFICES ASSUME Init PROVE Broker!Init
    OBVIOUS
  <2>1. Booked = [r \in Ids |-> 0]
    BY DEF Init, Booked
  <2> QED BY <2>1 DEF Init, Broker!Init
<1>2. IInv /\ [Next]_vars => [Broker!Next]_(Broker!vars)
  <2> SUFFICES ASSUME IInv, [Next]_vars PROVE [Broker!Next]_(Broker!vars)
    OBVIOUS
  <2>1. ASSUME UNCHANGED <<orders, fills>> PROVE UNCHANGED Broker!vars
    BY <2>1 DEF Broker!vars, Booked
  <2>2. ASSUME NEW t \in Threads, Submit(t) PROVE Broker!Next
    <3> DEFINE q == task[t]
               r == Current(q)
    <3>1. /\ q.stage = "submit" /\ recs' = recs /\ fills' = fills
          /\ orders' = [orders EXCEPT ![r] =
               [status |-> "submitted", shares |-> recs[r].shares, filled |-> 0]]
      BY <2>2 DEF Submit
    <3>2. r \in Ids /\ recs[r] # None /\ orders[r] = None
      BY <3>1, IdleIsApart, CurrentIsId DEF IInv, TypeOK, RequestOK, Open
    <3>3. recs[r].shares \in 0..RiskDollars
      BY <3>2 DEF IInv, RowsOK, RecOK
    <3>4. Booked' = Booked
      BY <3>1 DEF Booked
    <3> QED BY <3>1, <3>2, <3>3, <3>4 DEF Broker!Next, Broker!Submit
  <2>3. ASSUME NEW t \in Threads, Fill(t) PROVE Broker!Next \/ UNCHANGED Broker!vars
    <3> DEFINE q == task[t]
               r == Current(q)
               n == FillSize(r)
    <3>1. q.stage = "fill"
      BY <2>3 DEF Fill
    <3>2. /\ r \in Ids /\ recs[r] \in Rec
          /\ orders[r] # None /\ orders[r] \in Order
          /\ orders[r].status = "submitted" /\ orders[r].filled = 0
          /\ orders[r].shares = n
          /\ fills[r] = None
      BY <3>1, FillFinds
    <3>3. CASE /\ n > 0
               /\ orders' = [orders EXCEPT ![r].status = "filled", ![r].filled = n]
               /\ fills' = [fills EXCEPT ![r] = [shares |-> n, price |-> recs[r].entry]]
      <4> DEFINE fill == [shares |-> n, price |-> recs[r].entry]
      <4>1. fill # None /\ fill.shares = n
        BY <3>2, ReplayAssumption DEF FillRow, Order, Rec
      <4> HIDE DEF fill
      <4>2. \A i \in Ids : fills'[i] = IF i = r THEN fill ELSE fills[i]
        BY <3>2, <3>3 DEF IInv, TypeOK, fill
      <4>3. Booked[r] = 0 /\ n \in Int
        BY <3>2 DEF Booked, Order
      <4>4. Booked' = [Booked EXCEPT ![r] = @ + (orders[r].shares - orders[r].filled)]
        <5>1. Booked[r] + (orders[r].shares - orders[r].filled) = n
          BY <3>2, <4>3
        <5>2. \A i \in Ids : Booked'[i] = IF i = r THEN n ELSE Booked[i]
          BY <4>1, <4>2 DEF Booked
        <5>3. Booked = [i \in Ids |-> Booked[i]] /\ Booked' = [i \in Ids |-> Booked'[i]]
          BY DEF Booked
        <5> HIDE DEF n
        <5> QED BY <3>2, <5>1, <5>2, <5>3
      <4>5. Broker!FinalFill(r)
        BY <3>2, <3>3, <4>4 DEF Broker!FinalFill, Broker!Fillable
      <4> QED BY <3>2, <4>5 DEF Broker!Next
    <3>4. CASE UNCHANGED <<orders, fills>>
      BY <2>1, <3>4
    <3> QED BY <2>3, <3>3, <3>4 DEF Fill
  <2>4. CASE \E t \in Threads : Submit(t) \/ Fill(t)
    BY <2>2, <2>3, <2>4
  <2>5. CASE UNCHANGED <<orders, fills>>
    BY <2>1, <2>5
  <2> QED
    BY <2>4, <2>5 DEF Next, Start, Generate, Record, vars
<1> QED
  BY <1>1, <1>2, Invariant, PTL DEF Spec, OrdersFollowOMS, Broker!Spec

\* The fill record of an order has as many shares as the order says are filled:
\* all of them once it is filled, none before.
THEOREM ReplayFillsAddUp == Spec => []Broker!FillsAddUp
<1>1. IInv => Broker!FillsAddUp
  <2> SUFFICES ASSUME IInv, NEW r \in Ids
               PROVE  IF orders[r] = None THEN Booked[r] = 0
                      ELSE /\ Booked[r] = orders[r].filled
                           /\ orders[r].status = "filled" =>
                                orders[r].filled = orders[r].shares
                           /\ orders[r].status = "submitted" => orders[r].filled = 0
                           /\ orders[r].status = "partially_filled" =>
                                orders[r].filled \in 1..(orders[r].shares - 1)
    BY DEF Broker!FillsAddUp
  <2>1. CASE orders[r] = None
    BY <2>1 DEF IInv, RowsOK, Booked
  <2>2. CASE orders[r] # None
    <3>1. orders[r] \in Order /\ orders[r].status \in {"submitted", "filled"}
      BY <2>2 DEF IInv, TypeOK, Order
    <3>2. CASE orders[r].status = "submitted"
      <4>1. orders[r].filled = 0 /\ fills[r] = None
        BY <2>2, <3>2 DEF IInv, RowsOK
      <4> QED BY <2>2, <3>2, <4>1 DEF Booked
    <3>3. CASE orders[r].status = "filled"
      <4>1. /\ orders[r].filled = orders[r].shares
            /\ fills[r] = [shares |-> orders[r].shares, price |-> recs[r].entry]
        BY <2>2, <3>3 DEF IInv, RowsOK
      <4>2. fills[r] # None
        <5>1. recs[r] # None
          BY <2>2 DEF IInv, RowsOK
        <5>2. recs[r] \in Rec
          BY <5>1 DEF IInv, RowsOK, RecOK
        <5>3. [shares |-> orders[r].shares, price |-> recs[r].entry] \in FillRow
          BY <3>1, <5>2 DEF FillRow, Order, Rec
        <5> QED BY <4>1, <5>3, ReplayAssumption
      <4>3. Booked[r] = fills[r].shares /\ fills[r].shares = orders[r].shares
        BY <4>1, <4>2 DEF Booked
      <4> QED BY <2>2, <3>3, <4>1, <4>3
    <3> QED BY <3>1, <3>2, <3>3
  <2> QED BY <2>1, <2>2
<1> QED BY <1>1, Invariant, PTL

\* A run that is recorded says what was filled for it, whatever other requests
\* did meanwhile: as many approvals as fills, the first portfolio and the sum
\* of the risks and prices of the fills in the last, and a step for each event
\* that begins where the one before it ended (ReplayEngine.run, create_run).
THEOREM ReplayRunsTellFills == Spec => []RunTellsFills
<1>1. TellInv => RunTellsFills
  BY DEF TellInv, Told, RunTellsFills
<1> QED BY <1>1, RunsTell, PTL

\* A quotient is the whole part of a division.
LEMMA DivisionBounds ==
  ASSUME NEW d \in Nat \ {0}, NEW n \in Nat
  PROVE  n \div d \in Nat /\ d * (n \div d) <= n /\ n < d * ((n \div d) + 1)
  BY Z3

(***************************************************************************)
(* Momentum in the recommendation queue                                    *)
(***************************************************************************)

\* A score rounded to four places moves no further than the score, in steps of
\* the rounding.
LEMMA RoundingKeepsDistance ==
  ASSUME NEW x \in Nat, NEW y \in Nat
  PROVE  /\ ToTenthMilli(x) \in Nat
         /\ y <= x + 70000 => ToTenthMilli(y) <= ToTenthMilli(x) + 70000
         /\ y <= x + 42000 => ToTenthMilli(y) <= ToTenthMilli(x) + 42000
         /\ y <= x => ToTenthMilli(y) <= ToTenthMilli(x)
<1> DEFINE p == (x + 50) \div 100
           q == (y + 50) \div 100
<1>1. /\ p \in Nat /\ 100 * p <= x + 50 /\ x + 50 < 100 * (p + 1)
      /\ q \in Nat /\ 100 * q <= y + 50 /\ y + 50 < 100 * (q + 1)
  BY DivisionBounds
<1>2. ToTenthMilli(x) = 100 * p /\ ToTenthMilli(y) = 100 * q
  BY DEF ToTenthMilli
<1> HIDE DEF p, q
<1>3. /\ y <= x + 70000 => q <= p + 700
      /\ y <= x + 42000 => q <= p + 420
      /\ y <= x => q <= p
  BY <1>1
<1> QED BY <1>1, <1>2, <1>3

\* The points stay within their bounds and a no-trade warning leaves no bonus.
LEMMA BoundedIs ==
  ASSUME NEW s, NEW side, s.trend \in Int, s.hilo \in Int
  PROVE  /\ Bounded(s, side) \in Int /\ -240 <= Bounded(s, side) /\ Bounded(s, side) <= 400
         /\ s.noTrade => Bounded(s, side) <= 0
<1> DEFINE bonus == MomentumAlignment(s, side) + TrendAlignment(s, side) + HiLoConfirmation(s, side)
           pen   == ReversalPenalty(s)
<1>1. MomentumAlignment(s, side) \in {0, 60, 140, 200}
  BY DEF MomentumAlignment
<1>2. TrendAlignment(s, side) \in Int
  <2>1. Magnitude(s.trend, 1000) \in Int
    BY DEF Magnitude
  <2> QED BY <2>1 DEF TrendAlignment
<1>3. HiLoConfirmation(s, side) \in Int
  <2>1. Magnitude(s.hilo, 20) \in Int
    BY DEF Magnitude
  <2> QED BY <2>1 DEF HiLoConfirmation
<1>4. pen \in {0, -240}
  BY DEF ReversalPenalty
<1>5. bonus \in Int
  BY <1>1, <1>2, <1>3
<1>6. Bounded(s, side) = Clamp((IF s.noTrade THEN 0 ELSE bonus) + pen, -240, 400)
  BY DEF Bounded
<1> HIDE DEF bonus, pen
<1> QED BY <1>4, <1>5, <1>6 DEF Clamp

\* A candidate that momentum moves is moved by its points, in active mode with
\* the guard open and with a direction.
LEMMA MovedByPoints ==
  ASSUME NEW chart, NEW s, NEW c, NEW mode, s.trend \in Int, s.hilo \in Int,
         Moves(Contribution(chart, s, c, mode))
  PROVE  LET k == Contribution(chart, s, c, mode)
         IN  /\ mode = "active" /\ InferredDirection(c) # "unknown"
             /\ k.delta = 175 * Bounded(s, InferredDirection(c))
<1> DEFINE side == InferredDirection(c)
           total == Bounded(s, side)
<1>1. ~(mode = "off" \/ ~chart)
  BY DEF Contribution, NoContribution, Moves
<1> DEFINE given == (mode = "active" /\ side # "unknown") /\ total # 0
<1>2. /\ Contribution(chart, s, c, mode).applied = given
      /\ Contribution(chart, s, c, mode).delta =
           IF mode = "active" /\ side # "unknown" THEN 175 * total ELSE 0
  BY <1>1 DEF Contribution, DeltaPerTwentieth
<1> HIDE DEF side, total, given
<1>3. given
  BY <1>2 DEF Moves
<1>4. mode = "active" /\ side # "unknown"
  BY <1>3 DEF given
<1> QED BY <1>2, <1>4 DEF side, total

\* What the ranking engine puts out.
LEMMA RankedIs ==
  ASSUME NEW base \in Nat, NEW confident, NEW k
  PROVE  LET total == IF Moves(k) THEN Clamp(base + k.delta, 0, Unity) ELSE base
             row   == Ranked(base, confident, k)
         IN  row = [score |-> ToMilli(total), before |-> ToTenthMilli(base), after |-> ToTenthMilli(total),
                    status |-> Status(total, confident), tier |-> Tier(total), k |-> k,
                    check |-> "none", base |-> base]
<1>1. CASE Moves(k)
  BY <1>1 DEF Ranked, Guard, ScoreAfter
<1>2. CASE ~Moves(k)
  BY <1>2 DEF Ranked
<1> QED BY <1>1, <1>2

\* Whatever the score, the chart, the candidate and the mode, momentum moves a
\* score within its bounds and, where it may not, nothing
\* (build_momentum_ranking_contribution, apply_momentum_score_delta,
\* enforce_score_consistency and rank_candidates).
THEOREM MomentumStaysBounded ==
  \A base \in Nat : \A confident, chart, s, c, requested, guardOpen :
    base <= Unity /\ s.trend \in Int /\ s.hilo \in Int
      => MomentumIsBounded(base, confident, chart, s, c, requested, guardOpen)
<1> SUFFICES ASSUME NEW base \in Nat, NEW confident, NEW chart, NEW s, NEW c, NEW requested,
                    NEW guardOpen, base <= Unity, s.trend \in Int, s.hilo \in Int
             PROVE  MomentumIsBounded(base, confident, chart, s, c, requested, guardOpen)
  OBVIOUS
<1> DEFINE mode  == EffectiveMode(requested, guardOpen)
           k     == Contribution(chart, s, c, mode)
           plain == NoContribution("off", "unknown")
           total == IF Moves(k) THEN Clamp(base + k.delta, 0, Unity) ELSE base
           row   == Ranked(base, confident, k)
<1>1. row = [score |-> ToMilli(total), before |-> ToTenthMilli(base), after |-> ToTenthMilli(total),
             status |-> Status(total, confident), tier |-> Tier(total), k |-> k,
             check |-> "none", base |-> base]
  BY RankedIs
<1>2. Moves(k) => /\ mode = "active" /\ InferredDirection(c) # "unknown"
                  /\ k.delta = 175 * Bounded(s, InferredDirection(c))
  BY MovedByPoints
<1>3. mode = "active" => requested = "active" /\ guardOpen
  BY DEF EffectiveMode
<1>4. ~Moves(plain) /\ Ranked(base, confident, plain) =
        [score |-> ToMilli(base), before |-> ToTenthMilli(base), after |-> ToTenthMilli(base),
         status |-> Status(base, confident), tier |-> Tier(base), k |-> plain,
         check |-> "none", base |-> base]
  <2>1. ~Moves(plain)
    BY DEF NoContribution, Moves
  <2> HIDE DEF plain
  <2> QED BY <2>1, RankedIs
<1>5. total \in Nat /\ total <= base + 70000 /\ base <= total + 42000 /\ (s.noTrade => total <= base)
  <2>1. CASE Moves(k)
    <3> DEFINE points == Bounded(s, InferredDirection(c))
    <3>1. /\ points \in Int /\ -240 <= points /\ points <= 400
          /\ s.noTrade => points <= 0
      BY BoundedIs
    <3>2. total = Clamp(base + 175 * points, 0, Unity)
      BY <1>2, <2>1
    <3> HIDE DEF points, total
    <3> QED BY <3>1, <3>2 DEF Clamp, Unity
  <2>2. CASE ~Moves(k)
    BY <2>2
  <2> QED BY <2>1, <2>2
<1> HIDE DEF k, plain, total, row, mode
<1>6. row.after = ToTenthMilli(total) /\ row.before = ToTenthMilli(base)
  BY <1>1
<1>7. /\ ToTenthMilli(total) \in Nat /\ ToTenthMilli(base) \in Nat
      /\ ToTenthMilli(total) <= ToTenthMilli(base) + 70000
      /\ ToTenthMilli(base) <= ToTenthMilli(total) + 42000
      /\ s.noTrade => ToTenthMilli(total) <= ToTenthMilli(base)
  BY <1>5, RoundingKeepsDistance
<1>8. row.after - row.before <= 70000
  BY <1>6, <1>7
<1>9. row.before - row.after <= 42000
  BY <1>6, <1>7
<1>10. s.noTrade => row.after <= row.before
  BY <1>6, <1>7
<1>11. ASSUME requested # "active" \/ ~guardOpen \/ InferredDirection(c) = "unknown"
       PROVE  [row EXCEPT !.k = plain] = Ranked(base, confident, plain)
  <2>1. ~Moves(k)
    BY <1>2, <1>3, <1>11
  <2>2. total = base
    BY <2>1 DEF total
  <2> QED BY <1>1, <1>4, <2>2
<1> QED BY <1>8, <1>9, <1>10, <1>11 DEF MomentumIsBounded, row, k, mode, plain

\* The queue's last guard leaves the score and the status of every row that the
\* ranking engine put out, since the engine's own scores have three places
\* (apply_queue_response_consistency after rank_candidates).
THEOREM StampingKeepsScores ==
  \A m \in Nat : \A confident, chart, s, c, mode, allowed :
    s.trend \in Int /\ s.hilo \in Int
      => LET row     == Ranked(1000 * m, confident, Contribution(chart, s, c, mode))
             stamped == Stamped(RiskGated(row, allowed))
         IN  stamped.score = row.score /\ stamped.after = row.after
<1> TAKE m \in Nat
<1> TAKE confident, chart, s, c, mode, allowed
<1> HAVE s.trend \in Int /\ s.hilo \in Int
<1> DEFINE k     == Contribution(chart, s, c, mode)
           base  == 1000 * m
           total == IF Moves(k) THEN Clamp(base + k.delta, 0, Unity) ELSE base
           row   == Ranked(base, confident, k)
           gated == RiskGated(row, allowed)
<1>1. base \in Nat /\ ToTenthMilli(base) = base
  <2>1. (1000 * m + 50) \div 100 = 10 * m
    <3> DEFINE q == (1000 * m + 50) \div 100
    <3>1. q \in Nat /\ 100 * q <= 1000 * m + 50 /\ 1000 * m + 50 < 100 * (q + 1)
      BY DivisionBounds
    <3> HIDE DEF q
    <3>2. q = 10 * m
      BY <3>1
    <3> QED BY <3>2 DEF q
  <2> QED BY <2>1 DEF ToTenthMilli
<1> HIDE DEF base, k
<1>2. row = [score |-> ToMilli(total), before |-> ToTenthMilli(base), after |-> ToTenthMilli(total),
             status |-> Status(total, confident), tier |-> Tier(total), k |-> k,
             check |-> "none", base |-> base]
  BY <1>1, RankedIs
<1> HIDE DEF row, total
<1>3. /\ gated.score = ToMilli(total) /\ gated.before = base /\ gated.after = ToTenthMilli(total)
      /\ gated.k = k
      /\ DOMAIN gated = {"score", "before", "after", "status", "tier", "k", "check", "base"}
  BY <1>1, <1>2 DEF RiskGated
<1> HIDE DEF gated
<1>4. CASE Moves(k)
  <2> DEFINE g == Guard(gated.score, gated.before, gated.k)
  <2>1. g.final = total
    BY <1>3, <1>4 DEF Guard, ScoreAfter, total
  <2>2. Stamped(gated) = [gated EXCEPT !.score = ToMilli(g.final), !.after = ToTenthMilli(g.final),
                                       !.check = IF g.corrected THEN "corrected" ELSE "ok"]
    BY <1>3, <1>4 DEF Stamped
  <2> HIDE DEF g
  <2>3. Stamped(gated).score = ToMilli(total) /\ Stamped(gated).after = ToTenthMilli(total)
    BY <1>3, <2>1, <2>2
  <2> QED BY <1>2, <2>3 DEF gated, row, base, k
<1>5. CASE ~Moves(k)
  <2>1. Stamped(gated) = [gated EXCEPT !.check = "ok"]
    BY <1>3, <1>5 DEF Stamped
  <2>2. Stamped(gated).score = ToMilli(total) /\ Stamped(gated).after = ToTenthMilli(total)
    BY <1>3, <2>1
  <2> QED BY <1>2, <2>2 DEF gated, row, base, k
<1> QED BY <1>4, <1>5

(***************************************************************************)
(* The True Momentum families                                              *)
(***************************************************************************)

\* What an applicable family says of its candidate.
LEMMA ApplicableIs ==
  ASSUME NEW c, NEW f \in Families, Applicability(c)[f] = "applicable_research_preview"
  PROVE  /\ c.evidence /\ f \in PreviewOf(c) /\ f # "reversal_watch"
         /\ "composite" \notin c.reasons /\ "parity" \notin c.reasons /\ WarningBlockers(c) = {}
<1> DEFINE found == IF c.evidence THEN PreviewOf(c) ELSE {}
<1>1. Applicability(c)[f] = IF f \in found THEN StatusOfPreview(c, f) ELSE StatusWithout(c, f)
  BY DEF Applicability
<1> HIDE DEF found
<1>2. f \in found
  <2> SUFFICES ASSUME f \notin found PROVE FALSE
    OBVIOUS
  <2>1. StatusWithout(c, f) = "applicable_research_preview"
    BY <1>1
  <2> QED BY <2>1 DEF StatusWithout
<1>3. StatusOfPreview(c, f) = "applicable_research_preview"
  BY <1>1, <1>2
<1>4. /\ "composite" \notin c.reasons /\ "parity" \notin c.reasons
      /\ f # "reversal_watch" /\ WarningBlockers(c) = {}
  BY <1>3 DEF StatusOfPreview
<1> QED BY <1>2, <1>4 DEF found

LEMMA PreviewIs ==
  ASSUME NEW c
  PROVE  /\ \E f \in Families : PreviewOf(c) \subseteq {f}
         /\ \A f \in PreviewOf(c) : f # "reversal_watch" =>
              /\ ~ReversalWatch(c) /\ Bullish(c) /\ c.direction # "short"
         /\ ReversalWatch(c) => PreviewOf(c) = {"reversal_watch"}
<1>1. CASE ReversalWatch(c)
  BY <1>1 DEF PreviewOf, Families
<1>2. CASE ~ReversalWatch(c) /\ IsPullback(c)
  <2>1. PreviewOf(c) = {"pullback"}
    BY <1>2 DEF PreviewOf
  <2> QED BY <1>2, <2>1 DEF IsPullback, Families
<1>3. CASE ~ReversalWatch(c) /\ ~IsPullback(c) /\ IsContinuation(c)
  <2>1. PreviewOf(c) = {"continuation"}
    BY <1>3 DEF PreviewOf
  <2> QED BY <1>3, <2>1 DEF IsContinuation, Families
<1>4. CASE ~ReversalWatch(c) /\ ~IsPullback(c) /\ ~IsContinuation(c)
  <2>1. PreviewOf(c) = {}
    BY <1>4 DEF PreviewOf
  <2> QED BY <1>4, <2>1 DEF Families
<1> QED BY <1>1, <1>2, <1>3, <1>4

\* Whatever the candidate, at most one family is applicable to it, and then
\* nothing is held against it; a bearish momentum under a long candidate is on
\* watch (build_true_momentum_strategy_preview and the applicability rows).
THEOREM FamiliesStayUnblocked ==
  \A c : c.reasons \subseteq {"composite", "parity"} => ApplicableIsUnblocked(c)
<1> SUFFICES ASSUME NEW c, c.reasons \subseteq {"composite", "parity"}
             PROVE  ApplicableIsUnblocked(c)
  OBVIOUS
<1> DEFINE rows == Applicability(c)
           applicable == {f \in Families : rows[f] = "applicable_research_preview"}
<1> HIDE DEF rows
<1>1. Cardinality(applicable) <= 1
  <2>1. PICK g : PreviewOf(c) \subseteq {g}
    BY PreviewIs
  <2>2. applicable \subseteq {g}
    BY <2>1, ApplicableIs DEF rows
  <2>3. IsFiniteSet({g}) /\ Cardinality({g}) = 1
    BY FS_Singleton
  <2> HIDE DEF applicable
  <2>4. Cardinality(applicable) <= Cardinality({g})
    BY <2>2, <2>3, FS_Subset
  <2> QED BY <2>3, <2>4
<1>2. ASSUME NEW f \in Families, rows[f] = "applicable_research_preview"
      PROVE  /\ WarningBlockers(c) = {} /\ c.reasons = {}
             /\ c.direction # "short" /\ c.label # "bearish" /\ c.positive
  <2>1. /\ f \in PreviewOf(c) /\ f # "reversal_watch"
        /\ "composite" \notin c.reasons /\ "parity" \notin c.reasons /\ WarningBlockers(c) = {}
    BY <1>2, ApplicableIs DEF rows
  <2>2. Bullish(c) /\ c.direction # "short"
    BY <2>1, PreviewIs
  <2> QED BY <2>1, <2>2 DEF Bullish
<1>3. ASSUME c.evidence, LongBiased(c), c.label = "bearish", c.reasons = {}
      PROVE  rows["reversal_watch"] = "watch_only"
  <2>1. "reversal_watch" \in PreviewOf(c)
    BY <1>3, PreviewIs DEF ReversalWatch
  <2>2. rows["reversal_watch"] = StatusOfPreview(c, "reversal_watch")
    BY <1>3, <2>1 DEF rows, Applicability, Families
  <2> QED BY <1>3, <2>2 DEF StatusOfPreview
<1> QED BY <1>1, <1>2, <1>3 DEF ApplicableIsUnblocked, rows
=============================================================================
