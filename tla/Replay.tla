------------------------------- MODULE Replay -------------------------------
(***************************************************************************)
(* A replay: the recommendation pipeline run over a list of event texts,   *)
(* each approved recommendation filled by the paper broker, and the        *)
(* portfolio handed on from one event to the next.                         *)
(*                                                                         *)
(* Prices, dollars and shares are whole numbers.  A price is a multiple of *)
(* Grain, and so is the average range, so that the fractions of it that    *)
(* the setups add are whole; the entry price is then the exact middle of   *)
(* the entry zone.  Heat is kept in dollars at risk: the program divides   *)
(* by the equity, which no step of a replay changes.                       *)
(*                                                                         *)
(* Left out: texts, explanations, indicators and scores, which decide      *)
(* nothing here, and the risk calendar, which blocks no replay: the        *)
(* provider that is built for it has no events, the time frame is a day    *)
(* and no index is looked at.                                              *)
(***************************************************************************)
EXTENDS Integers, Sequences, FiniteSetsExt

CONSTANTS
  Threads,      \* requests that are served at the same time
  Contexts,     \* what the bars of a request amount to
  Grain,        \* 40, or a multiple of it
  RiskDollars,  \* risk_dollars_per_trade
  PositionCap,  \* max_position_notional, in dollars
  HeatLimit,    \* max_portfolio_heat, in dollars
  StartHeats,   \* heat of the portfolios that requests come with
  Ids,          \* recommendations, and the orders made of them
  None,         \* no recommendation, order or fill
  MaxEvents,    \* bound on the texts of a request (ten)
  MaxRuns       \* bound on the runs that are recorded

Context == [high : Nat, low : Nat, high20 : Nat, low20 : Nat, atr : Nat,
            range : Nat, trend : Int, busy : BOOLEAN, wild : BOOLEAN]

\* The day before is one of the last twenty, and so is today.
FromBars(c) ==
  /\ 0 < c.low20 /\ c.low20 <= c.low /\ c.low <= c.high /\ c.high <= c.high20
  /\ 0 < c.atr
  /\ c.range <= c.high20 - c.low20
  /\ \A x \in {c.high, c.low, c.high20, c.low20, c.atr, c.range} : x % Grain = 0

Rec == [approved : BOOLEAN, shares : Int, entry : Int, stop : Int, long : BOOLEAN]

Order == [status : {"submitted", "filled"}, shares : Int, filled : Int]

FillRow == [shares : Int, price : Int]

ASSUME ReplayAssumption ==
  /\ Grain \in Nat \ {0} /\ Grain % 40 = 0
  /\ Contexts \subseteq Context
  /\ \A c \in Contexts : FromBars(c)
  /\ RiskDollars \in Nat \ {0}
  /\ PositionCap \in Nat \ {0}
  /\ HeatLimit \in Nat
  /\ StartHeats \subseteq Nat
  /\ MaxEvents \in Nat /\ MaxRuns \in Nat
  /\ None \notin Rec \cup Order \cup FillRow

VARIABLES
  task,    \* the request each thread serves
  recs,    \* the recommendations that were generated, and stored
  orders,  \* the orders of the broker's OMS
  fills,   \* the fill of each order
  runs     \* replay_runs with their replay_steps, in the order of ids

vars == <<task, recs, orders, fills, runs>>

-----------------------------------------------------------------------------
(* The pipeline                                                            *)

Larger(x, y)  == IF x >= y THEN x ELSE y
Smaller(x, y) == IF x <= y THEN x ELSE y
Distance(x, y) == Larger(x - y, y - x)

\* n fortieths.
Part(n, x) == n * (x \div 40)

\* RegimeEngine.classify: the trend of five closes in percent, and whether the
\* last volume is at least the average.
Regime(c) ==
  IF c.trend > 2 /\ c.busy THEN "risk_on_trend"
  ELSE IF c.trend < -2 THEN "risk_off" ELSE "range_balanced"

Plan(type, long, low, high, stop, target1, target2) ==
  [type |-> type, long |-> long, low |-> low, high |-> high, stop |-> stop,
   target1 |-> target1, target2 |-> target2]

EventContinuation(c) ==
  LET low   == c.high
      high  == c.high + Part(10, c.atr)
      first == Larger(c.high20, high + Part(48, c.range))
  IN  Plan("event_continuation", TRUE, low, high,
           low - Larger(Part(24, c.atr), Part(14, c.range)),
           first, Larger(first + Part(32, c.atr), high + Part(96, c.atr)))

PullbackLong(c) ==
  LET high == c.low + Part(24, c.atr)
  IN  Plan("pullback_continuation", TRUE, c.low + Part(10, c.atr), high, c.low20,
           c.high, Smaller(c.high20, high + Part(72, c.atr)))

PullbackShort(c) ==
  LET low == c.high - Part(24, c.atr)
  IN  Plan("pullback_continuation", FALSE, low, c.high - Part(10, c.atr), c.high20,
           c.low, Larger(c.low20, low - Part(72, c.atr)))

FailedEventFade(c) ==
  LET high == c.high - Part(4, c.atr)
      low  == high - Part(12, c.atr)
  IN  Plan("failed_event_fade", FALSE, low, high, c.high20, c.low,
           Larger(c.low20, low - c.atr))

\* SetupEngine.generate
Setup(c, bullish) ==
  CASE Regime(c) = "risk_on_trend" /\ bullish -> EventContinuation(c)
    [] Regime(c) = "range_balanced" -> IF bullish THEN PullbackLong(c) ELSE PullbackShort(c)
    [] OTHER -> FailedEventFade(c)

Entry(s) == (s.low + s.high) \div 2
StopDistance(s) == Distance(Entry(s), s.stop)

\* Faulty variant: the risk of a trade alone bounds its size.
Shares_RiskOnly(s) == IF StopDistance(s) <= 0 THEN 0 ELSE RiskDollars \div StopDistance(s)

\* RiskEngine.size_position
Shares(s) ==
  IF StopDistance(s) <= 0 THEN 0
  ELSE Smaller(RiskDollars \div StopDistance(s), PositionCap \div Larger(Entry(s), 1))

\* Faulty variant: the trade itself is not counted.
HeatOK_Before(s, heat) == heat <= HeatLimit

HeatOK(s, heat) == heat + Shares(s) * StopDistance(s) <= HeatLimit

\* _evaluate_quality_gates: an expected reward of 1.4 for each dollar at risk,
\* and no continuation in wild markets.  Every source is good enough.
QualityOK(s, c) ==
  /\ 6 * Distance(s.target1, Entry(s)) + 4 * Distance(s.target2, Entry(s))
       >= 14 * Larger(StopDistance(s), 1)
  /\ ~ (s.type = "event_continuation" /\ c.wild)

\* generate: the approval of the user overrides whatever spoke against it.
Recommendation(c, bullish, heat, override) ==
  LET s == Setup(c, bullish)
  IN  [approved |-> override \/ (Shares(s) >= 1 /\ HeatOK(s, heat) /\ QualityOK(s, c)),
       shares |-> Shares(s), entry |-> Entry(s), stop |-> s.stop, long |-> s.long]

-----------------------------------------------------------------------------
(* The requests                                                            *)

Idle == [stage |-> "idle"]

Init ==
  /\ task = [t \in Threads |-> Idle]
  /\ recs = [r \in Ids |-> None]
  /\ orders = [r \in Ids |-> None]
  /\ fills = [r \in Ids |-> None]
  /\ runs = <<>>

\* POST /replay/run comes with a portfolio and overrides nothing; POST
\* /user/replay-runs begins with an empty one, and overrides, as its users are
\* approved.
Start(t, c, override, heat, events) ==
  /\ task[t] = Idle
  /\ Len(runs) < MaxRuns
  /\ override => heat = 0
  /\ task' = [task EXCEPT ![t] =
                [stage |-> "generate", context |-> c, override |-> override,
                 left |-> events, mine |-> <<>>, steps |-> <<>>,
                 start |-> [heat |-> heat, notional |-> 0],
                 portfolio |-> [heat |-> heat, notional |-> 0]]]
  /\ UNCHANGED <<recs, orders, fills, runs>>

\* The portfolio before an event, and after it.
Step(before, after) == [pre |-> before, post |-> after]

Generate(t, bullish, r) ==
  LET q   == task[t]
      rec == Recommendation(q.context, bullish, q.portfolio.heat, q.override)
  IN
  /\ q.stage = "generate"
  /\ q.left > 0
  /\ recs[r] = None
  /\ recs' = [recs EXCEPT ![r] = rec]
  /\ task' = [task EXCEPT ![t] =
       [q EXCEPT !.left = @ - 1, !.mine = Append(@, r),
                 !.stage = IF rec.approved THEN "submit" ELSE "generate",
                 !.steps = IF rec.approved THEN @
                           ELSE Append(@, Step(q.portfolio, q.portfolio))]]
  /\ UNCHANGED <<orders, fills, runs>>

Current(q) == q.mine[Len(q.mine)]

\* PaperBroker.execute: OMS.submit, then OMS.final_fill at the limit price.
Submit(t) ==
  LET q == task[t] IN
  /\ q.stage = "submit"
  /\ orders' = [orders EXCEPT ![Current(q)] =
       [status |-> "submitted", shares |-> recs[Current(q)].shares, filled |-> 0]]
  /\ task' = [task EXCEPT ![t].stage = "fill"]
  /\ UNCHANGED <<recs, fills, runs>>

\* Faulty variant: the risk of the trade is not added.
ApplyFill_NotionalOnly(portfolio, risk, notional) ==
  [portfolio EXCEPT !.notional = @ + notional]

\* PortfolioEngine.apply_fill
ApplyFill(portfolio, risk, notional) ==
  [heat |-> portfolio.heat + risk, notional |-> portfolio.notional + notional]

\* Faulty variant: an order is filled once more than it has shares.
FillSize_Over(r) == recs[r].shares + 1

\* final_fill takes what remains of the order.
FillSize(r) == orders[r].shares - orders[r].filled

\* An order without shares raises, and ends the request: what was stored stays.
Fill(t) ==
  LET q   == task[t]
      r   == Current(q)
      rec == recs[r]
      n   == FillSize(r)
      after == ApplyFill(q.portfolio, rec.shares * Distance(rec.entry, rec.stop),
                         n * rec.entry)
  IN
  /\ q.stage = "fill"
  /\ \/ /\ n > 0
        /\ orders' = [orders EXCEPT ![r].status = "filled", ![r].filled = n]
        /\ fills' = [fills EXCEPT ![r] = [shares |-> n, price |-> rec.entry]]
        /\ task' = [task EXCEPT ![t] =
             [q EXCEPT !.stage = "generate", !.portfolio = after,
                       !.steps = Append(@, Step(q.portfolio, after))]]
     \/ /\ n <= 0
        /\ task' = [task EXCEPT ![t] = Idle]
        /\ UNCHANGED <<orders, fills>>
  /\ UNCHANGED <<recs, runs>>

\* create_run and create_step.
Record(t) ==
  LET q == task[t] IN
  /\ q.stage = "generate"
  /\ q.left = 0
  /\ runs' = Append(runs,
       [override |-> q.override, start |-> q.start, ending |-> q.portfolio,
        recs |-> q.mine, steps |-> q.steps,
        approved |-> Cardinality({i \in DOMAIN q.mine : recs[q.mine[i]].approved})])
  /\ task' = [task EXCEPT ![t] = Idle]
  /\ UNCHANGED <<recs, orders, fills>>

Next ==
  \E t \in Threads :
    \/ \E c \in Contexts, override \in BOOLEAN, heat \in StartHeats,
          events \in 1..MaxEvents : Start(t, c, override, heat, events)
    \/ \E bullish \in BOOLEAN, r \in Ids : Generate(t, bullish, r)
    \/ Submit(t)
    \/ Fill(t)
    \/ Record(t)

Spec == Init /\ [][Next]_vars

-----------------------------------------------------------------------------
(* Properties                                                              *)

Portfolio == [heat : Nat, notional : Int]
StepRow   == [pre : Portfolio, post : Portfolio]

Task ==
  {Idle} \cup
  [stage : {"generate", "submit", "fill"}, context : Contexts, override : BOOLEAN,
   left : 0..MaxEvents, mine : Seq(Ids), steps : Seq(StepRow),
   start : Portfolio, portfolio : Portfolio]

Run ==
  [override : BOOLEAN, start : Portfolio, ending : Portfolio, recs : Seq(Ids),
   steps : Seq(StepRow), approved : Nat]

\* Every variable has its type, so no heat is negative.
TypeOK ==
  /\ task \in [Threads -> Task]
  /\ recs \in [Ids -> Rec \cup {None}]
  /\ orders \in [Ids -> Order \cup {None}]
  /\ fills \in [Ids -> FillRow \cup {None}]
  /\ runs \in Seq(Run)

Booked == [r \in Ids |-> IF fills[r] = None THEN 0 ELSE fills[r].shares]

Broker == INSTANCE OMS WITH booked <- Booked, Sizes <- 0..RiskDollars

\* The orders of a replay follow the order management state machine, step by
\* step, and the stored fills are the ones it handed out (PaperBroker, OMS).
OrdersFollowOMS == Broker!Spec

\* What is filled risks no more than the risk of a trade, costs no more than
\* the cap on a position, and has its stop on the side where it loses, whatever
\* the setup and whether the approval was overridden or not (SetupEngine,
\* RiskEngine).
OrderWithinBudget ==
  \A r \in Ids : fills[r] # None =>
    LET rec == recs[r] IN
    /\ fills[r].shares * Distance(rec.entry, rec.stop) <= RiskDollars
    /\ fills[r].shares * fills[r].price <= PositionCap
    /\ IF rec.long THEN rec.stop < rec.entry ELSE rec.stop > rec.entry

\* A replay that overrides nothing, and that begins within the limit on heat,
\* stays within it through all its fills: every step sees the fills of the
\* steps before (ReplayEngine.run, RiskEngine).
HeatKept ==
  \A i \in DOMAIN runs :
    ~ runs[i].override /\ runs[i].start.heat <= HeatLimit =>
      runs[i].ending.heat <= HeatLimit

\* The recommendations of a sequence that were filled, and what a fill puts at
\* risk and costs.
Filled(rs) == {r \in {rs[k] : k \in DOMAIN rs} : fills[r] # None}

RiskOf == [r \in Ids |-> fills[r].shares * Distance(recs[r].entry, recs[r].stop)]
CostOf == [r \in Ids |-> fills[r].shares * fills[r].price]

Sum(amount, S) == MapThenSumSet(LAMBDA r : amount[r], S)

\* A portfolio is the first one with the risk and the price of every fill.
AddsUp(start, ending, rs) ==
  /\ ending.heat = start.heat + Sum(RiskOf, Filled(rs))
  /\ ending.notional = start.notional + Sum(CostOf, Filled(rs))

\* Each step begins where the one before it ended.
Chained(start, ending, steps) ==
  /\ \A k \in DOMAIN steps : steps[k].pre = IF k = 1 THEN start ELSE steps[k - 1].post
  /\ ending = IF steps = <<>> THEN start ELSE steps[Len(steps)].post

\* What a run records is what was filled for it: an approved recommendation is
\* a fill, the ending portfolio is the first one with the risk and the price of
\* every fill, and the steps lead from one to the other, one for an event.
RunTellsFills ==
  \A i \in DOMAIN runs :
    /\ runs[i].approved = Cardinality(Filled(runs[i].recs))
    /\ AddsUp(runs[i].start, runs[i].ending, runs[i].recs)
    /\ DOMAIN runs[i].steps = DOMAIN runs[i].recs
    /\ Chained(runs[i].start, runs[i].ending, runs[i].steps)

\* A replay stays within its limits, fill by fill and in sum (RiskEngine,
\* ReplayEngine.run).
WithinLimits == OrderWithinBudget /\ HeatKept
=============================================================================
