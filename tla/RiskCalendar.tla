---------------------------- MODULE RiskCalendar ----------------------------
(***************************************************************************)
(* The market-risk calendar: the decision it takes for a symbol at a       *)
(* moment, and what the program makes of that decision where it generates  *)
(* a recommendation, ranks a queue, opens for an agent or stages an order. *)
(*                                                                         *)
(* Pure: an assessment is a question q of                                  *)
(*   now       a moment, in minutes of New York time; day 0 is a Monday    *)
(*   events    what the provider knows: a sequence of records of kind,     *)
(*             impact, starts, ends, about (the symbols, {} for all)       *)
(*   evidence  records of kind, about and stale; about {} names no symbol  *)
(*   symbol    NoSymbol for an assessment of the market                    *)
(*   intraday  the timeframe is 1H or 4H                                   *)
(*   bars      the last two candles, or NoBars                             *)
(*   points    what is known of each index, or NoContext; a function of a  *)
(*             subset of IndexSymbols; Absent is a number that is missing  *)
(* and cfg holds the settings.  Percentages are in hundredths.             *)
(***************************************************************************)
EXTENDS Integers, Sequences, SequencesExt

Absent    == -99999
NoSymbol  == "none"
NoBars    == [known |-> FALSE]
NoContext == [context |-> FALSE]

Macro    == {"cpi", "fomc_decision"}
Earnings == {"earnings", "earnings_call"}

DayOf(t)    == t \div 1440
MinuteOf(t) == t % 1440
Weekend(day) == day % 7 >= 5

\* The calendar's days are those of UTC, four hours ahead in summer.
UtcDay(t) == (t + 240) \div 1440

AbsOf(x)     == IF x < 0 THEN -x ELSE x
Longer(x, y) == IF x > y THEN x ELSE y

-----------------------------------------------------------------------------
(* Index context: how fresh it is, and what it says of the market.         *)

IndexSymbols == {"SPX", "NDX", "RUT", "VIX"}
Equities     == IndexSymbols \ {"VIX"}

InSession(t) == ~Weekend(DayOf(t)) /\ MinuteOf(t) \in 570..959

\* Faulty variant: the day before, whatever day that is.
LastWeekday_Yesterday(day) == day

LastWeekday(day) == IF ~Weekend(day) THEN day ELSE IF ~Weekend(day - 1) THEN day - 1 ELSE day - 2

\* _expected_latest_index_timestamp: now in session, else the last close.
ExpectedLatest(now) ==
  CASE InSession(now)                                      -> now
    [] ~Weekend(DayOf(now)) /\ MinuteOf(now) >= 960        -> DayOf(now) * 1440 + 960
    [] OTHER -> LastWeekday(DayOf(now) - 1) * 1440 + 960

Accepted(cfg, asOf, now) ==
  IF InSession(now)
  THEN cfg.staleMinutes <= 0 \/ now - asOf <= cfg.staleMinutes + 20
  ELSE ExpectedLatest(now) - asOf <= 30

PointFlags(cfg, points, s, now) ==
  IF s \notin DOMAIN points THEN {"missing"}
  ELSE LET p == points[s]
           ok == p.asOf # Absent /\ Accepted(cfg, p.asOf, now)
       IN  (IF p.level = Absent THEN {"latest_value_missing"} ELSE {})
      \cup (IF p.change = Absent THEN {"day_change_pct_missing"} ELSE {})
      \cup (IF p.asOf = Absent THEN {"as_of_missing"} ELSE IF ok THEN {} ELSE {"as_of_stale"})
      \cup (IF p.stale /\ ~ok THEN {"stale"} ELSE {})

IndexFlags(cfg, points, now) ==
  IF points = NoContext \/ ~cfg.indexRisk THEN {}
  ELSE IF DOMAIN points = {} THEN {"index_context_missing"}
  ELSE UNION {PointFlags(cfg, points, s, now) : s \in IndexSymbols}

ChangeOf(points, s) == IF s \in DOMAIN points THEN points[s].change ELSE Absent
LevelOf(points)     == IF "VIX" \in DOMAIN points THEN points["VIX"].level ELSE Absent

\* The relative strength of an index: Absent unless both changes are known.
Against(points, s) ==
  IF ChangeOf(points, s) = Absent \/ ChangeOf(points, "SPX") = Absent THEN Absent
  ELSE ChangeOf(points, s) - ChangeOf(points, "SPX")

\* Every reason adds its effect; the strongest counts.
IndexEffects(cfg, points) ==
  LET spx == ChangeOf(points, "SPX")
      vix == ChangeOf(points, "VIX")
      level == LevelOf(points)
      weak(s) == Against(points, s) # Absent /\ Against(points, s) <= cfg.underperform
  IN  (IF \/ level # Absent /\ level >= cfg.vixRestricted
          \/ spx # Absent /\ spx <= -cfg.gapRestricted THEN {"restricted"} ELSE {})
 \cup (IF \/ level # Absent /\ level >= cfg.vixCaution
          \/ vix # Absent /\ vix >= cfg.vixSpike
          \/ spx # Absent /\ spx <= -cfg.gapCaution
          \/ spx # Absent /\ vix # Absent /\ spx < 0 /\ vix > 0
          \/ weak("RUT") \/ weak("NDX") THEN {"caution"} ELSE {})

\* The moves of SPX, NDX and RUT that are known, and the mood read off them.
Moves(points) ==
  SelectSeq([i \in 1..3 |-> ChangeOf(points, <<"SPX", "NDX", "RUT">>[i])], LAMBDA x : x # Absent)

Backdrop(cfg, points) ==
  LET moves == Moves(points)
      n     == Len(moves)
      total == FoldLeft(LAMBDA sum, x : sum + x, 0, moves)
      span  == CHOOSE d \in {AbsOf(moves[i] - moves[j]) : i, j \in 1..n} :
                 \A i, j \in 1..n : d >= AbsOf(moves[i] - moves[j])
      spx   == ChangeOf(points, "SPX")
      vix   == ChangeOf(points, "VIX")
      off   == \/ spx # Absent /\ spx < 0 /\ vix # Absent /\ vix > 0
               \/ LevelOf(points) # Absent /\ LevelOf(points) >= cfg.vixCaution
               \/ Against(points, "RUT") # Absent /\ Against(points, "RUT") <= -100
  IN  [direction  |-> IF n = 0 THEN "unknown"
                      ELSE IF total >= 25 * n THEN "up"
                      ELSE IF total <= -25 * n THEN "down"
                      ELSE "mixed",
       dispersion |-> CASE n < 2 -> "unknown" [] n >= 2 /\ span >= 150 -> "high"
                        [] n >= 2 /\ span \in 75..149 -> "moderate" [] OTHER -> "low",
       appetite   |-> CASE n = 0 -> "unknown" [] n > 0 /\ off -> "risk_off"
                        [] n > 0 /\ ~off /\ total >= 25 * n /\ (vix = Absent \/ vix <= 0) -> "risk_on"
                        [] OTHER -> "mixed"]

-----------------------------------------------------------------------------
(* Decisions, and which of two counts.                                     *)

Decision(state, allow, confirm, action) ==
  [state |-> state, allow |-> allow, confirm |-> confirm, action |-> action]

Normal == Decision("normal", TRUE, FALSE, "trade_normally")
Caution == Decision("caution", TRUE, FALSE, "caution")

Severity(d) ==
  [normal |-> 0, caution |-> 1, restricted |-> 2, requires_event_evidence |-> 3,
   no_trade |-> 4, data_quality_block |-> 5][d.state]

\* Faulty variant: the last decision counts.
Strongest_Last(decisions) ==
  LET told == {i \in DOMAIN decisions : decisions[i] # Normal}
  IN  IF told = {} THEN Normal ELSE decisions[CHOOSE i \in told : \A j \in told : j <= i]

\* _stronger, from decision to decision: one of the same severity as an earlier
\* one changes nothing.
Strongest(decisions) ==
  decisions[CHOOSE i \in DOMAIN decisions :
              \A j \in DOMAIN decisions :
                /\ Severity(decisions[j]) <= Severity(decisions[i])
                /\ j < i => Severity(decisions[j]) < Severity(decisions[i])]

-----------------------------------------------------------------------------
(* What is known of a moment.                                              *)

\* Faulty variant: an event that has begun is not looked for.
Listed_Upcoming(cfg, e, q) ==
  /\ e.starts >= q.now
  /\ e.starts <= q.now + 1440 * Longer(3, cfg.after + 1)
  /\ e.about = {} \/ q.symbol = NoSymbol \/ q.symbol \in e.about

\* The events asked of the provider: the lookback is measured by the days
\* before an earnings event and the lookahead by the days after it.
Listed(cfg, e, q) ==
  /\ e.ends >= q.now - 1440 * Longer(3, cfg.before + 1)
  /\ e.starts <= q.now + 1440 * Longer(3, cfg.after + 1)
  /\ e.about = {} \/ q.symbol = NoSymbol \/ q.symbol \in e.about

\* Macro releases block for a while around them.
Active(cfg, e, now) ==
  LET around == IF e.kind \in Macro THEN <<cfg.macroBefore, cfg.macroAfter>> ELSE <<0, 0>>
  IN  e.starts - around[1] <= now /\ now <= e.ends + around[2]

InsideEarningsWindow(cfg, e, now) ==
  UtcDay(now) \in (UtcDay(e.starts) - cfg.before)..(UtcDay(e.starts) + cfg.after)

\* The latest gap is 3 % of the close before, or its range 4 % of its open.
Volatile(bars) ==
  /\ bars.known
  /\ \/ bars.before # 0 /\ 100 * AbsOf(bars.open - bars.before) >= 3 * bars.before
     \/ bars.open # 0 /\ 100 * (bars.high - bars.low) >= 4 * bars.open

OutOfSession(cfg, q) == cfg.sessionRequired /\ q.intraday /\ q.bars.known /\ ~q.bars.regular

\* Evidence of the provider is asked for earnings only, not for their calls.
CurrentEvidence(q) ==
  \E b \in q.evidence :
    /\ b.kind \in (IF b.supplied THEN Earnings ELSE {"earnings"})
    /\ b.about \in {{}, {q.symbol}} /\ ~b.stale

-----------------------------------------------------------------------------
(* The decision of each source, and the assessment.                        *)

\* Flags of the index data alone only warn.
QualityDecision(cfg, q) ==
  CASE OutOfSession(cfg, q) /\ cfg.sessionBlocks ->
         Decision("data_quality_block", FALSE, FALSE, "sit_out")
    [] OutOfSession(cfg, q) /\ ~cfg.sessionBlocks -> Caution
    [] ~OutOfSession(cfg, q) /\ IndexFlags(cfg, q.points, q.now) # {} -> Caution
    [] OTHER -> Normal

IndexDecision(cfg, q) ==
  LET effects == IF q.points = NoContext \/ ~cfg.indexRisk THEN {} ELSE IndexEffects(cfg, q.points)
  IN  CASE "restricted" \in effects -> Decision("restricted", TRUE, TRUE, "reduce_size")
        [] effects = {"caution"}    -> Caution
        [] OTHER                    -> Normal

MarketDecision(cfg, e) ==
  LET blocks == cfg.modeBlocks \/ cfg.blocksHighImpact
  IN  CASE e.kind \in Macro /\ e.impact \in {"high", "extreme"} ->
             Decision(IF blocks THEN "no_trade" ELSE "restricted", ~blocks, ~blocks,
                      IF blocks THEN "sit_out" ELSE "wait")
        [] e.kind = "market_holiday"      -> Decision("no_trade", FALSE, FALSE, "sit_out")
        [] e.kind = "market_half_day"     -> Decision("restricted", TRUE, TRUE, "wait")
        [] e.kind = "provider_data_issue" -> Decision("data_quality_block", FALSE, FALSE, "sit_out")
        [] OTHER                          -> Normal

EarningsDecision(q) ==
  IF CurrentEvidence(q) THEN Decision("restricted", TRUE, TRUE, "event_trade_review")
  ELSE Decision("requires_event_evidence", FALSE, FALSE, "event_trade_review")

VolatilityDecision(cfg, q) ==
  IF cfg.volatilityBlocks /\ Volatile(q.bars)
  THEN Decision("restricted", TRUE, TRUE, "reduce_size") ELSE Normal

\* The events of the market are gone through first, then those of the symbol.
OfMarket(cfg, e, q) ==
  IF Listed(cfg, e, q) /\ e.kind \notin Earnings /\ Active(cfg, e, q.now)
  THEN MarketDecision(cfg, e) ELSE Normal

OfSymbol(cfg, e, q) ==
  IF /\ Listed(cfg, e, q) /\ e.kind \in Earnings
     /\ cfg.avoidsEarnings /\ q.symbol # NoSymbol /\ InsideEarningsWindow(cfg, e, q.now)
  THEN EarningsDecision(q) ELSE Normal

Sources(cfg, q) ==
  <<QualityDecision(cfg, q), IndexDecision(cfg, q)>>
    \o [i \in DOMAIN q.events |-> OfMarket(cfg, q.events[i], q)]
    \o [i \in DOMAIN q.events |-> OfSymbol(cfg, q.events[i], q)]
    \o <<VolatilityDecision(cfg, q)>>

Assess(cfg, q) == IF ~cfg.enabled THEN Normal ELSE Strongest(Sources(cfg, q))

-----------------------------------------------------------------------------
(* What the program makes of a decision.                                   *)

\* _apply_risk_calendar: the recommendation is generated, but not approved.
Refused(d) == d.state \in {"no_trade", "requires_event_evidence", "data_quality_block"}

\* The queue, the target book and the agents look at allow_new_entries.
QueueStatus(status, d) == IF ~d.allow /\ status = "top_candidate" THEN d.state ELSE status
AgentSkips(d) == ~d.allow

\* assert_order_allowed
OrderVerdict(d, confirmed, reason) ==
  CASE Refused(d)                                -> "blocked"
    [] ~Refused(d) /\ d.confirm /\ ~confirmed     -> "confirmation_required"
    [] ~Refused(d) /\ d.confirm /\ confirmed /\ ~reason -> "override_reason_required"
    [] OTHER                                     -> "allowed"

\* Staging assesses the symbol again, on the daily timeframe and without bars.
AtStaging(cfg, q) == Assess(cfg, [q EXCEPT !.bars = NoBars, !.intraday = FALSE])

-----------------------------------------------------------------------------
(* Properties.                                                             *)

\* What the design promises of an event, wherever the provider's window ends.
Promised(cfg, e, q) ==
  IF ~(e.about = {} \/ q.symbol = NoSymbol \/ q.symbol \in e.about) THEN 0
  ELSE IF e.kind \in Earnings THEN
         IF ~cfg.avoidsEarnings \/ q.symbol = NoSymbol \/ ~InsideEarningsWindow(cfg, e, q.now) THEN 0
         ELSE IF CurrentEvidence(q) THEN 2 ELSE 3
  ELSE IF Active(cfg, e, q.now) THEN Severity(MarketDecision(cfg, e)) ELSE 0

\* Nothing masks an event: the decision is at least as severe as every event
\* in its window asks for, in whatever order the provider lists them and
\* whatever the index data, the candles and the evidence add.
NothingIsMasked(cfg, q) ==
  cfg.enabled => \A i \in DOMAIN q.events : Severity(Assess(cfg, q)) >= Promised(cfg, q.events[i], q)

\* The parts of the program that look at the state and those that look at
\* allow_new_entries agree: what an agent skips and the queue demotes can
\* neither be generated as approved nor be staged, and the rest can be staged
\* by an operator who confirms it with a reason.
ConsumersAgree(cfg, q) ==
  LET d == Assess(cfg, q)
  IN  /\ Refused(d) <=> AgentSkips(d)
      /\ Refused(d) <=> QueueStatus("top_candidate", d) # "top_candidate"
      /\ Refused(d) <=> OrderVerdict(d, TRUE, TRUE) # "allowed"
      /\ d.state = "restricted" <=> OrderVerdict(d, FALSE, FALSE) = "confirmation_required"

\* Index data that passes as current was taken in the last half hour of the
\* last session or later, and data of the last close passes until the next
\* opening, over a weekend too.
FreshIsOfLastSession(cfg, asOf, now) ==
  LET closes == {d * 1440 + 960 : d \in {n \in 0..DayOf(now) : ~Weekend(n)}}
      past   == {c \in closes : c <= now}
      last   == CHOOSE c \in past : \A d \in past : d <= c
  IN  past # {} /\ asOf <= now =>
        /\ Accepted(cfg, asOf, now) => asOf >= last - 30
        /\ asOf = last /\ ~InSession(now) => Accepted(cfg, asOf, now)

\* No event is masked, the readers of the decision agree, and the index data
\* that it took as current is of the last session.
CalendarIsHeeded(cfg, q) ==
  /\ NothingIsMasked(cfg, q) /\ ConsumersAgree(cfg, q)
  /\ q.points # NoContext =>
       \A s \in DOMAIN q.points : FreshIsOfLastSession(cfg, q.points[s].asOf, q.now)

\* What restricted a recommendation is asked about again when it is staged.  No
\* run checks it: a staged order is assessed as one of 1D and without bars
\* (README, known divergences).
StagingIsNoWeaker(cfg, q) ==
  Severity(AtStaging(cfg, q)) >= Severity(Assess(cfg, q))
=============================================================================
