--------------------------- MODULE MomentumScore ----------------------------
(***************************************************************************)
(* The scores that the True Momentum studies add up for one bar, and what  *)
(* the momentum chart tells of them.  Pure operators: a bar is the outcome *)
(* of its comparisons.  The oscillator and its average are in tenths, as   *)
(* finely as the thresholds go; scores are points; the trend and momentum  *)
(* percentages are in sixths of a percent.                                 *)
(***************************************************************************)
EXTENDS Integers

SignOf(x) == IF x > 0 THEN 1 ELSE IF x < 0 THEN -1 ELSE 0
AbsOf(x)  == IF x < 0 THEN -x ELSE x

-----------------------------------------------------------------------------
(* The composite score of the oscillator against its average.              *)

\* Both lines at or beyond a level on the side the oscillator is moving to,
\* with a distance between them of at least gap.
Beyond(tm, avg, up, down, gap) ==
  /\ AbsOf(tm - avg) >= gap
  /\ \/ tm > avg /\ tm >= up /\ avg >= up
     \/ tm < avg /\ tm <= down /\ avg <= down

OscillatorTo(tm, avg) ==
  LET side == SignOf(tm - avg)
  IN  IF \/ AbsOf(tm - avg) >= 14
         \/ Beyond(tm, avg, 650, 350, 1)
         \/ Beyond(tm, avg, 600, 400, 8)
      THEN 15 * side ELSE 0

\* From fifty down the average must be below 49.9, and less is asked of a
\* fall than of a rise.
PositionBias(tm, avg) ==
  LET side   == SignOf(tm - avg)
      gap    == AbsOf(tm - avg)
      rises(level, g) == side = 1 /\ tm >= level /\ avg >= level /\ gap >= g
      falls(g)        == side = -1 /\ tm <= 500 /\ avg <= 499 /\ gap >= g
  IN  IF Beyond(tm, avg, 650, 350, 1) \/ Beyond(tm, avg, 600, 400, 25) THEN 20 * side
      ELSE IF rises(550, 30) \/ rises(510, 35) THEN 20
      ELSE IF falls(14) THEN -20
      ELSE IF rises(500, 30) THEN 10
      ELSE IF falls(10) THEN -10
      ELSE 0

\* A gap of ten points overrides a bias of the other sign or of none.
OverrideBias(tm, avg) ==
  IF AbsOf(tm - avg) >= 100 THEN 10 * SignOf(tm - avg) ELSE 0

BiasWithOverride(tm, avg) ==
  LET bias == PositionBias(tm, avg)
      over == OverrideBias(tm, avg)
  IN  IF over # 0 /\ SignOf(over) # SignOf(bias) THEN over ELSE bias

\* Faulty variant: the crossing of fifty asks for the gap only.
MidCrossing_AnySide(tm, avg) ==
  IF AbsOf(tm - avg) < 34 THEN 0
  ELSE IF tm >= 505 THEN 10 ELSE IF tm <= 495 THEN -10 ELSE 0

MidCrossing(tm, avg) ==
  IF AbsOf(tm - avg) < 34 THEN 0
  ELSE IF tm >= 505 /\ avg <= 500 THEN 10
  ELSE IF tm <= 495 /\ avg >= 500 THEN -10
  ELSE 0

XScore(tm, avg) == OscillatorTo(tm, avg) + BiasWithOverride(tm, avg) + MidCrossing(tm, avg)

-----------------------------------------------------------------------------
(* HiLo, the moving averages and the total.                                *)

\* The HiLo points of a thrust, with 15 more when SlowD's cycle agrees.
HiLoOutput(thrust, cycle) ==
  5 * thrust + (IF thrust # 0 /\ cycle = thrust THEN 15 * thrust ELSE 0)

\* The order of the averages is weighed by pair: short compares e10 with e20,
\* fastMid e10 with s50, slowMid e20 with s50, long s50 with s200.  A pair is
\* 1 when its first average is above, -1 when below, and 0 when they are equal
\* or one of them does not exist yet.
CountFor(side, a) ==
  (IF a.short = side THEN 2 ELSE 0) + (IF a.fastMid = side THEN 3 ELSE 0)
    + (IF a.slowMid = side THEN 3 ELSE 0) + (IF a.long = side THEN 2 ELSE 0)

CountScore(count, has200) ==
  IF has200
  THEN IF count = 10 THEN 35
       ELSE IF count >= 7 THEN 30
       ELSE IF count >= 5 THEN 20
       ELSE IF count >= 3 THEN 10
       ELSE IF count >= 1 THEN 5
       ELSE 0
  ELSE IF count >= 7 THEN 35
  ELSE IF count >= 5 THEN 25
  ELSE IF count >= 3 THEN 10
  ELSE 0

BullMA(a, has200) == CountScore(CountFor(1, a), has200)
BearMA(a, has200) == -CountScore(CountFor(-1, a), has200)

\* The parts of a bar: x the composite score, hilo, a the pairs, has200,
\* atr and macd 5, -5 (macd also 0), and belowLong an intraday close below
\* the 200-bar average.
BaseScore(b) ==
  b.x + b.hilo + BullMA(b.a, b.has200) + BearMA(b.a, b.has200) + b.atr + b.macd

Penalised(b) == b.belowLong /\ b.has200 /\ BaseScore(b) >= -95 /\ BaseScore(b) <= 100

TotalScore(b) == BaseScore(b) + (IF Penalised(b) THEN -5 ELSE 0)

\* The trend and the momentum percentages, times six.
TrendScore6(b) ==
  15 * (BullMA(b.a, b.has200) + BearMA(b.a, b.has200) + b.atr)
    - (IF Penalised(b) THEN 30 ELSE 0)

MomoScore6(b) == 10 * (b.x + b.hilo + b.macd)

Classify(total) ==
  IF total >= 100 THEN "max_bull"
  ELSE IF total >= 75 THEN "bull"
  ELSE IF total >= 45 THEN "neutral_up"
  ELSE IF total <= -100 THEN "max_bear"
  ELSE IF total <= -75 THEN "bear"
  ELSE IF total <= -45 THEN "neutral_down"
  ELSE "neutral"

-----------------------------------------------------------------------------
(* Pullbacks, moves and what the chart marks.                              *)

\* What the low or the high of a bar came near of, by the average's length.
Touches == {"low10", "low20", "high10", "high20"}

PullbackFlags(total, touches) ==
  {p \in {"max_bull", "bull", "max_bear", "bear"} :
     CASE p = "max_bull" -> total >= 95 /\ "low10" \in touches
       [] p = "bull"     -> total >= 75 /\ total < 100 /\ "low20" \in touches
       [] p = "max_bear" -> total <= -95 /\ "high10" \in touches
       [] p = "bear"     -> total <= -75 /\ total > -100 /\ "high20" \in touches}

\* A pullback is signalled on the first bar of a run with its flag.
NewPullbacks(flagsBefore, total, touches) == PullbackFlags(total, touches) \ flagsBefore

\* The moves from the score of the last bar to this one's.
WeakeningMoves(old, total) ==
  {m \in {"max_bull", "bull", "max_bear", "bear"} :
     CASE m = "max_bull" -> old >= 95 /\ total <= 65
       [] m = "bull"     -> old >= 75 /\ old < 95 /\ total <= 55
       [] m = "max_bear" -> old <= -95 /\ total >= -65
       [] m = "bear"     -> old <= -75 /\ old > -95 /\ total >= -55}

ResolvingMoves(old, total) ==
  (IF old <= 45 /\ total >= 75 THEN {"neutral_to_bull"} ELSE {})
    \cup (IF old >= -35 /\ total <= -80 THEN {"neutral_to_bear"} ELSE {})

\* The explanation of the latest bar.
Explanation(old, total, flagsBefore, touches) ==
  [reversal |-> WeakeningMoves(old, total) # {},
   pullback |-> NewPullbacks(flagsBefore, total, touches) # {},
   noTrade  |-> Classify(total) = "neutral"]

\* The markers of a bar on the candles.
CandleMarkers(old, total, flagsBefore, touches) ==
  LET new == NewPullbacks(flagsBefore, total, touches)
  IN  (IF new \cap {"max_bull", "bull"} # {} THEN {"bullish_pullback_context"} ELSE {})
        \cup (IF new \cap {"max_bear", "bear"} # {} THEN {"bearish_rally_context"} ELSE {})
        \cup (IF WeakeningMoves(old, total) # {} THEN {"reversal_warning"} ELSE {})
        \cup ResolvingMoves(old, total)

-----------------------------------------------------------------------------
(* Squeeze Pro: the Bollinger band against three Keltner bands, which are  *)
(* the wider the lower the squeeze.                                        *)

SqueezeState(band, range) ==
  IF 2 * band <= 2 * range THEN "high"
  ELSE IF 2 * band <= 3 * range THEN "mid"
  ELSE IF 2 * band <= 4 * range THEN "low"
  ELSE "none"

\* The oscillator against its last value; on the first bar that has one, it
\* is compared with itself.
OscillatorState(value, before) ==
  CASE before < value /\ value >= 0  -> "up"
    [] before < value /\ value < 0   -> "down_decreasing"
    [] before >= value /\ value >= 0 -> "up_decreasing"
    [] OTHER                         -> "down"

-----------------------------------------------------------------------------
(* Properties.                                                             *)

\* The composite score never argues with the oscillator: whatever thresholds
\* a pair of values is caught by, the points have the sign of the gap, they
\* stay within 45, and a gap of 1.4 always scores.
CompositeSides(tm, avg) ==
  /\ AbsOf(XScore(tm, avg)) <= 45
  /\ XScore(tm, avg) # 0 => SignOf(XScore(tm, avg)) = SignOf(tm - avg)
  /\ AbsOf(tm - avg) >= 14 => AbsOf(XScore(tm, avg)) >= 15

\* The total stays within 110 points, the trend within 100 per cent but for
\* the intraday penalty, and the momentum within 117 (its 70 points are
\* divided by 60); the extremes need the averages, the score and HiLo to
\* agree, and with a bearish count above a bullish one the total cannot be
\* a maximum bull.
ScoreWithinRange(b) ==
  /\ AbsOf(TotalScore(b)) <= 110
  /\ TrendScore6(b) <= 600 /\ TrendScore6(b) >= -630
  /\ AbsOf(MomoScore6(b)) <= 700
  /\ Classify(TotalScore(b)) = "max_bull" => BullMA(b.a, b.has200) > -BearMA(b.a, b.has200)

\* A bar is never at once marked for a bullish pullback and a bearish rally,
\* a warned reversal is never a pullback of the side it came from, and a bar
\* without direction is never a pullback.
MarksAreConsistent(old, total, flagsBefore, touches) ==
  LET marks == CandleMarkers(old, total, flagsBefore, touches)
      told  == Explanation(old, total, flagsBefore, touches)
  IN  /\ ~({"bullish_pullback_context", "bearish_rally_context"} \subseteq marks)
      /\ "max_bull" \in WeakeningMoves(old, total) \/ "bull" \in WeakeningMoves(old, total)
           => "bullish_pullback_context" \notin marks
      /\ told.noTrade => ~told.pullback
      /\ told.reversal <=> "reversal_warning" \in marks
=============================================================================
