------------------------------ MODULE BarScans ------------------------------
(***************************************************************************)
(* The studies that are read over the bars of one symbol from the oldest   *)
(* to the newest: the two of HacoScan, the stops of AtrStop and, here, the *)
(* True Momentum trend direction and the HiLo thrust.                      *)
(*                                                                         *)
(* The oscillator and its average are computed over the bars of a higher   *)
(* timeframe and copied to each bar; the direction only asks on which side *)
(* of the average the oscillator is, and whether it is nine points or more *)
(* away from it.  With fewer than two bars of the higher timeframe both    *)
(* are 50 on every bar and there is no direction: here, a scan that stays  *)
(* on the average and never becomes warm.                                  *)
(***************************************************************************)
EXTENDS HacoScan, AtrStop

VARIABLES
  seen,       \* bars read, up to two
  warm,       \* the bar max(L1, L2) + 25 of a series that is not neutral has been read
  rel,        \* side of the average on the last bar: -1, 0 or 1
  relBefore,  \* and on the bar before
  crossed,    \* the crossing of the last bar: 1 up, -1 down, 0 none
  direction,  \* the trend direction: 0 before that bar
  signal,     \* the new-trend signal of the last bar
  thrust      \* HiLo thrust: 1, -1, or 0 before the first signal

trendVars == <<seen, warm, rel, relBefore, crossed, direction, signal, thrust>>

TrendInit ==
  /\ seen = 0 /\ warm = FALSE
  /\ rel = 0 /\ relBefore = 0 /\ crossed = 0
  /\ direction = 0 /\ signal = 0 /\ thrust = 0

\* crosses_above and crosses_below against the average; the first bar has
\* nothing to cross from.
Crossing(r) ==
  IF seen = 0 THEN 0
  ELSE IF rel <= 0 /\ r > 0 THEN 1
  ELSE IF rel >= 0 /\ r < 0 THEN -1
  ELSE 0

\* A strong trend crosses by nine points or more; a confirmed one crossed on
\* the last bar and is still on that side.
FinalSide(r, wide) ==
  IF Crossing(r) # 0 /\ wide THEN Crossing(r)
  ELSE IF crossed # 0 /\ r = crossed THEN crossed
  ELSE 0

\* Faulty variant: only a strong crossing counts.
TrendDirection_StrongOnly(r, wide, isWarm) ==
  IF ~isWarm THEN 0
  ELSE IF Crossing(r) # 0 /\ wide THEN Crossing(r)
  ELSE IF direction # 0 THEN direction
  ELSE IF r > 0 THEN 1 ELSE -1

\* Before the warm bar there is no direction; on it, without a signal, the
\* side decides, and a tie counts as down.
TrendDirection(r, wide, isWarm) ==
  IF ~isWarm THEN 0
  ELSE IF FinalSide(r, wide) # 0 THEN FinalSide(r, wide)
  ELSE IF direction # 0 THEN direction
  ELSE IF r > 0 THEN 1 ELSE -1

NewSignal(r, wide, isWarm) ==
  IF isWarm /\ direction # FinalSide(r, wide) THEN FinalSide(r, wide) ELSE 0

\* The thrust follows the last HiLo signal; on a bar with both, the buy.
Thrust(anyBuy, anySell) == IF anyBuy THEN 1 ELSE IF anySell THEN -1 ELSE thrust

ReadTrendBar(r, wide, isWarm, anyBuy, anySell) ==
  /\ seen' = IF seen = 2 THEN 2 ELSE seen + 1
  /\ warm' = isWarm
  /\ rel' = r /\ relBefore' = rel
  /\ crossed' = Crossing(r)
  /\ direction' = TrendDirection(r, wide, isWarm)
  /\ signal' = NewSignal(r, wide, isWarm)
  /\ thrust' = Thrust(anyBuy, anySell)

\* The oscillator is not away from its average when it is on it.
TrendNext ==
  \E r \in -1..1, wide, anyBuy, anySell \in BOOLEAN, isWarm \in {warm, TRUE} :
    /\ wide => r # 0
    /\ isWarm => seen > 0
    /\ ReadTrendBar(r, wide, isWarm, anyBuy, anySell)

TrendSpec == TrendInit /\ [][TrendNext]_trendVars

-----------------------------------------------------------------------------
(* Properties of the trend.                                                *)

TrendTypeOK ==
  /\ seen \in 0..2 /\ warm \in BOOLEAN
  /\ {rel, relBefore, crossed, direction, signal, thrust} \subseteq -1..1

\* The direction is latched by crossings and yet never lags: from the warm
\* bar on there is one, and after two bars on one side of the average it is
\* that side's -- whether the crossing was strong, was confirmed a bar later,
\* or happened before the warm bar.
DirectionFollowsSide ==
  warm => /\ direction # 0
          /\ seen = 2 /\ rel # 0 /\ relBefore = rel => direction = rel

\* Every turn of the direction is announced by a signal of its side, and a
\* signal never repeats the direction that held: only the first direction
\* may come without one.
TurnsAreSignalled ==
  [][/\ direction # 0 /\ direction' # direction => signal' = direction'
     /\ signal' # 0 => direction' = signal' /\ direction # signal']_trendVars

-----------------------------------------------------------------------------
(* The scans together: each keeps what it carries from bar to bar apart    *)
(* from the others, and is read on its own charts.                         *)

scanVars == <<hacoVars, atrVars, trendVars>>

ScanInit == HacoInit /\ AtrInit /\ TrendInit

HacoBar  == HacoNext /\ UNCHANGED <<atrVars, trendVars>>
StopBar  == AtrNext /\ UNCHANGED <<hacoVars, trendVars>>
TrendBar == TrendNext /\ UNCHANGED <<hacoVars, atrVars>>

ScanNext == HacoBar \/ StopBar \/ TrendBar

ScanSpec == ScanInit /\ [][ScanNext]_scanVars

\* The direction of each scan is that of its trend once the trend is clear, and
\* a stop is never beyond the close it protects.
ScansFollow == HacoFollowsTrend /\ HacoltFollowsTrend /\ DirectionFollowsSide /\ StopProtects
=============================================================================
