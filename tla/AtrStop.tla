------------------------------ MODULE AtrStop ------------------------------
(***************************************************************************)
(* The two trailing stops that are read over the bars of a symbol from the *)
(* oldest to the newest: the ATR trailing stop that is charted and         *)
(* reported, and the simpler one whose side counts five points in the True *)
(* Momentum score.  The distance of a stop from the close is a positive    *)
(* factor times an average of true ranges: here it is any member of Losses *)
(* (an average over a period smooths, it does not restrict).               *)
(***************************************************************************)
EXTENDS Integers, FiniteSetsExt

CONSTANTS Prices,     \* closes, highs and lows
          Losses,     \* factor times average true range
          FirstTrade  \* "long" or "short": the side of the first bar

ASSUME AtrAssumption ==
  /\ Prices \subseteq Int
  /\ Losses \subseteq Nat
  /\ FirstTrade \in {"long", "short"}

VARIABLES
  side,       \* "none" before the first bar, then "long" or "short"
  trail,      \* the stop of the last bar
  lastClose,
  flipped,    \* this bar gave a buy or a sell signal
  sinceFlip,  \* bars since the side was taken, capped by MaxSince
  scoreSide,  \* the same for the stop inside the score: 0, 1 or -1
  scoreStop

atrVars == <<side, trail, lastClose, flipped, sinceFlip, scoreSide, scoreStop>>

MaxSince == 3

AtrInit ==
  /\ side = "none" /\ trail = 0 /\ lastClose = 0
  /\ flipped = FALSE /\ sinceFlip = 0
  /\ scoreSide = 0 /\ scoreStop = 0

Longer(t, x)  == IF t > x THEN t ELSE x
Shorter(t, x) == IF t < x THEN t ELSE x

\* Twice the true range and twice the modified true range of a bar after the
\* previous one; avg is the average of high - low.
TrueRange2(b, p) == 2 * Max({b.h - b.l, b.h - p.c, p.c - b.h, b.l - p.c, p.c - b.l})

HighRef2(b, p) == 2 * (b.h - p.c) - (IF b.l <= p.h THEN 0 ELSE b.l - p.h)
LowRef2(b, p)  == 2 * (p.c - b.l) - (IF b.h >= p.l THEN 0 ELSE p.l - b.h)

\* Faulty variant: the gap is added instead of taken away.
ModifiedTrueRange2_GapAdded(b, p, avg) ==
  Max({Shorter(2 * (b.h - b.l), 3 * avg),
       2 * (b.h - p.c) + (IF b.l <= p.h THEN 0 ELSE b.l - p.h),
       LowRef2(b, p)})

ModifiedTrueRange2(b, p, avg) ==
  Max({Shorter(2 * (b.h - b.l), 3 * avg), HighRef2(b, p), LowRef2(b, p)})

\* A long is held while the close is above the stop; `prev_trail or close'
\* takes a stop of exactly 0 for no stop, and gives the long up.
HoldsLong(c)  == trail # 0 /\ c > trail
HoldsShort(c) == c < trail

\* Faulty variant: the stop follows the close down again.
LongTrail_Loose(c, loss) == c - loss

LongTrail(c, loss)  == Longer(trail, c - loss)
ShortTrail(c, loss) == Shorter(trail, c + loss)

TakeSide(s, c, loss, signal) ==
  /\ side' = s
  /\ trail' = IF s = "long" THEN c - loss ELSE c + loss
  /\ flipped' = signal /\ sinceFlip' = 0

KeepSide(stop) ==
  /\ trail' = stop
  /\ flipped' = FALSE
  /\ sinceFlip' = Shorter(MaxSince, sinceFlip + 1)
  /\ UNCHANGED side

\* The stop inside the score: the first bar is long, and a close on the stop
\* keeps the side.
ScoreStopStep(c, loss) ==
  IF scoreSide = 0
  THEN scoreSide' = 1 /\ scoreStop' = c - loss
  ELSE IF scoreSide = 1
       THEN IF c < scoreStop
            THEN scoreSide' = -1 /\ scoreStop' = c + loss
            ELSE scoreStop' = Longer(scoreStop, c - loss) /\ UNCHANGED scoreSide
       ELSE IF c > scoreStop
            THEN scoreSide' = 1 /\ scoreStop' = c - loss
            ELSE scoreStop' = Shorter(scoreStop, c + loss) /\ UNCHANGED scoreSide

\* The points the score takes from the side of its stop.
AtrValue == IF lastClose > scoreStop THEN 5 ELSE -5

FirstBar(c, loss) == side = "none" /\ TakeSide(FirstTrade, c, loss, FALSE)
StayLong(c, loss) == side = "long" /\ HoldsLong(c) /\ KeepSide(LongTrail(c, loss))
SellFlip(c, loss)  == side = "long" /\ ~HoldsLong(c) /\ TakeSide("short", c, loss, TRUE)
StayShort(c, loss) == side = "short" /\ HoldsShort(c) /\ KeepSide(ShortTrail(c, loss))
BuyFlip(c, loss)   == side = "short" /\ ~HoldsShort(c) /\ TakeSide("long", c, loss, TRUE)

ReadClose(c, loss) ==
  /\ FirstBar(c, loss) \/ StayLong(c, loss) \/ SellFlip(c, loss)
       \/ StayShort(c, loss) \/ BuyFlip(c, loss)
  /\ ScoreStopStep(c, loss)
  /\ lastClose' = c

AtrNext == \E c \in Prices, loss \in Losses : ReadClose(c, loss)

AtrSpec == AtrInit /\ [][AtrNext]_atrVars

-----------------------------------------------------------------------------
(* Properties.                                                             *)

\* A stop never lies beyond the close it protects, on either stop, and the
\* five points of the score are never taken from a short.
StopProtects ==
  /\ side = "long" => trail <= lastClose
  /\ side = "short" => trail >= lastClose
  /\ scoreSide = -1 => AtrValue = -5
  /\ scoreSide = 1 /\ AtrValue = -5 => lastClose = scoreStop

\* A stop only moves toward the price while the side is kept, and the side
\* is given up only when the close reaches the stop -- or, for a long, when
\* the stop happens to be exactly 0.
StopRatchets ==
  [][side # "none" =>
       /\ side' = side => IF side = "long" THEN trail' >= trail ELSE trail' <= trail
       /\ side' # side => /\ flipped'
                          /\ IF side = "long" THEN lastClose' <= trail \/ trail = 0
                             ELSE lastClose' >= trail]_atrVars

\* The modified range never exceeds the true range, and is never negative, so
\* that a stop is on the right side of the close.
RangeIsModest(b, p, avg) ==
  /\ ModifiedTrueRange2(b, p, avg) <= TrueRange2(b, p)
  /\ ModifiedTrueRange2(b, p, avg) >= 0
=============================================================================
