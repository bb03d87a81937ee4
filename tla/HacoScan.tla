------------------------------ MODULE HacoScan ------------------------------
(***************************************************************************)
(* The two Heikin-Ashi indicators, read over the bars of one symbol from   *)
(* the oldest to the newest: HACO after the MetaStock formula, and HACOLT  *)
(* after Thinkorswim's.  Both keep an upward and a downward trend flag and *)
(* turn only when one of the flags goes while the other is there.          *)
(*                                                                         *)
(* A bar is what the formulas ask of it: its prices and averages appear as *)
(* the outcomes of the comparisons that the code makes.  The first bar has *)
(* no previous one, so what compares with that is false.                   *)
(***************************************************************************)
EXTENDS Naturals

Bar == [green:  BOOLEAN,   \* Heikin-Ashi close >= Heikin-Ashi open
        gains:  BOOLEAN,   \* c >= Heikin-Ashi close, or h or l above the last
        zlUp:   BOOLEAN,   \* zero-lag difference >= 0
        zlDown: BOOLEAN,   \* zero-lag difference < 0, with the other average
        bull:   BOOLEAN,   \* c >= o
        above:  BOOLEAN,   \* c >= the previous close
        small:  BOOLEAN,   \* a short body; HACOLT's bound is wider
        reachUp: BOOLEAN,  \* h >= the previous low
        reachDn: BOOLEAN]  \* l <= the previous high

VARIABLES
  started,            \* a bar has been read
  green,              \* that bar's Heikin-Ashi colour
  upKeep, upAll, utr, \* HACO's upward trend
  dnKeep, dnAll, dtr, \* HACO's downward trend
  result,             \* HACO is green
  keepGreen, greenAll, ltUtr,
  keepRed, redAll, ltDtr,
  upwSave,            \* HACOLT's last turn was upward
  neutral,
  turned              \* HACOLT has turned at least once

hacoVars == <<started, green, upKeep, upAll, utr, dnKeep, dnAll, dtr, result,
              keepGreen, greenAll, ltUtr, keepRed, redAll, ltDtr, upwSave, neutral, turned>>

HacoInit ==
  /\ started = FALSE /\ green = FALSE
  /\ upKeep = FALSE /\ upAll = FALSE /\ utr = FALSE
  /\ dnKeep = FALSE /\ dnAll = FALSE /\ dtr = FALSE
  /\ result = FALSE
  /\ keepGreen = FALSE /\ greenAll = FALSE /\ ltUtr = FALSE
  /\ keepRed = FALSE /\ redAll = FALSE /\ ltDtr = FALSE
  /\ upwSave = FALSE /\ neutral = FALSE /\ turned = FALSE

\* Faulty variant: the downward alert looks at this bar only.
DownAlert_NoLookback(b) == ~b.green /\ ~started

\* Alert(condition, 2): on this bar or on the one before.
UpAlert(b)   == b.green \/ (started /\ green)
DownAlert(b) == ~b.green \/ (started /\ ~green)

\* The flags of HACO on this bar.  "A or (B and C or D)", in the precedence
\* of MetaStock.
Up(b)      == UpAlert(b) \/ b.gains \/ b.zlUp
UpToo(b)   == Up(b) \/ (upKeep /\ b.bull) \/ (started /\ b.above)
Utr(b)     == UpToo(b) \/ (upAll /\ b.small /\ started /\ b.reachUp)

Down(b)    == DownAlert(b) \/ b.zlDown
DownToo(b) == Down(b) \/ (dnKeep /\ ~b.bull) \/ (started /\ ~b.above)
Dtr(b)     == DownToo(b) \/ (dnAll /\ b.small /\ started /\ b.reachDn)

\* The flags of HACOLT: the two alternatives need the flag of the last bar.
LtUp(b)    == Up(b)
LtUpToo(b) == LtUp(b) \/ (keepGreen /\ (b.bull \/ (started /\ b.above)))
LtUtr(b)   == LtUpToo(b) \/ (greenAll /\ b.small /\ started /\ b.reachUp)

LtDown(b)    == DownAlert(b) \/ b.zlDown
LtDownToo(b) == LtDown(b) \/ (keepRed /\ (~b.bull \/ (started /\ ~b.above)))
LtDtr(b)     == LtDownToo(b) \/ (redAll /\ b.small /\ started /\ b.reachDn)

\* A turn upward: the downward flag goes while the upward one is there.
TurnsUp(wasDown, isUp, isDown) == ~isDown /\ wasDown /\ isUp

\* Faulty variant: the first bar starts the state at red.
HacoResult_StartsRed(b) ==
  CASE TurnsUp(dtr, Utr(b), Dtr(b)) -> TRUE
    [] TurnsUp(utr, Dtr(b), Utr(b)) -> FALSE
    [] OTHER                        -> started /\ result

HacoResult(b) ==
  CASE TurnsUp(dtr, Utr(b), Dtr(b)) -> TRUE
    [] TurnsUp(utr, Dtr(b), Utr(b)) -> FALSE
    [] OTHER                        -> IF started THEN result ELSE b.green

LtTurnsUp(b)   == TurnsUp(ltDtr, LtUtr(b), LtDtr(b))
LtTurnsDown(b) == TurnsUp(ltUtr, LtDtr(b), LtUtr(b))

\* Faulty variant: a turn downward is not remembered.
UpwSave_UpOnly(b) == LtTurnsUp(b) \/ upwSave

UpwSave(b) == IF LtTurnsUp(b) \/ LtTurnsDown(b) THEN LtTurnsUp(b) ELSE upwSave

Buy(b) == LtTurnsUp(b) \/ (~LtTurnsDown(b) /\ UpwSave(b))

\* The strip is 100 on a buy, 50 while neutral and 0 otherwise; a close below
\* the long average ends the neutral stretch.
HacoltStrip == IF upwSave THEN 100 ELSE IF neutral THEN 50 ELSE 0

ReadBar(b, sells) ==
  /\ started' = TRUE /\ green' = b.green
  /\ upKeep' = Up(b) /\ upAll' = UpToo(b) /\ utr' = Utr(b)
  /\ dnKeep' = Down(b) /\ dnAll' = DownToo(b) /\ dtr' = Dtr(b)
  /\ result' = HacoResult(b)
  /\ keepGreen' = LtUp(b) /\ greenAll' = LtUpToo(b) /\ ltUtr' = LtUtr(b)
  /\ keepRed' = LtDown(b) /\ redAll' = LtDownToo(b) /\ ltDtr' = LtDtr(b)
  /\ upwSave' = UpwSave(b)
  /\ neutral' = (Buy(b) \/ (~sells /\ neutral))
  /\ turned' = (turned \/ LtTurnsUp(b) \/ LtTurnsDown(b))

HacoNext == \E b \in Bar, sells \in BOOLEAN : ReadBar(b, sells)

HacoSpec == HacoInit /\ [][HacoNext]_hacoVars

-----------------------------------------------------------------------------
(* Properties.                                                             *)

HacoTypeOK ==
  /\ {started, green, upKeep, upAll, utr, dnKeep, dnAll, dtr, result} \subseteq BOOLEAN
  /\ {keepGreen, greenAll, ltUtr, keepRed, redAll, ltDtr} \subseteq BOOLEAN
  /\ {upwSave, neutral, turned} \subseteq BOOLEAN

\* HACO cannot miss a turn, although it turns only on the bar where a flag
\* goes: no bar leaves both flags down, and when only one of them is up, the
\* state is that one's.
HacoFollowsTrend ==
  started => /\ utr \/ dtr
             /\ utr /\ ~dtr => result
             /\ dtr /\ ~utr => ~result

\* HACOLT is never a buy while only the downward flag is up, and once it has
\* turned it is one whenever only the upward flag is up.  Before its first
\* turn it is never a buy: it does not start from the colour of a bar.
HacoltFollowsTrend ==
  /\ ltDtr /\ ~ltUtr => HacoltStrip # 100
  /\ turned /\ ltUtr /\ ~ltDtr => HacoltStrip = 100
  /\ ~turned => HacoltStrip = 0
=============================================================================
