--------------------------- MODULE HeatmapScores ---------------------------
(***************************************************************************)
(* What a heatmap shows of its rows: the cells of the five timeframes, the *)
(* scores over several timeframes, the tags of a row, the summary of a     *)
(* category, the changes since an earlier snapshot, and the lists of the   *)
(* report.  The HACO board shows directions where the momentum board has   *)
(* scores.                                                                 *)
(*                                                                         *)
(* A row is a record of its symbol and its cells; a cell has a status and, *)
(* when that is "ok", a value.  Means are kept as whole numbers: a long,   *)
(* short or strength score is its value times Unit, so that the two        *)
(* decimals that the code rounds to are not needed.                        *)
(*                                                                         *)
(* Left out: reasons, labels, sources and times of a cell, and the HTML.   *)
(***************************************************************************)
EXTENDS Integers, FiniteSets, SequencesExt

Timeframes == {"1W", "1D", "4H", "1H", "30M"}
Slow       == {"1W", "1D"}
Quick      == {"4H", "1H", "30M"}
Unit       == 18

\* A number that there is none of: None in the code.
Missing == -1000000

NumberIn(v) == v # Missing

-----------------------------------------------------------------------------
(* Cells.                                                                  *)

\* The result of asking for one symbol and timeframe; fetch is what the
\* market data service answered, scorer what became of its bars.
PayloadStatus(supported, fetch, scorer) ==
  IF ~supported THEN "unsupported"
  ELSE IF fetch = "not_found" THEN "unsupported"
  ELSE IF fetch = "not_entitled" THEN "unavailable"
  ELSE IF fetch = "raises" THEN "error"
  ELSE IF fetch = "no_bars" THEN "unavailable"
  ELSE IF scorer = "raises" THEN "error"
  ELSE "ok"

\* A payload may hold no score: too few bars.
ScoreCell(status, score) ==
  IF status = "ok" /\ ~NumberIn(score)
  THEN [status |-> "unavailable", value |-> Missing]
  ELSE [status |-> status, value |-> IF status = "ok" THEN score ELSE Missing]

\* One refresh: the timeframes in order, until the time of the request is
\* used up; a row past the limit of its category, or in a category past the
\* limit of the request, is not asked for at all.
BuildCells(order, refused, budget, ask(_)) ==
  [tf \in Timeframes |->
     IF refused \/ \E i \in (budget + 1)..Len(order) : order[i] = tf
     THEN [status |-> "unavailable", value |-> Missing]
     ELSE ask(tf)]

ScoreAt(cells, tf) ==
  IF cells[tf].status = "ok" THEN cells[tf].value ELSE Missing

AllAt(cells, tfs) == \A tf \in tfs : NumberIn(ScoreAt(cells, tf))

LongTerm(cells) ==
  IF AllAt(cells, Slow) THEN 9 * MapThenSumSet(LAMBDA tf : cells[tf].value, Slow) ELSE Missing

ShortTerm(cells) ==
  IF AllAt(cells, Quick) THEN 6 * MapThenSumSet(LAMBDA tf : cells[tf].value, Quick) ELSE Missing

\* Faulty variant: the day counts once.
Strength_DayOnce(cells) ==
  IF AllAt(cells, Timeframes)
  THEN 6 * cells["1W"].value + 3 * MapThenSumSet(LAMBDA tf : cells[tf].value, Timeframes \ {"1W"})
  ELSE Missing

\* The week and the day count three times each.
Strength(cells) ==
  IF AllAt(cells, Timeframes)
  THEN 6 * MapThenSumSet(LAMBDA tf : cells[tf].value, Slow)
       + 2 * MapThenSumSet(LAMBDA tf : cells[tf].value, Quick)
  ELSE Missing

\* The strongest squeeze among the timeframes that have one; of equals the
\* first.
SqueezeRank(state) ==
  CASE state = "high" -> 3 [] state = "mid" -> 2 [] state = "low" -> 1 [] OTHER -> 0

SqueezeCell(order, squeeze) ==
  LET ok   == SelectSeq(order, LAMBDA tf : squeeze[tf] # "unknown")
      best == {i \in DOMAIN ok : \A j \in DOMAIN ok :
                 \/ SqueezeRank(squeeze[ok[j]]) < SqueezeRank(squeeze[ok[i]])
                 \/ /\ SqueezeRank(squeeze[ok[j]]) = SqueezeRank(squeeze[ok[i]])
                    /\ i <= j}
  IN IF ok = <<>> THEN [from |-> "none", state |-> "unknown"]
     ELSE LET i == CHOOSE i \in best : TRUE
          IN [from |-> ok[i], state |-> squeeze[ok[i]]]

-----------------------------------------------------------------------------
(* Rows and categories.                                                    *)

Availability(cells) ==
  LET has(s) == \E tf \in Timeframes : cells[tf].status = s
      all(s) == \A tf \in Timeframes : cells[tf].status = s
  IN IF all("ok") THEN "fresh"
     ELSE IF has("ok") THEN "partial"
     ELSE IF all("unsupported") THEN "unsupported"
     ELSE IF has("error") THEN "failed"
     ELSE "unavailable"

\* All but one of the values there are.
Mostly(cells, sign(_)) ==
  LET valued == {tf \in Timeframes : NumberIn(ScoreAt(cells, tf))}
      agree  == {tf \in valued : sign(cells[tf].value)}
  IN valued # {} /\ Cardinality(agree) >= Max({1, Cardinality(valued) - 1})

MostlyPositive(cells) == Mostly(cells, LAMBDA v : v > 0)
MostlyNegative(cells) == Mostly(cells, LAMBDA v : v < 0)

AtLeast(v, bound) == NumberIn(v) /\ v >= bound * Unit
AtMost(v, bound)  == NumberIn(v) /\ v <= bound * Unit

RowTags(cells, change) ==
  LET long     == LongTerm(cells)
      short    == ShortTerm(cells)
      strength == Strength(cells)
      both     == NumberIn(long) /\ NumberIn(short)
      gains    == both /\ short >= long + 20 * Unit
      first ==
        {t \in {"leader"} : AtLeast(strength, 75) /\ AtLeast(long, 25) /\ AtLeast(short, 25)}
        \cup {t \in {"pullback"} : both /\ AtLeast(long, 25) /\ short < long - 15 * Unit}
        \cup {t \in {"acceleration"} : gains}
        \cup {t \in {"reversal"} : gains /\ long < 0}
        \cup {t \in {"bearish"} : MostlyNegative(cells) /\ AtMost(strength, -25)}
      tags ==
        first
        \cup {t \in {"leader"} :
                first = {} /\ MostlyPositive(cells) /\ AtLeast(strength, 25)}
        \cup {t \in {"acceleration"} : AtLeast(change, 10)}
  IN CASE Availability(cells) = "unsupported"                 -> {"unsupported"}
       [] Availability(cells) \in {"unavailable", "failed"}   -> {"mixed"}
       [] OTHER -> IF tags = {} THEN {"mixed"} ELSE tags

\* rows: a function from the ids of a category's rows to their cells.
CategoryStatus(rows) ==
  LET fresh == {r \in DOMAIN rows : Availability(rows[r]) = "fresh"}
      lost  == {r \in DOMAIN rows : Availability(rows[r]) \in {"unavailable", "failed"}}
  IN IF fresh = DOMAIN rows /\ fresh # {} THEN "fresh"
     ELSE IF fresh # {} THEN "partial"
     ELSE IF lost # {} THEN "failed"
     ELSE "not_refreshed"

CategorySummary(rows, changes) ==
  LET count(P(_)) == Cardinality({r \in DOMAIN rows : P(r)})
      is(r, a)    == Availability(rows[r]) = a
  IN [ok          |-> count(LAMBDA r : is(r, "fresh")),
      unsupported |-> count(LAMBDA r : is(r, "unsupported")),
      lost        |-> count(LAMBDA r : is(r, "unavailable") \/ is(r, "failed")),
      bullish     |-> count(LAMBDA r : /\ MostlyPositive(rows[r])
                                       /\ NumberIn(Strength(rows[r]))
                                       /\ Strength(rows[r]) > 25 * Unit),
      bearish     |-> count(LAMBDA r : /\ MostlyNegative(rows[r])
                                       /\ NumberIn(Strength(rows[r]))
                                       /\ Strength(rows[r]) < -25 * Unit),
      improving   |-> count(LAMBDA r : NumberIn(changes[r]) /\ changes[r] > 0),
      weakening   |-> count(LAMBDA r : NumberIn(changes[r]) /\ changes[r] < 0),
      status      |-> CategoryStatus(rows)]

\* The status of a snapshot, over the rows of all its categories.
SnapshotStatus(rows) ==
  LET ok == {r \in DOMAIN rows : \A tf \in Timeframes : rows[r][tf].status = "ok"}
  IN IF ok # {} /\ ok = DOMAIN rows THEN "fresh"
     ELSE IF ok # {} THEN "partial"
     ELSE "failed"

-----------------------------------------------------------------------------
(* Changes since an earlier snapshot, and the report.                      *)

\* The change of a row's strength: none for a row the earlier one lacks.
StrengthChanges(rows, earlier) ==
  [r \in DOMAIN rows |->
     IF /\ r \in DOMAIN earlier
        /\ NumberIn(Strength(rows[r]))
        /\ NumberIn(Strength(earlier[r]))
     THEN Strength(rows[r]) - Strength(earlier[r])
     ELSE Missing]

\* A change of nothing at all sorts like one that is missing: the code
\* writes "or -9999".
RisingKey(change)  == IF NumberIn(change) /\ change # 0 THEN change ELSE -9999 * Unit
FallingKey(change) == IF NumberIn(change) /\ change # 0 THEN change ELSE 9999 * Unit

StrongestKey(cells) == IF NumberIn(Strength(cells)) THEN Strength(cells) ELSE -9999 * Unit
WeakestKey(cells)   == IF NumberIn(Strength(cells)) THEN Strength(cells) ELSE 9999 * Unit

\* The rows with the greatest keys, as many as the report lists.
Best(key, top) ==
  {r \in DOMAIN key : Cardinality({q \in DOMAIN key : key[q] > key[r]}) < top}

\* The rows of the report, of rows with these changes and tags.
ReportLists(rows, earlier, change, tags, top) ==
  LET tagged(ts)   == {r \in DOMAIN rows : tags[r] \cap ts # {}}
      turned(a, b) == {r \in DOMAIN rows \cap DOMAIN earlier :
                         /\ (Availability(earlier[r]) = "fresh") = a
                         /\ (Availability(rows[r]) = "fresh") = b}
  IN [strongest  |-> Best([r \in DOMAIN rows |-> StrongestKey(rows[r])], top),
      weakest    |-> Best([r \in DOMAIN rows |-> -WeakestKey(rows[r])], top),
      risers     |-> Best([r \in DOMAIN rows |-> RisingKey(change[r])], top),
      fallers    |-> Best([r \in DOMAIN rows |-> -FallingKey(change[r])], top),
      bullish    |-> tagged({"leader", "acceleration"}),
      bearish    |-> tagged({"bearish"}),
      pullbacks  |-> tagged({"pullback"}),
      reversals  |-> tagged({"reversal"}),
      appeared   |-> turned(FALSE, TRUE),
      vanished   |-> turned(TRUE, FALSE)]

Report(rows, change, earlier, top) ==
  ReportLists(rows, earlier, change, [r \in DOMAIN rows |-> RowTags(rows[r], change[r])], top)

-----------------------------------------------------------------------------
(* The HACO board: a cell's value is 1 for long and -1 for short.          *)

HacoCell(status, state) ==
  ScoreCell(status, CASE state = "green" -> 1 [] state = "red" -> -1 [] OTHER -> Missing)

Direction(cells, tf) == IF cells[tf].status = "ok" THEN cells[tf].value ELSE 0

\* In percent, over the timeframes that have a direction.
Alignment(cells, weight) ==
  LET counted == {tf \in DOMAIN weight : Direction(cells, tf) # 0}
      total   == MapThenSumSet(LAMBDA tf : weight[tf], counted)
  IN IF total = 0 THEN Missing
     ELSE (100 * MapThenSumSet(LAMBDA tf : weight[tf] * Direction(cells, tf), counted)) \div total

Bias(alignment) ==
  IF ~NumberIn(alignment) THEN "none"
  ELSE IF alignment >= 60 THEN "LONG"
  ELSE IF alignment <= -60 THEN "SHORT"
  ELSE "MIXED"

HacoTags(cells, overall, shortTerm) ==
  LET valued == {tf \in Timeframes : Direction(cells, tf) # 0}
      mixed  == NumberIn(overall) /\ overall > -60 /\ overall < 60
      tags   ==
        {t \in {"pullback"} : Direction(cells, "1D") = 1 /\ NumberIn(shortTerm) /\ shortTerm <= 0}
        \cup {t \in {"bounce"} :
                Direction(cells, "1D") = -1 /\ NumberIn(shortTerm) /\ shortTerm >= 0}
        \cup {t \in {"mixed"} : mixed}
  IN IF valued = {} THEN {"unsupported"}
     ELSE IF \A tf \in valued : Direction(cells, tf) = 1 THEN {"all_long"}
     ELSE IF \A tf \in valued : Direction(cells, tf) = -1 THEN {"all_short"}
     ELSE IF tags = {} THEN {"mixed"} ELSE tags

HacoWeights == [tf \in Timeframes |->
  IF tf \in Slow THEN 3 ELSE IF tf = "4H" THEN 2 ELSE 1]

HacoRow(cells) ==
  LET overall == Alignment(cells, HacoWeights)
      quick   == Alignment(cells, [tf \in Quick |-> HacoWeights[tf]])
  IN [overall |-> Bias(overall), percent |-> overall, short |-> Bias(quick),
      tags |-> HacoTags(cells, overall, quick)]

\* What changed since the earlier snapshot; a row it lacks is a change too.
HacoChange(cells, earlier) ==
  LET turned == {tf \in Timeframes : /\ Direction(cells, tf) # 0
                                     /\ Direction(earlier, tf) # 0
                                     /\ Direction(cells, tf) # Direction(earlier, tf)}
      now    == HacoRow(cells)
      before == HacoRow(earlier)
      moved  == NumberIn(now.percent) /\ NumberIn(before.percent) /\ now.percent # before.percent
  IN [turned |-> turned, prior |-> before.overall,
      changed |-> now.overall # before.overall \/ turned # {} \/ moved]

\* A flip is fresh also when the earlier snapshot had no bias at all.
HacoFlips(cells, change) ==
  LET bias == HacoRow(cells).overall
  IN {t \in {"fresh_long"} : bias = "LONG" /\ change.prior # "LONG"}
     \cup {t \in {"fresh_short"} : bias = "SHORT" /\ change.prior # "SHORT"}

\* rows, earlier: functions from the ids of a category's rows to their cells;
\* compared: there is an earlier snapshot.
HacoSummary(rows, earlier, compared) ==
  LET count(P(_))  == Cardinality({r \in DOMAIN rows : P(r)})
      bias(r)      == HacoRow(rows[r]).overall
      is(r, a)     == Availability(rows[r]) = a
  IN [long        |-> count(LAMBDA r : bias(r) = "LONG"),
      short       |-> count(LAMBDA r : bias(r) = "SHORT"),
      mixed       |-> count(LAMBDA r : bias(r) = "MIXED"),
      unsupported |-> count(LAMBDA r : is(r, "unsupported")),
      lost        |-> count(LAMBDA r : is(r, "unavailable") \/ is(r, "failed")),
      changed     |-> count(LAMBDA r : /\ compared
                                       /\ \/ r \notin DOMAIN earlier
                                          \/ HacoChange(rows[r], earlier[r]).changed),
      status      |-> CategoryStatus(rows)]

-----------------------------------------------------------------------------
(* Properties.                                                             *)

\* The figures of a row agree with one another: the strength, computed on its
\* own, lies between the long and the short score; no row leads and is bearish;
\* the HACO bias sides with a slow timeframe where one has a direction, and a
\* row that every timeframe agrees on is of that bias (momentum_heatmap.py,
\* haco_heatmap.py).
BoardAgrees(cells, change, directions) ==
  LET strength == Strength(cells)
      tags     == RowTags(cells, change)
      haco     == HacoRow(directions)
      slow     == {Direction(directions, tf) : tf \in Slow}
      sided(bias, side, tag) ==
        /\ haco.overall = bias => side \in slow \/ slow = {0}
        /\ tag \in haco.tags => haco.overall = bias
  IN /\ NumberIn(strength) => /\ strength >= Min({LongTerm(cells), ShortTerm(cells)})
                              /\ strength <= Max({LongTerm(cells), ShortTerm(cells)})
     /\ ~({"leader", "bearish"} \subseteq tags)
     /\ sided("LONG", 1, "all_long") /\ sided("SHORT", -1, "all_short")

\* The report keeps a row that rose before one that did not, and one that fell
\* likewise; a row without all its scores is listed among the strongest only
\* when no other is left out; and no row appears and vanishes at once
\* (momentum_heatmap_reporting.py).
ReportTells(rows, earlier, top) ==
  \E change \in {StrengthChanges(rows, earlier)} : \E report \in {Report(rows, change, earlier, top)} :
    /\ \A r, q \in DOMAIN rows :
         /\ r \in report.risers /\ q \notin report.risers /\ change[q] > 0 => change[r] >= change[q]
         /\ r \in report.fallers /\ q \notin report.fallers /\ NumberIn(change[q]) /\ change[q] < 0
              => NumberIn(change[r]) /\ change[r] <= change[q]
         /\ r \in report.strongest /\ q \notin report.strongest
              => NumberIn(Strength(rows[r])) \/ ~NumberIn(Strength(rows[q]))
    /\ report.appeared \cap report.vanished = {}
=============================================================================
