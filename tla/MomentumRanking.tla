-------------------------- MODULE MomentumRanking ---------------------------
(***************************************************************************)
(* What momentum may do to the recommendation queue: the bounded           *)
(* contribution of a symbol's momentum to a candidate's score, the guard   *)
(* that is to keep the score and the contribution telling the same, the    *)
(* answer the queue route builds of the ranked candidates, and the True    *)
(* Momentum families that the candidates are sorted into for a review.     *)
(*                                                                         *)
(* Pure operators.  Points of a contribution are in twentieths (HiLo adds  *)
(* quarters); a queue score is in millionths, rounded where the code       *)
(* rounds it.  With the delta scale at its default of 0.35 a twentieth     *)
(* moves a score by 175 millionths.                                        *)
(***************************************************************************)
EXTENDS Integers, Sequences, FiniteSets

Clamp(x, lo, hi) == IF x < lo THEN lo ELSE IF x > hi THEN hi ELSE x

Unity == 1000000
DeltaPerTwentieth == 175

-----------------------------------------------------------------------------
(* The mode and the direction.                                             *)

\* Faulty variant: the guard is not asked.
EffectiveMode_Unguarded(requested, allowed) ==
  IF requested \in {"off", "shadow", "active"} THEN requested ELSE "shadow"

\* An unknown setting is shadow; active needs the safety guard as well.
EffectiveMode(requested, allowed) ==
  IF requested \in {"off", "shadow"} THEN requested
  ELSE IF requested = "active" /\ allowed THEN "active" ELSE "shadow"

\* The direction a candidate is taken to have: its own, else what the strategy
\* registry says -- a neutral profile ends the search --, else the bias of a
\* known strategy; c.strategy is the class of its identifier and name.
InferredDirection(c) ==
  IF c.explicit \in {"long", "short"} THEN c.explicit
  ELSE IF c.profile = "bullish" THEN "long"
  ELSE IF c.profile = "bearish" THEN "short"
  ELSE IF c.profile = "neutral" THEN "unknown"
  ELSE IF c.strategy = "reversion" THEN "unknown"
  ELSE IF c.strategy = "long_bias" THEN "long"
  ELSE IF c.strategy = "continuation" THEN IF c.recentUp THEN "long" ELSE "short"
  ELSE "unknown"

-----------------------------------------------------------------------------
(* The contribution of a snapshot s: its state, its trend in tenths of a   *)
(* percent, its HiLo points and the chart's warnings.                      *)

Sided(side, x) == (side = "long" /\ x > 0) \/ (side = "short" /\ x < 0)

Magnitude(x, most) == IF x > most THEN most ELSE IF -x > most THEN most ELSE IF x < 0 THEN -x ELSE x

MomentumAlignment(s, side) ==
  CASE side = "long" /\ s.state = "max_bull"      -> 200
    [] side = "long" /\ s.state = "bull"          -> 140
    [] side = "long" /\ s.state = "neutral_up"    -> 60
    [] side = "short" /\ s.state = "max_bear"     -> 200
    [] side = "short" /\ s.state = "bear"         -> 140
    [] side = "short" /\ s.state = "neutral_down" -> 60
    [] OTHER                                      -> 0

\* Eight points for a trend of a hundred, five for twenty HiLo points.
TrendAlignment(s, side) ==
  IF Sided(side, s.trend) THEN (160 * Magnitude(s.trend, 1000)) \div 1000 ELSE 0

HiLoConfirmation(s, side) ==
  IF Sided(side, s.hilo) THEN (100 * Magnitude(s.hilo, 20)) \div 20 ELSE 0

ReversalPenalty(s) == IF s.reversal THEN -240 ELSE 0

\* Faulty variant: a no-trade warning does not take the bonus away.
Bounded_WarningIgnored(s, side) ==
  Clamp(MomentumAlignment(s, side) + TrendAlignment(s, side)
          + HiLoConfirmation(s, side) + ReversalPenalty(s), -240, 400)

\* A no-trade warning takes every bonus away and leaves the penalty; the total
\* stays between -12 and 20 points.
Bounded(s, side) ==
  LET bonus == MomentumAlignment(s, side) + TrendAlignment(s, side) + HiLoConfirmation(s, side)
  IN  Clamp((IF s.noTrade THEN 0 ELSE bonus) + ReversalPenalty(s), -240, 400)

\* What is attached to a candidate: nothing in off mode, and without a chart
\* only the mode.  It is applied in active mode, to a candidate that has a
\* direction, and only when it is not zero.
NoContribution(mode, side) ==
  [mode |-> mode, enabled |-> mode # "off", applied |-> FALSE,
   shadow |-> 0, delta |-> 0, side |-> side]

Contribution(chart, s, c, mode) ==
  IF mode = "off" \/ ~chart THEN NoContribution(mode, "unknown")
  ELSE LET side   == InferredDirection(c)
           total  == Bounded(s, side)
           active == mode = "active" /\ side # "unknown"
       IN  [mode |-> mode, enabled |-> TRUE, applied |-> active /\ total # 0,
            shadow |-> total, delta |-> IF active THEN DeltaPerTwentieth * total ELSE 0,
            side |-> side]

-----------------------------------------------------------------------------
(* The score of a candidate and its guard.                                 *)

Moves(k) == k.enabled /\ k.mode = "active" /\ k.applied

\* Faulty variant: the points count as hundredths, without the delta scale.
ScoreAfter_Unscaled(before, k) ==
  Clamp(before + (IF Moves(k) THEN 500 * k.shadow ELSE 0), 0, Unity)

ScoreAfter(before, k) == Clamp(before + (IF Moves(k) THEN k.delta ELSE 0), 0, Unity)

\* Rounded to three places: to the nearest thousandth.
ToMilli(x) == 1000 * ((x + 500) \div 1000)
\* Rounded to four places.
ToTenthMilli(x) == 100 * ((x + 50) \div 100)

\* The guard recomputes a moved score from the score before and reports a
\* difference of more than a millionth as a correction.
Guard(observed, before, k) ==
  IF ~Moves(k)
  THEN [final |-> Clamp(observed, 0, Unity), intended |-> 0, realized |-> 0, corrected |-> FALSE]
  ELSE LET final == ScoreAfter(before, k)
       IN  [final |-> final, intended |-> k.delta, realized |-> final - before,
            corrected |-> observed - final > 1 \/ final - observed > 1]

Status(total, confident) ==
  IF ~confident THEN "no_trade" ELSE IF total >= 620000 THEN "top_candidate" ELSE "watchlist"

Tier(total) == IF total >= 720000 THEN "HIGH" ELSE IF total >= 620000 THEN "MEDIUM" ELSE "LOW"

\* A candidate as the ranking engine puts it out.
Ranked(base, confident, k) ==
  LET total == IF Moves(k) THEN Guard(ScoreAfter(base, k), base, k).final ELSE base
  IN  [score |-> ToMilli(total), before |-> ToTenthMilli(base), after |-> ToTenthMilli(total),
       status |-> Status(total, confident), tier |-> Tier(total), k |-> k,
       check |-> "none", base |-> base]

\* The queue: by falling score, ties in the order they were scored.
QueueOrder(rows) ==
  CHOOSE p \in [DOMAIN rows -> DOMAIN rows] :
    /\ \A i, j \in DOMAIN rows : i # j => p[i] # p[j]
    /\ \A i, j \in DOMAIN rows :
         i < j => \/ rows[p[i]].score > rows[p[j]].score
                  \/ rows[p[i]].score = rows[p[j]].score /\ p[i] < p[j]

InQueue(rows) == LET p == QueueOrder(rows) IN [i \in DOMAIN rows |-> rows[p[i]]]

\* The buckets are copies of the ranked rows, made before the risk calendar
\* has been asked; top_n bounds the first only.
Bucket(queue, status) == {i \in DOMAIN queue : queue[i].status = status}

TopBucket(queue, topN) ==
  {i \in Bucket(queue, "top_candidate") :
     Cardinality({j \in Bucket(queue, "top_candidate") : j < i}) < topN}

\* The risk calendar takes the top status from a row of the queue; what it
\* says instead is restricted here.
RiskGated(row, allowed) ==
  IF ~allowed /\ row.status = "top_candidate" THEN [row EXCEPT !.status = "restricted"] ELSE row

\* Faulty variant: the guard starts from the score that was moved already.
Stamped_Twice(row) ==
  IF ~Moves(row.k) THEN [row EXCEPT !.check = "ok"]
  ELSE LET g == Guard(row.score, row.after, row.k)
       IN  [row EXCEPT !.score = ToMilli(g.final), !.after = ToTenthMilli(g.final),
                       !.check = IF g.corrected THEN "corrected" ELSE "ok"]

\* The guard at the end of the route stamps a moved row again.
Stamped(row) ==
  IF ~Moves(row.k) THEN [row EXCEPT !.check = "ok"]
  ELSE LET g == Guard(row.score, row.before, row.k)
       IN  [row EXCEPT !.score = ToMilli(g.final), !.after = ToTenthMilli(g.final),
                       !.check = IF g.corrected THEN "corrected" ELSE "ok"]

\* Faulty variant: the buckets keep the rows as they were ranked.
Response_StaleBuckets(rows, allowed, topN) ==
  LET ranked == InQueue(rows)
      queue  == [i \in DOMAIN ranked |-> Stamped(RiskGated(ranked[i], allowed[i]))]
  IN  [queue |-> queue,
       top   |-> [i \in TopBucket(ranked, topN) |-> ranked[i]],
       watch |-> [i \in Bucket(ranked, "watchlist") |-> ranked[i]],
       none  |-> [i \in Bucket(ranked, "no_trade") |-> ranked[i]]]

\* The answer: the queue gated and stamped, and the buckets with the scores
\* of the queue's rows and the status they were copied with.
Response(rows, allowed, topN) ==
  LET ranked == InQueue(rows)
      queue  == [i \in DOMAIN ranked |-> Stamped(RiskGated(ranked[i], allowed[i]))]
      copy(i) == [queue[i] EXCEPT !.status = ranked[i].status]
  IN  [queue |-> queue,
       top   |-> [i \in TopBucket(ranked, topN) |-> copy(i)],
       watch |-> [i \in Bucket(ranked, "watchlist") |-> copy(i)],
       none  |-> [i \in Bucket(ranked, "no_trade") |-> copy(i)]]
-----------------------------------------------------------------------------
(* Properties, of a candidate and of an answer.                            *)

\* Momentum moves a score by at most 0.07 up and 0.042 down, only in active
\* mode with the guard open and for a candidate with a direction, and never
\* up on a no-trade warning; in every other case the score, the status and
\* the tier are what they are without momentum.
MomentumIsBounded(base, confident, chart, s, c, requested, guardOpen) ==
  LET k   == Contribution(chart, s, c, EffectiveMode(requested, guardOpen))
      row == Ranked(base, confident, k)
  IN  /\ row.after - row.before <= 70000 /\ row.before - row.after <= 42000
      /\ s.noTrade => row.after <= row.before
      /\ requested # "active" \/ ~guardOpen \/ InferredDirection(c) = "unknown"
           => LET plain == NoContribution("off", "unknown")
              IN  [row EXCEPT !.k = plain] = Ranked(base, confident, plain)

\* Stamping the queue again at the end of the route neither moves a score nor
\* disturbs the order the ranks were given in, and every bucket tells the
\* same of a row as the queue does -- but for its status, which the buckets
\* keep from before the risk calendar was asked.
AnswerAgrees(rows, allowed, topN) ==
  LET ranked == InQueue(rows)
      answer == Response(rows, allowed, topN)
      agrees(bucket) == \A i \in DOMAIN bucket :
        bucket[i] = [answer.queue[i] EXCEPT !.status = ranked[i].status]
  IN  /\ \A i \in DOMAIN ranked : answer.queue[i].score = ranked[i].score
      /\ \A i, j \in DOMAIN ranked : i < j => answer.queue[i].score >= answer.queue[j].score
      /\ agrees(answer.top) /\ agrees(answer.watch) /\ agrees(answer.none)

\* The guard reports a correction only when something changed the score
\* after the contribution was computed, not when it was merely rounded.  No run
\* checks it: docs/momentum-intelligence-layer.md:1711-1717 says so, and the code
\* rounds differently in its two places (README, known divergences).
RoundingIsNoCorrection(rows, allowed, topN) ==
  \A i \in DOMAIN rows : Response(rows, allowed, topN).queue[i].check = "ok"
=============================================================================
