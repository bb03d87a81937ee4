----------------------------- MODULE DataParity -----------------------------
(***************************************************************************)
(* The comparison of two market-data providers (data_parity/service.py):   *)
(* which interval a stamped candle covers, which candles of the two are    *)
(* the same one, how fresh a provider is, and the root cause that is       *)
(* reported for a symbol and timeframe.  Pure operators: a comparison      *)
(* reads, and at most stores a snapshot.                                   *)
(*                                                                         *)
(* A moment is <<day, minute>> in New York; day 0 is a Monday.  A candle   *)
(* is [day, minute, price, volume]: its four prices are one, the one that  *)
(* differs most.  Prices are in cents.                                     *)
(***************************************************************************)
EXTENDS Integers, Sequences, FiniteSets, SequencesExt, FiniteSetsExt

Opening == 570
Closing == 960
IntradayFrames == {"30M", "1H", "4H"}
BucketLength(tf) == CASE tf = "30M" -> 30 [] tf = "1H" -> 60 [] tf = "4H" -> 240
Buckets(tf) ==
  {[from |-> m, to |-> IF m + BucketLength(tf) < Closing THEN m + BucketLength(tf) ELSE Closing] :
     m \in {Opening + k * BucketLength(tf) : k \in 0 .. (Closing - 1 - Opening) \div BucketLength(tf)}}

Weekday(day) == day % 7
Moment(m) == m[1] * 1440 + m[2]
Least(a, b) == IF a < b THEN a ELSE b
Greatest(a, b) == IF a > b THEN a ELSE b
Distance(a, b) == IF a < b THEN b - a ELSE a - b

\* A value a component does not give; values are integers, words are small ones.
Missing == -1

-----------------------------------------------------------------------------
(* The calendar of the regular session, without holidays.                  *)

\* _canonical_week_bounds: a Sunday belongs to the week that follows.
WeekOf(day) == IF Weekday(day) = 6 THEN day + 1 ELSE day - Weekday(day)

SessionState(m) ==
  IF Weekday(m[1]) >= 5 THEN "closed"
  ELSE CASE m[2] \in 240 .. Opening - 1 -> "premarket"
         [] m[2] \in Opening .. Closing - 1 -> "regular"
         [] m[2] \in Closing .. 1199 -> "after-hours"
         [] OTHER -> "closed"

WeekdayBefore(day) == Max({d \in day - 3 .. day - 1 : Weekday(d) < 5})

ExpectedDay(m) == IF Weekday(m[1]) < 5 /\ m[2] >= Opening THEN m[1] ELSE WeekdayBefore(m[1])

\* _expected_latest_market_bar_timestamp: the start of the bucket in progress, or
\* of the last one of the latest session.
ExpectedLatest(tf, m) ==
  LET last == Max({b.from : b \in Buckets(tf)}) IN
  IF tf = "1D" THEN <<ExpectedDay(m), 0>>
  ELSE IF tf = "1W" THEN <<ExpectedDay(m) - Weekday(ExpectedDay(m)), 0>>
  ELSE IF SessionState(m) = "regular" THEN
         <<m[1], (CHOOSE b \in Buckets(tf) : b.from <= m[2] /\ m[2] < b.to).from>>
  ELSE IF SessionState(m) # "regular" /\ Weekday(m[1]) < 5 /\ m[2] >= Closing THEN <<m[1], last>>
  ELSE <<WeekdayBefore(m[1]), last>>

-----------------------------------------------------------------------------
(* The interval a candle covers.                                           *)

\* Faulty variant: every provider is taken to stamp a candle with its start.
Convention_AlwaysStart(tf, provider, explicit) == IF explicit # "none" THEN explicit ELSE "bar_start"

\* _inferred_timestamp_convention, with the default _annotate_raw_metadata sets.
Convention(tf, provider, explicit) ==
  IF explicit # "none" THEN explicit
  ELSE IF tf \notin IntradayFrames THEN "session_anchor"
  ELSE CASE provider = "schwab" -> "bar_end" [] provider = "polygon" -> "bar_start" [] OTHER -> "unknown"

\* _bucket_bounds_for_timestamp: a stamp on the edge of two buckets is read by the
\* provider's convention, another as what it can only be; {} when no bucket has it.
BucketAt(tf, minute, hint) ==
  LET starts == {b \in Buckets(tf) : b.from = minute}
      ends == {b \in Buckets(tf) : b.to = minute}
      inside == {b \in Buckets(tf) : b.from < minute /\ minute < b.to}
  IN IF hint = "bar_end" /\ ends # {} THEN ends
     ELSE IF starts # {} THEN starts
     ELSE IF ends # {} THEN ends ELSE inside

\* _bar_interval_bounds and _bar_interval_key.
Interval(bar, tf, convention) ==
  LET bucket == BucketAt(tf, bar.minute, convention)
      at == Moment(<<bar.day, bar.minute>>)
  IN CASE tf = "1D" -> [from |-> Moment(<<bar.day, Opening>>), to |-> Moment(<<bar.day, Closing>>)]
       [] tf = "1W" -> [from |-> Moment(<<WeekOf(bar.day), Opening>>), to |-> Moment(<<WeekOf(bar.day) + 4, Closing>>)]
       [] tf \in IntradayFrames /\ bucket # {} ->
            LET b == CHOOSE b \in bucket : TRUE
            IN [from |-> Moment(<<bar.day, b.from>>), to |-> Moment(<<bar.day, b.to>>)]
       [] OTHER -> IF convention = "bar_end" THEN [from |-> at - BucketLength(tf), to |-> at]
                   ELSE [from |-> at, to |-> at + BucketLength(tf)]

\* _bar_comparison_key: the session, the week or the interval.
Key(bar, tf, convention) ==
  CASE tf = "1D" -> bar.day [] tf = "1W" -> WeekOf(bar.day)
    [] OTHER -> Interval(bar, tf, convention)

\* Faulty variant: candles in progress are kept.
Completed_All(bars, tf, convention, now, only) == bars

\* _bar_is_completed, _filter_completed_bars.
Completed(bars, tf, convention, now, only) ==
  SelectSeq(bars, LAMBDA b : ~only \/ Interval(b, tf, convention).to <= Moment(now))

\* _normalize_indicator_bars_for_alignment: the candle under the canonical label.
Relabelled(bar, tf, convention) ==
  LET at == Interval(bar, tf, convention).from
  IN IF tf \in IntradayFrames THEN [bar EXCEPT !.day = at \div 1440, !.minute = at % 1440]
     ELSE [bar EXCEPT !.day = IF tf = "1W" THEN WeekOf(@) ELSE @, !.minute = 0]

-----------------------------------------------------------------------------
(* Freshness.                                                              *)

RealTimeTolerance(tf) == CASE tf = "30M" -> 5 [] tf = "1H" -> 7 [] tf = "4H" -> 10 [] tf = "1D" -> 60 [] tf = "1W" -> 1440
LatestTolerance(tf) == CASE tf = "30M" -> 45 [] tf = "1H" -> 90 [] tf = "4H" -> 300 [] tf = "1D" -> 3600 [] tf = "1W" -> 14400

\* _freshness_classification of a provider whose latest candle is stamped so.
Freshness(latest, tf, now) ==
  LET lag == Moment(ExpectedLatest(tf, now)) - Moment(latest)
  IN CASE Distance(lag, 0) <= RealTimeTolerance(tf) -> "real_time_like"
       [] lag < -RealTimeTolerance(tf) -> "not_comparable"
       [] lag > RealTimeTolerance(tf) /\ SessionState(now) = "regular" /\ Distance(lag, 15) <= 5 -> "delayed_15_min_like"
       [] OTHER -> "stale"

\* _comparison_freshness: the worse of the two.
FreshnessOfBoth(a, b) ==
  LET order == <<"not_comparable", "stale", "delayed_15_min_like", "real_time_like">>
  IN order[Min({i \in 1 .. 4 : order[i] \in {a, b}})]

-----------------------------------------------------------------------------
(* The verdicts.                                                           *)

NotComparable == {"provider_unavailable", "auth_unavailable", "no_bars", "insufficient_data", "stale_source", "no_aligned_bars"}

StampOf(bar) == Moment(<<bar.day, bar.minute>>)

\* _max_price_allowed: a cent or 5 parts in 10000 of the provider in use.
PriceDiffers(ours, theirs) == 2000 * Distance(ours, theirs) > Greatest(2000, Distance(ours, 0))
VolumeDiffers(ours, theirs) == 100 * Distance(ours, theirs) > ours

\* Of two candles with one key the later one is compared.
ByKey(bars, tf, convention) ==
  [k \in {Key(bars[i], tf, convention) : i \in DOMAIN bars} |->
     bars[Max({i \in DOMAIN bars : Key(bars[i], tf, convention) = k})]]

\* The verdict on two series, of which the candles are ours and theirs by key.
Judged(left, right, ours, theirs, tf, mismatch) ==
  LET both == DOMAIN ours \intersect DOMAIN theirs
      far == left # <<>> /\ right # <<>> /\ Distance(StampOf(Last(left)), StampOf(Last(right))) > LatestTolerance(tf)
      differs == \E k \in both : PriceDiffers(ours[k].price, theirs[k].price) \/ VolumeDiffers(ours[k].volume, theirs[k].volume)
  IN [verdict |->
        CASE left = <<>> \/ right = <<>> -> "no_bars"
          [] left # <<>> /\ right # <<>> /\ far -> "stale_source"
          [] left # <<>> /\ right # <<>> /\ ~far /\ both = {} -> "no_aligned_bars"
          [] ~far /\ Cardinality(both) = 1 -> "insufficient_data"
          [] ~far /\ Cardinality(both) > 1 /\ differs -> mismatch
          [] OTHER -> "match",
      keys |-> both]

\* _compare_bars: verdict and common keys of two series sorted by their stamps.
Compare(current, candidate, tf, convention, other, now, only, mismatch) ==
  LET left == Completed(current, tf, convention, now, only)
      right == Completed(candidate, tf, other, now, only)
  IN Judged(left, right, ByKey(left, tf, convention), ByKey(right, tf, other), tf, mismatch)

\* _compare_indicator_bundles: numbers within the price tolerance, words the same; a
\* component only one of the two has differs, one neither has is left out.
Alike(a, b) == a = b \/ (a # Missing /\ b # Missing /\ ~PriceDiffers(a, b))
IndicatorVerdict(rows) ==
  IF \A i \in DOMAIN rows : Alike(rows[i].ours, rows[i].theirs) THEN "match" ELSE "comparable_indicator_mismatch"

\* _compare_tos_reference: either provider may meet what was read off the chart.
ReferenceVerdict(rows) ==
  IF \A i \in DOMAIN rows : rows[i].chart = Missing \/ Alike(rows[i].chart, rows[i].ours) \/ Alike(rows[i].chart, rows[i].theirs)
  THEN "match" ELSE "mismatch"

\* Faulty variant: the raw candles decide nothing.
RootCause_CanonicalOnly(connected, error, raw, canonical, indicators, reference) ==
  IF ~connected \/ error = "auth" THEN "auth_unavailable"
  ELSE IF connected /\ error = "provider" THEN "provider_unavailable"
  ELSE IF canonical \in NotComparable \union {"comparable_normalized_mismatch"} THEN canonical
  ELSE IF indicators # "match" THEN indicators
  ELSE IF reference = "mismatch" THEN "tos_reference_mismatch" ELSE "match"

\* _root_cause: the first layer that explains a difference.
RootCause(connected, error, raw, canonical, indicators, reference) ==
  IF ~connected \/ error = "auth" THEN "auth_unavailable"
  ELSE IF error = "provider" THEN "provider_unavailable"
  ELSE IF raw \in NotComparable THEN raw
  ELSE IF canonical \in NotComparable THEN canonical
  ELSE IF raw # "match" THEN raw
  ELSE IF canonical # "match" THEN canonical
  ELSE IF indicators # "match" THEN indicators
  ELSE IF reference = "mismatch" THEN "tos_reference_mismatch" ELSE "match"

\* run, for one symbol and timeframe: indicators and reference are compared only
\* when the canonical candles match.
Item(status, failure, raw, canonical, rows) ==
  LET error == IF ~status.connected THEN "auth" ELSE IF ~status.probed THEN "provider" ELSE failure
      compared == error = "none" /\ canonical = "match"
  IN [rootCause |-> RootCause(status.connected, error, raw, canonical,
                              IF compared THEN IndicatorVerdict(rows) ELSE "not_compared",
                              IF compared THEN ReferenceVerdict(rows) ELSE "not_compared"),
      compared |-> compared]

\* run as a whole: with Schwab as the provider in use and no other key there is
\* nothing to compare; a snapshot is stored when asked for and allowed.
ParityRun(primaryIsSchwab, legacyKey, items, save, allowed) ==
  LET alone == primaryIsSchwab /\ ~legacyKey
  IN [mode |-> IF alone THEN "schwab_primary_no_legacy" ELSE IF primaryIsSchwab THEN "legacy_polygon_vs_schwab" ELSE "current_vs_schwab",
      total |-> IF alone THEN 0 ELSE Len(items),
      match |-> IF alone THEN 0 ELSE Len(SelectSeq(items, LAMBDA i : i = "match")),
      stored |-> save /\ allowed /\ items # <<>>]

-----------------------------------------------------------------------------
\* The candle of a regular-hours bucket is recognised as the same one whether a
\* provider stamps it with its start or its end, and no two buckets are confused
\* (_bucket_bounds_for_timestamp, _inferred_timestamp_convention).
SameBucketAligns(tf) ==
  \A b, c \in Buckets(tf) :
    LET early == [day |-> 1, minute |-> b.from] late == [day |-> 1, minute |-> c.to]
    IN Key(early, tf, Convention(tf, "polygon", "none")) = Key(late, tf, Convention(tf, "schwab", "none")) <=> b = c

\* A match that follows from two comparisons rests on both, and on what preceded
\* and follows them.
LayersAgree(raw, canonical, status, failure, now, rows) ==
  Item(status, failure, raw.verdict, canonical.verdict, rows).rootCause = "match" =>
    /\ status.connected /\ status.probed /\ failure = "none"
    /\ raw.verdict = "match" /\ canonical.verdict = "match"
    /\ \A i \in DOMAIN rows : Alike(rows[i].ours, rows[i].theirs)
    /\ Cardinality(raw.keys) >= 2 /\ \A k \in raw.keys : k.to <= Moment(now)

\* A reported match rests on every layer: a connection that answered, raw and
\* canonical candles that agree in at least two intervals none of which is still in
\* progress, and indicators that agree (run, _compare_bars, _root_cause).
MatchIsEarned(status, failure, rawBars, bars, tf, now, rows) ==
  LayersAgree(Compare(rawBars[1], rawBars[2], "30M", "bar_start", "bar_end", now, TRUE, "comparable_raw_mismatch"),
              Compare(bars[1], bars[2], tf, "bar_start", "bar_start", now, TRUE, "comparable_normalized_mismatch"),
              status, failure, now, rows)
=============================================================================
