---------------------------- MODULE MarketQuotes ----------------------------
(***************************************************************************)
(* What the market-data providers make of an answer: which provider is in  *)
(* use, the regular-hours bars built from half-hour bars, the mark of an   *)
(* option contract, the contract a strategy's strike resolves to, and the  *)
(* readiness probes.  Pure operators; MarketData.tla is the service that   *)
(* asks, caches and falls back.                                            *)
(*                                                                         *)
(* A half hour of a day is an integer: 0 is 9:30 to 10:00 in New York, 12  *)
(* is 15:30 to 16:00, and others are outside the regular session.  Prices  *)
(* are integers, with 0 for a value the provider does not give or gives as *)
(* not positive.                                                           *)
(***************************************************************************)
EXTENDS Integers, Sequences, FiniteSets, SequencesExt

None == "none"

-----------------------------------------------------------------------------
(* The provider in use.  All the names of Polygon count as "polygon".      *)

\* A deployment that only sets the old Polygon switch gets Polygon; an
\* explicit choice of another provider is never overridden by it.
EffectiveProvider(mode, enabled, polygonEnabled) ==
  CASE enabled /\ mode \in {"schwab", "alpaca", "polygon"} -> mode
    [] polygonEnabled /\ mode \in {"fallback", "polygon"} -> "polygon"
    [] OTHER -> "fallback"

FallbackReason(mode, enabled, polygonEnabled) ==
  IF EffectiveProvider(mode, enabled, polygonEnabled) # "fallback" THEN None
  ELSE IF ~enabled THEN "market_data_disabled"
  ELSE IF mode = "fallback" THEN "fallback_selected"
  ELSE "unsupported_market_data_provider"

-----------------------------------------------------------------------------
(* Regular-hours bars.                                                     *)

HalfHours == 0..12

BucketHalves(tf) == CASE tf = "30M" -> 1 [] tf = "1H" -> 2 [] tf = "4H" -> 8

\* The bucket of a half hour, counted from the open of the session.
BucketOf(tf, half) == half \div BucketHalves(tf)

BucketsPerDay(tf) == BucketOf(tf, 12) + 1

\* Schwab stamps an intraday candle with its end: it is moved to its start.
\* Faulty variant: the stamp is taken for the start.
CoveredHalf_AsStamped(provider, stamp) == stamp

CoveredHalf(provider, stamp) == IF provider = "schwab" THEN stamp - 1 ELSE stamp

\* bars is a sequence of [day, half, high, low, open, close, volume] sorted
\* by day and half hour; bars outside the session are dropped.
RegularBars(bars) == SelectSeq(bars, LAMBDA b : b.half \in HalfHours)

BarOf(bucket, tf) ==
  [day    |-> bucket[1].day,
   half   |-> BucketOf(tf, bucket[1].half) * BucketHalves(tf),
   open   |-> bucket[1].open,
   high   |-> CHOOSE h \in {bucket[i].high : i \in DOMAIN bucket} :
                \A i \in DOMAIN bucket : h >= bucket[i].high,
   low    |-> CHOOSE l \in {bucket[i].low : i \in DOMAIN bucket} :
                \A i \in DOMAIN bucket : l =< bucket[i].low,
   close  |-> bucket[Len(bucket)].close,
   volume |-> FoldSeq(LAMBDA b, v : b.volume + v, 0, bucket)]

\* The bars of one bucket after the other; bars is sorted by time.
Grouped(bars, tf) ==
  LET key(i) == <<bars[i].day, BucketOf(tf, bars[i].half)>>
      starts == SelectSeq([i \in DOMAIN bars |-> i],
                          LAMBDA i : i = 1 \/ key(i) # key(i - 1))
      ending(n) == IF n = Len(starts) THEN Len(bars) ELSE starts[n + 1] - 1
  IN [n \in DOMAIN starts |-> BarOf(SubSeq(bars, starts[n], ending(n)), tf)]

\* Faulty variant: a half hour outside the session is not dropped.
AggregateAll_KeepsExtended(bars, tf) == Grouped(bars, tf)

\* Every bucket of the bars, in time order.
AggregateAll(bars, tf) == Grouped(RegularBars(bars), tf)

LastOf(seq, n) == IF n > 0 /\ Len(seq) > n THEN SubSeq(seq, Len(seq) - n + 1, Len(seq)) ELSE seq

Aggregate(bars, tf, limit) == LastOf(AggregateAll(bars, tf), limit)

\* How many half-hour bars are read for a window of limit bars.
SourceBars(tf, limit) ==
  LET wanted == IF limit < 1 THEN 1 ELSE limit
      days == (wanted + BucketsPerDay(tf) - 1) \div BucketsPerDay(tf)
  IN (days + 2) * BucketsPerDay("30M")

-----------------------------------------------------------------------------
(* The mark of an option.  q has bid, ask, mark, last and prior, and how   *)
(* old the quote and the trade are: "fresh", "stale" or None when the      *)
(* provider gives no time - an undated price counts as not stale.          *)

TwoSided(q) == q.bid > 0 /\ q.ask > 0 /\ q.ask >= q.bid

\* Only Schwab has a mark of its own.
OptionMark(provider, q) ==
  IF TwoSided(q) /\ q.quote # "stale" THEN
         [method |-> "quote_mid", price2 |-> q.bid + q.ask, stale |-> FALSE]
  ELSE IF provider = "schwab" /\ q.mark > 0 /\ q.quote # "stale" THEN
         [method |-> "provider_mark", price2 |-> 2 * q.mark, stale |-> FALSE]
  ELSE IF q.last > 0 /\ q.trade # "stale" THEN
         [method |-> "last_trade", price2 |-> 2 * q.last, stale |-> FALSE]
  ELSE IF q.prior > 0 THEN
         [method |-> "prior_close_fallback", price2 |-> 2 * q.prior, stale |-> TRUE]
  ELSE
         [method |-> "unavailable", price2 |-> 0,
          stale |-> q.quote = "stale" \/ q.trade = "stale"]

Undated(provider, q) ==
  CASE OptionMark(provider, q).method \in {"quote_mid", "provider_mark"} -> q.quote = None
    [] OptionMark(provider, q).method = "last_trade" -> q.trade = None
    [] OTHER -> FALSE

\* An index value: from the change and the previous close it derives the
\* day's change when the provider gives none.
IndexValue(i) ==
  LET change == IF i.change = None /\ i.value > 0 /\ i.previous > 0
                THEN i.value - i.previous ELSE i.change
  IN [value |-> i.value, change |-> change,
      missing |-> {f \in {"value", "previous", "change", "as_of"} :
                     \/ f = "value" /\ i.value = 0
                     \/ f = "previous" /\ i.previous = 0
                     \/ f = "change" /\ change = None
                     \/ f = "as_of" /\ i.age = None},
      stale |-> i.age # "fresh"]

-----------------------------------------------------------------------------
(* The listed contract of a leg.  A listing is a set of contracts with     *)
(* side, expiry (days), strike, liquidity and symbol (a number).           *)

DistanceTo(a, b) == IF a >= b THEN a - b ELSE b - a

\* Faulty variant: the liquid contract is preferred to the near one.
Nearer_LiquidFirst(x, y, expiry, strike) ==
  LET key(c) == <<DistanceTo(c.expiry, expiry), -c.liquidity, DistanceTo(c.strike, strike), c.symbol>>
  IN \E i \in 1..4 : key(x)[i] < key(y)[i] /\ \A j \in 1..(i - 1) : key(x)[j] = key(y)[j]

\* The order of preference: expiration, strike, liquidity, symbol.
Nearer(x, y, expiry, strike) ==
  LET key(c) == <<DistanceTo(c.expiry, expiry), DistanceTo(c.strike, strike), -c.liquidity, c.symbol>>
  IN \E i \in 1..4 : key(x)[i] < key(y)[i] /\ \A j \in 1..(i - 1) : key(x)[j] = key(y)[j]

InWindow(c, side, strike, window) ==
  c.side = side /\ DistanceTo(c.strike, strike) =< window

\* Of more rows than the limit Schwab's are cut behind the first, by expiration,
\* strike and symbol.
Ahead(x, y) ==
  \/ x.expiry < y.expiry
  \/ x.expiry = y.expiry /\ (x.strike < y.strike \/ (x.strike = y.strike /\ x.symbol < y.symbol))

FirstRows(rows, limit) == {c \in rows : Cardinality({d \in rows : Ahead(d, c)}) < limit}

\* The provider is asked for the expiration first and, when it lists none
\* there, for every expiration.
Asked(listing, side, expiry, strike, window) ==
  LET near == {c \in listing : InWindow(c, side, strike, window)}
      exact == {c \in near : c.expiry = expiry}
  IN IF exact # {} THEN exact ELSE near

Candidates(listing, side, expiry, strike, window, limit) ==
  FirstRows(Asked(listing, side, expiry, strike, window), limit)

\* The rows resolve_option_contract asks for.
RowLimit == 1000

Unresolved == [symbol |-> 0, exact |-> FALSE, snap |-> 0]

\* answers: whether the provider answers at all.
ResolveContract(listing, answers, side, expiry, strike, window, limit) ==
  LET found == Candidates(listing, side, expiry, strike, window, limit)
      best == CHOOSE c \in found : \A d \in found \ {c} : Nearer(c, d, expiry, strike)
  IN IF ~answers \/ found = {} THEN Unresolved
     ELSE [symbol |-> best.symbol, exact |-> best.expiry = expiry,
           snap |-> DistanceTo(best.strike, strike)]

-----------------------------------------------------------------------------
(* The readiness probe of option data.  The sample underlyings are asked   *)
(* one after the other: the requested one, then SPY and AAPL; each answers *)
(* for its price "value", "nothing", "denied" or "failed", and for its     *)
(* contracts the same with "rows" for "value".  "raised" is an error of    *)
(* Schwab's own, which nobody catches: it ends the probe, and its request. *)

DiscoveryStep(provider, u) ==
  IF u.price = "raised" THEN "raised"
  ELSE IF u.price = "denied" THEN IF u.index THEN "index_denied" ELSE "denied"
  ELSE IF u.price = "failed" /\ u.index THEN "index_failed"
  ELSE IF u.price = "nothing" /\ u.index /\ provider = "polygon" THEN "index_failed"
  ELSE IF u.chain \in {"denied", "raised"} THEN u.chain
  ELSE IF u.chain = "failed" /\ u.index /\ provider = "polygon" THEN "stopped"
  ELSE IF u.chain = "rows" THEN "found"
  ELSE "next"

\* Asking stops at the first underlying that decides.
Discovery(provider, underlyings) ==
  LET deciding == {i \in DOMAIN underlyings : DiscoveryStep(provider, underlyings[i]) # "next"}
      first == CHOOSE i \in deciding : \A j \in deciding : i =< j
  IN IF deciding = {} THEN "next" ELSE DiscoveryStep(provider, underlyings[first])

\* A snapshot of a sample contract: its mark, or the refusal of the plan.
Attempt(s) ==
  CASE s \in {"denied", "raised"} -> s
    [] s \in {"quote_mid", "provider_mark", "last_trade"} -> "ok"
    [] s = "prior_close_fallback" -> "warn"
    [] OTHER -> "none"

Probe(state, entitlement) == [state |-> state, entitlement |-> entitlement]

\* The samples are tried in order until one decides.
ProbeSamples(samples) ==
  LET deciding == {i \in DOMAIN samples : Attempt(samples[i]) \in {"denied", "raised", "ok"}}
      first == CHOOSE i \in deciding : \A j \in deciding : i =< j
  IN IF deciding # {} /\ Attempt(samples[first]) = "denied" THEN
            Probe("failed_not_entitled", "not_entitled")
     ELSE IF deciding # {} /\ Attempt(samples[first]) = "raised" THEN Probe("raised", "unknown")
     ELSE IF deciding # {} THEN Probe("ok", "entitled")
     ELSE IF \E i \in DOMAIN samples : Attempt(samples[i]) = "warn" THEN Probe("warn", "entitled")
     ELSE Probe("degraded", "entitled")

\* Without a discovered contract a probe of a stock tries one fixed contract.
OptionsProbe(provider, configured, underlyings, samples, static) ==
  LET found == Discovery(provider, underlyings)
      isIndex == underlyings[1].index
  IN IF provider = "fallback" THEN Probe("skipped", "unknown")
     ELSE IF ~configured THEN Probe("unavailable", "unknown")
     ELSE IF found = "index_denied" THEN Probe("failed_underlying_index_data", "not_entitled")
     ELSE IF found = "index_failed" THEN Probe("failed_underlying_index_data", "unknown")
     ELSE IF found = "denied" THEN Probe("failed_not_entitled", "not_entitled")
     ELSE IF found = "raised" THEN Probe("raised", "unknown")
     ELSE IF found = "found" THEN ProbeSamples(samples)
     ELSE IF isIndex THEN Probe("degraded", "unknown")
     ELSE ProbeSamples(<<static>>)

\* The probe of the index values: "value", "nothing", "denied" or "failed".
IndicesProbe(provider, configured, answers) ==
  LET count(a) == Cardinality({i \in DOMAIN answers : answers[i] = a})
  IN IF provider = "fallback" THEN Probe("skipped", "unknown")
     ELSE IF ~configured THEN Probe("unavailable", "unknown")
     ELSE IF count("value") = Len(answers) THEN Probe("ok", "entitled")
     ELSE IF count("value") > 0 THEN Probe("degraded", "unknown")
     ELSE IF count("denied") > 0 THEN Probe("failed_not_entitled", "not_entitled")
     ELSE Probe("failed_no_index_value", "unknown")

\* The health of the provider itself.  Polygon's probe lets a refusal of the
\* plan and an unknown symbol escape to its caller.
ProviderHealth(provider, configured, connected, answer) ==
  IF provider = "fallback" THEN "warning"
  ELSE IF ~configured \/ (provider = "schwab" /\ ~connected) THEN "warning"
  ELSE IF answer = "value" THEN "ok"
  ELSE IF provider = "polygon" /\ answer \in {"denied", "nothing"} THEN "raised"
  ELSE "warning"

\* What the readiness of Schwab's data is said to be.
SchwabReady(enabled, configured, connected, probed, health) ==
  LET live == IF ~probed THEN "not_run"
              ELSE IF configured /\ connected THEN IF health = "ok" THEN "ok" ELSE "degraded"
              ELSE IF ~enabled THEN "skipped"
              ELSE IF ~configured THEN "unavailable"
              ELSE "degraded"
  IN [live |-> live,
      ready |-> configured /\ connected /\ live \in {"ok", "not_run"}]

-----------------------------------------------------------------------------
(* Properties of the answers.                                              *)

\* However a provider stamps its candles, the thirteen half hours of a
\* regular session all reach the bars built from it, whose volume is the
\* session's, and four-hour bars built from the hourly ones are those built
\* from the half hours (_aggregate_regular_hours_intraday_bars, used for
\* Polygon's starts and Schwab's ends).
SessionIsWhole(provider, candles, extended, tf) ==
  LET stamped(c) == IF provider = "schwab" THEN c.half + 1 ELSE c.half
      read == [i \in DOMAIN candles |->
                [candles[i] EXCEPT !.half = CoveredHalf(provider, stamped(candles[i]))]]
      volume(bars) == FoldSeq(LAMBDA b, v : b.volume + v, 0, bars)
      built == AggregateAll(read \o extended, tf)
  IN /\ volume(built) = volume(candles)
     /\ Len(built) = Cardinality({BucketOf(tf, c.half) : c \in Range(candles)})
     /\ tf = "4H" => built = AggregateAll(AggregateAll(read \o extended, "1H"), "4H")

\* The half hours that are read fill the asked window when the sessions are
\* whole, whatever part of today's session has passed
\* (_rth_source_page_target_count).
WindowIsFilled(tf, limit, today) ==
  LET sourceDays == (SourceBars(tf, limit) - today) \div BucketsPerDay("30M")
  IN sourceDays * BucketsPerDay(tf) >= limit

\* A leg resolves to a listed contract of its own side; when the asked
\* expiration is listed near the strike the contract has it, and unless the rows
\* were cut no contract of that expiration is nearer to the strike
\* (resolve_option_contract).
LegIsListed(listing, side, expiry, strike, window, limit) ==
  LET r == ResolveContract(listing, TRUE, side, expiry, strike, window, limit)
      uncut == Cardinality(Asked(listing, side, expiry, strike, window)) =< limit
      near == {c \in listing : InWindow(c, side, strike, window)}
  IN IF near = {} THEN r = Unresolved
     ELSE \E c \in near :
            /\ c.symbol = r.symbol
            /\ (\E d \in near : d.expiry = expiry) => c.expiry = expiry
            /\ uncut => \A d \in near : d.expiry = c.expiry => DistanceTo(d.strike, strike) >= r.snap

\* A probe says it is entitled to option data only after it has asked for a
\* sample contract, says "ok" only for one with a fresh mark, and never says
\* either once a refusal or an uncaught error came first (options_data_health).
ProbeIsEarned(provider, configured, underlyings, samples, static) ==
  LET p == OptionsProbe(provider, configured, underlyings, samples, static)
      tried == IF Discovery(provider, underlyings) = "found" THEN samples ELSE <<static>>
  IN /\ p.entitlement = "entitled" => configured /\ provider # "fallback" /\ tried # << >>
     /\ p.state = "ok" =>
          \E i \in DOMAIN tried :
            /\ Attempt(tried[i]) = "ok"
            /\ \A j \in 1..(i - 1) : tried[j] \notin {"denied", "raised"}
     /\ p.state = "warn" => \A i \in DOMAIN tried : tried[i] \notin {"denied", "raised"}

=============================================================================
