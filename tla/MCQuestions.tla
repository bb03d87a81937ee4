---------------------------- MODULE MCQuestions ----------------------------
(***************************************************************************)
(* The questions put to the algorithms that keep no state: each is asked   *)
(* once, and answered by the property of its subject.  The inputs lie on   *)
(* both sides of every threshold the code compares with.  Questions are    *)
(* one topic of the research side; the specification of all is here.       *)
(***************************************************************************)
EXTENDS HeatmapScores, MCResearch

CONSTANT NoPrice  \* a price or an estimate that is not given

Score  == INSTANCE MomentumScore
Queue  == INSTANCE MomentumRanking
Family == INSTANCE MomentumFamilies
Quote  == INSTANCE MarketQuotes
Parity == INSTANCE DataParity
Risk   == INSTANCE RiskCalendar
Books  == INSTANCE PositionReview
Trigger == INSTANCE AgentTriggers
Contract == INSTANCE OptionContracts WITH Multiplier <- 1, Unknown <- NoPrice

None == [of |-> "none"]
Ask(q) == question' = q

\* Of the answer to a question of this subject.
Answering(subject) == question.of = subject

-----------------------------------------------------------------------------
(* Heatmap boards, in hundredths and tenths of the score's range.          *)

CellOf(v) == [status |-> IF NumberIn(v) THEN "ok" ELSE "unavailable", value |-> v]
CellsOf(f) == [tf \in Timeframes |-> CellOf(f[tf])]
Sided(f) == [tf \in Timeframes |-> HacoCell("ok", IF f[tf] = Missing THEN "none" ELSE IF f[tf] > 0 THEN "green" ELSE "red")]
RowCells == {CellsOf([tf \in Timeframes |-> IF tf \in Slow THEN a ELSE b]) : a, b \in {-60, 30, Missing}}

AskBoard ==
  \E f \in [Timeframes -> {-60, 10, 90, Missing}], change \in {Missing, 0, 180} :
    Ask([of |-> "board", cells |-> CellsOf(f), change |-> change, directions |-> Sided(f)])

AskReport ==
  \E a, c \in RowCells, b, d \in {CellsOf([tf \in Timeframes |-> v]) : v \in {-60, 10, Missing}} :
    Ask([of |-> "report", rows |-> [r \in {"spy", "qqq"} |-> IF r = "spy" THEN a ELSE b],
         earlier |-> [r \in {"spy", "qqq"} |-> IF r = "spy" THEN c ELSE d]])

-----------------------------------------------------------------------------
(* Momentum: scores in tenths, a bar of averages, the marks of a candle.   *)

Gaps == {0, 1, 7, 8, 10, 13, 14, 24, 25, 29, 30, 33, 34, 35, 99, 100, 101, 200}
Oscillator == {0, 349, 350, 351, 399, 400, 401, 494, 495, 496, 498, 499, 500, 501, 504, 505, 509,
               510, 549, 550, 600, 650, 1000}

AskComposite ==
  \E tm \in Oscillator, gap \in Gaps, up \in BOOLEAN :
    Ask([of |-> "composite", tm |-> tm, avg |-> IF up THEN tm - gap ELSE tm + gap])

Directions == {"max_bull", "bull", "neutral_up", "neutral", "neutral_down", "bear", "max_bear"}
Charts ==
  {s \in [state : Directions, trend : {-1050, 0, 950}, hilo : {-20, 0, 20},
          reversal : BOOLEAN, noTrade : BOOLEAN] : s.noTrade <=> s.state = "neutral"}
Candidates == [explicit : {"none", "long"}, profile : {"none", "bullish", "bearish", "neutral"},
               strategy : {"reversion", "long_bias", "continuation", "other"}, recentUp : {TRUE}]

AskCandidate ==
  \E base \in {0, 600000, 970000}, s \in Charts, c \in Candidates,
     mode \in {"off", "shadow", "active", "x"}, open \in BOOLEAN :
    Ask([of |-> "candidate", base |-> base, chart |-> s, candidate |-> c, mode |-> mode, open |-> open])

LongOther == [explicit |-> "long", profile |-> "none", strategy |-> "other", recentUp |-> TRUE]
QueueRows ==
  {Queue!Ranked(base, TRUE, Queue!Contribution(TRUE, s, LongOther, mode)) :
     base \in {600000, 617000, 970000}, mode \in {"shadow", "active"},
     s \in {s \in Charts : /\ s.state \in {"bull", "neutral"} /\ s.trend \in {0, 950}
                           /\ s.hilo \in {0, 20}}}

AskQueue ==
  \E a, b \in QueueRows : Ask([of |-> "queue", rows |-> <<a, b>>])

AskFamily ==
  \E c \in [evidence : BOOLEAN, direction : {"long", "short", "unknown"},
            strategy : SUBSET {"long", "pullback"}, label : {"bullish", "bearish", "other"},
            score : {"strong", "deep_bear", "other"}, positive : BOOLEAN, pullback : BOOLEAN,
            reversal : BOOLEAN, noTrade : BOOLEAN, trend70 : {TRUE}, momo70 : {TRUE},
            risk : SUBSET {"r"}, reasons : SUBSET {"composite", "parity"}] :
    Ask([of |-> "family", candidate |-> c])

-----------------------------------------------------------------------------
(* Market quotes: half hours of a session, contracts of a listing.         *)

Candle(h) == [day |-> 1, half |-> h, open |-> h + 10, high |-> 20 + ((h * 7) % 5),
              low |-> 9 - ((h * 3) % 4), close |-> h + 11, volume |-> h * h + 1]
Covered == {Quote!HalfHours} \cup {Quote!HalfHours \ {h} : h \in Quote!HalfHours}
             \cup {{h} : h \in Quote!HalfHours} \cup {0..n : n \in 1..11}

AskSession ==
  \E provider \in {"schwab", "polygon"}, halves \in Covered, late \in BOOLEAN, tf \in {"30M", "1H", "4H"} :
    LET order == SelectSeq([i \in 1..13 |-> i - 1], LAMBDA h : h \in halves)
    IN Ask([of |-> "session", provider |-> provider, tf |-> tf,
            candles |-> [i \in DOMAIN order |-> Candle(order[i])],
            extended |-> IF late THEN <<Candle(14)>> ELSE <<>>])

AskWindow ==
  \E tf \in {"30M", "1H", "4H"}, limit \in 1..60, today \in 0..12 :
    Ask([of |-> "window", tf |-> tf, limit |-> limit, today |-> today])

Contracts ==
  {[side |-> "call", expiry |-> e, strike |-> k, liquidity |-> l, symbol |-> 1000 * e + 10 * k + l] :
     e \in {1, 3}, k \in {5, 8}, l \in {0, 3}}
    \cup {[side |-> "put", expiry |-> 1, strike |-> 6, liquidity |-> 9, symbol |-> 1]}

AskLeg ==
  \E listing \in SUBSET Contracts, expiry \in {1, 2, 3}, strike \in {6, 7}, bounds \in {<<1, 9>>, <<2, 9>>, <<9, 2>>, <<9, 9>>} :
    Ask([of |-> "leg", listing |-> listing, expiry |-> expiry, strike |-> strike,
         window |-> bounds[1], limit |-> bounds[2]])

\* What a provider may answer: only Schwab has errors that nobody catches.
Unheard(provider) == {"denied"} \cup IF provider = "schwab" THEN {"raised"} ELSE {}
Underlying(provider, indexes) ==
  [index : indexes, price : {"value", "nothing", "failed"} \cup Unheard(provider),
   chain : {"rows", "nothing", "failed"} \cup Unheard(provider)]
Samples(provider) == {"quote_mid", "prior_close_fallback", "unavailable"} \cup Unheard(provider)

\* A second underlying and a second sample make no difference where they are not asked.
AskProbe ==
  \E provider \in {"polygon", "schwab", "fallback"}, configured \in BOOLEAN :
    \E u \in Underlying(provider, BOOLEAN) :
      \E v \in IF Quote!DiscoveryStep(provider, u) = "next" THEN Underlying(provider, {FALSE}) ELSE {u} :
        \E s \in Samples(provider),
           r \in IF Quote!Discovery(provider, <<u, v>>) = "found" THEN Samples(provider) ELSE {"quote_mid"} :
          Ask([of |-> "probe", provider |-> provider, configured |-> configured,
               underlyings |-> <<u, v>>, samples |-> <<s, r>>, static |-> s])

\* Contracts of two days around the strikes of a condor and of two verticals.
OnDay(day, right, strikes) ==
  {[side |-> right, expiry |-> day, strike |-> k, liquidity |-> k % 4, symbol |-> 1000 * day + 2 * k + (IF right = "put" THEN 1 ELSE 0)] : k \in strikes}
OptionLeg(action, right, target, premium) ==
  [action |-> action, right |-> right, target |-> target, premium |-> premium, quantity |-> 1]
CondorOf == <<OptionLeg("buy", "put", 90, NoPrice), OptionLeg("sell", "put", 94, NoPrice),
              OptionLeg("sell", "call", 106, NoPrice), OptionLeg("buy", "call", 110, NoPrice)>>
CallSpread == <<OptionLeg("buy", "call", 102, NoPrice), OptionLeg("sell", "call", 106, NoPrice)>>
PutSpread == <<OptionLeg("buy", "put", 98, NoPrice), OptionLeg("sell", "put", 94, NoPrice)>>

CondorListings ==
  {a \cup b : a \in SUBSET (OnDay(1, "put", {89, 92, 94}) \cup OnDay(1, "call", {105, 107, 111})),
              b \in {{}, OnDay(3, "put", {90, 95}) \cup OnDay(3, "call", {104, 108}), OnDay(2, "put", {90, 94})}}
SpreadListings ==
  {a \cup b : a \in SUBSET (OnDay(1, "call", {102, 105, 112}) \cup OnDay(1, "put", {93, 98})),
              b \in {{}, OnDay(3, "call", {103, 106}) \cup OnDay(3, "put", {94, 97})}}

\* What the snapshots of a listing say: the farther from 100, the cheaper.
FairPrice(c) == IF c.side = "put" THEN (c.strike - 86) \div 3 ELSE (114 - c.strike) \div 3
MarkAs(method, price, stale) == [method |-> method, price |-> price, stale |-> stale]
MarkOf(c, view) ==
  CASE view = "fair"    -> MarkAs("quote_mid", FairPrice(c), FALSE)
    [] view = "rich"    -> MarkAs("last_trade", 4 * FairPrice(c), FALSE)
    [] view = "reverse" -> MarkAs("quote_mid", 9 - FairPrice(c), FALSE)
    [] view = "stale"   -> MarkAs("last_trade", FairPrice(c), c.strike % 2 = 0)
    [] view = "prior"   -> MarkAs(IF c.strike % 2 = 0 THEN "prior_close_fallback" ELSE "quote_mid", FairPrice(c), FALSE)
    [] view = "none"    -> MarkAs("quote_mid", IF c.strike % 2 = 0 THEN NoPrice ELSE FairPrice(c), FALSE)
MarksOf(listing, view) ==
  [s \in {c.symbol : c \in listing} |-> MarkOf(CHOOSE c \in listing : c.symbol = s, view)]

AskStructure ==
  \E type \in {"iron_condor", "vertical_debit_spread"}, expiry \in {1, 2},
     view \in {"fair", "rich", "reverse", "stale", "prior", "none"}, estimate \in {2, 8}, answers \in BOOLEAN :
    \E listing \in IF type = "iron_condor" THEN CondorListings ELSE SpreadListings,
       legs \in IF type = "iron_condor" THEN {CondorOf} ELSE {CallSpread, PutSpread},
       reference \in IF type = "iron_condor" THEN {100, 102} ELSE {NoPrice} :
      /\ answers \/ view = "fair"
      /\ view = "fair" \/ (estimate = 2 /\ reference # 102)
      /\ Ask([of |-> "structure", type |-> type, expiry |-> expiry, legs |-> legs,
              credit |-> IF type = "iron_condor" THEN estimate ELSE NoPrice,
              debit |-> IF type = "iron_condor" THEN NoPrice ELSE estimate, reference |-> reference,
              answers |-> answers, listing |-> listing, window |-> 9, marks |-> MarksOf(listing, view)])

-----------------------------------------------------------------------------
(* Data parity: candles of two providers, in progress or not, and a chart. *)

CandleAt(m, p, v) == [day |-> 1, minute |-> m, price |-> p, volume |-> v]
AtStart == {<<CandleAt(570, 10000, 100), CandleAt(600, 10010, 100)>>,
            <<CandleAt(570, 10000, 100), CandleAt(600, 10010, 100), CandleAt(630, 10010, 100)>>,
            <<CandleAt(600, 10010, 100)>>, <<>>}
AtEnd   == {<<CandleAt(600, p, 100), CandleAt(630, 10010, v)>> : p \in {10000, 10005, 10006}, v \in {99, 100, 102}}
             \cup {<<CandleAt(600, 10000, 100), CandleAt(630, 10010, 100), CandleAt(660, 10010, 100)>>,
                   <<CandleAt(630, 10000, 100), CandleAt(660, 10010, 100)>>, <<>>}

AskParity ==
  \E raw \in AtStart \X AtEnd,
     bars \in {<<b, b>> : b \in AtStart} \cup {p \in AtStart \X AtStart : Len(p[1]) = 2},
     now \in {<<1, 650>>, <<1, 660>>},
     theirs \in {-1, 102, 100}, chart \in {-1, 105}, failure \in {"none", "auth"} :
    /\ failure = "none" \/ theirs = 100
    /\ chart = -1 \/ bars[1] = bars[2]
    /\ Ask([of |-> "parity", failure |-> failure, raw |-> raw, bars |-> bars, now |-> now,
            rows |-> <<[ours |-> 100, theirs |-> theirs, chart |-> chart]>>])

AskBucket == \E tf \in Parity!IntradayFrames : Ask([of |-> "bucket", tf |-> tf])

-----------------------------------------------------------------------------
(* Risk calendar: minutes since a Monday's midnight; prices in hundredths. *)

RiskConfig(b, a, h) ==
  [enabled |-> TRUE, modeBlocks |-> FALSE, blocksHighImpact |-> h, avoidsEarnings |-> TRUE,
   before |-> b, after |-> a, macroBefore |-> 60, macroAfter |-> 60, volatilityBlocks |-> TRUE,
   indexRisk |-> TRUE, sessionRequired |-> TRUE, sessionBlocks |-> TRUE, staleMinutes |-> 60,
   vixCaution |-> 2000, vixRestricted |-> 3000, vixSpike |-> 1000, gapCaution |-> 100,
   gapRestricted |-> 200, underperform |-> -100]
Noon == 8 * 1440 + 600
Event(k, d, length, about) ==
  [kind |-> k, impact |-> "high", starts |-> Noon + d, ends |-> Noon + d + length, about |-> about]
Macro == {Event(k, d, 30, {}) : k \in {"cpi", "market_holiday", "market_half_day", "provider_data_issue", "opex"},
                               d \in {-120, -80, -20, 0, 60, 61}}
Earning == {Event("earnings", d, 0, {"A"}) :
              d \in {-3600, -1440, -100, 0, 1000, 1500, 2300, 2400, 4319, 4320, 4321, 7000}}
             \cup {Event("earnings", 0, 0, {"B"})}
Facing == {e \in Macro \cup Earning : e.starts - Noon \in {-1440, 0, 60}}
BarsAt(o, h, r) == [known |-> TRUE, before |-> 100, open |-> o, high |-> h, low |-> o, regular |-> r]
Point(l, c, a) == [level |-> l, change |-> c, asOf |-> a, stale |-> FALSE]
Backdrops == {Risk!NoContext, [s \in Risk!IndexSymbols |-> Point(2500, -150, Noon - 81)],
              [s \in Risk!IndexSymbols \ {"RUT"} |-> Point(3500, 10, Noon)]}
Evidence == {{}, {[kind |-> "earnings", about |-> {"A"}, stale |-> FALSE, supplied |-> FALSE]},
             {[kind |-> "earnings_call", about |-> {}, stale |-> FALSE, supplied |-> FALSE]}}

AskRisk ==
  \E cfg \in {RiskConfig(1, 1, TRUE), RiskConfig(2, 1, FALSE)},
     events \in {<<e>> : e \in Macro \cup Earning} \cup (Facing \X Facing),
     evidence \in Evidence, intraday \in BOOLEAN,
     bars \in {Risk!NoBars, BarsAt(103, 103, TRUE), BarsAt(102, 105, FALSE)}, points \in Backdrops :
    /\ intraday \/ bars = Risk!NoBars
    /\ Ask([of |-> "risk", cfg |-> cfg,
            asked |-> [now |-> Noon, events |-> events, evidence |-> evidence, symbol |-> "A",
                       intraday |-> intraday, bars |-> bars, points |-> points]])

\* Around the closes of a Friday and the days after, and the opening half hours.
AskFresh ==
  \E asOf \in {6720, 6690, 6680, 5280, 5240, 5250, 3840, 6330, 6320, 6260, 6240, 10580, 10650, 10730},
     now \in {10 * n : n \in 400..1200} :
    Ask([of |-> "fresh", asOf |-> asOf, now |-> now])

-----------------------------------------------------------------------------
(* Position reviews: prices in hundredths.                                 *)

Position(way, stop, target, days) ==
  [symbol |-> "A", side |-> way, quantity |-> 10, entry |-> 10000, stop |-> stop, target1 |-> target,
   target2 |-> Books!Missing, maxDays |-> 5, days |-> days]
Snapshot(answer, price, fallback) == [answer |-> answer, price |-> price, fallback |-> fallback]
Snapshots == {Snapshot("ok", p, FALSE) : p \in {9600, 9601, 10399, 10400, 10700}}
               \cup {Snapshot("ok", p, TRUE) : p \in {10399, 10700}} \cup {Snapshot("raised", Books!Missing, FALSE)}
Advice(symbol, rank, status, approved) == [symbol |-> symbol, rank |-> rank, status |-> status, approved |-> approved]
Recents == {<<>>, <<Advice("B", 1, "", TRUE), Advice("A", 4, "watchlist", TRUE)>>,
            <<Advice("A", 7, "no_trade", FALSE), Advice("A", 1, "top_candidate", TRUE)>>,
            <<Advice("A", 1, "top_candidate", TRUE)>>, <<Advice("A", 3, "approved", TRUE)>>}
Gates == {[state |-> "normal", allow |-> TRUE], [state |-> "no_trade", allow |-> FALSE]}

AskReview ==
  \E way \in {"long", "short"}, stop \in {Books!Missing, 9600, 10400}, target \in {Books!Missing, 10600, 9400},
     days \in {3, 5}, snapshot \in Snapshots, recent \in Recents, gate \in Gates, required \in BOOLEAN,
     limits \in {[notional |-> 109000, risk |-> 4400], [notional |-> 200000, risk |-> 4399]} :
    /\ days = 3 \/ Len(recent) # 1
    /\ Ask([of |-> "review", position |-> Position(way, stop, target, days), snapshot |-> snapshot,
            recent |-> recent, gate |-> gate, limits |-> limits, providerRequired |-> required])

Flags == [closes : BOOLEAN, scaling : {FALSE}, flip : BOOLEAN, shorts : BOOLEAN,
          closeOpposite : {TRUE}, hedge : {FALSE}, directional : {TRUE}]

-----------------------------------------------------------------------------
(* Triggers: the indicators that a type reads, in all they can say.        *)

Points(cross, fresh, turn, trend) ==
  [total : Directions, cross : cross, fresh : fresh, direction : turn, trend : trend]
Everything == Points({"up", "none", "down"}, {"bull", "none", "bear"}, {-1, 0, 1}, {-1, 0, 1})
Turns      == Points({"up", "none"}, {"none"}, {-1, 1}, {0, 1})
ReadingAt(thin, haco, momentum, atr) == [thin |-> thin, haco |-> haco, momentum |-> momentum, atr |-> atr]

ReadingsFor(type) ==
  CASE type = "true_momentum" ->
         {ReadingAt(FALSE, "green", m, "long") : m \in Everything \cup {Trigger!NoMomentum}}
    [] type = "hybrid" ->
         {ReadingAt(FALSE, h, m, a) : h \in {"green", "red", "none"}, m \in Turns \cup {Trigger!NoMomentum},
                                    a \in {"long", "short", "init"}}
    [] OTHER ->
         {ReadingAt(thin, h, Trigger!NoMomentum, a) :
            thin \in BOOLEAN, h \in {"green", "red", "none"}, a \in {"long", "short", "init", "none"}}

AskTrigger ==
  \E type \in {"standard", "haco_direction", "true_momentum", "hybrid", "atr_trailing_stop"} :
    \E r \in ReadingsFor(type) : Ask([of |-> "trigger", type |-> type, reading |-> r])

\* A Hybrid's verdict is what its filters make of it: its guards are those of
\* the other types.
ProfilesOf(type) ==
  LET hybrid == type = "hybrid"
      guards == IF hybrid THEN {FALSE} ELSE BOOLEAN
  IN  [type : {type}, prevents : guards,
       flags : [shorts : BOOLEAN, hedge : guards, flip : {TRUE}, closeOpposite : {TRUE}],
       hacoMode : CASE hybrid -> {"", "short_only"} [] type = "haco_direction" -> {"", "short_only", "long_and_short"} [] OTHER -> {""},
       momentumMode : IF hybrid \/ type = "true_momentum"
                      THEN {"conservative", "balanced", "aggressive", "review_only"} \cup (IF hybrid THEN {} ELSE {""}) ELSE {""},
       filters : IF hybrid THEN SUBSET {"haco", "momentum", "atr"} ELSE {{}}]

-----------------------------------------------------------------------------

AskAny ==
  \/ AskBoard \/ AskReport \/ AskComposite \/ AskCandidate \/ AskQueue \/ AskFamily
  \/ AskSession \/ AskWindow \/ AskLeg \/ AskProbe \/ AskParity \/ AskBucket \/ AskRisk \/ AskFresh \/ AskReview
  \/ AskTrigger \/ AskStructure

\* Scores agree with one another: the composite points have the side of the
\* oscillator, the figures of a heatmap row agree, and the report lists what
\* moved before what did not (MomentumScore, HeatmapScores).
ScoresAgree ==
  CASE Answering("composite") -> Score!CompositeSides(question.tm, question.avg)
    [] Answering("board")     -> BoardAgrees(question.cells, question.change, question.directions)
    [] Answering("report")    -> ReportTells(question.rows, question.earlier, 1)
    [] OTHER                  -> TRUE

\* Momentum moves a candidate within its bounds, the buckets of an answer tell
\* what its queue tells, and a family is applicable only to a candidate that
\* nothing is held against (MomentumRanking, MomentumFamilies).
RankingAgrees ==
  CASE Answering("candidate") -> Queue!MomentumIsBounded(question.base, TRUE, TRUE, question.chart,
                                   question.candidate, question.mode, question.open)
    [] Answering("queue")     -> Queue!AnswerAgrees(question.rows, <<TRUE, FALSE>>, 1)
    [] Answering("family")    -> Family!ApplicableIsUnblocked(question.candidate)
    [] OTHER                  -> TRUE

\* Bars are whole sessions of the right half hours, enough of them are read, a
\* leg is a listed contract, a probe claims only what it asked for, a structure
\* is ready only in listed contracts with fresh marks, a match of two providers
\* rests on complete candles that agree, and the candles of one bucket meet
\* however they are stamped (MarketQuotes, OptionContracts, DataParity).
QuotesAreEarned ==
  CASE Answering("session") -> Quote!SessionIsWhole(question.provider, question.candles, question.extended, question.tf)
    [] Answering("window")  -> Quote!WindowIsFilled(question.tf, question.limit, question.today)
    [] Answering("leg")     -> Quote!LegIsListed(question.listing, "call", question.expiry, question.strike,
                                                 question.window, question.limit)
    [] Answering("probe")   -> Quote!ProbeIsEarned(question.provider, question.configured,
                                 question.underlyings, question.samples, question.static)
    [] Answering("structure") -> Contract!ContractsAreEarned(question)
    [] Answering("parity")  -> Parity!MatchIsEarned([connected |-> TRUE, probed |-> TRUE], question.failure,
                                 question.raw, question.bars, "30M", question.now, question.rows)
    [] Answering("bucket")  -> Parity!SameBucketAligns(question.tf)
    [] OTHER                -> TRUE

\* No event of the calendar is masked, its readers agree, and index data that
\* passes as current is of the last session (RiskCalendar).
CalendarIsHeeded ==
  CASE Answering("risk")  -> Risk!CalendarIsHeeded(question.cfg, question.asked)
    [] Answering("fresh") -> Risk!FreshIsOfLastSession(RiskConfig(1, 1, TRUE), question.asOf, question.now)
    [] OTHER              -> TRUE

\* A stop has the last word in the review of a position, nothing is added to
\* a position that a limit, the calendar or its own levels forbid, and a
\* profile opens and closes only on what its indicators read (PositionReview,
\* AgentTriggers).
ReviewIsSound ==
  CASE Answering("review") ->
         \E review \in {Books!Review(question)} :
           \A flags \in Flags, says \in {"long", "short", "neutral"} :
             Books!ReviewIsSound(question, review, says, flags)
    [] Answering("trigger") ->
         \A p \in ProfilesOf(question.type), top \in BOOLEAN :
           \A others \in IF p.prevents THEN SUBSET {"long", "short"} ELSE {{}} :
             /\ Trigger!OpensAreEarned(p, question.reading, top, others)
             /\ Trigger!FiltersOnlyBlock(p, question.reading, top, others)
             /\ \A own \in {"long", "short"} : Trigger!OwnIsKept(p, question.reading, own)
    [] OTHER -> TRUE

-----------------------------------------------------------------------------
(* All topics.                                                             *)

ResearchInit ==
  /\ topic \in {"heatmap", "lists", "members", "haco", "stops", "trend", "folder", "question"}
  /\ question = None
  /\ ViewInit /\ ListInit /\ ScanInit /\ FolderInit
  /\ topic \notin {"lists", "members"} => lists = Nil

OnQuestion ==
  /\ topic = "question" /\ question = None /\ AskAny
  /\ UNCHANGED <<topic, viewVars, listVars, scanVars, folderVars>>

ResearchNext ==
  \/ OnHeatmap \/ OnLists \/ OnMembers \/ OnHaco \/ OnStops \/ OnTrend \/ OnFolder \/ OnQuestion

ResearchSpec == ResearchInit /\ [][ResearchNext]_researchVars

=============================================================================
