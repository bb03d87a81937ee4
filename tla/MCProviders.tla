---------------------------- MODULE MCProviders ----------------------------
(***************************************************************************)
(* The services that the program talks to, in one instance: the tokens of  *)
(* Schwab, the market-data service before its providers, and the messages  *)
(* about agent runs.  A behaviour has one topic; they share no state.      *)
(***************************************************************************)
EXTENDS SchwabTokens, Notifications, TLC

CONSTANTS
  SeriesAsked, Providers, MaxAsked, MaxSeconds  \* of the market data

VARIABLES topic, setting, clock, cache, providerMeta, serviceMeta, thread, asked

Market == INSTANCE MarketData WITH now <- clock, MaxTime <- MaxSeconds

marketState == <<setting, clock, cache, providerMeta, serviceMeta, thread, asked>>
providerVars == <<topic, vars, noticeVars, marketState>>

\* Two lengths of one symbol's history.
OneSymbol == {[symbol |-> "a", limit |-> n] : n \in {60, 120}}

Settings(preference, consent) ==
  [preference |-> preference, email |-> TRUE, sms |-> TRUE, phone |-> TRUE, consent |-> consent]
MCProfiles == {Settings("sms", TRUE), Settings("both", FALSE)}

\* The providers differ in what they say of their bars only, so that one of them
\* is enough without a configuration, and one deployment of Alpaca.  The settings
\* of a topic that a behaviour is not about are pinned.
ProvidersInit ==
  /\ topic \in {"tokens", "market", "notices"}
  /\ Init /\ Market!MarketInit /\ NoticeInit
  /\ setting.provider # "polygon" => setting.configured
  /\ setting.provider \in {"alpaca", "fallback"} => ~setting.demo
  /\ topic # "market" => setting = [provider |-> "fallback", configured |-> TRUE, demo |-> FALSE]
  /\ topic # "notices" => profile = Settings("sms", TRUE) /\ readiness = "ready"

OnTokens  == topic = "tokens" /\ Next /\ UNCHANGED <<topic, noticeVars, marketState>>

\* Bound: the longer history is asked for with bars only.
OnMarket ==
  /\ topic = "market" /\ Market!MarketNext
  /\ \A t \in Threads : thread'[t].pc = "fetch" /\ thread'[t].kind # "bars" => thread'[t].series.limit = 60
  /\ UNCHANGED <<topic, vars, noticeVars>>

OnNotices == topic = "notices" /\ NoticeStep /\ UNCHANGED <<topic, vars, marketState>>

ProvidersSpec == ProvidersInit /\ [][OnTokens \/ OnMarket \/ OnNotices]_providerVars

Symmetry == Permutations(Threads) \cup Permutations(States)

\* Bound: two kinds of disturbance in one behaviour, and one where a third token
\* was issued.
FewStrains == Cardinality(strained) <= IF issued < MaxTokens THEN 2 ELSE 1

\* Whatever the other threads ask meanwhile, a thread is answered with data of
\* the series it asked for that was not past its time, and demo data is neither
\* answered nor kept unless the deployment allows it (MarketData).
MarketAnswersAsAsked == Market!AnswerIsAsked /\ Market!NoHiddenFallback

=============================================================================
