----------------------------- MODULE MarketData -----------------------------
(***************************************************************************)
(* The market-data service of a process: one object that every request     *)
(* handler thread shares.  A thread asks it for the bars of a series, for  *)
(* the latest price, for the value of an index or for an option contract.  *)
(* The service looks into its cache, else asks the provider, else - where  *)
(* the demo setting allows it - answers with deterministic demo data; what *)
(* it answers is kept for a time that depends on the kind.                 *)
(*                                                                         *)
(* Two fields are shared besides the cache: the provider object's          *)
(* description of its last request for bars, which the service copies      *)
(* into its answer, and the service's description of its last bars, which  *)
(* the handler reads after the bars were returned.                         *)
(***************************************************************************)
EXTENDS Integers, Functions

CONSTANTS
  Threads,      \* the request handler threads
  SeriesAsked,  \* the series asked for: records of a symbol and a limit
  Providers,    \* the providers a deployment may have
  MaxTime,      \* bound: how far the clock goes
  MaxAsked      \* bound: how many questions are asked in all

VARIABLES
  setting,       \* the provider, whether it is configured and the demo switch
  now,           \* the monotonic clock
  cache,         \* what is kept, by key
  providerMeta,  \* last_aggregate_request_metadata of the provider object
  serviceMeta,   \* last_historical_metadata of the service
  thread,        \* what each thread is at
  asked          \* how many questions were asked

marketVars == <<setting, now, cache, providerMeta, serviceMeta, thread, asked>>

Kinds == {"bars", "latest", "index", "option"}
NoSeries == [symbol |-> "none", limit |-> 0]
NoMeta == [about |-> NoSeries, rows |-> NoSeries]

-----------------------------------------------------------------------------
(* What is kept.                                                           *)

\* The lifetimes in order: bars 120 s, options 30 s, latest and index 10 s.
Ttl(kind) == IF kind = "bars" THEN 2 ELSE 1

\* Faulty variant: the key leaves out how many bars were asked for.
KeyOf_SymbolOnly(kind, series) == <<kind, series.symbol, 0>>

KeyOf(kind, series) == <<kind, series.symbol, IF kind = "bars" THEN series.limit ELSE 0>>

\* Faulty variant: what is kept is served whatever its age.
Kept_Forever(key) == key \in DOMAIN cache

\* An entry is served until its time is up, when a look-up drops it.
Kept(key) == key \in DOMAIN cache /\ now < cache[key].until

\* Faulty variant: an outage is always bridged with demo data.
MayFallBack_Always(t) == TRUE

\* A deployment without a provider answers with demo data; one with a
\* provider only in development, when the switch is on.
MayFallBack(t) == setting.provider = "fallback" \/ setting.demo

-----------------------------------------------------------------------------
(* The threads.                                                            *)

Idle == [pc |-> "idle"]

MarketInit ==
  /\ setting \in [provider : Providers, configured : BOOLEAN, demo : BOOLEAN]
  /\ setting.provider = "fallback" => setting.configured
  /\ now = 0
  /\ cache = << >>
  /\ providerMeta = NoMeta
  /\ serviceMeta = NoMeta
  /\ thread = [t \in Threads |-> Idle]
  /\ asked = 0

\* A thread that was served the value v at this time.
Served(kind, series, v) ==
  [pc |-> IF kind = "bars" THEN "describe" ELSE "answered", kind |-> kind,
   series |-> series, value |-> v.value, of |-> v.of, until |-> v.until,
   at |-> now, meta |-> NoMeta]

\* A handler asks.  What is kept is served at once; for bars the service
\* then remembers the description kept with them, and the handler goes on to
\* read it.
Ask(t, kind, series) ==
  LET key == KeyOf(kind, series) IN
  /\ thread[t].pc \in {"idle", "answered", "refused"}
  /\ asked < MaxAsked
  /\ asked' = asked + 1
  /\ IF Kept(key)
     THEN /\ thread' = [thread EXCEPT ![t] =
               Served(kind, series, cache[key])]
          /\ serviceMeta' = IF kind = "bars" THEN cache[key].meta ELSE serviceMeta
          /\ UNCHANGED cache
     ELSE /\ thread' = [thread EXCEPT ![t] =
               [pc |-> "fetch", kind |-> kind, series |-> series]]
          /\ cache' = Restrict(cache, DOMAIN cache \ {key})
          /\ UNCHANGED serviceMeta
  /\ UNCHANGED <<setting, now, providerMeta>>

\* The cache with one more entry, or with another one.
Stored(key, entry) ==
  [k \in DOMAIN cache \cup {key} |-> IF k = key THEN entry ELSE cache[k]]

\* Keep a value and answer it.
Keep(t, value, meta) ==
  LET series == thread[t].series
      kind == thread[t].kind
      until == now + Ttl(kind)
  IN /\ cache' = Stored(KeyOf(kind, series),
          [value |-> value, of |-> series, until |-> until, meta |-> meta])
     /\ serviceMeta' = IF kind = "bars" THEN meta ELSE serviceMeta
     /\ thread' = [thread EXCEPT ![t] =
          Served(kind, series, [value |-> value, of |-> series, until |-> until])]

\* The request ends with an error: 402, 400 or 503.
Refuse(t, reason) ==
  /\ thread' = [thread EXCEPT ![t] = [pc |-> "refused", kind |-> thread[t].kind,
                                      reason |-> reason]]
  /\ UNCHANGED <<cache, serviceMeta>>

\* The provider's own description of bars: demo bars describe themselves.
OwnMeta(t) == [about |-> thread[t].series, rows |-> thread[t].series]

\* The provider fails: a refusal of the plan and an unknown symbol go to the
\* caller; an outage is bridged with demo data or goes to the caller.  An
\* option contract is answered as unavailable, which is kept, but for Schwab's
\* own errors, which nobody catches.
ProviderFails(t, answer) ==
  IF thread[t].kind = "option"
  THEN Keep(t, "unavailable", NoMeta)
       \/ (setting.provider = "schwab" /\ answer = "failed" /\ Refuse(t, "raised"))
  ELSE IF thread[t].kind = "index" THEN Refuse(t, answer)
  ELSE IF answer \in {"denied", "unknown"} THEN Refuse(t, answer)
  ELSE IF MayFallBack(t) THEN Keep(t, "demo", OwnMeta(t))
  ELSE Refuse(t, "unavailable")

\* Without a provider, or without its configuration, an index and an option
\* are answered as missing without asking.
AskNobody(t) ==
  /\ thread[t].pc = "fetch"
  /\ \/ /\ thread[t].kind \in {"index", "option"}
        /\ setting.provider = "fallback" \/ ~setting.configured
        /\ Keep(t, "missing", NoMeta)
     \/ /\ thread[t].kind \in {"bars", "latest"}
        /\ setting.provider = "fallback"
        /\ Keep(t, "demo", OwnMeta(t))
  /\ UNCHANGED <<setting, now, providerMeta, asked>>

Asking(t) ==
  /\ thread[t].pc = "fetch"
  /\ setting.provider # "fallback"
  /\ setting.configured \/ thread[t].kind \in {"bars", "latest"}

\* The provider answers a question other than for bars.  Schwab answers the
\* latest price without a quote from one bar, which it describes.
FetchQuote(t) ==
  /\ Asking(t) /\ thread[t].kind # "bars"
  /\ setting.configured
  /\ Keep(t, "provider", NoMeta)
  /\ \/ UNCHANGED providerMeta
     \/ /\ setting.provider = "schwab" /\ thread[t].kind = "latest"
        /\ providerMeta' = [about |-> NoSeries, rows |-> [thread[t].series EXCEPT !.limit = 1]]
  /\ UNCHANGED <<setting, now, asked>>

\* The provider refuses, does not know the symbol, or cannot be reached.
FetchFails(t) ==
  /\ Asking(t)
  /\ \E answer \in {"denied", "unknown", "failed"} :
       /\ ~setting.configured => answer = "failed"
       /\ ProviderFails(t, answer)
  /\ UNCHANGED <<setting, now, providerMeta, asked>>

\* The first page of bars.  Polygon describes its request at once and goes
\* on to more pages; Schwab describes it when it has the bars; Alpaca never.
FetchPage(t) ==
  /\ Asking(t) /\ thread[t].kind = "bars"
  /\ setting.configured
  /\ thread' = [thread EXCEPT ![t].pc = "pages"]
  /\ providerMeta' = IF setting.provider = "polygon"
                     THEN [about |-> thread[t].series, rows |-> NoSeries]
                     ELSE providerMeta
  /\ UNCHANGED <<setting, now, cache, serviceMeta, asked>>

\* A later page fails, or there was no bar at all.
PagesFail(t) ==
  /\ thread[t].pc = "pages"
  /\ \E answer \in {"denied", "unknown", "failed"} : ProviderFails(t, answer)
  /\ UNCHANGED <<setting, now, providerMeta, asked>>

\* All the bars are there.  Polygon completes the description that is then
\* the provider's last, whoever's it is.
FetchEnds(t) ==
  /\ thread[t].pc = "pages"
  /\ thread' = [thread EXCEPT ![t].pc = "keep"]
  /\ providerMeta' =
       CASE setting.provider = "polygon" -> [providerMeta EXCEPT !.rows = thread[t].series]
         [] setting.provider = "schwab" -> [about |-> NoSeries, rows |-> thread[t].series]
         [] OTHER -> providerMeta
  /\ UNCHANGED <<setting, now, cache, serviceMeta, asked>>

\* The service copies the provider's description, adds what it lacks, keeps
\* it with the bars and remembers it.
KeepBars(t) ==
  /\ thread[t].pc = "keep"
  /\ LET described == setting.provider \in {"polygon", "schwab"}
         meta == IF ~described THEN OwnMeta(t)
                 ELSE IF providerMeta.about = NoSeries
                      THEN [providerMeta EXCEPT !.about = thread[t].series]
                      ELSE providerMeta
     IN Keep(t, "provider", meta)
  /\ UNCHANGED <<setting, now, providerMeta, asked>>

\* A workflow takes demo bars only where the demo switch is on or no
\* provider is expected (_workflow_bars); then the handler reads the
\* service's last description and answers.
Describe(t) ==
  /\ thread[t].pc = "describe"
  /\ IF thread[t].value = "demo" /\ setting.provider # "fallback" /\ ~setting.demo
     THEN thread' = [thread EXCEPT ![t] = [pc |-> "refused", kind |-> "bars",
                                           reason |-> "unavailable"]]
     ELSE thread' = [thread EXCEPT ![t].pc = "answered", ![t].meta = serviceMeta]
  /\ UNCHANGED <<setting, now, cache, providerMeta, serviceMeta, asked>>

\* Time passes; a request in progress may take any time.
MarketTick ==
  /\ now < MaxTime
  /\ now' = now + 1
  /\ UNCHANGED <<setting, cache, providerMeta, serviceMeta, thread, asked>>

MarketNext ==
  \/ \E t \in Threads :
       \/ \E kind \in Kinds, series \in SeriesAsked : Ask(t, kind, series)
       \/ AskNobody(t) \/ FetchQuote(t) \/ FetchFails(t)
       \/ FetchPage(t) \/ PagesFail(t) \/ FetchEnds(t) \/ KeepBars(t)
       \/ Describe(t)
  \/ MarketTick

MarketSpec == MarketInit /\ [][MarketNext]_marketVars

-----------------------------------------------------------------------------
(* Properties.                                                             *)

HasData(t) == thread[t].pc \in {"describe", "answered"}

\* Whatever the other threads ask in the meantime, a thread is answered with
\* data of the series it asked for that was not past its time when it was
\* served (historical_bars, latest_snapshot: the keys and the times kept).
AnswerIsAsked ==
  \A t \in Threads : HasData(t) =>
    /\ thread[t].of.symbol = thread[t].series.symbol
    /\ thread[t].kind = "bars" => thread[t].of.limit = thread[t].series.limit
    /\ thread[t].at < thread[t].until

\* Demo data is neither answered nor kept in a deployment with a provider
\* unless the development switch is on, whatever order outages and requests
\* come in; and what a refused or unreachable provider leaves behind is only
\* ever the unavailable mark of an option contract.
NoHiddenFallback ==
  /\ \A t \in Threads : HasData(t) /\ thread[t].value = "demo" =>
       setting.provider = "fallback" \/ setting.demo
  /\ \A k \in DOMAIN cache :
       CASE cache[k].value = "demo" -> setting.provider = "fallback" \/ setting.demo
         [] cache[k].value = "unavailable" -> k[1] = "option"
         [] cache[k].value = "missing" -> ~setting.configured \/ setting.provider = "fallback"
         [] OTHER -> setting.configured

\* The description of bars answered with them is of the same series.  No run
\* checks it: the metadata is one field of the service, that two requests share,
\* so that the code does not keep it (README, known divergences).
DescriptionIsOwn ==
  \A t \in Threads :
    thread[t].pc = "answered" /\ thread[t].kind = "bars" =>
      thread[t].meta.about = thread[t].of

=============================================================================
