# MacMarket-Trader in TLA+

Specifications of the paper-trading back end of MacMarket-Trader
(`src/macmarket_trader`, a FastAPI application over SQLAlchemy), the TLC
configurations that check them on small instances, and theorems about them
checked by TLAPS.

Paths below are relative to the repository, and shortened:
`admin.py` is `api/routes/admin.py`, `repositories.py` is
`storage/repositories.py`, `service.py` is `agent_mode/service.py`,
`market_data.py` and `schwab.py` are in `data/providers/`.

## The system

Request handlers are plain `def` functions: FastAPI runs them on a thread pool,
several at a time. The agent scheduler and the report batch are processes of
their own, started by a task scheduler or an operator. All of them share one
SQLite database. Every repository call opens a session, commits it and closes it
(`storage/db.py:12-25`); no row is locked, no row has a version. A handler is
therefore a sequence of small transactions with values carried between them in
local variables, and the hard behaviours of the system are those of such
sequences: two of them interleaved, one cut short, one acting on what it read
before the other wrote. Inside a process, handlers also share the object that
serves market data. The rest of the program is calculation: what a bar, a quote,
an event or a position means, in code that several consumers repeat in words of
their own, so that the hard part is that they agree.

| Component | State | Operations | Interacts with | What makes it correct |
|---|---|---|---|---|
| Equity paper ledger | `orders`, `fills`, `paper_positions`, `paper_trades` | stage, close position, close order, reopen a trade, reset, review | the agent's runs, through the same repositories | every share counted once; a closed row flat and explained by a trade; profiles' shares kept apart |
| Agent Mode run | one run's intents, `agent_mode_runs` | review positions, plan closes, opens and flips under caps, execute them | ledger, market data, notifications | closes only its own rows; caps hold; a row for every run |
| Agent Mode scheduler | latch columns of `agent_profiles` | check, diagnostic dry run, forced check | runs, profiles, users, watchlists | a due window is run, and once; claims are given up |
| Agent Profile settings | `agent_profiles` | create, edit, make default, delete | scheduler, ledger (owner of a row) | one default profile |
| Strategy report schedules | `strategy_report_schedules`, runs | edit, run now, run due | e-mail, recommendations | a due report sent once, none skipped, every due one in the end |
| Identity and approval | `app_users` | sign-in, merge, invite, approve, suspend, delete | every handler (`require_approved_user`) | approval and identity survive merges and races |
| Options paper lifecycle | `paper_option_*` | open a structure, review, close, settle at expiration | market data | the analysis that opens, the review that shows and the ledger that books agree |
| Recommendations, risk, replay, OMS | recommendations, replay runs, an order in memory | generate, size, replay, submit, fill, cancel | ledger, risk calendar | sizes within caps; heat carried on; legal order states |
| Ranking and momentum families | none | rank a queue, add momentum, sort into families | recommendations, agent runs | momentum is bounded; all parts of an answer tell one score |
| Schwab tokens | `provider_oauth_tokens`, `..._states` | connect, callback, read, refresh, mark | Schwab | a state is exchanged once; the row is live or refused for a reason |
| Market data | a cache, the last metadata | bars, snapshots, indexes, option contracts, health | providers | an answer is what was asked for; no demo data in secret |
| Watchlists and universe | `watchlists`, memberships, `user_symbol_universe` | edit lists and memberships, preview, resolve | scheduler, runs | a new default takes the flag from the others; a run scans what was previewed |
| Heatmaps | views, snapshots, preferences | edit views and rows, refresh, report | market data | a default view remains; a report compares what is comparable |
| Notifications | `notification_attempts` | send, rate caps | runs | caps hold, but for overlaps and lost records |
| Risk calendar | configuration and events | assess; refuse, gate, skip, warn | recommendations, queue, agent, staging | the strongest reason wins, and all readers heed it |
| Data parity, Thinkorswim fixtures | report files | compare two providers, validate a folder | market data, indicators | a match rests on something compared |
| Indicators | a scan's carried state | read a bar | charts, ranking, heatmaps | direction and stop follow the bars |
| LLM explanations, e-mail templates, target book, analysis packets, web front end, deployment | texts and settings | render | - | not modelled, see the end |

`PROJECT.json` lists the components with their sources and states how far each
is modelled; it also lists the hazards, each at its line, with the properties
that would catch it.

## Modules

Stateful components have a module with one action per operation; calculations
are modules of operators, with properties that take their inputs as arguments.
`MC` modules hold instances and inputs for TLC, `Proofs` modules the theorems.

| Module | What it is |
|---|---|
| `PaperLedger` (`MCPaperLedger`, `PaperLedgerProofs`) | the equity ledger: all its handlers and the agent's opens and closes |
| `AgentScheduler` (`MCAgentScheduler`, `AgentSchedulerProofs`) | `run_due`, the latch, the run rows |
| `AgentRun` (`MCAgentRun`, `AgentRunProofs`) | the plan of a run and its execution |
| `ReportSchedules` (`MCReportSchedules`, `ResearchProofs`) | `run_due_schedules`, run now, edits |
| `Accounts` (`MCAccounts`, `AccountsProofs`) | sign-in, invitation, merge, decisions, deletion, the profiles of an account |
| `OptionPayoff`, `OptionLedger` (`MCOptionLedger`, `OptionLedgerProofs`) | the analysis of an option structure, and its life in the ledger |
| `OMS`, `Replay` (`MCReplay`, `ReplayProofs`) | what the order management promises, and the replay that implements it |
| `SchwabTokens`, `MarketData`, `Notifications` (`MCProviders`, `ProvidersProofs`) | what lies between the program and its providers |
| `Watchlists`, `Heatmap` (`MCResearch`, `ResearchProofs`) | lists, universe and views, with requests that overlap |
| `HacoScan`, `AtrStop`, `BarScans` (`MCResearch`, `ResearchProofs`) | what indicators carry from bar to bar |
| `ThinkorswimParity` (`MCResearch`, `ResearchProofs`) | the fixture folder, its report and its card |
| `HeatmapScores`, `MomentumScore`, `MomentumRanking`, `MomentumFamilies`, `MarketQuotes`, `DataParity`, `RiskCalendar`, `PositionReview`, `AgentTriggers`, `OptionContracts` (`MCQuestions`) | calculations; `MCQuestions` adds their questions to the topics of `MCResearch`, and the `research` run is of it; theorems about `RiskCalendar`, `PositionReview` and `AgentTriggers` are in `AgentSchedulerProofs`, about `MomentumScore` in `ResearchProofs`, about the ranking and the families in `ReplayProofs`, about `MarketQuotes` in `ProvidersProofs`, next to the component that uses them |

`Replay` contains `Broker == INSTANCE OMS WITH ...`: its requests, which submit
and fill orders one call at a time, implement the abstract order machine
(`OrdersFollowOMS`). `AgentRun` keeps a simple ledger of its own (rows with an
owner and a number of lots); what its one step for an intent does to the tables
between two repository calls is in `PaperLedger`, and what becomes of its record
in `AgentScheduler`.

### PaperLedger

One approved user (every query of the ledger is filtered by the user, so users
do not meet). `orders`, `fills`, `positions`, `trades` are the tables; `req[w]`
holds the local variables of the request that worker `w` is running, with `at`
as its program counter. A step is one repository call:

| Handler | Steps |
|---|---|
| `stage_order` (`admin.py:2232`), `_execute_open`, `_execute_directional_short_open` (`service.py:1495, 1674`) | `PersistOrder`, `PersistFill`, `FindMatch`, `InsertPosition` or `AggregateFill` |
| `close_paper_position` (`admin.py:5120`) | `ReadPosition`, `RecordTrade`, `CloseRow` |
| `_execute_close` (`service.py:1621`) | `PickOwnPosition`, `RereadPosition`, `RecordTrade`, `CloseRow` |
| `close_order` (`admin.py:2155`) | `ReadOrder`, `FindOpen`, `RecordTrade`, `CloseRow` if there is a row, `MarkOrder` |
| `reopen_paper_trade` (`admin.py:5229`) | `ReadTrade`, `CheckClosed`, `Restore`, `DeleteTrade` |
| `reset_paper_sandbox` (`admin.py:5102`) | `ReadOrderIds`, `Wipe` |

`upsert_position_on_fill` selects and then updates without a lock, so it is two
steps; `reset` reads the order ids and deletes in one transaction, also two.
`Crash` ends a request between two steps: the process died or a call raised.

Quantities are abstracted to *lots*. The shares of an order are one lot; a row's
quantity is the set of lots it counts. `old + fill` becomes a union, zero the
empty set. A sum would hide what the properties are about: which shares a row or
a trade counts, and how often. Row ids are integers, as a reset lets SQLite give
ids out again; order ids are uuids, used once.

The handler of `POST /orders/{id}/cancel` (`admin.py:5180`) accepts only an
order whose status is `staged`. The paper broker stores every order as `filled`
(`execution/paper_broker.py`), so the handler always answers 409 and has no
action here.

### AgentScheduler

`run_due` (`service.py:3121`) as a process: `Begin` reads the time and the
profile rows once; then for each profile `SkipEarly` or `EnterWindow`,
`Lookup`, `Claim`, `CheckUser`, `Trade`, `Record`, `Finish`, or `WriteSkip`.
`latch[p]` is the `scheduler_last_*` columns, `log[p]` the `agent_mode_runs`
rows, `settings[p]` what the tables say now (a check remembers what they said
when it began). `update_scheduler_check` overwrites the latch unconditionally;
`claim_scheduler_window` is one conditional UPDATE. The kinds of check are the
loop's, the operator's diagnostic dry run (claims the window, and its row does
not count as the window's run) and the forced check (passes over the calendar,
the due time, the existing run and the claim).

Time is in units of 300 seconds. All profiles are in one time zone, that of the
market. The trading of a run is one step, `Trade`: PaperLedger has its
interleavings.

### AgentRun

`AgentModeService.run` with what it decides: `Start` reads settings, rows and
today's recorded opens and makes the plan (reviews of own positions, signals,
closes on an opposing signal, flips, caps on positions, per run, per day and by
the cash reserve); `Close` and `OpenOne` execute one intent each, closes first;
`Record` stores the run; `Die` ends it in between. `ManualOpen`, `ManualClose`
and `Undo` are the operator's trades, `NewDay` the end of a day. Reviews,
signals and marks are inputs. `strained[p]` names the accidents a property
excuses (a close without a mark, an overlap, an undone close, an addition, a run
that died, several rows at once) and `made` counts the opens the daily cap
should bound; only properties read them.

### ReportSchedules

`run_due_schedules` (`strategy_reports.py:857`) as a process: `ListDue` lists
the due rows once, then for each of them `Load` (`run_schedule` reads the row
again), `Compose` (the run row, which already says "sent"), `Send`, `Mark`
(`_mark_completed` with the due time that follows). `ComposeFails` of a heatmap
records a failed run, marks it and apologises by mail (`Apologise`); of a scan
it raises, like `SendFails` and `MarkFails`, and ends the batch. `RunNow` is the
operator's request for one schedule. `schedules[s]` is the table row;
`history[s][t]` and `mails[s][t]` say which run rows were stored and how many
mails were sent for the due time `t`, and are read by properties only.

`NextRunAt` translates the three loops of `_next_run_at` over days of
`DayLength` units and a week that begins on `FirstWeekday`. `Edit` writes what
`update_strategy_schedule` lets through; `Break` writes what it should not: a
run time or zone that cannot be read, or a recipient of a scan whom the provider
refuses. Schedules exist from the start, and daylight saving time does not change.

### Accounts

`users` are the rows of `app_users`, `profiles` those of `agent_profiles`,
`seeded` the accounts with the starter watchlist; ids are given again after the
greatest is deleted. `SignIn` and `SignInAgain` read the rows that match the
identity or the address, `Register`, `Merge` or nothing of the kind follows,
`Admit` is the check of `require_approved_user` afterwards. `Invite`,
`SetStatus`, `SetRole` and `DeleteUser` are the administrator's. The four
operations on profiles read first (`ReadProfiles`) and write later. A session
writes only the columns it changed, which `Written` models: it is what lets an
approval survive a sign-in that read the row before. `Move` is a person who
changes the address at Clerk.

### OptionPayoff and OptionLedger

`OptionPayoff` has the analysis: net debit or credit, maximum profit and loss,
break-even prices of long options, verticals and condors, and which structures
are refused. `OptionLedger` stores it when a structure is opened (`Open`: order,
position and legs in one transaction). A close and a settlement read
(`ReadToClose`, `ReadToSettle`) and write later (`Commit`); the commission
setting and the day change in between. The review, which only reads, is in the
operators `Class`, `PreviewNet` and `UnrealizedNet`, which repeat the code's own
calculation rather than call the ledger's.

### OMS and Replay

`OMS` is the in-memory machine of `execution/`: submission, partial and final
fill, cancellation. `Replay` runs the recommendation pipeline over a list of
events: `Generate` (regime, setup, stop, sizing, heat, quality, override),
`Submit` and `Fill` of the paper broker, and `Record`. Prices are multiples of a
grain, so that the fractions in the code are whole numbers.

### SchwabTokens, MarketData, Notifications

`SchwabTokens`: the token row, the OAuth states, and per thread the callback
(`Callback`, `Claim`, `Exchange`, `Save`) and the read (`Read`, `Refresh`,
`Save` or `Mark`, `Send`). Schwab's side, which tokens it honours, is a
variable; an answer may be lost after it took effect, tokens expire with `Tick`
and are revoked with `Revoke`.

`MarketData`: the service object that the threads of a process share. `Ask`
looks into the cache, `FetchQuote`, `FetchPage`, `FetchEnds` and the failures
are the requests, `KeepBars` stores bars and metadata, `Describe` is the route
that reads the metadata later. `Ttl` has the ages of the kinds; `MarketTick`
lets an entry age. `MayFallBack` is the rule of the demo setting.

`Notifications`: one run's digest or one test message per sender, channel after
channel; `AllowText` checks, `SendText` sends and records, `LoseRecord` dies in
between. `rows` are the attempts of the last 24 hours; `Age` drops the oldest.

### Watchlists and Heatmap

Both have requests that read a row and write it later, and SQLite's ids.
`Watchlists`: `AskUpsert` and `AskUpdate` read a list, `AskStarter` counts the
lists for the starter one (a first sign-in, that of an invited person, or the
approval of a pending account: `repositories.py:92, 3197, 3323`), and `WriteList`
writes what they ask for; an update may leave columns alone, and the session
writes none that reads the same. `Inherit` is what a merge relinks
(`repositories.py:3006`): the lists, memberships and symbols of the other row of
the person, default lists included. `DeleteList`, memberships (`SetMember`,
`RemoveMember`) and symbols of the account (`SetSymbol`) follow. `beside`
remembers the lists that came as default ones next to another, by a merge or by
a seeding that had counted before the other came; only `AtMostOneDefault` reads
it, and a request that sets the default empties it, as it clears all others.
`Preview` and `RunUniverse` are the two resolutions, each after its own code.
`Heatmap`: nearly every call seeds the account first (`EnsureRead`,
`EnsureCommit`), then creates, duplicates, edits, resets or deletes a view, adds
or removes a row, refreshes, or asks for a report (`BaselineOf` finds what to
compare with).

### Scans

A bar is the outcome of the comparisons the code makes, so that every series of
prices is covered up to what the code can tell apart. `HacoScan` carries the
flags of HACO and HACOLT, `AtrStop` both trailing stops in whole prices,
`BarScans` the direction of True Momentum and the HiLo thrust. A series with fewer
than two higher closes, for which the code returns early
(`true_momentum.py:209-221`), is one that stays on the average and so never gets
a direction. The first trade of the ATR stop is "long" in the run, the default
of the code; the theorems are about both. `BarScans` also puts the three together (`ScanSpec`), of which a behaviour of the `research` run has one.

### ThinkorswimParity

The folder is a manifest and files which an operator edits (`SaveManifest`,
`DropFile`, `RemoveFile`); `Validate` writes a report; `SettingsCard` joins the
manifest of now with the report of then. An entry's mode, computation,
attestation, tolerances and tallies follow the code.

### Calculations

`HeatmapScores`: cells, weighted scores, strength, tags, category summaries,
changes, report lists, and the HACO board. `MomentumScore`: the composite score
of a bar, classification, marks of a candle. `MomentumRanking`: the bounded
contribution of momentum, the score in millionths with every rounding, the
guard, queue, buckets and the stamping of the response. `MomentumFamilies`:
previews and applicability. `MarketQuotes`: half hours grouped to buckets,
source bars per request, option marks, choice of a contract, probes.
`DataParity`: which interval a candle covers, which candles are one, completed
candles, freshness, verdict and root cause. `RiskCalendar`: window, events,
evidence, index freshness, decisions, and their four readers. `PositionReview`:
mark, distances, action, warnings, and what an agent plans on it.

`AgentTriggers` has what the indicators of a symbol let a profile do: the
eligibility of HACO and True Momentum in their modes, the combination of a
Hybrid, the signals of a directional profile, and the decision for a candidate
and for a position that is held. `OptionContracts` has the listed contracts of a
structure: the four legs of a condor chosen together, the contract of each leg
of the others, the snap from a wanted strike to a listed one, the marks that
price them, the readiness that research reports of the result, and what the
paper open accepts.

## Runs

| Run | Instance | Checks | Distinct states |
|---|---|---|---|
| `ledger_serial` | 1 worker, 3 orders, 2 sides, 1 profile, 6 requests, 1 crash, every operation | `ClosedRowExplained`, `OneTradePerClose`, `SharesNeverVanish` | 520 330 |
| `ledger_concurrent` | 3 workers, 3 orders, 2 sides, 2 profiles, 4 requests, 1 crash, no reset | `LotsStayHome`, `LotsMatchRow`, `CreditStaysWithProfile` | 209 041 |
| `scheduler_loop` | 1 punctual loop, 2 profiles, 2 run times, 2 days of 4 units of which 1 is open, claims stale after 1, lookup of 5 rows; 1 edit, 1 manual run, 1 dry run, 1 crash | `OneRunPerWindow`, `TradedOncePerCrash`, `DueWindowRun` | 3.0 million |
| `scheduler_overlap` | 2 loops that overlap freely, 1 profile, 1 edit, 1 forced check | `ClaimReleased`, `NoTwoTrade` | 1.6 million |
| `reports` | 1 punctual worker, 2 schedules, 2 run times, 3 half days from a Sunday, any two kinds of event, once each | `OncePerDue`, `NothingLeftOut`, `DueAreServed` | 670 017 |
| `accounts` | 2 requests that overlap, 2 identities, 3 addresses, 3 user and 3 profile ids, up to 5 events | `SignedInHasWatchlist`, `OneDefault`, `GrantsStay` | 282 445 |
| `options` | all supported structures and some refused, 4 prices, 2 rates, 5 days, 2 requests | `AnalysisIsExact`, `ClosedAsTraded`, `BookedAsOffered` | 238 370 |
| `agent_run` | 2 threads, 2 profiles of 4 kinds, 2 symbols, 2 runs, 1 act of the operator | `OneSidePerSymbol`, `LimitsKept`, `NoAddition`, `OwnershipBoundary` | 872 628 |
| `replay` | 2 replays of up to 2 events over 6 kinds of bars | `WithinLimits`, `RunTellsFills`, `OrdersFollowOMS` | 132 447 |
| `providers` | one topic of three: tokens, market data, texts | `StateUsedOnce`, `TokensAreSound`, `MarketAnswersAsAsked`, `TextsStayBounded` | 3.0 million |
| `research` | one topic of eight: heatmap, lists, members, three scans, fixtures, questions | `ScoresAgree`, `RankingAgrees`, `QuotesAreEarned`, `CalendarIsHeeded`, `ReviewIsSound`, `ScansFollow`, `ParityIsEarned`, `HeatmapIsSound`, `ListsAreSound` | 293 243 |
| `agent_flip` | 1 directional profile, runs one after the other | violates `NeverBothSides` | |

Every bound ends behaviours (requests, events and time are counted), so deadlock
is not checked. Why the bounds are enough:

*Ledger.* A row is opened, aggregated into, closed, reopened and closed again
within five requests, and the sixth leaves room for one that dies half way;
three orders give a row two lots and a second row of the other side or owner.
Races are between two requests, and the third worker sees their result.

*Scheduler.* Two run times and an edit give two windows in one day, a day on
which the market is closed precedes one on which it is open, and a crash leaves
a claim that goes stale within the day. `StaleAfter` is 1 rather than the 3 of
the code (900 of 300 seconds), so that it happens early; `RunLimit` is 5 rather
than 100, and the runs stay below it as the properties say.

*Reports.* The clock passes a Sunday and reaches Monday, so that daily, weekday
and weekly schedules are due at some times and skip others. `MaxMails` 3 is one
more than `OncePerDue` allows. The order in which the query returns the due rows
is left open, as it names none. One worker: the code has no protection between
two, and the task scheduler starts no second instance of a task that is running.

*Accounts.* Two of three addresses and both identities can meet in one row, two
rows merge, and an id is given again after a deletion. Five events are one more
than the longest story the hazards tell (two sign-ins, an invitation, a move, a
decision); behaviours with events about profiles have four, as profiles meet
users in the user's id only.

*Options.* Four prices lie on each side of and on every strike; premiums of 0
and more give debits, credits and refused structures; two commission rates
change between opening, review and close; five days are before every threshold
of the review and after expiration. `Multiplier` is 10 rather than 100, which
only scales.

*Agent run.* `MaxOrder` 1 makes a lot the whole of an order; the settings reach
every branch of the plan (a directional profile in the smallest book, a standard
one, one without flips, one that may add and hedge), and two runs of one profile
or of two overlap or follow one another.

*Replay.* A second event sees the heat the first one left, and the six kinds of
bars reach each setup, a refusal for want of quality, for heat and for a price
of which one share is too much.

*Providers and research.* A behaviour has one topic, chosen at the start; topics
share no state, and what a topic does not read is pinned. Tokens: three tokens
are one refresh of a refreshed token; at most two kinds of disturbance happen in
one behaviour (`FewStrains`). Market data: the ages of the kinds are 1 and 2 and
the clock goes to 2; the longer history is asked for with bars only, as no other
question has a length. Texts: two senders overlap, of a day's limit of 2 and a
run's of 1. Heatmap: a second edit happens only where no refresh was begun.
Lists: two overlapping requests know one list of symbols and a merge that brings a
second starter list (`lists`), or one request at a time has members, symbols and
a merge that brings others to go with it (`members`). The questions are
asked once each, with inputs on both sides of every threshold that the code
compares with. `ListsAreSound` is read while no request is in flight; it does
not ask what one has read.

`TypeOK` is proved for every instance of `PaperLedger`, `AgentScheduler`,
`AgentRun`, `ReportSchedules`, `Accounts`, `OptionLedger`, `Replay` and
`SchwabTokens`, so no run repeats it.

*Fairness.* Only `FairSpec` of `ReportSchedules` assumes it, for `DueAreServed`:
a worker that is idle while a schedule is due begins a batch in the end, as the
task scheduler starts one every 15 minutes
(`docs/private-alpha-operator-runbook.md:675`), and a batch that has begun runs
on to its end. `DueWindowRun` of the scheduler is an invariant
under the constant `Punctual`: time advances by a unit only when every loop has
completed a check in it. This is what the loop script does, which starts a check
every 300 seconds, as long as a check takes less. `scheduler_overlap` drops it.

*Refinement.* `Replay => OMS`: `OrdersFollowOMS` is the abstract specification
as a property of the replay. Its booked shares are what the broker stored as
fills, and the sizes it may submit are those within the risk budget.

## What the runs found

`agent_flip`: a flip is a close and an open that are executed on their own. The
close is skipped when the review found no current mark (`service.py:1627`), the
open is executed all the same (`service.py:2748`), and the profile holds both
sides. `docs/agent-mode.md:100-102` says that there is never a simultaneous long
and short for the same symbol and profile.

### Known divergences

Met while modelling and kept in the model. No run checks what the
code does not keep; the properties that are stated but not checked are named.

Ledger, agent and schedules:

- Two closes that both read a position open each record a trade, and the P&L
  counts both (`ClosedOnlyOnce`). A manual fill is added to the row an agent
  owns, and the agent closes it (`ManualTradesStayManual`). A manual fill that
  finds two open rows raises after order and fill are stored
  (`FillsReachPositions`).
- A window is run twice by two checks, of which the second looked for a run
  before the first recorded it and claimed after the first had finished; or by
  one, when the run is not among the latest 100 rows (`NoDuplicateRun`).
- A schedule that an edit broke so that it always raises ends every batch, and a
  healthy one listed after it is never run; `DueAreServed` excuses it. If it is
  the run time that cannot be read, marking raises after the mail is sent
  (`strategy_reports.py:122, 415`), and every batch sends the report again;
  `OncePerDue` excuses that.
- Three checks can trade for one profile at a time where two cannot: one that
  finds the run the first has recorded overwrites the claim of the second with
  its skip, and the third claims the window and trades beside it. `NoTwoTrade`
  is stated accordingly.
- A request that remembers the id of a user, of a profile or of a row goes on
  with whoever gets that id next: a sign-in seeds, and an edit changes, the
  account of another person. The properties name these (`crossed`, `raced`).
- The cash reserve is compared with the book a run has read. A profile whose
  reserve exceeds its basis is refused from the first lot on; `LimitsKept`
  speaks of profiles that hold something.
- The merge of two user rows does not hand over the agent profiles
  (`docs/private-alpha-operator-runbook.md:438`). Two first requests of a user
  make two default profiles.

Agent triggers:

- A directional HACO profile ignores `haco_direction_mode`: with
  `allow_shorts` and `short_only` it opens longs. The non-directional Hybrid
  ignores `use_atr_filter`; a Standard profile with `allow_shorts` counts as
  directional and opens nothing (`triggers.py:501`).
- The modes "balanced" and "conservative" of True Momentum accept the same bars,
  as a trigger counts as rising. `review_only`, which the console says never
  opens (`agent-mode-console.tsx:1238`), gives a short signal that a profile
  with `allow_shorts` opens (`triggers.py:208`).
- A directional Hybrid never closes its own positions on a signal
  (`service.py:2527`). The fresh flip of a signal decides nothing, and
  `evaluate_true_momentum_exit_caution` is never called.

Options and replay:

- The second of two closes of an option position adds a second trade.
- The commission of opening is computed again at the rate of the day of the
  close.
- Research prices a vertical at whichever strikes are listed nearest, while the
  paper open refuses a strike too far off; a condor's allowance is a share of the
  last close in research and of the middle of its short strikes at the open. The
  two legs of a vertical may resolve to different expirations and yet be "ready".
  Of two expirations equally near either may be taken, as they come from a set.
- `provider_mark`, which Schwab's snapshots carry, is not among the methods that
  count as a fresh opening price. Contracts are required only when Polygon is
  configured.
- `POST /user/replay-runs` overrides the limit on heat; its response names the
  latest run, which may be another request's. An override approves
  recommendations of less than one share, on which the broker raises.

Providers:

- Any failed refresh asks for a reconnect, though the tokens may be valid
  (`ReconnectReserved`, `schwab.py:413, 443`; `docs/roadmap-status.md:369-371`).
- The description of bars is one field of the service, and may be of another
  request's (`DescriptionIsOwn`).
- Schwab's errors of authorization and configuration escape the options path
  (`market_data.py:1895, 2472`) and end the request, where Polygon's are
  answered; the model has both ("raised").
- Contracts are asked for in one cut of 1000 rows from Schwab, so that the strike
  nearest to the wanted one may be missing; `LegIsListed` then says less. Polygon
  pages through up to nine times as many, which the model does not cut.
- A quote without a date counts as fresh. The readiness probe of index options
  falls through to SPY and AAPL (`docs/options-paper-lifecycle-design.md:156`,
  `docs/market-risk-calendar-design.md:95`), and says entitled when every sample
  timed out. Polygon's `health_check` lets `DataNotEntitledError` and
  `SymbolNotFoundError` escape.
- Two senders at once exceed the day's cap on texts (`docs/agent-mode.md:475`),
  refused and skipped attempts use it up, and an answer that cannot be parsed
  leaves no row.

Risk calendar and review:

- The days looked back and ahead are swapped (`risk_calendar/service.py:144-145`
  against 449-453; `docs/market-risk-calendar-design.md:33`). Staging assesses an
  order again as one of 1D and without bars (`StagingIsNoWeaker`). Agents open
  under "restricted" without the confirmation that staging asks for
  (`service.py:2710`).
- A position without a mark is held as valid (`HoldIsChecked`,
  `admin.py:2500-2527` against 2749;
  `docs/active-paper-position-management-design.md:106-108, 279-281`), and a
  restricted gate does not warn of additions (`RestrictedIsWarned`, 290-292 of
  the same).
- Distances are rounded to hundredths of a per cent, the risk of an addition is
  from entry to stop, "recent" recommendations are the newest 100 of any age, and
  a non-positive average price is reported missing but not as unavailable.

Momentum, indicators and parity:

- The guard reports a correction where two places rounded differently
  (`RoundingIsNoCorrection`; `docs/momentum-intelligence-layer.md:1711-1717`).
  The status of a bucket does not heed the risk gate. The default of the off mode
  counts as evidence of a preference.
- HACOLT is never a buy before its first turn. A long ATR stop of exactly 0
  flips.
- A fixture with nothing to compare passes (`PassedIsCompared`); an expected flag
  of True never matches; `hilo_thrust_state` and `hilo_thrust_component` are
  allowed and never computed; `bars_csv: null` raises; the card of an old report
  stays after the manifest is edited.
- A candle outside the session stamped 9:30 or 16:00 takes the edge's bucket. A
  mismatch of raw candles hides a match of canonical ones. A provider that
  answers in real time can be called stale or ahead.

Heatmaps and lists:

- Two first requests make two default views, and a request that names none then
  fails. Resetting a custom view makes a second `morning-macro` that cannot be
  deleted. A view that gets the id of a deleted one inherits its snapshots and
  preferences. Of two edits of a view's rows at once one is lost.
- A category of unsupported symbols only reads "not_refreshed". A change of
  exactly 0 sorts like a missing one (`momentum_heatmap_reporting.py:285-342`;
  `docs/momentum-heatmap-reporting.md:197`).
- Two seedings that overlap (a sign-in beside an approval, or two approvals) both
  count no list and each add a starter list that is the default
  (`repositories.py:92-108`); `tests/test_watchlists.py:100` calls the helper
  idempotent, and `docs/roadmap-status.md:288` says that nobody is given a
  duplicate. A merge hands over a second default list (`repositories.py:3006`).
  `AtMostOneDefault` excuses these lists (`beside`), until a request sets the
  default; the tests check calls one after the other.
- A rename can duplicate a name, on which a later `POST` fails. When all
  memberships are deactivated the symbols stored with the list return. The id of
  a deleted list is given again, with its memberships. A flag that was read as it
  is asked for is not written, so that no default may remain. The membership
  operations have no route.

## Theorems

All are proved for every value of the constants that satisfies the named
assumptions of the modules, and the condition, if any, that the table gives:
assumed by the theorem, or an excuse within the statement. The
conditions are those the code or its installation has: one process at a time
where nothing in the code protects two, a loop that is punctual, claims that go
stale within a day.

| Theorem | Statement | Condition |
|---|---|---|
| `LedgerTypes` | `[]TypeOK` of the ledger | |
| `LotsStay` | `[]LotsStayHome` | no reset |
| `LotsMatch` | `[]LotsMatchRow` | no reset |
| `CreditStays` | `[]CreditStaysWithProfile` | no reset |
| `ClosedRowsExplained` | `[]ClosedRowExplained` | one worker |
| `ClosesAreCountedOnce` | `[]OneTradePerClose` | one worker; one trade more per crash |
| `SharesStayCounted` | `SharesNeverVanish` | one worker |
| `SchedulerTypes` | `[]TypeOK` of the scheduler | |
| `ClaimsReleased` | `[]ClaimReleased` | |
| `WindowsRunOnce` | `[]OneRunPerWindow` | one worker |
| `TradesOncePerLoss` | `[]TradedOncePerCrash` | one worker |
| `ClaimsKeepApart` | `[]NoTwoTrade` | `StaleAfter < DayLength`; within one stale period, no edit or forced check, and two processes once a run is recorded |
| `DueWindowsRun` | `[]DueWindowRun` | `Punctual`, one worker |
| `RunsAreSound`, `RunTypesHold` | `[]RunInv`, `[]TypeOK` of the agent's runs | |
| `OneSideStays` | `[]OneSidePerSymbol` | |
| `LimitsStay` | `[]LimitsKept` | |
| `NothingAdded` | `NoAddition` | |
| `OwnershipStays` | `OwnershipBoundary` | |
| `ReportTypes` | `[]TypeOK` of the schedules | |
| `ReportsSentOnce` | `[]OncePerDue` | one worker, no breaking edit; one mail more per crash |
| `ReportsLeaveNothingOut` | `NothingLeftOut` | `Punctual`, a mail allowed, a worker |
| `AccountTypes` | `[]TypeOK` of the accounts | |
| `SignedInAreSeeded` | `[]SignedInHasWatchlist` | |
| `OneDefaultStays` | `[]OneDefault` | |
| `GrantsAreKept` | `GrantsStay` | approvals: but for a merge of rows that changed since they were read |
| `AnalysisExact` | every accepted structure's analysis is that of its payoff | |
| `LedgerTypes` (options) | `[]TypeOK` of the option ledger | |
| `AnalysesHold` | `[]AnalysisIsExact` | settlements; break-evens of condors whose credit is within both wings |
| `ClosedOnceAsTraded` | `[]ClosedAsTraded` | late trades are not bounded |
| `BooksAsOffered` | `[]BookedAsOffered` | |
| `ReplayTypes` | `[]TypeOK` of the replay | |
| `ReplayWithinLimits` | `[]WithinLimits` | |
| `ReplayFollowsOMS` | `OrdersFollowOMS`, the refinement of `OMS` | |
| `ReplayRunsTellFills` | `[]RunTellsFills` | |
| `ReplayFillsAddUp` | `[]Broker!FillsAddUp`, an invariant of the abstract machine | |
| `TokenTypes` | `[]TypeOK` of the tokens | |
| `StatesUsedOnce` | `[]StateUsedOnce` | |
| `TokensStaySound` | `[]TokensAreSound` | but for overlaps, lost or late answers, outages, revocations |
| `AnsweredAsAsked` | `[]MarketAnswersAsAsked` | |
| `TextsAreBounded` | `[]TextsStayBounded` | |
| `ScansFollowTheBars` | `[]ScansFollow` | |
| `StopsOnlyTighten` | `StopRatchets` | |
| `TurnsAnnounced` | `TurnsAreSignalled` | |
| `HeatmapStaysSound` | `[]HeatmapIsSound` | |
| `OneDefaultList` | `[]AtMostOneDefault` of the watchlists | but for lists put `beside` by a merge or an overlapping seeding |
| `ListsStaySound` | `[]ListsAreSound`: that and `PreviewIsWhatRuns` | the same |
| `ParityStaysEarned` | `[]ParityIsEarned` of the fixture folder | |
| `ReviewsStaySound` | `ReviewIsSound`: for every position, ranking, gate and signal | |
| `TriggersStaySound` | `OpensAreEarned`, `FiltersOnlyBlock`, `OwnIsKept`, for every reading | |
| `CalendarStaysHeeded` | `CalendarIsHeeded`, for every sequence of events, any evidence, candles and indexes | see below |
| `FreshStaysCurrent` | `FreshIsOfLastSession`, at every minute of every week | data may be at most 1060 minutes old |
| `CompositeStaysOnSide` | `CompositeSides`, for every oscillator and average | |
| `ChartsStayConsistent` | `ScoreWithinRange`, `MarksAreConsistent`, for every bar | |
| `MomentumStaysBounded` | `MomentumIsBounded`, for every score, chart, candidate and mode | |
| `StampingKeepsScores` | the queue's guard changes no score of the ranking engine | |
| `FamiliesStayUnblocked` | `ApplicableIsUnblocked`, for every candidate | |
| `WindowsStayFilled` | `WindowIsFilled`, for windows of every length | |
| `LegsStayListed` | `LegIsListed`, for every listing of distinct contracts and every cut | nearest strike: unless rows were cut |
| `ProbesStayEarned` | `ProbeIsEarned`, for any number of samples | |

Next to what the code justifies the modules assume what keeps model values
apart: `NoRow` is no row of the tokens, "invited" no identity of Clerk, `NoRun`
no run; that the sets of symbols and of seeded views are finite; that somebody
sends; that an access token lives for some time; and that a list of symbols which
a request brings has at least one (`normalize_symbol_list` refuses an empty one:
with an empty list in a profile's watchlists, `SourceStatus` would stop a run
whose preview shows its members). Each assumption is named in
the module that declares its constants.

### The arguments

*The ledger.* `TypeOK` is not inductive: a step relies on local variables that
an earlier step has set, so `TypeInv` says for each value of `at` what is set,
and that an order some request names is stored. `LotsStayHome` is not inductive
either: a lot is not only in rows and trades but also in the local variables of
requests that have read a row and will write back what they read. `BookInv`
calls a lot *tied* to a row if the row, a trade of it, or such a request counts
it, and says that a lot is tied to one row at most (`OneRowEach`), of matching
key (`TiesMatch`), and to none while its order is still being booked by the
only request that holds it (`Unbooked`). Every step but two leaves the ties as
they are or removes some (`QuietKeepsBook`); staging an order and booking its fill
are proved on their own. These theorems assume that `reset` is not among the
endpoints (`NoReset`): a reset gives ids out again, and a request that
remembers an id then writes into another row.

With one worker resets are allowed, and the question is what a request that dies
half way leaves behind. `SerialInv` says of the tables that a closed row is flat
and has a trade (`RowsSound`), that a trade belongs to a row (`TradesHaveRows`)
and that lots are of stored orders (`LotsStored`); and of the request, for each
value of `at`, what it may rely on from its reads (`Relies`) and how many trades
its row has (`Counts`): one if it is closed or in the middle of a close or a
reopening, none otherwise, and one more at most for each crash. A close that
dies between its trade and its row leaves an open row with a trade, which the
next close makes a closed row with two; the crash is paid for when the dying
request stops counting as one in the middle.

*The scheduler.* `ClaimsReleased` needs that a check past its claim is one of
those `Holds` names, and that every write of the latch other than a claim
leaves a result other than "running". `WindowsRunOnce` needs `SoloInv`: the
check that has passed its lookup still finds no run of its window. That is false
with a second worker, whose lookup may precede the first one's record.
`TradesOncePerLoss` compares two counts, so `TradeInv` says that a window's
trades are its recorded runs and its losses, with the one trade of the check that
is between `Trade` and `Record` (`Accounted`), and that such a check is the
window's first (`StillFirst`). `ClaimsKeepApart` holds for any number of
processes: until a stale claim is taken over, `ClaimInv` keeps every check early
in its day (`Early`), the latch of a profile no older than its checks (`Ready`)
and a claim in one hand (`Exclusive`). `DueWindowsRun` is a bounded response,
proved as an invariant: while nobody edits, `DueInv` says that a check works
with the settings of now (`Current`), that a claim is as old as the crash that
left it (`ClaimTimed`), and that a window not yet run has a reason that time
will remove (`Excused`). The day and time of a window are a quotient and a
remainder, so the proofs of typing start with lemmas on division.

*Agent run.* `RunInv` joins `TypeOK`, the ownership of what a run plans to close
(`RunsOwn`), `Alone` and three statements for each profile. `HeldOnce`: while
undisturbed it holds a symbol in one row, and what a run plans to open is neither
held, unless the plan closes it first, nor planned twice. `WithinDay`: what was
opened is within the day's cap, *and* the plan's remaining opens fit into it;
without the second half an open may exceed what the first bounds. It also ties
the count of the tables (`booked`) to that of the model (`made`), which differ
while a run has not recorded itself. `WithinReserve`: the book respects the
reserve, and a run that has done nothing yet has read a book no smaller than it
is. `Alone` is needed by each: the local variables of one run of a profile say
nothing of what another does. The number of opens in a plan, the newest row of
a symbol and the sums over a book are defined by `CHOOSE`, counting and folds;
the lemmas `LeastElement`, `LatestRow` and those on sums prove what is needed of
them from a least counterexample.

*Reports.* `TypeInv` adds to the types what a batch has set when
(`LocalsOK`) and that a next due time is after the present one when the schedule
is marked (`NextAhead`). For one worker `AloneInv` counts the mails of a due
time: as many as the worker died between mail and mark, and one more while it is
there (`SentOnce`, `Owned`). `PunctualInv` says that a due time is marked only
after it was served or failed (`Served`), that a healthy schedule's next due
time is the one its frequency names (`Current`), and that a batch that is over
leaves none behind (`OnTime`). The core is a lemma on `NextRunAt`, which
searches seven days: it returns the least time of the schedule after now.

*Accounts.* `AccountInv` says what a request remembers at each step (`Sound`)
and that identities are unique among rows (`Unique`). `WatchInv` adds what a
sign-in has read: a row bound to a person has a watchlist already, unless its
id changed hands since (`crossed`). `ProfileInv` is about users of whom no two
requests overlap (`raced`): what a request read is what is stored (`ViewsOK`),
and one profile is the default (`DefaultOK`). That the next id of a table is
free (`NextIsFree`) is an argument on cardinality.

*Options.* The analysis is proved exact without induction over prices: the
payoff of a structure is linear between its strikes, so its extremes are at the
strikes, at zero, or in the slope beyond the last, and `AnalysisExact` goes
through the four shapes of structures and the order of their strikes. `LedgerInv`
adds what a row keeps of its analysis (`RowsOK`), what a request that will close
it has read (`RequestsOK`), and how the trades of a position explain its row
(`TradesOK`, `ClosesOK`). `BooksAsOffered` compares two calculations of one
amount, leg by leg.

*Replay.* `IInv` says that every recommendation is sound and every order and fill
repeats it (`RowsOK`), that the order a request is about was recommended and, until
it is submitted, is not there (`RequestOK`), that no two requests are about one
order (`Apart`), and that recorded replays kept within the limit on heat
(`HeatKept`). The refinement then has one step per action: `Submit` and `Fill`
are steps of `OMS`, all others stutter. That the arithmetic keeps within the risk
budget (sizes are rounded down, the stop is on the losing side) is proved from
the definitions for every bar. What a run records is a second invariant,
`TellInv`, on top of `IInv`: each request has filled what it recommended and
approved, but for the order it is about, its steps lead from its first portfolio
to the one it has, and no request shares a recommendation with another or with a
run (`OwnRecs`), so that a fill changes no sum but its own. `SumsExist`, `SumIs`,
`SumOfMore` and `SumOfSame` say what the community modules' `MapThenSumSet`
computes over a finite set, by the smallest subset for which it might be wrong.

*Schwab tokens.* `LiveInv`: while nothing disturbed the order of refreshes, the
stored refresh token is one that Schwab honours, or a thread is about to save
the one that is. `FreshInv` is about the age of what is stored and held, and
`RefusalInv` about why a row is refused. `StatesUsedOnce` needs only the types of
the states: the conditional update is one step.

*Market data and texts.* `MarketInv` says that each entry of the cache lies under
the key of what it is about and is of a kind its question admits, and that a
thread between two steps holds an answer to its own question that was within its
time when it was taken. Everything rests on `KeysTell`: two questions with one key ask the same.
`NoticeInv` bounds the texts that were tried *and* those a sender was allowed and
has not recorded: by the limit and the other senders, since a sender that is
allowed one has just counted fewer than the limit. A text whose record is lost
leaves this sum and is counted apart.

*Scans.* Each scan has an invariant of what it carries from one bar to the next.
`HacoInv`: a bar leaves a flag of its own colour up, so that never both are down,
and HACOLT remembers an upward turn as long as only the upward flag is up.
`TrendInv` ties the remembered crossing to the sides of the last two bars, from
which the direction of two bars on one side follows. `StopInv` puts both stops
on their side of the last close.

*Heatmap and watchlists.* What a request has read may be stale when it writes, so
`HeatInv` says what of it cannot go stale: a request past seeding has seen a
default view, and a default view is never deleted
(`ThreadsOK`); the snapshot a refresh will be compared with is an earlier one of
its view that holds values, and snapshots only become more (`Earlier`). That a
seeding request which saw no default adds one needs the order in which it
numbers the seeds (`OrderOf`). `ListsInv` says that lists not `beside` another
hold the default flag alone, that every list has symbols, and of a request under
way that it brings symbols to a new list and, unless it seeds, takes the flag
from all others if it sets it. Without that it leaves the flag of its row where
it was at most; a seeding adds a default list, which is `beside` another unless
it is the first.

*Preview and run.* Both resolve the same sources, but a run has normalized its
manual symbols before, falls back on them when nothing was found, and stops when
its watchlists are gone or empty. The first makes no difference: normalizing
reads from left to right and remembers only what it kept, so that a beginning may
be replaced by its normalized form (`NormalizedTwice`). The second never happens
to a source with manual symbols, as these are never empty, and the third only to
what the preview refuses, as no list is empty (`SymbolsThere`). The folds are
recursive over sets; that they exist, and that their results after k elements
follow each other (`FoldExists`, `FoldSteps`), is proved once from the least
counterexample, and each fold has a lemma that gives it such a trace.

*Fixtures.* `FolderInv` says that the report is the one that validating the folder
now would give, as long as nothing was edited since it was made. A card that
says passed then means that no entry failed and none is partial, so that each
passed (`PassedMeansAll`), and its tallies of each mode are the sizes of the sets
of entries that declare it, whatever the length of the manifest.

*Reviews and triggers.* The action of a review is that of the first condition
that applies, and the plan that of the first that the action and the signal
meet; the proofs go through them in this order. The stop comes before the
target, the holding period and the ranking, and an addition after all that
forbids it. For the triggers a lemma for each type, mode and filter says what it
has read when it lets a long or a short through; a Hybrid joins its filters, so
that one more only adds a conjunct.

*Calendar.* `Strongest` is a source none is stronger than, so the decision is at
least that of every source, and masking can only happen where the provider was
not asked for the event. As the days looked back and ahead are swapped (see the
divergences), the theorem holds for settings under which the window asked of the
provider is long enough all the same (`IsCalendar`): the days before and after an
earnings event do not exceed two, or each other, and a release blocks for at most
three days. The defaults are one day and one hour. For the index data, a lemma
says that `ExpectedLatest` is the last close, by arithmetic on the days of a
week; within a session data may be old for the configured minutes and 20 more,
which reaches no further back than half an hour before the last close if they are
1080 at most: the 1050 from a close to the next opening, and that half hour.

*Momentum.* The composite is a sum of parts each of which is zero or has the
sign of the gap. In the ranking a twentieth of a point is 175 millionths, and
the points are between -240 and 400 twentieths; rounding to four places moves
two scores apart by less than a step. That the guard is silent
(`StampingKeepsScores`) needs that the engine's own scores have three places,
which `_score_symbol` of `ranking_engine.py` gives them. A family is applicable
only after all reasons against it, so it is enough to see which families a
preview can name together.

*Quotes.* The days that are asked for hold at least the missing buckets, with 13, 7
or 2 buckets a day (`DaysSuffice`). The contract of a leg is the least of its
candidates in three orders, one after the other; each least exists by
`LeastElement`. What a probe says of its samples is decided by the first that
is denied or answers, found in the same way.

### What proving found

- The provers take `CASE` at its word, that any arm whose condition holds may be
  the value, where TLC takes the first. Choices whose conditions overlap, as those
  of an `if` with `elif`, are now written as `IF` and `ELSE IF`.

- `NoTwoTrade` was false for three processes, beyond the two that TLC runs with.
  It now says what holds for any number, and what for two (see above).
- `LimitsKept` was false for a reserve greater than the basis of a profile
  with an empty book.
- A request whose user or profile is deleted and whose id is given again
  meets another person's row; `SignedInHasWatchlist` and `OneDefault` were false
  for enough ids, and excuse exactly these requests now.

### Only model-checked

- `DueAreServed`: liveness under fairness is out of the prover's reach.
- `CalendarIsHeeded`, `ReviewIsSound`: the run puts its questions to operators of
  `RiskCalendar`, `PositionReview` and `AgentTriggers`, of which
  `CalendarStaysHeeded`, `FreshStaysCurrent`, `ReviewsStaySound` and
  `TriggersStaySound` are the theorems, for all inputs; that the run asks is left
  to the run.
- `ScoresAgree`, `RankingAgrees`, `QuotesAreEarned`: of their parts, those on the
  composite score, the candidate, the families, the window, the leg and the
  probe have theorems for all inputs. The others are folds or selections over
  lists of any length: the heatmap's board and report, the order of an answer
  (`AnswerAgrees` rests on there being a permutation that sorts), whole sessions
  (`SessionIsWhole`), the matches of two providers (`MatchIsEarned`) and the
  contracts of a structure (`ContractsAreEarned`). What such a definition
  computes for every input needs induction, which the provers lack as a rule.
  (`LeastElement` and `SmallestSet` replace it where a set of naturals or a
  finite set does.)
- `NeverBothSides` is violated.

## Plan

In reach of proofs without induction: the range behind the stops
(`RangeIsModest`), stated and asked by no run; and the selections that are still
only checked, by traces like those of `FoldSteps`. `TurnsAreSignalled` and
`StopRatchets` are proved and no run repeats them.

## Not modelled

The LLM client's explanations and the e-mail templates: text, on which no
decision depends. The daily target book and the analysis packets: read-only
summaries of what other components hold. The web front end: a client of the API.
Deployment scripts and database migrations. Of the modelled components: the
arithmetic of averages, true ranges and oscillators, which are inputs; chart
layout and colours; MFA and names of users; validation before a handler's first
write; a fixture's "skipped, not enough history". `PROJECT.json` states it for each component.
