------------------------------ MODULE AgentRun ------------------------------
(***************************************************************************)
(* AgentModeService.run: how a run of an Agent Profile decides what to     *)
(* close, what to open and what to flip, and how it executes the plan.     *)
(*                                                                         *)
(* A run reads the profile's settings, the user's open positions and the   *)
(* opens that recorded runs made today; it reviews every position and      *)
(* evaluates the signals; then it executes its intents one by one, closes  *)
(* first, and stores its own record last.  The reads are one step here:    *)
(* only another run of the same profile changes what a later read of the   *)
(* run would see.  Every executed intent is a step, because the operator   *)
(* and other runs (the scheduler is a process of its own, the run-now      *)
(* endpoint is served by another) trade between them.                      *)
(*                                                                         *)
(* The review of a position, the signal of a symbol, the ranking and the   *)
(* risk calendar are inputs, chosen by \E: what they compute is not in     *)
(* this module.  Prices do not move: a notional is a number of lots.       *)
(* The transactions inside one intent are those of PaperLedger.            *)
(***************************************************************************)
EXTENDS Integers, FiniteSets, Sequences, SequencesExt

CONSTANTS
  Threads,     \* the scheduler's worker and the request threads
  Profiles,    \* the Agent Profiles of one user
  Manual,      \* agent_profile_id NULL: a position the operator opened
  Symbols,
  Settings,    \* the settings a profile may have
  NoRun,       \* what a thread without a run holds
  MaxOrder,    \* lots of the largest paper order (max_paper_order_notional)
  MaxRuns,     \* bound on the runs of a behaviour
  MaxActs      \* bound on what the operator does in it

Sides  == {"long", "short"}
Owners == Profiles \cup {Manual}
RowIds == Nat \ {0}

\* The columns of agent_profiles that a run reads.  "reopen" stands for
\* allow_new_trade_when_symbol_already_open and allow_scale_ins together.
SettingNames ==
  [atr: BOOLEAN, shorts: BOOLEAN, flip: BOOLEAN, closeOpposite: BOOLEAN,
   prevent: BOOLEAN, hedge: BOOLEAN, reopen: BOOLEAN, scaling: BOOLEAN,
   closes: BOOLEAN, opens: BOOLEAN,
   maxPositions: 1..5, perRun: 0..5, perDay: 0..5, reserve: Nat]

ASSUME RunAssumption ==
  /\ Manual \notin Profiles
  /\ IsFiniteSet(Symbols)
  /\ Settings \subseteq SettingNames
  /\ MaxOrder \in Nat \ {0}
  /\ MaxRuns \in Nat
  /\ MaxActs \in Nat

VARIABLES
  prefs,    \* agent_profiles: the settings of each profile
  rows,     \* paper_positions: a closed row keeps the lots its trade records
  booked,   \* paperOpensExecuted of the runs recorded today
  run,      \* the run each thread is executing
  made,     \* history: opens of today that the daily cap should bound
  strained, \* history: what happened to a profile that its plan did not foresee
  begun,    \* the runs so far
  acts      \* the operator's acts so far

vars == <<prefs, rows, booked, run, made, strained, begun, acts>>

Strains == {"unmarked", "overlap", "undone", "added", "died", "several"}

Rows    == [symbol: Symbols, side: Sides, owner: Owners,
            lots: Nat, open: BOOLEAN]
Opens   == [symbol: Symbols, side: Sides, flip: BOOLEAN]
Runs    == [profile: Profiles, closing: SUBSET RowIds,
            unmarked: SUBSET RowIds, opening: Seq(Opens),
            notional: Nat, done: Nat]

ASSUME NoRunAssumption == NoRun \notin Runs

TypeOK ==
  /\ prefs \in [Profiles -> Settings]
  /\ rows \in Seq(Rows)
  /\ booked \in [Profiles -> Nat]
  /\ made \in [Profiles -> Nat]
  /\ strained \in [Profiles -> SUBSET Strains]
  /\ run \in [Threads -> Runs \cup {NoRun}]
  /\ begun \in 0..MaxRuns
  /\ acts \in 0..MaxActs
  /\ \A t \in Threads :
       run[t] # NoRun =>
         /\ run[t].closing \subseteq DOMAIN rows
         /\ run[t].unmarked \subseteq run[t].closing

Init ==
  /\ prefs \in [Profiles -> Settings]
  /\ rows = <<>>
  /\ booked = [p \in Profiles |-> 0]
  /\ run = [t \in Threads |-> NoRun]
  /\ made = [p \in Profiles |-> 0]
  /\ strained = [p \in Profiles |-> {}]
  /\ begun = 0
  /\ acts = 0

-----------------------------------------------------------------------------
(* Who holds what.                                                         *)

Open    == {i \in DOMAIN rows : rows[i].open}

\* Faulty variant: the run manages every open position of the user.
Own_Everyone(p) == Open

\* own_open_positions: rows tagged with this profile.
Own(p) == {i \in Open : rows[i].owner = p}

SymbolsOf(ids) == {rows[i].symbol : i \in ids}

Total(weights) ==
  LET sum[n \in 0..Len(weights)] == IF n = 0 THEN 0 ELSE sum[n - 1] + weights[n]
  IN  sum[Len(weights)]

Weights(p) == [i \in DOMAIN rows |-> IF i \in Own(p) THEN rows[i].lots ELSE 0]

\* _current_open_notional, of the profile's own book.
LotsOf(p) == Total(Weights(p))

\* A position of another profile or of the operator on the given side.
Foreign(p, s, side) ==
  \E i \in Open \ Own(p) : rows[i].symbol = s /\ rows[i].side = side

Other(side) == IF side = "long" THEN "short" ELSE "long"

-----------------------------------------------------------------------------
(* decide_bidirectional_action, with the flags of the profile.             *)

Directional(f) == f.atr \/ f.shorts

\* The leg a signal may open: no short without allow_shorts.
MayOpen(f, signal) == signal = "long" \/ (signal = "short" /\ f.shorts)

Flips(f, side, signal) ==
  signal = Other(side) /\ MayOpen(f, signal) /\ f.flip /\ f.closes

\* Faulty variant: a short is left for the operator to cover.
ClosesOnSignal_LongOnly(f, side, signal) ==
  /\ signal = "short" /\ side = "long"
  /\ Flips(f, side, signal) \/ (f.closeOpposite /\ f.closes)

ClosesOnSignal(f, side, signal) ==
  \/ Flips(f, side, signal)
  \/ signal = Other(side) /\ f.closeOpposite /\ f.closes

\* The side a ranked candidate opens.  own_side is None here: what the
\* profile holds was excluded before.  An opposing position of somebody else
\* blocks the open when the profile prevents that exposure.
Opposed(p, s, signal) ==
  /\ prefs[p].prevent
  /\ Directional(prefs[p]) => ~prefs[p].hedge
  /\ Foreign(p, s, Other(signal))

OpensOn(p, s, signal) ==
  /\ signal \in Sides
  /\ MayOpen(prefs[p], signal)
  /\ ~Opposed(p, s, signal)

-----------------------------------------------------------------------------
(* The plan.  "stops" are the positions whose review is worth a close      *)
(* (stop, invalidated, time stop, target), "scaled" those it would add to, *)
(* "signal" the direction of each symbol and "queue" the ranked candidates *)
(* that no risk calendar blocks.                                           *)

Reviews(p) ==
  {r \in [stops: SUBSET Own(p), scaled: SUBSET Own(p)] :
     /\ r.stops \cap r.scaled = {}
     /\ prefs[p].scaling \/ r.scaled = {}}

Signals == [Symbols -> Sides \cup {"neutral"}]

\* closing_symbols and _position_intent: a close needs allow_closes.
Stopped(p, r) == IF prefs[p].closes THEN r.stops ELSE {}

\* The reconciliation of a directional profile looks only at plain holds.
Reconciled(p, r) ==
  IF Directional(prefs[p]) THEN Own(p) \ (Stopped(p, r) \cup r.scaled) ELSE {}

Reversed(p, r, signal) ==
  {i \in Reconciled(p, r) :
     ClosesOnSignal(prefs[p], rows[i].side, signal[rows[i].symbol])}

Flipped(p, r, signal) ==
  {i \in Reconciled(p, r) :
     Flips(prefs[p], rows[i].side, signal[rows[i].symbol])}

\* Faulty variant: the symbols of positions to be added to are not held.
Held_NotScaled(p, r) ==
  SymbolsOf(Own(p)) \ SymbolsOf(Stopped(p, r) \cup r.scaled)

\* held_symbols, computed before any signal is read.
Held(p, r) == SymbolsOf(Own(p)) \ SymbolsOf(Stopped(p, r))

\* Faulty variant: the day's cap forgets what this run has planned.
Room_DayBefore(p, held, planned) ==
  /\ Cardinality(held) + planned < prefs[p].maxPositions
  /\ planned < prefs[p].perRun
  /\ booked[p] < prefs[p].perDay

Room(p, held, planned) ==
  /\ Cardinality(held) + planned < prefs[p].maxPositions
  /\ planned < prefs[p].perRun
  /\ booked[p] + planned < prefs[p].perDay

Queues == UNION {SetToSeqs(S) : S \in SUBSET Symbols}

\* The candidates that become OPEN_PAPER intents, in the order of the ranking.
\* A candidate that is turned down leaves no trace in the plan, so the orders of
\* those that are not stand for every ranking.
Plannable(p, r, signal) ==
  {queue \in Queues :
     \A n \in DOMAIN queue :
       /\ queue[n] \notin Held(p, r) \/ prefs[p].reopen
       /\ OpensOn(p, queue[n], signal[queue[n]])
       /\ prefs[p].opens
       /\ Room(p, Held(p, r), n - 1)}

\* The symbols with a second leg of a flip: appended after the caps.
FlipSymbols(p, r, signal, queue) ==
  IF prefs[p].opens THEN SymbolsOf(Flipped(p, r, signal)) \ Range(queue) ELSE {}

Legs(symbols, signal, flip) ==
  [n \in DOMAIN symbols |->
     [symbol |-> symbols[n], side |-> signal[symbols[n]], flip |-> flip]]

Strain(p, why) == strained' = [strained EXCEPT ![p] = @ \cup why]

\* A run of a disabled, paused or killed profile is a dry run: it stores a
\* record that no cap counts, and changes nothing else.  "unmarked" are the
\* closes whose review had no current mark.
Start(t, p) ==
  /\ run[t] = NoRun
  /\ begun < MaxRuns
  /\ \E r \in Reviews(p), signal \in Signals :
       LET closing == Stopped(p, r) \cup Reversed(p, r, signal)
       IN \E unmarked \in SUBSET closing, queue \in Plannable(p, r, signal) :
            \E flips \in SetToSeqs(FlipSymbols(p, r, signal, queue)) :
              run' = [run EXCEPT ![t] =
                        [profile  |-> p,
                         closing  |-> closing,
                         unmarked |-> unmarked,
                         opening  |-> Legs(queue, signal, FALSE) \o Legs(flips, signal, TRUE),
                         notional |-> LotsOf(p),
                         done     |-> 0]]
  /\ Strain(p, IF \E u \in Threads : run[u] # NoRun /\ run[u].profile = p
               THEN {"overlap"} ELSE {})
  /\ begun' = begun + 1
  /\ UNCHANGED <<prefs, rows, booked, made, acts>>

-----------------------------------------------------------------------------
(* Executing the plan, one intent at a time.                               *)

\* Intents follow list_positions: the latest position first.
NextClose(t) == CHOOSE i \in run[t].closing : \A j \in run[t].closing : j <= i

CloseRow(i) == rows' = [rows EXCEPT ![i].open = FALSE]

\* _execute_close: a row that is closed by now, or has no mark, is skipped.
Closes(t, i) == rows[i].open /\ i \notin run[t].unmarked

Close(t) ==
  /\ run[t] # NoRun
  /\ run[t].closing # {}
  /\ LET i == NextClose(t)
     IN /\ run' = [run EXCEPT ![t].closing = @ \ {i},
                              ![t].unmarked = @ \ {i}]
        /\ IF Closes(t, i) THEN CloseRow(i) ELSE UNCHANGED rows
        /\ Strain(run[t].profile,
                  IF rows[i].open /\ ~Closes(t, i) THEN {"unmarked"} ELSE {})
  /\ UNCHANGED <<prefs, booked, made, begun, acts>>

\* The SELECT of upsert_position_on_fill: agent_profile_id NULL matches every
\* owner.
Matches(s, side, owner) ==
  {i \in Open : /\ rows[i].symbol = s
                /\ rows[i].side = side
                /\ owner # Manual => rows[i].owner = owner}

\* Its INSERT or UPDATE.  scalar_one_or_none raises on two rows.
Upsert(s, side, owner, lots) ==
  LET found == Matches(s, side, owner)
      new   == [symbol |-> s, side |-> side, owner |-> owner,
                lots |-> lots, open |-> TRUE]
  IN \/ /\ found = {}
        /\ rows' = Append(rows, new)
     \/ \E i \in found :
          /\ found = {i}
          /\ rows' = [rows EXCEPT ![i].lots = @ + lots]

\* _effective_paper_account_basis.
Basis(p) == MaxOrder * prefs[p].maxPositions

\* Faulty variant: the reserve is taken from the basis, the book is not.
CashCap_BookIgnored(p, notional) == Basis(p) - prefs[p].reserve

\* The cap of min_cash_reserve, against the book the run read at its start.
CashCap(p, notional) == Basis(p) - prefs[p].reserve - notional

\* _apply_agent_sizing_caps: the smallest of the caps, in lots.
Sized(p, notional, lots) ==
  IF prefs[p].reserve > 0 /\ CashCap(p, notional) < lots
  THEN CashCap(p, notional)
  ELSE lots

\* _execute_open and _execute_directional_short_open: a fill, or an intent
\* skipped because nothing was recommended or nothing fits under the caps.
OpenOne(t) ==
  /\ run[t] # NoRun
  /\ run[t].closing = {}
  /\ run[t].opening # <<>>
  /\ LET p == run[t].profile
         o == Head(run[t].opening)
         rest == [run[t] EXCEPT !.opening = Tail(@)]
     IN \/ /\ run' = [run EXCEPT ![t] = rest]
           /\ UNCHANGED <<rows, made, strained>>
        \/ \E lots \in 1..MaxOrder :
             LET sized == Sized(p, run[t].notional, lots)
             IN /\ sized > 0
                /\ Upsert(o.symbol, o.side, p, sized)
                /\ run' = [run EXCEPT ![t] = [rest EXCEPT !.done = @ + 1]]
                /\ made' = [made EXCEPT ![p] = @ + (IF o.flip THEN 0 ELSE 1)]
                /\ Strain(p, IF run[t].done > 0 THEN {"several"} ELSE {})
  /\ UNCHANGED <<prefs, booked, begun, acts>>

\* paperOpensExecuted of the runs recorded today, this one included.
BookedBy(p, t) == booked[p] + run[t].done

\* create_run: the record is the last thing a run does.
Record(t) ==
  /\ run[t] # NoRun
  /\ run[t].closing = {}
  /\ run[t].opening = <<>>
  /\ booked' = [booked EXCEPT ![run[t].profile] = BookedBy(run[t].profile, t)]
  /\ run' = [run EXCEPT ![t] = NoRun]
  /\ UNCHANGED <<prefs, rows, made, strained, begun, acts>>

\* An exception, the worker's timeout or a restart ends the run half way:
\* what it traded stays, its record is never stored.
Die(t) ==
  /\ run[t] # NoRun
  /\ Strain(run[t].profile, IF run[t].done > 0 THEN {"died"} ELSE {})
  /\ run' = [run EXCEPT ![t] = NoRun]
  /\ UNCHANGED <<prefs, rows, booked, made, begun, acts>>

-----------------------------------------------------------------------------
(* The operator, and the calendar.                                         *)

Acts == acts < MaxActs /\ acts' = acts + 1

\* A manual order fills: it joins the open position of that symbol and side.
ManualOpen(s, side) ==
  /\ Acts
  /\ Upsert(s, side, Manual, 1)
  /\ strained' = [p \in Profiles |->
       strained[p] \cup
         (IF Own(p) \cap Matches(s, side, Manual) # {} THEN {"added"} ELSE {})]
  /\ UNCHANGED <<prefs, booked, run, made, begun>>

ManualClose(i) ==
  /\ Acts
  /\ i \in Open
  /\ CloseRow(i)
  /\ UNCHANGED <<prefs, booked, run, made, strained, begun>>

\* POST /paper-trades/{id}/reopen: the position is open again as it was,
\* whatever was opened since.
Undo(i) ==
  /\ Acts
  /\ i \in DOMAIN rows
  /\ ~rows[i].open
  /\ rows' = [rows EXCEPT ![i].open = TRUE]
  /\ strained' = [p \in Profiles |->
       strained[p] \cup (IF rows[i].owner = p THEN {"undone"} ELSE {})]
  /\ UNCHANGED <<prefs, booked, run, made, begun>>

\* Midnight in the profiles' time zone.  A record falls on the day it is
\* stored, whichever day its run began.
NewDay ==
  /\ booked' = [p \in Profiles |-> 0]
  /\ made' = [p \in Profiles |-> 0]
  /\ UNCHANGED <<prefs, rows, run, strained, begun, acts>>

Next ==
  \/ \E t \in Threads :
       \/ \E p \in Profiles : Start(t, p)
       \/ Close(t) \/ OpenOne(t) \/ Record(t) \/ Die(t)
  \/ \E s \in Symbols, side \in Sides : ManualOpen(s, side)
  \/ \E i \in DOMAIN rows : ManualClose(i) \/ Undo(i)
  \/ NewDay

Spec == Init /\ [][Next]_vars

-----------------------------------------------------------------------------
(* What the runs of a profile promise                                      *)

Calm(p, why) == strained[p] \cap why = {}

BothSides(p) ==
  \E i, j \in Own(p) : rows[i].symbol = rows[j].symbol
                       /\ rows[i].side # rows[j].side

\* docs/agent-mode.md:100-102: "Flips close the own position first ... there
\* is never a simultaneous long+short for the same symbol/profile."
NeverBothSides == \A p \in Profiles : ~BothSides(p)

\* A profile is long and short in one symbol only after a close that was
\* skipped for want of a mark, an overlap of two runs, an undone close, or
\* under settings that let it open a symbol it holds: over runs that close,
\* flip and open, skip and die half way, with the operator trading between
\* their intents (service.py:2450-2760).
OneSidePerSymbol ==
  \A p \in Profiles :
    BothSides(p) =>
      prefs[p].reopen \/ ~Calm(p, {"unmarked", "overlap", "undone"})

\* The opens of one day stay within max_new_trades_per_day, flips apart: a
\* cap that is read from the records of earlier runs bounds the runs as long
\* as they neither overlap nor die before they are recorded (service.py:1370).
DailyCapKept ==
  \A p \in Profiles :
    made[p] > prefs[p].perDay => ~Calm(p, {"overlap", "died"})

\* The book leaves min_cash_reserve of the account basis untouched as long
\* as no run opens twice: each open is sized against the book the run read at
\* its start (service.py:1347).
ReserveKept ==
  \A p \in Profiles :
    /\ prefs[p].reserve > 0
    /\ Own(p) # {}
    /\ LotsOf(p) + prefs[p].reserve > Basis(p)
    => ~Calm(p, {"overlap", "undone", "added", "several"})

\* docs/agent-mode.md:79: "Already-open symbols are not duplicated as new
\* paper-open candidates."  A run adds lots to a position only under settings
\* that allow it, or after one of the accidents above.
NoAddition ==
  [][\A i \in DOMAIN rows :
       /\ run' # run
       /\ rows'[i].lots > rows[i].lots
       => LET p == rows[i].owner
          IN p \in Profiles /\ (prefs[p].reopen
               \/ ~Calm(p, {"unmarked", "overlap", "undone"}))]_vars

\* The ownership boundary: a run changes no row but those of its own profile,
\* neither by a close nor by a fill that joins a position (service.py:2402).
OwnershipBoundary ==
  [][\A i \in DOMAIN rows :
       rows'[i] # rows[i] =>
         \/ run' = run
         \/ \E t \in Threads : /\ run'[t] # run[t]
                               /\ run[t] # NoRun
                               /\ run[t].profile = rows[i].owner]_vars

\* The limits of a profile hold over all of its runs, those of the day and those
\* of its cash, apart from the accidents named with each (service.py:1347-1370).
LimitsKept == DailyCapKept /\ ReserveKept
=============================================================================
