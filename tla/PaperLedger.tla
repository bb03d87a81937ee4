----------------------------- MODULE PaperLedger -----------------------------
(***************************************************************************)
(* The equity paper ledger of one approved user: the orders, fills,        *)
(* paper_positions and paper_trades tables, the HTTP handlers that stage,  *)
(* close, reopen and reset them, and the Agent Mode run that opens and     *)
(* closes paper positions through the same repositories.                   *)
(*                                                                         *)
(* A handler is a sequence of repository calls, and every repository call  *)
(* opens a session of its own and commits it (storage/db.py), so a request *)
(* is a process that advances one transaction per step, keeping what it    *)
(* read earlier in local variables.  FastAPI runs handlers on a thread     *)
(* pool and the agent scheduler is another process: steps of different     *)
(* requests interleave.  upsert_position_on_fill reads and writes without  *)
(* a lock, so it is two steps.                                             *)
(*                                                                         *)
(* Share quantities are abstracted to lots.  The shares of an order are    *)
(* one lot, named by the order; the quantity of a row is the set of lots   *)
(* it counts, so "old_remaining + fill_qty" is a union, "quantity = 0" is  *)
(* the empty set, and a share counted twice or not at all is visible.      *)
(*                                                                         *)
(* Not in this module: validation that rejects a request before its first  *)
(* write, prices, and the cancel handler, which accepts only an order      *)
(* whose status is "staged", a status the code never stores.               *)
(***************************************************************************)
EXTENDS Naturals, FiniteSets

CONSTANTS
  Workers,      \* request threads and the scheduler process
  Symbols,
  Sides,        \* "long" and "short"
  Profiles,     \* Agent Profiles of the user
  Manual,       \* agent_profile_id NULL: the operator
  Orders,       \* order ids (uuids, so an id is never used twice)
  NoOrder,
  NoKey,
  Endpoints,    \* the operations that requests may invoke
  MaxRequests,  \* bound on the number of requests in a behaviour
  MaxCrashes    \* bound on the number of requests that die half way

Operations == {"stage", "agentOpen", "closePosition", "agentClose",
               "closeOrder", "reopen", "reset"}

Owners == Profiles \cup {Manual}
Keys   == [symbol: Symbols, side: Sides, owner: Owners]

\* Row ids are integers; 0 is the NULL of a foreign key.
RowIds == 1..MaxRequests

ASSUME LedgerAssumption ==
  /\ MaxRequests \in Nat
  /\ MaxCrashes \in Nat
  /\ Manual \notin Profiles
  /\ NoOrder \notin Orders
  /\ NoKey \notin Keys
  /\ Endpoints \subseteq Operations

VARIABLES
  orders,     \* orders table: id -> row
  fills,      \* fills table: the orders that have a fill row
  positions,  \* paper_positions table: id -> row
  trades,     \* paper_trades table: id -> row
  req,        \* local variables of the request each worker is running
  started,    \* number of requests started so far
  crashes     \* number of requests that died half way

tables == <<orders, fills, positions, trades>>
vars   == <<orders, fills, positions, trades, req, started, crashes>>

OrderRow    == [status: {"unused", "filled", "closed", "deleted"},
                key: Keys \cup {NoKey}]
PositionRow == [status: {"absent", "open", "closed"},
                key: Keys \cup {NoKey},
                lots: SUBSET Orders]
TradeRow    == [status: {"absent", "booked"},
                pos: RowIds \cup {0},
                key: Keys \cup {NoKey},
                lots: SUBSET Orders]

Steps == {"idle", "persistFill", "findMatch", "bookFill", "reread",
          "recordTrade", "closeRow", "findOpen", "markOrder",
          "checkClosed", "restore", "deleteTrade", "wipe"}

Request == [at: Steps,
            order: Orders \cup {NoOrder},
            pos: RowIds \cup {0},
            trade: RowIds \cup {0},
            key: Keys \cup {NoKey},
            lots: SUBSET Orders]

Idle       == [at |-> "idle", order |-> NoOrder, pos |-> 0, trade |-> 0,
               key |-> NoKey, lots |-> {}]
NoPosition == [status |-> "absent", key |-> NoKey, lots |-> {}]
NoTrade    == [status |-> "absent", pos |-> 0, key |-> NoKey, lots |-> {}]

TypeOK ==
  /\ orders \in [Orders -> OrderRow]
  /\ fills \subseteq Orders
  /\ positions \in [RowIds -> PositionRow]
  /\ trades \in [RowIds -> TradeRow]
  /\ req \in [Workers -> Request]
  /\ started \in 0..MaxRequests
  /\ crashes \in 0..MaxCrashes

Init ==
  /\ orders = [o \in Orders |-> [status |-> "unused", key |-> NoKey]]
  /\ fills = {}
  /\ positions = [p \in RowIds |-> NoPosition]
  /\ trades = [t \in RowIds |-> NoTrade]
  /\ req = [w \in Workers |-> Idle]
  /\ started = 0
  /\ crashes = 0

(***************************************************************************)
(* Tables                                                                  *)
(***************************************************************************)

IsOpen(p)   == positions[p].status = "open"
IsClosed(p) == positions[p].status = "closed"
IsBooked(t) == trades[t].status = "booked"

\* The id the database gives to a new row: one more than the greatest id in
\* the table, so the id of a deleted last row is given out again.
IsNextId(table, id) ==
  /\ table[id].status = "absent"
  /\ \A other \in RowIds : other >= id => table[other].status = "absent"
  /\ id > 1 => table[id - 1].status # "absent"

\* Faulty variants, for showing that the properties notice: the upsert without
\* its side filter, and without its owner filter.
Matches_AnySide(key) ==
  {p \in RowIds : /\ IsOpen(p)
                  /\ positions[p].key.symbol = key.symbol
                  /\ key.owner # Manual => positions[p].key.owner = key.owner}
Matches_AnyOwner(key) ==
  {p \in RowIds : /\ IsOpen(p)
                  /\ positions[p].key.symbol = key.symbol
                  /\ positions[p].key.side = key.side}

\* The open rows an upsert for a fill with this key may aggregate into: the
\* owner filter is left out for a fill without agent_profile_id.
Matches(key) ==
  {p \in RowIds : /\ IsOpen(p)
                  /\ positions[p].key.symbol = key.symbol
                  /\ positions[p].key.side = key.side
                  /\ key.owner # Manual => positions[p].key.owner = key.owner}

\* The open rows /orders/{id}/close looks up: by symbol, whatever their side.
OpenInSymbol(symbol) ==
  {p \in RowIds : IsOpen(p) /\ positions[p].key.symbol = symbol}

(***************************************************************************)
(* Requests                                                                *)
(***************************************************************************)

\* Worker w begins a request of the given kind, with these local variables.
Start(w, operation, locals) ==
  /\ req[w] = Idle
  /\ operation \in Endpoints
  /\ started < MaxRequests
  /\ started' = started + 1
  /\ req' = [req EXCEPT ![w] = locals]
  /\ UNCHANGED crashes

\* Worker w goes on with its request (or ends it, with locals = Idle).
Goto(w, locals) ==
  /\ req' = [req EXCEPT ![w] = locals]
  /\ UNCHANGED <<started, crashes>>

Continue(w, step, locals) == req[w].at = step /\ Goto(w, locals)

At(w, step) == [req[w] EXCEPT !.at = step]

\* The process dies, or a repository call raises, between two transactions.
Crash(w) ==
  /\ req[w] # Idle
  /\ crashes < MaxCrashes
  /\ crashes' = crashes + 1
  /\ req' = [req EXCEPT ![w] = Idle]
  /\ UNCHANGED <<tables, started>>

(***************************************************************************)
(* Staging an order: the operator's stage_order and the agent's opens      *)
(***************************************************************************)

\* An approved, sized order: the paper broker fills it in memory, and the
\* order row is stored as filled.
PersistOrder(w) ==
  \E o \in Orders, key \in Keys :
    /\ orders[o].status = "unused"
    /\ Start(w, IF key.owner = Manual THEN "stage" ELSE "agentOpen",
             [Idle EXCEPT !.at = "persistFill", !.order = o, !.key = key])
    /\ orders' = [orders EXCEPT ![o] = [status |-> "filled", key |-> key]]
    /\ UNCHANGED <<fills, positions, trades>>

PersistFill(w) ==
  /\ Continue(w, "persistFill", At(w, "findMatch"))
  /\ fills' = fills \cup {req[w].order}
  /\ UNCHANGED <<orders, positions, trades>>

\* The SELECT of upsert_position_on_fill: scalar_one_or_none raises when it
\* finds more than one row, and the request ends with the fill stored.
FindMatch(w) ==
  LET found == Matches(req[w].key) IN
  /\ req[w].at = "findMatch"
  /\ \/ /\ found = {}
        /\ Goto(w, At(w, "bookFill"))
     \/ \E p \in found :
          /\ found = {p}
          /\ Goto(w, [req[w] EXCEPT !.at = "bookFill", !.pos = p,
                                     !.lots = positions[p].lots])
     \/ /\ \E p, q \in found : p # q
        /\ Goto(w, Idle)
  /\ UNCHANGED tables

\* No row matched: INSERT.
InsertPosition(w) ==
  /\ req[w].pos = 0
  /\ Continue(w, "bookFill", Idle)
  /\ \E id \in RowIds :
       /\ IsNextId(positions, id)
       /\ positions' = [positions EXCEPT ![id] =
            [status |-> "open", key |-> req[w].key, lots |-> {req[w].order}]]
  /\ UNCHANGED <<orders, fills, trades>>

\* A row matched: UPDATE its quantity from the quantity read before.  The
\* status column is not written, and a row deleted meanwhile raises.
AggregateFill(w) ==
  LET p == req[w].pos IN
  /\ p # 0
  /\ Continue(w, "bookFill", Idle)
  /\ positions' = IF positions[p].status = "absent" THEN positions
                  ELSE [positions EXCEPT ![p].lots = req[w].lots \cup {req[w].order}]
  /\ UNCHANGED <<orders, fills, trades>>

(***************************************************************************)
(* Closing: the close_paper_position handler, the agent's _execute_close,  *)
(* and the close_order handler                                             *)
(***************************************************************************)

\* What a close keeps of the open row it read, and the profile its trade
\* will be credited to.
ReadRow(p, credit) ==
  [Idle EXCEPT !.at = "recordTrade", !.pos = p,
               !.key = [positions[p].key EXCEPT !.owner = credit],
               !.lots = positions[p].lots]

\* POST /paper-positions/{id}/close, up to the check that the row is open.
\* The trade it will write has no agent_profile_id.
ReadPosition(w, p) ==
  /\ IsOpen(p)
  /\ Start(w, "closePosition", ReadRow(p, Manual))
  /\ UNCHANGED tables

\* An agent run lists the open rows of its profile and decides to close one.
PickOwnPosition(w, p) ==
  /\ IsOpen(p)
  /\ positions[p].key.owner \in Profiles
  /\ Start(w, "agentClose", [Idle EXCEPT !.at = "reread", !.pos = p])
  /\ UNCHANGED tables

\* _execute_close reads the row again, by id, and skips it if it is closed
\* or gone.  The trade it will write is credited to the owner of the row.
RereadPosition(w) ==
  LET p == req[w].pos IN
  /\ Continue(w, "reread",
       IF IsOpen(p) THEN ReadRow(p, positions[p].key.owner) ELSE Idle)
  /\ UNCHANGED tables

\* POST /orders/{id}/close: only an order that is already closed is refused.
ReadOrder(w, o) ==
  /\ orders[o].status = "filled"
  /\ Start(w, "closeOrder",
       [Idle EXCEPT !.at = "findOpen", !.order = o,
                    !.key = [orders[o].key EXCEPT !.owner = Manual]])
  /\ UNCHANGED tables

\* get_open_position by symbol: more than one row raises, and without a row
\* the handler books the shares of the order itself.
FindOpen(w) ==
  LET found == OpenInSymbol(req[w].key.symbol) IN
  /\ req[w].at = "findOpen"
  /\ \/ /\ found = {}
        /\ Goto(w, [req[w] EXCEPT !.at = "recordTrade", !.lots = {req[w].order}])
     \/ \E p \in found :
          /\ found = {p}
          /\ Goto(w, [req[w] EXCEPT !.at = "recordTrade", !.pos = p,
                                     !.lots = positions[p].lots])
     \/ /\ \E p, q \in found : p # q
        /\ Goto(w, Idle)
  /\ UNCHANGED tables

\* create_trade, then close_position unless there is no row to close.
RecordTrade(w) ==
  /\ Continue(w, "recordTrade",
              At(w, IF req[w].pos = 0 THEN "markOrder" ELSE "closeRow"))
  /\ \E id \in RowIds :
       /\ IsNextId(trades, id)
       /\ trades' = [trades EXCEPT ![id] =
            [status |-> "booked", pos |-> req[w].pos,
             key |-> req[w].key, lots |-> req[w].lots]]
  /\ UNCHANGED <<orders, fills, positions>>

\* Faulty variant: a close that leaves the quantity of the row.
CloseRow_KeepsQuantity(w) ==
  LET p == req[w].pos IN
  /\ Continue(w, "closeRow",
              IF req[w].order = NoOrder THEN Idle ELSE At(w, "markOrder"))
  /\ positions' = IF positions[p].status = "absent" THEN positions
                  ELSE [positions EXCEPT ![p].status = "closed"]
  /\ UNCHANGED <<orders, fills, trades>>

\* close_position does not look at the status it overwrites.
CloseRow(w) ==
  LET p == req[w].pos IN
  /\ Continue(w, "closeRow",
              IF req[w].order = NoOrder THEN Idle ELSE At(w, "markOrder"))
  /\ positions' = IF positions[p].status = "absent" THEN positions
                  ELSE [positions EXCEPT ![p].status = "closed", ![p].lots = {}]
  /\ UNCHANGED <<orders, fills, trades>>

MarkOrder(w) ==
  LET o == req[w].order IN
  /\ Continue(w, "markOrder", Idle)
  /\ orders' = IF orders[o].status = "deleted" THEN orders
               ELSE [orders EXCEPT ![o].status = "closed"]
  /\ UNCHANGED <<fills, positions, trades>>

(***************************************************************************)
(* Reopening a closed trade, and resetting the sandbox                     *)
(***************************************************************************)

\* POST /paper-trades/{id}/reopen, for a trade with a parent row.  Whether
\* the five-minute window is over is left to the operator's choice of trade.
ReadTrade(w, t) ==
  /\ IsBooked(t)
  /\ trades[t].pos # 0
  /\ Start(w, "reopen", [Idle EXCEPT !.at = "checkClosed", !.trade = t,
                                     !.pos = trades[t].pos, !.lots = trades[t].lots])
  /\ UNCHANGED tables

CheckClosed(w) ==
  /\ Continue(w, "checkClosed",
              IF IsClosed(req[w].pos) THEN At(w, "restore") ELSE Idle)
  /\ UNCHANGED tables

\* Faulty variants: a reopen that restores the status of the row and forgets
\* its quantity, and one that books the shares into a new row.
Restore_StatusOnly(w) ==
  LET p == req[w].pos IN
  /\ Continue(w, "restore", At(w, "deleteTrade"))
  /\ positions' = IF positions[p].status = "absent" THEN positions
                  ELSE [positions EXCEPT ![p].status = "open"]
  /\ UNCHANGED <<orders, fills, trades>>
Restore_NewRow(w) ==
  /\ Continue(w, "restore", At(w, "deleteTrade"))
  /\ \E id \in RowIds :
       /\ IsNextId(positions, id)
       /\ positions' = [positions EXCEPT ![id] =
            [positions[req[w].pos] EXCEPT !.status = "open", !.lots = req[w].lots]]
  /\ UNCHANGED <<orders, fills, trades>>

\* reopen_position does not look for another open row of the same key.
Restore(w) ==
  LET p == req[w].pos IN
  /\ Continue(w, "restore", At(w, "deleteTrade"))
  /\ positions' = IF positions[p].status = "absent" THEN positions
                  ELSE [positions EXCEPT ![p].status = "open", ![p].lots = req[w].lots]
  /\ UNCHANGED <<orders, fills, trades>>

\* Faulty variants: a reopen that leaves its trade in the history, and one
\* that marks it with a status of its own.
DeleteTrade_Forgotten(w) ==
  /\ Continue(w, "deleteTrade", Idle)
  /\ UNCHANGED tables
DeleteTrade_Marked(w) ==
  /\ Continue(w, "deleteTrade", Idle)
  /\ trades' = [trades EXCEPT ![req[w].trade].status = "reopened"]
  /\ UNCHANGED <<orders, fills, positions>>

DeleteTrade(w) ==
  /\ Continue(w, "deleteTrade", Idle)
  /\ trades' = [trades EXCEPT ![req[w].trade] = NoTrade]
  /\ UNCHANGED <<orders, fills, positions>>

\* POST /paper/reset reads the ids of the user's orders ...
ReadOrderIds(w) ==
  /\ Start(w, "reset", [Idle EXCEPT !.at = "wipe",
                          !.lots = {o \in Orders : orders[o].status \in {"filled", "closed"}}])
  /\ UNCHANGED tables

\* ... and deletes their fills and every row of the user in one transaction.
Wipe(w) ==
  /\ Continue(w, "wipe", Idle)
  /\ fills' = fills \ req[w].lots
  /\ trades' = [t \in RowIds |-> NoTrade]
  /\ positions' = [p \in RowIds |-> NoPosition]
  /\ orders' = [o \in Orders |-> IF orders[o].status = "unused" THEN orders[o]
                                 ELSE [orders[o] EXCEPT !.status = "deleted"]]

-----------------------------------------------------------------------------

Next ==
  \E w \in Workers :
    \/ PersistOrder(w) \/ PersistFill(w) \/ FindMatch(w)
    \/ InsertPosition(w) \/ AggregateFill(w)
    \/ \E p \in RowIds : ReadPosition(w, p) \/ PickOwnPosition(w, p)
    \/ RereadPosition(w)
    \/ \E o \in Orders : ReadOrder(w, o)
    \/ FindOpen(w) \/ RecordTrade(w) \/ CloseRow(w) \/ MarkOrder(w)
    \/ \E t \in RowIds : ReadTrade(w, t)
    \/ CheckClosed(w) \/ Restore(w) \/ DeleteTrade(w)
    \/ ReadOrderIds(w) \/ Wipe(w)
    \/ Crash(w)

Spec == Init /\ [][Next]_vars

(***************************************************************************)
(* Properties                                                              *)
(***************************************************************************)

\* The lots that row p accounts for: its own quantity, and what the trades
\* closed from it have realised.
TradesOf(p) == {t \in RowIds : IsBooked(t) /\ trades[t].pos = p}
Held(p)     == positions[p].lots \cup UNION {trades[t].lots : t \in TradesOf(p)}

AtRest == \A w \in Workers : req[w] = Idle

\* However the requests of a ledger that is not reset interleave and die, the
\* shares of one order are never counted by two position rows: lost updates
\* and double closes corrupt the row they race for and no other row.
LotsStayHome ==
  \A p, q \in RowIds : p # q => Held(p) \cap Held(q) = {}

\* Nor does a row, or a trade closed from it, ever count shares of another
\* symbol or side; and the shares of a profile are only ever counted by rows
\* of that profile (the filters of upsert_position_on_fill).
SameBook(from, to) ==
  /\ from.symbol = to.symbol
  /\ from.side = to.side
  /\ from.owner # Manual => from.owner = to.owner

LotsMatchRow ==
  \A p \in RowIds : \A o \in Held(p) : SameBook(orders[o].key, positions[p].key)

\* A trade credited to a profile realises no shares of another profile, even
\* when another request has changed the row between the listing of the run
\* and its close.
CreditStaysWithProfile ==
  \A t \in RowIds : trades[t].key # NoKey /\ trades[t].key.owner # Manual =>
    \A o \in trades[t].lots : orders[o].key.owner \in {Manual, trades[t].key.owner}

\* create_trade comes before close_position and reopen_position before
\* delete_trade, so with one request at a time a closed row is flat and has a
\* trade that explains it, whatever request died half way.
ClosedRowHasTrade == \A p \in RowIds : IsClosed(p) => TradesOf(p) # {}
ClosedRowIsFlat   == \A p \in RowIds : IsClosed(p) => positions[p].lots = {}
ClosedRowExplained == ClosedRowHasTrade /\ ClosedRowIsFlat

\* What the tests of the close handler say: an already-closed position is
\* refused, so a row that is never reopened has one trade at most.  Two close
\* requests that both read the row before either closes it break this, so that
\* no run checks it, nor the two statements below (README, known divergences).
ClosedOnlyOnce == \A p \in RowIds : Cardinality(TradesOf(p)) <= 1

\* What docs/agent-mode.md says: an agent never closes a manual paper trade.
\* A manual fill aggregates into a row that an agent owns, and is closed with it.
ManualTradesStayManual ==
  \A t \in RowIds : trades[t].key # NoKey /\ trades[t].key.owner # Manual =>
    \A o \in trades[t].lots : orders[o].key.owner # Manual

\* What the docstring of upsert_position_on_fill says: a fill is aggregated into
\* an open row or creates one.  A manual fill that meets two open rows raises
\* instead, after its order and fill are stored.
Counted == UNION {Held(p) : p \in RowIds}
FillsReachPositions == AtRest /\ crashes = 0 => fills \subseteq Counted

\* With one request at a time and none under way, a closed row has one trade
\* and an open row none, so that the P&L of the summary counts every close once,
\* through any sequence of closes and reopens; every request that died half way
\* can have left one trade too many, as create_trade and close_position, and
\* reopen_position and delete_trade, are transactions of their own.
OneTradePerClose ==
  AtRest => \A p \in RowIds :
              LET closes == IF IsClosed(p) THEN 1 ELSE 0
              IN  Cardinality(TradesOf(p)) \in closes .. closes + crashes

\* Shares some row counts are counted by some row until the sandbox is reset:
\* with one request at a time a request that dies may leave shares counted
\* twice, and never leaves them uncounted.
SharesNeverVanish ==
  [][(\A o \in Orders : orders'[o].status # "deleted") => Counted \subseteq Counted']_vars
=============================================================================
