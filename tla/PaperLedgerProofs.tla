-------------------------- MODULE PaperLedgerProofs --------------------------
(***************************************************************************)
(* Theorems about PaperLedger, for any number of requests, crashes,        *)
(* symbols, profiles and orders; the last section has one worker, the      *)
(* others any number of them.                                              *)
(***************************************************************************)
EXTENDS PaperLedger, FiniteSetTheorems, TLAPS

(***************************************************************************)
(* Typing                                                                  *)
(***************************************************************************)

StageSteps == {"persistFill", "findMatch", "bookFill"}

\* TypeOK is not inductive: a close copies the key of the row it read, which
\* has a key only because it exists, and a step relies on a local variable
\* that an earlier step has set.
RequestOK(r) ==
  /\ r \in Request
  /\ r.at \in StageSteps \cup {"findOpen", "recordTrade"} => r.key \in Keys
  /\ r.at \in StageSteps \cup {"findOpen", "markOrder"} => r.order \in Orders
  /\ r.at = "recordTrade" /\ r.pos = 0 => r.order \in Orders
  /\ r.at \in {"reread", "closeRow", "checkClosed", "restore", "deleteTrade"}
       => r.pos \in RowIds
  /\ r.at \in {"checkClosed", "restore", "deleteTrade"} => r.trade \in RowIds

TablesOK ==
  /\ orders \in [Orders -> OrderRow]
  /\ fills \subseteq Orders
  /\ positions \in [RowIds -> PositionRow]
  /\ trades \in [RowIds -> TradeRow]
  /\ \A p \in RowIds : positions[p].status # "absent" => positions[p].key \in Keys
  /\ \A o \in Orders : orders[o].status # "unused" => orders[o].key \in Keys

RequestsOK ==
  /\ req \in [Workers -> Request]
  /\ \A w \in Workers : RequestOK(req[w])

CountersOK == started \in 0..MaxRequests /\ crashes \in 0..MaxCrashes

\* A request that names an order names one that has been stored.
OrdersStored ==
  \A w \in Workers : req[w].order \in Orders => orders[req[w].order].status # "unused"

TypeInv == TablesOK /\ RequestsOK /\ CountersOK /\ OrdersStored

LEMMA IdleOK == RequestOK(Idle)
  BY DEF RequestOK, Request, Idle, Steps, StageSteps

LEMMA TypeInit == Init => TypeInv
<1> SUFFICES ASSUME Init PROVE TypeInv
  OBVIOUS
<1>1. TablesOK
  BY DEF Init, TablesOK, OrderRow, PositionRow, TradeRow, NoPosition, NoTrade
<1>2. RequestsOK
  BY IdleOK DEF Init, RequestsOK, RequestOK
<1>3. CountersOK
  BY LedgerAssumption DEF Init, CountersOK
<1>4. OrdersStored
  BY LedgerAssumption DEF Init, OrdersStored, Idle
<1> QED
  BY <1>1, <1>2, <1>3, <1>4 DEF TypeInv

\* A step that stores well-formed locals for its worker keeps all of them so.
LEMMA LocalsOK ==
  ASSUME RequestsOK, NEW w \in Workers, NEW r, RequestOK(r),
         req' = [req EXCEPT ![w] = r]
  PROVE  RequestsOK'
  BY DEF RequestsOK, RequestOK

LEMMA StartOK ==
  ASSUME TypeInv, NEW w \in Workers, NEW operation, NEW r, RequestOK(r),
         Start(w, operation, r)
  PROVE  RequestsOK' /\ CountersOK'
<1>1. RequestsOK'
  BY LocalsOK DEF Start, TypeInv
<1>2. CountersOK'
  BY LedgerAssumption DEF Start, TypeInv, CountersOK
<1> QED BY <1>1, <1>2

LEMMA GotoOK ==
  ASSUME TypeInv, NEW w \in Workers, NEW r, RequestOK(r), Goto(w, r)
  PROVE  RequestsOK' /\ CountersOK'
<1>1. RequestsOK'
  BY LocalsOK DEF Goto, TypeInv
<1>2. CountersOK'
  BY DEF Goto, TypeInv, CountersOK
<1> QED BY <1>1, <1>2

LEMMA SameTables == ASSUME TablesOK, UNCHANGED tables PROVE TablesOK'
  BY DEF TablesOK, tables

LEMMA ReadRowOK ==
  ASSUME TablesOK, NEW p \in RowIds, IsOpen(p), NEW credit \in Owners
  PROVE  RequestOK(ReadRow(p, credit))
<1> DEFINE key == [positions[p].key EXCEPT !.owner = credit]
<1>1. positions[p].key \in Keys /\ positions[p].lots \subseteq Orders
  BY DEF TablesOK, PositionRow, IsOpen
<1>2. key \in Keys
  BY <1>1 DEF Keys
<1>3. ReadRow(p, credit) = [Idle EXCEPT !.at = "recordTrade", !.pos = p,
                                        !.key = key, !.lots = positions[p].lots]
  BY DEF ReadRow
<1> HIDE DEF key
<1> QED
  <2> DEFINE r == ReadRow(p, credit)
  <2>1. /\ r \in [at: {"recordTrade"}, order: {NoOrder}, pos: {p}, trade: {0},
                   key: {key}, lots: {positions[p].lots}]
    BY <1>3 DEF Idle
  <2>2. r \in Request
    BY <1>1, <1>2, <2>1 DEF Request, Steps
  <2>3. r.at = "recordTrade" /\ r.key = key /\ r.pos # 0
    BY <2>1 DEF RowIds
  <2> QED
    BY <1>2, <2>2, <2>3 DEF RequestOK, StageSteps

LEMMA TypeStep ==
  ASSUME TypeInv, [Next]_vars
  PROVE  TablesOK' /\ RequestsOK' /\ CountersOK'
<1> DEFINE Types == TablesOK /\ RequestsOK /\ CountersOK
<1> USE DEF TypeInv
<1>1. ASSUME NEW w \in Workers, PersistOrder(w) PROVE Types'
  <2>1. PICK o \in Orders, key \in Keys :
          /\ Start(w, IF key.owner = Manual THEN "stage" ELSE "agentOpen",
                   [Idle EXCEPT !.at = "persistFill", !.order = o, !.key = key])
          /\ orders' = [orders EXCEPT ![o] = [status |-> "filled", key |-> key]]
          /\ UNCHANGED <<fills, positions, trades>>
    BY <1>1 DEF PersistOrder
  <2> DEFINE r == [Idle EXCEPT !.at = "persistFill", !.order = o, !.key = key]
  <2>2. RequestOK(r)
    BY DEF RequestOK, Request, Steps, StageSteps, Idle
  <2>3. RequestsOK' /\ CountersOK'
    <3> DEFINE operation == IF key.owner = Manual THEN "stage" ELSE "agentOpen"
    <3>1. Start(w, operation, r)
      BY <2>1
    <3> HIDE DEF r, operation
    <3> QED BY <2>2, <3>1, StartOK
  <2>4. TablesOK'
    BY <2>1 DEF TablesOK, OrderRow
  <2> QED BY <2>3, <2>4
<1>2. ASSUME NEW w \in Workers, PersistFill(w) PROVE Types'
  <2> DEFINE r == At(w, "findMatch")
  <2>1. RequestOK(r)
    BY <1>2 DEF PersistFill, Continue, RequestsOK, At, RequestOK, Request,
      Steps, StageSteps
  <2>2. RequestsOK' /\ CountersOK'
    <3>1. Goto(w, r)
      BY <1>2 DEF PersistFill, Continue
    <3> HIDE DEF r
    <3> QED BY <2>1, <3>1, GotoOK
  <2>3. TablesOK'
    BY <1>2 DEF PersistFill, Continue, RequestsOK, TablesOK, RequestOK,
      StageSteps
  <2> QED BY <2>2, <2>3
<1>3. ASSUME NEW w \in Workers, FindMatch(w) PROVE Types'
  <2> DEFINE none == At(w, "bookFill")
             one(p) == [req[w] EXCEPT !.at = "bookFill", !.pos = p, !.lots = positions[p].lots]
  <2>1. RequestOK(none) /\ \A p \in RowIds : RequestOK(one(p))
    BY <1>3, ZenonT(60) DEF FindMatch, RequestsOK, TablesOK, PositionRow, At, RequestOK,
      Request, Steps, StageSteps
  <2>2. RequestsOK' /\ CountersOK'
    <3>1. Goto(w, none) \/ (\E p \in RowIds : Goto(w, one(p))) \/ Goto(w, Idle)
      BY <1>3 DEF FindMatch, Matches
    <3> HIDE DEF none, one
    <3> QED BY <2>1, <3>1, GotoOK, IdleOK
  <2>3. TablesOK'
    BY <1>3, SameTables DEF FindMatch
  <2> QED BY <2>2, <2>3
<1>4. ASSUME NEW w \in Workers, InsertPosition(w) PROVE Types'
  <2>1. RequestsOK' /\ CountersOK'
    BY <1>4, IdleOK, GotoOK DEF InsertPosition, Continue
  <2>2. TablesOK'
    BY <1>4 DEF InsertPosition, Continue, RequestsOK, TablesOK, RequestOK,
      StageSteps, PositionRow
  <2> QED BY <2>1, <2>2
<1>5. ASSUME NEW w \in Workers, AggregateFill(w) PROVE Types'
  <2>1. RequestsOK' /\ CountersOK'
    BY <1>5, IdleOK, GotoOK DEF AggregateFill, Continue
  <2>2. TablesOK'
    BY <1>5 DEF AggregateFill, Continue, RequestsOK, TablesOK, RequestOK,
      StageSteps, Request, PositionRow
  <2> QED BY <2>1, <2>2
<1>6. ASSUME NEW w \in Workers, NEW p \in RowIds, ReadPosition(w, p) PROVE Types'
  <2> DEFINE r == ReadRow(p, Manual)
  <2>1. RequestOK(r)
    BY <1>6, ReadRowOK DEF ReadPosition, Owners
  <2>2. RequestsOK' /\ CountersOK'
    <3>1. Start(w, "closePosition", r)
      BY <1>6 DEF ReadPosition
    <3> HIDE DEF r
    <3> QED BY <2>1, <3>1, StartOK
  <2>3. TablesOK'
    BY <1>6, SameTables DEF ReadPosition
  <2> QED BY <2>2, <2>3
<1>7. ASSUME NEW w \in Workers, NEW p \in RowIds, PickOwnPosition(w, p) PROVE Types'
  <2> DEFINE r == [Idle EXCEPT !.at = "reread", !.pos = p]
  <2>1. RequestOK(r)
    BY <1>7 DEF Idle, RequestOK, Request, Steps, StageSteps
  <2>2. RequestsOK' /\ CountersOK'
    <3>1. Start(w, "agentClose", r)
      BY <1>7 DEF PickOwnPosition
    <3> HIDE DEF r
    <3> QED BY <2>1, <3>1, StartOK
  <2>3. TablesOK'
    BY <1>7, SameTables DEF PickOwnPosition
  <2> QED BY <2>2, <2>3
<1>8. ASSUME NEW w \in Workers, RereadPosition(w) PROVE Types'
  <2> DEFINE p == req[w].pos
             r == ReadRow(p, positions[p].key.owner)
  <2>1. p \in RowIds
    BY <1>8 DEF RereadPosition, Continue, RequestsOK, RequestOK
  <2>2. IsOpen(p) => RequestOK(r)
    BY <2>1, ReadRowOK DEF TablesOK, PositionRow, IsOpen, Keys
  <2>3. RequestsOK' /\ CountersOK'
    <3>1. (IsOpen(p) /\ Goto(w, r)) \/ Goto(w, Idle)
      BY <1>8 DEF RereadPosition, Continue
    <3> HIDE DEF p, r
    <3> QED BY <2>2, <3>1, GotoOK, IdleOK
  <2>4. TablesOK'
    BY <1>8, SameTables DEF RereadPosition
  <2> QED BY <2>3, <2>4
<1>9. ASSUME NEW w \in Workers, NEW o \in Orders, ReadOrder(w, o) PROVE Types'
  <2> DEFINE r == [Idle EXCEPT !.at = "findOpen", !.order = o,
                              !.key = [orders[o].key EXCEPT !.owner = Manual]]
  <2>1. RequestOK(r)
    BY <1>9 DEF ReadOrder, TablesOK, OrderRow, Keys, Owners, Idle, RequestOK,
      Request, Steps, StageSteps
  <2>2. RequestsOK' /\ CountersOK'
    <3>1. Start(w, "closeOrder", r)
      BY <1>9 DEF ReadOrder
    <3> HIDE DEF r
    <3> QED BY <2>1, <3>1, StartOK
  <2>3. TablesOK'
    BY <1>9, SameTables DEF ReadOrder
  <2> QED BY <2>2, <2>3
<1>10. ASSUME NEW w \in Workers, FindOpen(w) PROVE Types'
  <2> DEFINE none == [req[w] EXCEPT !.at = "recordTrade", !.lots = {req[w].order}]
             one(p) == [req[w] EXCEPT !.at = "recordTrade", !.pos = p, !.lots = positions[p].lots]
  <2>1. RequestOK(none) /\ \A p \in RowIds : RequestOK(one(p))
    BY <1>10, ZenonT(60) DEF FindOpen, RequestsOK, TablesOK, PositionRow, At, RowIds,
      RequestOK, Request, Steps, StageSteps
  <2>2. RequestsOK' /\ CountersOK'
    <3>1. Goto(w, none) \/ (\E p \in RowIds : Goto(w, one(p))) \/ Goto(w, Idle)
      BY <1>10 DEF FindOpen, OpenInSymbol
    <3> HIDE DEF none, one
    <3> QED BY <2>1, <3>1, GotoOK, IdleOK
  <2>3. TablesOK'
    BY <1>10, SameTables DEF FindOpen
  <2> QED BY <2>2, <2>3
<1>11. ASSUME NEW w \in Workers, RecordTrade(w) PROVE Types'
  <2> DEFINE r == At(w, IF req[w].pos = 0 THEN "markOrder" ELSE "closeRow")
  <2>1. RequestOK(r)
    BY <1>11 DEF RecordTrade, Continue, RequestsOK, At, RowIds, RequestOK,
      Request, Steps, StageSteps
  <2>2. RequestsOK' /\ CountersOK'
    <3>1. Goto(w, r)
      BY <1>11 DEF RecordTrade, Continue
    <3> HIDE DEF r
    <3> QED BY <2>1, <3>1, GotoOK
  <2>3. TablesOK'
    BY <1>11 DEF RecordTrade, Continue, RequestsOK, TablesOK, RequestOK,
      Request, TradeRow
  <2> QED BY <2>2, <2>3
<1>12. ASSUME NEW w \in Workers, CloseRow(w) PROVE Types'
  <2> DEFINE r == IF req[w].order = NoOrder THEN Idle ELSE At(w, "markOrder")
  <2>1. RequestOK(r)
    BY <1>12 DEF CloseRow, Continue, RequestsOK, At, Idle, RequestOK, Request,
      Steps, StageSteps
  <2>2. RequestsOK' /\ CountersOK'
    <3>1. Goto(w, r)
      BY <1>12 DEF CloseRow, Continue
    <3> HIDE DEF r
    <3> QED BY <2>1, <3>1, GotoOK
  <2>3. TablesOK'
    BY <1>12 DEF CloseRow, Continue, RequestsOK, TablesOK, RequestOK,
      PositionRow
  <2> QED BY <2>2, <2>3
<1>13. ASSUME NEW w \in Workers, MarkOrder(w) PROVE Types'
  <2>1. RequestsOK' /\ CountersOK'
    BY <1>13, IdleOK, GotoOK DEF MarkOrder, Continue
  <2>2. req[w].order \in Orders
    BY <1>13 DEF MarkOrder, Continue, RequestsOK, RequestOK
  <2>3. orders[req[w].order].key \in Keys
    BY <2>2 DEF OrdersStored, TablesOK
  <2>4. TablesOK'
    BY <1>13, <2>2, <2>3 DEF MarkOrder, TablesOK, OrderRow
  <2> QED BY <2>1, <2>4
<1>14. ASSUME NEW w \in Workers, NEW t \in RowIds, ReadTrade(w, t) PROVE Types'
  <2> DEFINE r == [Idle EXCEPT !.at = "checkClosed", !.trade = t,
                              !.pos = trades[t].pos, !.lots = trades[t].lots]
  <2>1. RequestOK(r)
    BY <1>14 DEF ReadTrade, TablesOK, TradeRow, Idle, RequestOK, Request,
      Steps, StageSteps
  <2>2. RequestsOK' /\ CountersOK'
    <3>1. Start(w, "reopen", r)
      BY <1>14 DEF ReadTrade
    <3> HIDE DEF r
    <3> QED BY <2>1, <3>1, StartOK
  <2>3. TablesOK'
    BY <1>14, SameTables DEF ReadTrade
  <2> QED BY <2>2, <2>3
<1>15. ASSUME NEW w \in Workers, CheckClosed(w) PROVE Types'
  <2> DEFINE r == IF IsClosed(req[w].pos) THEN At(w, "restore") ELSE Idle
  <2>1. RequestOK(r)
    BY <1>15 DEF CheckClosed, Continue, RequestsOK, At, Idle, RequestOK,
      Request, Steps, StageSteps
  <2>2. RequestsOK' /\ CountersOK'
    <3>1. Goto(w, r)
      BY <1>15 DEF CheckClosed, Continue
    <3> HIDE DEF r
    <3> QED BY <2>1, <3>1, GotoOK
  <2>3. TablesOK'
    BY <1>15, SameTables DEF CheckClosed, Continue
  <2> QED BY <2>2, <2>3
<1>16. ASSUME NEW w \in Workers, Restore(w) PROVE Types'
  <2> DEFINE r == At(w, "deleteTrade")
  <2>1. RequestOK(r)
    BY <1>16 DEF Restore, Continue, RequestsOK, At, RequestOK, Request, Steps,
      StageSteps
  <2>2. RequestsOK' /\ CountersOK'
    <3>1. Goto(w, r)
      BY <1>16 DEF Restore, Continue
    <3> HIDE DEF r
    <3> QED BY <2>1, <3>1, GotoOK
  <2>3. TablesOK'
    BY <1>16 DEF Restore, Continue, RequestsOK, TablesOK, RequestOK, Request,
      PositionRow
  <2> QED BY <2>2, <2>3
<1>17. ASSUME NEW w \in Workers, DeleteTrade(w) PROVE Types'
  <2>1. RequestsOK' /\ CountersOK'
    BY <1>17, IdleOK, GotoOK DEF DeleteTrade, Continue
  <2>2. TablesOK'
    BY <1>17 DEF DeleteTrade, Continue, RequestsOK, TablesOK, RequestOK,
      TradeRow, NoTrade
  <2> QED BY <2>1, <2>2
<1>18. ASSUME NEW w \in Workers, ReadOrderIds(w) PROVE Types'
  <2> DEFINE r == [Idle EXCEPT !.at = "wipe",
             !.lots = {o \in Orders : orders[o].status \in {"filled", "closed"}}]
  <2>1. RequestOK(r)
    BY <1>18 DEF Idle, RequestOK, Request, Steps, StageSteps
  <2>2. RequestsOK' /\ CountersOK'
    <3>1. Start(w, "reset", r)
      BY <1>18 DEF ReadOrderIds
    <3> HIDE DEF r
    <3> QED BY <2>1, <3>1, StartOK
  <2>3. TablesOK'
    BY <1>18, SameTables DEF ReadOrderIds
  <2> QED BY <2>2, <2>3
<1>19. ASSUME NEW w \in Workers, Wipe(w) PROVE Types'
  <2>1. RequestsOK' /\ CountersOK'
    BY <1>19, IdleOK, GotoOK DEF Wipe, Continue
  <2>2. TablesOK'
    BY <1>19 DEF Wipe, Continue, RequestsOK, TablesOK, RequestOK, OrderRow,
      TradeRow, NoTrade, PositionRow, NoPosition
  <2> QED BY <2>1, <2>2
<1>20. ASSUME NEW w \in Workers, Crash(w) PROVE Types'
  <2>1. RequestsOK'
    BY <1>20, IdleOK, LocalsOK DEF Crash
  <2>2. CountersOK'
    BY <1>20, LedgerAssumption DEF Crash, CountersOK
  <2>3. TablesOK'
    BY <1>20, SameTables DEF Crash
  <2> QED BY <2>1, <2>2, <2>3
<1>21. ASSUME UNCHANGED vars PROVE Types'
  BY <1>21 DEF vars, TablesOK, RequestsOK, RequestOK, CountersOK
<1> QED
  BY <1>1, <1>2, <1>3, <1>4, <1>5, <1>6, <1>7, <1>8, <1>9, <1>10, <1>11,
    <1>12, <1>13, <1>14, <1>15, <1>16, <1>17, <1>18, <1>19, <1>20, <1>21 DEF Next

\* No step makes a stored order unused again, and the order a request names
\* is the one it named before, a new one it stores, or one it has just read.
LEMMA StoredStep ==
  ASSUME TypeInv, [Next]_vars
  PROVE  OrdersStored'
<1> USE DEF TypeInv
<1> DEFINE Kept == /\ \A o \in Orders : orders'[o].status = "unused" => orders[o].status = "unused"
                   /\ \A v \in Workers : req'[v].order \in {req[v].order, NoOrder}
<1>1. Kept => OrdersStored'
  BY LedgerAssumption DEF OrdersStored
<1>2. ASSUME NEW w \in Workers, PersistOrder(w) PROVE OrdersStored'
  <2>1. PICK o \in Orders, key \in Keys :
          /\ orders' = [orders EXCEPT ![o] = [status |-> "filled", key |-> key]]
          /\ req' = [req EXCEPT ![w] =
                [Idle EXCEPT !.at = "persistFill", !.order = o, !.key = key]]
    BY <1>2 DEF PersistOrder, Start
  <2> QED BY <2>1 DEF OrdersStored, Idle, TablesOK, RequestsOK
<1>3. ASSUME NEW w \in Workers, NEW o \in Orders, ReadOrder(w, o) PROVE OrdersStored'
  BY <1>3 DEF ReadOrder, Start, OrdersStored, Idle, TablesOK, RequestsOK, tables
<1>4. ASSUME NEW w \in Workers, NEW p \in RowIds,
             ReadPosition(w, p) \/ PickOwnPosition(w, p) \/ ReadTrade(w, p)
      PROVE  Kept
  BY <1>4 DEF ReadPosition, PickOwnPosition, ReadTrade, Start, ReadRow, Idle,
    RequestsOK, tables
<1>5. ASSUME NEW w \in Workers,
             PersistFill(w) \/ InsertPosition(w) \/ AggregateFill(w) \/ RecordTrade(w)
      PROVE  Kept
  BY <1>5 DEF PersistFill, InsertPosition, AggregateFill, RecordTrade, Continue,
    Goto, At, Idle, RequestsOK, Request
<1>6. ASSUME NEW w \in Workers,
             FindMatch(w) \/ RereadPosition(w) \/ FindOpen(w)
      PROVE  Kept
  <2>1. UNCHANGED orders
    BY <1>6 DEF FindMatch, RereadPosition, FindOpen, tables
  <2>2. CASE FindMatch(w)
    <3>1. \/ Goto(w, At(w, "bookFill")) \/ Goto(w, Idle)
          \/ \E p \in RowIds : Goto(w, [req[w] EXCEPT !.at = "bookFill", !.pos = p,
                                                  !.lots = positions[p].lots])
      BY <2>2 DEF FindMatch, Matches
    <3>2. ASSUME NEW p \in RowIds,
                 Goto(w, [req[w] EXCEPT !.at = "bookFill", !.pos = p, !.lots = positions[p].lots])
          PROVE  Kept
      BY <2>1, <3>2 DEF Goto, RequestsOK, Request
    <3>3. Goto(w, Idle) => Kept
      BY <2>1 DEF Goto, Idle, RequestsOK
    <3>4. Goto(w, At(w, "bookFill")) => Kept
      BY <2>1 DEF Goto, At, RequestsOK, Request
    <3> HIDE DEF Kept
    <3> QED BY <3>1, <3>2, <3>3, <3>4
  <2>3. CASE RereadPosition(w)
    BY <2>1, <2>3 DEF RereadPosition, ReadRow, Continue, Goto, Idle, RequestsOK, Request
  <2>4. CASE FindOpen(w)
    <3>1. \/ Goto(w, [req[w] EXCEPT !.at = "recordTrade", !.lots = {req[w].order}])
          \/ Goto(w, Idle)
          \/ \E p \in RowIds : Goto(w, [req[w] EXCEPT !.at = "recordTrade", !.pos = p,
                                                  !.lots = positions[p].lots])
      BY <2>4 DEF FindOpen, OpenInSymbol
    <3>2. ASSUME NEW p \in RowIds,
                 Goto(w, [req[w] EXCEPT !.at = "recordTrade", !.pos = p, !.lots = positions[p].lots])
          PROVE  Kept
      BY <2>1, <3>2 DEF Goto, RequestsOK, Request
    <3>3. Goto(w, Idle) => Kept
      BY <2>1 DEF Goto, Idle, RequestsOK
    <3>4. Goto(w, [req[w] EXCEPT !.at = "recordTrade", !.lots = {req[w].order}]) => Kept
      BY <2>1 DEF Goto, At, RequestsOK, Request
    <3> HIDE DEF Kept
    <3> QED BY <3>1, <3>2, <3>3, <3>4
  <2> QED BY <1>6, <2>2, <2>3, <2>4
<1>7. ASSUME NEW w \in Workers, CloseRow(w) PROVE Kept
  <2>1. UNCHANGED orders
    BY <1>7 DEF CloseRow
  <2>2. Goto(w, Idle) \/ Goto(w, At(w, "markOrder"))
    BY <1>7 DEF CloseRow, Continue
  <2> QED BY <2>1, <2>2 DEF Goto, At, Idle, RequestsOK, Request
<1>8. ASSUME NEW w \in Workers, CheckClosed(w) \/ Restore(w) \/ DeleteTrade(w)
      PROVE  Kept
  <2>1. UNCHANGED orders
    BY <1>8 DEF CheckClosed, Restore, DeleteTrade, tables
  <2>2. Goto(w, Idle) \/ Goto(w, At(w, "restore")) \/ Goto(w, At(w, "deleteTrade"))
    BY <1>8 DEF CheckClosed, Restore, DeleteTrade, Continue
  <2> QED BY <2>1, <2>2 DEF Goto, At, Idle, RequestsOK, Request
<1>9. ASSUME NEW w \in Workers, ReadOrderIds(w) \/ Crash(w)
      PROVE  Kept
  <2>1. CASE ReadOrderIds(w)
    BY <2>1 DEF ReadOrderIds, Start, Idle, RequestsOK, tables
  <2>2. CASE Crash(w)
    BY <2>2 DEF Crash, Idle, RequestsOK, tables
  <2> QED BY <1>9, <2>1, <2>2
<1>10. ASSUME NEW w \in Workers, MarkOrder(w) \/ Wipe(w)
      PROVE  Kept
  BY <1>10 DEF MarkOrder, Wipe, Continue, Goto, Idle, RequestsOK, TablesOK, OrderRow
<1>11. UNCHANGED vars => Kept
  BY DEF vars
<1> QED
  BY <1>1, <1>2, <1>3, <1>4, <1>5, <1>6, <1>7, <1>8, <1>9, <1>10, <1>11 DEF Next

\* The tables and the local variables of every request keep their types: in
\* particular a trade is never recorded with the key of a row that is not there.
THEOREM LedgerTypes == Spec => []TypeOK
<1>1. TypeInv /\ [Next]_vars => TypeInv'
  BY TypeStep, StoredStep DEF TypeInv
<1>2. Spec => []TypeInv
  BY TypeInit, <1>1, PTL DEF Spec
<1>3. TypeInv => TypeOK
  BY DEF TypeInv, TypeOK, TablesOK, RequestsOK, CountersOK
<1> QED
  BY <1>2, <1>3, PTL

(***************************************************************************)
(* Shares stay with their row                                              *)
(*                                                                         *)
(* As long as nobody resets the sandbox, whatever is written into a row    *)
(* was read from that row, from a trade of that row, or is the order being *)
(* booked.  The inductive invariant says so of the local variables too: a  *)
(* lot is tied to a row when the row, a trade closed from it or a request  *)
(* that has read it holds the lot.                                         *)
(***************************************************************************)

Ties(o, p) ==
  \/ o \in positions[p].lots
  \/ \E t \in RowIds : IsBooked(t) /\ trades[t].pos = p /\ o \in trades[t].lots
  \/ \E w \in Workers : req[w].pos = p /\ o \in req[w].lots

Exists(p)  == positions[p].status # "absent"
Stored(o)  == orders[o].status # "unused"
Staging(w) == req[w].at \in StageSteps

NoReset == "reset" \notin Endpoints

NoneWiping == \A w \in Workers : req[w].at # "wipe"

RowsNamed ==
  /\ \A w \in Workers : req[w].pos \in RowIds => Exists(req[w].pos)
  /\ \A t \in RowIds : IsBooked(t) /\ trades[t].pos \in RowIds => Exists(trades[t].pos)

OneRowEach ==
  \A o \in Orders : \A p, q \in RowIds : Ties(o, p) /\ Ties(o, q) => p = q

TiesMatch ==
  \A o \in Orders : \A p \in RowIds : Ties(o, p) =>
    Exists(p) /\ Stored(o) /\ SameBook(orders[o].key, positions[p].key)

\* An order being staged is tied to no row yet, and to one request.
Unbooked ==
  \A w \in Workers : Staging(w) =>
    /\ req[w].key = orders[req[w].order].key
    /\ \A p \in RowIds : ~ Ties(req[w].order, p)
    /\ \A v \in Workers : Staging(v) /\ req[v].order = req[w].order => v = w
    /\ req[w].pos \in RowIds => SameBook(req[w].key, positions[req[w].pos].key)

\* What is credited to a profile comes from a row of the profile.
CreditFrom(key, p) ==
  key.owner # Manual => p \in RowIds /\ positions[p].key.owner = key.owner

CreditSound ==
  /\ \A t \in RowIds : IsBooked(t) => CreditFrom(trades[t].key, trades[t].pos)
  /\ \A w \in Workers : req[w].at = "recordTrade" => CreditFrom(req[w].key, req[w].pos)
  /\ \A w \in Workers : req[w].at = "findOpen" => req[w].pos = 0 /\ req[w].key.owner = Manual
  /\ \A t \in RowIds : ~ IsBooked(t) => trades[t] = NoTrade

BookInv ==
  NoneWiping /\ RowsNamed /\ OneRowEach /\ TiesMatch /\ Unbooked /\ CreditSound
LEMMA BookInit == Init => BookInv
<1> SUFFICES ASSUME Init PROVE BookInv
  OBVIOUS
<1>1. \A o \in Orders, p \in RowIds : ~ Ties(o, p)
  BY DEF Init, Ties, IsBooked, NoPosition, NoTrade, Idle
<1>2. \A w \in Workers : req[w].at = "idle" /\ req[w].pos \notin RowIds
  BY DEF Init, Idle, RowIds
<1>3. CreditSound
  BY <1>2 DEF Init, CreditSound, IsBooked, NoTrade
<1> QED
  BY <1>1, <1>2, <1>3 DEF Init, BookInv, NoneWiping, RowsNamed, OneRowEach, TiesMatch,
    Unbooked, Staging, StageSteps, IsBooked, NoTrade


\* What every step but those that store or book an order does: it leaves worker
\* w with locals r that tie no new lot to a row, ...
LocalsQuiet(w, r) ==
  /\ r.pos \in RowIds => Exists(r.pos) /\ \A o \in Orders : o \in r.lots => Ties(o, r.pos)
  /\ r.at \in StageSteps =>
       /\ Staging(w)
       /\ r.order = req[w].order
       /\ r.key = req[w].key
       /\ r.pos \in RowIds => SameBook(req[w].key, positions[r.pos].key)
  /\ r.at # "wipe"
  /\ r.at = "recordTrade" => CreditFrom(r.key, r.pos)
  /\ r.at = "findOpen" => r.pos = 0 /\ r.key.owner = Manual

\* ... and keeps the rows and orders there are, writing into a row lots that
\* are tied to it already, and into a trade what the worker has read.
TablesQuiet(w) ==
  /\ \A p \in RowIds : \A o \in Orders : o \in positions'[p].lots => Ties(o, p)
  /\ \A p \in RowIds : Exists(p) => Exists(p)' /\ positions'[p].key = positions[p].key
  /\ \A o \in Orders : Stored(o) => Stored(o)' /\ orders'[o].key = orders[o].key
  /\ \A t \in RowIds :
       \/ trades'[t] = trades[t]
       \/ trades'[t] = NoTrade
       \/ /\ req[w].at = "recordTrade"
          /\ trades'[t] = [status |-> "booked", pos |-> req[w].pos,
                           key |-> req[w].key, lots |-> req[w].lots]

Quiet(w) ==
  /\ TablesQuiet(w)
  /\ \E r : LocalsQuiet(w, r) /\ req' = [req EXCEPT ![w] = r]

LEMMA QuietTies ==
  ASSUME TypeInv, NEW w \in Workers, Quiet(w), NEW o \in Orders, NEW p \in RowIds, Ties(o, p)'
  PROVE  Ties(o, p)
<1>1. PICK r : LocalsQuiet(w, r) /\ req' = [req EXCEPT ![w] = r]
  BY DEF Quiet
<1>2. CASE o \in positions'[p].lots
  BY <1>2 DEF Quiet, TablesQuiet
<1>3. ASSUME NEW t \in RowIds, IsBooked(t)', trades'[t].pos = p, o \in trades'[t].lots
      PROVE  Ties(o, p)
  BY <1>3 DEF Quiet, TablesQuiet, IsBooked, NoTrade, Ties
<1>4. ASSUME NEW v \in Workers, req'[v].pos = p, o \in req'[v].lots PROVE Ties(o, p)
  BY <1>1, <1>4 DEF LocalsQuiet, Ties, TypeInv, RequestsOK
<1> QED
  BY <1>2, <1>3, <1>4 DEF Ties

LEMMA QuietKeepsBook ==
  ASSUME TypeInv, BookInv, NEW w \in Workers, Quiet(w)
  PROVE  BookInv'
<1> USE DEF BookInv
<1>0. PICK r : LocalsQuiet(w, r) /\ req' = [req EXCEPT ![w] = r]
  BY DEF Quiet
<1>a. TablesQuiet(w) /\ \A o \in Orders, p \in RowIds : Ties(o, p)' => Ties(o, p)
  BY QuietTies DEF Quiet
<1>b. req'[w] = r /\ \A v \in Workers : v # w => req'[v] = req[v]
  BY <1>0 DEF TypeInv, RequestsOK
<1>1. NoneWiping'
  BY <1>0, <1>a, <1>b DEF LocalsQuiet, TablesQuiet, NoneWiping
<1>2. RowsNamed'
  <2>1. ASSUME NEW v \in Workers, req'[v].pos \in RowIds PROVE Exists(req[v].pos)'
    BY <1>0, <1>a, <1>b, <2>1 DEF LocalsQuiet, TablesQuiet, RowsNamed
  <2>2. ASSUME NEW t \in RowIds, IsBooked(t)', trades'[t].pos \in RowIds
        PROVE  Exists(trades[t].pos)'
    BY <1>0, <1>a, <1>b, <2>2 DEF LocalsQuiet, TablesQuiet, RowsNamed, IsBooked, NoTrade
  <2> QED BY <2>1, <2>2 DEF RowsNamed
<1>3. OneRowEach'
  BY <1>0, <1>a, <1>b DEF LocalsQuiet, TablesQuiet, OneRowEach
<1>4. TiesMatch'
  BY <1>0, <1>a, <1>b DEF LocalsQuiet, TablesQuiet, TiesMatch
<1>5. Unbooked'
  <2> SUFFICES ASSUME NEW v \in Workers, Staging(v)'
               PROVE  /\ req'[v].key = orders'[req'[v].order].key
                      /\ \A p \in RowIds : ~ Ties(req[v].order, p)'
                      /\ \A u \in Workers :
                           Staging(u)' /\ req'[u].order = req'[v].order => u = v
                      /\ req'[v].pos \in RowIds
                           => SameBook(req'[v].key, positions'[req'[v].pos].key)
    BY DEF Unbooked
  <2>1. /\ Staging(v)
        /\ req'[v].order = req[v].order
        /\ req'[v].key = req[v].key
    BY <1>0, <1>a, <1>b DEF LocalsQuiet, TablesQuiet, Staging
  <2>2. req[v].order \in Orders /\ Stored(req[v].order)
    BY <2>1 DEF TypeInv, RequestsOK, RequestOK, OrdersStored, Staging, Stored
  <2>3. req'[v].key = orders'[req'[v].order].key
    BY <1>0, <1>a, <1>b, <2>1, <2>2 DEF LocalsQuiet, TablesQuiet, Unbooked
  <2>4. \A p \in RowIds : ~ Ties(req[v].order, p)'
    BY <1>0, <1>a, <1>b, <2>1, <2>2 DEF LocalsQuiet, TablesQuiet, Unbooked
  <2>5. ASSUME NEW u \in Workers, Staging(u)', req'[u].order = req'[v].order PROVE u = v
    <3>1. Staging(u) /\ req'[u].order = req[u].order
      BY <1>0, <1>a, <1>b, <2>5 DEF LocalsQuiet, TablesQuiet, Staging
    <3> QED BY <2>1, <2>5, <3>1 DEF Unbooked
  <2>6. ASSUME req'[v].pos \in RowIds
        PROVE  SameBook(req'[v].key, positions'[req'[v].pos].key)
    <3>1. Exists(req'[v].pos) /\ SameBook(req[v].key, positions[req'[v].pos].key)
      BY <1>0, <1>a, <1>b, <2>1, <2>6 DEF LocalsQuiet, TablesQuiet, Unbooked, RowsNamed, Staging
    <3> QED BY <1>0, <1>a, <1>b, <2>1, <2>6, <3>1 DEF LocalsQuiet, TablesQuiet
  <2> QED BY <2>3, <2>4, <2>5, <2>6
<1>6. CreditSound'
  <2>1. ASSUME NEW key, NEW p, p \in RowIds => Exists(p), CreditFrom(key, p)
        PROVE  CreditFrom(key, p)'
    BY <1>a, <2>1 DEF CreditFrom, TablesQuiet
  <2>2. ASSUME NEW t \in RowIds, IsBooked(t)' PROVE CreditFrom(trades[t].key, trades[t].pos)'
    <3>1. CASE trades'[t] = trades[t]
      BY <2>1, <2>2, <3>1 DEF CreditSound, RowsNamed, IsBooked
    <3>2. CASE /\ req[w].at = "recordTrade"
               /\ trades'[t].pos = req[w].pos
               /\ trades'[t].key = req[w].key
      BY <2>1, <2>2, <3>2 DEF CreditSound, RowsNamed
    <3> QED BY <1>0, <1>a, <1>b, <2>2, <3>1, <3>2 DEF LocalsQuiet, TablesQuiet, IsBooked, NoTrade
  <2>3. ASSUME NEW v \in Workers, req'[v].at = "recordTrade"
        PROVE  CreditFrom(req[v].key, req[v].pos)'
    <3>1. CreditFrom(req'[v].key, req'[v].pos) /\ (req'[v].pos \in RowIds => Exists(req'[v].pos))
      BY <1>0, <1>a, <1>b, <2>3 DEF LocalsQuiet, TablesQuiet, CreditSound, RowsNamed
    <3> QED BY <1>0, <1>a, <1>b, <2>1, <3>1
  <2>4. \A v \in Workers : req'[v].at = "findOpen" => req'[v].pos = 0 /\ req'[v].key.owner = Manual
    BY <1>0, <1>a, <1>b DEF LocalsQuiet, TablesQuiet, CreditSound
  <2>5. \A t \in RowIds : ~ IsBooked(t)' => trades'[t] = NoTrade
    BY <1>0, <1>a, <1>b DEF LocalsQuiet, TablesQuiet, CreditSound, IsBooked
  <2> QED BY <2>2, <2>3, <2>4, <2>5 DEF CreditSound
<1> QED
  BY <1>1, <1>2, <1>3, <1>4, <1>5, <1>6

LEMMA SameTablesQuiet ==
  ASSUME NEW w \in Workers, UNCHANGED tables
  PROVE  TablesQuiet(w)
  BY DEF TablesQuiet, tables, Ties, Exists, Stored

LEMMA IdleQuiet == ASSUME NEW w \in Workers PROVE LocalsQuiet(w, Idle)
  BY DEF LocalsQuiet, Idle, RowIds, StageSteps

\* Going on with the same local variables is quiet, unless they are about to
\* be used as the key of a trade.
LEMMA AtQuiet ==
  ASSUME TypeInv, BookInv, NEW w \in Workers, NEW step,
         step \notin {"recordTrade", "findOpen", "wipe"},
         step \in StageSteps => Staging(w)
  PROVE  LocalsQuiet(w, At(w, step))
<1> DEFINE r == At(w, step)
<1>1. /\ r.at = step /\ r.pos = req[w].pos /\ r.lots = req[w].lots
      /\ r.order = req[w].order /\ r.key = req[w].key
  BY DEF At, TypeInv, RequestsOK, Request
<1> HIDE DEF r
<1>2. LocalsQuiet(w, r)
  BY <1>1 DEF LocalsQuiet, BookInv, RowsNamed, Unbooked, Staging, Ties
<1> QED
  BY <1>2 DEF r

LEMMA ReadRowQuiet ==
  ASSUME TypeInv, NEW w \in Workers, NEW p \in RowIds, IsOpen(p), NEW credit,
         credit \in {Manual, positions[p].key.owner}
  PROVE  LocalsQuiet(w, ReadRow(p, credit))
<1> DEFINE r == ReadRow(p, credit)
<1>1. positions[p].key \in Keys
  BY DEF TypeInv, TablesOK, IsOpen
<1>2. /\ r.at = "recordTrade" /\ r.pos = p /\ r.lots = positions[p].lots
      /\ r.key.owner = credit
  BY <1>1 DEF ReadRow, Idle, Keys
<1> HIDE DEF r
<1>3. LocalsQuiet(w, r)
  BY <1>2 DEF LocalsQuiet, StageSteps, CreditFrom, Exists, IsOpen, Ties
<1> QED
  BY <1>3 DEF r

\* Every step but storing an order and writing its position row is quiet.
LEMMA QuietSteps ==
  ASSUME NoReset, TypeInv, BookInv, NEW w \in Workers,
         \/ PersistFill(w) \/ FindMatch(w)
         \/ \E p \in RowIds : ReadPosition(w, p) \/ PickOwnPosition(w, p)
         \/ RereadPosition(w)
         \/ \E o \in Orders : ReadOrder(w, o)
         \/ FindOpen(w) \/ RecordTrade(w) \/ CloseRow(w) \/ MarkOrder(w)
         \/ \E t \in RowIds : ReadTrade(w, t)
         \/ CheckClosed(w) \/ Restore(w) \/ DeleteTrade(w)
         \/ ReadOrderIds(w) \/ Wipe(w) \/ Crash(w)
  PROVE  Quiet(w)
<1>0. ASSUME NEW r, LocalsQuiet(w, r), TablesQuiet(w), req' = [req EXCEPT ![w] = r]
      PROVE  Quiet(w)
  BY <1>0 DEF Quiet
<1>1. CASE PersistFill(w)
  <2>1. LocalsQuiet(w, At(w, "findMatch"))
    BY <1>1, AtQuiet DEF PersistFill, Continue, Staging, StageSteps
  <2>2. TablesQuiet(w)
    BY <1>1 DEF PersistFill, TablesQuiet, Ties, Exists, Stored
  <2> QED BY <1>0, <1>1, <2>1, <2>2 DEF PersistFill, Continue, Goto
<1>2. CASE FindMatch(w)
  <2>1. TablesQuiet(w)
    BY <1>2, SameTablesQuiet DEF FindMatch
  <2>2. Staging(w)
    BY <1>2 DEF FindMatch, Staging, StageSteps
  <2>3. \/ Goto(w, At(w, "bookFill"))
        \/ Goto(w, Idle)
        \/ \E p \in Matches(req[w].key) :
             Goto(w, [req[w] EXCEPT !.at = "bookFill", !.pos = p, !.lots = positions[p].lots])
    BY <1>2 DEF FindMatch
  <2>4. CASE Goto(w, At(w, "bookFill"))
    BY <1>0, <2>1, <2>2, <2>4, AtQuiet DEF Goto
  <2>5. CASE Goto(w, Idle)
    BY <1>0, <2>1, <2>5, IdleQuiet DEF Goto
  <2>6. ASSUME NEW p \in Matches(req[w].key),
               Goto(w, [req[w] EXCEPT !.at = "bookFill", !.pos = p, !.lots = positions[p].lots])
        PROVE  Quiet(w)
    <3> DEFINE r == [req[w] EXCEPT !.at = "bookFill", !.pos = p, !.lots = positions[p].lots]
    <3>1. /\ r.at = "bookFill" /\ r.pos = p /\ r.lots = positions[p].lots
          /\ r.order = req[w].order /\ r.key = req[w].key
      BY DEF TypeInv, RequestsOK, Request
    <3>2. req' = [req EXCEPT ![w] = r]
      BY <2>6 DEF Goto
    <3>3. p \in RowIds /\ IsOpen(p) /\ SameBook(req[w].key, positions[p].key)
      BY <2>6 DEF Matches, SameBook
    <3> HIDE DEF r
    <3>4. LocalsQuiet(w, r)
      BY <2>2, <3>1, <3>3 DEF LocalsQuiet, Exists, IsOpen, Ties
    <3> QED BY <1>0, <2>1, <3>2, <3>4
  <2> QED BY <2>3, <2>4, <2>5, <2>6
<1>3. ASSUME NEW p \in RowIds, ReadPosition(w, p) PROVE Quiet(w)
  <2>1. LocalsQuiet(w, ReadRow(p, Manual))
    BY <1>3, ReadRowQuiet DEF ReadPosition
  <2> QED BY <1>0, <1>3, <2>1, SameTablesQuiet DEF ReadPosition, Start
<1>4. ASSUME NEW p \in RowIds, PickOwnPosition(w, p) PROVE Quiet(w)
  <2> DEFINE r == [Idle EXCEPT !.at = "reread", !.pos = p]
  <2>1. LocalsQuiet(w, r)
    BY <1>4 DEF PickOwnPosition, LocalsQuiet, Idle, StageSteps, Exists, IsOpen
  <2> QED BY <1>0, <1>4, <2>1, SameTablesQuiet DEF PickOwnPosition, Start
<1>5. CASE RereadPosition(w)
  <2> DEFINE p == req[w].pos
  <2>1. p \in RowIds
    BY <1>5 DEF RereadPosition, Continue, TypeInv, RequestsOK, RequestOK
  <2>2. TablesQuiet(w)
    BY <1>5, SameTablesQuiet DEF RereadPosition
  <2>3. CASE IsOpen(p)
    <3>1. LocalsQuiet(w, ReadRow(p, positions[p].key.owner))
      BY <2>1, <2>3, ReadRowQuiet
    <3> QED BY <1>0, <1>5, <2>2, <2>3, <3>1 DEF RereadPosition, Continue, Goto
  <2>4. CASE ~ IsOpen(p)
    BY <1>0, <1>5, <2>2, <2>4, IdleQuiet DEF RereadPosition, Continue, Goto
  <2> QED BY <2>3, <2>4
<1>6. ASSUME NEW o \in Orders, ReadOrder(w, o) PROVE Quiet(w)
  <2> DEFINE key == [orders[o].key EXCEPT !.owner = Manual]
  <2> DEFINE r == [Idle EXCEPT !.at = "findOpen", !.order = o, !.key = key]
  <2>1. req' = [req EXCEPT ![w] = r] /\ TablesQuiet(w) /\ orders[o].key \in Keys
    BY <1>6, SameTablesQuiet DEF ReadOrder, Start, TypeInv, TablesOK
  <2>2. key.owner = Manual
    BY <2>1 DEF Keys
  <2> HIDE DEF key
  <2>3. r.at = "findOpen" /\ r.pos = 0 /\ r.key = key
    BY DEF Idle
  <2> HIDE DEF r
  <2>4. LocalsQuiet(w, r)
    BY <2>2, <2>3 DEF LocalsQuiet, StageSteps, RowIds
  <2> QED BY <1>0, <2>1, <2>4
<1>7. CASE FindOpen(w)
  <2>1. TablesQuiet(w)
    BY <1>7, SameTablesQuiet DEF FindOpen
  <2>2. req[w].pos \notin RowIds /\ req[w].key.owner = Manual
    <3>1. req[w].at = "findOpen"
      BY <1>7 DEF FindOpen
    <3> QED BY <3>1 DEF BookInv, CreditSound, RowIds
  <2>3. \/ Goto(w, [req[w] EXCEPT !.at = "recordTrade", !.lots = {req[w].order}])
        \/ Goto(w, Idle)
        \/ \E p \in OpenInSymbol(req[w].key.symbol) :
             Goto(w, [req[w] EXCEPT !.at = "recordTrade", !.pos = p, !.lots = positions[p].lots])
    BY <1>7 DEF FindOpen
  <2>4. CASE Goto(w, [req[w] EXCEPT !.at = "recordTrade", !.lots = {req[w].order}])
    <3> DEFINE r == [req[w] EXCEPT !.at = "recordTrade", !.lots = {req[w].order}]
    <3>1. r.at = "recordTrade" /\ r.pos = req[w].pos /\ r.key = req[w].key
      BY DEF TypeInv, RequestsOK, Request
    <3>2. req' = [req EXCEPT ![w] = r]
      BY <2>4 DEF Goto
    <3> HIDE DEF r
    <3>3. LocalsQuiet(w, r)
      BY <2>2, <3>1, <3>2 DEF LocalsQuiet, StageSteps, CreditFrom
    <3> QED BY <1>0, <2>1, <3>2, <3>3
  <2>5. CASE Goto(w, Idle)
    BY <1>0, <2>1, <2>5, IdleQuiet DEF Goto
  <2>6. ASSUME NEW p \in OpenInSymbol(req[w].key.symbol),
               Goto(w, [req[w] EXCEPT !.at = "recordTrade", !.pos = p, !.lots = positions[p].lots])
        PROVE  Quiet(w)
    <3> DEFINE r == [req[w] EXCEPT !.at = "recordTrade", !.pos = p, !.lots = positions[p].lots]
    <3>1. /\ r.at = "recordTrade" /\ r.pos = p /\ r.lots = positions[p].lots
          /\ r.key = req[w].key
      BY DEF TypeInv, RequestsOK, Request
    <3>2. req' = [req EXCEPT ![w] = r] /\ p \in RowIds /\ IsOpen(p)
      BY <2>6 DEF Goto, OpenInSymbol
    <3> HIDE DEF r
    <3>3. LocalsQuiet(w, r)
      BY <2>2, <3>1, <3>2 DEF LocalsQuiet, StageSteps, CreditFrom, Exists, IsOpen, Ties
    <3> QED BY <1>0, <2>1, <3>2, <3>3
  <2> QED BY <2>3, <2>4, <2>5, <2>6
<1>8. CASE RecordTrade(w)
  <2>1. req[w].at = "recordTrade" /\ (Goto(w, At(w, "markOrder")) \/ Goto(w, At(w, "closeRow")))
    BY <1>8 DEF RecordTrade, Continue
  <2>2. TablesQuiet(w)
    BY <1>8, <2>1 DEF RecordTrade, TablesQuiet, Ties, Exists, Stored, TypeInv, TablesOK
  <2>3. LocalsQuiet(w, At(w, "markOrder")) /\ LocalsQuiet(w, At(w, "closeRow"))
    BY AtQuiet DEF StageSteps
  <2> QED BY <1>0, <2>1, <2>2, <2>3 DEF Goto
<1>9. CASE CloseRow(w)
  <2>1. Goto(w, At(w, "markOrder")) \/ Goto(w, Idle)
    BY <1>9 DEF CloseRow, Continue
  <2>2. TablesQuiet(w)
    BY <1>9 DEF CloseRow, TablesQuiet, Ties, Exists, Stored, TypeInv, TablesOK, PositionRow
  <2>3. LocalsQuiet(w, At(w, "markOrder")) /\ LocalsQuiet(w, Idle)
    BY AtQuiet, IdleQuiet DEF StageSteps
  <2> QED BY <1>0, <2>1, <2>2, <2>3 DEF Goto
<1>10. CASE MarkOrder(w)
  <2>1. TablesQuiet(w)
    BY <1>10 DEF MarkOrder, TablesQuiet, Ties, Exists, Stored, TypeInv, TablesOK, OrderRow
  <2> QED BY <1>0, <1>10, <2>1, IdleQuiet DEF MarkOrder, Continue, Goto
<1>11. ASSUME NEW t \in RowIds, ReadTrade(w, t) PROVE Quiet(w)
  <2> DEFINE r == [Idle EXCEPT !.at = "checkClosed", !.trade = t,
                               !.pos = trades[t].pos, !.lots = trades[t].lots]
  <2>1. r.at = "checkClosed" /\ r.pos = trades[t].pos /\ r.lots = trades[t].lots
    BY DEF Idle
  <2>2. req' = [req EXCEPT ![w] = r] /\ IsBooked(t) /\ TablesQuiet(w)
    BY <1>11, SameTablesQuiet DEF ReadTrade, Start
  <2> HIDE DEF r
  <2>3. LocalsQuiet(w, r)
    BY <2>1, <2>2 DEF LocalsQuiet, StageSteps, BookInv, RowsNamed, Ties
  <2> QED BY <1>0, <2>2, <2>3
<1>12. CASE CheckClosed(w)
  <2>1. Goto(w, At(w, "restore")) \/ Goto(w, Idle)
    BY <1>12 DEF CheckClosed, Continue
  <2>2. LocalsQuiet(w, At(w, "restore")) /\ LocalsQuiet(w, Idle)
    BY AtQuiet, IdleQuiet DEF StageSteps
  <2> QED BY <1>0, <1>12, <2>1, <2>2, SameTablesQuiet DEF CheckClosed, Goto
<1>13. CASE Restore(w)
  <2>1. LocalsQuiet(w, At(w, "deleteTrade"))
    BY AtQuiet DEF StageSteps
  <2>2. TablesQuiet(w)
    BY <1>13 DEF Restore, TablesQuiet, Ties, Exists, Stored, TypeInv, TablesOK, PositionRow
  <2> QED BY <1>0, <1>13, <2>1, <2>2 DEF Restore, Continue, Goto
<1>14. CASE DeleteTrade(w)
  <2>1. TablesQuiet(w)
    BY <1>14 DEF DeleteTrade, TablesQuiet, Ties, Exists, Stored, TypeInv, TablesOK
  <2> QED BY <1>0, <1>14, <2>1, IdleQuiet DEF DeleteTrade, Continue, Goto
<1>15. ~ ReadOrderIds(w) /\ ~ Wipe(w)
  BY DEF ReadOrderIds, Start, NoReset, Wipe, Continue, BookInv, NoneWiping
<1>16. CASE Crash(w)
  BY <1>0, <1>16, IdleQuiet, SameTablesQuiet DEF Crash
<1> QED
  BY <1>1, <1>2, <1>3, <1>4, <1>5, <1>6, <1>7, <1>8, <1>9, <1>10, <1>11, <1>12,
    <1>13, <1>14, <1>15, <1>16

\* A new order is tied to no row, and is not the order of another request.
LEMMA PersistOrderStep ==
  ASSUME TypeInv, BookInv, NEW w \in Workers, PersistOrder(w)
  PROVE  BookInv'
<1> USE DEF BookInv
<1>0. PICK o \in Orders, key \in Keys :
        /\ orders[o].status = "unused"
        /\ orders' = [orders EXCEPT ![o] = [status |-> "filled", key |-> key]]
        /\ req' = [req EXCEPT ![w] =
              [Idle EXCEPT !.at = "persistFill", !.order = o, !.key = key]]
  BY DEF PersistOrder, Start
<1>1. UNCHANGED <<positions, trades>>
  BY DEF PersistOrder
<1> DEFINE r == [Idle EXCEPT !.at = "persistFill", !.order = o, !.key = key]
<1>2. /\ req'[w] = r
      /\ r.at = "persistFill" /\ r.order = o /\ r.key = key /\ r.pos = 0 /\ r.lots = {}
      /\ \A v \in Workers : v # w => req'[v] = req[v]
  BY <1>0 DEF Idle, TypeInv, RequestsOK
<1> HIDE DEF r
<1>3. \A p \in RowIds : ~ Ties(o, p)
  BY <1>0 DEF TiesMatch, Stored
<1>4. \A lot \in Orders, p \in RowIds : Ties(lot, p)' => Ties(lot, p)
  BY <1>1, <1>2 DEF Ties, RowIds, IsBooked
<1>5. /\ orders'[o].key = key /\ Stored(o)'
      /\ \A other \in Orders : other # o => orders'[other] = orders[other]
  BY <1>0 DEF TypeInv, TablesOK, Stored
<1>6. 0 \notin RowIds
  BY DEF RowIds
<1>7. NoneWiping'
  BY <1>2 DEF NoneWiping
<1>8. RowsNamed'
  BY <1>1, <1>2, <1>6 DEF RowsNamed, Exists, IsBooked
<1>9. OneRowEach'
  BY <1>4 DEF OneRowEach
<1>10. TiesMatch'
  <2> SUFFICES ASSUME NEW lot \in Orders, NEW p \in RowIds, Ties(lot, p)'
               PROVE  /\ Exists(p)' /\ Stored(lot)'
                      /\ SameBook(orders'[lot].key, positions'[p].key)
    BY DEF TiesMatch
  <2>1. Ties(lot, p) /\ lot # o
    BY <1>3, <1>4
  <2> QED BY <1>1, <1>5, <2>1 DEF TiesMatch, Exists, Stored
<1>11. Unbooked'
  <2> SUFFICES ASSUME NEW v \in Workers, Staging(v)'
               PROVE  /\ req'[v].key = orders'[req'[v].order].key
                      /\ \A p \in RowIds : ~ Ties(req[v].order, p)'
                      /\ \A u \in Workers :
                           Staging(u)' /\ req'[u].order = req'[v].order => u = v
                      /\ req'[v].pos \in RowIds
                           => SameBook(req'[v].key, positions'[req'[v].pos].key)
    BY DEF Unbooked
  <2>1. ASSUME NEW u \in Workers, u # w, Staging(u)'
        PROVE  Staging(u) /\ req[u].order \in Orders /\ req[u].order # o
    <3>1. Staging(u)
      BY <1>2, <2>1 DEF Staging
    <3> QED BY <1>0, <3>1 DEF Staging, TypeInv, RequestsOK, RequestOK, OrdersStored
  <2>2. CASE v = w
    BY <1>2, <1>3, <1>4, <1>5, <1>6, <2>1, <2>2
  <2>3. CASE v # w
    <3>1. /\ req'[v] = req[v] /\ Staging(v)
          /\ req[v].order \in Orders /\ req[v].order # o
      BY <1>2, <2>1, <2>3
    <3>2. req'[v].key = orders'[req'[v].order].key
      BY <1>5, <3>1 DEF Unbooked
    <3>3. \A p \in RowIds : ~ Ties(req[v].order, p)'
      <4>1. \A p \in RowIds : ~ Ties(req[v].order, p)
        BY <3>1 DEF Unbooked
      <4> QED BY <1>4, <3>1, <4>1
    <3>4. ASSUME NEW u \in Workers, Staging(u)', req'[u].order = req'[v].order PROVE u = v
      BY <1>2, <2>1, <3>1, <3>4 DEF Unbooked
    <3>5. req'[v].pos \in RowIds => SameBook(req'[v].key, positions'[req'[v].pos].key)
      BY <1>1, <3>1 DEF Unbooked
    <3> QED BY <3>2, <3>3, <3>4, <3>5
  <2> QED BY <2>2, <2>3
<1>12. CreditSound'
  BY <1>1, <1>2 DEF CreditSound, CreditFrom, IsBooked
<1> QED
  BY <1>7, <1>8, <1>9, <1>10, <1>11, <1>12

\* Booking an order: the request that staged it ties it to one row, which is
\* new or had the same key.
LEMMA BookingStep ==
  ASSUME TypeInv, BookInv, NEW w \in Workers, req[w].at = "bookFill",
         req' = [req EXCEPT ![w] = Idle], UNCHANGED <<orders, trades>>,
         NEW p \in RowIds, NEW row, positions' = [positions EXCEPT ![p] = row],
         row.status # "absent",
         Exists(p) => row.key = positions[p].key,
         SameBook(req[w].key, row.key),
         \A o \in Orders : o \in row.lots => o = req[w].order \/ Ties(o, p)
  PROVE  BookInv'
<1> USE DEF BookInv
<1> DEFINE booked == req[w].order
<1>1. /\ Staging(w) /\ booked \in Orders /\ Stored(booked)
      /\ req[w].key = orders[booked].key
      /\ \A q \in RowIds : ~ Ties(booked, q)
      /\ \A v \in Workers : Staging(v) /\ req[v].order = booked => v = w
  <2>1. Staging(w)
    BY DEF Staging, StageSteps
  <2>2. booked \in Orders /\ Stored(booked)
    BY <2>1 DEF Staging, TypeInv, RequestsOK, RequestOK, OrdersStored, Stored
  <2> QED BY <2>1, <2>2 DEF Unbooked
<1> HIDE DEF booked
<1>2. /\ req'[w] = Idle /\ \A v \in Workers : v # w => req'[v] = req[v]
      /\ positions'[p] = row /\ \A q \in RowIds : q # p => positions'[q] = positions[q]
  BY DEF TypeInv, RequestsOK, TablesOK
<1>3. /\ Idle.pos \notin RowIds /\ Idle.at = "idle"
  BY DEF Idle, RowIds
<1>4. ASSUME NEW o \in Orders, NEW q \in RowIds, Ties(o, q)'
      PROVE  Ties(o, q) \/ (o = booked /\ q = p)
  <2>1. CASE o \in positions'[q].lots
    BY <1>2, <2>1 DEF Ties, booked
  <2>2. CASE \E t \in RowIds : IsBooked(t)' /\ trades'[t].pos = q /\ o \in trades'[t].lots
    BY <2>2 DEF Ties, IsBooked
  <2>3. CASE \E v \in Workers : req'[v].pos = q /\ o \in req'[v].lots
    BY <1>2, <1>3, <2>3 DEF Ties
  <2> QED BY <1>4, <2>1, <2>2, <2>3 DEF Ties
<1>5. \A q \in RowIds : Exists(q) => Exists(q)' /\ positions'[q].key = positions[q].key
  BY <1>2 DEF Exists
<1>6. NoneWiping'
  BY <1>2, <1>3 DEF NoneWiping
<1>7. RowsNamed'
  BY <1>2, <1>3, <1>5 DEF RowsNamed, IsBooked
<1>8. OneRowEach'
  BY <1>1, <1>4 DEF OneRowEach
<1>9. TiesMatch'
  <2> SUFFICES ASSUME NEW o \in Orders, NEW q \in RowIds, Ties(o, q)'
               PROVE  /\ Exists(q)' /\ Stored(o)'
                      /\ SameBook(orders'[o].key, positions'[q].key)
    BY DEF TiesMatch
  <2>1. CASE Ties(o, q)
    BY <1>5, <2>1 DEF TiesMatch, Stored
  <2>2. CASE o = booked /\ q = p
    BY <1>1, <1>2, <2>2 DEF Exists, Stored
  <2> QED BY <1>4, <2>1, <2>2
<1>10. Unbooked'
  <2> SUFFICES ASSUME NEW v \in Workers, Staging(v)'
               PROVE  /\ req'[v].key = orders'[req'[v].order].key
                      /\ \A q \in RowIds : ~ Ties(req[v].order, q)'
                      /\ \A u \in Workers :
                           Staging(u)' /\ req'[u].order = req'[v].order => u = v
                      /\ req'[v].pos \in RowIds
                           => SameBook(req'[v].key, positions'[req'[v].pos].key)
    BY DEF Unbooked
  <2>1. ASSUME NEW u \in Workers, Staging(u)'
        PROVE  u # w /\ req'[u] = req[u] /\ Staging(u)
    BY <1>2, <1>3, <2>1 DEF Staging, StageSteps
  <2>2. v # w /\ req'[v] = req[v] /\ Staging(v) /\ req[v].order \in Orders
    <3>1. v # w /\ req'[v] = req[v] /\ Staging(v)
      BY <2>1
    <3> QED BY <3>1 DEF Staging, TypeInv, RequestsOK, RequestOK
  <2>3. req'[v].key = orders'[req'[v].order].key
    BY <2>2 DEF Unbooked
  <2>4. \A q \in RowIds : ~ Ties(req[v].order, q)'
    <3>1. req[v].order # booked /\ \A q \in RowIds : ~ Ties(req[v].order, q)
      BY <1>1, <2>2 DEF Unbooked
    <3>2. req'[v].order = req[v].order
      BY <2>2
    <3> QED BY <1>4, <2>2, <3>1, <3>2
  <2>5. ASSUME NEW u \in Workers, Staging(u)', req'[u].order = req'[v].order PROVE u = v
    BY <2>1, <2>2, <2>5 DEF Unbooked
  <2>6. req'[v].pos \in RowIds => SameBook(req'[v].key, positions'[req'[v].pos].key)
    BY <1>5, <2>2 DEF Unbooked, RowsNamed
  <2> QED BY <2>3, <2>4, <2>5, <2>6
<1>11. CreditSound'
  <2>1. ASSUME NEW key, NEW q, q \in RowIds => Exists(q), CreditFrom(key, q)
        PROVE  CreditFrom(key, q)'
    BY <1>5, <2>1 DEF CreditFrom
  <2>2. ASSUME NEW t \in RowIds, IsBooked(t)' PROVE CreditFrom(trades[t].key, trades[t].pos)'
    BY <2>1, <2>2 DEF CreditSound, RowsNamed, IsBooked
  <2>3. ASSUME NEW v \in Workers, req'[v].at = "recordTrade"
        PROVE  CreditFrom(req[v].key, req[v].pos)'
    <3>1. req'[v] = req[v]
      BY <1>2, <1>3, <2>3
    <3> QED BY <2>1, <2>3, <3>1 DEF CreditSound, RowsNamed
  <2>4. \A v \in Workers :
          req'[v].at = "findOpen" => req'[v].pos = 0 /\ req'[v].key.owner = Manual
    BY <1>2, <1>3 DEF CreditSound
  <2>5. \A t \in RowIds : ~ IsBooked(t)' => trades'[t] = NoTrade
    BY DEF CreditSound, IsBooked
  <2> QED BY <2>2, <2>3, <2>4, <2>5 DEF CreditSound
<1> QED
  BY <1>6, <1>7, <1>8, <1>9, <1>10, <1>11

LEMMA BookStep ==
  ASSUME NoReset, TypeInv, BookInv, [Next]_vars
  PROVE  BookInv'
<1>1. ASSUME NEW w \in Workers, InsertPosition(w) PROVE BookInv'
  <2>1. PICK p \in RowIds :
          /\ positions[p].status = "absent"
          /\ positions' = [positions EXCEPT ![p] =
                [status |-> "open", key |-> req[w].key, lots |-> {req[w].order}]]
    BY <1>1 DEF InsertPosition, IsNextId
  <2> DEFINE row == [status |-> "open", key |-> req[w].key, lots |-> {req[w].order}]
  <2>2. /\ row.status # "absent"
        /\ Exists(p) => row.key = positions[p].key
        /\ SameBook(req[w].key, row.key)
        /\ \A o \in Orders : o \in row.lots => o = req[w].order \/ Ties(o, p)
    BY <2>1 DEF Exists, SameBook
  <2>3. positions' = [positions EXCEPT ![p] = row]
    BY <2>1
  <2>4. /\ req[w].at = "bookFill" /\ req' = [req EXCEPT ![w] = Idle]
        /\ UNCHANGED <<orders, trades>>
    BY <1>1 DEF InsertPosition, Continue, Goto
  <2> HIDE DEF row
  <2> QED BY <2>2, <2>3, <2>4, BookingStep
<1>2. ASSUME NEW w \in Workers, AggregateFill(w) PROVE BookInv'
  <2> DEFINE p == req[w].pos
  <2> DEFINE row == [positions[p] EXCEPT !.lots = req[w].lots \cup {req[w].order}]
  <2>1. /\ req[w].at = "bookFill" /\ req' = [req EXCEPT ![w] = Idle]
        /\ UNCHANGED <<orders, trades>>
    BY <1>2 DEF AggregateFill, Continue, Goto
  <2>2. p \in RowIds /\ Exists(p)
    <3>1. p \in RowIds
      BY <1>2 DEF AggregateFill, TypeInv, RequestsOK, Request
    <3> QED BY <3>1 DEF BookInv, RowsNamed
  <2>3. positions' = [positions EXCEPT ![p] = row]
    BY <1>2, <2>2 DEF AggregateFill, Exists
  <2>4. /\ row.status = positions[p].status /\ row.key = positions[p].key
        /\ row.lots = req[w].lots \cup {req[w].order}
    BY <2>2 DEF TypeInv, TablesOK, PositionRow
  <2>5. SameBook(req[w].key, positions[p].key)
    BY <2>1, <2>2 DEF BookInv, Unbooked, Staging, StageSteps
  <2> HIDE DEF row
  <2>6. /\ row.status # "absent"
        /\ Exists(p) => row.key = positions[p].key
        /\ SameBook(req[w].key, row.key)
        /\ \A o \in Orders : o \in row.lots => o = req[w].order \/ Ties(o, p)
    BY <2>2, <2>4, <2>5 DEF Exists, Ties
  <2> HIDE DEF p
  <2> QED BY <2>1, <2>2, <2>3, <2>6, BookingStep
<1>3. ASSUME UNCHANGED vars PROVE BookInv'
  BY <1>3 DEF vars, BookInv, NoneWiping, RowsNamed, OneRowEach, TiesMatch, Unbooked,
    CreditSound, CreditFrom, Ties, Exists, Stored, Staging, IsBooked
<1> QED
  BY <1>1, <1>2, <1>3, PersistOrderStep, QuietSteps, QuietKeepsBook DEF Next

LEMMA BookInvariant == ASSUME NoReset PROVE Spec => [](TypeInv /\ BookInv)
<1>1. Init => TypeInv /\ BookInv
  BY TypeInit, BookInit
<1>2. TypeInv /\ BookInv /\ [Next]_vars => (TypeInv /\ BookInv)'
  BY TypeStep, StoredStep, BookStep DEF TypeInv
<1> QED
  BY <1>1, <1>2, PTL DEF Spec

\* Without resets, shares are counted by one row only, whatever the requests.
THEOREM LotsStay == ASSUME NoReset PROVE Spec => []LotsStayHome
<1>1. TypeInv /\ BookInv => LotsStayHome
  <2> SUFFICES ASSUME TypeInv, BookInv, NEW p \in RowIds, NEW q \in RowIds, p # q,
                      NEW o \in Held(p) \cap Held(q)
               PROVE  FALSE
    BY DEF LotsStayHome
  <2>1. o \in Orders
    BY DEF Held, TradesOf, TypeInv, TablesOK, PositionRow, TradeRow
  <2>2. Ties(o, p) /\ Ties(o, q)
    BY DEF Held, TradesOf, Ties
  <2> QED BY <2>1, <2>2 DEF BookInv, OneRowEach
<1> QED
  BY <1>1, BookInvariant, PTL

\* ... and that row has their symbol and side, and their profile if they have one.
THEOREM LotsMatch == ASSUME NoReset PROVE Spec => []LotsMatchRow
<1>1. TypeInv /\ BookInv => LotsMatchRow
  <2> SUFFICES ASSUME TypeInv, BookInv, NEW p \in RowIds, NEW o \in Held(p)
               PROVE  SameBook(orders[o].key, positions[p].key)
    BY DEF LotsMatchRow
  <2>1. o \in Orders
    BY DEF Held, TradesOf, TypeInv, TablesOK, PositionRow, TradeRow
  <2>2. Ties(o, p)
    BY DEF Held, TradesOf, Ties
  <2> QED BY <2>1, <2>2 DEF BookInv, TiesMatch
<1> QED
  BY <1>1, BookInvariant, PTL

\* Without resets, no interleaving lets an agent's trade realise the shares of
\* another profile.
THEOREM CreditStays == ASSUME NoReset PROVE Spec => []CreditStaysWithProfile
<1>1. TypeInv /\ BookInv => CreditStaysWithProfile
  <2> SUFFICES ASSUME TypeInv, BookInv, NEW t \in RowIds, trades[t].key # NoKey,
                      trades[t].key.owner # Manual, NEW o \in trades[t].lots
               PROVE  orders[o].key.owner \in {Manual, trades[t].key.owner}
    BY DEF CreditStaysWithProfile
  <2> DEFINE p == trades[t].pos
  <2>1. IsBooked(t)
    BY DEF BookInv, CreditSound, NoTrade
  <2>2. p \in RowIds /\ positions[p].key.owner = trades[t].key.owner
    BY <2>1 DEF BookInv, CreditSound, CreditFrom
  <2>3. o \in Orders /\ Ties(o, p)
    BY <2>1 DEF Ties, TypeInv, TablesOK, TradeRow
  <2> QED BY <2>2, <2>3 DEF BookInv, TiesMatch, SameBook
<1> QED
  BY <1>1, BookInvariant, PTL

(***************************************************************************)
(* One request at a time                                                   *)
(***************************************************************************)

\* With a single worker nothing comes between the transactions of a request but
\* its own death, so what it read still holds when it uses it.
Relies(r) ==
  /\ r.at \in {"persistFill", "findMatch", "findOpen"} => r.pos = 0
  /\ r.at \in {"bookFill", "recordTrade"} /\ r.pos # 0 =>
       IsOpen(r.pos) /\ positions[r.pos].lots = r.lots
  /\ r.at = "closeRow" =>
       IsOpen(r.pos) /\ \E t \in TradesOf(r.pos) : trades[t].lots = positions[r.pos].lots
  /\ r.at \in {"checkClosed", "restore", "deleteTrade"} =>
       r.trade \in TradesOf(r.pos) /\ trades[r.trade].lots = r.lots
  /\ r.at = "restore" => IsClosed(r.pos)
  /\ r.at = "deleteTrade" => IsOpen(r.pos) /\ positions[r.pos].lots = r.lots

RowsSound ==
  \A p \in RowIds :
    /\ positions[p].status = "absent" => positions[p].lots = {}
    /\ IsClosed(p) => positions[p].lots = {} /\ TradesOf(p) # {}

TradesHaveRows ==
  \A t \in RowIds :
    IsBooked(t) /\ trades[t].pos # 0 => positions[trades[t].pos].status # "absent"

IsStored(o) == orders[o].status # "unused"

LotsStored ==
  /\ \A p \in RowIds : \A o \in positions[p].lots \cup trades[p].lots : IsStored(o)
  /\ \A w \in Workers : \A o \in req[w].lots : IsStored(o)

\* A request between its trade and its close, or between its reopening and the
\* deletion of the trade.
Busy(r, p) == r.at \in {"closeRow", "deleteTrade"} /\ r.pos = p

\* A row has one trade if it is closed or in the middle of a close or a
\* reopening, and none otherwise; every death can have left one more.
CountOf(p, busy) ==
  /\ IsFiniteSet(TradesOf(p)) /\ Cardinality(TradesOf(p)) \in Nat
  /\ Cardinality(TradesOf(p)) <= crashes + (IF IsClosed(p) \/ busy THEN 1 ELSE 0)
  /\ IsClosed(p) \/ busy => Cardinality(TradesOf(p)) >= 1

Counts(r) == \A p \in RowIds : CountOf(p, Busy(r, p))

SerialInv ==
  /\ RowsSound /\ TradesHaveRows /\ LotsStored
  /\ \A w \in Workers : Relies(req[w]) /\ Counts(req[w])

LEMMA SerialInit == Init => SerialInv
<1> SUFFICES ASSUME Init PROVE SerialInv
  OBVIOUS
<1>1. \A p \in RowIds : /\ TradesOf(p) = {} /\ ~ IsClosed(p) /\ ~ IsBooked(p)
                        /\ positions[p].lots = {} /\ trades[p].lots = {}
  BY DEF Init, TradesOf, IsClosed, IsBooked, NoTrade, NoPosition
<1>2. \A w \in Workers : Relies(req[w]) /\ req[w].lots = {}
  BY DEF Init, Relies, Idle
<1>3. \A w \in Workers : Counts(req[w])
  <2>1. ASSUME NEW v \in Workers, NEW p \in RowIds PROVE CountOf(p, Busy(req[v], p))
    <3>1. ~ Busy(req[v], p) /\ TradesOf(p) = {} /\ ~ IsClosed(p) /\ crashes = 0
      BY <1>1 DEF Busy, Init, Idle
    <3>2. IsFiniteSet(TradesOf(p)) /\ Cardinality(TradesOf(p)) = 0
      BY <3>1, FS_EmptySet
    <3> QED BY <3>1, <3>2 DEF CountOf
  <2> QED BY <2>1 DEF Counts
<1>4. RowsSound /\ TradesHaveRows /\ LotsStored
  BY <1>1, <1>2 DEF RowsSound, TradesHaveRows, LotsStored
<1> QED BY <1>2, <1>3, <1>4 DEF SerialInv

\* What a request that stores nothing has to bring about.
LEMMA ReadStep ==
  ASSUME TypeInv, NEW w, Workers = {w}, SerialInv,
         UNCHANGED <<orders, positions, trades>>,
         NEW r, r = req'[w], Relies(r), \A o \in r.lots : IsStored(o),
         \/ crashes' = crashes + 1 /\ \A p \in RowIds : ~ Busy(r, p)
         \/ crashes' = crashes /\ \A p \in RowIds : Busy(r, p) <=> Busy(req[w], p)
  PROVE  SerialInv'
<1>1. \A p : /\ TradesOf(p)' = TradesOf(p) /\ IsClosed(p)' = IsClosed(p)
             /\ IsOpen(p)' = IsOpen(p) /\ IsBooked(p)' = IsBooked(p)
  BY DEF TradesOf, IsBooked, IsClosed, IsOpen
<1>2. RowsSound' /\ TradesHaveRows'
  BY <1>1 DEF SerialInv, RowsSound, TradesHaveRows
<1>3. LotsStored'
  BY DEF SerialInv, LotsStored, IsStored
<1>4. Relies(r)'
  BY <1>1 DEF Relies
<1>5. Counts(r)'
  <2>1. crashes \in Nat /\ Counts(req[w])
    BY DEF TypeInv, CountersOK, SerialInv
  <2>2. SUFFICES ASSUME NEW p \in RowIds PROVE CountOf(p, Busy(r, p))'
    BY DEF Counts
  <2>3. CountOf(p, Busy(req[w], p)) /\ Busy(r, p)' = Busy(r, p)
    BY <2>1 DEF Counts, Busy
  <2>4. CASE crashes' = crashes
    BY <1>1, <2>1, <2>3, <2>4 DEF CountOf
  <2>5. CASE crashes' # crashes
    BY <1>1, <2>1, <2>3, <2>5 DEF CountOf
  <2> QED BY <2>4, <2>5
<1>6. Relies(req[w])' /\ Counts(req[w])'
  BY <1>4, <1>5 DEF Relies, Counts, CountOf
<1> QED BY <1>2, <1>3, <1>6 DEF SerialInv

\* The actions that read, or store no more than a fill.
LEMMA SerialReads ==
  ASSUME TypeInv, NEW w, Workers = {w}, SerialInv,
         \/ PersistFill(w) \/ FindMatch(w) \/ RereadPosition(w) \/ FindOpen(w)
         \/ CheckClosed(w) \/ ReadOrderIds(w) \/ Crash(w)
         \/ \E i \in RowIds : ReadPosition(w, i) \/ PickOwnPosition(w, i) \/ ReadTrade(w, i)
         \/ \E o \in Orders : ReadOrder(w, o)
  PROVE  SerialInv'
<1> DEFINE q == req[w]
<1>1. /\ w \in Workers /\ RequestOK(q) /\ q \in Request /\ req \in [Workers -> Request]
      /\ Relies(q) /\ LotsStored /\ \A o \in q.lots : IsStored(o)
  BY DEF TypeInv, RequestsOK, RequestOK, SerialInv, LotsStored
<1>2. UNCHANGED <<orders, positions, trades>>
  BY DEF PersistFill, FindMatch, RereadPosition, FindOpen, CheckClosed, ReadOrderIds, Crash,
         ReadPosition, PickOwnPosition, ReadTrade, ReadOrder, tables
<1>3. CASE Crash(w)
  <2>1. req'[w] = Idle /\ crashes' = crashes + 1 /\ \A p \in RowIds : ~ Busy(Idle, p)
    BY <1>1, <1>3 DEF Crash, Busy, Idle
  <2>2. Relies(Idle) /\ Idle.lots = {}
    BY DEF Relies, Idle
  <2> QED BY <1>2, <2>1, <2>2, ReadStep
\* From here on the request goes on, from and to steps at which it is not busy.
<1>4. ASSUME NEW r, r = req'[w], Relies(r), \A o \in r.lots : IsStored(o),
             crashes' = crashes, q.at \notin {"closeRow", "deleteTrade"},
             r.at \notin {"closeRow", "deleteTrade"}
      PROVE  SerialInv'
  BY <1>2, <1>4, ReadStep DEF Busy
<1>5. ASSUME req' = [req EXCEPT ![w] = Idle], crashes' = crashes,
             q.at \notin {"closeRow", "deleteTrade"}
      PROVE  SerialInv'
  <2>1. req'[w] = Idle
    BY <1>1, <1>5
  <2>2. Relies(Idle) /\ Idle.lots = {} /\ Idle.at = "idle"
    BY DEF Relies, Idle
  <2> QED BY <1>4, <1>5, <2>1, <2>2
<1>6. ASSUME NEW i \in RowIds, NEW credit, IsOpen(i),
             req' = [req EXCEPT ![w] = ReadRow(i, credit)], crashes' = crashes,
             q.at \notin {"closeRow", "deleteTrade"}
      PROVE  SerialInv'
  <2> DEFINE r == ReadRow(i, credit)
  <2>1. r.at = "recordTrade" /\ r.pos = i /\ r.lots = positions[i].lots
    BY DEF ReadRow, Idle
  <2>2. req'[w] = r
    BY <1>1, <1>6
  <2> HIDE DEF r
  <2>3. Relies(r)
    BY <1>6, <2>1 DEF Relies
  <2>4. \A o \in r.lots : IsStored(o)
    BY <1>1, <2>1 DEF LotsStored
  <2> QED BY <1>4, <1>6, <2>1, <2>2, <2>3, <2>4
<1>7. CASE PersistFill(w)
  <2> DEFINE r == At(w, "findMatch")
  <2>1. r.at = "findMatch" /\ r.pos = q.pos /\ r.lots = q.lots
    BY <1>1 DEF At, Request
  <2>2. req' = [req EXCEPT ![w] = r] /\ crashes' = crashes /\ q.at = "persistFill"
    BY <1>7 DEF PersistFill, Continue, Goto
  <2> HIDE DEF r, q
  <2>3. req'[w] = r
    BY <1>1, <2>2
  <2>4. Relies(r)
    BY <1>1, <2>1, <2>2 DEF Relies
  <2> QED BY <1>1, <1>4, <2>1, <2>2, <2>3, <2>4
<1>8. CASE FindMatch(w)
  <2>1. q.at = "findMatch" /\ q.pos = 0 /\ crashes' = crashes
    BY <1>1, <1>8 DEF FindMatch, Goto, Relies
  <2>2. CASE req' = [req EXCEPT ![w] = Idle]
    BY <1>5, <2>1, <2>2
  <2>3. CASE req' = [req EXCEPT ![w] = At(w, "bookFill")]
    <3> DEFINE r == At(w, "bookFill")
    <3>1. r.at = "bookFill" /\ r.pos = 0 /\ r.lots = q.lots
      BY <1>1, <2>1 DEF At, Request
    <3> HIDE DEF r, q
    <3>2. req'[w] = r
      BY <1>1, <2>3 DEF r
    <3>3. Relies(r)
      BY <3>1 DEF Relies
    <3> QED BY <1>1, <1>4, <2>1, <3>1, <3>2, <3>3
  <2>4. ASSUME NEW i \in Matches(q.key),
               Goto(w, [q EXCEPT !.at = "bookFill", !.pos = i, !.lots = positions[i].lots])
        PROVE  SerialInv'
    <3> DEFINE r == [q EXCEPT !.at = "bookFill", !.pos = i, !.lots = positions[i].lots]
    <3>1. i \in RowIds /\ IsOpen(i)
      BY DEF Matches
    <3>2. r.at = "bookFill" /\ r.pos = i /\ r.lots = positions[i].lots
      BY <1>1 DEF Request
    <3>3. req' = [req EXCEPT ![w] = r]
      BY <2>4 DEF Goto
    <3> HIDE DEF r, q
    <3>4. req'[w] = r
      BY <1>1, <3>3
    <3>5. Relies(r)
      BY <3>1, <3>2 DEF Relies
    <3>6. \A o \in r.lots : IsStored(o)
      BY <1>1, <3>1, <3>2 DEF LotsStored
    <3> QED BY <1>4, <2>1, <3>2, <3>4, <3>5, <3>6
  <2> QED BY <1>8, <2>2, <2>3, <2>4 DEF FindMatch, Goto
<1>9. CASE \E i \in RowIds : ReadPosition(w, i)
  <2>1. PICK i \in RowIds : ReadPosition(w, i)
    BY <1>9
  <2>2. /\ IsOpen(i) /\ req' = [req EXCEPT ![w] = ReadRow(i, Manual)] /\ crashes' = crashes
        /\ q.at \notin {"closeRow", "deleteTrade"}
    BY <2>1 DEF ReadPosition, Start, Idle
  <2> QED BY <1>6, <2>2
<1>10. CASE RereadPosition(w)
  <2>1. q.at = "reread" /\ crashes' = crashes /\ q.pos \in RowIds
    BY <1>1, <1>10 DEF RereadPosition, Continue, Goto, RequestOK
  <2>2. \/ req' = [req EXCEPT ![w] = Idle]
        \/ IsOpen(q.pos) /\ req' = [req EXCEPT ![w] = ReadRow(q.pos, positions[q.pos].key.owner)]
    BY <1>10 DEF RereadPosition, Continue, Goto
  <2> QED BY <1>5, <1>6, <2>1, <2>2
<1>11. CASE \E i \in RowIds : PickOwnPosition(w, i) \/ ReadTrade(w, i)
  <2>1. PICK i \in RowIds : PickOwnPosition(w, i) \/ ReadTrade(w, i)
    BY <1>11
  <2>2. q = Idle /\ crashes' = crashes
    BY <2>1 DEF PickOwnPosition, ReadTrade, Start
  <2>3. CASE PickOwnPosition(w, i)
    <3> DEFINE r == [Idle EXCEPT !.at = "reread", !.pos = i]
    <3>1. r.at = "reread" /\ r.lots = {}
      BY DEF Idle
    <3>2. req' = [req EXCEPT ![w] = r]
      BY <2>3 DEF PickOwnPosition, Start
    <3> HIDE DEF r
    <3>3. req'[w] = r /\ Relies(r)
      BY <1>1, <3>1, <3>2 DEF Relies
    <3> QED BY <1>4, <2>2, <3>1, <3>3 DEF Idle
  <2>4. CASE ReadTrade(w, i)
    <3> DEFINE r == [Idle EXCEPT !.at = "checkClosed", !.trade = i,
                                 !.pos = trades[i].pos, !.lots = trades[i].lots]
    <3>1. /\ r.at = "checkClosed" /\ r.trade = i /\ r.pos = trades[i].pos
          /\ r.lots = trades[i].lots
      BY DEF Idle
    <3>2. req' = [req EXCEPT ![w] = r] /\ IsBooked(i)
      BY <2>4 DEF ReadTrade, Start
    <3> HIDE DEF r
    <3>3. req'[w] = r /\ Relies(r)
      BY <1>1, <3>1, <3>2 DEF Relies, TradesOf
    <3>4. \A o \in r.lots : IsStored(o)
      BY <1>1, <3>1 DEF LotsStored
    <3> QED BY <1>4, <2>2, <3>1, <3>3, <3>4 DEF Idle
  <2> QED BY <2>1, <2>3, <2>4
<1>12. CASE \E o \in Orders : ReadOrder(w, o)
  <2>1. PICK o \in Orders : ReadOrder(w, o)
    BY <1>12
  <2> DEFINE r == [Idle EXCEPT !.at = "findOpen", !.order = o,
                               !.key = [orders[o].key EXCEPT !.owner = Manual]]
  <2>2. r.at = "findOpen" /\ r.pos = 0 /\ r.lots = {}
    BY DEF Idle
  <2>3. req' = [req EXCEPT ![w] = r] /\ q = Idle /\ crashes' = crashes
    BY <2>1 DEF ReadOrder, Start
  <2> HIDE DEF r
  <2>4. req'[w] = r /\ Relies(r)
    BY <1>1, <2>2, <2>3 DEF Relies
  <2> QED BY <1>4, <2>2, <2>3, <2>4 DEF Idle
<1>13. CASE FindOpen(w)
  <2>1. q.at = "findOpen" /\ q.pos = 0 /\ q.order \in Orders /\ crashes' = crashes
    BY <1>1, <1>13 DEF FindOpen, Goto, Relies, RequestOK
  <2>2. CASE req' = [req EXCEPT ![w] = Idle]
    BY <1>5, <2>1, <2>2
  <2>3. CASE req' = [req EXCEPT ![w] = [q EXCEPT !.at = "recordTrade", !.lots = {q.order}]]
    <3> DEFINE r == [q EXCEPT !.at = "recordTrade", !.lots = {q.order}]
    <3>1. r.at = "recordTrade" /\ r.pos = 0 /\ r.lots = {q.order}
      BY <1>1, <2>1 DEF Request
    <3>2. IsStored(q.order)
      BY <1>1, <2>1 DEF TypeInv, OrdersStored, IsStored
    <3>3. req' = [req EXCEPT ![w] = r]
      BY <2>3
    <3> HIDE DEF r, q
    <3>4. req'[w] = r /\ Relies(r)
      BY <1>1, <3>1, <3>3 DEF Relies
    <3> QED BY <1>4, <2>1, <3>1, <3>2, <3>4
  <2>4. ASSUME NEW i \in OpenInSymbol(q.key.symbol),
               Goto(w, [q EXCEPT !.at = "recordTrade", !.pos = i, !.lots = positions[i].lots])
        PROVE  SerialInv'
    <3> DEFINE r == [q EXCEPT !.at = "recordTrade", !.pos = i, !.lots = positions[i].lots]
    <3>1. i \in RowIds /\ IsOpen(i)
      BY DEF OpenInSymbol
    <3>2. r.at = "recordTrade" /\ r.pos = i /\ r.lots = positions[i].lots
      BY <1>1 DEF Request
    <3>3. req' = [req EXCEPT ![w] = r]
      BY <2>4 DEF Goto
    <3> HIDE DEF r, q
    <3>4. req'[w] = r /\ Relies(r)
      BY <1>1, <3>1, <3>2, <3>3 DEF Relies
    <3>5. \A o \in r.lots : IsStored(o)
      BY <1>1, <3>1, <3>2 DEF LotsStored
    <3> QED BY <1>4, <2>1, <3>2, <3>4, <3>5
  <2> QED BY <1>13, <2>2, <2>3, <2>4 DEF FindOpen, Goto
<1>14. CASE CheckClosed(w)
  <2>1. q.at = "checkClosed" /\ crashes' = crashes
    BY <1>14 DEF CheckClosed, Continue, Goto
  <2>2. CASE req' = [req EXCEPT ![w] = Idle]
    BY <1>5, <2>1, <2>2
  <2>3. CASE IsClosed(q.pos) /\ req' = [req EXCEPT ![w] = At(w, "restore")]
    <3> DEFINE r == At(w, "restore")
    <3>1. r.at = "restore" /\ r.pos = q.pos /\ r.trade = q.trade /\ r.lots = q.lots
      BY <1>1 DEF At, Request
    <3> HIDE DEF r, q
    <3>2. req'[w] = r
      BY <1>1, <2>3 DEF r
    <3>3. Relies(r)
      BY <1>1, <2>1, <2>3, <3>1 DEF Relies
    <3> QED BY <1>1, <1>4, <2>1, <3>1, <3>2, <3>3
  <2> QED BY <1>14, <2>2, <2>3 DEF CheckClosed, Continue, Goto
<1>15. CASE ReadOrderIds(w)
  <2> DEFINE r == [Idle EXCEPT !.at = "wipe",
                     !.lots = {o \in Orders : orders[o].status \in {"filled", "closed"}}]
  <2>1. r.at = "wipe" /\ \A o \in r.lots : IsStored(o)
    BY DEF Idle, IsStored
  <2>2. req' = [req EXCEPT ![w] = r] /\ q = Idle /\ crashes' = crashes
    BY <1>15 DEF ReadOrderIds, Start
  <2> HIDE DEF r
  <2>3. req'[w] = r /\ Relies(r)
    BY <1>1, <2>1, <2>2 DEF Relies
  <2> QED BY <1>4, <2>1, <2>2, <2>3 DEF Idle
<1> HIDE DEF q
<1> QED BY <1>3, <1>7, <1>8, <1>9, <1>10, <1>11, <1>12, <1>13, <1>14, <1>15

\* What is to be shown of a step, for one set of new local variables.
LEMMA SerialGoal ==
  ASSUME NEW w, Workers = {w}, NEW r, r = req'[w],
         RowsSound', TradesHaveRows', Relies(r)', Counts(r)',
         \A p \in RowIds : \A o \in positions'[p].lots \cup trades'[p].lots :
           orders'[o].status # "unused",
         \A o \in r.lots : orders'[o].status # "unused"
  PROVE  SerialInv'
<1>1. Relies(req[w])' /\ Counts(req[w])'
  BY DEF Relies, Counts, CountOf, Busy
<1>2. LotsStored'
  BY DEF LotsStored, IsStored
<1> QED BY <1>1, <1>2 DEF SerialInv

\* The actions that store something.
LEMMA SerialWrites ==
  ASSUME TypeInv, NEW w, Workers = {w}, SerialInv,
         \/ PersistOrder(w) \/ InsertPosition(w) \/ AggregateFill(w)
         \/ RecordTrade(w) \/ CloseRow(w) \/ MarkOrder(w)
         \/ Restore(w) \/ DeleteTrade(w) \/ Wipe(w)
  PROVE  SerialInv'
<1> DEFINE q == req[w]
<1>1. /\ w \in Workers /\ RequestOK(q) /\ q \in Request /\ req \in [Workers -> Request]
      /\ Relies(q) /\ Counts(q) /\ RowsSound /\ TradesHaveRows
      /\ \A o \in q.lots : IsStored(o)
      /\ \A p \in RowIds : \A o \in positions[p].lots \cup trades[p].lots : IsStored(o)
  BY DEF TypeInv, RequestsOK, SerialInv, LotsStored
<1>2. /\ positions \in [RowIds -> PositionRow] /\ trades \in [RowIds -> TradeRow]
      /\ orders \in [Orders -> OrderRow] /\ crashes \in Nat
      /\ q.order \in Orders => IsStored(q.order)
  BY <1>1 DEF TypeInv, TablesOK, OrdersStored, IsStored, CountersOK
<1>3. Relies(Idle) /\ Idle.lots = {} /\ Idle.at = "idle" /\ 0 \notin RowIds
  BY DEF Relies, Idle, RowIds
<1>4. CASE PersistOrder(w)
  <2>1. PICK o \in Orders, key \in Keys :
          /\ orders[o].status = "unused"
          /\ req' = [req EXCEPT ![w] =
                [Idle EXCEPT !.at = "persistFill", !.order = o, !.key = key]]
          /\ orders' = [orders EXCEPT ![o] = [status |-> "filled", key |-> key]]
          /\ UNCHANGED <<positions, trades, crashes>> /\ q = Idle
    BY <1>4 DEF PersistOrder, Start
  <2> DEFINE r == [Idle EXCEPT !.at = "persistFill", !.order = o, !.key = key]
  <2>2. r.at = "persistFill" /\ r.pos = 0 /\ r.lots = {}
    BY DEF Idle
  <2>3. req'[w] = r
    BY <1>1, <2>1
  <2> HIDE DEF r
  <2>4. \A u \in Orders : IsStored(u) => orders'[u].status # "unused"
    BY <1>2, <2>1 DEF IsStored
  <2>5. \A p : /\ TradesOf(p)' = TradesOf(p) /\ IsClosed(p)' = IsClosed(p)
               /\ IsBooked(p)' = IsBooked(p)
    BY <2>1 DEF TradesOf, IsBooked, IsClosed
  <2>6. RowsSound' /\ TradesHaveRows'
    BY <1>1, <2>1, <2>5 DEF RowsSound, TradesHaveRows
  <2>7. Relies(r)'
    BY <2>2 DEF Relies
  <2>8. Counts(r)'
    BY <1>1, <2>1, <2>2, <2>5 DEF Counts, CountOf, Busy, Idle
  <2>9. \A p \in RowIds : \A u \in positions'[p].lots \cup trades'[p].lots :
          orders'[u].status # "unused"
    BY <1>1, <1>2, <2>1, <2>4 DEF PositionRow, TradeRow
  <2> QED BY <2>2, <2>3, <2>6, <2>7, <2>8, <2>9, SerialGoal
\* The new row has the id of an absent one, for which no trade was booked.
<1>5. CASE InsertPosition(w)
  <2>1. PICK id \in RowIds :
          /\ IsNextId(positions, id)
          /\ positions' = [positions EXCEPT ![id] =
               [status |-> "open", key |-> q.key, lots |-> {q.order}]]
    BY <1>5 DEF InsertPosition
  <2>2. q.at = "bookFill" /\ req'[w] = Idle /\ UNCHANGED <<orders, trades, crashes>>
    BY <1>1, <1>5 DEF InsertPosition, Continue, Goto
  <2>3. q.order \in Orders /\ IsStored(q.order)
    BY <1>1, <1>2, <2>2 DEF RequestOK, StageSteps
  <2>4. /\ positions'[id].status = "open" /\ positions'[id].lots = {q.order}
        /\ \A p \in RowIds \ {id} : positions'[p] = positions[p]
        /\ positions[id].status = "absent"
    BY <1>2, <2>1 DEF IsNextId
  <2> HIDE DEF q
  <2>5. \A p : TradesOf(p)' = TradesOf(p) /\ IsBooked(p)' = IsBooked(p)
    BY <2>2 DEF TradesOf, IsBooked
  <2>6. TradesOf(id) = {}
    BY <1>1, <1>3, <2>4 DEF TradesHaveRows, TradesOf
  <2>7. RowsSound' /\ TradesHaveRows'
    <3>1. RowsSound'
      BY <1>1, <2>4, <2>5 DEF RowsSound, IsClosed
    <3>2. TradesHaveRows'
      BY <1>1, <1>2, <2>2, <2>4, <2>5 DEF TradesHaveRows, TradeRow
    <3> QED BY <3>1, <3>2
  <2>8. Relies(Idle)'
    BY DEF Relies, Idle
  <2>9. Counts(Idle)'
    <3>1. \A p \in RowIds : IsClosed(p)' <=> IsClosed(p)
      BY <2>4 DEF IsClosed
    <3> QED BY <1>1, <1>3, <2>2, <2>5, <3>1 DEF Counts, CountOf, Busy
  <2>10. \A p \in RowIds : \A o \in positions'[p].lots \cup trades'[p].lots :
           orders'[o].status # "unused"
    BY <1>1, <2>2, <2>3, <2>4 DEF IsStored
  <2> QED BY <1>3, <2>2, <2>7, <2>8, <2>9, <2>10, SerialGoal
\* The row that was found is still open, and has the quantity that was read.
<1>6. CASE AggregateFill(w)
  <2> DEFINE i == q.pos
  <2>1. /\ i # 0 /\ q.at = "bookFill" /\ req'[w] = Idle /\ UNCHANGED <<orders, trades, crashes>>
        /\ i \in RowIds
    BY <1>1, <1>6 DEF AggregateFill, Continue, Goto, Request
  <2>2. IsOpen(i) /\ positions[i].lots = q.lots
    BY <1>1, <2>1 DEF Relies
  <2>3. positions' = [positions EXCEPT ![i].lots = q.lots \cup {q.order}]
    BY <1>6, <2>2 DEF AggregateFill, IsOpen
  <2>4. q.order \in Orders /\ IsStored(q.order)
    BY <1>1, <1>2, <2>1 DEF RequestOK, StageSteps
  <2> HIDE DEF q, i
  <2>5. /\ positions'[i].status = "open" /\ positions'[i].lots = q.lots \cup {q.order}
        /\ \A p \in RowIds \ {i} : positions'[p] = positions[p]
    BY <1>2, <2>1, <2>2, <2>3 DEF IsOpen, PositionRow
  <2>6. \A p : TradesOf(p)' = TradesOf(p) /\ IsBooked(p)' = IsBooked(p)
    BY <2>1 DEF TradesOf, IsBooked
  <2>7. RowsSound'
    BY <1>1, <2>5, <2>6 DEF RowsSound, IsClosed
  <2>8. TradesHaveRows'
    BY <1>1, <1>2, <2>1, <2>5, <2>6 DEF TradesHaveRows, TradeRow
  <2>9. Relies(Idle)'
    BY DEF Relies, Idle
  <2>10. Counts(Idle)'
    <3>1. \A p \in RowIds : IsClosed(p)' <=> IsClosed(p)
      BY <2>2, <2>5 DEF IsClosed, IsOpen
    <3> QED BY <1>1, <1>3, <2>1, <2>6, <3>1 DEF Counts, CountOf, Busy
  <2>11. \A p \in RowIds : \A o \in positions'[p].lots \cup trades'[p].lots :
           orders'[o].status # "unused"
    BY <1>1, <2>1, <2>4, <2>5 DEF IsStored
  <2> QED BY <1>3, <2>1, <2>7, <2>8, <2>9, <2>10, <2>11, SerialGoal
\* The row was open and had no trade; now it has the new one.
<1>7. CASE RecordTrade(w)
  <2>i. PICK i : i = q.pos
    OBVIOUS
  <2>r. PICK r : r = At(w, IF i = 0 THEN "markOrder" ELSE "closeRow")
    OBVIOUS
  <2>1. PICK id \in RowIds :
          /\ IsNextId(trades, id)
          /\ trades' = [trades EXCEPT ![id] =
               [status |-> "booked", pos |-> i, key |-> q.key, lots |-> q.lots]]
    BY <1>7, <2>i DEF RecordTrade
  <2>2. /\ q.at = "recordTrade" /\ req'[w] = r /\ UNCHANGED <<orders, positions, crashes>>
        /\ i \in RowIds \cup {0}
    BY <1>1, <1>7, <2>i, <2>r DEF RecordTrade, Continue, Goto, Request
  <2>3. /\ r.at = (IF i = 0 THEN "markOrder" ELSE "closeRow") /\ r.pos = i /\ r.lots = q.lots
    BY <1>1, <2>i, <2>r DEF At, Request
  <2>4. i # 0 => IsOpen(i) /\ positions[i].lots = q.lots
    BY <1>1, <2>i, <2>2 DEF Relies
  <2> HIDE DEF q
  <2>5. /\ trades'[id].status = "booked" /\ trades'[id].pos = i /\ trades'[id].lots = q.lots
        /\ \A t \in RowIds \ {id} : trades'[t] = trades[t]
        /\ trades[id].status = "absent"
    BY <1>2, <2>1 DEF IsNextId
  <2>6. \A p : TradesOf(p)' = IF p = i THEN TradesOf(p) \cup {id} ELSE TradesOf(p)
    BY <2>5 DEF TradesOf, IsBooked
  <2>7. RowsSound'
    BY <1>1, <2>2, <2>6 DEF RowsSound, IsClosed
  <2>8. TradesHaveRows'
    BY <1>1, <2>2, <2>4, <2>5 DEF TradesHaveRows, IsBooked, IsOpen
  <2>9. Relies(r)'
    <3>1. i # 0 => IsOpen(i)' /\ positions'[i].lots = q.lots /\ id \in TradesOf(i)'
      BY <2>2, <2>4, <2>6 DEF IsOpen
    <3> QED BY <2>3, <2>5, <3>1 DEF Relies
  <2>10. Counts(r)'
    <3> SUFFICES ASSUME NEW p \in RowIds
                 PROVE  CountOf(p, Busy(r, p))'
      BY DEF Counts
    <3>1. CountOf(p, Busy(q, p)) /\ ~ Busy(q, p)
      BY <1>1, <2>2 DEF Counts, Busy
    <3>2. CASE p = i
      <4>1. /\ IsFiniteSet(TradesOf(p)) /\ Cardinality(TradesOf(p)) \in Nat
            /\ Cardinality(TradesOf(p)) <= crashes /\ Busy(r, p)
        BY <1>2, <1>3, <2>3, <2>4, <3>1, <3>2 DEF CountOf, IsOpen, IsClosed, Busy
      <4>2. TradesOf(p)' = TradesOf(p) \cup {id} /\ id \notin TradesOf(p)
        BY <2>5, <2>6, <3>2 DEF TradesOf, IsBooked
      <4>3. IsFiniteSet(TradesOf(p)') /\ Cardinality(TradesOf(p)') = Cardinality(TradesOf(p)) + 1
        BY <4>1, <4>2, FS_AddElement
      <4>4. /\ IsFiniteSet(TradesOf(p))' /\ crashes' = crashes
            /\ Cardinality(TradesOf(p))' = Cardinality(TradesOf(p)) + 1 /\ Busy(r, p)'
        BY <2>2, <4>1, <4>3 DEF Busy
      <4> QED BY <1>2, <4>1, <4>4 DEF CountOf
    <3>3. CASE p # i
      <4>1. ~ Busy(r, p) /\ TradesOf(p)' = TradesOf(p) /\ IsClosed(p)' = IsClosed(p)
        BY <2>2, <2>3, <2>6, <3>3 DEF Busy, IsClosed
      <4> QED BY <2>2, <3>1, <4>1 DEF CountOf, Busy
    <3> QED BY <3>2, <3>3
  <2>11. \A p \in RowIds : \A o \in positions'[p].lots \cup trades'[p].lots :
           orders'[o].status # "unused"
    BY <1>1, <2>2, <2>5 DEF IsStored
  <2>12. \A o \in r.lots : orders'[o].status # "unused"
    BY <1>1, <2>2, <2>3 DEF IsStored
  <2> QED BY <2>2, <2>7, <2>8, <2>9, <2>10, <2>11, <2>12, SerialGoal
\* The row that closes has the trade that was booked for it.
<1>8. CASE CloseRow(w)
  <2>i. PICK i : i = q.pos
    OBVIOUS
  <2>r. PICK r : r = IF q.order = NoOrder THEN Idle ELSE At(w, "markOrder")
    OBVIOUS
  <2>1. /\ q.at = "closeRow" /\ req'[w] = r /\ UNCHANGED <<orders, trades, crashes>>
        /\ i \in RowIds
    BY <1>1, <1>8, <2>i, <2>r DEF CloseRow, Continue, Goto, RequestOK
  <2>2. IsOpen(i) /\ TradesOf(i) # {}
    BY <1>1, <2>i, <2>1 DEF Relies
  <2>3. positions' = [positions EXCEPT ![i].status = "closed", ![i].lots = {}]
    BY <1>8, <2>i, <2>2 DEF CloseRow, IsOpen
  <2>4. /\ positions'[i].status = "closed" /\ positions'[i].lots = {}
        /\ \A p \in RowIds \ {i} : positions'[p] = positions[p]
    BY <1>2, <2>1, <2>3 DEF PositionRow
  <2>5. r.at \in {"idle", "markOrder"} /\ \A o \in r.lots : IsStored(o)
    BY <1>1, <2>i, <2>r DEF At, Request, Idle
  <2> HIDE DEF q
  <2>6. \A p : TradesOf(p)' = TradesOf(p) /\ IsBooked(p)' = IsBooked(p)
    BY <2>1 DEF TradesOf, IsBooked
  <2>7. RowsSound'
    BY <1>1, <2>2, <2>4, <2>6 DEF RowsSound, IsClosed
  <2>8. TradesHaveRows'
    BY <1>1, <1>2, <2>1, <2>4, <2>6 DEF TradesHaveRows, TradeRow
  <2>9. Relies(r)'
    BY <2>5 DEF Relies
  <2>10. Counts(r)'
    <3> SUFFICES ASSUME NEW p \in RowIds
                 PROVE  CountOf(p, Busy(r, p))'
      BY DEF Counts
    <3>1. CountOf(p, Busy(q, p)) /\ (Busy(q, p) <=> p = i) /\ ~ Busy(r, p)
      BY <1>1, <2>i, <2>1, <2>5 DEF Counts, Busy
    <3>2. IsClosed(p)' <=> IsClosed(p) \/ p = i
      BY <2>4 DEF IsClosed
    <3> QED BY <2>1, <2>6, <3>1, <3>2 DEF CountOf, Busy
  <2>11. \A p \in RowIds : \A o \in positions'[p].lots \cup trades'[p].lots :
           orders'[o].status # "unused"
    BY <1>1, <2>1, <2>4 DEF IsStored
  <2>12. \A o \in r.lots : orders'[o].status # "unused"
    BY <2>1, <2>5 DEF IsStored
  <2> QED BY <2>1, <2>7, <2>8, <2>9, <2>10, <2>11, <2>12, SerialGoal
<1>9. CASE MarkOrder(w)
  <2>1. /\ q.at = "markOrder" /\ req'[w] = Idle /\ UNCHANGED <<positions, trades, crashes>>
        /\ q.order \in Orders
    BY <1>1, <1>9 DEF MarkOrder, Continue, Goto, RequestOK
  <2>2. \A o \in Orders : IsStored(o) => orders'[o].status # "unused"
    BY <1>2, <1>9, <2>1 DEF MarkOrder, IsStored, OrderRow
  <2> HIDE DEF q
  <2>3. \A p : /\ TradesOf(p)' = TradesOf(p) /\ IsBooked(p)' = IsBooked(p)
               /\ IsClosed(p)' = IsClosed(p)
    BY <2>1 DEF TradesOf, IsBooked, IsClosed
  <2>4. RowsSound' /\ TradesHaveRows'
    BY <1>1, <2>1, <2>3 DEF RowsSound, TradesHaveRows
  <2>5. Relies(Idle)'
    BY DEF Relies, Idle
  <2>6. Counts(Idle)'
    BY <1>1, <1>3, <2>1, <2>3 DEF Counts, CountOf, Busy
  <2>7. \A p \in RowIds : \A o \in positions'[p].lots \cup trades'[p].lots :
          orders'[o].status # "unused"
    BY <1>1, <1>2, <2>1, <2>2 DEF PositionRow, TradeRow
  <2> QED BY <1>3, <2>1, <2>4, <2>5, <2>6, <2>7, SerialGoal
\* The row is still closed: it gets back the shares of the trade.
<1>10. CASE Restore(w)
  <2>i. PICK i : i = q.pos
    OBVIOUS
  <2>r. PICK r : r = At(w, "deleteTrade")
    OBVIOUS
  <2>1. /\ q.at = "restore" /\ req'[w] = r /\ UNCHANGED <<orders, trades, crashes>>
        /\ i \in RowIds
    BY <1>1, <1>10, <2>i, <2>r DEF Restore, Continue, Goto, RequestOK
  <2>2. IsClosed(i) /\ q.trade \in TradesOf(i) /\ trades[q.trade].lots = q.lots
    BY <1>1, <2>i, <2>1 DEF Relies
  <2>3. positions' = [positions EXCEPT ![i].status = "open", ![i].lots = q.lots]
    BY <1>10, <2>i, <2>2 DEF Restore, IsClosed
  <2>4. /\ positions'[i].status = "open" /\ positions'[i].lots = q.lots
        /\ \A p \in RowIds \ {i} : positions'[p] = positions[p]
    BY <1>2, <2>1, <2>3 DEF PositionRow
  <2>5. r.at = "deleteTrade" /\ r.pos = i /\ r.trade = q.trade /\ r.lots = q.lots
    BY <1>1, <2>i, <2>r DEF At, Request
  <2> HIDE DEF q
  <2>6. \A p : TradesOf(p)' = TradesOf(p) /\ IsBooked(p)' = IsBooked(p)
    BY <2>1 DEF TradesOf, IsBooked
  <2>7. RowsSound'
    BY <1>1, <2>4, <2>6 DEF RowsSound, IsClosed
  <2>8. TradesHaveRows'
    BY <1>1, <1>2, <2>1, <2>4, <2>6 DEF TradesHaveRows, TradeRow
  <2>9. Relies(r)'
    BY <2>1, <2>2, <2>4, <2>5, <2>6 DEF Relies, IsOpen
  <2>10. Counts(r)'
    <3> SUFFICES ASSUME NEW p \in RowIds
                 PROVE  CountOf(p, Busy(r, p))'
      BY DEF Counts
    <3>1. CountOf(p, Busy(q, p)) /\ ~ Busy(q, p) /\ (Busy(r, p) <=> p = i)
      BY <1>1, <2>1, <2>5 DEF Counts, Busy
    <3>2. IsClosed(p)' <=> IsClosed(p) /\ p # i
      BY <2>4 DEF IsClosed
    <3> QED BY <2>1, <2>2, <2>6, <3>1, <3>2 DEF CountOf, Busy
  <2>11. \A p \in RowIds : \A o \in positions'[p].lots \cup trades'[p].lots :
           orders'[o].status # "unused"
    BY <1>1, <2>1, <2>4 DEF IsStored
  <2>12. \A o \in r.lots : orders'[o].status # "unused"
    BY <1>1, <2>1, <2>5 DEF IsStored
  <2> QED BY <2>1, <2>7, <2>8, <2>9, <2>10, <2>11, <2>12, SerialGoal
\* The row is open again, so that its trade may go.
<1>11. CASE DeleteTrade(w)
  <2> DEFINE i == q.pos
             t == q.trade
  <2>1. /\ q.at = "deleteTrade" /\ req'[w] = Idle /\ UNCHANGED <<orders, positions, crashes>>
        /\ i \in RowIds /\ t \in RowIds /\ trades' = [trades EXCEPT ![t] = NoTrade]
    BY <1>1, <1>11 DEF DeleteTrade, Continue, Goto, RequestOK
  <2>2. IsOpen(i) /\ t \in TradesOf(i)
    BY <1>1, <2>1 DEF Relies
  <2> HIDE DEF t, i
  <2>3. /\ trades'[t].status = "absent" /\ trades'[t].lots = {}
        /\ \A u \in RowIds \ {t} : trades'[u] = trades[u]
    BY <1>2, <2>1 DEF NoTrade
  <2>4. \A p : TradesOf(p)' = IF p = i THEN TradesOf(p) \ {t} ELSE TradesOf(p)
    BY <2>2, <2>3 DEF TradesOf, IsBooked
  <2>5. RowsSound'
    BY <1>1, <2>1, <2>2, <2>4 DEF RowsSound, IsClosed, IsOpen
  <2>6. TradesHaveRows'
    BY <1>1, <2>1, <2>3 DEF TradesHaveRows, IsBooked
  <2>7. Relies(Idle)'
    BY DEF Relies, Idle
  <2>8. Counts(Idle)'
    <3> SUFFICES ASSUME NEW p \in RowIds
                 PROVE  CountOf(p, Busy(Idle, p))'
      BY DEF Counts
    <3>1. CountOf(p, Busy(q, p)) /\ (Busy(q, p) <=> p = i) /\ ~ Busy(Idle, p)
      BY <1>1, <1>3, <2>1 DEF Counts, Busy, i
    <3>2. IsClosed(p)' <=> IsClosed(p)
      BY <2>1 DEF IsClosed
    <3>3. p = i => ~ IsClosed(p)
      BY <2>2 DEF IsClosed, IsOpen
    <3> HIDE DEF q
    <3>4. CASE p = i
      <4>1. /\ IsFiniteSet(TradesOf(p)) /\ Cardinality(TradesOf(p)) \in Nat
            /\ Cardinality(TradesOf(p)) <= crashes + 1 /\ Cardinality(TradesOf(p)) >= 1
        BY <3>1, <3>4 DEF CountOf
      <4>2. TradesOf(p)' = TradesOf(p) \ {t} /\ t \in TradesOf(p)
        BY <2>2, <2>4, <3>4
      <4>3. IsFiniteSet(TradesOf(p)') /\ Cardinality(TradesOf(p)') = Cardinality(TradesOf(p)) - 1
        BY <4>1, <4>2, FS_RemoveElement
      <4>4. /\ IsFiniteSet(TradesOf(p))' /\ crashes' = crashes
            /\ Cardinality(TradesOf(p))' = Cardinality(TradesOf(p)) - 1
            /\ ~ IsClosed(p)' /\ ~ Busy(Idle, p)'
        BY <2>1, <3>1, <3>2, <3>3, <3>4, <4>3 DEF Busy
      <4> QED BY <1>2, <4>1, <4>4 DEF CountOf
    <3>5. CASE p # i
      BY <2>1, <2>4, <3>1, <3>2, <3>5 DEF CountOf, Busy
    <3> QED BY <3>4, <3>5
  <2>9. \A p \in RowIds : \A o \in positions'[p].lots \cup trades'[p].lots :
          orders'[o].status # "unused"
    BY <1>1, <2>1, <2>3 DEF IsStored
  <2> HIDE DEF q
  <2> QED BY <1>3, <2>1, <2>5, <2>6, <2>7, <2>8, <2>9, SerialGoal
<1>12. CASE Wipe(w)
  <2>1. /\ q.at = "wipe" /\ req'[w] = Idle /\ UNCHANGED crashes
    BY <1>1, <1>12 DEF Wipe, Continue, Goto
  <2>2. \A p \in RowIds : /\ positions'[p] = NoPosition /\ trades'[p] = NoTrade
    BY <1>12 DEF Wipe
  <2> HIDE DEF q
  <2>3. /\ \A p \in RowIds : ~ IsClosed(p)' /\ ~ IsBooked(p)' /\ positions'[p].lots = {}
                          /\ trades'[p].lots = {} /\ ~ (positions'[p].status = "closed")
        /\ \A p : TradesOf(p)' = {}
    BY <2>2 DEF NoPosition, NoTrade, IsClosed, IsBooked, TradesOf
  <2>4. RowsSound' /\ TradesHaveRows'
    BY <2>3 DEF RowsSound, TradesHaveRows
  <2>5. Relies(Idle)'
    BY DEF Relies, Idle
  <2>6. Counts(Idle)'
    <3> SUFFICES ASSUME NEW p \in RowIds PROVE CountOf(p, Busy(Idle, p))'
      BY DEF Counts
    <3>1. /\ ~ Busy(Idle, p)' /\ ~ IsClosed(p)' /\ crashes' = crashes
          /\ TradesOf(p)' = {}
      BY <1>3, <2>1, <2>3 DEF Busy
    <3>2. IsFiniteSet(TradesOf(p)') /\ Cardinality(TradesOf(p)') = 0
      BY <3>1, FS_EmptySet
    <3>3. IsFiniteSet(TradesOf(p))' /\ Cardinality(TradesOf(p))' = 0
      BY <3>2
    <3> QED BY <1>2, <3>1, <3>3 DEF CountOf
  <2> QED BY <1>3, <2>1, <2>3, <2>4, <2>5, <2>6, SerialGoal
<1> HIDE DEF q
<1> QED BY <1>4, <1>5, <1>6, <1>7, <1>8, <1>9, <1>10, <1>11, <1>12

LEMMA SerialStep ==
  ASSUME TypeInv, NEW w, Workers = {w}, SerialInv, [Next]_vars
  PROVE  SerialInv'
<1>1. CASE UNCHANGED vars
  <2>1. \A p : /\ TradesOf(p)' = TradesOf(p) /\ IsBooked(p)' = IsBooked(p)
               /\ IsClosed(p)' = IsClosed(p) /\ IsOpen(p)' = IsOpen(p)
    BY <1>1 DEF vars, TradesOf, IsBooked, IsClosed, IsOpen
  <2>2. RowsSound' /\ TradesHaveRows' /\ LotsStored'
    BY <1>1, <2>1 DEF vars, SerialInv, RowsSound, TradesHaveRows, LotsStored, IsStored
  <2>3. \A v \in Workers : Relies(req[v])' /\ Counts(req[v])'
    BY <1>1, <2>1 DEF vars, SerialInv, Relies, Counts, CountOf, Busy
  <2> QED BY <2>2, <2>3 DEF SerialInv
<1>2. CASE Next
  BY <1>2, SerialReads, SerialWrites DEF Next
<1> QED BY <1>1, <1>2

LEMMA SerialInvariant ==
  ASSUME NEW w, Workers = {w}
  PROVE  Spec => [](TypeInv /\ SerialInv)
<1>1. TypeInv /\ SerialInv /\ [Next]_vars => (TypeInv /\ SerialInv)'
  BY TypeStep, StoredStep, SerialStep DEF TypeInv
<1> QED BY <1>1, TypeInit, SerialInit, PTL DEF Spec

\* With one request at a time a closed row is flat and has a trade that explains
\* it, whatever request died half way, through closes, reopenings and resets
\* (create_trade comes before close_position, reopen_position before delete_trade).
THEOREM ClosedRowsExplained ==
  ASSUME NEW w, Workers = {w}
  PROVE  Spec => []ClosedRowExplained
<1>1. SerialInv => ClosedRowExplained
  BY DEF SerialInv, RowsSound, ClosedRowExplained, ClosedRowHasTrade, ClosedRowIsFlat
<1> QED BY <1>1, SerialInvariant, PTL

\* With one request at a time and none under way, a closed row has one trade and
\* an open row none, and every request that died half way can have left one trade
\* too many, through any sequence of closes and reopenings (the refusal of a
\* closed row, and delete_trade after reopen_position).
THEOREM ClosesAreCountedOnce ==
  ASSUME NEW w, Workers = {w}
  PROVE  Spec => []OneTradePerClose
<1>1. TypeInv /\ SerialInv => OneTradePerClose
  <2> DEFINE closes(p) == IF IsClosed(p) THEN 1 ELSE 0
  <2> SUFFICES ASSUME TypeInv, SerialInv, AtRest, NEW p \in RowIds
               PROVE  Cardinality(TradesOf(p)) \in closes(p) .. closes(p) + crashes
    BY DEF OneTradePerClose
  <2>1. req[w] = Idle /\ crashes \in Nat
    BY DEF AtRest, TypeInv, CountersOK
  <2>2. CountOf(p, Busy(Idle, p)) /\ ~ Busy(Idle, p)
    BY <2>1 DEF SerialInv, Counts, Busy, Idle
  <2> QED BY <2>1, <2>2 DEF CountOf
<1> QED BY <1>1, SerialInvariant, PTL

\* Where the shares a row counts may be found.
LEMMA CountedWhere ==
  ASSUME NEW o
  PROVE  /\ \A p \in RowIds : o \in positions[p].lots => o \in Counted
         /\ \A t \in RowIds : /\ IsBooked(t) /\ trades[t].pos \in RowIds
                              /\ o \in trades[t].lots
                              => o \in Counted
         /\ o \in Counted =>
              \/ \E p \in RowIds : o \in positions[p].lots
              \/ \E t \in RowIds : /\ IsBooked(t) /\ trades[t].pos \in RowIds
                                   /\ o \in trades[t].lots
<1>1. \A p \in RowIds : Held(p) \subseteq Counted
  BY DEF Counted
<1>2. \A p \in RowIds : o \in positions[p].lots => o \in Held(p)
  BY DEF Held
<1>3. \A t \in RowIds : IsBooked(t) /\ o \in trades[t].lots => o \in Held(trades[t].pos)
  BY DEF Held, TradesOf
<1>4. ASSUME o \in Counted
      PROVE  \/ \E p \in RowIds : o \in positions[p].lots
             \/ \E t \in RowIds : /\ IsBooked(t) /\ trades[t].pos \in RowIds
                                  /\ o \in trades[t].lots
  <2>1. PICK p \in RowIds : o \in Held(p)
    BY <1>4 DEF Counted
  <2>2. o \in positions[p].lots \/ \E t \in TradesOf(p) : o \in trades[t].lots
    BY <2>1 DEF Held
  <2> QED BY <2>2 DEF TradesOf
<1> QED BY <1>1, <1>2, <1>3, <1>4

\* A step takes no share out of the rows and the trades unless it resets them.
LEMMA CountedStep ==
  ASSUME TypeInv, NEW w, Workers = {w}, SerialInv, [Next]_vars,
         \A o \in Orders : orders'[o].status # "deleted"
  PROVE  Counted \subseteq Counted'
<1> DEFINE q == req[w]
<1>1. /\ w \in Workers /\ RequestOK(q) /\ q \in Request
      /\ Relies(q) /\ RowsSound
      /\ positions \in [RowIds -> PositionRow] /\ trades \in [RowIds -> TradeRow]
  BY DEF TypeInv, RequestsOK, TablesOK, SerialInv
<1>2. SUFFICES ASSUME NEW o \in Counted PROVE o \in Counted'
  OBVIOUS
<1>3. /\ \A p \in RowIds : o \in positions'[p].lots => o \in Counted'
      /\ \A t \in RowIds : /\ trades'[t].status = "booked" /\ trades'[t].pos \in RowIds
                           /\ o \in trades'[t].lots
                           => o \in Counted'
  <2>1. (/\ \A p \in RowIds : o \in positions[p].lots => o \in Counted
         /\ \A t \in RowIds : /\ IsBooked(t) /\ trades[t].pos \in RowIds
                              /\ o \in trades[t].lots
                              => o \in Counted)'
    BY CountedWhere, PTL
  <2> QED BY <2>1 DEF IsBooked
<1>4. \/ \E p \in RowIds : o \in positions[p].lots
      \/ \E t \in RowIds : /\ trades[t].status = "booked" /\ trades[t].pos \in RowIds
                           /\ o \in trades[t].lots
  BY <1>2, CountedWhere DEF IsBooked
<1>5. CASE UNCHANGED <<positions, trades>>
  BY <1>3, <1>4, <1>5
<1>6. CASE InsertPosition(w)
  <2>1. PICK id \in RowIds :
          /\ IsNextId(positions, id) /\ trades' = trades
          /\ positions' = [positions EXCEPT ![id] =
               [status |-> "open", key |-> q.key, lots |-> {q.order}]]
    BY <1>6 DEF InsertPosition
  <2>2. positions[id].lots = {} /\ \A p \in RowIds \ {id} : positions'[p] = positions[p]
    BY <1>1, <2>1 DEF IsNextId, RowsSound
  <2> QED BY <1>3, <1>4, <2>1, <2>2
<1>7. CASE AggregateFill(w)
  <2>i. PICK i : i = q.pos
    OBVIOUS
  <2>1. i \in RowIds /\ IsOpen(i) /\ positions[i].lots = q.lots /\ trades' = trades
    BY <1>1, <1>7, <2>i DEF AggregateFill, Continue, Request, Relies
  <2>2. positions' = [positions EXCEPT ![i].lots = q.lots \cup {q.order}]
    BY <1>7, <2>i, <2>1 DEF AggregateFill, IsOpen
  <2> HIDE DEF q
  <2>3. \A p \in RowIds : positions[p].lots \subseteq positions'[p].lots
    BY <1>1, <2>1, <2>2 DEF PositionRow
  <2> QED BY <1>3, <1>4, <2>1, <2>3
<1>8. CASE RecordTrade(w)
  <2>1. PICK id \in RowIds :
          /\ IsNextId(trades, id) /\ positions' = positions
          /\ trades' = [trades EXCEPT ![id] =
               [status |-> "booked", pos |-> q.pos, key |-> q.key, lots |-> q.lots]]
    BY <1>8 DEF RecordTrade
  <2>2. trades[id].status = "absent" /\ \A t \in RowIds \ {id} : trades'[t] = trades[t]
    BY <1>1, <2>1 DEF IsNextId
  <2> QED BY <1>3, <1>4, <2>1, <2>2
\* What the row gives up, its trade already has.
<1>9. CASE CloseRow(w)
  <2>i. PICK i : i = q.pos
    OBVIOUS
  <2>1. i \in RowIds /\ trades' = trades /\ q.at = "closeRow"
    BY <1>1, <1>9, <2>i DEF CloseRow, Continue, RequestOK
  <2>2. PICK t \in RowIds : IsBooked(t) /\ trades[t].pos = i /\ trades[t].lots = positions[i].lots
    BY <1>1, <2>i, <2>1 DEF Relies, TradesOf
  <2>3. \A p \in RowIds \ {i} : positions'[p] = positions[p]
    BY <1>1, <1>9, <2>i DEF CloseRow
  <2> QED BY <1>3, <1>4, <2>1, <2>2, <2>3 DEF IsBooked
\* A closed row is flat.
<1>10. CASE Restore(w)
  <2>i. PICK i : i = q.pos
    OBVIOUS
  <2>1. i \in RowIds /\ trades' = trades /\ IsClosed(i)
    BY <1>1, <1>10, <2>i DEF Restore, Continue, RequestOK, Relies
  <2>2. positions[i].lots = {}
    BY <1>1, <2>1 DEF RowsSound
  <2>3. \A p \in RowIds \ {i} : positions'[p] = positions[p]
    BY <1>1, <1>10, <2>i DEF Restore
  <2> QED BY <1>3, <1>4, <2>1, <2>2, <2>3
\* What the trade gives up, its row already has.
<1>11. CASE DeleteTrade(w)
  <2>1. /\ q.trade \in RowIds /\ positions' = positions /\ q.pos \in RowIds
        /\ trades' = [trades EXCEPT ![q.trade] = NoTrade]
        /\ trades[q.trade].lots = q.lots /\ positions[q.pos].lots = q.lots
    BY <1>1, <1>11 DEF DeleteTrade, Continue, RequestOK, Relies
  <2> HIDE DEF q
  <2>2. \A t \in RowIds \ {q.trade} : trades'[t] = trades[t]
    BY <1>1, <2>1
  <2> QED BY <1>3, <1>4, <2>1, <2>2
\* A reset that deletes no order finds nothing that was ever staged.
<1>12. CASE Wipe(w)
  <2>1. \A u \in Orders : orders[u].status = "unused"
    BY <1>12 DEF Wipe, TypeInv, TablesOK, OrderRow
  <2>2. \A p \in RowIds : positions[p].lots \cup trades[p].lots \subseteq Orders
    BY <1>1 DEF PositionRow, TradeRow
  <2> QED BY <1>4, <2>1, <2>2 DEF SerialInv, LotsStored, IsStored
<1> HIDE DEF q
<1>13. CASE UNCHANGED vars
  BY <1>5, <1>13 DEF vars
<1>14. CASE Next
  <2>1. \/ UNCHANGED <<positions, trades>>
        \/ InsertPosition(w) \/ AggregateFill(w) \/ RecordTrade(w) \/ CloseRow(w)
        \/ Restore(w) \/ DeleteTrade(w) \/ Wipe(w)
    BY <1>14 DEF Next, PersistOrder, PersistFill, FindMatch, ReadPosition, PickOwnPosition,
                 RereadPosition, ReadOrder, FindOpen, MarkOrder, ReadTrade, CheckClosed,
                 ReadOrderIds, Crash, tables
  <2> QED BY <1>5, <1>6, <1>7, <1>8, <1>9, <1>10, <1>11, <1>12, <2>1
<1> QED BY <1>13, <1>14

\* With one request at a time a share that some row or trade counts is counted
\* until the sandbox is reset, whatever request died half way: the orders of the
\* two writes of a close and of a reopening leave it counted twice, never not.
THEOREM SharesStayCounted ==
  ASSUME NEW w, Workers = {w}
  PROVE  Spec => SharesNeverVanish
<1>1. TypeInv /\ SerialInv /\ [Next]_vars =>
        [(\A o \in Orders : orders'[o].status # "deleted") => Counted \subseteq Counted']_vars
  BY CountedStep
<1> QED BY <1>1, SerialInvariant, PTL DEF Spec, SharesNeverVanish
=============================================================================
