---------------------------- MODULE OptionLedger ----------------------------
(***************************************************************************)
(* The paper positions in options of one user.                             *)
(*                                                                         *)
(* A structure is opened with its order, its position and its legs in one  *)
(* transaction.  It is closed by hand, with an exit premium for each leg,  *)
(* or settled after its expiration, when each leg is worth its intrinsic   *)
(* value.  Both read the position, check that it is open, and then write;  *)
(* SQLite takes no lock for the reading.  A review of the open positions   *)
(* only reads, and shows what a close or a settlement would book.          *)
(*                                                                         *)
(* Amounts are whole numbers, so that the review's two digits and the      *)
(* ledger's ten agree.  Left out: contracts and marks that a provider      *)
(* chooses before a structure is opened (the structures here are what they *)
(* were resolved to), the order row, which nothing reads back, notes and   *)
(* warnings.                                                               *)
(***************************************************************************)
EXTENDS OptionPayoff

CONSTANTS
  Threads,     \* requests that are served at the same time
  Structures,  \* structures that are asked for: [type, legs]
  Prices,      \* prices of the underlying
  Premiums,    \* exit premiums, and marks of a leg
  Rates,       \* commissions per contract
  Days,        \* the dates that matter, as numbers
  Expirations, \* dates of expiration
  MaxPositions \* bound on the positions that are opened

ASSUME LedgerAssumption ==
  /\ \A s \in Structures :
       /\ s.type \in Types
       /\ s.legs \in Seq(Leg)
  /\ Prices \subseteq Nat \ {0}
  /\ Premiums \subseteq Nat
  /\ Rates \subseteq Nat /\ Rates # {}
  /\ Days \subseteq Int /\ Days # {}
  /\ Expirations \subseteq Days
  /\ MaxPositions \in Nat

VARIABLES
  today,      \* the date, UTC
  rate,       \* the user's commission per contract
  positions,  \* paper_option_positions and their legs, in the order of ids
  trades,     \* paper_option_trades and their legs, in the order of ids
  req         \* what a request that closes has read

vars == <<today, rate, positions, trades, req>>

Idle == [stage |-> "idle"]

\* A leg that is not closed has no exit premium.
NoExits(legs) == [i \in DOMAIN legs |-> Unknown]

Row(s, expiration) ==
  [status |-> "open", type |-> s.type, legs |-> s.legs, expiration |-> expiration,
   maxProfit |-> Analysis(s.type, s.legs).maxProfit,
   maxLoss |-> Analysis(s.type, s.legs).maxLoss,
   breakevens |-> Analysis(s.type, s.legs).breakevens,
   exits |-> NoExits(s.legs)]

(***************************************************************************)
(* What a close books.  The commission is charged per contract and leg, at *)
(* the rate of the day of the close, for the opening too.                  *)
(***************************************************************************)
LegGross(leg, exit) ==
  (IF leg.action = "sell" THEN leg.premium - exit ELSE exit - leg.premium)
    * (leg.quantity * Multiplier)

LegNet(leg, exit, r) == LegGross(leg, exit) - 2 * (leg.quantity * r)

Gross(legs, exits) == Sum([i \in DOMAIN legs |-> LegGross(legs[i], exits[i])])

\* Faulty variant: every share is charged for.
EventCommission_PerShare(legs, r) ==
  Sum([i \in DOMAIN legs |-> legs[i].quantity * Multiplier * r])

EventCommission(legs, r) == Sum([i \in DOMAIN legs |-> legs[i].quantity * r])

Trade(q) ==
  LET legs == positions[q.position].legs
      commission == EventCommission(legs, q.rate) + EventCommission(legs, q.rate)
  IN  [position |-> q.position, mode |-> q.mode, price |-> q.price, exits |-> q.exits,
       rate |-> q.rate, gross |-> Gross(legs, q.exits), commission |-> commission,
       net |-> Gross(legs, q.exits) - commission,
       legNets |-> [i \in DOMAIN legs |-> LegNet(legs[i], q.exits[i], q.rate)],
       late |-> q.late]

(***************************************************************************)
(* The requests.                                                           *)
(***************************************************************************)
\* POST /options/paper-structures/open
Open(s, expiration) ==
  /\ Len(positions) < MaxPositions
  /\ Accepted(s.type, s.legs)
  /\ positions' = Append(positions, Row(s, expiration))
  /\ UNCHANGED <<today, rate, trades, req>>

\* Faulty variant: a closed position is closed again.
Reads_Closed(t, p, mode, price, exits) ==
  /\ req[t] = Idle
  /\ req' = [req EXCEPT ![t] =
       [stage |-> "read", position |-> p, mode |-> mode, price |-> price,
        exits |-> exits, rate |-> rate, late |-> FALSE]]
  /\ UNCHANGED <<today, rate, positions, trades>>

Reads(t, p, mode, price, exits) ==
  /\ req[t] = Idle
  /\ positions[p].status = "open"
  /\ req' = [req EXCEPT ![t] =
       [stage |-> "read", position |-> p, mode |-> mode, price |-> price,
        exits |-> exits, rate |-> rate, late |-> FALSE]]
  /\ UNCHANGED <<today, rate, positions, trades>>

\* POST /options/paper-structures/{id}/close, up to the first write
ReadToClose(t, p) ==
  \E exits \in [DOMAIN positions[p].legs -> Premiums] :
    Reads(t, p, "manual_close", Unknown, exits)

IntrinsicExits(legs, price) ==
  [i \in DOMAIN legs |-> Intrinsic(legs[i].right, legs[i].strike, price)]

\* Faulty variant: the last day counts as expired.
Expired_Early(p) == positions[p].expiration <= today

Expired(p) == positions[p].expiration < today

\* POST /options/paper-structures/{id}/settle-expiration, up to the first
\* write, at a price that the user gives or that a provider marks
ReadToSettle(t, p, price) ==
  /\ Expired(p)
  /\ Reads(t, p, "expiration", price, IntrinsicExits(positions[p].legs, price))

\* Who has read the position is late from now on.
Late(t, q) ==
  [u \in Threads |->
     IF u # t /\ req[u] # Idle /\ req[u].position = q.position
     THEN [req[u] EXCEPT !.late = TRUE] ELSE req[u]]

\* Faulty variant: exit premiums that are there are kept.
Closed_KeepsFirst(q) ==
  [positions EXCEPT ![q.position].status = "closed",
                    ![q.position].exits = IF @ = NoExits(positions[q.position].legs)
                                          THEN q.exits ELSE @]

Closed(q) ==
  [positions EXCEPT ![q.position].status = "closed", ![q.position].exits = q.exits]

\* The writes of either request: no row is asked for its status again.
Commit(t) ==
  LET q == req[t] IN
  /\ q # Idle
  /\ positions' = Closed(q)
  /\ trades' = Append(trades, Trade(q))
  /\ req' = [Late(t, q) EXCEPT ![t] = Idle]
  /\ UNCHANGED <<today, rate>>

\* PATCH of the user's settings
SetCommission(r) ==
  /\ r # rate
  /\ rate' = r
  /\ UNCHANGED <<today, positions, trades, req>>

NextDay(d) ==
  /\ d > today
  /\ today' = d
  /\ UNCHANGED <<rate, positions, trades, req>>

Init ==
  /\ today \in Days
  /\ rate \in Rates
  /\ positions = <<>>
  /\ trades = <<>>
  /\ req = [t \in Threads |-> Idle]

Next ==
  \/ \E s \in Structures, e \in Expirations : Open(s, e)
  \/ \E t \in Threads, p \in DOMAIN positions : ReadToClose(t, p)
  \/ \E t \in Threads, p \in DOMAIN positions, price \in Prices : ReadToSettle(t, p, price)
  \/ \E t \in Threads : Commit(t)
  \/ \E r \in Rates : SetCommission(r)
  \/ \E d \in Days : NextDay(d)

Spec == Init /\ [][Next]_vars

(***************************************************************************)
(* GET /options/paper-structures/review: what is shown of an open position *)
(* at a mark of the underlying and at marks of the legs.  Unknown stands   *)
(* for a mark that is missing, stale, or not a provider's.  The types that *)
(* can be opened are all supported, so that a review is never unavailable. *)
(***************************************************************************)
DaysLeft(p) == positions[p].expiration - today

ExpirationStatus(days) ==
  CASE days < 0          -> "expired_unsettled"
    [] days = 0          -> "expires_today"
    [] days \in 1..7     -> "expiration_warning"
    [] OTHER             -> "active"

\* Within half a percent of the mark is at the money: the percentage is rounded
\* to two digits first, so that anything below 0.505 is.
AtTheMoney(leg, mark) == 20000 * Larger(mark - leg.strike, leg.strike - mark) < 101 * mark

InTheMoney(leg, mark) ==
  /\ ~ AtTheMoney(leg, mark)
  /\ IF leg.right = "call" THEN mark > leg.strike ELSE mark < leg.strike

Usable(mark) == mark # Unknown /\ mark > 0

\* The risk that is elevated or high.
AssignmentRisk(p, mark) ==
  /\ Usable(mark) /\ DaysLeft(p) <= 2
  /\ \E i \in DOMAIN positions[p].legs :
       LET leg == positions[p].legs[i] IN
       leg.action = "sell" /\ (InTheMoney(leg, mark) \/ AtTheMoney(leg, mark))

ExerciseRisk(p, mark) ==
  /\ Usable(mark) /\ DaysLeft(p) <= 2
  /\ \E i \in DOMAIN positions[p].legs :
       positions[p].legs[i].action = "buy" /\ InTheMoney(positions[p].legs[i], mark)

ShownLegGross(leg, mark) ==
  (mark - leg.premium) * leg.quantity * Multiplier * (IF leg.action = "buy" THEN 1 ELSE -1)

\* What the position would bring at marks of all its legs.
UnrealizedNet(legs, marks, r) ==
  Sum([i \in DOMAIN legs |->
         ShownLegGross(legs[i], marks[i]) - legs[i].quantity * r * 2])

\* What a settlement would bring.
PreviewNet(legs, mark, r) ==
  LET commission == Sum([i \in DOMAIN legs |-> legs[i].quantity * r])
  IN  Sum([i \in DOMAIN legs |->
             ShownLegGross(legs[i], Intrinsic(legs[i].right, legs[i].strike, mark))])
        - (commission + commission)

Near(net, bound, percent) == bound # Unknown /\ bound > 0 /\ 100 * net >= percent * bound

\* The first flag that is raised is the class.  The net is Unknown if a mark
\* of a leg is; restricted says that the risk calendar admits no new entry.
Flags(p, mark, net, restricted) ==
  LET days   == DaysLeft(p)
      status == ExpirationStatus(days)
      settle == status = "expired_unsettled"
      risky  == AssignmentRisk(p, mark) \/ ExerciseRisk(p, mark)
      gain   == net # Unknown /\ net > 0
      loss   == net # Unknown /\ net < 0
  IN  << <<net = Unknown /\ status \notin {"expires_today", "expired_unsettled"} /\ ~ risky,
           "mark_unavailable">>,
         <<settle /\ mark # Unknown /\ ~ Usable(mark), "expired_unsettled">>,
         <<settle /\ mark = Unknown, "settlement_blocked_missing_underlying">>,
         <<settle /\ Usable(mark), "settlement_available">>,
         <<status = "expires_today", "expiration_due">>,
         <<AssignmentRisk(p, mark), "assignment_risk_review">>,
         <<ExerciseRisk(p, mark), "exercise_risk_review">>,
         <<loss /\ Near(-net, positions[p].maxLoss, 90), "max_loss_near">>,
         <<gain /\ Near(net, positions[p].maxProfit, 90), "max_profit_near">>,
         <<gain /\ days \in 1..3, "close_candidate">>,
         <<loss /\ restricted, "adjustment_review">>,
         <<status = "expiration_warning", "expiration_warning">>,
         <<gain, "profitable_hold">>,
         <<loss, "losing_hold">>,
         <<TRUE, "hold_valid">> >>

Class(p, mark, net, restricted) ==
  LET flags == Flags(p, mark, net, restricted)
      first == CHOOSE i \in DOMAIN flags :
                 flags[i][1] /\ \A j \in 1..(i - 1) : ~ flags[j][1]
  IN  flags[first][2]

(***************************************************************************)
(* Properties                                                              *)
(***************************************************************************)
OpenPositions == {p \in DOMAIN positions : positions[p].status = "open"}

TradesOf(p) == {i \in DOMAIN trades : trades[i].position = p}

Amount == Int \cup {Unknown}

Position == [status: {"open", "closed"}, type: Types, legs: Seq(Leg), expiration: Expirations,
             maxProfit: Amount, maxLoss: Int, breakevens: Seq(Int), exits: Seq(Amount)]

Request == [stage: {"read"}, position: Nat \ {0}, mode: {"manual_close", "expiration"},
            price: Prices \cup {Unknown}, exits: Seq(Nat), rate: Rates, late: BOOLEAN]

TradeRow == [position: Nat \ {0}, mode: {"manual_close", "expiration"},
             price: Prices \cup {Unknown}, exits: Seq(Nat), rate: Rates, gross: Int,
             commission: Nat, net: Int, legNets: Seq(Int), late: BOOLEAN]

\* Rows and requests keep their types, and requests and trades refer to
\* positions that exist, with an exit premium for every leg.
TypeOK ==
  /\ today \in Days
  /\ rate \in Rates
  /\ positions \in Seq(Position)
  /\ trades \in Seq(TradeRow)
  /\ req \in [Threads -> {Idle} \cup Request]
  /\ \A t \in Threads : req[t] # Idle =>
       /\ req[t].position \in DOMAIN positions
       /\ DOMAIN req[t].exits = DOMAIN positions[req[t].position].legs
  /\ \A i \in DOMAIN trades :
       /\ trades[i].position \in DOMAIN positions
       /\ DOMAIN trades[i].exits = DOMAIN positions[trades[i].position].legs

\* A settlement never books more than the maximum profit or less than the
\* maximum loss that were stored when the structure was opened, whatever the
\* price: the bounds come from the analysis of the structure, the amount from
\* the intrinsic value of each leg.
SettledWithinRisk ==
  \A i \in DOMAIN trades :
    LET row == positions[trades[i].position] IN
    trades[i].mode = "expiration" =>
      /\ trades[i].gross >= - row.maxLoss
      /\ row.maxProfit # Unknown => trades[i].gross <= row.maxProfit

\* The stored bounds are no wider than the payoff: each is met at a strike or
\* at zero.
BoundsAreMet ==
  \A p \in DOMAIN positions :
    LET row   == positions[p]
        kinks == {0} \cup {row.legs[i].strike : i \in DOMAIN row.legs}
    IN  /\ \E price \in kinks : Payoff(row.legs, price) = - row.maxLoss
        /\ row.maxProfit # Unknown => \E price \in kinks : Payoff(row.legs, price) = row.maxProfit

\* At a break-even price that is stored the payoff is zero, if the credit of a
\* condor fits in both of its wings; with wings of unequal width it need not.
BreakevensAreEven ==
  \A p \in DOMAIN positions :
    LET row == positions[p] IN
    (row.type = "iron_condor" =>
       NetCredit(row.legs) <= PutWidth(row.legs) /\ NetCredit(row.legs) <= CallWidth(row.legs))
    => \A i \in DOMAIN row.breakevens :
         row.breakevens[i] >= 0 => Payoff(row.legs, row.breakevens[i]) = 0

\* A position is closed once, as traded: it has one trade if it is closed and
\* none while it is open, requests that read it before it was closed adding
\* more of them; and its legs have the exit premiums of the latest, the one
\* that the lists show.
ClosedAsTraded ==
  \A p \in DOMAIN positions :
    /\ Cardinality({i \in TradesOf(p) : ~ trades[i].late})
         = IF positions[p].status = "closed" THEN 1 ELSE 0
    /\ \A i \in TradesOf(p) :
         (\A j \in TradesOf(p) : j <= i) => positions[p].exits = trades[i].exits

\* What a trade books is what the review shows for the same marks and the same
\* commission, and its legs add up to it.
BookedAsShown ==
  \A i \in DOMAIN trades :
    LET tr   == trades[i]
        legs == positions[tr.position].legs
    IN  /\ tr.net = IF tr.mode = "expiration" THEN PreviewNet(legs, tr.price, tr.rate)
                                              ELSE UnrealizedNet(legs, tr.exits, tr.rate)
        /\ tr.net = Sum(tr.legNets)

\* The review offers a settlement exactly when one would be accepted, and an
\* expired position is never shown as one to hold, or as one without marks.
OfferedIsAccepted ==
  \A p \in OpenPositions, mark \in Prices \cup {0, Unknown},
     net \in {Unknown, -1, 0, 1}, restricted \in BOOLEAN :
    LET class == Class(p, mark, net, restricted) IN
    /\ class = "settlement_available" <=> Expired(p) /\ mark \in Prices
    /\ Expired(p) => class \in {"settlement_available", "expired_unsettled",
                                "settlement_blocked_missing_underlying"}

\* The analysis stored with a position says of its payoff what is true: the
\* bounds hold and are met, and it is even where it is said to be
\* (options payoff, open and settlement).
AnalysisIsExact == SettledWithinRisk /\ BoundsAreMet /\ BreakevensAreEven

\* Review and ledger agree: what is offered is accepted, and what is shown is
\* booked (the lifecycle review, close and settlement).
BookedAsOffered == BookedAsShown /\ OfferedIsAccepted
=============================================================================
