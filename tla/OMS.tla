-------------------------------- MODULE OMS --------------------------------
(***************************************************************************)
(* The in-memory order management state machine: what it promises about an *)
(* order, whoever drives it.  PaperBroker drives it from Replay, and uses  *)
(* submissions and final fills only.                                       *)
(*                                                                         *)
(* An order that was never submitted is None.  "booked" counts the shares  *)
(* of the fill records that were handed out for an order.                  *)
(***************************************************************************)
EXTENDS Integers

CONSTANTS
  Ids,    \* orders
  None,   \* an order that was never submitted
  Sizes   \* the numbers of shares that are ordered, or filled

VARIABLES orders, booked

vars == <<orders, booked>>

OrderStatus == {"submitted", "partially_filled", "filled", "cancelled"}
Order == [status : OrderStatus, shares : Int, filled : Int]

OrdersOK ==
  /\ orders \in [Ids -> Order \cup {None}]
  /\ booked \in [Ids -> Int]

Init ==
  /\ orders = [o \in Ids |-> None]
  /\ booked = [o \in Ids |-> 0]

\* No order record validates its number of shares.
Submit(o) ==
  /\ orders[o] = None
  /\ \E shares \in Sizes :
       orders' = [orders EXCEPT ![o] =
                    [status |-> "submitted", shares |-> shares, filled |-> 0]]
  /\ UNCHANGED booked

Fillable(o) ==
  /\ orders[o] # None
  /\ orders[o].status \in {"submitted", "partially_filled"}

PartialFill(o) ==
  /\ Fillable(o)
  /\ \E shares \in Sizes :
       /\ shares > 0
       /\ orders[o].filled + shares < orders[o].shares
       /\ orders' = [orders EXCEPT ![o].status = "partially_filled",
                                   ![o].filled = @ + shares]
       /\ booked' = [booked EXCEPT ![o] = @ + shares]

FinalFill(o) ==
  /\ Fillable(o)
  /\ orders[o].shares > orders[o].filled
  /\ orders' = [orders EXCEPT ![o].status = "filled",
                              ![o].filled = orders[o].shares]
  /\ booked' = [booked EXCEPT ![o] = @ + (orders[o].shares - orders[o].filled)]

\* A filled order refuses; cancelling twice is left out, it changes nothing.
Cancel(o) ==
  /\ Fillable(o)
  /\ orders' = [orders EXCEPT ![o].status = "cancelled"]
  /\ UNCHANGED booked

Next ==
  \E o \in Ids : Submit(o) \/ PartialFill(o) \/ FinalFill(o) \/ Cancel(o)

Spec == Init /\ [][Next]_vars

\* The fill records of an order add up to what the order says is filled; that
\* is all of it when the order is filled, and less while it can still be.
FillsAddUp ==
  \A o \in Ids :
    IF orders[o] = None THEN booked[o] = 0
    ELSE /\ booked[o] = orders[o].filled
         /\ orders[o].status = "filled" => orders[o].filled = orders[o].shares
         /\ orders[o].status = "submitted" => orders[o].filled = 0
         /\ orders[o].status = "partially_filled" =>
              orders[o].filled \in 1..(orders[o].shares - 1)

\* A filled or cancelled order never changes, and what is booked never shrinks.
Terminal ==
  [][\A o \in Ids :
       /\ booked'[o] >= booked[o]
       /\ orders[o] # None /\ orders[o].status \in {"filled", "cancelled"} =>
            orders'[o] = orders[o] /\ booked'[o] = booked[o]]_vars
=============================================================================
