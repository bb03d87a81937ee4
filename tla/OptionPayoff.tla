---------------------------- MODULE OptionPayoff ----------------------------
(***************************************************************************)
(* What an option structure is worth at expiration, and the bounds on it   *)
(* that are computed when the structure is looked at for the first time.   *)
(*                                                                         *)
(* Prices, strikes and premiums are whole numbers of the smallest amount.  *)
(* The program rounds to ten digits, and treats what would not be finite   *)
(* as an error.  All legs of a structure share one multiplier, which is    *)
(* the constant Multiplier; labels and the table of payoffs at a grid of   *)
(* prices, which is only displayed, are left out.                          *)
(***************************************************************************)
EXTENDS Integers, Sequences, FiniteSets

CONSTANTS
  Multiplier,  \* shares of one contract
  Unknown      \* None: no bound, no mark

ASSUME PayoffAssumption ==
  /\ Multiplier \in Nat \ {0}
  /\ Unknown \notin Int

Types == {"long_call", "long_put", "vertical_debit_spread", "iron_condor"}

Leg == [action: {"buy", "sell"}, right: {"call", "put"},
        strike: Nat \ {0}, premium: Nat, quantity: Nat \ {0}]

NonNegative(x) == IF x >= 0 THEN x ELSE 0

Larger(x, y) == IF x >= y THEN x ELSE y

Intrinsic(right, strike, price) ==
  NonNegative(IF right = "call" THEN price - strike ELSE strike - price)

\* What the buyer gains, the seller loses.
Signed(action, amount) == IF action = "sell" THEN -amount ELSE amount

LegPayoff(leg, price) ==
  Signed(leg.action, Intrinsic(leg.right, leg.strike, price) - leg.premium)
    * (leg.quantity * Multiplier)

\* The sum over the legs; a structure that is accepted has at most four.
At(amounts, i) == IF i \in DOMAIN amounts THEN amounts[i] ELSE 0

Sum(amounts) == At(amounts, 1) + At(amounts, 2) + At(amounts, 3) + At(amounts, 4)

Payoff(legs, price) == Sum([i \in DOMAIN legs |-> LegPayoff(legs[i], price)])

(***************************************************************************)
(* The legs of a structure, found by what they do.                         *)
(***************************************************************************)
Matching(legs, action, right) ==
  {i \in DOMAIN legs : legs[i].action = action /\ legs[i].right = right}

IsOnly(legs, action, right, i) == Matching(legs, action, right) = {i}

Only(legs, action, right) ==
  legs[CHOOSE i \in DOMAIN legs : IsOnly(legs, action, right, i)]

SameQuantity(legs) == \A i, j \in DOMAIN legs : legs[i].quantity = legs[j].quantity

Size(legs) == legs[1].quantity * Multiplier

Result(debit, credit, profit, loss, evens) ==
  [debit |-> debit, credit |-> credit, maxProfit |-> profit, maxLoss |-> loss,
   breakevens |-> evens]

(***************************************************************************)
(* One long option.                                                        *)
(***************************************************************************)
LongRight(type) == IF type = "long_call" THEN "call" ELSE "put"

LongAccepted(type, legs) ==
  /\ Len(legs) = 1
  /\ legs[1].action = "buy"
  /\ legs[1].right = LongRight(type)

LongAnalysis(type, legs) ==
  LET leg == legs[1] IN
  IF type = "long_call"
  THEN Result(leg.premium, Unknown, Unknown, leg.premium * Size(legs),
              <<leg.strike + leg.premium>>)
  ELSE Result(leg.premium, Unknown, (leg.strike - leg.premium) * Size(legs),
              leg.premium * Size(legs), <<leg.strike - leg.premium>>)

(***************************************************************************)
(* A vertical debit spread: one leg is bought, a farther one is sold.      *)
(***************************************************************************)
Width(long, short) ==
  IF long.right = "call" THEN short.strike - long.strike ELSE long.strike - short.strike

VerticalOf(long, short) ==
  /\ Width(long, short) > 0
  /\ long.premium - short.premium > 0
  /\ long.premium - short.premium <= Width(long, short)

IsVertical(legs, right) ==
  /\ \E i, j \in 1..2 : IsOnly(legs, "buy", right, i) /\ IsOnly(legs, "sell", right, j)
  /\ VerticalOf(Only(legs, "buy", right), Only(legs, "sell", right))

VerticalAccepted(legs) ==
  /\ Len(legs) = 2
  /\ SameQuantity(legs)
  /\ IsVertical(legs, "call") \/ IsVertical(legs, "put")

\* Faulty variant: the sides are swapped.
VerticalEven_Swapped(long, debit) ==
  IF long.right = "call" THEN long.strike - debit ELSE long.strike + debit

VerticalEven(long, debit) ==
  IF long.right = "call" THEN long.strike + debit ELSE long.strike - debit

VerticalAnalysis(legs) ==
  LET long  == Only(legs, "buy", legs[1].right)
      short == Only(legs, "sell", legs[1].right)
      debit == long.premium - short.premium
  IN  Result(debit, Unknown,
             (Width(long, short) - debit) * Size(legs),
             debit * Size(legs),
             <<VerticalEven(long, debit)>>)

(***************************************************************************)
(* An iron condor: a put and a call are sold, and a farther put and a      *)
(* farther call are bought.                                                *)
(***************************************************************************)
LongPut(legs)   == Only(legs, "buy", "put")
ShortPut(legs)  == Only(legs, "sell", "put")
ShortCall(legs) == Only(legs, "sell", "call")
LongCall(legs)  == Only(legs, "buy", "call")

PutWidth(legs)  == ShortPut(legs).strike - LongPut(legs).strike
CallWidth(legs) == LongCall(legs).strike - ShortCall(legs).strike

NetCredit(legs) ==
  ShortPut(legs).premium + ShortCall(legs).premium
    - LongPut(legs).premium - LongCall(legs).premium

\* Faulty variant: both wings can be lost.
WidestWing_Both(legs) == PutWidth(legs) + CallWidth(legs)

WidestWing(legs) == Larger(PutWidth(legs), CallWidth(legs))

CondorAccepted(legs) ==
  /\ Len(legs) = 4
  /\ SameQuantity(legs)
  /\ \A action \in {"buy", "sell"}, right \in {"call", "put"} :
       \E i \in 1..4 : IsOnly(legs, action, right, i)
  /\ LongPut(legs).strike < ShortPut(legs).strike
  /\ ShortPut(legs).strike < ShortCall(legs).strike
  /\ ShortCall(legs).strike < LongCall(legs).strike
  /\ NetCredit(legs) > 0
  /\ NetCredit(legs) < WidestWing(legs)

\* Faulty variant: the narrower wing bounds the loss.
CondorAnalysis_Narrowest(legs) ==
  LET wing == PutWidth(legs) + CallWidth(legs) - WidestWing(legs) IN
  Result(Unknown, NetCredit(legs),
         NetCredit(legs) * Size(legs),
         (wing - NetCredit(legs)) * Size(legs),
         <<ShortPut(legs).strike - NetCredit(legs), ShortCall(legs).strike + NetCredit(legs)>>)

CondorAnalysis(legs) ==
  Result(Unknown, NetCredit(legs),
         NetCredit(legs) * Size(legs),
         (WidestWing(legs) - NetCredit(legs)) * Size(legs),
         <<ShortPut(legs).strike - NetCredit(legs), ShortCall(legs).strike + NetCredit(legs)>>)

(***************************************************************************)
(* Whether a structure can be opened, and its bounds.                      *)
(***************************************************************************)
Accepted(type, legs) ==
  CASE type \in {"long_call", "long_put"}  -> LongAccepted(type, legs)
    [] type = "vertical_debit_spread"      -> VerticalAccepted(legs)
    [] type = "iron_condor"                -> CondorAccepted(legs)

Analysis(type, legs) ==
  CASE type \in {"long_call", "long_put"}  -> LongAnalysis(type, legs)
    [] type = "vertical_debit_spread"      -> VerticalAnalysis(legs)
    [] type = "iron_condor"                -> CondorAnalysis(legs)
=============================================================================
