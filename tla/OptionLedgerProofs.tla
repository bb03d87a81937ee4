------------------------- MODULE OptionLedgerProofs -------------------------
(***************************************************************************)
(* Theorems about OptionPayoff and OptionLedger, for any strikes,          *)
(* premiums, quantities, prices and commissions, any multiplier, and any   *)
(* number of threads and positions.                                        *)
(***************************************************************************)
EXTENDS OptionLedger, FiniteSetTheorems, TLAPS

(***************************************************************************)
(* Sums over the legs of a structure                                       *)
(***************************************************************************)

LEMMA SumTyped ==
  ASSUME NEW n \in Nat, NEW a \in [1..n -> Int]
  PROVE  Sum(a) \in Int
<1>1. \A i \in Nat : At(a, i) \in Int
  BY DEF At
<1> QED BY <1>1 DEF Sum

LEMMA SumOne == ASSUME NEW a \in [1..1 -> Int] PROVE Sum(a) = a[1]
<1>1. DOMAIN a = 1..1 /\ 1 \in 1..1 /\ 2 \notin 1..1 /\ 3 \notin 1..1 /\ 4 \notin 1..1
  OBVIOUS
<1>2. a[1] \in Int
  OBVIOUS
<1> QED BY <1>1, <1>2 DEF Sum, At

\* The order of the legs does not matter.
LEMMA SumTwo ==
  ASSUME NEW a \in [1..2 -> Int], NEW i \in 1..2, NEW j \in 1..2, i # j
  PROVE  Sum(a) = a[i] + a[j]
<1>1. /\ DOMAIN a = 1..2 /\ 1 \in 1..2 /\ 2 \in 1..2 /\ 3 \notin 1..2 /\ 4 \notin 1..2
      /\ a[1] \in Int /\ a[2] \in Int
  OBVIOUS
<1>2. Sum(a) = a[1] + a[2]
  BY <1>1 DEF Sum, At
<1>3. (i = 1 /\ j = 2) \/ (i = 2 /\ j = 1)
  OBVIOUS
<1> QED BY <1>1, <1>2, <1>3

LEMMA SumFour ==
  ASSUME NEW a \in [1..4 -> Int],
         NEW i \in 1..4, NEW j \in 1..4, NEW k \in 1..4, NEW l \in 1..4,
         i # j, i # k, i # l, j # k, j # l, k # l
  PROVE  Sum(a) = a[i] + a[j] + a[k] + a[l]
<1>1. PICK x1 \in Int, x2 \in Int, x3 \in Int, x4 \in Int :
        x1 = a[1] /\ x2 = a[2] /\ x3 = a[3] /\ x4 = a[4]
  <2>1. a[1] \in Int /\ a[2] \in Int /\ a[3] \in Int /\ a[4] \in Int
    OBVIOUS
  <2> QED BY <2>1, Zenon
<1>2. Sum(a) = x1 + x2 + x3 + x4
  <2>1. DOMAIN a = 1..4 /\ 1 \in 1..4 /\ 2 \in 1..4 /\ 3 \in 1..4 /\ 4 \in 1..4
    OBVIOUS
  <2> QED BY <1>1, <2>1 DEF Sum, At
<1> DEFINE V(m) == IF m = 1 THEN x1 ELSE IF m = 2 THEN x2 ELSE IF m = 3 THEN x3 ELSE x4
<1>3. \A m \in 1..4 : a[m] = V(m) /\ V(m) \in Int
  BY <1>1
<1>4. V(i) + V(j) + V(k) + V(l) = x1 + x2 + x3 + x4
  <2>1. \/ i = 1 \/ i = 2 \/ i = 3 \/ i = 4
    OBVIOUS
  <2> QED BY <1>1, <2>1, Z3
<1> QED BY <1>2, <1>3, <1>4

LEMMA SumMinus ==
  ASSUME NEW n \in Nat, NEW a \in [1..n -> Int], NEW b \in [1..n -> Int]
  PROVE  Sum([i \in 1..n |-> a[i] - b[i]]) = Sum(a) - Sum(b)
<1> DEFINE c == [i \in 1..n |-> a[i] - b[i]]
<1>1. ASSUME NEW i \in Nat
      PROVE  At(c, i) = At(a, i) - At(b, i) /\ At(a, i) \in Int /\ At(b, i) \in Int
  <2>1. CASE i \in 1..n
    <3>1. c[i] = a[i] - b[i] /\ a[i] \in Int /\ b[i] \in Int
      BY <2>1
    <3> QED BY <2>1, <3>1 DEF At
  <2>2. CASE i \notin 1..n
    BY <2>2 DEF At
  <2> QED BY <2>1, <2>2
<1> HIDE DEF c
<1>2. Sum(c) = Sum(a) - Sum(b)
  <2>1. /\ At(c, 1) = At(a, 1) - At(b, 1) /\ At(a, 1) \in Int /\ At(b, 1) \in Int
        /\ At(c, 2) = At(a, 2) - At(b, 2) /\ At(a, 2) \in Int /\ At(b, 2) \in Int
        /\ At(c, 3) = At(a, 3) - At(b, 3) /\ At(a, 3) \in Int /\ At(b, 3) \in Int
        /\ At(c, 4) = At(a, 4) - At(b, 4) /\ At(a, 4) \in Int /\ At(b, 4) \in Int
    BY <1>1
  <2> QED BY <2>1, SMTT(30) DEF Sum
<1> QED BY <1>2 DEF c

(***************************************************************************)
(* The payoff of a leg, per share                                          *)
(***************************************************************************)

LEMMA IntrinsicValue ==
  ASSUME NEW strike \in Nat, NEW price \in Nat
  PROVE  /\ \A right \in {"call", "put"} : Intrinsic(right, strike, price) \in Nat
         /\ price <= strike => /\ Intrinsic("call", strike, price) = 0
                               /\ Intrinsic("put", strike, price) = strike - price
         /\ price >= strike => /\ Intrinsic("call", strike, price) = price - strike
                               /\ Intrinsic("put", strike, price) = 0
  BY DEF Intrinsic, NonNegative

\* What a leg pays for each share of its contracts.
PerShare(leg, price) == Signed(leg.action, Intrinsic(leg.right, leg.strike, price) - leg.premium)

LEMMA LegTyped ==
  ASSUME NEW leg \in Leg, NEW price \in Nat
  PROVE  /\ leg.action \in {"buy", "sell"} /\ leg.right \in {"call", "put"}
         /\ leg.strike \in Nat \ {0} /\ leg.premium \in Nat /\ leg.quantity \in Nat \ {0}
         /\ PerShare(leg, price) \in Int
         /\ leg.quantity * Multiplier \in Nat \ {0}
         /\ LegPayoff(leg, price) = PerShare(leg, price) * (leg.quantity * Multiplier)
         /\ LegPayoff(leg, price) \in Int
<1>1. /\ leg.action \in {"buy", "sell"} /\ leg.right \in {"call", "put"}
      /\ leg.strike \in Nat \ {0} /\ leg.premium \in Nat /\ leg.quantity \in Nat \ {0}
  BY DEF Leg
<1>2. Intrinsic(leg.right, leg.strike, price) \in Nat
  BY <1>1, IntrinsicValue
<1>3. PerShare(leg, price) \in Int
  BY <1>1, <1>2 DEF PerShare, Signed
<1>4. leg.quantity * Multiplier \in Nat \ {0}
  BY <1>1, PayoffAssumption, Z3
<1>5. LegPayoff(leg, price) = PerShare(leg, price) * (leg.quantity * Multiplier)
  BY DEF LegPayoff, PerShare
<1> QED BY <1>1, <1>3, <1>4, <1>5

LEMMA PayoffTyped ==
  ASSUME NEW legs \in Seq(Leg), NEW price \in Nat
  PROVE  /\ DOMAIN legs = 1..Len(legs) /\ Len(legs) \in Nat
         /\ [i \in DOMAIN legs |-> LegPayoff(legs[i], price)] \in [1..Len(legs) -> Int]
         /\ Payoff(legs, price) \in Int
<1>1. DOMAIN legs = 1..Len(legs) /\ Len(legs) \in Nat /\ \A i \in 1..Len(legs) : legs[i] \in Leg
  OBVIOUS
<1>2. \A i \in 1..Len(legs) : LegPayoff(legs[i], price) \in Int
  BY <1>1, LegTyped
<1>3. [i \in DOMAIN legs |-> LegPayoff(legs[i], price)] \in [1..Len(legs) -> Int]
  BY <1>1, <1>2
<1> QED BY <1>1, <1>3, SumTyped DEF Payoff

LEMMA Scaled ==
  ASSUME NEW size \in Nat
  PROVE  /\ \A x, y \in Int : x <= y => x * size <= y * size
         /\ \A x \in Int : (-x) * size = -(x * size)
         /\ \A x, y \in Int : (x * size) + (y * size) = (x + y) * size
         /\ 0 * size = 0
<1>1. ASSUME NEW x \in Int, NEW y \in Int
      PROVE  /\ x <= y => x * size <= y * size
             /\ (-x) * size = -(x * size)
             /\ (x * size) + (y * size) = (x + y) * size
  BY Z3
<1> QED BY <1>1

\* Legs of one size: the payoff is that of one share of each, times the size.
LEMMA PayoffOfOne ==
  ASSUME NEW legs \in Seq(Leg), Len(legs) = 1, NEW price \in Nat
  PROVE  /\ Payoff(legs, price) = PerShare(legs[1], price) * Size(legs)
         /\ Size(legs) \in Nat
<1>1. 1 \in 1..1 /\ legs[1] \in Leg
  OBVIOUS
<1> DEFINE a == [i \in DOMAIN legs |-> LegPayoff(legs[i], price)]
<1>2. a \in [1..1 -> Int] /\ a[1] = LegPayoff(legs[1], price)
  BY <1>1, PayoffTyped
<1> HIDE DEF a
<1>3. Sum(a) = a[1]
  BY <1>2, SumOne
<1> QED BY <1>1, <1>2, <1>3, LegTyped DEF Payoff, Size, a

LEMMA LegOfSize ==
  ASSUME NEW legs \in Seq(Leg), Len(legs) # 0, SameQuantity(legs), NEW price \in Nat,
         NEW m \in DOMAIN legs
  PROVE  /\ LegPayoff(legs[m], price) = PerShare(legs[m], price) * Size(legs)
         /\ PerShare(legs[m], price) \in Int /\ Size(legs) \in Nat
<1>1. DOMAIN legs = 1..Len(legs) /\ Len(legs) \in Nat /\ 1 \in 1..Len(legs)
  OBVIOUS
<1>2. legs[m] \in Leg /\ legs[1] \in Leg
  BY <1>1
<1>3. legs[m].quantity = legs[1].quantity
  BY <1>1 DEF SameQuantity
<1>4. legs[m].quantity * Multiplier = Size(legs)
  BY <1>3 DEF Size
<1>5. /\ PerShare(legs[m], price) \in Int /\ legs[m].quantity * Multiplier \in Nat
      /\ LegPayoff(legs[m], price) = PerShare(legs[m], price) * (legs[m].quantity * Multiplier)
  BY <1>2, LegTyped
<1> QED BY <1>4, <1>5

LEMMA PayoffOfTwo ==
  ASSUME NEW legs \in Seq(Leg), Len(legs) = 2, SameQuantity(legs), NEW price \in Nat,
         NEW i \in 1..2, NEW j \in 1..2, i # j
  PROVE  /\ Payoff(legs, price) = (PerShare(legs[i], price) + PerShare(legs[j], price)) * Size(legs)
         /\ Size(legs) \in Nat
<1>1. DOMAIN legs = 1..2
  OBVIOUS
<1>2. Size(legs) \in Nat
  BY <1>1, LegOfSize
<1> DEFINE a == [k \in DOMAIN legs |-> LegPayoff(legs[k], price)]
<1>3. a \in [1..2 -> Int] /\ a[i] = LegPayoff(legs[i], price) /\ a[j] = LegPayoff(legs[j], price)
  BY <1>1, PayoffTyped
<1> HIDE DEF a
<1>4. Sum(a) = a[i] + a[j]
  BY <1>3, SumTwo
<1>5. /\ a[i] = PerShare(legs[i], price) * Size(legs) /\ PerShare(legs[i], price) \in Int
      /\ a[j] = PerShare(legs[j], price) * Size(legs) /\ PerShare(legs[j], price) \in Int
  <2>1. \A m \in DOMAIN legs : /\ LegPayoff(legs[m], price) = PerShare(legs[m], price) * Size(legs)
                               /\ PerShare(legs[m], price) \in Int
    <3>1. Len(legs) # 0
      OBVIOUS
    <3> QED BY <3>1, LegOfSize, Zenon
  <2> QED BY <1>1, <1>3, <2>1
<1>6. Sum(a) = (PerShare(legs[i], price) + PerShare(legs[j], price)) * Size(legs)
  BY <1>2, <1>4, <1>5, Scaled
<1> QED BY <1>2, <1>6 DEF Payoff, a

LEMMA PayoffOfFour ==
  ASSUME NEW legs \in Seq(Leg), Len(legs) = 4, SameQuantity(legs), NEW price \in Nat,
         NEW i \in 1..4, NEW j \in 1..4, NEW k \in 1..4, NEW l \in 1..4,
         i # j, i # k, i # l, j # k, j # l, k # l
  PROVE  /\ Payoff(legs, price) =
              (((PerShare(legs[i], price) + PerShare(legs[j], price))
                 + PerShare(legs[k], price)) + PerShare(legs[l], price)) * Size(legs)
         /\ Size(legs) \in Nat
<1>1. DOMAIN legs = 1..4
  OBVIOUS
<1>2. Size(legs) \in Nat
  BY <1>1, LegOfSize
<1> DEFINE a == [m \in DOMAIN legs |-> LegPayoff(legs[m], price)]
<1>3. a \in [1..4 -> Int] /\ \A m \in 1..4 : a[m] = LegPayoff(legs[m], price)
  BY <1>1, PayoffTyped
<1> HIDE DEF a
<1>4. Sum(a) = a[i] + a[j] + a[k] + a[l]
  BY <1>3, SumFour
<1>5. \A m \in 1..4 : /\ a[m] = PerShare(legs[m], price) * Size(legs)
                      /\ PerShare(legs[m], price) \in Int
  <2>1. \A m \in DOMAIN legs : /\ LegPayoff(legs[m], price) = PerShare(legs[m], price) * Size(legs)
                               /\ PerShare(legs[m], price) \in Int
    <3>1. Len(legs) # 0
      OBVIOUS
    <3> QED BY <3>1, LegOfSize, Zenon
  <2> QED BY <1>1, <1>3, <2>1
<1>6. PICK p \in Int, q \in Int, r \in Int, s \in Int :
        /\ p = PerShare(legs[i], price) /\ q = PerShare(legs[j], price)
        /\ r = PerShare(legs[k], price) /\ s = PerShare(legs[l], price)
  <2>1. /\ PerShare(legs[i], price) \in Int /\ PerShare(legs[j], price) \in Int
        /\ PerShare(legs[k], price) \in Int /\ PerShare(legs[l], price) \in Int
    BY <1>5
  <2> QED BY <2>1, Zenon
<1>7. Sum(a) = (((p * Size(legs)) + (q * Size(legs))) + (r * Size(legs))) + (s * Size(legs))
  BY <1>4, <1>5, <1>6
<1>8. Sum(a) = (((p + q) + r) + s) * Size(legs)
  BY <1>2, <1>7, Scaled
<1> QED BY <1>2, <1>6, <1>8 DEF Payoff, a

(***************************************************************************)
(* The analysis of a structure that is accepted                            *)
(***************************************************************************)

Kinks(legs) == {0} \cup {legs[i].strike : i \in DOMAIN legs}

\* The bounds hold at every price and are met, and the payoff is zero where it is
\* said to be.
Exact(type, legs, a) ==
  /\ \A price \in Nat : /\ Payoff(legs, price) >= - a.maxLoss
                        /\ a.maxProfit # Unknown => Payoff(legs, price) <= a.maxProfit
  /\ \E price \in Kinks(legs) : Payoff(legs, price) = - a.maxLoss
  /\ a.maxProfit # Unknown => \E price \in Kinks(legs) : Payoff(legs, price) = a.maxProfit
  /\ (type = "iron_condor" =>
        NetCredit(legs) <= PutWidth(legs) /\ NetCredit(legs) <= CallWidth(legs))
     => \A i \in DOMAIN a.breakevens :
          a.breakevens[i] >= 0 => Payoff(legs, a.breakevens[i]) = 0
  /\ a.maxLoss \in Int /\ a.maxProfit \in Int \cup {Unknown} /\ a.breakevens \in Seq(Int)

\* A payoff of so much a share, for amounts that are the payoffs of such shares.
LEMMA PerShareExact ==
  ASSUME NEW type, NEW legs \in Seq(Leg), NEW a, NEW size \in Nat,
         NEW unit, NEW loss \in Int, NEW profit \in Int,
         \A price \in Nat : /\ Payoff(legs, price) = unit[price] * size
                            /\ unit[price] \in Int /\ unit[price] >= - loss,
         a.maxLoss = loss * size, a.maxProfit = profit * size \/ a.maxProfit = Unknown,
         a.maxProfit # Unknown => \A price \in Nat : unit[price] <= profit,
         \E price \in Kinks(legs) : unit[price] = - loss,
         a.maxProfit # Unknown => \E price \in Kinks(legs) : unit[price] = profit,
         (type = "iron_condor" =>
            NetCredit(legs) <= PutWidth(legs) /\ NetCredit(legs) <= CallWidth(legs))
         => \A i \in DOMAIN a.breakevens :
              a.breakevens[i] >= 0 => unit[a.breakevens[i]] = 0,
         a.breakevens \in Seq(Int)
  PROVE  Exact(type, legs, a)
<1>1. \A price \in Kinks(legs) : price \in Nat
  <2>1. \A i \in DOMAIN legs : legs[i] \in Leg
    OBVIOUS
  <2>2. \A i \in DOMAIN legs : legs[i].strike \in Nat
    BY <2>1 DEF Leg
  <2> QED BY <2>2 DEF Kinks
<1>2. (- loss) * size = - a.maxLoss /\ a.maxLoss \in Int /\ profit * size \in Int
  BY Scaled, Z3
<1>3. ASSUME NEW price \in Nat
      PROVE  /\ Payoff(legs, price) >= - a.maxLoss
             /\ a.maxProfit # Unknown => Payoff(legs, price) <= a.maxProfit
  <2>1. PICK u \in Int : u = unit[price]
    OBVIOUS
  <2>2. (- loss) * size <= u * size /\ u * size \in Int
    BY <2>1, Scaled, Z3
  <2>3. u <= profit => u * size <= profit * size
    BY <2>1, Scaled
  <2> QED BY <1>2, <2>1, <2>2, <2>3
<1>4. \E price \in Kinks(legs) : Payoff(legs, price) = - a.maxLoss
  BY <1>1, <1>2
<1>5. a.maxProfit # Unknown => \E price \in Kinks(legs) : Payoff(legs, price) = a.maxProfit
  BY <1>1
<1>6. ASSUME NEW i \in DOMAIN a.breakevens, a.breakevens[i] >= 0, unit[a.breakevens[i]] = 0
      PROVE  Payoff(legs, a.breakevens[i]) = 0
  <2>1. a.breakevens[i] \in Nat
    BY <1>6
  <2> QED BY <1>6, <2>1, Scaled
<1> QED BY <1>2, <1>3, <1>4, <1>5, <1>6 DEF Exact

LEMMA LongExact ==
  ASSUME NEW type \in {"long_call", "long_put"}, NEW legs \in Seq(Leg), LongAccepted(type, legs)
  PROVE  Exact(type, legs, LongAnalysis(type, legs))
<1> DEFINE a == LongAnalysis(type, legs)
           unit == [price \in Nat |-> PerShare(legs[1], price)]
<1>1. /\ Len(legs) = 1 /\ legs[1] \in Leg /\ legs[1].action = "buy"
      /\ legs[1].right = LongRight(type) /\ DOMAIN legs = 1..1
  BY DEF LongAccepted
<1>2. PICK s \in Nat \ {0}, p \in Nat, size \in Nat :
        s = legs[1].strike /\ p = legs[1].premium /\ size = Size(legs)
  <2>1. Size(legs) \in Nat
    BY <1>1, PayoffOfOne
  <2>2. legs[1].strike \in Nat \ {0} /\ legs[1].premium \in Nat
    BY <1>1 DEF Leg
  <2> QED BY <2>1, <2>2, Zenon
<1>3. s \in Kinks(legs) /\ 0 \in Kinks(legs)
  BY <1>1, <1>2 DEF Kinks
<1>4. \A price \in Nat : /\ unit[price] = Intrinsic(LongRight(type), s, price) - p
                         /\ Payoff(legs, price) = unit[price] * size
  BY <1>1, <1>2, PayoffOfOne DEF PerShare, Signed
<1> HIDE DEF unit
<1>5. CASE type = "long_call"
  <2>1. /\ a.maxLoss = p * size /\ a.maxProfit = Unknown /\ a.breakevens = <<s + p>>
    BY <1>2, <1>5 DEF LongAnalysis, Result
  <2>2. \A price \in Nat : unit[price] = NonNegative(price - s) - p
    BY <1>4, <1>5 DEF LongRight, Intrinsic
  <2>3. \A price \in Nat : unit[price] \in Int /\ unit[price] >= - p
    BY <2>2 DEF NonNegative
  <2>6. unit[0] = - p /\ unit[s + p] = 0
    BY <2>2 DEF NonNegative
  <2>4. a.breakevens \in Seq(Int) /\ \A i \in DOMAIN a.breakevens : a.breakevens[i] = s + p
    BY <2>1
  <2> HIDE DEF a
  <2>5. Exact(type, legs, a)
    <3>1. p \in Int /\ 0 \in Int
      OBVIOUS
    <3>2. \A i \in DOMAIN a.breakevens : a.breakevens[i] >= 0 => unit[a.breakevens[i]] = 0
      BY <2>4, <2>6
    <3> QED BY <1>3, <1>4, <2>1, <2>3, <2>4, <2>6, <3>1, <3>2, PerShareExact
  <2> QED BY <2>5 DEF a
<1>6. CASE type = "long_put"
  <2>1. /\ a.maxLoss = p * size /\ a.maxProfit = (s - p) * size /\ a.breakevens = <<s - p>>
    BY <1>2, <1>6 DEF LongAnalysis, Result
  <2>2. \A price \in Nat : unit[price] = NonNegative(s - price) - p
    BY <1>4, <1>6 DEF LongRight, Intrinsic
  <2>3. \A price \in Nat : unit[price] \in Int /\ unit[price] >= - p /\ unit[price] <= s - p
    BY <2>2 DEF NonNegative
  <2>6. unit[0] = s - p /\ unit[s] = - p /\ (s - p >= 0 => unit[s - p] = 0)
    BY <2>2 DEF NonNegative
  <2>4. a.breakevens \in Seq(Int) /\ \A i \in DOMAIN a.breakevens : a.breakevens[i] = s - p
    BY <2>1
  <2> HIDE DEF a
  <2>5. Exact(type, legs, a)
    <3>1. p \in Int /\ s - p \in Int
      OBVIOUS
    <3>2. \A i \in DOMAIN a.breakevens : a.breakevens[i] >= 0 => unit[a.breakevens[i]] = 0
      BY <2>4, <2>6
    <3> QED BY <1>3, <1>4, <2>1, <2>3, <2>4, <2>6, <3>1, <3>2, PerShareExact
  <2> QED BY <2>5 DEF a
<1> QED BY <1>5, <1>6

\* The leg that does something, if one leg does it.
LEMMA OnlyLeg ==
  ASSUME NEW legs \in Seq(Leg), NEW action, NEW right,
         NEW i \in DOMAIN legs, IsOnly(legs, action, right, i)
  PROVE  /\ Only(legs, action, right) = legs[i] /\ legs[i] \in Leg
         /\ legs[i].action = action /\ legs[i].right = right
<1>1. \A j \in DOMAIN legs : IsOnly(legs, action, right, j) => j = i
  BY DEF IsOnly
<1>2. (CHOOSE j \in DOMAIN legs : IsOnly(legs, action, right, j)) = i
  BY <1>1
<1>3. i \in Matching(legs, action, right)
  BY DEF IsOnly
<1>4. Only(legs, action, right) = legs[i]
  BY <1>2 DEF Only
<1>6. legs[i] \in Leg
  OBVIOUS
<1>5. legs[i].action = action /\ legs[i].right = right
  BY <1>3 DEF Matching
<1> QED BY <1>4, <1>5, <1>6

LEMMA VerticalExact ==
  ASSUME NEW legs \in Seq(Leg), VerticalAccepted(legs)
  PROVE  Exact("vertical_debit_spread", legs, VerticalAnalysis(legs))
<1>1. Len(legs) = 2 /\ SameQuantity(legs) /\ DOMAIN legs = 1..2
  BY DEF VerticalAccepted
<1>2. PICK right \in {"call", "put"} : IsVertical(legs, right)
  BY DEF VerticalAccepted
<1>3. PICK i \in 1..2, j \in 1..2 : IsOnly(legs, "buy", right, i) /\ IsOnly(legs, "sell", right, j)
  BY <1>2 DEF IsVertical
<1>4. /\ Only(legs, "buy", right) = legs[i] /\ Only(legs, "sell", right) = legs[j]
      /\ legs[i] \in Leg /\ legs[i].action = "buy" /\ legs[i].right = right
      /\ legs[j] \in Leg /\ legs[j].action = "sell" /\ legs[j].right = right
      /\ i # j /\ legs[1].right = right
  <2>1. /\ Only(legs, "buy", right) = legs[i] /\ Only(legs, "sell", right) = legs[j]
        /\ legs[i] \in Leg /\ legs[i].action = "buy" /\ legs[i].right = right
        /\ legs[j] \in Leg /\ legs[j].action = "sell" /\ legs[j].right = right
    BY <1>1, <1>3, OnlyLeg
  <2>2. i # j
    BY <2>1
  <2>3. i = 1 \/ j = 1
    BY <2>2
  <2> QED BY <2>1, <2>2, <2>3
<1>5. PICK s \in Nat \ {0}, t \in Nat \ {0}, p \in Nat, q \in Nat, size \in Nat :
        /\ s = legs[i].strike /\ t = legs[j].strike
        /\ p = legs[i].premium /\ q = legs[j].premium /\ size = Size(legs)
  <2>1. Size(legs) \in Nat
    <3>1. 0 \in Nat
      OBVIOUS
    <3> QED BY <1>1, <1>4, <3>1, PayoffOfTwo
  <2>2. /\ legs[i].strike \in Nat \ {0} /\ legs[j].strike \in Nat \ {0}
        /\ legs[i].premium \in Nat /\ legs[j].premium \in Nat
    BY <1>4 DEF Leg
  <2> QED BY <2>1, <2>2, Zenon
<1> DEFINE a == VerticalAnalysis(legs)
           unit == [price \in Nat |-> PerShare(legs[i], price) + PerShare(legs[j], price)]
           debit == p - q
           width == IF right = "call" THEN t - s ELSE s - t
           even == IF right = "call" THEN s + debit ELSE s - debit
<1>6. width > 0 /\ debit > 0 /\ debit <= width
  BY <1>2, <1>4, <1>5 DEF IsVertical, VerticalOf, Width
<1>7. a.maxLoss = debit * size /\ a.maxProfit = (width - debit) * size /\ a.breakevens = <<even>>
  BY <1>4, <1>5 DEF VerticalAnalysis, Result, Width, VerticalEven
<1>8. s \in Kinks(legs) /\ t \in Kinks(legs)
  BY <1>1, <1>5 DEF Kinks
<1>9. \A price \in Nat :
        /\ unit[price] = (Intrinsic(right, s, price) - p) + (-(Intrinsic(right, t, price) - q))
        /\ Payoff(legs, price) = unit[price] * size
  <2>1. ASSUME NEW price \in Nat
        PROVE  /\ PerShare(legs[i], price) = Intrinsic(right, s, price) - p
               /\ PerShare(legs[j], price) = -(Intrinsic(right, t, price) - q)
    BY <1>4, <1>5 DEF PerShare, Signed
  <2>2. ASSUME NEW price \in Nat
        PROVE  Payoff(legs, price) = (PerShare(legs[i], price) + PerShare(legs[j], price)) * size
    BY <1>1, <1>4, <1>5, PayoffOfTwo
  <2> QED BY <2>1, <2>2
<1> HIDE DEF unit
<1> DEFINE Spread == /\ \A price \in Nat : /\ unit[price] \in Int /\ unit[price] >= - debit
                                           /\ unit[price] <= width - debit
                     /\ unit[s] = - debit /\ unit[t] = width - debit /\ unit[even] = 0
<1>10. ASSUME right = "call" PROVE Spread
  <2>1. \A price \in Nat :
          unit[price] = (NonNegative(price - s) - p) + (-(NonNegative(price - t) - q))
    BY <1>9, <1>10 DEF Intrinsic
  <2>2. width = t - s /\ even = s + debit /\ even \in Nat
    BY <1>6, <1>10
  <2>3. \A price \in Nat : /\ unit[price] \in Int /\ unit[price] >= - debit
                           /\ unit[price] <= width - debit
    BY <1>6, <2>1, <2>2 DEF NonNegative
  <2>4. unit[s] = - debit /\ unit[t] = width - debit /\ unit[even] = 0
    BY <1>6, <2>1, <2>2, SMTT(30) DEF NonNegative
  <2> QED BY <2>3, <2>4
<1>11. ASSUME right = "put" PROVE Spread
  <2>1. \A price \in Nat :
          unit[price] = (NonNegative(s - price) - p) + (-(NonNegative(t - price) - q))
    BY <1>9, <1>11 DEF Intrinsic
  <2>2. width = s - t /\ even = s - debit /\ even \in Nat
    BY <1>6, <1>11
  <2>3. \A price \in Nat : /\ unit[price] \in Int /\ unit[price] >= - debit
                           /\ unit[price] <= width - debit
    BY <1>6, <2>1, <2>2 DEF NonNegative
  <2>4. unit[s] = - debit /\ unit[t] = width - debit /\ unit[even] = 0
    <3>1. PICK e \in Nat : e = even
      BY <2>2
    <3>2. unit[s] = - debit /\ unit[t] = width - debit /\ unit[e] = 0
      BY <1>6, <2>1, <2>2, <3>1, SMTT(30) DEF NonNegative
    <3> QED BY <3>1, <3>2
  <2> QED BY <2>3, <2>4
<1>16. Spread
  BY <1>10, <1>11
<1>12. debit \in Int /\ width - debit \in Int /\ even \in Int
  OBVIOUS
<1> HIDE DEF a, debit, width, even
<1>13. a.breakevens \in Seq(Int) /\ \A k \in DOMAIN a.breakevens : a.breakevens[k] = even
  BY <1>7, <1>12
<1>14. \A k \in DOMAIN a.breakevens : a.breakevens[k] >= 0 => unit[a.breakevens[k]] = 0
  BY <1>13, <1>16
<1>15. Exact("vertical_debit_spread", legs, a)
  BY <1>7, <1>8, <1>9, <1>12, <1>13, <1>14, <1>16, PerShareExact, ZenonT(60)
<1> QED BY <1>15 DEF a

LEMMA CondorExact ==
  ASSUME NEW legs \in Seq(Leg), CondorAccepted(legs)
  PROVE  Exact("iron_condor", legs, CondorAnalysis(legs))
<1>1. Len(legs) = 4 /\ SameQuantity(legs) /\ DOMAIN legs = 1..4
  BY DEF CondorAccepted
<1>2. PICK i \in 1..4, j \in 1..4, k \in 1..4, l \in 1..4 :
        /\ IsOnly(legs, "buy", "put", i) /\ IsOnly(legs, "sell", "put", j)
        /\ IsOnly(legs, "sell", "call", k) /\ IsOnly(legs, "buy", "call", l)
  BY DEF CondorAccepted
<1>3. /\ LongPut(legs) = legs[i] /\ legs[i] \in Leg
      /\ legs[i].action = "buy" /\ legs[i].right = "put"
  BY <1>1, <1>2, OnlyLeg DEF LongPut
<1>4. /\ ShortPut(legs) = legs[j] /\ legs[j] \in Leg
      /\ legs[j].action = "sell" /\ legs[j].right = "put"
  BY <1>1, <1>2, OnlyLeg DEF ShortPut
<1>5. /\ ShortCall(legs) = legs[k] /\ legs[k] \in Leg
      /\ legs[k].action = "sell" /\ legs[k].right = "call"
  BY <1>1, <1>2, OnlyLeg DEF ShortCall
<1>6. /\ LongCall(legs) = legs[l] /\ legs[l] \in Leg
      /\ legs[l].action = "buy" /\ legs[l].right = "call"
  BY <1>1, <1>2, OnlyLeg DEF LongCall
<1>7. i # j /\ i # k /\ i # l /\ j # k /\ j # l /\ k # l
  BY <1>3, <1>4, <1>5, <1>6
<1>8. PICK a \in Nat \ {0}, b \in Nat \ {0}, c \in Nat \ {0}, d \in Nat \ {0}, size \in Nat :
        /\ a = legs[i].strike /\ b = legs[j].strike /\ c = legs[k].strike /\ d = legs[l].strike
        /\ size = Size(legs)
  <2>1. Size(legs) \in Nat
    BY <1>1, LegOfSize
  <2>2. /\ legs[i].strike \in Nat \ {0} /\ legs[j].strike \in Nat \ {0}
        /\ legs[k].strike \in Nat \ {0} /\ legs[l].strike \in Nat \ {0}
    BY <1>3, <1>4, <1>5, <1>6, LegTyped
  <2> QED BY <2>1, <2>2, Zenon
<1>9. PICK p \in Nat, q \in Nat, r \in Nat, s \in Nat :
        /\ p = legs[i].premium /\ q = legs[j].premium
        /\ r = legs[k].premium /\ s = legs[l].premium
  <2>1. /\ legs[i].premium \in Nat /\ legs[j].premium \in Nat
        /\ legs[k].premium \in Nat /\ legs[l].premium \in Nat
    BY <1>3, <1>4, <1>5, <1>6, LegTyped
  <2> QED BY <2>1, Zenon
<1>10. PICK credit \in Int, wing \in Int :
         credit = q + r - p - s /\ wing = Larger(b - a, d - c)
  <2>1. q + r - p - s \in Int /\ Larger(b - a, d - c) \in Int
    BY DEF Larger
  <2> QED BY <2>1, Zenon
<1>11. /\ NetCredit(legs) = credit /\ PutWidth(legs) = b - a /\ CallWidth(legs) = d - c
       /\ WidestWing(legs) = wing
  BY <1>3, <1>4, <1>5, <1>6, <1>8, <1>9, <1>10 DEF NetCredit, PutWidth, CallWidth, WidestWing
<1>12. a < b /\ b < c /\ c < d /\ credit > 0 /\ credit < wing
  BY <1>3, <1>4, <1>5, <1>6, <1>8, <1>11 DEF CondorAccepted
<1> DEFINE an == CondorAnalysis(legs)
           unit == [price \in Nat |->
                      ((PerShare(legs[i], price) + PerShare(legs[j], price))
                         + PerShare(legs[k], price)) + PerShare(legs[l], price)]
<1>13. /\ an.maxLoss = (wing - credit) * size /\ an.maxProfit = credit * size
       /\ an.breakevens = <<b - credit, c + credit>>
  BY <1>4, <1>5, <1>8, <1>11 DEF CondorAnalysis, Result
<1>14. a \in Kinks(legs) /\ b \in Kinks(legs) /\ d \in Kinks(legs)
  BY <1>1, <1>8 DEF Kinks
<1>15. \A price \in Nat :
         /\ unit[price] = (((NonNegative(a - price) - p) + (-(NonNegative(b - price) - q)))
                             + (-(NonNegative(price - c) - r))) + (NonNegative(price - d) - s)
         /\ Payoff(legs, price) = unit[price] * size
  <2>1. ASSUME NEW price \in Nat
        PROVE  /\ PerShare(legs[i], price) = NonNegative(a - price) - p
               /\ PerShare(legs[j], price) = -(NonNegative(b - price) - q)
               /\ PerShare(legs[k], price) = -(NonNegative(price - c) - r)
               /\ PerShare(legs[l], price) = NonNegative(price - d) - s
    BY <1>3, <1>4, <1>5, <1>6, <1>8, <1>9 DEF PerShare, Signed, Intrinsic
  <2>2. ASSUME NEW price \in Nat
        PROVE  Payoff(legs, price) =
                 (((PerShare(legs[i], price) + PerShare(legs[j], price))
                     + PerShare(legs[k], price)) + PerShare(legs[l], price)) * size
    BY <1>1, <1>7, <1>8, PayoffOfFour
  <2> QED BY <2>1, <2>2
<1> HIDE DEF an, unit
<1>16. ASSUME NEW price \in Nat
       PROVE  \E u, v, w, z \in Nat :
                /\ unit[price] = credit + (((u - v) - w) + z)
                /\ price <= a => u = a - price
                /\ price >= a => u = 0
                /\ price <= b => v = b - price
                /\ price >= b => v = 0
                /\ price <= c => w = 0
                /\ price >= c => w = price - c
                /\ price <= d => z = 0
                /\ price >= d => z = price - d
  <2>1. PICK u \in Nat, v \in Nat, w \in Nat, z \in Nat :
          /\ u = NonNegative(a - price) /\ v = NonNegative(b - price)
          /\ w = NonNegative(price - c) /\ z = NonNegative(price - d)
    <3>1. /\ NonNegative(a - price) \in Nat /\ NonNegative(b - price) \in Nat
          /\ NonNegative(price - c) \in Nat /\ NonNegative(price - d) \in Nat
      BY DEF NonNegative
    <3> QED BY <3>1, Zenon
  <2>2. unit[price] = (((u - p) + (-(v - q))) + (-(w - r))) + (z - s)
    BY <1>15, <2>1
  <2>3. unit[price] = credit + (((u - v) - w) + z)
    BY <1>10, <2>2
  <2>4. /\ price <= a => u = a - price
        /\ price >= a => u = 0
        /\ price <= b => v = b - price
        /\ price >= b => v = 0
    BY <2>1 DEF NonNegative
  <2>5. /\ price <= c => w = 0
        /\ price >= c => w = price - c
        /\ price <= d => z = 0
        /\ price >= d => z = price - d
    BY <2>1 DEF NonNegative
  <2> QED BY <2>3, <2>4, <2>5
<1>17. wing >= b - a /\ wing >= d - c /\ (wing = b - a \/ wing = d - c)
  BY <1>10 DEF Larger
<1>18. \A price \in Nat : /\ unit[price] \in Int /\ unit[price] >= - (wing - credit)
                          /\ unit[price] <= credit
  <2> SUFFICES ASSUME NEW price \in Nat
               PROVE  /\ unit[price] \in Int /\ unit[price] >= - (wing - credit)
                      /\ unit[price] <= credit
    OBVIOUS
  <2> QED BY <1>12, <1>16, <1>17
<1>19. unit[b] = credit
  <2>1. ASSUME NEW price \in Nat, price = b PROVE unit[price] = credit
    <3>1. PICK u \in Nat, v \in Nat, w \in Nat, z \in Nat :
            /\ unit[price] = credit + (((u - v) - w) + z)
            /\ price <= a => u = a - price
            /\ price >= a => u = 0
            /\ price <= b => v = b - price
            /\ price >= b => v = 0
            /\ price <= c => w = 0
            /\ price >= c => w = price - c
            /\ price <= d => z = 0
            /\ price >= d => z = price - d
      BY <1>16
    <3> QED BY <1>12, <2>1, <3>1
  <2> QED BY <2>1
<1>20. unit[a] = - (wing - credit) \/ unit[d] = - (wing - credit)
  <2>1. unit[a] = credit - (b - a) /\ unit[d] = credit - (d - c)
    BY <1>12, <1>16
  <2> QED BY <1>17, <2>1
<1>21. credit <= b - a /\ credit <= d - c =>
         /\ b - credit \in Nat /\ unit[b - credit] = 0
         /\ c + credit \in Nat /\ unit[c + credit] = 0
  <2> SUFFICES ASSUME credit <= b - a, credit <= d - c
               PROVE  /\ b - credit \in Nat /\ unit[b - credit] = 0
                      /\ c + credit \in Nat /\ unit[c + credit] = 0
    OBVIOUS
  <2>1. PICK x \in Nat, y \in Nat : x = b - credit /\ y = c + credit
    BY <1>12
  <2>2. unit[x] = 0 /\ unit[y] = 0
    BY <1>12, <1>16, <2>1
  <2> QED BY <2>1, <2>2
<1>22. /\ an.breakevens \in Seq(Int)
       /\ \A m \in DOMAIN an.breakevens :
            an.breakevens[m] = b - credit \/ an.breakevens[m] = c + credit
  BY <1>13
<1>23. (NetCredit(legs) <= PutWidth(legs) /\ NetCredit(legs) <= CallWidth(legs))
       => \A m \in DOMAIN an.breakevens : an.breakevens[m] >= 0 => unit[an.breakevens[m]] = 0
  BY <1>11, <1>21, <1>22
<1>24. Exact("iron_condor", legs, an)
  <2>1. wing - credit \in Int
    OBVIOUS
  <2>2. \E price \in Kinks(legs) : unit[price] = - (wing - credit)
    BY <1>14, <1>20
  <2>3. \E price \in Kinks(legs) : unit[price] = credit
    BY <1>14, <1>19
  <2>4. \A price \in Nat : /\ Payoff(legs, price) = unit[price] * size
                           /\ unit[price] \in Int /\ unit[price] >= - (wing - credit)
    BY <1>15, <1>18
  <2> QED BY <1>13, <1>18, <1>22, <1>23, <2>1, <2>2, <2>3, <2>4, PerShareExact
<1> QED BY <1>24 DEF an

\* Whatever structure is accepted, what is stored with it is true of its payoff.
THEOREM AnalysisExact ==
  ASSUME NEW type \in Types, NEW legs \in Seq(Leg), Accepted(type, legs)
  PROVE  Exact(type, legs, Analysis(type, legs))
<1>1. CASE type \in {"long_call", "long_put"}
  BY <1>1, LongExact DEF Accepted, Analysis
<1>2. CASE type = "vertical_debit_spread"
  BY <1>2, VerticalExact DEF Accepted, Analysis
<1>3. CASE type = "iron_condor"
  BY <1>3, CondorExact DEF Accepted, Analysis
<1> QED BY <1>1, <1>2, <1>3 DEF Types

(***************************************************************************)
(* What a close books                                                      *)
(***************************************************************************)

LEMMA SumCounted ==
  ASSUME NEW n \in Nat, NEW a \in [1..n -> Nat]
  PROVE  Sum(a) \in Nat
<1>1. \A i \in Nat : At(a, i) \in Nat
  BY DEF At
<1>2. At(a, 1) \in Nat /\ At(a, 2) \in Nat /\ At(a, 3) \in Nat /\ At(a, 4) \in Nat
  BY <1>1
<1> QED BY <1>2 DEF Sum

LEMMA LegBooks ==
  ASSUME NEW leg \in Leg, NEW exit \in Nat, NEW r \in Nat
  PROVE  /\ LegGross(leg, exit) \in Int /\ leg.quantity * r \in Nat
         /\ LegNet(leg, exit, r) = (LegGross(leg, exit) - (leg.quantity * r)) - (leg.quantity * r)
         /\ ShownLegGross(leg, exit) = LegGross(leg, exit)
         /\ ShownLegGross(leg, exit) - (leg.quantity * r * 2) = LegNet(leg, exit, r)
         /\ \A price \in Nat : exit = Intrinsic(leg.right, leg.strike, price) =>
              LegGross(leg, exit) = LegPayoff(leg, price)
<1>1. PICK p \in Nat, q \in Nat \ {0}, m \in Nat \ {0} :
        p = leg.premium /\ q = leg.quantity /\ m = Multiplier
  BY LegTyped, PayoffAssumption DEF Leg
<1>2. leg.action \in {"buy", "sell"}
  BY DEF Leg
<1>3. q * m \in Nat /\ q * r \in Nat
  BY Z3
<1>4. LegGross(leg, exit) =
        (IF leg.action = "sell" THEN p - exit ELSE exit - p) * (q * m)
  BY <1>1 DEF LegGross
<1>5. LegGross(leg, exit) \in Int
  <2>1. (p - exit) * (q * m) \in Int /\ (exit - p) * (q * m) \in Int
    BY <1>3
  <2> QED BY <1>4, <2>1
<1>6. LegNet(leg, exit, r) = (LegGross(leg, exit) - (q * r)) - (q * r)
  BY <1>1, <1>3, <1>5 DEF LegNet
<1>7. ShownLegGross(leg, exit) = LegGross(leg, exit)
  <2>1. ShownLegGross(leg, exit) = (exit - p) * q * m * (IF leg.action = "buy" THEN 1 ELSE -1)
    BY <1>1 DEF ShownLegGross
  <2>2. (exit - p) * q * m * 1 = (exit - p) * (q * m)
    BY Z3
  <2>3. (exit - p) * q * m * (-1) = (p - exit) * (q * m)
    BY Z3
  <2> QED BY <1>2, <1>4, <2>1, <2>2, <2>3
<1>8. q * r * 2 = (q * r) + (q * r)
  BY <1>3
<1>9. ShownLegGross(leg, exit) - (q * r * 2) = LegNet(leg, exit, r)
  BY <1>3, <1>5, <1>6, <1>7, <1>8
<1>10. ASSUME NEW price \in Nat, exit = Intrinsic(leg.right, leg.strike, price)
       PROVE  LegGross(leg, exit) = LegPayoff(leg, price)
  <2>1. LegPayoff(leg, price) = Signed(leg.action, exit - p) * (q * m)
    BY <1>1, <1>10 DEF LegPayoff
  <2>2. Signed(leg.action, exit - p) = IF leg.action = "sell" THEN p - exit ELSE exit - p
    BY <1>2 DEF Signed
  <2> QED BY <1>4, <2>1, <2>2
<1> QED BY <1>1, <1>3, <1>5, <1>6, <1>7, <1>9, <1>10

\* A close books what the review shows, and a settlement books the payoff.
LEMMA Books ==
  ASSUME NEW legs \in Seq(Leg), NEW exits \in [1..Len(legs) -> Nat], NEW r \in Nat
  PROVE  /\ Gross(legs, exits) \in Int /\ EventCommission(legs, r) \in Nat
         /\ [i \in DOMAIN legs |-> LegNet(legs[i], exits[i], r)] \in Seq(Int)
         /\ LET net == Gross(legs, exits) - (EventCommission(legs, r) + EventCommission(legs, r))
            IN  /\ net = Sum([i \in DOMAIN legs |-> LegNet(legs[i], exits[i], r)])
                /\ net = UnrealizedNet(legs, exits, r)
                /\ \A price \in Nat : exits = IntrinsicExits(legs, price) =>
                     net = PreviewNet(legs, price, r) /\ Gross(legs, exits) = Payoff(legs, price)
<1> DEFINE n == Len(legs)
           g == [i \in 1..n |-> LegGross(legs[i], exits[i])]
           c == [i \in 1..n |-> legs[i].quantity * r]
           net == Gross(legs, exits) - (EventCommission(legs, r) + EventCommission(legs, r))
<1>1. n \in Nat /\ DOMAIN legs = 1..n /\ \A i \in 1..n : legs[i] \in Leg /\ exits[i] \in Nat
  OBVIOUS
<1>2. \A i \in 1..n :
        /\ LegGross(legs[i], exits[i]) \in Int /\ legs[i].quantity * r \in Nat
        /\ LegNet(legs[i], exits[i], r)
             = (LegGross(legs[i], exits[i]) - (legs[i].quantity * r)) - (legs[i].quantity * r)
        /\ ShownLegGross(legs[i], exits[i]) = LegGross(legs[i], exits[i])
        /\ ShownLegGross(legs[i], exits[i]) - (legs[i].quantity * r * 2)
             = LegNet(legs[i], exits[i], r)
  BY <1>1, LegBooks
<1>3. g \in [1..n -> Int] /\ c \in [1..n -> Nat]
  BY <1>2
<1>4. Gross(legs, exits) = Sum(g) /\ EventCommission(legs, r) = Sum(c)
  BY <1>1 DEF Gross, EventCommission
<1>5. \A i \in 1..n : /\ g[i] = LegGross(legs[i], exits[i]) /\ c[i] = legs[i].quantity * r
                     /\ g[i] \in Int /\ c[i] \in Int
  BY <1>2
<1> DEFINE h == [i \in 1..n |-> g[i] - c[i]]
           nets == [i \in 1..n |-> LegNet(legs[i], exits[i], r)]
<1> HIDE DEF g, c, n
<1>6. /\ Sum(h) = Sum(g) - Sum(c) /\ Sum(g) \in Int /\ Sum(c) \in Nat /\ c \in [1..n -> Int]
  <2>1. c \in [1..n -> Int]
    BY <1>3, <1>5
  <2> QED BY <1>1, <1>3, <2>1, SumMinus, SumTyped, SumCounted
<1>7. h \in [1..n -> Int] /\ \A i \in 1..n : h[i] = g[i] - c[i]
  BY <1>5
<1> HIDE DEF h
<1>8. net = Sum(nets) /\ nets \in [1..n -> Int]
  <2>1. Sum([i \in 1..n |-> h[i] - c[i]]) = Sum(h) - Sum(c)
    BY <1>1, <1>6, <1>7, SumMinus
  <2>2. \A i \in 1..n : LegNet(legs[i], exits[i], r) = h[i] - c[i]
    BY <1>2, <1>5, <1>7
  <2>3. [i \in 1..n |-> h[i] - c[i]] = nets /\ \A i \in 1..n : h[i] - c[i] \in Int
    BY <1>5, <1>7, <2>2
  <2>4. nets \in [1..n -> Int]
    BY <2>2, <2>3
  <2> HIDE DEF nets
  <2>5. Sum(nets) = Sum(h) - Sum(c)
    BY <2>1, <2>3, Zenon
  <2> QED BY <1>4, <1>6, <2>4, <2>5
<1>9. net = UnrealizedNet(legs, exits, r)
  <2>1. [i \in DOMAIN legs |-> ShownLegGross(legs[i], exits[i]) - (legs[i].quantity * r * 2)] = nets
    BY <1>1, <1>2
  <2> QED BY <1>8, <2>1 DEF UnrealizedNet
<1>10. ASSUME NEW price \in Nat, exits = IntrinsicExits(legs, price)
       PROVE  net = PreviewNet(legs, price, r) /\ Gross(legs, exits) = Payoff(legs, price)
  <2>1. \A i \in 1..n : exits[i] = Intrinsic(legs[i].right, legs[i].strike, price)
    BY <1>1, <1>10 DEF IntrinsicExits
  <2>2. \A i \in 1..n : LegGross(legs[i], exits[i]) = LegPayoff(legs[i], price)
    BY <1>1, <2>1, LegBooks
  <2>3. g = [i \in DOMAIN legs |-> LegPayoff(legs[i], price)]
    BY <1>1, <2>2 DEF g
  <2>4. g = [i \in DOMAIN legs |->
               ShownLegGross(legs[i], Intrinsic(legs[i].right, legs[i].strike, price))]
    BY <1>1, <1>2, <2>1 DEF g
  <2>5. c = [i \in DOMAIN legs |-> legs[i].quantity * r]
    BY <1>1 DEF c
  <2> QED BY <1>4, <2>3, <2>4, <2>5 DEF PreviewNet, Payoff
<1>11. [i \in DOMAIN legs |-> LegNet(legs[i], exits[i], r)] = nets /\ nets \in Seq(Int)
  BY <1>1, <1>8
<1> QED BY <1>4, <1>6, <1>8, <1>9, <1>10, <1>11

(***************************************************************************)
(* The invariant of the ledger                                             *)
(***************************************************************************)

\* A row has the analysis of its structure.
RowOK(row) ==
  /\ row \in Position
  /\ Accepted(row.type, row.legs)
  /\ row.maxProfit = Analysis(row.type, row.legs).maxProfit
  /\ row.maxLoss = Analysis(row.type, row.legs).maxLoss
  /\ row.breakevens = Analysis(row.type, row.legs).breakevens

\* The exits of a request or of a trade: one for each leg, its intrinsic value if
\* the position is settled.
ExitsOK(legs, x) ==
  /\ x.exits \in [1..Len(legs) -> Nat]
  /\ x.mode = "expiration" => x.price \in Prices /\ x.exits = IntrinsicExits(legs, x.price)

BooksOK(legs, tr) ==
  /\ tr.gross = Gross(legs, tr.exits)
  /\ tr.net = Gross(legs, tr.exits)
                - (EventCommission(legs, tr.rate) + EventCommission(legs, tr.rate))
  /\ tr.legNets = [i \in DOMAIN legs |-> LegNet(legs[i], tr.exits[i], tr.rate)]

RatesOK == today \in Days /\ rate \in Rates
RowsOK  == positions \in Seq(Position) /\ \A p \in DOMAIN positions : RowOK(positions[p])

\* A request that is not late has read a position that is still open.
RequestsOK ==
  /\ req \in [Threads -> {Idle} \cup Request]
  /\ \A t \in Threads : req[t] # Idle =>
       /\ req[t].position \in DOMAIN positions
       /\ ExitsOK(positions[req[t].position].legs, req[t])
       /\ req[t].late <=> positions[req[t].position].status = "closed"
TradesOK ==
  /\ trades \in Seq(TradeRow)
  /\ \A i \in DOMAIN trades :
       /\ trades[i].position \in DOMAIN positions
       /\ ExitsOK(positions[trades[i].position].legs, trades[i])
       /\ BooksOK(positions[trades[i].position].legs, trades[i])

\* A closed position has one trade that is not late, an open one has none.
Once(p) ==
  /\ positions[p].status = "open" => TradesOf(p) = {}
  /\ positions[p].status = "closed" =>
       \E i \in TradesOf(p) : \A j \in TradesOf(p) : trades[j].late <=> j # i
Latest(p) ==
  \A i \in TradesOf(p) :
    (\A j \in TradesOf(p) : j <= i) => positions[p].exits = trades[i].exits
ClosesOK == \A p \in DOMAIN positions : Once(p) /\ Latest(p)

LedgerInv == RatesOK /\ RowsOK /\ RequestsOK /\ TradesOK /\ ClosesOK

LEMMA LedgerInit == Init => LedgerInv
<1> SUFFICES ASSUME Init PROVE LedgerInv
  OBVIOUS
<1>1. positions = <<>> /\ trades = <<>> /\ DOMAIN positions = {} /\ DOMAIN trades = {}
  BY DEF Init
<1>2. positions \in Seq(Position) /\ trades \in Seq(TradeRow)
  BY <1>1
<1> QED
  BY <1>1, <1>2 DEF Init, LedgerInv, RatesOK, RowsOK, RequestsOK, TradesOK, ClosesOK

LEMMA RequestTyped ==
  ASSUME LedgerInv, NEW t \in Threads, req[t] # Idle
  PROVE  req[t] \in Request
  BY DEF LedgerInv, RequestsOK

LEMMA AppendFacts ==
  ASSUME NEW S, NEW s \in Seq(S), NEW x \in S
  PROVE  /\ Append(s, x) \in Seq(S) /\ DOMAIN s = 1..Len(s) /\ Len(s) \in Nat
         /\ DOMAIN Append(s, x) = 1..(Len(s) + 1)
         /\ \A i \in 1..Len(s) : Append(s, x)[i] = s[i]
         /\ Append(s, x)[Len(s) + 1] = x
  OBVIOUS

LEMMA RowOfStructure ==
  ASSUME NEW s \in Structures, NEW e \in Expirations, Accepted(s.type, s.legs)
  PROVE  /\ RowOK(Row(s, e)) /\ Row(s, e).status = "open" /\ Row(s, e).legs = s.legs
<1>1. s.type \in Types /\ s.legs \in Seq(Leg)
  BY LedgerAssumption
<1> DEFINE a == Analysis(s.type, s.legs)
           row == Row(s, e)
<1>2. a.maxLoss \in Int /\ a.maxProfit \in Amount /\ a.breakevens \in Seq(Int)
  BY <1>1, AnalysisExact DEF Exact, Amount
<1> HIDE DEF a
<1>3. /\ row.status = "open" /\ row.type = s.type /\ row.legs = s.legs /\ row.expiration = e
      /\ row.maxProfit = a.maxProfit /\ row.maxLoss = a.maxLoss /\ row.breakevens = a.breakevens
      /\ row.exits = NoExits(s.legs)
  BY DEF Row, a
<1>4. NoExits(s.legs) \in Seq(Amount)
  <2>1. DOMAIN s.legs = 1..Len(s.legs) /\ Len(s.legs) \in Nat
    BY <1>1
  <2> QED BY <2>1 DEF NoExits, Amount
<1>5. row \in Position
  BY <1>1, <1>2, <1>4 DEF Row, Position, a
<1> QED BY <1>3, <1>5 DEF RowOK, a

LEMMA OpenStep ==
  ASSUME LedgerInv, NEW s \in Structures, NEW e \in Expirations, Open(s, e)
  PROVE  LedgerInv'
<1> DEFINE row == Row(s, e)
<1>0. PICK n : n = Len(positions)
  OBVIOUS
<1>1. /\ RowOK(row) /\ row.status = "open" /\ row \in Position
      /\ positions' = Append(positions, row) /\ UNCHANGED <<today, rate, trades, req>>
  BY RowOfStructure DEF Open, RowOK
<1> HIDE DEF row
<1>2. /\ positions' \in Seq(Position) /\ DOMAIN positions = 1..n /\ n \in Nat
      /\ DOMAIN positions' = 1..(n + 1)
      /\ \A p \in 1..n : positions'[p] = positions[p]
      /\ positions'[n + 1] = row
  BY <1>0, <1>1, AppendFacts DEF LedgerInv, RowsOK
<1>3. \A p \in DOMAIN positions : p \in DOMAIN positions' /\ positions'[p] = positions[p]
  BY <1>2
<1>4. \A p \in DOMAIN positions' : p \in DOMAIN positions \/ p = n + 1
  BY <1>2
<1>5. RowsOK'
  BY <1>1, <1>2, <1>3, <1>4 DEF LedgerInv, RowsOK
<1>6. RequestsOK'
  BY <1>1, <1>3 DEF LedgerInv, RequestsOK
<1>7. TradesOK'
  BY <1>1, <1>3 DEF LedgerInv, TradesOK
<1>8. \A p : TradesOf(p)' = TradesOf(p)
  BY <1>1 DEF TradesOf
<1>9. TradesOf(n + 1) = {}
  <2>1. n + 1 \notin DOMAIN positions
    BY <1>2
  <2> QED BY <2>1 DEF LedgerInv, TradesOK, TradesOf
<1>10. ClosesOK'
  <2>1. ASSUME NEW p \in DOMAIN positions PROVE Once(p)' /\ Latest(p)'
    BY <1>1, <1>3, <1>8, <2>1 DEF LedgerInv, ClosesOK, Once, Latest
  <2>2. Once(n + 1)' /\ Latest(n + 1)'
    BY <1>1, <1>2, <1>8, <1>9 DEF Once, Latest
  <2> QED BY <1>4, <2>1, <2>2 DEF ClosesOK
<1>11. RatesOK'
  BY <1>1 DEF LedgerInv, RatesOK
<1> QED BY <1>5, <1>6, <1>7, <1>10, <1>11 DEF LedgerInv

LEMMA ReadStep ==
  ASSUME LedgerInv, NEW t \in Threads, NEW p \in DOMAIN positions,
         NEW mode \in {"manual_close", "expiration"}, NEW price \in Prices \cup {Unknown},
         NEW exits \in [1..Len(positions[p].legs) -> Nat],
         mode = "expiration" =>
           price \in Prices /\ exits = IntrinsicExits(positions[p].legs, price),
         Reads(t, p, mode, price, exits)
  PROVE  LedgerInv'
<1> DEFINE q == [stage |-> "read", position |-> p, mode |-> mode, price |-> price,
                 exits |-> exits, rate |-> rate, late |-> FALSE]
<1>1. /\ req' = [req EXCEPT ![t] = q] /\ positions[p].status = "open"
      /\ UNCHANGED <<today, rate, positions, trades>>
  BY DEF Reads
<1>2. /\ q.position = p /\ q.late = FALSE /\ ExitsOK(positions[p].legs, q)
  BY DEF ExitsOK
<1>3. q \in Request
  <2>1. p \in Nat \ {0}
    BY DEF LedgerInv, RowsOK
  <2>2. positions[p].legs \in Seq(Leg)
    BY DEF LedgerInv, RowsOK, RowOK, Position
  <2>3. exits \in Seq(Nat)
    BY <2>2
  <2>4. rate \in Rates
    BY DEF LedgerInv, RatesOK
  <2> QED BY <2>1, <2>3, <2>4 DEF Request
<1> HIDE DEF q
<1>4. RequestsOK'
  <2>1. req' \in [Threads -> {Idle} \cup Request] /\ req'[t] = q
        /\ \A u \in Threads : u # t => req'[u] = req[u]
    BY <1>1, <1>3 DEF LedgerInv, RequestsOK
  <2> QED BY <1>1, <1>2, <2>1 DEF LedgerInv, RequestsOK
<1>5. RatesOK' /\ RowsOK' /\ TradesOK' /\ ClosesOK'
  BY <1>1 DEF LedgerInv, RatesOK, RowsOK, TradesOK, ClosesOK, Once, Latest, TradesOf
<1> QED BY <1>4, <1>5 DEF LedgerInv

\* The trade of a commit, for a request that has been served in order.
LEMMA TradeOfRequest ==
  ASSUME LedgerInv, NEW q \in Request, q.position \in DOMAIN positions,
         ExitsOK(positions[q.position].legs, q)
  PROVE  /\ Trade(q) \in TradeRow
         /\ Trade(q).position = q.position /\ Trade(q).late = q.late /\ Trade(q).exits = q.exits
         /\ ExitsOK(positions[q.position].legs, Trade(q))
         /\ BooksOK(positions[q.position].legs, Trade(q))
<1> DEFINE legs == positions[q.position].legs
           ec == EventCommission(legs, q.rate)
           tr == Trade(q)
<1>1. /\ tr.position = q.position /\ tr.mode = q.mode /\ tr.price = q.price /\ tr.exits = q.exits
      /\ tr.rate = q.rate /\ tr.late = q.late /\ tr.gross = Gross(legs, q.exits)
      /\ tr.commission = ec + ec /\ tr.net = Gross(legs, q.exits) - (ec + ec)
      /\ tr.legNets = [i \in DOMAIN legs |-> LegNet(legs[i], q.exits[i], q.rate)]
  BY DEF Trade
<1>2. legs \in Seq(Leg)
  BY DEF LedgerInv, RowsOK, RowOK, Position
<1>3. q.rate \in Nat /\ q.exits \in [1..Len(legs) -> Nat]
  BY LedgerAssumption DEF Request, ExitsOK
<1>4. /\ Gross(legs, q.exits) \in Int /\ ec \in Nat
      /\ [i \in DOMAIN legs |-> LegNet(legs[i], q.exits[i], q.rate)] \in Seq(Int)
  BY <1>2, <1>3, Books
<1>5. ExitsOK(legs, tr) /\ BooksOK(legs, tr)
  BY <1>1 DEF ExitsOK, BooksOK
<1>6. tr \in TradeRow
  <2>1. ec + ec \in Nat /\ Gross(legs, q.exits) - (ec + ec) \in Int
    BY <1>4
  <2> HIDE DEF legs, ec
  <2>2. tr = [position |-> tr.position, mode |-> tr.mode, price |-> tr.price, exits |-> tr.exits,
              rate |-> tr.rate, gross |-> tr.gross, commission |-> tr.commission,
              net |-> tr.net, legNets |-> tr.legNets, late |-> tr.late]
    BY DEF Trade
  <2> HIDE DEF tr
  <2>3. /\ tr.position \in Nat \ {0} /\ tr.mode \in {"manual_close", "expiration"}
        /\ tr.price \in Prices \cup {Unknown} /\ tr.exits \in Seq(Nat) /\ tr.rate \in Rates
        /\ tr.late \in BOOLEAN
    BY <1>1 DEF Request
  <2>4. tr.gross \in Int /\ tr.commission \in Nat /\ tr.net \in Int /\ tr.legNets \in Seq(Int)
    BY <1>1, <1>4, <2>1
  <2> QED BY <2>2, <2>3, <2>4 DEF TradeRow
<1> QED BY <1>1, <1>5, <1>6

LEMMA CommitStep ==
  ASSUME LedgerInv, NEW t \in Threads, Commit(t)
  PROVE  LedgerInv'
<1>1. PICK q : q = req[t]
  OBVIOUS
<1>2. /\ q # Idle /\ q \in Request /\ q.position \in DOMAIN positions
      /\ ExitsOK(positions[q.position].legs, q)
      /\ q.late <=> positions[q.position].status = "closed"
  BY <1>1, RequestTyped DEF Commit, LedgerInv, RequestsOK
<1>3. PICK P \in DOMAIN positions : P = q.position
  BY <1>2
<1>4. PICK tr : tr = Trade(q)
  OBVIOUS
<1>5. /\ tr \in TradeRow /\ tr.position = P /\ tr.late = q.late /\ tr.exits = q.exits
      /\ ExitsOK(positions[P].legs, tr) /\ BooksOK(positions[P].legs, tr)
  BY <1>2, <1>3, <1>4, TradeOfRequest
<1>6. PICK m : m = Len(trades)
  OBVIOUS
<1>7. /\ trades' \in Seq(TradeRow) /\ DOMAIN trades = 1..m /\ m \in Nat
      /\ DOMAIN trades' = 1..(m + 1)
      /\ \A i \in 1..m : trades'[i] = trades[i]
      /\ trades'[m + 1] = tr
  <2>1. trades' = Append(trades, tr) /\ trades \in Seq(TradeRow)
    BY <1>1, <1>4 DEF Commit, LedgerInv, TradesOK
  <2> QED BY <1>5, <1>6, <2>1, AppendFacts
\* Of the rows, only the status and the exits of one change.
<1>8. /\ DOMAIN positions' = DOMAIN positions
      /\ \A p \in DOMAIN positions : p # P => positions'[p] = positions[p]
      /\ positions'[P] = [positions[P] EXCEPT !.status = "closed", !.exits = q.exits]
  BY <1>1, <1>3 DEF Commit, Closed
<1>9. /\ positions[P] \in Position /\ positions'[P].status = "closed"
      /\ positions'[P].exits = q.exits /\ positions'[P].legs = positions[P].legs
      /\ positions'[P].type = positions[P].type
      /\ positions'[P].maxProfit = positions[P].maxProfit
      /\ positions'[P].maxLoss = positions[P].maxLoss
      /\ positions'[P].breakevens = positions[P].breakevens
  <2>1. positions[P] \in Position
    BY <1>3 DEF LedgerInv, RowsOK
  <2> QED BY <1>8, <2>1 DEF Position
<1>10. \A p \in DOMAIN positions : positions'[p].legs = positions[p].legs
  BY <1>8, <1>9
<1>11. RowsOK'
  <2>1. q.exits \in Seq(Amount)
    BY <1>2 DEF Request, Amount
  <2>2. positions'[P] \in Position
    BY <1>8, <1>9, <2>1 DEF Position
  <2>3. RowOK(positions'[P])
    BY <1>9, <2>2 DEF RowOK, LedgerInv, RowsOK
  <2>4. \A p \in DOMAIN positions : positions'[p] \in Position /\ RowOK(positions'[p])
    BY <1>8, <2>2, <2>3 DEF LedgerInv, RowsOK, RowOK
  <2>5. positions' \in Seq(Position)
    <3>1. /\ positions \in Seq(Position)
          /\ positions' = [positions EXCEPT ![P] = [positions[P] EXCEPT !.status = "closed",
                                                                      !.exits = q.exits]]
      BY <1>1, <1>3 DEF Commit, Closed, LedgerInv, RowsOK
    <3>2. positions' = [positions EXCEPT ![P] = positions'[P]]
      BY <1>8, <3>1
    <3>3. PICK row \in Position : row = positions'[P]
      BY <2>2
    <3>4. [positions EXCEPT ![P] = row] \in Seq(Position)
      BY <1>3, <3>1
    <3> QED BY <3>2, <3>3, <3>4
  <2> QED BY <1>8, <2>4, <2>5 DEF RowsOK
<1>12. TradesOK'
  <2>1. ASSUME NEW i \in 1..m
        PROVE  /\ trades'[i].position \in DOMAIN positions'
               /\ ExitsOK(positions'[trades'[i].position].legs, trades'[i])
               /\ BooksOK(positions'[trades'[i].position].legs, trades'[i])
    BY <1>7, <1>8, <1>10 DEF LedgerInv, TradesOK
  <2>2. /\ trades'[m + 1].position \in DOMAIN positions'
        /\ ExitsOK(positions'[trades'[m + 1].position].legs, trades'[m + 1])
        /\ BooksOK(positions'[trades'[m + 1].position].legs, trades'[m + 1])
    BY <1>3, <1>5, <1>7, <1>8, <1>10
  <2>3. \A i \in DOMAIN trades' : i \in 1..m \/ i = m + 1
    BY <1>7
  <2> QED BY <1>7, <2>1, <2>2, <2>3 DEF TradesOK
<1>13. RequestsOK'
  <2>1. ASSUME NEW u \in Threads
        PROVE  req'[u] = IF u = t THEN Idle
                         ELSE IF req[u] # Idle /\ req[u].position = P
                              THEN [req[u] EXCEPT !.late = TRUE] ELSE req[u]
    BY <1>1, <1>3 DEF Commit, Late, LedgerInv, RequestsOK
  <2>2. DOMAIN req' = Threads
    BY <1>1 DEF Commit, Late
  <2>3. ASSUME NEW u \in Threads, req[u] # Idle, req[u].position = P
        PROVE  /\ [req[u] EXCEPT !.late = TRUE] \in Request
               /\ [req[u] EXCEPT !.late = TRUE].late = TRUE
               /\ [req[u] EXCEPT !.late = TRUE].position = P
               /\ ExitsOK(positions[P].legs, [req[u] EXCEPT !.late = TRUE])
    <3>1. req[u] \in Request /\ ExitsOK(positions[P].legs, req[u])
      BY <2>3, RequestTyped DEF LedgerInv, RequestsOK
    <3> QED BY <2>3, <3>1 DEF Request, ExitsOK
  <2>4. ASSUME NEW u \in Threads
        PROVE  /\ req'[u] \in {Idle} \cup Request
               /\ req'[u] # Idle => /\ req'[u].position \in DOMAIN positions'
                                    /\ ExitsOK(positions'[req'[u].position].legs, req'[u])
                                    /\ req'[u].late <=> positions'[req'[u].position].status = "closed"
    <3>1. CASE u = t
      BY <2>1, <3>1
    <3>2. CASE u # t /\ req[u] # Idle /\ req[u].position = P
      <4>1. PICK r : r = [req[u] EXCEPT !.late = TRUE]
        OBVIOUS
      <4>2. /\ r \in Request /\ r.late = TRUE /\ r.position = P
            /\ ExitsOK(positions[P].legs, r)
        BY <2>3, <3>2, <4>1
      <4>3. req'[u] = r /\ P \in DOMAIN positions' /\ positions'[P].legs = positions[P].legs
        BY <1>3, <1>8, <1>9, <2>1, <3>2, <4>1
      <4> QED BY <1>9, <4>2, <4>3
    <3>3. CASE u # t /\ ~ (req[u] # Idle /\ req[u].position = P)
      <4>1. req'[u] = req[u] /\ req[u] \in {Idle} \cup Request
        BY <2>1, <3>3 DEF LedgerInv, RequestsOK
      <4>2. CASE req[u] = Idle
        BY <4>1, <4>2
      <4>3. CASE req[u] # Idle
        <5>1. PICK p : p = req[u].position
          OBVIOUS
        <5>2. /\ p \in DOMAIN positions /\ ExitsOK(positions[p].legs, req[u])
              /\ req[u].late <=> positions[p].status = "closed"
          BY <4>3, <5>1 DEF LedgerInv, RequestsOK
        <5>3. p # P
          BY <3>3, <4>3, <5>1
        <5> QED BY <1>8, <4>1, <5>1, <5>2, <5>3
      <4> QED BY <4>2, <4>3
    <3> QED BY <3>1, <3>2, <3>3
  <2>5. req' \in [Threads -> {Idle} \cup Request]
    <3>1. req' = [u \in Threads |-> req'[u]]
      BY <1>1 DEF Commit, Late
    <3> QED BY <2>4, <3>1
  <2> QED BY <2>4, <2>5 DEF RequestsOK
<1>14. ClosesOK'
  <2>1. ASSUME NEW p \in DOMAIN positions, p # P PROVE Once(p)' /\ Latest(p)'
    <3>1. TradesOf(p)' = TradesOf(p)
      <4>1. \A i \in 1..(m + 1) : trades'[i].position = p => i \in 1..m
        BY <1>5, <1>7, <2>1
      <4> QED BY <1>7, <4>1 DEF TradesOf
    <3>2. \A i \in TradesOf(p) : trades'[i] = trades[i]
      BY <1>7 DEF TradesOf
    <3> QED BY <1>8, <2>1, <3>1, <3>2 DEF LedgerInv, ClosesOK, Once, Latest
  <2>2. /\ TradesOf(P)' = TradesOf(P) \cup {m + 1} /\ TradesOf(P) \subseteq 1..m
        /\ \A i \in TradesOf(P) : trades'[i] = trades[i]
    BY <1>5, <1>7 DEF TradesOf
  <2>3. Once(P)'
    <3>1. CASE q.late
      <4>1. PICK i \in TradesOf(P) : \A j \in TradesOf(P) : trades[j].late <=> j # i
        BY <1>2, <1>3, <3>1 DEF LedgerInv, ClosesOK, Once
      <4>2. i # m + 1
        BY <1>7, <2>2
      <4>3. \A j \in TradesOf(P)' : trades'[j].late <=> j # i
        BY <1>5, <1>7, <2>2, <3>1, <4>1, <4>2
      <4> QED BY <1>9, <2>2, <4>3 DEF Once
    <3>2. CASE ~ q.late
      <4>1. TradesOf(P) = {}
        <5>1. positions[P].status = "open"
          BY <1>2, <1>3, <1>9, <3>2 DEF Position
        <5> QED BY <5>1 DEF LedgerInv, ClosesOK, Once
      <4>2. TradesOf(P)' = {m + 1} /\ ~ trades'[m + 1].late
        BY <1>5, <1>7, <2>2, <3>2, <4>1
      <4> QED BY <1>9, <4>2 DEF Once
    <3> QED BY <3>1, <3>2
  <2>4. Latest(P)'
    <3>1. ASSUME NEW i \in TradesOf(P)', \A j \in TradesOf(P)' : j <= i PROVE i = m + 1
      BY <1>7, <2>2, <3>1
    <3> QED BY <1>5, <1>7, <1>9, <3>1 DEF Latest
  <2> QED BY <1>8, <2>1, <2>3, <2>4 DEF ClosesOK
<1>15. RatesOK'
  BY DEF Commit, LedgerInv, RatesOK
<1> QED BY <1>11, <1>12, <1>13, <1>14, <1>15 DEF LedgerInv

LEMMA LedgerStep == LedgerInv /\ [Next]_vars => LedgerInv'
<1> SUFFICES ASSUME LedgerInv, [Next]_vars PROVE LedgerInv'
  OBVIOUS
<1>1. ASSUME NEW s \in Structures, NEW e \in Expirations, Open(s, e) PROVE LedgerInv'
  BY <1>1, OpenStep
<1>2. ASSUME NEW p \in DOMAIN positions
      PROVE  /\ positions[p].legs \in Seq(Leg) /\ DOMAIN positions[p].legs = 1..Len(positions[p].legs)
  <2>1. positions[p].legs \in Seq(Leg)
    BY DEF LedgerInv, RowsOK, RowOK, Position
  <2> QED BY <2>1
<1>3. ASSUME NEW t \in Threads, NEW p \in DOMAIN positions, ReadToClose(t, p) PROVE LedgerInv'
  <2>1. PICK exits \in [DOMAIN positions[p].legs -> Premiums] :
          Reads(t, p, "manual_close", Unknown, exits)
    BY <1>3 DEF ReadToClose
  <2>2. exits \in [1..Len(positions[p].legs) -> Nat]
    BY <1>2, LedgerAssumption
  <2> QED BY <2>1, <2>2, ReadStep
<1>4. ASSUME NEW t \in Threads, NEW p \in DOMAIN positions, NEW price \in Prices,
             ReadToSettle(t, p, price)
      PROVE  LedgerInv'
  <2>1. PICK exits : exits = IntrinsicExits(positions[p].legs, price)
    OBVIOUS
  <2>2. exits \in [1..Len(positions[p].legs) -> Nat]
    <3>1. price \in Nat
      BY LedgerAssumption
    <3>2. \A i \in 1..Len(positions[p].legs) :
            Intrinsic(positions[p].legs[i].right, positions[p].legs[i].strike, price) \in Nat
      <4>1. \A i \in 1..Len(positions[p].legs) : positions[p].legs[i] \in Leg
        BY <1>2
      <4> QED BY <3>1, <4>1, LegTyped, IntrinsicValue
    <3> QED BY <1>2, <2>1, <3>2 DEF IntrinsicExits
  <2>3. Reads(t, p, "expiration", price, exits)
    BY <1>4, <2>1 DEF ReadToSettle
  <2> QED BY <2>1, <2>2, <2>3, ReadStep
<1>5. ASSUME NEW t \in Threads, Commit(t) PROVE LedgerInv'
  BY <1>5, CommitStep
<1> DEFINE Tables == positions' = positions /\ trades' = trades /\ req' = req
<1>6. ASSUME Tables, RatesOK' PROVE LedgerInv'
  BY <1>6 DEF LedgerInv, RowsOK, RequestsOK, TradesOK, ClosesOK, Once, Latest, TradesOf
<1>7. ASSUME NEW r \in Rates, SetCommission(r) PROVE LedgerInv'
  BY <1>6, <1>7 DEF SetCommission, LedgerInv, RatesOK
<1>8. ASSUME NEW d \in Days, NextDay(d) PROVE LedgerInv'
  BY <1>6, <1>8 DEF NextDay, LedgerInv, RatesOK
<1>9. CASE UNCHANGED vars
  BY <1>6, <1>9 DEF vars, LedgerInv, RatesOK
<1> QED BY <1>1, <1>3, <1>4, <1>5, <1>7, <1>8, <1>9 DEF Next

LEMMA LedgerInvariant == Spec => []LedgerInv
  BY LedgerInit, LedgerStep, PTL DEF Spec

\* Rows and requests keep their types, and refer to positions that exist.
THEOREM LedgerTypes == Spec => []TypeOK
<1>1. LedgerInv => TypeOK
  <2> SUFFICES ASSUME LedgerInv PROVE TypeOK
    OBVIOUS
  <2>1. ASSUME NEW p \in DOMAIN positions
        PROVE  DOMAIN positions[p].legs = 1..Len(positions[p].legs)
    <3>1. positions[p].legs \in Seq(Leg)
      BY DEF LedgerInv, RowsOK, RowOK, Position
    <3> QED BY <3>1
  <2>2. ASSUME NEW t \in Threads, req[t] # Idle
        PROVE  /\ req[t].position \in DOMAIN positions
               /\ DOMAIN req[t].exits = DOMAIN positions[req[t].position].legs
    BY <2>1, <2>2 DEF LedgerInv, RequestsOK, ExitsOK
  <2>3. ASSUME NEW i \in DOMAIN trades
        PROVE  /\ trades[i].position \in DOMAIN positions
               /\ DOMAIN trades[i].exits = DOMAIN positions[trades[i].position].legs
    BY <2>1, <2>3 DEF LedgerInv, TradesOK, ExitsOK
  <2> QED BY <2>2, <2>3 DEF TypeOK, LedgerInv, RatesOK, RowsOK, RequestsOK, TradesOK
<1> QED BY <1>1, LedgerInvariant, PTL

\* Whatever structures are opened and however they end: no settlement books more
\* than the maximum profit or less than the maximum loss that were shown when the
\* structure was opened; both are met somewhere; and at a stored break-even price
\* the payoff is zero.
THEOREM AnalysesHold == Spec => []AnalysisIsExact
<1>1. ASSUME LedgerInv, NEW p \in DOMAIN positions
      PROVE  LET row == positions[p] IN
             /\ Exact(row.type, row.legs, Analysis(row.type, row.legs))
             /\ row.maxProfit = Analysis(row.type, row.legs).maxProfit
             /\ row.maxLoss = Analysis(row.type, row.legs).maxLoss
             /\ row.breakevens = Analysis(row.type, row.legs).breakevens
  <2>1. RowOK(positions[p])
    BY <1>1 DEF LedgerInv, RowsOK
  <2> QED BY <2>1, AnalysisExact DEF RowOK, Position
<1>2. LedgerInv => SettledWithinRisk
  <2> SUFFICES ASSUME LedgerInv, NEW i \in DOMAIN trades, trades[i].mode = "expiration"
               PROVE  LET row == positions[trades[i].position] IN
                      /\ trades[i].gross >= - row.maxLoss
                      /\ row.maxProfit # Unknown => trades[i].gross <= row.maxProfit
    BY DEF SettledWithinRisk
  <2>1. PICK p \in DOMAIN positions : p = trades[i].position
    BY DEF LedgerInv, TradesOK
  <2>2. PICK legs, exits, price : legs = positions[p].legs /\ exits = trades[i].exits
                                  /\ price = trades[i].price
    OBVIOUS
  <2>3. /\ legs \in Seq(Leg) /\ price \in Nat /\ exits \in [1..Len(legs) -> Nat]
        /\ exits = IntrinsicExits(legs, price) /\ trades[i].gross = Gross(legs, exits)
    BY <2>1, <2>2, LedgerAssumption
       DEF LedgerInv, TradesOK, ExitsOK, BooksOK, RowsOK, RowOK, Position
  <2>4. trades[i].gross = Payoff(legs, price)
    <3>1. 0 \in Nat
      OBVIOUS
    <3> QED BY <2>3, <3>1, Books
  <2> QED BY <1>1, <2>1, <2>2, <2>3, <2>4 DEF Exact
<1>3. LedgerInv => BoundsAreMet
  BY <1>1 DEF Exact, BoundsAreMet, Kinks
<1>4. LedgerInv => BreakevensAreEven
  BY <1>1 DEF Exact, BreakevensAreEven
<1> QED BY <1>2, <1>3, <1>4, LedgerInvariant, PTL DEF AnalysisIsExact

\* However many requests close or settle a position at the same time, a closed
\* one has exactly one trade that is not late, that of the request that closed it
\* first, and an open one has none; the trades of requests that had read it open
\* and came after that are late and not bounded; and the exits of the legs are
\* those of the latest trade, late or not.
THEOREM ClosedOnceAsTraded == Spec => []ClosedAsTraded
<1>1. LedgerInv => ClosedAsTraded
  <2> SUFFICES ASSUME LedgerInv, NEW p \in DOMAIN positions
               PROVE  Cardinality({i \in TradesOf(p) : ~ trades[i].late})
                        = IF positions[p].status = "closed" THEN 1 ELSE 0
    BY DEF ClosedAsTraded, LedgerInv, ClosesOK, Latest
  <2> DEFINE first == {i \in TradesOf(p) : ~ trades[i].late}
  <2>1. Once(p) /\ positions[p].status \in {"open", "closed"}
    <3>1. positions[p] \in Position
      BY DEF LedgerInv, RowsOK, RowOK
    <3>2. Once(p)
      BY DEF LedgerInv, ClosesOK
    <3> QED BY <3>1, <3>2 DEF Position
  <2>2. CASE positions[p].status = "open"
    <3>1. first = {}
      BY <2>1, <2>2 DEF Once
    <3> QED BY <2>2, <3>1, FS_EmptySet
  <2>3. CASE positions[p].status = "closed"
    <3>1. PICK i \in TradesOf(p) : \A j \in TradesOf(p) : trades[j].late <=> j # i
      BY <2>1, <2>3 DEF Once
    <3>2. first = {i}
      BY <3>1
    <3> QED BY <2>3, <3>2, FS_Singleton
  <2> QED BY <2>1, <2>2, <2>3
<1> QED BY <1>1, LedgerInvariant, PTL

(***************************************************************************)
(* What the review offers                                                  *)
(***************************************************************************)

\* The first of a list of flags the last of which is always raised.
LEMMA FirstFlag ==
  ASSUME NEW F, DOMAIN F = 1..15, F[15][1]
  PROVE  LET first == CHOOSE i \in DOMAIN F : F[i][1] /\ \A j \in 1..(i - 1) : ~ F[j][1]
         IN  /\ first \in 1..15 /\ F[first][1]
             /\ \A k \in 1..15 : F[k][1] /\ (\A j \in 1..(k - 1) : ~ F[j][1]) => first = k
<1>1. \E i \in 1..15 : F[i][1] /\ \A j \in 1..(i - 1) : ~ F[j][1]
  OBVIOUS
<1>2. ASSUME NEW i \in 1..15, F[i][1], \A j \in 1..(i - 1) : ~ F[j][1],
             NEW k \in 1..15, F[k][1], \A j \in 1..(k - 1) : ~ F[j][1]
      PROVE  i = k
  <2>1. i < k => i \in 1..(k - 1)
    OBVIOUS
  <2>2. k < i => k \in 1..(i - 1)
    OBVIOUS
  <2>3. ~ (i < k) /\ ~ (k < i)
    BY <1>2, <2>1, <2>2, Zenon
  <2> QED BY <2>3
<1> DEFINE P(i) == F[i][1] /\ \A j \in 1..(i - 1) : ~ F[j][1]
           first == CHOOSE i \in DOMAIN F : P(i)
<1>3. first \in 1..15 /\ P(first)
  BY <1>1, Zenon
<1> HIDE DEF first
<1>4. \A k \in 1..15 : P(k) => first = k
  BY <1>2, <1>3
<1> QED BY <1>3, <1>4 DEF first

LEMMA MarksKnown ==
  ASSUME NEW mark \in Prices \cup {0, Unknown}
  PROVE  /\ mark \in Prices <=> Usable(mark)
         /\ mark = 0 <=> mark # Unknown /\ ~ Usable(mark)
<1>1. Prices \subseteq Nat \ {0} /\ Unknown \notin Int
  BY LedgerAssumption, PayoffAssumption
<1>2. CASE mark = Unknown
  BY <1>1, <1>2 DEF Usable
<1>3. CASE mark \in Nat
  <2>1. mark # Unknown
    BY <1>1, <1>3
  <2>2. mark > 0 <=> mark # 0
    BY <1>3
  <2>3. mark \in Prices <=> mark # 0
    BY <1>1, <2>1
  <2> QED BY <2>1, <2>2, <2>3 DEF Usable
<1> QED BY <1>1, <1>2, <1>3

LEMMA ClassOfRow ==
  ASSUME NEW p \in DOMAIN positions, today \in Int, positions[p].expiration \in Int,
         NEW mark \in Prices \cup {0, Unknown}, NEW net, NEW restricted
  PROVE  LET class == Class(p, mark, net, restricted) IN
         /\ class = "settlement_available" <=> Expired(p) /\ mark \in Prices
         /\ Expired(p) => class \in {"settlement_available", "expired_unsettled",
                                     "settlement_blocked_missing_underlying"}
<1> DEFINE F == Flags(p, mark, net, restricted)
           first == CHOOSE i \in DOMAIN F : F[i][1] /\ \A j \in 1..(i - 1) : ~ F[j][1]
           status == ExpirationStatus(DaysLeft(p))
<1>1. status = "expired_unsettled" <=> Expired(p)
  <2>1. DaysLeft(p) \in Int /\ (DaysLeft(p) < 0 <=> Expired(p))
    BY DEF DaysLeft, Expired
  <2>2. PICK d \in Int : d = DaysLeft(p)
    BY <2>1
  <2>3. ExpirationStatus(d) = "expired_unsettled" <=> d < 0
    BY DEF ExpirationStatus
  <2> QED BY <2>1, <2>2, <2>3
<1>2. /\ F[1][1] => status # "expired_unsettled"
      /\ F[2][1] <=> status = "expired_unsettled" /\ mark # Unknown /\ ~ Usable(mark)
      /\ F[3][1] <=> status = "expired_unsettled" /\ mark = Unknown
      /\ F[4][1] <=> status = "expired_unsettled" /\ Usable(mark)
      /\ F[15][1]
  BY DEF Flags
<1>3. /\ DOMAIN F = 1..15 /\ F[2][2] = "expired_unsettled"
      /\ F[3][2] = "settlement_blocked_missing_underlying" /\ F[4][2] = "settlement_available"
      /\ \A i \in 1..15 : F[i][2] = "settlement_available" => i = 4
  BY DEF Flags
<1>4. Class(p, mark, net, restricted) = F[first][2]
  BY DEF Class
<1> HIDE DEF F, status
<1>5. /\ first \in 1..15 /\ F[first][1]
      /\ \A k \in 1..15 : F[k][1] /\ (\A j \in 1..(k - 1) : ~ F[j][1]) => first = k
  BY <1>2, <1>3, FirstFlag
<1> HIDE DEF first
<1>6. CASE ~ Expired(p)
  <2>1. ~ F[4][1]
    BY <1>1, <1>2, <1>6
  <2> QED BY <1>3, <1>4, <1>5, <1>6, <2>1
<1>7. CASE Expired(p)
  <2>1. ~ F[1][1] /\ (F[2][1] <=> mark = 0) /\ (F[3][1] <=> mark = Unknown)
        /\ (F[4][1] <=> mark \in Prices)
    BY <1>1, <1>2, <1>7, MarksKnown
  <2>2. CASE mark = 0
    <3>1. \A j \in 1..(2 - 1) : ~ F[j][1]
      BY <2>1
    <3>2. first = 2
      BY <1>5, <2>1, <2>2, <3>1
    <3> QED BY <1>3, <1>4, <1>7, <2>1, <2>2, <3>2, LedgerAssumption
  <2>3. CASE mark = Unknown
    <3>1. mark # 0
      BY <2>3, PayoffAssumption
    <3>2. \A j \in 1..(3 - 1) : ~ F[j][1]
      BY <2>1, <3>1
    <3>3. first = 3
      BY <1>5, <2>1, <2>3, <3>2
    <3>4. mark \notin Prices
      BY <2>3, LedgerAssumption, PayoffAssumption
    <3> QED BY <1>3, <1>4, <1>7, <3>3, <3>4
  <2>4. CASE mark \in Prices
    <3>1. mark # 0 /\ mark # Unknown
      BY <2>4, LedgerAssumption, PayoffAssumption
    <3>2. \A j \in 1..(4 - 1) : ~ F[j][1]
      <4>1. \A j \in 1..(4 - 1) : j = 1 \/ j = 2 \/ j = 3
        OBVIOUS
      <4> QED BY <2>1, <3>1, <4>1
    <3>3. first = 4
      BY <1>5, <2>1, <2>4, <3>2
    <3> QED BY <1>3, <1>4, <1>7, <2>4, <3>3
  <2> QED BY <2>2, <2>3, <2>4
<1> QED BY <1>6, <1>7

\* Review and ledger agree: every close and every settlement books what the review
\* shows at its prices, to the amounts of the legs; and a settlement is offered for
\* exactly the positions for which one is accepted.
THEOREM BooksAsOffered == Spec => []BookedAsOffered
<1>1. LedgerInv => BookedAsShown
  <2> SUFFICES ASSUME LedgerInv, NEW i \in DOMAIN trades
               PROVE  LET tr   == trades[i]
                          legs == positions[tr.position].legs
                      IN  /\ tr.net = IF tr.mode = "expiration"
                                      THEN PreviewNet(legs, tr.price, tr.rate)
                                      ELSE UnrealizedNet(legs, tr.exits, tr.rate)
                          /\ tr.net = Sum(tr.legNets)
    BY DEF BookedAsShown
  <2>1. PICK tr \in TradeRow : tr = trades[i]
    BY DEF LedgerInv, TradesOK
  <2>2. PICK p \in DOMAIN positions : p = tr.position
    BY <2>1 DEF LedgerInv, TradesOK
  <2>3. PICK legs \in Seq(Leg) : legs = positions[p].legs
    BY DEF LedgerInv, RowsOK, RowOK, Position
  <2>4. ExitsOK(legs, tr) /\ BooksOK(legs, tr)
    BY <2>1, <2>2, <2>3 DEF LedgerInv, TradesOK
  <2>5. PICK exits \in [1..Len(legs) -> Nat], r \in Nat : exits = tr.exits /\ r = tr.rate
    <3>1. tr.exits \in [1..Len(legs) -> Nat] /\ tr.rate \in Nat
      BY <2>4, LedgerAssumption DEF ExitsOK, TradeRow
    <3> QED BY <3>1, Zenon
  <2>6. /\ tr.net = Sum(tr.legNets)
        /\ tr.net = UnrealizedNet(legs, exits, r)
    BY <2>4, <2>5, Books DEF BooksOK
  <2>7. tr.mode = "expiration" => tr.net = PreviewNet(legs, tr.price, r)
    <3> SUFFICES ASSUME tr.mode = "expiration" PROVE tr.net = PreviewNet(legs, tr.price, r)
      OBVIOUS
    <3>1. tr.price \in Nat /\ exits = IntrinsicExits(legs, tr.price)
      BY <2>4, <2>5, LedgerAssumption DEF ExitsOK
    <3>2. PICK price \in Nat : price = tr.price
      BY <3>1
    <3>3. exits = IntrinsicExits(legs, price)
      BY <3>1, <3>2
    <3>4. Gross(legs, exits) - (EventCommission(legs, r) + EventCommission(legs, r))
            = PreviewNet(legs, price, r)
      BY <3>3, Books
    <3>5. tr.net = Gross(legs, exits) - (EventCommission(legs, r) + EventCommission(legs, r))
      BY <2>4, <2>5 DEF BooksOK
    <3> QED BY <3>2, <3>4, <3>5
  <2> QED BY <2>1, <2>2, <2>3, <2>5, <2>6, <2>7
<1>2. LedgerInv => OfferedIsAccepted
  <2> SUFFICES ASSUME LedgerInv, NEW p \in OpenPositions
               PROVE  \A mark \in Prices \cup {0, Unknown},
                         net \in {Unknown, -1, 0, 1}, restricted \in BOOLEAN :
                        LET class == Class(p, mark, net, restricted) IN
                        /\ class = "settlement_available" <=> Expired(p) /\ mark \in Prices
                        /\ Expired(p) => class \in {"settlement_available", "expired_unsettled",
                                                    "settlement_blocked_missing_underlying"}
    BY DEF OfferedIsAccepted
  <2>1. p \in DOMAIN positions /\ today \in Int /\ positions[p].expiration \in Int
    BY LedgerAssumption DEF OpenPositions, LedgerInv, RatesOK, RowsOK, RowOK, Position
  <2> QED BY <2>1, ClassOfRow
<1> QED BY <1>1, <1>2, LedgerInvariant, PTL DEF BookedAsOffered
=============================================================================
