--------------------------- MODULE MCOptionLedger ---------------------------
(***************************************************************************)
(* Instances of OptionLedger for TLC.                                      *)
(***************************************************************************)
EXTENDS OptionLedger, TLC

L(action, right, strike, premium) ==
  [action |-> action, right |-> right, strike |-> strike, premium |-> premium, quantity |-> 1]

Twice(leg) == [leg EXCEPT !.quantity = 2]

Long(type, right) ==
  {[type |-> type, legs |-> <<L("buy", right, strike, premium)>>] :
     strike \in 2..3, premium \in {0, 1, 3, 4}}

\* Spreads that can be opened, and ones that are refused.
Vertical(right) ==
  {[type |-> "vertical_debit_spread",
    legs |-> <<L("buy", right, a, premium), L("sell", right, b, 1)>>] :
     a \in 1..4, b \in 1..4, premium \in {1, 2, 4}}

\* Wings of a width of one and of more, in an order of legs that is not that of
\* the strikes.
Condor ==
  {[type |-> "iron_condor",
    legs |-> <<L("sell", "call", c, p), L("buy", "put", a, 1),
               L("buy", "call", d, 0), L("sell", "put", b, q)>>] :
     a \in 1..1, b \in 2..3, c \in 3..4, d \in 5..6, p \in {0, 2}, q \in {1, 2}}

Uneven ==
  {[type |-> "vertical_debit_spread",
    legs |-> <<Twice(L("buy", "call", 2, 2)), L("sell", "call", 4, 1)>>],
   [type |-> "iron_condor", legs |-> <<L("buy", "call", 2, 2), L("sell", "call", 4, 1)>>],
   [type |-> "long_put", legs |-> <<L("sell", "put", 2, 1)>>],
   [type |-> "long_call", legs |-> <<Twice(L("buy", "call", 2, 2))>>],
   [type |-> "vertical_debit_spread",
    legs |-> <<Twice(L("sell", "put", 2, 1)), Twice(L("buy", "put", 4, 2))>>]}

AllStructures ==
  Long("long_call", "call") \cup Long("long_put", "put")
    \cup Vertical("call") \cup Vertical("put") \cup Condor \cup Uneven

\* Nothing tells one thread from another.
Symmetry == Permutations(Threads)

\* Expiration 8: eight, five, two and no days are left, or it is over.
AllDays == {0, 3, 6, 8, 9}
=============================================================================
