-------------------------- MODULE OptionContracts --------------------------
(***************************************************************************)
(* The listed contracts of an option structure, in research and at a paper *)
(* open: the selection of four legs for an iron condor, the contract of    *)
(* each leg of the other structures, the marks that price them, and the    *)
(* readiness that research reports of the result.                          *)
(*                                                                         *)
(* Pure.  A question q has                                                 *)
(*   type, expiry     of the structure                                     *)
(*   legs             a sequence of action, right, target and premium,     *)
(*                    which is Unknown in research                         *)
(*   credit, debit    of the theoretical estimate, or Unknown              *)
(*   reference        the price of the underlying, or Unknown              *)
(*   answers, listing whether the provider answers, and its contracts      *)
(*   window           in which the provider looks for the contract of a leg *)
(*   marks            the snapshot of each symbol: method, price and stale *)
(* A contract is what it is in MarketQuotes; prices and strikes are in one *)
(* unit, in which MaxSnap is the configured five dollars.                  *)
(***************************************************************************)
EXTENDS OptionPayoff, SequencesExt

Quote == INSTANCE MarketQuotes

Away(x, y) == IF x < y THEN y - x ELSE x - y

MaxSnap   == 5    \* options_max_strike_snap_abs
NearLimit == 24   \* the pool of _top_contracts_near

Roles == <<[action |-> "buy", right |-> "put"], [action |-> "sell", right |-> "put"],
           [action |-> "sell", right |-> "call"], [action |-> "buy", right |-> "call"]>>

\* _iron_condor_target_strikes: every role has one leg.
HasRoles(legs) ==
  Len(legs) = 4 /\ \A n \in 1..4 : IsOnly(legs, Roles[n].action, Roles[n].right,
                                     CHOOSE i \in 1..4 : legs[i].action = Roles[n].action /\ legs[i].right = Roles[n].right)
Targets(legs) == [n \in 1..4 |-> Only(legs, Roles[n].action, Roles[n].right).target]

\* Twice the middle of the short strikes.
Midpoint2(targets) == targets[2] + targets[3]

\* _allowed_strike_snap: five dollars and a fortieth of twice / 2, and an exact
\* strike in any case.
WithinSnap(distance, twice) == distance = 0 \/ (distance <= MaxSnap /\ 80 * distance <= twice)

Twice(q) == IF q.reference = Unknown THEN Midpoint2(Targets(q.legs)) ELSE 2 * q.reference

-----------------------------------------------------------------------------
(* Four contracts for a condor: near the targets of its roles, within the  *)
(* snap that twice the reference allows.                                   *)

\* The strikes that the provider is asked for.
InReach(targets, twice, c) ==
  /\ \E n \in 1..4 : c.strike >= targets[n] \/ WithinSnap(targets[n] - c.strike, twice)
  /\ \E n \in 1..4 : c.strike <= targets[n] \/ WithinSnap(c.strike - targets[n], twice)

Reach(q) == {c \in q.listing : InReach(Targets(q.legs), Twice(q), c)}

\* The asked expiration when anything in reach has it, else the nearest that
\* lists both sides, else the nearest: two as near are in no order.
Days(expiry, reach) ==
  LET listed  == {c.expiry : c \in reach}
      both    == {d \in listed : \A right \in {"call", "put"} : \E c \in reach : c.expiry = d /\ c.side = right}
      pool    == IF both # {} THEN both ELSE listed
  IN  IF expiry \in listed THEN {expiry}
      ELSE {d \in pool : \A e \in pool : Away(d, expiry) <= Away(e, expiry)}

\* The pool of a role on a day.
Pool(reach, day, n, target, twice) ==
  LET side == {c \in reach : c.expiry = day /\ c.side = Roles[n].right}
  IN  {c \in side : /\ WithinSnap(Away(c.strike, target), twice)
                    /\ Cardinality({d \in side : Quote!Nearer(d, c, day, target)}) < NearLimit}

Ordered(cs) == \A n \in 1..3 : cs[n].strike < cs[n + 1].strike

Quadruples(reach, day, targets, twice) ==
  LET pool == [n \in 1..4 |-> Pool(reach, day, n, targets[n], twice)]
  IN  {cs \in pool[1] \X pool[2] \X pool[3] \X pool[4] : Ordered(cs)}

TotalSnap(targets, cs) ==
  Away(cs[1].strike, targets[1]) + Away(cs[2].strike, targets[2])
    + Away(cs[3].strike, targets[3]) + Away(cs[4].strike, targets[4])

Snapped(targets, twice, cs) == \A n \in 1..4 : WithinSnap(Away(cs[n].strike, targets[n]), twice)

\* In millionths: the snaps, the difference of the wings, less the liquidity.
Score(targets, cs) ==
  1000000 * TotalSnap(targets, cs)
    + 10000 * Away(cs[2].strike - cs[1].strike, cs[4].strike - cs[3].strike)
    - (cs[1].liquidity + cs[2].liquidity + cs[3].liquidity + cs[4].liquidity)

\* The best of some quadruples: of equal scores any.
Best(all, targets) == {cs \in all : \A other \in all : Score(targets, cs) <= Score(targets, other)}

\* _select_iron_condor_contracts_from_rows
CondorsIn(expiry, reach, targets, twice) ==
  UNION {Best(Quadruples(reach, day, targets, twice), targets) : day \in Days(expiry, reach)}

Condors(q) == CondorsIn(q.expiry, Reach(q), Targets(q.legs), Twice(q))

-----------------------------------------------------------------------------
(* Legs with their contracts.                                              *)

Resolved(q, leg, c) ==
  [action |-> leg.action, right |-> leg.right, target |-> leg.target, premium |-> leg.premium,
   quantity |-> 1, strike |-> c.strike, expiry |-> c.expiry, symbol |-> c.symbol, mark |-> q.marks[c.symbol]]

RoleOf(leg) == CHOOSE n \in 1..4 : Roles[n].action = leg.action /\ Roles[n].right = leg.right

\* _resolve_iron_condor_contracts_from_provider
CondorLegs(q) ==
  IF q.answers /\ HasRoles(q.legs)
  THEN {[i \in DOMAIN q.legs |-> Resolved(q, q.legs[i], cs[RoleOf(q.legs[i])])] : cs \in Condors(q)}
  ELSE {}

\* The other structures resolve leg by leg, each to a day of its own.
Answer(q, leg) == Quote!ResolveContract(q.listing, q.answers, leg.right, q.expiry, leg.target, q.window, Quote!RowLimit)
ByLeg(q) ==
  IF \E i \in DOMAIN q.legs : Answer(q, q.legs[i]) = Quote!Unresolved THEN {}
  ELSE {[i \in DOMAIN q.legs |->
           Resolved(q, q.legs[i], CHOOSE c \in q.listing : c.symbol = Answer(q, q.legs[i]).symbol)]}

-----------------------------------------------------------------------------
(* Prices.                                                                 *)

\* _research_payoff_legs: a leg without a premium gets its share of the
\* theoretical credit or debit.
Estimable(q) ==
  \/ \A i \in DOMAIN q.legs : q.legs[i].premium # Unknown
  \/ q.type = "iron_condor" /\ q.credit # Unknown /\ q.credit > 0
  \/ q.type = "vertical_debit_spread" /\ q.debit # Unknown /\ q.debit > 0

Estimate(q, leg) ==
  CASE leg.premium # Unknown                               -> leg.premium
    [] leg.premium = Unknown /\ q.type = "iron_condor"     -> IF leg.action = "sell" THEN q.credit \div 2 ELSE 0
    [] OTHER                                               -> IF leg.action = "buy" THEN q.debit ELSE 0

Estimated(q, legs) == [i \in DOMAIN legs |-> [legs[i] EXCEPT !.premium = Estimate(q, legs[i])]]

FreshMark(mark) ==
  mark.method \in {"quote_mid", "last_trade"} /\ mark.price # Unknown /\ ~mark.stale

\* _apply_provider_opening_prices: every leg is priced by its mark.
AllFresh(legs) == \A i \in DOMAIN legs : FreshMark(legs[i].mark)
Marked(legs) == [i \in DOMAIN legs |-> [legs[i] EXCEPT !.premium = legs[i].mark.price]]

\* A condor whose marks give no credit is not repriced.
Repriced(q, legs) == AllFresh(legs) /\ (q.type = "iron_condor" => NetCredit(Marked(legs)) > 0)

-----------------------------------------------------------------------------
(* Research.                                                               *)

Verdict(structure, paper, legs) == [structure |-> structure, paper |-> paper, legs |-> legs]

\* _apply_research_contract_resolution and _apply_options_research_readiness,
\* for legs that were resolved; required when Polygon is configured.
Judged(q, required, legs) ==
  IF ~(Estimable(q) /\ Accepted(q.type, Estimated(q, legs))) THEN Verdict("blocked", "blocked", legs)
  ELSE IF ~required \/ ~Repriced(q, legs) THEN Verdict("ready", "blocked", Estimated(q, legs))
  ELSE IF Accepted(q.type, Marked(legs)) THEN Verdict("ready", "ready", Marked(legs))
  ELSE Verdict("blocked", "blocked", Marked(legs))

Research(q, required) ==
  LET legs == IF q.type = "iron_condor" /\ required THEN CondorLegs(q) ELSE ByLeg(q)
      told == IF required THEN "blocked" ELSE "unavailable"
  IN  IF legs = {} THEN {Verdict(told, "blocked", << >>)}
      ELSE {Judged(q, required, l) : l \in legs}

-----------------------------------------------------------------------------
(* A paper open.                                                           *)

\* _resolve_paper_option_structure_contracts where contracts are required: the
\* legs it may go on with, none when it refuses.  A condor's snap is judged by
\* the middle of its short strikes, that of any other leg by its own target.
Opened(q) ==
  IF q.type = "iron_condor"
  THEN {r.legs : r \in {r \in Research([q EXCEPT !.reference = Unknown], TRUE) : r.paper = "ready"}}
  ELSE {Marked(legs) : legs \in {legs \in ByLeg(q) :
          \A i \in DOMAIN legs : /\ WithinSnap(Away(legs[i].strike, legs[i].target), 2 * legs[i].target)
                                 /\ FreshMark(legs[i].mark)}}

-----------------------------------------------------------------------------
(* Properties.                                                             *)

\* The worst of a structure is at one of its strikes or at nothing.
Worst(legs) ==
  LET prices == {0} \cup {legs[i].strike : i \in DOMAIN legs}
      losses == {-Payoff(legs, p) : p \in prices}
  IN  CHOOSE l \in losses : \A m \in losses : m <= l

\* Research that calls a paper open ready has priced every leg by a fresh mark
\* of a listed contract of its side, and the loss it shows is the worst that
\* those contracts, at those prices, can bring.
ReadyIsPriced(q, r) ==
  r.paper = "ready" =>
    /\ r.structure = "ready"
    /\ \A i \in DOMAIN r.legs :
         /\ FreshMark(q.marks[r.legs[i].symbol]) /\ ~q.marks[r.legs[i].symbol].stale
         /\ r.legs[i].premium = q.marks[r.legs[i].symbol].price
         /\ \E c \in q.listing : c.symbol = r.legs[i].symbol /\ c.side = r.legs[i].right
    /\ Analysis(q.type, r.legs).maxLoss = Worst(r.legs)

\* The four contracts of a condor are of one day, the asked one when it is
\* listed in reach, with strikes in order and each within the snap of its
\* target, and no other such four are nearer in all.
CondorIsNearest(q, legs, reach, targets, twice) ==
  LET day  == legs[1].expiry
      mine == Away(legs[1].strike, legs[1].target) + Away(legs[2].strike, legs[2].target)
                + Away(legs[3].strike, legs[3].target) + Away(legs[4].strike, legs[4].target)
  IN  /\ \A i \in 1..4 : /\ legs[i].expiry = day
                         /\ WithinSnap(Away(legs[i].strike, legs[i].target), twice)
      /\ \A c \in reach : c.expiry = q.expiry => day = q.expiry
      /\ LongPut(legs).strike < ShortPut(legs).strike /\ ShortPut(legs).strike < ShortCall(legs).strike
      /\ ShortCall(legs).strike < LongCall(legs).strike
      /\ \A a, b \in {c \in q.listing : c.side = "put" /\ c.expiry = day},
            x, y \in {c \in q.listing : c.side = "call" /\ c.expiry = day} :
           Ordered(<<a, b, x, y>>) /\ Snapped(targets, twice, <<a, b, x, y>>)
             => mine <= TotalSnap(targets, <<a, b, x, y>>)

\* A request made of what research calls ready opens that structure again in
\* contracts research may choose; and whatever opens is priced by fresh marks
\* within the snap of its targets.
OpensWhatWasShown(q, r) ==
  LET request == [q EXCEPT !.legs = [i \in DOMAIN q.legs |-> [q.legs[i] EXCEPT !.premium = r.legs[i].premium]]]
  IN  /\ r.paper = "ready" /\ q.type = "iron_condor" /\ 2 * q.reference = Midpoint2(Targets(q.legs)) =>
           /\ r.legs \in {[i \in DOMAIN l |-> [l[i] EXCEPT !.premium = r.legs[i].premium]] : l \in Opened(request)}
      /\ \A legs \in Opened(q) : \A i \in DOMAIN legs :
           FreshMark(legs[i].mark) /\ legs[i].premium = legs[i].mark.price
             /\ Away(legs[i].strike, legs[i].target) <= MaxSnap

ContractsAreEarned(q) ==
  /\ \A required \in BOOLEAN : \A r \in Research(q, required) :
       /\ ReadyIsPriced(q, r) /\ (r.paper = "ready" => required)
       /\ required => OpensWhatWasShown(q, r)
  /\ q.type = "iron_condor" => \A legs \in CondorLegs(q) :
       CondorIsNearest(q, legs, Reach(q), Targets(q.legs), Twice(q))

=============================================================================
