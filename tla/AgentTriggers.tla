--------------------------- MODULE AgentTriggers ---------------------------
(***************************************************************************)
(* What the indicators of a symbol let an Agent Profile do with it: the    *)
(* eligibility verdicts, the directional signals, and what the run makes   *)
(* of them for a candidate and for a position of the profile's own.        *)
(*                                                                         *)
(* Pure.  A reading r of the bars of one symbol has                        *)
(*   thin      fewer than two bars                                         *)
(*   haco      the last state, "none" when there is none or it raised      *)
(*   momentum  the last points of True Momentum, or NoMomentum             *)
(*   atr       the state of the trailing stop, "none" when it raised       *)
(* and the points have the total state, the sign of the trend score, the   *)
(* cross and the fresh signal of the last bar and the trend's direction.   *)
(* Of a profile p, filters are those that a Hybrid has enabled, and a mode *)
(* is "" when the profile stores none.                                     *)
(***************************************************************************)
EXTENDS PositionReview

NoMomentum == [total |-> "none"]

-----------------------------------------------------------------------------
(* Verdicts.                                                               *)

\* evaluate_haco_eligibility: red is for review in every mode.
HacoVerdict(mode, r) ==
  CASE r.thin \/ r.haco = "none"                           -> "NEUTRAL_REVIEW"
    [] ~r.thin /\ r.haco = "green" /\ mode # "short_only"  -> "LONG_ELIGIBLE"
    [] ~r.thin /\ r.haco = "red"                           -> "SHORT_REVIEW"
    [] OTHER                                               -> "NEUTRAL_REVIEW"

\* _momentum_states
Readable(r)   == ~r.thin /\ r.momentum # NoMomentum
Bullish(m)    == m.total \in {"bull", "max_bull"}
Improving(m)  == m.total \in {"neutral_up", "neutral"}
Bearish(m)    == m.total \in {"bear", "max_bear", "neutral_down"}
Triggered(m)  == m.cross = "up" \/ m.fresh = "bull"
Rising(m)     == Triggered(m) \/ m.direction = 1 \/ m.trend > 0
Falling(m)    == m.cross = "down" \/ m.fresh = "bear" \/ m.direction = -1 \/ m.trend < 0

\* evaluate_true_momentum_eligibility
MomentumVerdict(mode, r) ==
  LET m == r.momentum
      eligible ==
        CASE mode = "conservative" -> Bullish(m) /\ Rising(m)
          [] mode = "balanced"     -> Bullish(m) /\ (Rising(m) \/ Triggered(m))
          [] mode = "aggressive"   -> \/ Bullish(m) /\ (Rising(m) \/ Triggered(m))
                                      \/ Improving(m) /\ Triggered(m)
          [] OTHER                 -> FALSE
  IN  IF ~Readable(r) THEN "NEUTRAL_REVIEW"
      ELSE IF eligible THEN "LONG_ELIGIBLE"
      ELSE IF Bearish(m) /\ Falling(m) THEN "SHORT_REVIEW"
      ELSE IF mode \in {"conservative", "balanced", "aggressive"} THEN "NEUTRAL_REVIEW"
      ELSE "EXIT_REVIEW"

\* evaluate_true_momentum_exit_caution: of an open long.
ExitCaution(r) == Readable(r) /\ (Falling(r.momentum) \/ Bearish(r.momentum))

Stored(mode, default) == IF mode = "" THEN default ELSE mode

\* The verdicts that a Hybrid asks for, in its order.
FilterVerdicts(p, r) ==
  (IF "haco" \in p.filters THEN <<HacoVerdict(Stored(p.hacoMode, "long_only"), r)>> ELSE <<>>)
    \o (IF "momentum" \in p.filters
        THEN <<MomentumVerdict(Stored(p.momentumMode, "conservative"), r)>> ELSE <<>>)

\* The first filter that is not long decides.
HybridVerdict(p, r, top) ==
  LET verdicts == FilterVerdicts(p, r)
      blocks   == {i \in DOMAIN verdicts : verdicts[i] # "LONG_ELIGIBLE"}
      first    == CHOOSE i \in blocks : \A j \in blocks : i <= j
  IN  IF ~top THEN "NEUTRAL_REVIEW"
      ELSE IF blocks = {} THEN "LONG_ELIGIBLE"
      ELSE IF verdicts[first] = "SHORT_REVIEW" THEN "SHORT_REVIEW" ELSE "NEUTRAL_REVIEW"

\* evaluate_agent_eligibility: the types without indicators of their own, the
\* trailing stop's among them, open what ranks first.
Verdict(p, r, top) ==
  CASE p.type = "haco_direction" -> HacoVerdict(Stored(p.hacoMode, "long_only"), r)
    [] p.type = "true_momentum"  -> MomentumVerdict(Stored(p.momentumMode, "review_only"), r)
    [] p.type = "hybrid"         -> HybridVerdict(p, r, top)
    [] OTHER                     -> IF top THEN "LONG_ELIGIBLE" ELSE "NEUTRAL_REVIEW"

-----------------------------------------------------------------------------
(* Signals.                                                                *)

Toward(kind) ==
  CASE kind = "LONG_ELIGIBLE" -> "long" [] kind = "SHORT_REVIEW" -> "short" [] OTHER -> "neutral"

\* evaluate_atr_signal: thin bars have no point or one that is only opening.
AtrSignal(r) == IF r.atr \in {"long", "short"} THEN r.atr ELSE "neutral"

\* directional_signal: HACO's comes from its state, whatever its mode.
Signal(p, r, top) ==
  CASE p.type = "atr_trailing_stop" -> AtrSignal(r)
    [] p.type = "haco_direction"    ->
         IF r.thin THEN "neutral"
         ELSE IF r.haco = "green" THEN "long"
         ELSE IF r.haco = "red" THEN "short" ELSE "neutral"
    [] p.type = "true_momentum"     -> Toward(Verdict(p, r, top))
    [] p.type = "hybrid"            ->
         LET side == Toward(Verdict(p, r, top))
         IN  IF side = "long" /\ "atr" \in p.filters /\ AtrSignal(r) # "long" THEN "neutral" ELSE side
    [] OTHER                        -> "neutral"

Directional(p) == p.type = "atr_trailing_stop" \/ p.flags.shorts

-----------------------------------------------------------------------------
(* The run.                                                                *)

\* The side that a run opens for a candidate, or why it opens none; others is
\* the set of the sides in which anyone else holds the symbol.
OpenPlan(p, r, top, others) ==
  LET side   == Signal(p, r, top)
      facing == IF side = "long" THEN "short" ELSE "long"
      kind   == Verdict(p, r, top)
  IN  IF Directional(p)
      THEN LET bid == Bidirectional(side, "none", p.prevents /\ side # "neutral" /\ facing \in others, p.flags)
           IN  IF bid.opens # "none" THEN bid.opens ELSE bid.why
      ELSE IF kind # "LONG_ELIGIBLE"
           THEN IF kind \in {"SHORT_REVIEW", "EXIT_REVIEW"} THEN "review" ELSE "skipped"
      ELSE IF p.prevents /\ "short" \in others THEN "opposed" ELSE "long"

\* What it does with a position of its own that the review holds: the signal
\* is read without a candidate, so that nothing ranks first.
OwnPlan(p, r, own) == Bidirectional(Signal(p, r, FALSE), own, FALSE, p.flags)

-----------------------------------------------------------------------------
(* Properties.                                                             *)

\* A long is opened only where every indicator that the profile trades on
\* reads long, a short only by a profile that allows shorts and where one of
\* them reads short; and nobody opposes, of those the profile must not oppose.
OpensAreEarned(p, r, top, others) ==
  LET opens == OpenPlan(p, r, top, others)
      m     == r.momentum
  IN  /\ opens = "long" =>
           CASE p.type = "haco_direction"    -> r.haco = "green"
             [] p.type = "true_momentum"     -> ~Bearish(m) /\ Rising(m) /\ p.momentumMode \notin {"", "review_only"}
             [] p.type = "atr_trailing_stop" -> r.atr = "long"
             [] p.type = "hybrid" -> /\ top
                                     /\ "haco" \in p.filters => r.haco = "green" /\ p.hacoMode # "short_only"
                                     /\ "momentum" \in p.filters => Readable(r) /\ ~Bearish(m) /\ Rising(m)
             [] OTHER -> top
      /\ opens = "short" =>
           /\ p.flags.shorts
           /\ CASE p.type = "haco_direction"    -> r.haco = "red"
                [] p.type = "true_momentum"     -> Bearish(m) /\ ExitCaution(r)
                [] p.type = "atr_trailing_stop" -> r.atr = "short"
                [] p.type = "hybrid" -> top /\ \/ "haco" \in p.filters /\ r.haco = "red"
                                               \/ "momentum" \in p.filters /\ Bearish(m) /\ Falling(m)
                [] OTHER -> FALSE
      /\ p.prevents /\ opens \in {"long", "short"} =>
           \A s \in others : s = opens \/ (Directional(p) /\ p.flags.hedge)

\* A profile with one more filter, or with a trigger mode more careful by one,
\* opens no long that it would not open without.
MoreCareful == [conservative |-> "balanced", balanced |-> "aggressive"]
FiltersOnlyBlock(p, r, top, others) ==
  OpenPlan(p, r, top, others) = "long" =>
    /\ \A f \in p.filters : OpenPlan([p EXCEPT !.filters = @ \ {f}], r, top, others) = "long"
    /\ p.momentumMode \in DOMAIN MoreCareful =>
         OpenPlan([p EXCEPT !.momentumMode = MoreCareful[@]], r, top, others) = "long"

\* A position of its own is closed by a signal against it only, as the exit
\* caution would have it for a long of True Momentum.
OwnIsKept(p, r, own) ==
  LET plan == OwnPlan(p, r, own)
  IN  plan.close =>
        /\ Signal(p, r, FALSE) # own /\ plan.opens # own
        /\ p.type = "true_momentum" /\ own = "long" => ExitCaution(r)
        /\ plan.opens = "short" => p.flags.shorts

=============================================================================
