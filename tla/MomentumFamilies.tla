-------------------------- MODULE MomentumFamilies --------------------------
(***************************************************************************)
(* The True Momentum strategy families: a preview sorts a candidate of the *)
(* queue into at most one of them, and the applicability of each family to *)
(* the candidate is attached for a review.  Pure operators.                *)
(*                                                                         *)
(* A candidate c has evidence (its contribution tells anything), the       *)
(* direction, the class of its strategy (a set of "long", "pullback"), the *)
(* label class and the score class of the momentum total, whether its      *)
(* contribution is positive, its pullback, reversal and no-trade flags,    *)
(* what the risk calendar and the reason codes hold against it, and        *)
(* whether trend and momentum are at 70 or more.                           *)
(***************************************************************************)
EXTENDS Integers, FiniteSets

Families == {"continuation", "pullback", "reversal_watch"}

-----------------------------------------------------------------------------
(* The preview mode.                                                       *)

\* An unknown setting is disabled; without the guard nothing is enabled, and
\* active is reserved: it previews.
PreviewMode(requested, guardOpen) ==
  IF requested \in {"research_preview", "active"} /\ guardOpen
  THEN "research_preview" ELSE "disabled"

-----------------------------------------------------------------------------
(* The families of a candidate.                                            *)

LongBiased(c) == c.direction = "long" \/ "long" \in c.strategy

ReversalWatch(c) ==
  \/ c.reversal \/ c.noTrade
  \/ LongBiased(c) /\ c.label = "bearish"
  \/ LongBiased(c) /\ c.score = "deep_bear"

\* What a pullback and a continuation ask alike.
Bullish(c) ==
  /\ ~c.noTrade /\ ~c.reversal
  /\ c.label # "bearish"
  /\ c.label = "bullish" \/ c.score = "strong"
  /\ c.positive

IsPullback(c) ==
  /\ Bullish(c)
  /\ c.direction = "long"
  /\ c.pullback \/ "pullback" \in c.strategy

\* Faulty variant: a short candidate is let through by its strategy's name.
IsContinuation_AnyDirection(c) == Bullish(c) /\ LongBiased(c)

IsContinuation(c) == Bullish(c) /\ c.direction # "short" /\ LongBiased(c)

\* A warning comes before a pullback, a pullback before a continuation.
PreviewOf(c) ==
  CASE ReversalWatch(c)  -> {"reversal_watch"}
    [] ~ReversalWatch(c) /\ IsPullback(c) -> {"pullback"}
    [] ~ReversalWatch(c) /\ ~IsPullback(c) /\ IsContinuation(c) -> {"continuation"}
    [] OTHER -> {}

MatchStrength(c, family) ==
  CASE family = "reversal_watch" -> "watch"
    [] family = "pullback" ->
         IF c.pullback /\ c.label = "bullish" THEN "strong" ELSE "moderate"
    [] family = "continuation" -> IF c.trend70 /\ c.momo70 THEN "strong" ELSE "moderate"

Previews(candidates, requested, guardOpen) ==
  IF PreviewMode(requested, guardOpen) = "disabled" THEN {}
  ELSE UNION {{[candidate |-> c, family |-> f, strength |-> MatchStrength(c, f)]
                 : f \in PreviewOf(c)} : c \in candidates}

-----------------------------------------------------------------------------
(* The applicability of a family.                                          *)

\* What the warnings, the parity and the composite checks hold against it.
WarningBlockers(c) ==
  (IF c.reversal THEN {"momentum_reversal_warning"} ELSE {})
    \cup (IF c.noTrade THEN {"momentum_no_trade_warning"} ELSE {})
    \cup c.risk

\* Faulty variant: only the chart's own warnings block.
StatusOfPreview_NoCalendar(c, family) ==
  IF "composite" \in c.reasons THEN "blocked_by_composite_mismatch"
  ELSE IF "parity" \in c.reasons THEN "blocked_by_parity"
  ELSE IF family = "reversal_watch" THEN "watch_only"
  ELSE "applicable_research_preview"

\* A family with a preview: the composite first, then parity, then warnings.
StatusOfPreview(c, family) ==
  IF "composite" \in c.reasons THEN "blocked_by_composite_mismatch"
  ELSE IF "parity" \in c.reasons THEN "blocked_by_parity"
  ELSE IF WarningBlockers(c) # {} /\ family # "reversal_watch" THEN "blocked_by_warning"
  ELSE IF family = "reversal_watch" THEN "watch_only"
  ELSE "applicable_research_preview"

\* A family without one: the warnings first, then parity, then the composite.
StatusWithout(c, family) ==
  IF ~c.evidence THEN "insufficient_evidence"
  ELSE IF WarningBlockers(c) # {} /\ family # "reversal_watch" THEN "blocked_by_warning"
  ELSE IF "parity" \in c.reasons THEN "blocked_by_parity"
  ELSE IF "composite" \in c.reasons THEN "blocked_by_composite_mismatch"
  ELSE "not_applicable"

\* One row for each family.
Applicability(c) ==
  LET found == IF c.evidence THEN PreviewOf(c) ELSE {}
  IN  [f \in Families |-> IF f \in found THEN StatusOfPreview(c, f) ELSE StatusWithout(c, f)]

-----------------------------------------------------------------------------
(* Property.                                                               *)

\* At most one family of a candidate is applicable, and then nothing is held
\* against the candidate by any of the four sources, its direction is not
\* short and its momentum not bearish; a bearish momentum under a long
\* candidate is always on watch unless parity or the composite already block.
ApplicableIsUnblocked(c) ==
  LET rows == Applicability(c)
  IN  /\ Cardinality({f \in Families : rows[f] = "applicable_research_preview"}) <= 1
      /\ \A f \in Families : rows[f] = "applicable_research_preview" =>
           /\ WarningBlockers(c) = {} /\ c.reasons = {}
           /\ c.direction # "short" /\ c.label # "bearish" /\ c.positive
      /\ c.evidence /\ LongBiased(c) /\ c.label = "bearish" /\ c.reasons = {}
           => rows["reversal_watch"] = "watch_only"
=============================================================================
