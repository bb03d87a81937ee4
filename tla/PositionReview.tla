--------------------------- MODULE PositionReview ---------------------------
(***************************************************************************)
(* The review of an open paper position and what an Agent Profile does     *)
(* with it: _build_position_review of the user's routes, the intent that   *)
(* the agent's run derives from the review, and the directional engine     *)
(* that reconsiders what the review leaves on hold.                        *)
(*                                                                         *)
(* Pure.  A position p has                                                 *)
(*   side, quantity, entry   as stored; Missing is a value not recovered   *)
(*   stop, target1, target2, maxDays   of the linked recommendation        *)
(*   days                    since it was opened, or Missing               *)
(* a snapshot m has                                                        *)
(*   answer   "ok", or the exception that the provider raised              *)
(*   price    Missing for one that is not a number                         *)
(*   fallback whether the fallback provider answered                       *)
(* and the recent recommendations are a sequence, newest first, of records *)
(* of symbol, rank, status and approved.  Prices are in cents.             *)
(***************************************************************************)
EXTENDS Integers, Sequences, SequencesExt

Missing == -99999

Sign(side) == IF side \in {"short", "sell"} THEN -1 ELSE 1
Away(x, y) == IF x < y THEN y - x ELSE x - y

-----------------------------------------------------------------------------
(* What is known of the position.                                          *)

HoldingStatus(p) ==
  CASE p.days = Missing \/ p.maxDays = Missing     -> "unavailable"
    [] p.days # Missing /\ p.maxDays # Missing /\ p.days >= p.maxDays     -> "exceeded"
    [] p.days # Missing /\ p.maxDays # Missing /\ p.days = p.maxDays - 1  -> "warning"
    [] OTHER                                       -> "within_window"

\* Faulty variant: a fallback mark is used and labelled.
UsableMark_Labelled(m, providerRequired) == m.answer = "ok" /\ m.price > 0

\* _latest_position_mark: no mark when the provider raises, when the price is
\* not positive, or when the fallback answers for a required provider.
UsableMark(m, providerRequired) ==
  m.answer = "ok" /\ m.price > 0 /\ ~(providerRequired /\ m.fallback)

\* Of the reasons for having no mark, only two make the review unavailable:
\* a provider that raises is recorded under a name of its own.
MarkNoted(m, providerRequired) ==
  m.answer = "ok" /\ ~UsableMark(m, providerRequired)

\* _ranked_context_for_symbol, from the newest row of the symbol.
RankingOf(symbol, recent) ==
  LET own == SelectSeq(recent, LAMBDA r : r.symbol = symbol)
      row == own[1]
      ranked == row.rank # Missing
  IN  CASE recent = <<>>                      -> "unavailable"
        [] recent # <<>> /\ own = <<>>        -> "not_currently_ranked"
        [] own # <<>> /\ (row.rank = 1 \/ row.status = "top_candidate") -> "top_candidate"
        [] /\ own # <<>> /\ row.rank # 1 /\ row.status # "top_candidate"
           /\ ranked /\ row.rank <= 5 /\ row.status \in {"watchlist", "approved", ""} -> "still_ranked"
        [] /\ own # <<>> /\ row.rank # 1 /\ row.status # "top_candidate"
           /\ ~(ranked /\ row.rank <= 5 /\ row.status \in {"watchlist", "approved", ""})
           /\ row.approved /\ ~ranked /\ row.status \notin {"no_trade", "rejected"} -> "unavailable"
        [] OTHER                              -> "weakened"

RankOf(symbol, recent) ==
  LET own == SelectSeq(recent, LAMBDA r : r.symbol = symbol)
  IN  IF own = <<>> THEN Missing ELSE own[1].rank

\* A distance is rounded to hundredths of a percent of the mark before it is
\* compared with zero: half of one, or less, is none.
Reached(distance, mark) == 20000 * distance <= mark

\* Faulty variant: the stop of a short is on the wrong side.
StopTriggered_LongOnly(p, mark) ==
  p.stop # Missing /\ Reached(mark - p.stop, mark)

StopTriggered(p, mark) ==
  p.stop # Missing /\ Reached((mark - p.stop) * Sign(p.side), mark)

TargetReached(p, mark) ==
  \E target \in {p.target1, p.target2} \ {Missing} :
    Reached((target - mark) * Sign(p.side), mark)

Pnl(p, mark) == (mark - p.entry) * p.quantity * Sign(p.side)

-----------------------------------------------------------------------------
(* Scale-ins.                                                              *)

\* _scale_in_blockers: one more share at the mark must stay within the order
\* limit, and one more stop distance, of the entry, within the risk budget.
ScaleInBlockers(p, mark, limits, allowsEntries) ==
  LET distance == Away(p.entry, p.stop)
  IN  (IF allowsEntries THEN {} ELSE {"risk_calendar"})
 \cup (IF mark = Missing THEN {"mark"}
       ELSE (IF p.quantity * mark + mark > limits.notional THEN {"notional"} ELSE {})
       \cup (IF p.stop = Missing THEN {"stop_missing"}
             ELSE IF distance = 0 THEN {"stop_unusable"}
             ELSE IF p.quantity * distance + distance > limits.risk THEN {"risk"} ELSE {}))

StrongRank(ranking, rank) ==
  ranking = "top_candidate" \/ (ranking = "still_ranked" /\ rank # Missing /\ rank <= 3)

-----------------------------------------------------------------------------
(* The classification.                                                     *)

\* Faulty variant: a target that was reached comes before the stop.
Classify_TargetFirst(c) ==
  CASE c.unavailable -> "review_unavailable"
    [] ~c.unavailable /\ c.target -> "target_reached_hold"
    [] ~c.unavailable /\ ~c.target /\ c.stop -> "stop_triggered"
    [] OTHER -> "hold_valid"

\* _classify_position_review: the first that applies.
Classify(c) ==
  LET verdicts ==
        <<<<c.unavailable, "review_unavailable">>,
          <<c.stop, "stop_triggered">>,
          <<c.invalidated, "invalidated">>,
          <<c.holding = "exceeded", "time_stop_exit">>,
          <<c.target /\ c.ranking \in {"weakened", "not_currently_ranked", "unavailable"},
            "target_reached_take_profit">>,
          <<c.target, "target_reached_hold">>,
          <<c.scales, "scale_in_candidate">>,
          <<c.holding = "warning", "time_stop_warning">>,
          <<TRUE, "hold_valid">>>>
      first == CHOOSE i \in DOMAIN verdicts :
                 verdicts[i][1] /\ \A j \in 1..(i - 1) : ~verdicts[j][1]
  IN  verdicts[first][2]

\* q: the position, the snapshot, the recent rows, the limits of the user,
\* whether a provider is required and what the risk calendar decided.
Review(q) ==
  LET p       == q.position
      mark    == IF UsableMark(q.snapshot, q.providerRequired) THEN q.snapshot.price ELSE Missing
      ranking == RankingOf(p.symbol, q.recent)
      stop    == mark # Missing /\ StopTriggered(p, mark)
      target  == mark # Missing /\ TargetReached(p, mark)
      blockers == ScaleInBlockers(p, mark, q.limits, q.gate.allow)
      strong  == StrongRank(ranking, RankOf(p.symbol, q.recent))
      sound   == mark # Missing /\ Pnl(p, mark) >= 0 /\ ~stop
  IN  [mark |-> mark, blockers |-> blockers,
       warned |-> ~q.gate.allow \/ (strong /\ sound /\ blockers # {}),
       action |-> Classify(
         [unavailable |-> MarkNoted(q.snapshot, q.providerRequired),
          stop |-> stop, target |-> target, ranking |-> ranking,
          invalidated |-> ranking = "weakened" /\ ~target,
          holding |-> HoldingStatus(p),
          scales |-> strong /\ sound /\ blockers = {} /\ ~target])]

-----------------------------------------------------------------------------
(* The agent.                                                              *)

CloseWorthy == {"stop_triggered", "invalidated", "time_stop_exit", "target_reached_take_profit"}

\* _position_intent
Intent(action, owner, flags) ==
  CASE owner # "own" -> IF action \in CloseWorthy THEN "CASH_NO_TRADE" ELSE "none"
    [] owner = "own" /\ action \in CloseWorthy /\ flags.closes          -> "CLOSE_PAPER"
    [] owner = "own" /\ action = "scale_in_candidate" /\ flags.scaling  -> "SCALE_IN_PAPER"
    [] OTHER                                                            -> "HOLD"

Held(side) == [close |-> FALSE, opens |-> "none", why |-> side]

\* Faulty variant: a flip to short does not ask whether shorts are allowed.
Bidirectional_ShortAnyway(direction, own, opposed, f) ==
  IF own = "none" \/ direction \in {"neutral", own} THEN Held(own)
  ELSE IF f.flip THEN [close |-> TRUE, opens |-> direction, why |-> "flip"]
  ELSE IF f.closeOpposite THEN [close |-> TRUE, opens |-> "none", why |-> "close"]
  ELSE Held(own)

\* decide_bidirectional_action
Bidirectional(direction, own, opposed, f) ==
  LET mayOpen == direction = "long" \/ f.shorts
  IN  CASE direction = "neutral" \/ own = direction -> Held(own)
        [] direction # "neutral" /\ own = "none" ->
             IF opposed /\ ~f.hedge THEN [close |-> FALSE, opens |-> "none", why |-> "opposed"]
             ELSE IF mayOpen THEN [close |-> FALSE, opens |-> direction, why |-> "open"]
             ELSE [close |-> FALSE, opens |-> "none", why |-> "short_blocked"]
        [] OTHER ->
             IF mayOpen /\ f.flip THEN [close |-> TRUE, opens |-> direction, why |-> "flip"]
             ELSE IF f.closeOpposite THEN [close |-> TRUE, opens |-> "none", why |-> "close"]
             ELSE Held(own)

\* What a run plans for a position of its own: only a hold is reconsidered.
Planned(q, review, direction, f) ==
  LET action == review.action
      intent == Intent(action, "own", f)
      signal == Bidirectional(direction, q.position.side, FALSE, f)
  IN  IF f.directional /\ intent = "HOLD" /\ signal.close /\ f.closes
      THEN [intent |-> "CLOSE_PAPER", reason |-> signal.why, opens |-> signal.opens]
      ELSE [intent |-> intent, reason |-> action, opens |-> "none"]

-----------------------------------------------------------------------------
(* Properties.                                                             *)

Beyond(p, mark) == (mark - p.stop) * Sign(p.side) <= 0

\* A protective stop has the last word: with a mark at or beyond the stop,
\* a profile that may close plans to close the position because of its stop
\* and does not open the other side, whatever the targets, the ranking, the
\* holding period and the signal say; and the stop is never said to be hit by
\* a mark further from it than a hundredth of a percent.
StopWins(q, review, direction, f) ==
  LET p    == q.position
      mark == review.mark
      plan == Planned(q, review, direction, f)
  IN  mark # Missing /\ p.stop # Missing =>
        /\ Beyond(p, mark) /\ f.closes =>
             plan = [intent |-> "CLOSE_PAPER", reason |-> "stop_triggered", opens |-> "none"]
        /\ review.action = "stop_triggered" => 10000 * (mark - p.stop) * Sign(p.side) < mark

\* Nobody adds to a position that the limits, the risk calendar or its own
\* levels forbid: the position with one more share at the mark is within the
\* order limit, new entries are allowed, the mark is real, on the right side
\* of the stop, not at a loss and short of both targets, and the run neither
\* opens a short for a profile without shorts nor opens what it does not close.
AdditionIsSound(q, review, direction, f) ==
  LET p    == q.position
      plan == Planned(q, review, direction, f)
  IN  /\ review.action = "scale_in_candidate" =>
           /\ q.gate.allow /\ (q.providerRequired => ~q.snapshot.fallback)
           /\ (p.quantity + 1) * review.mark <= q.limits.notional
           /\ p.stop # Missing /\ ~Beyond(p, review.mark) /\ Pnl(p, review.mark) >= 0
           /\ \A t \in {p.target1, p.target2} \ {Missing} : (t - review.mark) * Sign(p.side) > 0
      /\ plan.opens = "short" => f.shorts
      /\ plan.opens # "none" => plan.intent = "CLOSE_PAPER" /\ plan.opens # p.side

ReviewIsSound(q, review, direction, f) ==
  StopWins(q, review, direction, f) /\ AdditionIsSound(q, review, direction, f)

\* A position that is held as valid has a mark, and the mark is on the right
\* side of its stop.  No run checks it: the code tests for other reasons than it
\* records, and holds positions whose mark it has not (README, known divergences).
HoldIsChecked(q) ==
  Review(q).action = "hold_valid" /\ q.position.stop # Missing =>
    Review(q).mark # Missing /\ ~Beyond(q.position, Review(q).mark)

\* A restricted gate warns against additions as a blocking one does.  No run
\* checks it: the code warns of a blocking gate only (README, known divergences).
RestrictedIsWarned(q) == q.gate.state = "restricted" => Review(q).warned
=============================================================================
