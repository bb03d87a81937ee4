----------------------------- MODULE MCAgentRun -----------------------------
(***************************************************************************)
(* Instances of AgentRun for TLC: two symbols, and settings that reach     *)
(* every branch of the plan.                                               *)
(***************************************************************************)
EXTENDS AgentRun, TLC

\* The defaults of a directional profile, in the smallest book.
Directed ==
  [atr |-> TRUE, shorts |-> TRUE, flip |-> TRUE, closeOpposite |-> TRUE,
   prevent |-> FALSE, hedge |-> FALSE, reopen |-> FALSE, scaling |-> FALSE,
   closes |-> TRUE, opens |-> TRUE,
   maxPositions |-> 1, perRun |-> 1, perDay |-> 1, reserve |-> 0]

\* A Standard profile: long only, its reviews may ask for an addition.
Standard ==
  [Directed EXCEPT !.atr = FALSE, !.shorts = FALSE, !.scaling = TRUE,
                   !.prevent = TRUE, !.maxPositions = 2, !.perRun = 2,
                   !.perDay = 2, !.reserve = 1]

\* Shorts without flips: an opposing signal only closes.
Cautious ==
  [Directed EXCEPT !.flip = FALSE, !.maxPositions = 2, !.prevent = TRUE,
                   !.perRun = 2, !.scaling = TRUE]

\* A profile that may open what it holds, and hedge.
Adding ==
  [Directed EXCEPT !.reopen = TRUE, !.prevent = TRUE, !.hedge = TRUE,
                   !.closeOpposite = FALSE, !.flip = FALSE,
                   !.maxPositions = 2, !.perRun = 2, !.reserve = 1]

FlipSettings == {Directed}
AllSettings  == {Directed, Standard, Cautious, Adding}

Symmetry == Permutations(Threads) \cup Permutations(Profiles)
=============================================================================
