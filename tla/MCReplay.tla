------------------------------ MODULE MCReplay ------------------------------
(***************************************************************************)
(* Instances of Replay for TLC.                                            *)
(***************************************************************************)
EXTENDS Replay, TLC

Bars(high, low, high20, low20, atr, range, trend, busy, wild) ==
  [high |-> 40 * high, low |-> 40 * low, high20 |-> 40 * high20, low20 |-> 40 * low20,
   atr |-> 40 * atr, range |-> 40 * range, trend |-> trend, busy |-> busy, wild |-> wild]

\* A strong trend, calm and wild; a fall; a range with room and one without,
\* and one whose entry zone lies above the day before; a price that one share
\* of which is too much.
AllContexts ==
  {Bars(10, 9, 10, 6, 1, 1, 3, TRUE, FALSE), Bars(10, 9, 10, 6, 2, 4, 5, TRUE, TRUE),
   Bars(8, 7, 10, 6, 1, 2, -3, FALSE, FALSE), Bars(8, 7, 12, 6, 1, 1, 0, TRUE, FALSE),
   Bars(7, 7, 8, 6, 2, 1, 3, FALSE, FALSE), Bars(90, 80, 99, 50, 9, 9, 0, FALSE, FALSE)}

\* Nothing tells one thread, or one id, from another.
Symmetry == Permutations(Threads) \cup Permutations(Ids)
=============================================================================
