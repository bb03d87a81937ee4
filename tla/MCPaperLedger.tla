---------------------------- MODULE MCPaperLedger ----------------------------
(***************************************************************************)
(* Instances of PaperLedger for TLC.  Order ids, profiles and workers are  *)
(* interchangeable, so their permutations are symmetries.                  *)
(***************************************************************************)
EXTENDS PaperLedger, TLC

AllOperations == Operations
WithoutReset  == Operations \ {"reset"}

Interchangeable ==
  Permutations(Orders) \cup Permutations(Profiles) \cup Permutations(Workers)
=============================================================================
