----------------------------- MODULE MCAccounts -----------------------------
(***************************************************************************)
(* Instances of Accounts for TLC.                                          *)
(***************************************************************************)
EXTENDS Accounts, TLC

CONSTANTS k1, k2

\* Nothing tells one thread or address from another.
Symmetry == Permutations(Threads) \cup Permutations(Emails)

\* Few of each, and all kinds.
FewEvents == [move |-> 1, signIn |-> 2, noEmail |-> 1, invite |-> 2, status |-> 2,
              role |-> 1, delete |-> 1, profile |-> 3]

\* No more than this many in one behaviour, and fewer when some are about
\* profiles.
Bounded ==
  spent["move"] + spent["signIn"] + spent["noEmail"] + spent["invite"] + spent["status"]
    + spent["role"] + spent["delete"] + spent["profile"]
  <= IF spent["profile"] = 0 THEN 5 ELSE 4
=============================================================================
