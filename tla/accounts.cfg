SPECIFICATION Spec
CONSTANTS
  k1 = k1
  k2 = k2
  Threads = {t1, t2}
  Clerk = {k1, k2}
  Emails = {e1, e2, e3}
  NoEmail = NoEmail
  Founder = k1
  MaxUser = 3
  MaxProfile = 3
  Limit <- FewEvents
CHECK_DEADLOCK FALSE
CONSTRAINT Bounded
SYMMETRY Symmetry
INVARIANTS
  SignedInHasWatchlist
  OneDefault
PROPERTIES
  GrantsStay
