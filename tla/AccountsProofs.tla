--------------------------- MODULE AccountsProofs ---------------------------
(***************************************************************************)
(* Proofs about Accounts: its types, the watchlist of whoever has signed   *)
(* in, the grants that stay, and the one default profile.                  *)
(***************************************************************************)
EXTENDS Accounts, FiniteSetTheorems, TLAPS

(***************************************************************************)
(* The next id of a table is free                                          *)
(***************************************************************************)

LEMMA NextIsFree ==
  ASSUME NEW N \in Nat, NEW S \in SUBSET (1..N)
  PROVE  LET below == {p \in 1..N : \E q \in 1..N : p <= q /\ q \in S}
         IN  Cardinality(below) \in Nat /\ 1 + Cardinality(below) \notin S
<1> DEFINE below == {p \in 1..N : \E q \in 1..N : p <= q /\ q \in S}
           c == 1 + Cardinality(below)
<1>1. IsFiniteSet(1..N) /\ below \subseteq 1..N
  BY FS_Interval
<1>2. IsFiniteSet(below) /\ Cardinality(below) \in Nat
  BY <1>1, FS_Subset, FS_CardinalityType
<1>3. ASSUME c \in S PROVE FALSE
  <2>1. c \in 1..N
    BY <1>3
  <2>2. 1..c \subseteq below
    <3>1. ASSUME NEW p \in 1..c PROVE p \in below
      BY <1>3, <2>1
    <3> QED BY <3>1
  <2>3. Cardinality(1..c) <= Cardinality(below)
    BY <1>2, <2>2, FS_Subset
  <2>4. Cardinality(1..c) = c
    BY <2>1, FS_Interval
  <2> HIDE DEF below
  <2> QED BY <1>2, <2>3, <2>4
<1> QED BY <1>2, <1>3

LEMMA FreeIds ==
  ASSUME TypeOK
  PROVE  /\ NextId \in Nat \ {0} /\ NextProfile \in Nat \ {0}
         /\ NextId <= MaxUser => NextId \in UserIds /\ users[NextId] = NoRow
         /\ NextProfile <= MaxProfile =>
              NextProfile \in ProfileIds /\ profiles[NextProfile] = NoProfile
<1> DEFINE rows == {u \in UserIds : Exists(u)}
           kept == {p \in ProfileIds : profiles[p] # NoProfile}
<1>1. MaxUser \in Nat /\ MaxProfile \in Nat
  BY AccountAssumption
<1>2. NextId \in Nat \ {0} /\ NextId \notin rows
  <2>1. {u \in UserIds : \E v \in UserIds : u <= v /\ Exists(v)}
          = {u \in 1..MaxUser : \E v \in 1..MaxUser : u <= v /\ v \in rows}
    BY DEF UserIds
  <2>2. rows \in SUBSET (1..MaxUser)
    BY DEF UserIds
  <2> HIDE DEF rows
  <2> QED BY <1>1, <2>1, <2>2, NextIsFree DEF NextId
<1>3. NextProfile \in Nat \ {0} /\ NextProfile \notin kept
  <2>1. {p \in ProfileIds : \E q \in ProfileIds : p <= q /\ profiles[q] # NoProfile}
          = {p \in 1..MaxProfile : \E q \in 1..MaxProfile : p <= q /\ q \in kept}
    BY DEF ProfileIds
  <2>2. kept \in SUBSET (1..MaxProfile)
    BY DEF ProfileIds
  <2> HIDE DEF kept
  <2>3. LET below == {p \in 1..MaxProfile : \E q \in 1..MaxProfile : p <= q /\ q \in kept}
        IN  Cardinality(below) \in Nat /\ 1 + Cardinality(below) \notin kept
    BY <1>1, <2>2, NextIsFree
  <2> DEFINE c == Cardinality({p \in 1..MaxProfile : \E q \in 1..MaxProfile : p <= q /\ q \in kept})
  <2>4. NextProfile = 1 + c
    BY <2>1 DEF NextProfile
  <2>5. c \in Nat /\ 1 + c \notin kept
    BY <2>3
  <2> HIDE DEF c
  <2> QED BY <2>4, <2>5
<1> QED BY <1>1, <1>2, <1>3 DEF UserIds, ProfileIds, Exists

(***************************************************************************)
(* What a sign-in writes                                                   *)
(***************************************************************************)

LEMMA WrittenTyped ==
  ASSUME NEW now \in User, NEW read \in User, NEW new \in User
  PROVE  LET w == Written(now, read, new) IN
         /\ w \in User
         /\ w.email = IF new.email = read.email THEN now.email ELSE new.email
         /\ w.ext = IF new.ext = read.ext THEN now.ext ELSE new.ext
         /\ w.status = IF new.status = read.status THEN now.status ELSE new.status
         /\ w.role = IF new.role = read.role THEN now.role ELSE new.role
<1> DEFINE w == Written(now, read, new)
           r == [email |-> IF new.email = read.email THEN now.email ELSE new.email,
                 ext |-> IF new.ext = read.ext THEN now.ext ELSE new.ext,
                 status |-> IF new.status = read.status THEN now.status ELSE new.status,
                 role |-> IF new.role = read.role THEN now.role ELSE new.role]
<1>1. w = r
  <2>1. DOMAIN now = {"email", "ext", "status", "role"}
    BY DEF User
  <2>2. DOMAIN r = DOMAIN now
    BY <2>1
  <2>3. \A c \in DOMAIN now : r[c] = IF new[c] = read[c] THEN now[c] ELSE new[c]
    BY <2>1
  <2> QED BY <2>2, <2>3 DEF Written
<1>2. r \in User
  BY DEF User
<1>3. /\ r.email = IF new.email = read.email THEN now.email ELSE new.email
      /\ r.ext = IF new.ext = read.ext THEN now.ext ELSE new.ext
      /\ r.status = IF new.status = read.status THEN now.status ELSE new.status
      /\ r.role = IF new.role = read.role THEN now.role ELSE new.role
  OBVIOUS
<1> HIDE DEF w, r
<1>4. w \in User
  BY <1>1, <1>2
<1> QED BY <1>1, <1>3, <1>4 DEF w
(***************************************************************************)
(* The invariant of the accounts                                           *)
(***************************************************************************)

\* What a request has in its local variables.
MergeOK(th) ==
  /\ th.op \in {"signIn", "invite"}
  /\ \A u \in th.seen : th.rows[u] \in User
  /\ th.op = "signIn" => th.who \in Clerk
  /\ th.seen = {} => th.email \in Emails
  /\ th.op = "invite" =>
       /\ th.seen = {} => th.who = Invited
       /\ \A u \in th.seen : th.seen = {u} /\ th.who = th.rows[u].ext

CommitOK(th) ==
  /\ th.op \in {"ensure", "create", "default", "drop"}
  /\ \A p \in ProfileIds : th.view[p] = NoProfile \/ th.view[p].user = th.user
  /\ th.op = "default" => th.target \in Of(th.user, th.view)
  /\ th.op = "drop" => Deletable(th.user, th.target, th.view)

Sound(th) ==
  /\ th \in Thread
  /\ th.at \in {"touch", "ready", "commit"} => th.user \in UserIds
  /\ th.at = "merge" => MergeOK(th)
  /\ th.at = "commit" => CommitOK(th)

AccountInv ==
  /\ TypeOK
  /\ \A t \in Threads : Sound(threads[t])
  /\ Unique(users)

\* A row that a sign-in has read as bound to a person has a watchlist.
WatchInv ==
  /\ \A t \in Threads : threads[t].at = "merge" =>
       \A u \in threads[t].seen \ crossed :
         threads[t].rows[u].ext # Invited => u \in seeded
  /\ SignedInHasWatchlist

LEMMA Constant ==
  /\ Nobody \in [UserIds -> User \cup {NoRow}] /\ Nothing \in [ProfileIds -> Profile \cup {NoProfile}]
  /\ NoRow \notin User /\ Invited \notin Clerk /\ NoProfile \notin Profile
  /\ NoUser \notin UserIds
<1>1. NoRow \notin User
  BY AccountAssumption DEF NoRow, User
<1>2. NoProfile \notin Profile /\ NoUser \notin UserIds
  BY AccountAssumption DEF NoProfile, Profile, UserIds, NoUser
<1>3. Nobody \in [UserIds -> User \cup {NoRow}] /\ Nothing \in [ProfileIds -> Profile \cup {NoProfile}]
  BY DEF Nobody, Nothing
<1> QED BY <1>1, <1>2, <1>3, AccountAssumption DEF Invited

LEMMA IdleSound == Sound(Idle)
  BY Constant DEF Idle, Sound, Thread, NoUser

\* One thread goes on, with local variables that are sound.
LEMMA ThreadStep ==
  ASSUME AccountInv, NEW t \in Threads, NEW th, Sound(th), Goto(t, th)
  PROVE  /\ threads' \in [Threads -> Thread]
         /\ \A o \in Threads : Sound(threads'[o])
         /\ threads'[t] = th /\ \A o \in Threads \ {t} : threads'[o] = threads[o]
<1>1. threads \in [Threads -> Thread] /\ th \in Thread
  BY DEF AccountInv, TypeOK, Sound
<1>2. threads' = [threads EXCEPT ![t] = th]
  BY DEF Goto
<1>3. \A o \in Threads : threads'[o] = IF o = t THEN th ELSE threads[o]
  BY <1>1, <1>2
<1> QED BY <1>1, <1>2, <1>3 DEF AccountInv

LEMMA SpendTyped ==
  ASSUME TypeOK, NEW e \in Events, Spend(e)
  PROVE  spent' \in [Events -> Nat]
  BY DEF TypeOK, Spend

LEMMA ReadTyped ==
  ASSUME AccountInv, NEW seen \in SUBSET UserIds, \A u \in seen : Exists(u)
  PROVE  /\ Read(seen) \in [UserIds -> User \cup {NoRow}]
         /\ \A u \in seen : Read(seen)[u] = users[u] /\ users[u] \in User
  BY DEF AccountInv, TypeOK, Read, Exists

LEMMA AccountInit == Init => AccountInv /\ WatchInv
<1> SUFFICES ASSUME Init PROVE AccountInv /\ WatchInv
  OBVIOUS
<1>1. mailOf \in [Clerk -> Emails] /\ Founder \in Clerk /\ 1 \in UserIds
  BY AccountAssumption DEF Init, UserIds
<1> DEFINE founder == [email |-> mailOf[Founder], ext |-> Founder,
                       status |-> "approved", role |-> "admin"]
<1>2. founder \in User
  BY <1>1 DEF User, Status, Roles
<1>3. users = [Nobody EXCEPT ![1] = founder]
  BY DEF Init
<1> HIDE DEF founder
<1>4. \A u \in UserIds : users[u] = IF u = 1 THEN founder ELSE NoRow
  BY <1>1, <1>3 DEF Nobody
<1>5. users \in [UserIds -> User \cup {NoRow}]
  BY <1>1, <1>2, <1>3, Constant
<1>6. profiles \in [ProfileIds -> Profile \cup {NoProfile}]
  <2>1. 1 \in ProfileIds /\ 2 \in ProfileIds
    BY AccountAssumption DEF ProfileIds
  <2>2. \A d \in BOOLEAN : [user |-> 1, default |-> d] \in Profile
    BY <1>1 DEF Profile
  <2> QED BY <2>1, <2>2, Constant DEF Init
<1>7. \A t \in Threads : threads[t] = Idle /\ Sound(threads[t])
  BY IdleSound DEF Init
<1>8. threads \in [Threads -> Thread] /\ seeded = {1} /\ raced = {} /\ crossed = {}
      /\ spent \in [Events -> Nat]
  BY <1>7, IdleSound DEF Init, Sound
<1>9. Unique(users)
  BY <1>4 DEF Unique
<1>10. TypeOK
  BY <1>1, <1>5, <1>6, <1>8 DEF TypeOK
<1>11. WatchInv
  BY <1>4, <1>7, <1>8 DEF WatchInv, SignedInHasWatchlist, Exists, Idle
<1> QED BY <1>7, <1>9, <1>10, <1>11 DEF AccountInv

(***************************************************************************)
(* The steps                                                               *)
(***************************************************************************)

\* A request that reads no rows for a merge leaves those of the others as they
\* were; who loses a watchlist is deleted.
LEMMA WatchStep ==
  ASSUME AccountInv, WatchInv, NEW t \in Threads, NEW th, Sound(th), Goto(t, th),
         th.at # "merge", crossed \subseteq crossed', SignedInHasWatchlist',
         \A u \in seeded \ seeded' : \A o \in Threads \ {t} :
           threads[o].at = "merge" /\ u \in threads[o].seen => u \in crossed'
  PROVE  WatchInv'
<1>1. threads'[t] = th /\ \A o \in Threads \ {t} : threads'[o] = threads[o]
  BY ThreadStep
<1>2. ASSUME NEW o \in Threads, threads'[o].at = "merge",
             NEW u \in threads'[o].seen \ crossed', threads'[o].rows[u].ext # Invited
      PROVE  u \in seeded'
  <2>1. o # t /\ threads'[o] = threads[o]
    BY <1>1, <1>2
  <2>2. u \in seeded
    BY <1>2, <2>1 DEF WatchInv
  <2> QED BY <1>2, <2>1, <2>2
<1> QED BY <1>2 DEF WatchInv

\* A request goes on without a merge, and no account changes.
LEMMA QuietStep ==
  ASSUME AccountInv, WatchInv, NEW t \in Threads, NEW th, Sound(th), Goto(t, th),
         th.at # "merge", UNCHANGED <<users, seeded, crossed>>,
         mailOf' \in [Clerk -> Emails], raced' \subseteq UserIds, spent' \in [Events -> Nat],
         profiles' \in [ProfileIds -> Profile \cup {NoProfile}]
  PROVE  AccountInv' /\ WatchInv'
<1>1. TypeOK' /\ \A o \in Threads : Sound(threads'[o])
  BY ThreadStep DEF AccountInv, TypeOK
<1>2. Unique(users)' /\ SignedInHasWatchlist'
  BY DEF AccountInv, WatchInv, SignedInHasWatchlist, Exists, Unique
<1>3. WatchInv'
  BY <1>2, WatchStep
<1> QED BY <1>1, <1>2, <1>3 DEF AccountInv

\* A request reads the rows of a merge.
LEMMA ReadStep ==
  ASSUME AccountInv, WatchInv, NEW t \in Threads, NEW th, Sound(th), Goto(t, th),
         th.seen \subseteq UserIds, \A u \in th.seen : th.rows[u] = users[u] /\ Exists(u),
         UNCHANGED <<mailOf, users, seeded, profiles, raced, crossed>>,
         spent' \in [Events -> Nat]
  PROVE  AccountInv' /\ WatchInv'
<1>1. TypeOK' /\ \A o \in Threads : Sound(threads'[o])
  BY ThreadStep DEF AccountInv, TypeOK
<1>2. Unique(users)' /\ SignedInHasWatchlist'
  BY DEF AccountInv, WatchInv, SignedInHasWatchlist, Exists, Unique
<1>3. threads'[t] = th /\ \A o \in Threads \ {t} : threads'[o] = threads[o]
  BY ThreadStep
<1>4. ASSUME NEW o \in Threads, threads'[o].at = "merge",
             NEW u \in threads'[o].seen \ crossed', threads'[o].rows[u].ext # Invited
      PROVE  u \in seeded'
  <2>1. CASE o = t
    <3>1. u \in UserIds \ crossed /\ Exists(u) /\ users[u].ext # Invited
      BY <1>3, <1>4, <2>1
    <3> QED BY <3>1 DEF WatchInv, SignedInHasWatchlist
  <2>2. CASE o # t
    BY <1>3, <1>4, <2>2 DEF WatchInv
  <2> QED BY <2>1, <2>2
<1>5. WatchInv'
  BY <1>2, <1>4 DEF WatchInv
<1> QED BY <1>1, <1>2, <1>5 DEF AccountInv

LEMMA MoveStep ==
  ASSUME AccountInv, WatchInv, NEW k \in Clerk, NEW e \in Emails, Move(k, e)
  PROVE  AccountInv' /\ WatchInv'
<1>1. spent' \in [Events -> Nat]
  BY SpendTyped DEF Move, Events, AccountInv
<1>2. mailOf' \in [Clerk -> Emails]
  BY DEF Move, AccountInv, TypeOK
<1>3. UNCHANGED <<users, seeded, profiles, raced, crossed, threads>>
  BY DEF Move
<1>4. TypeOK'
  BY <1>1, <1>2, <1>3 DEF AccountInv, TypeOK
<1>5. Unique(users)' /\ WatchInv' /\ \A t \in Threads : Sound(threads'[t])
  BY <1>3 DEF AccountInv, WatchInv, SignedInHasWatchlist, Exists, Unique
<1> QED BY <1>4, <1>5 DEF AccountInv

LEMMA CandidatesExist ==
  ASSUME AccountInv, NEW k, NEW e
  PROVE  /\ Candidates(k, e) \in SUBSET UserIds
         /\ \A u \in Candidates(k, e) : Exists(u)
  BY DEF Candidates

LEMMA SignInStepOK ==
  ASSUME AccountInv, WatchInv, NEW t \in Threads, NEW k \in Clerk,
         NEW e \in Emails \cup {NoEmail}, SignIn(t, k, e)
  PROVE  AccountInv' /\ WatchInv'
<1>1. PICK seen \in SUBSET UserIds : seen = Candidates(k, e) /\ \A u \in seen : Exists(u)
  BY CandidatesExist
<1>2. PICK rows \in [UserIds -> User \cup {NoRow}] :
        rows = Read(seen) /\ \A u \in seen : rows[u] = users[u] /\ users[u] \in User
  BY <1>1, ReadTyped
<1> DEFINE th == [Idle EXCEPT !.at = "merge", !.op = "signIn", !.who = k, !.email = e,
                              !.seen = seen, !.rows = rows]
<1>3. /\ th.at = "merge" /\ th.op = "signIn" /\ th.who = k /\ th.email = e
      /\ th.seen = seen /\ th.rows = rows
  BY DEF Idle
<1>4. seen = {} => e \in Emails
  BY <1>1 DEF SignIn
<1>5. th \in Thread
  BY IdleSound DEF Sound, Thread
<1>6. Goto(t, th) /\ UNCHANGED <<mailOf, users, seeded, profiles, raced, crossed>>
  BY <1>1, <1>2 DEF SignIn
<1>7. spent' \in [Events -> Nat]
  BY SpendTyped DEF SignIn, Events, AccountInv
<1> HIDE DEF th
<1>8. Sound(th)
  BY <1>2, <1>3, <1>4, <1>5 DEF Sound, MergeOK
<1> QED BY <1>1, <1>2, <1>3, <1>6, <1>7, <1>8, ReadStep

LEMMA SignInAgainStep ==
  ASSUME AccountInv, WatchInv, NEW t \in Threads, NEW k \in Clerk, SignInAgain(t, k)
  PROVE  AccountInv' /\ WatchInv'
<1>1. PICK u \in UserIds :
        Goto(t, [Idle EXCEPT !.at = "touch", !.op = "signIn", !.user = u])
  BY DEF SignInAgain
<1> DEFINE th == [Idle EXCEPT !.at = "touch", !.op = "signIn", !.user = u]
<1>2. Sound(th) /\ th.at = "touch"
  BY IdleSound DEF Sound, Thread, Idle
<1>3. UNCHANGED <<mailOf, users, seeded, profiles, raced, crossed, spent>>
  BY DEF SignInAgain
<1> HIDE DEF th
<1> QED BY <1>1, <1>2, <1>3, QuietStep DEF th, AccountInv, TypeOK

LEMMA InviteStep ==
  ASSUME AccountInv, WatchInv, NEW t \in Threads, NEW e \in Emails, Invite(t, e)
  PROVE  AccountInv' /\ WatchInv'
<1>1. PICK seen \in SUBSET UserIds :
        seen = Candidates(Invited, e) /\ \A u \in seen : Exists(u)
  BY CandidatesExist
<1>2. PICK rows \in [UserIds -> User \cup {NoRow}] :
        rows = Read(seen) /\ \A u \in seen : rows[u] = users[u] /\ users[u] \in User
  BY <1>1, ReadTyped
<1>3. \A u \in seen : seen = {u}
  BY <1>1 DEF Candidates, Exists, AccountInv, Unique
<1>4. PICK who \in Clerk \cup {Invited} :
        who = IF seen = {} THEN Invited ELSE users[CHOOSE u \in seen : TRUE].ext
  BY <1>2 DEF User
<1>5. /\ seen = {} => who = Invited
      /\ \A u \in seen : who = rows[u].ext
  BY <1>2, <1>3, <1>4
<1> DEFINE th == [Idle EXCEPT !.at = "merge", !.op = "invite", !.email = e,
                              !.seen = seen, !.rows = rows, !.who = who]
<1>6. /\ th.at = "merge" /\ th.op = "invite" /\ th.who = who /\ th.email = e
      /\ th.seen = seen /\ th.rows = rows
  BY DEF Idle
<1>7. th \in Thread
  BY IdleSound DEF Sound, Thread
<1>8. Goto(t, th) /\ UNCHANGED <<mailOf, users, seeded, profiles, raced, crossed>>
  BY <1>1, <1>2, <1>4 DEF Invite
<1>9. spent' \in [Events -> Nat]
  BY SpendTyped DEF Invite, Events, AccountInv
<1> HIDE DEF th
<1>10. Sound(th)
  BY <1>2, <1>3, <1>5, <1>6, <1>7 DEF Sound, MergeOK
<1> QED BY <1>1, <1>2, <1>6, <1>8, <1>9, <1>10, ReadStep

LEMMA RefusedStep ==
  ASSUME AccountInv, WatchInv, NEW t \in Threads, Refused(t),
         UNCHANGED <<mailOf, raced, crossed, spent>>
  PROVE  AccountInv' /\ WatchInv'
  BY IdleSound, QuietStep DEF Refused, Leave, Idle, AccountInv, TypeOK

\* What Proceed goes on with.
LEMMA ProceedSound ==
  ASSUME AccountInv, NEW t \in Threads, NEW u \in UserIds, Proceed(t, u)
  PROVE  \E th : Sound(th) /\ Goto(t, th) /\ th.at # "merge"
<1> DEFINE th == [Idle EXCEPT !.at = "touch", !.op = "signIn", !.user = u]
<1>1. Sound(th) /\ th.at # "merge" /\ Sound(Idle) /\ Idle.at # "merge"
  BY IdleSound DEF Sound, Thread, Idle
<1>2. Goto(t, th) \/ Goto(t, Idle)
  BY DEF Proceed, Leave
<1> HIDE DEF th
<1> QED BY <1>1, <1>2

\* Rows change, and the request goes on.
LEMMA UsersStep ==
  ASSUME AccountInv, WatchInv, NEW t \in Threads, NEW th, Sound(th), Goto(t, th),
         th.at # "merge", UNCHANGED <<mailOf, profiles, raced>>,
         spent' \in [Events -> Nat], seeded' \subseteq UserIds, crossed' \subseteq UserIds,
         users' \in [UserIds -> User \cup {NoRow}], Unique(users'),
         crossed \subseteq crossed', SignedInHasWatchlist',
         \A u \in seeded \ seeded' : \A o \in Threads \ {t} :
           threads[o].at = "merge" /\ u \in threads[o].seen => u \in crossed'
  PROVE  AccountInv' /\ WatchInv'
<1>1. TypeOK' /\ \A o \in Threads : Sound(threads'[o])
  BY ThreadStep DEF AccountInv, TypeOK
<1>2. WatchInv'
  BY WatchStep
<1> QED BY <1>1, <1>2 DEF AccountInv

LEMMA RegisterStep ==
  ASSUME AccountInv, WatchInv, NEW t \in Threads, Register(t)
  PROVE  AccountInv' /\ WatchInv'
<1>1. PICK th \in Thread : th = threads[t]
  BY DEF AccountInv, TypeOK
<1>2. MergeOK(th) /\ th.at = "merge" /\ th.seen = {} /\ th.email \in Emails
  BY <1>1 DEF Register, AccountInv, Sound, MergeOK
<1>3. PICK n \in UserIds : n = NextId
  BY FreeIds DEF Register, AccountInv
<1> DEFINE new == NewUser(th.who, th.email)
           rows == [users EXCEPT ![n] = new]
<1>4. new \in User /\ new.ext = th.who
  BY <1>1, <1>2 DEF NewUser, User, Status, Roles, Thread
<1> HIDE DEF new
<1>5. rows \in [UserIds -> User \cup {NoRow}] /\ \A u \in UserIds : rows[u] = IF u = n THEN new ELSE users[u]
  BY <1>4 DEF AccountInv, TypeOK
<1> HIDE DEF rows
<1>6. CASE Unique(rows)
  <2>1. /\ users' = rows /\ Proceed(t, n)
        /\ seeded' = (IF Seeds(t) THEN seeded \cup {n} ELSE seeded)
        /\ UNCHANGED <<mailOf, profiles, raced, crossed, spent>>
    BY <1>1, <1>3, <1>6 DEF Register, rows, new
  <2>2. PICK next : Sound(next) /\ Goto(t, next) /\ next.at # "merge"
    BY <2>1, ProceedSound
  <2>3. new.ext # Invited => n \in seeded'
    BY <1>1, <1>2, <1>4, <2>1 DEF MergeOK, Seeds
  <2>4. SignedInHasWatchlist'
    <3>1. ASSUME NEW u \in UserIds \ crossed', Exists(u)', users'[u].ext # Invited
          PROVE  u \in seeded'
      <4>1. CASE u = n
        BY <1>5, <2>1, <2>3, <3>1, <4>1
      <4>2. CASE u # n
        BY <1>5, <2>1, <3>1, <4>2 DEF WatchInv, SignedInHasWatchlist, Exists
      <4> QED BY <4>1, <4>2
    <3> QED BY <3>1 DEF SignedInHasWatchlist, Exists
  <2>5. /\ seeded \subseteq seeded' /\ seeded' \subseteq UserIds /\ spent' \in [Events -> Nat]
        /\ crossed' \subseteq UserIds
    BY <2>1 DEF AccountInv, TypeOK
  <2> QED BY <1>5, <1>6, <2>1, <2>2, <2>4, <2>5, UsersStep
<1>7. CASE ~ Unique(rows)
  <2>1. Refused(t) /\ UNCHANGED <<mailOf, raced, crossed, spent>>
    BY <1>1, <1>3, <1>7 DEF Register, rows, new
  <2> QED BY <2>1, RefusedStep
<1> QED BY <1>6, <1>7

\* What is written of the rows that were read.
LEMMA HeirFacts ==
  ASSUME NEW th \in Thread, MergeOK(th), th.seen # {}, AccountInv,
         \A u \in th.seen : Exists(u),
         NEW new \in Merged(th.rows, th.seen, th.who, th.email)
  PROVE  LET c == Canonical(th.rows, th.seen, th.email)
             w == Written(users[c], th.rows[c], new)
         IN  /\ c \in th.seen /\ w \in User
             /\ w.ext = IF th.who = th.rows[c].ext THEN users[c].ext ELSE th.who
             /\ \E best \in Strongest(th.rows, th.seen) :
                  w.status = IF th.rows[best].status = th.rows[c].status
                             THEN users[c].status ELSE th.rows[best].status
<1>1. PICK c \in th.seen : c = Canonical(th.rows, th.seen, th.email)
  BY DEF Canonical
<1>2. c \in UserIds /\ th.rows[c] \in User /\ users[c] \in User
  BY <1>1 DEF MergeOK, Thread, AccountInv, TypeOK, Exists
<1>3. PICK best \in Strongest(th.rows, th.seen) :
        new = [email  |-> IF th.email = NoEmail
                          THEN th.rows[c].email ELSE th.email,
               ext    |-> th.who,
               status |-> th.rows[best].status,
               role   |-> IF \E u \in th.seen : th.rows[u].role = "admin"
                          THEN "admin" ELSE "user"]
  BY <1>1 DEF Merged
<1>4. best \in th.seen /\ th.rows[best] \in User
  BY <1>3 DEF Strongest, MergeOK
<1>5. th.email \in Emails \cup {NoEmail} /\ th.who \in Clerk \cup {Invited}
  BY DEF Thread
<1>6. new \in User /\ new.ext = th.who /\ new.status = th.rows[best].status
  BY <1>2, <1>3, <1>4, <1>5 DEF User, Roles
<1> QED BY <1>1, <1>2, <1>3, <1>6, WrittenTyped

LEMMA MergeStep ==
  ASSUME AccountInv, WatchInv, NEW t \in Threads, Merge(t)
  PROVE  AccountInv' /\ WatchInv'
<1>1. PICK th \in Thread : th = threads[t]
  BY DEF AccountInv, TypeOK
<1>2. MergeOK(th) /\ th.at = "merge" /\ th.seen # {} /\ th.seen \subseteq UserIds
  BY <1>1 DEF Merge, AccountInv, Sound, Thread
<1>3. PICK c : c = Canonical(th.rows, th.seen, th.email)
  OBVIOUS
<1> DEFINE gone == th.seen \ {c}
<1>4. CASE Refused(t) /\ UNCHANGED <<mailOf, raced, crossed, spent>>
  BY <1>4, RefusedStep
<1>5. ASSUME NEW new \in Merged(th.rows, th.seen, th.who, th.email),
             \A u \in th.seen : Exists(u),
             Unique([u \in UserIds |-> IF u = c THEN Written(users[c], th.rows[c], new)
                                       ELSE IF u \in gone THEN NoRow ELSE users[u]]),
             users' = [u \in UserIds |-> IF u = c THEN Written(users[c], th.rows[c], new)
                                         ELSE IF u \in gone THEN NoRow ELSE users[u]],
             seeded' = (seeded \ gone) \cup
                         (IF Seeds(t) \/ seeded \cap gone # {} THEN {c} ELSE {}),
             Crossed(t, gone), Proceed(t, c), UNCHANGED <<mailOf, profiles, raced, spent>>
      PROVE  AccountInv' /\ WatchInv'
  <2>1. PICK w \in User : w = Written(users[c], th.rows[c], new) /\ c \in th.seen /\
          w.ext = IF th.who = th.rows[c].ext THEN users[c].ext ELSE th.who
    BY <1>2, <1>3, <1>5, HeirFacts
  <2>2. users' \in [UserIds -> User \cup {NoRow}] /\ Unique(users')
        /\ \A u \in UserIds : users'[u] = IF u = c THEN w ELSE IF u \in gone THEN NoRow
                                          ELSE users[u]
    BY <1>5, <2>1 DEF AccountInv, TypeOK
  <2>3. PICK next : Sound(next) /\ Goto(t, next) /\ next.at # "merge"
    BY <1>2, <1>5, <2>1, ProceedSound
  <2>4. c \notin crossed /\ w.ext # Invited => c \in seeded'
    <3> SUFFICES ASSUME c \notin crossed, w.ext # Invited, ~ Seeds(t) PROVE c \in seeded'
      BY <1>5
    <3>1. CASE th.op = "signIn"
      <4>1. th.rows[c].ext # Invited
        BY <1>1, <2>1, <3>1 DEF Seeds
      <4>2. c \in seeded
        BY <1>1, <1>2, <2>1, <4>1 DEF WatchInv
      <4> QED BY <1>5, <4>2
    <3>2. CASE th.op = "invite"
      <4>1. users[c].ext # Invited /\ Exists(c) /\ c \in UserIds
        BY <1>2, <1>5, <2>1, <3>2 DEF MergeOK
      <4>2. c \in seeded
        BY <4>1 DEF WatchInv, SignedInHasWatchlist
      <4> QED BY <1>5, <4>2
    <3> QED BY <1>2, <3>1, <3>2 DEF MergeOK
  <2>5. /\ crossed \subseteq crossed' /\ crossed' \subseteq UserIds
        /\ \A u \in gone : \A o \in Threads \ {t} :
             threads[o].at = "merge" /\ u \in threads[o].seen => u \in crossed'
    BY <1>2, <1>5 DEF Crossed, AccountInv, TypeOK
  <2>6. SignedInHasWatchlist'
    <3>1. ASSUME NEW u \in UserIds \ crossed', Exists(u)', users'[u].ext # Invited
          PROVE  u \in seeded'
      <4>1. CASE u = c
        BY <2>2, <2>4, <2>5, <3>1, <4>1
      <4>2. CASE u # c
        <5>1. u \notin gone /\ users'[u] = users[u]
          BY <2>2, <3>1, <4>2 DEF Exists
        <5>2. u \in seeded
          BY <2>5, <3>1, <5>1 DEF WatchInv, SignedInHasWatchlist, Exists
        <5> QED BY <1>5, <5>1, <5>2
      <4> QED BY <4>1, <4>2
    <3> QED BY <3>1 DEF SignedInHasWatchlist
  <2>7. seeded' \subseteq UserIds /\ seeded \ seeded' \subseteq gone
        /\ spent' \in [Events -> Nat]
    BY <1>2, <1>5, <2>1 DEF AccountInv, TypeOK
  <2> QED BY <1>5, <2>2, <2>3, <2>5, <2>6, <2>7, UsersStep
<1>6. \/ Refused(t) /\ UNCHANGED <<mailOf, raced, crossed, spent>>
      \/ \E new \in Merged(th.rows, th.seen, th.who, th.email) :
           /\ \A u \in th.seen : Exists(u)
           /\ Unique([u \in UserIds |-> IF u = c THEN Written(users[c], th.rows[c], new)
                                        ELSE IF u \in gone THEN NoRow ELSE users[u]])
           /\ users' = [u \in UserIds |-> IF u = c THEN Written(users[c], th.rows[c], new)
                                          ELSE IF u \in gone THEN NoRow ELSE users[u]]
           /\ seeded' = (seeded \ gone) \cup
                          (IF Seeds(t) \/ seeded \cap gone # {} THEN {c} ELSE {})
           /\ Crossed(t, gone) /\ Proceed(t, c) /\ UNCHANGED <<mailOf, profiles, raced, spent>>
  BY <1>1, <1>3 DEF Merge
<1> QED BY <1>4, <1>5, <1>6

LEMMA AdmitStep ==
  ASSUME AccountInv, WatchInv, NEW t \in Threads, Admit(t)
  PROVE  AccountInv' /\ WatchInv'
<1>1. PICK th \in Thread : th = threads[t] /\ Sound(th) /\ th.at = "touch" /\ th.user \in UserIds
  BY DEF Admit, AccountInv, TypeOK, Sound
<1>2. UNCHANGED <<mailOf, users, seeded, profiles, raced, crossed, spent>>
  BY DEF Admit
<1>3. /\ raced' \subseteq UserIds /\ spent' \in [Events -> Nat] /\ mailOf' \in [Clerk -> Emails]
      /\ profiles' \in [ProfileIds -> Profile \cup {NoProfile}]
  BY <1>2 DEF AccountInv, TypeOK
<1> DEFINE admin == users[th.user].role = "admin"
           in == [th EXCEPT !.at = "ready", !.admin = admin]
<1>4. Sound(in) /\ in.at # "merge"
  BY <1>1 DEF Sound, Thread
<1>5. Goto(t, in) \/ Goto(t, Idle)
  BY <1>1 DEF Admit, Leave
<1>6. Idle.at # "merge"
  BY DEF Idle
<1> HIDE DEF in
<1> QED BY <1>2, <1>3, <1>4, <1>5, <1>6, IdleSound, QuietStep

LEMMA SetStatusStep ==
  ASSUME AccountInv, WatchInv, NEW t \in Threads, NEW u \in UserIds,
         NEW status \in Status \ {"pending"}, SetStatus(t, u, status)
  PROVE  AccountInv' /\ WatchInv'
<1>1. users[u] \in User
  BY DEF SetStatus, Exists, AccountInv, TypeOK
<1>2. users' = [users EXCEPT ![u].status = status] /\ seeded \subseteq seeded'
      /\ seeded' \subseteq UserIds /\ Goto(t, Idle) /\ UNCHANGED <<mailOf, profiles, raced, crossed>>
  BY DEF SetStatus, Leave, AccountInv, TypeOK
<1> DEFINE row == [users[u] EXCEPT !.status = status]
<1>3. row \in User /\ row.ext = users[u].ext /\ row.email = users[u].email
  BY <1>1 DEF User
<1> HIDE DEF row
<1>4. users' \in [UserIds -> User \cup {NoRow}]
      /\ \A v \in UserIds : users'[v] = IF v = u THEN row ELSE users[v]
  BY <1>2, <1>3 DEF AccountInv, TypeOK, row
<1>5. \A v \in UserIds : (users'[v] = NoRow <=> users[v] = NoRow)
                         /\ users'[v].ext = users[v].ext /\ users'[v].email = users[v].email
  BY <1>1, <1>3, <1>4, Constant
<1>6. Unique(users')
  BY <1>5 DEF AccountInv, Unique
<1>7. SignedInHasWatchlist'
  BY <1>2, <1>5 DEF WatchInv, SignedInHasWatchlist, Exists
<1>8. spent' \in [Events -> Nat] /\ crossed' \subseteq UserIds
  BY <1>2, SpendTyped DEF SetStatus, Events, AccountInv, TypeOK
<1>9. Idle.at # "merge"
  BY DEF Idle
<1> QED BY <1>2, <1>4, <1>6, <1>7, <1>8, <1>9, IdleSound, UsersStep

LEMMA SetRoleStep ==
  ASSUME AccountInv, WatchInv, NEW t \in Threads, NEW u \in UserIds, NEW role \in Roles,
         SetRole(t, u, role)
  PROVE  AccountInv' /\ WatchInv'
<1>1. users[u] \in User
  BY DEF SetRole, Exists, AccountInv, TypeOK
<1>2. users' = [users EXCEPT ![u].role = role] /\ Goto(t, Idle)
      /\ UNCHANGED <<mailOf, seeded, profiles, raced, crossed>>
  BY DEF SetRole, Leave
<1> DEFINE row == [users[u] EXCEPT !.role = role]
<1>3. row \in User /\ row.ext = users[u].ext /\ row.email = users[u].email
  BY <1>1 DEF User
<1> HIDE DEF row
<1>4. users' \in [UserIds -> User \cup {NoRow}]
      /\ \A v \in UserIds : users'[v] = IF v = u THEN row ELSE users[v]
  BY <1>2, <1>3 DEF AccountInv, TypeOK, row
<1>5. \A v \in UserIds : (users'[v] = NoRow <=> users[v] = NoRow)
                         /\ users'[v].ext = users[v].ext /\ users'[v].email = users[v].email
  BY <1>1, <1>3, <1>4, Constant
<1>6. Unique(users')
  BY <1>5 DEF AccountInv, Unique
<1>7. SignedInHasWatchlist'
  BY <1>2, <1>5 DEF WatchInv, SignedInHasWatchlist, Exists
<1>8. spent' \in [Events -> Nat] /\ crossed' \subseteq UserIds /\ seeded' \subseteq UserIds
  BY <1>2, SpendTyped DEF SetRole, Events, AccountInv, TypeOK
<1>9. Idle.at # "merge"
  BY DEF Idle
<1> QED BY <1>2, <1>4, <1>6, <1>7, <1>8, <1>9, IdleSound, UsersStep

LEMMA DeleteUserStep ==
  ASSUME AccountInv, WatchInv, NEW t \in Threads, NEW u \in UserIds, DeleteUser(t, u)
  PROVE  AccountInv' /\ WatchInv'
<1>1. users' = [users EXCEPT ![u] = NoRow] /\ Goto(t, Idle)
      /\ UNCHANGED <<mailOf, seeded, profiles, raced>>
  BY DEF DeleteUser, Leave
<1>2. users' \in [UserIds -> User \cup {NoRow}]
      /\ \A v \in UserIds : users'[v] = IF v = u THEN NoRow ELSE users[v]
  BY <1>1 DEF AccountInv, TypeOK
<1>3. Unique(users')
  BY <1>2 DEF AccountInv, Unique
<1>4. crossed \subseteq crossed' /\ crossed' \subseteq UserIds
  BY DEF DeleteUser, Crossed, AccountInv, TypeOK
<1>5. SignedInHasWatchlist'
  BY <1>1, <1>2, <1>4 DEF WatchInv, SignedInHasWatchlist, Exists
<1>6. spent' \in [Events -> Nat] /\ seeded' \subseteq UserIds
  BY <1>1, SpendTyped DEF DeleteUser, Events, AccountInv, TypeOK
<1>7. Idle.at # "merge"
  BY DEF Idle
<1> QED BY <1>1, <1>2, <1>3, <1>4, <1>5, <1>6, <1>7, IdleSound, UsersStep

LEMMA ReadProfilesStep ==
  ASSUME AccountInv, WatchInv, NEW t \in Threads,
         NEW op \in {"ensure", "create", "default", "drop"}, NEW p \in ProfileIds \cup {0},
         ReadProfiles(t, op, p)
  PROVE  AccountInv' /\ WatchInv'
<1>1. PICK th \in Thread : th = threads[t] /\ Sound(th) /\ th.at = "ready" /\ th.user \in UserIds
  BY DEF ReadProfiles, AccountInv, TypeOK, Sound
<1>2. PICK u \in UserIds : u = th.user
  BY <1>1
<1>3. PICK view \in [ProfileIds -> Profile \cup {NoProfile}] :
        view = ReadOwn(u) /\ \A q \in ProfileIds :
          view[q] = IF profiles[q].user = u THEN profiles[q] ELSE NoProfile
  <2>1. \A q \in ProfileIds : profiles[q] \in Profile \cup {NoProfile}
    BY DEF AccountInv, TypeOK
  <2>2. ReadOwn(u) \in [ProfileIds -> Profile \cup {NoProfile}]
    BY <2>1 DEF ReadOwn
  <2> QED BY <2>2 DEF ReadOwn
<1> DEFINE go == [th EXCEPT !.at = "commit", !.op = op, !.target = p, !.view = view]
<1>4. /\ go.at = "commit" /\ go.op = op /\ go.target = p /\ go.view = view /\ go.user = u
      /\ go \in Thread
  BY <1>1, <1>2 DEF Thread
<1>5. Goto(t, go) /\ UNCHANGED <<mailOf, users, seeded, profiles, crossed>>
      /\ raced' \subseteq UserIds
  BY <1>1, <1>2, <1>3 DEF ReadProfiles, AccountInv, TypeOK
<1>6. u # NoUser
  BY Constant
<1>7. Of(u, view) = Of(u, profiles) /\ \A q \in Of(u, profiles) : view[q] = profiles[q]
  BY <1>3, <1>6 DEF Of, NoProfile
<1>8. /\ op = "default" => p \in Of(u, view)
      /\ op = "drop" => Deletable(u, p, view)
  <2>1. /\ op = "default" => p \in Of(u, profiles)
        /\ op = "drop" => Deletable(u, p, profiles)
    BY <1>1, <1>2 DEF ReadProfiles
  <2>2. p \in Of(u, profiles) => view[p] = profiles[p]
    BY <1>7
  <2>3. PICK own : own = Of(u, profiles) /\ own = Of(u, view)
    BY <1>7
  <2> QED BY <2>1, <2>2, <2>3 DEF Deletable
<1> HIDE DEF go
<1>9. CommitOK(go)
  BY <1>3, <1>4, <1>8 DEF CommitOK
<1>10. Sound(go)
  BY <1>2, <1>4, <1>9 DEF Sound
<1>11. spent' \in [Events -> Nat] /\ mailOf' \in [Clerk -> Emails]
       /\ profiles' \in [ProfileIds -> Profile \cup {NoProfile}]
  BY <1>5, SpendTyped DEF ReadProfiles, Events, AccountInv, TypeOK
<1> QED BY <1>4, <1>5, <1>10, <1>11, QuietStep

(***************************************************************************)
(* The profiles                                                            *)
(***************************************************************************)

DefaultOK(u) ==
  Of(u, profiles) # {} =>
    \E d \in Of(u, profiles) : \A p \in Of(u, profiles) : profiles[p].default <=> p = d

\* A request works with what its user has, and alone, unless the user is raced;
\* and of the ids it works with, none has become that of another user's row.
ViewsOK ==
  \A t \in Threads : threads[t].at = "commit" =>
    LET u == threads[t].user IN
    /\ u \notin raced =>
         /\ threads[t].view = ReadOwn(u)
         /\ \A o \in Threads \ {t} : threads[o].at = "commit" => threads[o].user # u
    /\ \A p \in ProfileIds : threads[t].view[p] # NoProfile =>
         profiles[p] = NoProfile \/ profiles[p].user \in raced \cup {u}

ProfileInv == ViewsOK /\ \A u \in UserIds \ raced : DefaultOK(u)

LEMMA ProfileInit == Init => ProfileInv
<1> SUFFICES ASSUME Init PROVE ProfileInv
  OBVIOUS
<1>1. ViewsOK
  BY DEF Init, ViewsOK, Idle
<1>2. ASSUME NEW u \in UserIds PROVE DefaultOK(u)
  <2>1. u # NoUser
    BY Constant
  <2>2. CASE profiles = Nothing
    BY <2>1, <2>2 DEF DefaultOK, Of, Nothing, NoProfile
  <2>3. CASE profiles = [Nothing EXCEPT ![1] = [user |-> 1, default |-> TRUE],
                                        ![2] = [user |-> 1, default |-> FALSE]]
    <3>1. 1 \in ProfileIds /\ 2 \in ProfileIds
      BY AccountAssumption DEF ProfileIds
    <3>2. \A p \in ProfileIds :
            /\ p = 1 => profiles[p].user = 1 /\ profiles[p].default = TRUE
            /\ p = 2 => profiles[p].user = 1 /\ profiles[p].default = FALSE
            /\ p \notin {1, 2} => profiles[p].user = NoUser
      BY <2>3, <3>1 DEF Nothing, NoProfile
    <3>3. CASE u = 1
      <4>1. Of(u, profiles) = {1, 2}
        BY <2>1, <3>1, <3>2, <3>3 DEF Of
      <4> QED BY <3>1, <3>2, <4>1 DEF DefaultOK
    <3>4. CASE u # 1
      <4>1. Of(u, profiles) = {}
        BY <2>1, <3>2, <3>4 DEF Of
      <4> QED BY <4>1 DEF DefaultOK
    <3> QED BY <3>3, <3>4
  <2> QED BY <2>2, <2>3 DEF Init
<1> QED BY <1>1, <1>2 DEF ProfileInv

\* A step that leaves the profiles alone, and reads none.
LEMMA QuietViews ==
  ASSUME AccountInv, ProfileInv, UNCHANGED <<profiles, raced>>,
         NEW t \in Threads, threads'[t].at # "commit",
         \A o \in Threads \ {t} : threads'[o] = threads[o]
  PROVE  ProfileInv'
<1>2. \A u \in UserIds : DefaultOK(u)' <=> DefaultOK(u)
  BY DEF DefaultOK
<1>3. ViewsOK'
  <2> SUFFICES ASSUME NEW o \in Threads, threads'[o].at = "commit"
               PROVE  LET u == threads'[o].user IN
                      /\ u \notin raced =>
                           /\ threads'[o].view = ReadOwn(u)
                           /\ \A k \in Threads \ {o} :
                                threads'[k].at = "commit" => threads'[k].user # u
                      /\ \A p \in ProfileIds : threads'[o].view[p] # NoProfile =>
                           profiles[p] = NoProfile \/ profiles[p].user \in raced \cup {u}
    BY DEF ViewsOK, ReadOwn
  <2>1. threads'[o] = threads[o]
    OBVIOUS
  <2>2. \A k \in Threads \ {o} : threads'[k].at = "commit" => threads'[k] = threads[k]
    OBVIOUS
  <2> QED BY <2>1, <2>2 DEF ProfileInv, ViewsOK
<1> QED BY <1>2, <1>3 DEF ProfileInv

\* A request about profiles ends.  It touched rows of its user only, or of raced
\* ones, and gave its user no id that another request works with.
LEMMA ProfilesChange ==
  ASSUME AccountInv, ProfileInv, NEW t \in Threads, threads[t].at = "commit",
         NEW u \in UserIds, u = threads[t].user, Goto(t, Idle),
         profiles' \in [ProfileIds -> Profile \cup {NoProfile}],
         raced \subseteq raced', raced' \subseteq UserIds,
         \A p \in ProfileIds : profiles'[p] # profiles[p] =>
           /\ profiles[p] = NoProfile \/ profiles[p].user \in raced \cup {u}
           /\ \/ profiles'[p] = NoProfile
              \/ profiles[p] # NoProfile /\ profiles'[p].user = profiles[p].user
              \/ /\ profiles'[p].user = u
                 /\ \A o \in Threads \ {t} : threads[o].view[p] # NoProfile => u \in raced',
         u \notin raced' => DefaultOK(u)'
  PROVE  ProfileInv'
<1>1. threads'[t] = Idle /\ \A o \in Threads \ {t} : threads'[o] = threads[o]
  BY ThreadStep, IdleSound
<1>2. NoProfile.user = NoUser /\ NoUser \notin UserIds /\ Idle.at = "idle"
  BY Constant DEF NoProfile, Idle
<1>3. ASSUME NEW v \in UserIds \ raced', v # u, NEW p \in ProfileIds
      PROVE  /\ profiles'[p].user = v <=> profiles[p].user = v
             /\ profiles[p].user = v => profiles'[p] = profiles[p]
  BY <1>2, <1>3
<1>4. ASSUME NEW v \in UserIds \ raced' PROVE DefaultOK(v)'
  <2>1. CASE v = u
    BY <1>4, <2>1
  <2>2. CASE v # u
    <3>1. Of(v, profiles') = Of(v, profiles)
          /\ \A p \in Of(v, profiles) : profiles'[p] = profiles[p]
      BY <1>3, <1>4, <2>2 DEF Of
    <3>2. DefaultOK(v)
      BY <1>4 DEF ProfileInv
    <3> QED BY <3>1, <3>2 DEF DefaultOK
  <2> QED BY <2>1, <2>2
<1>5. ASSUME NEW o \in Threads, threads'[o].at = "commit",
             NEW v \in UserIds, v = threads'[o].user
      PROVE  /\ v \notin raced' =>
                  /\ threads'[o].view = ReadOwn(v)'
                  /\ \A k \in Threads \ {o} :
                       threads'[k].at = "commit" => threads'[k].user # v
             /\ \A p \in ProfileIds : threads'[o].view[p] # NoProfile =>
                  profiles'[p] = NoProfile \/ profiles'[p].user \in raced' \cup {v}
  <2>1. o # t /\ threads'[o] = threads[o]
    BY <1>1, <1>2, <1>5
  <2>2. ASSUME v \notin raced' PROVE threads'[o].view = ReadOwn(v)'
    <3>1. v # u /\ threads[o].view = ReadOwn(v)
      BY <1>5, <2>1, <2>2 DEF ProfileInv, ViewsOK
    <3>2. ReadOwn(v)' = ReadOwn(v)
      BY <1>3, <2>2, <3>1 DEF ReadOwn
    <3> QED BY <2>1, <3>1, <3>2
  <2>3. ASSUME v \notin raced', NEW k \in Threads \ {o}, threads'[k].at = "commit"
        PROVE  threads'[k].user # v
    <3>1. threads'[k] = threads[k]
      BY <1>1, <1>2, <2>3
    <3> QED BY <1>5, <2>1, <2>3, <3>1 DEF ProfileInv, ViewsOK
  <2>4. ASSUME NEW p \in ProfileIds, threads'[o].view[p] # NoProfile
        PROVE  profiles'[p] = NoProfile \/ profiles'[p].user \in raced' \cup {v}
    <3>1. profiles[p] = NoProfile \/ profiles[p].user \in raced \cup {v}
      BY <1>5, <2>1, <2>4 DEF ProfileInv, ViewsOK
    <3>2. CASE profiles'[p] = profiles[p]
      BY <3>1, <3>2
    <3>3. CASE profiles'[p] # profiles[p]
      BY <2>1, <2>4, <3>1, <3>3
    <3> QED BY <3>2, <3>3
  <2> QED BY <2>2, <2>3, <2>4
<1>6. \A o \in Threads : threads'[o].at = "commit" => threads'[o].user \in UserIds
  BY ThreadStep, IdleSound DEF Sound
<1>7. ViewsOK'
  BY <1>5, <1>6 DEF ViewsOK
<1> QED BY <1>4, <1>7 DEF ProfileInv

\* What a request that writes profiles knows.
LEMMA CommitFacts ==
  ASSUME AccountInv, ProfileInv, NEW t \in Threads, threads[t].at = "commit"
  PROVE  /\ threads[t].user \in UserIds /\ threads[t].user # NoUser /\ CommitOK(threads[t])
         /\ threads[t].view \in [ProfileIds -> Profile \cup {NoProfile}]
         /\ \A p \in Of(threads[t].user, threads[t].view) :
              /\ p \in ProfileIds /\ threads[t].view[p] # NoProfile
              /\ profiles[p] = NoProfile \/ profiles[p].user \in raced \cup {threads[t].user}
         /\ threads[t].user \notin raced =>
              /\ Of(threads[t].user, threads[t].view) = Of(threads[t].user, profiles)
              /\ \A p \in Of(threads[t].user, profiles) : threads[t].view[p] = profiles[p]
              /\ \A p \in ProfileIds : threads[t].view[p] # NoProfile =>
                   profiles[p] # NoProfile
              /\ DefaultOK(threads[t].user)
<1>1. PICK th \in Thread : th = threads[t] /\ Sound(th)
  BY DEF AccountInv, TypeOK
<1>2. PICK u \in UserIds : u = th.user
  BY <1>1 DEF Sound
<1>3. u # NoUser /\ NoProfile.user = NoUser
  BY Constant DEF NoProfile
<1>4. CommitOK(th) /\ th.view \in [ProfileIds -> Profile \cup {NoProfile}]
  BY <1>1 DEF Sound, Thread
<1>5. \A p \in Of(u, th.view) : p \in ProfileIds /\ th.view[p] # NoProfile
  BY <1>3 DEF Of
<1>6. \A p \in Of(u, th.view) : profiles[p] = NoProfile \/ profiles[p].user \in raced \cup {u}
  BY <1>1, <1>2, <1>5 DEF ProfileInv, ViewsOK
<1>7. ASSUME u \notin raced
      PROVE  /\ Of(u, th.view) = Of(u, profiles) /\ DefaultOK(u)
             /\ \A p \in Of(u, profiles) : th.view[p] = profiles[p]
             /\ \A p \in ProfileIds : th.view[p] # NoProfile => profiles[p] # NoProfile
  <2>1. th.view = ReadOwn(u)
    BY <1>1, <1>2, <1>7 DEF ProfileInv, ViewsOK
  <2>2. \A p \in ProfileIds :
          th.view[p] = IF profiles[p].user = u THEN profiles[p] ELSE NoProfile
    BY <2>1 DEF ReadOwn
  <2>3. DefaultOK(u)
    BY <1>7 DEF ProfileInv
  <2> QED BY <1>3, <2>2, <2>3 DEF Of
<1> QED BY <1>1, <1>2, <1>3, <1>4, <1>5, <1>6, <1>7

LEMMA CommitTyped ==
  ASSUME AccountInv, WatchInv, NEW t \in Threads, Goto(t, Idle),
         UNCHANGED <<mailOf, users, seeded, crossed, spent>>, raced' \subseteq UserIds,
         profiles' \in [ProfileIds -> Profile \cup {NoProfile}]
  PROVE  AccountInv' /\ WatchInv'
<1>1. mailOf' \in [Clerk -> Emails] /\ spent' \in [Events -> Nat] /\ Idle.at # "merge"
  BY DEF AccountInv, TypeOK, Idle
<1> QED BY <1>1, IdleSound, QuietStep

\* A new row, of a user who has none or whose rows have a default.
LEMMA InsertStep ==
  ASSUME AccountInv, WatchInv, ProfileInv, NEW t \in Threads, threads[t].at = "commit",
         NEW u \in UserIds, u = threads[t].user, NEW d \in BOOLEAN, Insert(u, d),
         d <=> Of(u, threads[t].view) = {}, Goto(t, Idle),
         UNCHANGED <<mailOf, users, seeded, crossed, spent>>
  PROVE  AccountInv' /\ WatchInv' /\ ProfileInv'
<1>1. PICK n \in ProfileIds : n = NextProfile /\ profiles[n] = NoProfile
  BY FreeIds DEF Insert, AccountInv
<1> DEFINE row == [user |-> u, default |-> d]
<1>2. row \in Profile /\ row.user = u /\ row.default = d
  BY DEF Profile
<1>3. profiles' = [profiles EXCEPT ![n] = row]
  BY <1>1 DEF Insert
<1> HIDE DEF row
<1>4. profiles' \in [ProfileIds -> Profile \cup {NoProfile}]
      /\ \A p \in ProfileIds : profiles'[p] = IF p = n THEN row ELSE profiles[p]
  BY <1>2, <1>3 DEF AccountInv, TypeOK
<1>5. /\ raced \subseteq raced' /\ raced' \subseteq UserIds
      /\ \A o \in Threads : threads[o].view[n] # NoProfile => u \in raced'
  BY <1>1 DEF Insert, AccountInv, TypeOK
<1>6. u \notin raced' => DefaultOK(u)'
  <2> SUFFICES ASSUME u \notin raced PROVE DefaultOK(u)'
    BY <1>5
  <2>1. /\ Of(u, threads[t].view) = Of(u, profiles) /\ DefaultOK(u) /\ u # NoUser
    BY CommitFacts
  <2>2. n \notin Of(u, profiles)
    BY <1>1, <2>1 DEF Of, NoProfile
  <2>3. Of(u, profiles') = Of(u, profiles) \cup {n}
    BY <1>2, <1>4 DEF Of
  <2>4. profiles'[n].default = d /\ \A p \in Of(u, profiles) : profiles'[p] = profiles[p]
    BY <1>2, <1>4, <2>2 DEF Of
  <2>5. CASE Of(u, profiles) = {}
    BY <2>1, <2>3, <2>4, <2>5 DEF DefaultOK
  <2>6. CASE Of(u, profiles) # {}
    BY <2>1, <2>2, <2>3, <2>4, <2>6 DEF DefaultOK
  <2> QED BY <2>5, <2>6
<1>7. ProfileInv'
  BY <1>1, <1>2, <1>4, <1>5, <1>6, ProfilesChange
<1> QED BY <1>4, <1>5, <1>7, CommitTyped

\* The flags of a user's rows are written.  An unraced user has the chosen row.
LEMMA FlagsStep ==
  ASSUME AccountInv, WatchInv, ProfileInv, NEW t \in Threads, threads[t].at = "commit",
         NEW u \in UserIds, u = threads[t].user, NEW chosen,
         SetDefault(t, Of(u, threads[t].view), chosen), Goto(t, Idle),
         u \notin raced => chosen \in Of(u, profiles),
         UNCHANGED <<mailOf, users, seeded, raced, crossed, spent>>
  PROVE  AccountInv' /\ WatchInv' /\ ProfileInv'
<1> DEFINE own == Of(u, threads[t].view)
           changed == Flags(threads[t].view, own, chosen)
<1>1. changed \subseteq own /\ own \subseteq ProfileIds
  BY DEF Flags, Of
<1>2. raced' = raced /\ raced' \subseteq UserIds
  BY DEF AccountInv, TypeOK
<1>3. CASE profiles' = profiles
  <2>1. profiles' \in [ProfileIds -> Profile \cup {NoProfile}]
    BY <1>3 DEF AccountInv, TypeOK
  <2>2. u \notin raced' => DefaultOK(u)'
    BY <1>2, <1>3 DEF ProfileInv, DefaultOK
  <2>3. \A p \in ProfileIds : profiles'[p] = profiles[p]
    BY <1>3
  <2>4. ProfileInv'
    BY <1>2, <2>1, <2>2, <2>3, ProfilesChange
  <2> QED BY <1>2, <2>1, <2>4, CommitTyped
<1>4. CASE /\ \A p \in changed : profiles[p] # NoProfile
           /\ profiles' = [p \in ProfileIds |->
                IF p \in changed THEN [profiles[p] EXCEPT !.default = (p = chosen)]
                ELSE profiles[p]]
  <2>1. \A p \in ProfileIds : p \in changed =>
          /\ profiles[p] \in Profile /\ profiles'[p] \in Profile
          /\ profiles'[p].user = profiles[p].user /\ profiles'[p].default = (p = chosen)
    <3>1. ASSUME NEW p \in ProfileIds, p \in changed
          PROVE  /\ profiles[p] \in Profile /\ profiles'[p] \in Profile
                 /\ profiles'[p].user = profiles[p].user /\ profiles'[p].default = (p = chosen)
      <4>1. profiles[p] \in Profile
        BY <1>4, <3>1 DEF AccountInv, TypeOK
      <4>2. profiles'[p] = [profiles[p] EXCEPT !.default = (p = chosen)]
        BY <1>4, <3>1
      <4>3. PICK q \in Profile : q = profiles[p]
        BY <4>1
      <4>4. PICK b \in BOOLEAN : b = (p = chosen)
        OBVIOUS
      <4>5. /\ [q EXCEPT !.default = b] \in Profile
            /\ [q EXCEPT !.default = b].user = q.user /\ [q EXCEPT !.default = b].default = b
        BY DEF Profile
      <4> QED BY <4>1, <4>2, <4>3, <4>4, <4>5
    <3> QED BY <3>1
  <2>2. \A p \in ProfileIds : p \notin changed => profiles'[p] = profiles[p]
    BY <1>4
  <2>3. profiles' \in [ProfileIds -> Profile \cup {NoProfile}]
    <3>1. \A p \in ProfileIds : profiles'[p] \in Profile \cup {NoProfile}
      BY <2>1, <2>2 DEF AccountInv, TypeOK
    <3> HIDE DEF changed
    <3> QED BY <1>4, <3>1
  <2>4. \A p \in changed : profiles[p] = NoProfile \/ profiles[p].user \in raced \cup {u}
    BY <1>1, CommitFacts
  <2>5. u \notin raced' => DefaultOK(u)'
    <3> SUFFICES ASSUME u \notin raced PROVE DefaultOK(u)'
      BY <1>2
    <3>1. own = Of(u, profiles) /\ \A p \in own : threads[t].view[p] = profiles[p]
      BY CommitFacts
    <3>2. chosen \in own
      BY <3>1
    <3>3. Of(u, profiles') = own
      <4>1. \A p \in ProfileIds : profiles'[p].user = profiles[p].user
        BY <2>1, <2>2
      <4> QED BY <3>1, <4>1 DEF Of
    <3>4. \A p \in own : profiles'[p].default <=> p = chosen
      <4>1. ASSUME NEW p \in own PROVE profiles'[p].default <=> p = chosen
        <5>1. CASE p \in changed
          BY <1>1, <2>1, <5>1
        <5>2. CASE p \notin changed
          <6>1. profiles'[p].default = (p = chosen)
            BY <1>1, <2>2, <3>1, <5>2 DEF Flags
          <6> QED BY <6>1
        <5> QED BY <5>1, <5>2
      <4> QED BY <4>1
    <3> HIDE DEF own
    <3> QED BY <3>2, <3>3, <3>4 DEF DefaultOK
  <2>6. \A p \in ProfileIds : profiles'[p] # profiles[p] =>
          /\ profiles[p] = NoProfile \/ profiles[p].user \in raced \cup {u}
          /\ profiles[p] # NoProfile /\ profiles'[p].user = profiles[p].user
    BY <1>4, <2>1, <2>2, <2>4
  <2>7. ProfileInv'
    BY <1>2, <2>3, <2>5, <2>6, ProfilesChange
  <2> QED BY <1>2, <2>3, <2>7, CommitTyped
<1>5. \/ profiles' = profiles
      \/ /\ \A p \in changed : profiles[p] # NoProfile
         /\ profiles' = [p \in ProfileIds |->
              IF p \in changed THEN [profiles[p] EXCEPT !.default = (p = chosen)]
              ELSE profiles[p]]
  BY DEF SetDefault
<1> QED BY <1>3, <1>4, <1>5

LEMMA EnsureStep ==
  ASSUME AccountInv, WatchInv, ProfileInv, NEW t \in Threads, Ensure(t)
  PROVE  AccountInv' /\ WatchInv' /\ ProfileInv'
<1>1. /\ threads[t].at = "commit" /\ Goto(t, Idle)
      /\ UNCHANGED <<mailOf, users, seeded, crossed, spent>>
  BY DEF Ensure, Leave
<1>2. PICK u \in UserIds : u = threads[t].user
  BY <1>1, CommitFacts
<1> DEFINE own == Of(u, threads[t].view)
<1>3. CASE own = {}
  BY <1>1, <1>2, <1>3, InsertStep DEF Ensure
<1>4. CASE own # {} /\ \E p \in own : threads[t].view[p].default
  <2>1. UNCHANGED <<profiles, raced>>
    BY <1>2, <1>4 DEF Ensure
  <2>2. raced' \subseteq UserIds /\ profiles' \in [ProfileIds -> Profile \cup {NoProfile}]
    BY <2>1 DEF AccountInv, TypeOK
  <2>3. Idle.at # "commit"
    BY DEF Idle
  <2>4. threads'[t] = Idle /\ \A o \in Threads \ {t} : threads'[o] = threads[o]
    BY <1>1, ThreadStep, IdleSound
  <2> QED BY <1>1, <2>1, <2>2, <2>3, <2>4, CommitTyped, QuietViews
<1>5. CASE own # {} /\ ~ \E p \in own : threads[t].view[p].default
  <2>1. SetDefault(t, own, First(own)) /\ UNCHANGED raced
    BY <1>2, <1>5 DEF Ensure
  <2>2. u \in raced
    BY <1>1, <1>2, <1>5, CommitFacts DEF DefaultOK
  <2>3. PICK chosen : chosen = First(own)
    OBVIOUS
  <2> QED BY <1>1, <1>2, <2>1, <2>2, <2>3, FlagsStep
<1> QED BY <1>3, <1>4, <1>5

LEMMA CreateStep ==
  ASSUME AccountInv, WatchInv, ProfileInv, NEW t \in Threads, CreateProfile(t)
  PROVE  AccountInv' /\ WatchInv' /\ ProfileInv'
<1>1. /\ threads[t].at = "commit" /\ Goto(t, Idle)
      /\ UNCHANGED <<mailOf, users, seeded, crossed, spent>>
  BY DEF CreateProfile, Leave
<1>2. PICK u \in UserIds : u = threads[t].user
  BY <1>1, CommitFacts
<1>3. PICK d \in BOOLEAN : d = (Of(u, threads[t].view) = {})
  OBVIOUS
<1>4. Insert(u, d)
  BY <1>2, <1>3 DEF CreateProfile
<1> QED BY <1>1, <1>2, <1>3, <1>4, InsertStep

LEMMA SetDefaultStep ==
  ASSUME AccountInv, WatchInv, ProfileInv, NEW t \in Threads, SetDefaultProfile(t)
  PROVE  AccountInv' /\ WatchInv' /\ ProfileInv'
<1>1. /\ threads[t].at = "commit" /\ threads[t].op = "default" /\ Goto(t, Idle)
      /\ UNCHANGED <<mailOf, users, seeded, raced, crossed, spent>>
  BY DEF SetDefaultProfile, Leave
<1>2. PICK u \in UserIds : u = threads[t].user
  BY <1>1, CommitFacts
<1>3. PICK chosen : chosen = threads[t].target
  OBVIOUS
<1>4. chosen \in Of(u, threads[t].view)
  BY <1>1, <1>2, <1>3, CommitFacts DEF CommitOK
<1>5. SetDefault(t, Of(u, threads[t].view), chosen)
  BY <1>2, <1>3 DEF SetDefaultProfile
<1>6. u \notin raced => chosen \in Of(u, profiles)
  BY <1>1, <1>2, <1>4, CommitFacts
<1> QED BY <1>1, <1>2, <1>5, <1>6, FlagsStep

LEMMA DeleteProfileStep ==
  ASSUME AccountInv, WatchInv, ProfileInv, NEW t \in Threads, DeleteProfile(t)
  PROVE  AccountInv' /\ WatchInv' /\ ProfileInv'
<1>1. /\ threads[t].at = "commit" /\ threads[t].op = "drop" /\ Goto(t, Idle)
      /\ UNCHANGED <<mailOf, users, seeded, raced, crossed, spent>>
  BY DEF DeleteProfile, Leave
<1>2. PICK u \in UserIds : u = threads[t].user
  BY <1>1, CommitFacts
<1>3. PICK n : n = threads[t].target
  OBVIOUS
<1>4. n \in Of(u, threads[t].view) /\ ~ threads[t].view[n].default
  BY <1>1, <1>2, <1>3, CommitFacts DEF CommitOK, Deletable
<1>5. profiles' = [profiles EXCEPT ![n] = NoProfile]
  BY <1>3 DEF DeleteProfile
<1>6. /\ profiles' \in [ProfileIds -> Profile \cup {NoProfile}] /\ n \in ProfileIds
      /\ \A p \in ProfileIds : profiles'[p] = IF p = n THEN NoProfile ELSE profiles[p]
  BY <1>4, <1>5 DEF AccountInv, TypeOK, Of
<1>7. profiles[n] = NoProfile \/ profiles[n].user \in raced \cup {u}
  BY <1>1, <1>2, <1>4, CommitFacts
<1>8. raced' \subseteq UserIds
  BY <1>1 DEF AccountInv, TypeOK
<1>9. u \notin raced' => DefaultOK(u)'
  <2> SUFFICES ASSUME u \notin raced PROVE DefaultOK(u)'
    BY <1>1
  <2>1. DefaultOK(u) /\ u # NoUser /\ n \in Of(u, profiles) /\ ~ profiles[n].default
    BY <1>1, <1>2, <1>4, CommitFacts
  <2>2. Of(u, profiles') = Of(u, profiles) \ {n}
    BY <1>6, <2>1 DEF Of, NoProfile
  <2>3. \A p \in Of(u, profiles) \ {n} : profiles'[p] = profiles[p]
    BY <1>6 DEF Of
  <2> QED BY <2>1, <2>2, <2>3 DEF DefaultOK
<1>10. ProfileInv'
  BY <1>1, <1>2, <1>6, <1>7, <1>8, <1>9, ProfilesChange
<1> QED BY <1>1, <1>6, <1>8, <1>10, CommitTyped

LEMMA ReadProfilesInv ==
  ASSUME AccountInv, WatchInv, ProfileInv, NEW t \in Threads,
         NEW op \in {"ensure", "create", "default", "drop"}, NEW p \in ProfileIds \cup {0},
         ReadProfiles(t, op, p)
  PROVE  ProfileInv'
<1>1. PICK th \in Thread : th = threads[t] /\ th.at = "ready" /\ th.user \in UserIds
  BY DEF ReadProfiles, AccountInv, TypeOK, Sound
<1>2. PICK u \in UserIds : u = th.user
  BY <1>1
<1> DEFINE go == [th EXCEPT !.at = "commit", !.op = op, !.target = p, !.view = ReadOwn(u)]
<1>3. go.at = "commit" /\ go.view = ReadOwn(u) /\ go.user = u
  BY <1>1, <1>2 DEF Thread
<1>4. threads' = [threads EXCEPT ![t] = go] /\ UNCHANGED profiles
  BY <1>1, <1>2 DEF ReadProfiles, Goto
<1> HIDE DEF go
<1>5. threads'[t] = go /\ \A o \in Threads \ {t} : threads'[o] = threads[o]
  BY <1>4 DEF AccountInv, TypeOK
<1>6. /\ raced \subseteq raced'
      /\ \A o \in Threads \ {t} : threads[o].at = "commit" /\ threads[o].user = u => u \in raced'
  BY <1>1, <1>2 DEF ReadProfiles, Overlapping
<1>7. \A v \in UserIds \ raced' : DefaultOK(v)'
  BY <1>4, <1>6 DEF ProfileInv, DefaultOK
<1>8. ReadOwn(u)' = ReadOwn(u) /\ \A q \in ProfileIds :
        ReadOwn(u)[q] = IF profiles[q].user = u THEN profiles[q] ELSE NoProfile
  BY <1>4 DEF ReadOwn
<1>9. ASSUME NEW o \in Threads, threads'[o].at = "commit", NEW v, v = threads'[o].user
      PROVE  /\ v \notin raced' =>
                  /\ threads'[o].view = ReadOwn(v)'
                  /\ \A k \in Threads \ {o} :
                       threads'[k].at = "commit" => threads'[k].user # v
             /\ \A q \in ProfileIds : threads'[o].view[q] # NoProfile =>
                  profiles'[q] = NoProfile \/ profiles'[q].user \in raced' \cup {v}
  <2>1. CASE o = t
    BY <1>3, <1>4, <1>5, <1>6, <1>8, <1>9, <2>1
  <2>2. CASE o # t
    <3>1. threads'[o] = threads[o]
      BY <1>5, <2>2
    <3>2. ASSUME v \notin raced'
          PROVE  /\ threads'[o].view = ReadOwn(v)'
                 /\ \A k \in Threads \ {o} : threads'[k].at = "commit" => threads'[k].user # v
      <4>1. v # u /\ v \notin raced
        BY <1>6, <1>9, <2>2, <3>1, <3>2
      <4>2. threads[o].view = ReadOwn(v) /\ ReadOwn(v)' = ReadOwn(v)
        BY <1>4, <1>9, <3>1, <4>1 DEF ProfileInv, ViewsOK, ReadOwn
      <4>3. ASSUME NEW k \in Threads \ {o}, threads'[k].at = "commit"
            PROVE  threads'[k].user # v
        <5>1. CASE k = t
          BY <1>3, <1>5, <4>1, <5>1
        <5>2. CASE k # t
          BY <1>5, <1>9, <3>1, <4>1, <4>3, <5>2 DEF ProfileInv, ViewsOK
        <5> QED BY <5>1, <5>2
      <4> QED BY <3>1, <4>2, <4>3
    <3>3. ASSUME NEW q \in ProfileIds, threads'[o].view[q] # NoProfile
          PROVE  profiles'[q] = NoProfile \/ profiles'[q].user \in raced' \cup {v}
      BY <1>4, <1>6, <1>9, <3>1, <3>3 DEF ProfileInv, ViewsOK
    <3> QED BY <3>2, <3>3
  <2> QED BY <2>1, <2>2
<1>10. ViewsOK'
  BY <1>9 DEF ViewsOK
<1> QED BY <1>7, <1>10 DEF ProfileInv

\* A request goes on, and not with profiles.
GoesOn(t) == \E th : Goto(t, th) /\ th.at # "commit"

\* The steps that are not about profiles leave them as they are.
LEMMA OtherStep ==
  ASSUME AccountInv, ProfileInv, NEW t \in Threads,
         \/ \E k \in Clerk, e \in Emails \cup {NoEmail} : SignIn(t, k, e)
         \/ \E k \in Clerk : SignInAgain(t, k)
         \/ \E e \in Emails : Invite(t, e)
         \/ Register(t) \/ Merge(t) \/ Admit(t)
         \/ \E u \in UserIds :
              \/ \E status \in Status \ {"pending"} : SetStatus(t, u, status)
              \/ \E role \in Roles : SetRole(t, u, role)
              \/ DeleteUser(t, u)
  PROVE  ProfileInv'
<1>1. UNCHANGED <<profiles, raced>>
  BY DEF SignIn, SignInAgain, Invite, Register, Merge, Refused, Admit, SetStatus, SetRole,
         DeleteUser
<1>2. threads \in [Threads -> Thread]
  BY DEF AccountInv, TypeOK
<1>3. GoesOn(t)
  <2>1. ASSUME NEW k \in Clerk, NEW e, SignIn(t, k, e)
        PROVE  GoesOn(t)
    <3> DEFINE th == [Idle EXCEPT !.at = "merge", !.op = "signIn", !.who = k, !.email = e,
                        !.seen = Candidates(k, e), !.rows = Read(Candidates(k, e))]
    <3>1. th.at # "commit"
      BY DEF Idle
    <3> HIDE DEF th
    <3>2. Goto(t, th)
      BY <2>1 DEF SignIn, th
    <3> QED BY <3>1, <3>2 DEF GoesOn
  <2>2. ASSUME NEW u, Goto(t, [Idle EXCEPT !.at = "touch", !.op = "signIn", !.user = u])
        PROVE  GoesOn(t)
    <3> DEFINE th == [Idle EXCEPT !.at = "touch", !.op = "signIn", !.user = u]
    <3>1. th.at # "commit"
      BY DEF Idle
    <3> HIDE DEF th
    <3> QED BY <2>2, <3>1 DEF GoesOn, th
  <2>3. ASSUME Goto(t, Idle)
        PROVE  GoesOn(t)
    <3>1. Idle.at # "commit"
      BY DEF Idle
    <3> QED BY <2>3, <3>1 DEF GoesOn
  <2>4. ASSUME NEW e, Invite(t, e)
        PROVE  GoesOn(t)
    <3> DEFINE seen == Candidates(Invited, e)
               th == [Idle EXCEPT !.at = "merge", !.op = "invite", !.email = e,
                        !.seen = seen, !.rows = Read(seen),
                        !.who = IF seen = {} THEN Invited
                                ELSE users[CHOOSE u \in seen : TRUE].ext]
    <3>1. th.at # "commit"
      BY DEF Idle
    <3> HIDE DEF th
    <3>2. Goto(t, th)
      BY <2>4 DEF Invite, th
    <3> QED BY <3>1, <3>2 DEF GoesOn
  <2>5. ASSUME NEW u, Proceed(t, u)
        PROVE  GoesOn(t)
    BY <2>2, <2>3, <2>5 DEF Proceed, Leave
  <2>6. ASSUME Register(t) \/ Merge(t)
        PROVE  GoesOn(t)
    <3>1. Refused(t) \/ \E u : Proceed(t, u)
      BY <2>6 DEF Register, Merge
    <3> QED BY <2>3, <2>5, <3>1 DEF Refused, Leave
  <2>7. ASSUME Admit(t)
        PROVE  GoesOn(t)
    <3>1. PICK old \in Thread : old = threads[t]
      BY <1>2
    <3>2. PICK admin : admin = (users[old.user].role = "admin")
      OBVIOUS
    <3>3. [old EXCEPT !.at = "ready", !.admin = admin].at # "commit"
      BY DEF Thread
    <3>4. Goto(t, [old EXCEPT !.at = "ready", !.admin = admin]) \/ Goto(t, Idle)
      BY <2>7, <3>1, <3>2 DEF Admit, Leave
    <3> QED BY <2>3, <3>3, <3>4 DEF GoesOn
  <2>8. ASSUME NEW u, \/ \E status \in Status \ {"pending"} : SetStatus(t, u, status)
                      \/ \E role \in Roles : SetRole(t, u, role)
                      \/ DeleteUser(t, u)
        PROVE  GoesOn(t)
    BY <2>3, <2>8 DEF SetStatus, SetRole, DeleteUser, Leave
  <2>9. ASSUME NEW k \in Clerk, SignInAgain(t, k)
        PROVE  GoesOn(t)
    BY <2>2, <2>9 DEF SignInAgain
  <2> QED BY <2>1, <2>4, <2>6, <2>7, <2>8, <2>9
<1>4. PICK th : threads' = [threads EXCEPT ![t] = th] /\ th.at # "commit"
  BY <1>3 DEF GoesOn, Goto
<1>5. threads'[t] = th /\ \A o \in Threads \ {t} : threads'[o] = threads[o]
  BY <1>2, <1>4
<1> QED BY <1>1, <1>4, <1>5, QuietViews

(***************************************************************************)
(* The theorems                                                            *)
(***************************************************************************)

LEMMA AccountStep ==
  ASSUME AccountInv, WatchInv, ProfileInv, [Next]_vars
  PROVE  AccountInv' /\ WatchInv' /\ ProfileInv'
<1>1. CASE UNCHANGED vars
  <2>1. UNCHANGED <<mailOf, users, seeded, profiles, raced, crossed, threads, spent>>
    BY <1>1 DEF vars
  <2>2. AccountInv'
    BY <2>1 DEF AccountInv, TypeOK, Unique
  <2>3. WatchInv'
    BY <2>1 DEF WatchInv, SignedInHasWatchlist, Exists
  <2>4. ProfileInv'
    BY <2>1 DEF ProfileInv, ViewsOK, ReadOwn, DefaultOK
  <2> QED BY <2>2, <2>3, <2>4
<1>2. ASSUME NEW k \in Clerk, NEW e \in Emails, Move(k, e)
      PROVE  AccountInv' /\ WatchInv' /\ ProfileInv'
  <2>1. ProfileInv'
    <3>1. UNCHANGED <<profiles, raced, threads>>
      BY <1>2 DEF Move
    <3> QED BY <3>1 DEF ProfileInv, ViewsOK, ReadOwn, DefaultOK
  <2> QED BY <1>2, <2>1, MoveStep
<1>3. ASSUME NEW t \in Threads, Ensure(t) \/ CreateProfile(t) \/ SetDefaultProfile(t) \/ DeleteProfile(t)
      PROVE  AccountInv' /\ WatchInv' /\ ProfileInv'
  BY <1>3, EnsureStep, CreateStep, SetDefaultStep, DeleteProfileStep
<1>4. ASSUME NEW t \in Threads, NEW op \in {"ensure", "create", "default", "drop"},
             NEW p \in ProfileIds \cup {0}, ReadProfiles(t, op, p)
      PROVE  AccountInv' /\ WatchInv' /\ ProfileInv'
  BY <1>4, ReadProfilesStep, ReadProfilesInv
<1>5. ASSUME NEW t \in Threads,
             \/ \E k \in Clerk, e \in Emails \cup {NoEmail} : SignIn(t, k, e)
             \/ \E k \in Clerk : SignInAgain(t, k)
             \/ \E e \in Emails : Invite(t, e)
             \/ Register(t) \/ Merge(t) \/ Admit(t)
             \/ \E u \in UserIds :
                  \/ \E status \in Status \ {"pending"} : SetStatus(t, u, status)
                  \/ \E role \in Roles : SetRole(t, u, role)
                  \/ DeleteUser(t, u)
      PROVE  AccountInv' /\ WatchInv' /\ ProfileInv'
  <2>1. ProfileInv'
    BY <1>5, OtherStep
  <2>2. AccountInv' /\ WatchInv'
    BY <1>5, SignInStepOK, SignInAgainStep, InviteStep, RegisterStep, MergeStep, AdmitStep,
       SetStatusStep, SetRoleStep, DeleteUserStep
  <2> QED BY <2>1, <2>2
<1> QED BY <1>1, <1>2, <1>3, <1>4, <1>5 DEF Next

LEMMA AccountInvariant == Spec => [](AccountInv /\ WatchInv /\ ProfileInv)
<1>1. Init => AccountInv /\ WatchInv /\ ProfileInv
  BY AccountInit, ProfileInit
<1>2. (AccountInv /\ WatchInv /\ ProfileInv) /\ [Next]_vars
        => (AccountInv /\ WatchInv /\ ProfileInv)'
  BY AccountStep
<1> QED BY <1>1, <1>2, PTL DEF Spec

\* Rows, profiles and the requests under way have their types, whichever requests
\* overlap.
THEOREM AccountTypes == Spec => []TypeOK
<1>1. AccountInv => TypeOK
  BY DEF AccountInv
<1> QED BY <1>1, AccountInvariant, PTL

\* Whoever has signed in has a watchlist, whichever of invitation, approval and
\* sign-in came first, unless their row was deleted while a sign-in was working
\* with it.
THEOREM SignedInAreSeeded == Spec => []SignedInHasWatchlist
<1>1. WatchInv => SignedInHasWatchlist
  BY DEF WatchInv
<1> QED BY <1>1, AccountInvariant, PTL

\* A user has one default profile, as long as no two requests about the profiles
\* overlapped and no other request works with the id of one of them.
THEOREM OneDefaultStays == Spec => []OneDefault
<1>1. AccountInv /\ ProfileInv => OneDefault
  <2> SUFFICES ASSUME ProfileInv, NEW u \in UserIds \ raced, Of(u, profiles) # {}
               PROVE  Cardinality({p \in Of(u, profiles) : profiles[p].default}) = 1
    BY DEF OneDefault
  <2>1. PICK d \in Of(u, profiles) : \A p \in Of(u, profiles) : profiles[p].default <=> p = d
    BY DEF ProfileInv, DefaultOK
  <2>2. {p \in Of(u, profiles) : profiles[p].default} = {d}
    BY <2>1
  <2> QED BY <2>2, FS_Singleton
<1> QED BY <1>1, AccountInvariant, PTL

LEMMA ApprovalStep ==
  ASSUME AccountInv, NEW t \in Threads, SignInStep(t),
         Fresh(t) \/ Cardinality(threads[t].seen) = 1, threads[t].seen \cap Approved # {}
  PROVE  threads[t].seen \cap Approved' # {}
<1>1. PICK th \in Thread : th = threads[t]
  BY DEF AccountInv, TypeOK
<1>2. th.seen \in SUBSET UserIds /\ th.seen # {} /\ Merge(t)
  BY <1>1 DEF SignInStep, Register, Thread
<1>3. MergeOK(th)
  BY <1>1, <1>2 DEF Merge, AccountInv, Sound
<1>4. PICK a \in th.seen : Exists(a) /\ users[a].status = "approved"
  BY <1>1 DEF Approved
<1>5. CASE Refused(t)
  BY <1>1, <1>2, <1>4, <1>5 DEF Refused, Approved, Exists
<1>6. ASSUME NEW c, c = Canonical(th.rows, th.seen, th.email),
             NEW new \in Merged(th.rows, th.seen, th.who, th.email),
             \A u \in th.seen : Exists(u),
             users' = [u \in UserIds |-> IF u = c THEN Written(users[c], th.rows[c], new)
                                         ELSE IF u \in th.seen \ {c} THEN NoRow ELSE users[u]]
      PROVE  c \in th.seen \cap Approved'
  <2>1. PICK w \in User, best \in Strongest(th.rows, th.seen) :
          /\ w = Written(users[c], th.rows[c], new) /\ c \in th.seen
          /\ w.status = IF th.rows[best].status = th.rows[c].status
                        THEN users[c].status ELSE th.rows[best].status
    BY <1>2, <1>3, <1>6, HeirFacts
  <2>2. w.status = "approved"
    <3>1. CASE Fresh(t)
      <4>1. \A u \in th.seen : users[u] = th.rows[u]
        BY <1>1, <3>1 DEF Fresh
      <4>2. ApprovalRank(th.rows[a]) = 2
        BY <1>4, <4>1 DEF ApprovalRank
      <4>3. ApprovalRank(th.rows[best]) >= 2
        BY <1>4, <4>2, <2>1 DEF Strongest
      <4>4. th.rows[best].status = "approved"
        BY <4>3 DEF ApprovalRank
      <4> QED BY <2>1, <4>1, <4>4
    <3>2. CASE Cardinality(th.seen) = 1
      <4>1. IsFiniteSet(th.seen)
        <5>1. IsFiniteSet(UserIds)
          BY AccountAssumption, FS_Interval DEF UserIds
        <5> QED BY <1>2, <5>1, FS_Subset
      <4>2. \E x : th.seen = {x}
        BY <3>2, <4>1, FS_Singleton
      <4>3. a = c /\ best = c
        BY <2>1, <4>2 DEF Strongest
      <4> QED BY <1>4, <2>1, <4>3
    <3> QED BY <1>1, <3>1, <3>2
  <2>3. users'[c] = w /\ w # NoRow /\ c \in UserIds
    BY <1>2, <1>6, <2>1, Constant
  <2> QED BY <2>1, <2>2, <2>3 DEF Approved, Exists
<1>7. \/ Refused(t)
      \/ \E c : \E new \in Merged(th.rows, th.seen, th.who, th.email) :
           /\ c = Canonical(th.rows, th.seen, th.email)
           /\ \A u \in th.seen : Exists(u)
           /\ users' = [u \in UserIds |-> IF u = c THEN Written(users[c], th.rows[c], new)
                                          ELSE IF u \in th.seen \ {c} THEN NoRow ELSE users[u]]
  BY <1>1, <1>2 DEF Merge
<1> QED BY <1>1, <1>5, <1>6, <1>7

LEMMA BindingStep ==
  ASSUME AccountInv, [Next]_vars, NEW u \in UserIds, Exists(u), users[u].ext # Invited,
         users'[u] # NoRow
  PROVE  users'[u].ext # Invited
<1>1. CASE users' = users
  BY <1>1
<1>2. ASSUME NEW t \in Threads, Register(t), users' # users PROVE users'[u].ext # Invited
  <2>1. NextId <= MaxUser /\ \E row : users' = [users EXCEPT ![NextId] = row]
    BY <1>2 DEF Register, Refused
  <2>2. u # NextId
    BY <2>1, FreeIds DEF AccountInv, Exists
  <2>3. users'[u] = users[u]
    BY <2>1, <2>2 DEF AccountInv, TypeOK
  <2> QED BY <2>3
<1>3. ASSUME NEW t \in Threads, Merge(t), users' # users PROVE users'[u].ext # Invited
  <2>1. PICK th \in Thread : th = threads[t]
    BY DEF AccountInv, TypeOK
  <2>2. MergeOK(th) /\ th.seen # {} /\ th.seen \subseteq UserIds
    BY <1>3, <2>1 DEF Merge, AccountInv, Sound, Thread
  <2>3. PICK c : c = Canonical(th.rows, th.seen, th.email)
    OBVIOUS
  <2>4. PICK new \in Merged(th.rows, th.seen, th.who, th.email) :
          /\ \A v \in th.seen : Exists(v)
          /\ users' = [v \in UserIds |-> IF v = c THEN Written(users[c], th.rows[c], new)
                                         ELSE IF v \in th.seen \ {c} THEN NoRow ELSE users[v]]
    BY <1>3, <2>1, <2>3 DEF Merge, Refused
  <2>5. PICK w \in User :
          /\ w = Written(users[c], th.rows[c], new) /\ c \in th.seen
          /\ w.ext = IF th.who = th.rows[c].ext THEN users[c].ext ELSE th.who
    BY <2>2, <2>3, <2>4, HeirFacts
  <2>6. users'[u] = IF u = c THEN w ELSE users[u]
    BY <2>4, <2>5
  <2>7. u = c => w.ext # Invited
    <3>1. CASE th.op = "signIn"
      BY <2>2, <2>5, <3>1, Constant DEF MergeOK
    <3>2. CASE th.op = "invite"
      BY <2>2, <2>5, <3>2 DEF MergeOK
    <3> QED BY <2>2, <3>1, <3>2 DEF MergeOK
  <2> QED BY <2>6, <2>7
<1>4. ASSUME NEW t \in Threads, NEW v \in UserIds,
             \/ \E status \in Status \ {"pending"} : SetStatus(t, v, status)
             \/ \E role \in Roles : SetRole(t, v, role)
             \/ DeleteUser(t, v)
      PROVE  users'[u].ext # Invited
  <2>1. users[u] \in User
    BY DEF AccountInv, TypeOK, Exists
  <2>2. \/ \E status : users' = [users EXCEPT ![v].status = status]
        \/ \E role : users' = [users EXCEPT ![v].role = role]
        \/ users' = [users EXCEPT ![v] = NoRow]
    BY <1>4 DEF SetStatus, SetRole, DeleteUser
  <2>3. u = v \/ users'[u] = users[u]
    BY <2>2 DEF AccountInv, TypeOK
  <2>4. u = v => \/ \E status : users'[u] = [users[u] EXCEPT !.status = status]
                 \/ \E role : users'[u] = [users[u] EXCEPT !.role = role]
                 \/ users'[u] = NoRow
    BY <2>2, ZenonT(60) DEF AccountInv, TypeOK
  <2>5. users'[u].ext = users[u].ext
    BY <2>1, <2>3, <2>4 DEF User
  <2> QED BY <2>5
<1>5. \/ users' = users
      \/ \E t \in Threads : Register(t) \/ Merge(t)
      \/ \E t \in Threads : \E v \in UserIds :
           \/ \E status \in Status \ {"pending"} : SetStatus(t, v, status)
           \/ \E role \in Roles : SetRole(t, v, role)
           \/ DeleteUser(t, v)
  BY ZenonT(60) DEF Next, vars, Move, SignIn, SignInAgain, Invite, Admit, ReadProfiles, Ensure,
         CreateProfile, SetDefaultProfile, DeleteProfile
<1> QED BY <1>1, <1>2, <1>3, <1>4, <1>5

\* What was granted stays: no sign-in loses the approval of its person, and no
\* bound account becomes an invitation again.
THEOREM GrantsAreKept == Spec => GrantsStay
<1>1. AccountInv /\ [Next]_vars =>
        [\A t \in Threads :
           LET seen == threads[t].seen IN
           SignInStep(t) /\ (Fresh(t) \/ Cardinality(seen) = 1) /\ seen \cap Approved # {}
             => seen \cap Approved' # {}]_vars
  BY ApprovalStep
<1>2. AccountInv /\ [Next]_vars =>
        [\A u \in UserIds :
           Exists(u) /\ users[u].ext # Invited /\ users'[u] # NoRow
             => users'[u].ext # Invited]_vars
  BY BindingStep
<1> QED BY <1>1, <1>2, AccountInvariant, PTL DEF Spec, GrantsStay, ApprovalSurvives, BindingSticks
=============================================================================
