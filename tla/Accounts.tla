------------------------------ MODULE Accounts ------------------------------
(***************************************************************************)
(* The accounts of the console: who may use it, and the Agent Profiles of  *)
(* each account.                                                           *)
(*                                                                         *)
(* A person signs in with an identity of Clerk, and an account is looked   *)
(* up by that identity and by the e-mail address: an administrator may     *)
(* have invited the address before.  Two rows that turn out to be one      *)
(* person's are merged.  A request checks the account when it begins, and  *)
(* then does what it was sent for; what it writes rests on what it read.   *)
(*                                                                         *)
(* The database is SQLite: the greatest id of a table is given again after *)
(* its row is deleted, foreign keys are not enforced, and a transaction    *)
(* writes only the columns whose values it changed.                        *)
(*                                                                         *)
(* Left out: MFA, display names and e-mails, invite rows (nothing reads    *)
(* them back), the table of approval requests, the settings of a profile,  *)
(* and the copy of the settings that existed before there were profiles.   *)
(***************************************************************************)
EXTENDS Naturals, FiniteSets

CONSTANTS
  Threads,    \* requests that are served at the same time
  Clerk,      \* the identities that Clerk knows
  Emails,
  NoEmail,    \* a token without an address, and Clerk does not answer
  Founder,    \* the identity of the first administrator
  MaxUser,    \* bound on the ids of app_users
  MaxProfile, \* bound on the ids of agent_profiles
  Limit       \* bounds on the events that happen now and then

UserIds    == 1..MaxUser
ProfileIds == 1..MaxProfile
NoUser     == 0
Events     == {"move", "signIn", "noEmail", "invite", "status", "role", "delete",
               "profile"}

ASSUME AccountAssumption ==
  /\ Founder \in Clerk
  /\ NoEmail \notin Emails
  /\ Clerk \cap Emails = {}
  /\ "invited" \notin Clerk
  /\ MaxUser \in Nat \ {0}
  /\ MaxProfile \in Nat /\ MaxProfile >= 2
  /\ Limit \in [Events -> Nat]

\* external_auth_user_id is an identity of Clerk, or marks an invitation.
Invited == "invited"
Status  == {"pending", "approved", "rejected", "suspended"}
Roles   == {"user", "admin"}

NoRow == [email |-> NoEmail, ext |-> Invited, status |-> "pending", role |-> "user"]

User == [email: Emails, ext: Clerk \cup {Invited}, status: Status, role: Roles]

NoProfile == [user |-> NoUser, default |-> FALSE]

Profile == [user: UserIds, default: BOOLEAN]

VARIABLES
  mailOf,    \* Clerk's e-mail address of each identity
  users,     \* app_users rows
  seeded,    \* the user ids that a watchlist row names
  profiles,  \* agent_profiles rows
  raced,     \* the users two of whose requests about profiles overlapped, or
             \* who got a profile's id that another request still works with
  crossed,   \* the users that were deleted while a sign-in was working with them
  threads,   \* local variables of the requests
  spent      \* how many events of each kind have happened

vars == <<mailOf, users, seeded, profiles, raced, crossed, threads, spent>>

Thread == [at: {"idle", "merge", "touch", "ready", "commit"},
           op: {"none", "signIn", "invite", "ensure", "create", "default", "drop"},
           who: Clerk \cup {Invited},
           email: Emails \cup {NoEmail},
           seen: SUBSET UserIds,      \* the candidates of a merge ...
           rows: [UserIds -> User \cup {NoRow}],  \* ... as they were read
           user: UserIds \cup {NoUser},           \* the account of the request
           admin: BOOLEAN,                        \* it is an administrator's
           target: ProfileIds \cup {0},
           view: [ProfileIds -> Profile \cup {NoProfile}]]

Nobody == [u \in UserIds |-> NoRow]
Nothing == [p \in ProfileIds |-> NoProfile]

Idle == [at |-> "idle", op |-> "none", who |-> Invited, email |-> NoEmail,
         seen |-> {}, rows |-> Nobody, user |-> NoUser, admin |-> FALSE, target |-> 0,
         view |-> Nothing]

TypeOK ==
  /\ mailOf \in [Clerk -> Emails]
  /\ users \in [UserIds -> User \cup {NoRow}]
  /\ seeded \subseteq UserIds
  /\ profiles \in [ProfileIds -> Profile \cup {NoProfile}]
  /\ raced \subseteq UserIds
  /\ crossed \subseteq UserIds
  /\ threads \in [Threads -> Thread]
  /\ spent \in [Events -> Nat]

Exists(u) == users[u] # NoRow

\* The first administrator, who may have two profiles.
Init ==
  /\ mailOf \in {m \in [Clerk -> Emails] : \A j, k \in Clerk : m[j] = m[k] => j = k}
  /\ users = [Nobody EXCEPT ![1] =
       [email |-> mailOf[Founder], ext |-> Founder, status |-> "approved", role |-> "admin"]]
  /\ seeded = {1}
  /\ profiles \in {Nothing, [Nothing EXCEPT ![1] = [user |-> 1, default |-> TRUE],
                                           ![2] = [user |-> 1, default |-> FALSE]]}
  /\ raced = {}
  /\ crossed = {}
  /\ threads = [t \in Threads |-> Idle]
  /\ spent = [e \in Events |-> 0]

Spend(event) ==
  /\ spent[event] < Limit[event]
  /\ spent' = [spent EXCEPT ![event] = @ + 1]

Goto(t, locals) == threads' = [threads EXCEPT ![t] = locals]

\* The request ends, well or with an error.
Leave(t) == Goto(t, Idle)

\* A person changes the address at Clerk, to one that nobody there has.
Move(k, e) ==
  /\ Spend("move")
  /\ \A j \in Clerk : mailOf[j] # e
  /\ mailOf' = [mailOf EXCEPT ![k] = e]
  /\ UNCHANGED <<users, seeded, profiles, raced, crossed, threads>>

(***************************************************************************)
(* Signing in, and inviting                                                *)
(***************************************************************************)

\* The rows that may be this person's.  (A row that marks an invitation has
\* the invited address.)
Candidates(k, e) ==
  {u \in UserIds : Exists(u) /\ \/ k # Invited /\ users[u].ext = k
                                \/ users[u].email = e}

Read(seen) == [u \in UserIds |-> IF u \in seen THEN users[u] ELSE NoRow]

ApprovalRank(row) ==
  CASE row.status = "approved" -> 2 [] row.status = "pending" -> 1 [] OTHER -> 0

\* _select_canonical_user: the row with the address, or else the one with the
\* identity.  At most one row has either.
Canonical(rows, seen, e) ==
  IF \E u \in seen : rows[u].email = e
  THEN CHOOSE u \in seen : rows[u].email = e
  ELSE CHOOSE u \in seen : TRUE

\* Faulty variant: the highest standing is the last one that was given.
Strongest_Sanction(rows, seen) ==
  {u \in seen : \A v \in seen : ApprovalRank(rows[u]) <= ApprovalRank(rows[v])}

Strongest(rows, seen) ==
  {u \in seen : \A v \in seen : ApprovalRank(rows[u]) >= ApprovalRank(rows[v])}

\* What _merge_users makes of the candidates as they were read: the standing
\* of the best of them, under this identity and address.
Merged(rows, seen, k, e) ==
  {[email  |-> IF e = NoEmail THEN rows[Canonical(rows, seen, e)].email ELSE e,
    ext    |-> k,
    status |-> rows[best].status,
    role   |-> IF \E u \in seen : rows[u].role = "admin" THEN "admin" ELSE "user"] :
   best \in Strongest(rows, seen)}

\* Faulty variant: the whole row is written, as it was read.
Written_WholeRow(now, read, new) == new

\* An UPDATE names the columns whose values changed since they were read.
Written(now, read, new) ==
  [c \in DOMAIN now |-> IF new[c] = read[c] THEN now[c] ELSE new[c]]

\* The row is taken from the rows there are, if the unique columns allow it.
Unique(rows) ==
  \A u, v \in UserIds :
    rows[u] # NoRow /\ rows[v] # NoRow /\ u # v
      => /\ rows[u].email # rows[v].email
         /\ rows[u].ext = rows[v].ext => rows[u].ext = Invited

NewUser(k, e) == [email |-> e, ext |-> k, status |-> "pending", role |-> "user"]

NextId == 1 + Cardinality({u \in UserIds : \E v \in UserIds : u <= v /\ Exists(v)})

\* current_user: the token is valid, and the rows are read.  A row that is not
\* there is made only for a known address.
SignIn(t, k, e) ==
  /\ threads[t].at = "idle"
  /\ Spend(IF e = NoEmail THEN "noEmail" ELSE "signIn")
  /\ e \in {mailOf[k], NoEmail}
  /\ e = NoEmail => Candidates(k, e) # {}
  /\ Goto(t, [Idle EXCEPT !.at = "merge", !.op = "signIn", !.who = k, !.email = e,
                          !.seen = Candidates(k, e), !.rows = Read(Candidates(k, e))])
  /\ UNCHANGED <<mailOf, users, seeded, profiles, raced, crossed>>

\* A request of a person whose account needs no change: reading and writing it
\* leave everything as it is, and are one step here.
SignInAgain(t, k) ==
  /\ threads[t].at = "idle"
  /\ \E u \in UserIds :
       /\ Candidates(k, mailOf[k]) = {u} /\ users[u].ext = k /\ users[u].email = mailOf[k]
       /\ Goto(t, [Idle EXCEPT !.at = "touch", !.op = "signIn", !.user = u])
  /\ UNCHANGED <<mailOf, users, seeded, profiles, raced, crossed, spent>>

\* create_or_update_invited_pending_user keeps the identity that the row has.
Invite(t, e) ==
  LET seen == Candidates(Invited, e) IN
  /\ threads[t].at = "ready"
  /\ threads[t].admin
  /\ Spend("invite")
  /\ Goto(t, [Idle EXCEPT
       !.at = "merge", !.op = "invite", !.email = e, !.seen = seen, !.rows = Read(seen),
       !.who = IF seen = {} THEN Invited ELSE users[CHOOSE u \in seen : TRUE].ext])
  /\ UNCHANGED <<mailOf, users, seeded, profiles, raced, crossed>>

Refused(t) ==
  /\ Leave(t)
  /\ UNCHANGED <<users, seeded, profiles>>

\* These rows are deleted: who else is working with them is left with an id
\* that may be given again.
Crossed(t, lost) ==
  crossed' = crossed \cup
    {u \in lost : \E o \in Threads \ {t} :
                   threads[o].at = "merge" /\ u \in threads[o].seen}

\* After a sign-in, the request goes on with the account.
Proceed(t, u) ==
  IF threads[t].op = "signIn"
  THEN Goto(t, [Idle EXCEPT !.at = "touch", !.op = "signIn", !.user = u])
  ELSE Leave(t)

\* Faulty variant: a person who was invited gets no watchlist.
Seeds_New(t) == threads[t].op = "signIn" /\ threads[t].seen = {}

\* The starter watchlist is for those who sign in for the first time, also
\* when they were invited before.
Seeds(t) ==
  LET th == threads[t] IN
  /\ th.op = "signIn"
  /\ th.seen = {} \/ \E u \in th.seen : th.rows[u].ext = Invited

\* A row is added, unless another request has meanwhile added one that has the
\* identity or the address.
Register(t) ==
  LET th   == threads[t]
      rows == [users EXCEPT ![NextId] = NewUser(th.who, th.email)]
  IN
  /\ th.at = "merge" /\ th.seen = {}
  /\ NextId <= MaxUser
  /\ IF Unique(rows)
     THEN /\ users' = rows
          /\ seeded' = IF Seeds(t) THEN seeded \cup {NextId} ELSE seeded
          /\ Proceed(t, NextId)
          /\ UNCHANGED profiles
     ELSE Refused(t)
  /\ UNCHANGED <<mailOf, raced, crossed, spent>>

\* The other candidates give up their identity and address, hand over what
\* they own, and are deleted.  The Agent Profiles are not handed over.
\* An UPDATE of a row that is gone fails, and so does one that would give two
\* rows one identity or address.
Merge(t) ==
  LET th   == threads[t]
      c    == Canonical(th.rows, th.seen, th.email)
      gone == th.seen \ {c}
  IN
  /\ th.at = "merge" /\ th.seen # {}
  /\ \E new \in Merged(th.rows, th.seen, th.who, th.email) :
       LET rows == [u \in UserIds |->
                      IF u = c THEN Written(users[c], th.rows[c], new)
                      ELSE IF u \in gone THEN NoRow ELSE users[u]]
           heir == IF Seeds(t) \/ seeded \cap gone # {} THEN {c} ELSE {}
       IN
       IF (\A u \in th.seen : Exists(u)) /\ Unique(rows)
       THEN /\ users' = rows
            /\ seeded' = (seeded \ gone) \cup heir
            /\ Crossed(t, gone)
            /\ Proceed(t, c)
            /\ UNCHANGED profiles
       ELSE Refused(t) /\ UNCHANGED crossed
  /\ UNCHANGED <<mailOf, raced, spent>>

\* touch_last_seen reads the row again, and the request is let in or refused.
Admit(t) ==
  LET u == threads[t].user IN
  /\ threads[t].at = "touch"
  /\ IF Exists(u) /\ users[u].status = "approved"
     THEN Goto(t, [threads[t] EXCEPT !.at = "ready", !.admin = users[u].role = "admin"])
     ELSE Leave(t)
  /\ UNCHANGED <<mailOf, users, seeded, profiles, raced, crossed, spent>>

(***************************************************************************)
(* What an administrator does to accounts                                  *)
(***************************************************************************)

\* approve_user, reject_user, suspend_user and unsuspend_user.  Only rejecting
\* oneself is not refused.
SetStatus(t, u, status) ==
  /\ threads[t].at = "ready" /\ threads[t].admin
  /\ Spend("status")
  /\ Exists(u)
  /\ status \in {"approved", "suspended"} => u # threads[t].user
  /\ users' = [users EXCEPT ![u].status = status]
  /\ seeded' = IF status = "approved" /\ users[u].status = "pending"
               THEN seeded \cup {u} ELSE seeded
  /\ Leave(t)
  /\ UNCHANGED <<mailOf, profiles, raced, crossed>>

SetRole(t, u, role) ==
  /\ threads[t].at = "ready" /\ threads[t].admin
  /\ Spend("role")
  /\ Exists(u) /\ u # threads[t].user
  /\ users' = [users EXCEPT ![u].role = role]
  /\ Leave(t)
  /\ UNCHANGED <<mailOf, seeded, profiles, raced, crossed>>

\* delete_user deletes the row, and nothing that names it.
DeleteUser(t, u) ==
  /\ threads[t].at = "ready" /\ threads[t].admin
  /\ Spend("delete")
  /\ Exists(u) /\ u # threads[t].user
  /\ users' = [users EXCEPT ![u] = NoRow]
  /\ Crossed(t, {u})
  /\ Leave(t)
  /\ UNCHANGED <<mailOf, seeded, profiles, raced>>

(***************************************************************************)
(* The profiles of an account                                              *)
(***************************************************************************)

Of(u, view) == {p \in ProfileIds : view[p].user = u}

ReadOwn(u) ==
  [p \in ProfileIds |-> IF profiles[p].user = u THEN profiles[p] ELSE NoProfile]

\* Faulty variant: the default profile may be deleted as well.
Deletable_NotLast(u, p, view) ==
  p \in Of(u, view) /\ Cardinality(Of(u, view)) > 1

\* delete_profile refuses to delete the last profile and the default one.
Deletable(u, p, view) ==
  p \in Of(u, view) /\ Cardinality(Of(u, view)) > 1 /\ ~ view[p].default

\* Another request about the profiles of this user is under way.
Overlapping(t) ==
  \E o \in Threads \ {t} : threads[o].at = "commit" /\ threads[o].user = threads[t].user

\* The handlers of profiles read the rows of their user.  A profile that is
\* not there, or may not be deleted, ends the request.
ReadProfiles(t, op, p) ==
  LET u == threads[t].user IN
  /\ threads[t].at = "ready"
  /\ Spend("profile")
  /\ op = "default" => p \in Of(u, profiles)
  /\ op = "drop" => Deletable(u, p, profiles)
  /\ op \in {"ensure", "create"} => p = 0
  /\ Goto(t, [threads[t] EXCEPT !.at = "commit", !.op = op, !.target = p,
                                !.view = ReadOwn(u)])
  /\ raced' = IF Overlapping(t) THEN raced \cup {u} ELSE raced
  /\ UNCHANGED <<mailOf, users, seeded, profiles, crossed>>

NextProfile ==
  1 + Cardinality({p \in ProfileIds : \E q \in ProfileIds : p <= q /\ profiles[q] # NoProfile})

\* Its id may be one that a request still works with.
Insert(u, default) ==
  /\ NextProfile <= MaxProfile
  /\ profiles' = [profiles EXCEPT ![NextProfile] = [user |-> u, default |-> default]]
  /\ raced' = IF \E t \in Threads : threads[t].view[NextProfile] # NoProfile
              THEN raced \cup {u} ELSE raced

\* The rows whose default flag an assignment changes; all of them must be there
\* when it is written.
Flags(view, own, chosen) == {p \in own : view[p].default # (p = chosen)}

SetDefault(t, own, chosen) ==
  LET view    == threads[t].view
      changed == Flags(view, own, chosen)
  IN  IF \A p \in changed : profiles[p] # NoProfile
      THEN profiles' = [p \in ProfileIds |->
             IF p \in changed THEN [profiles[p] EXCEPT !.default = (p = chosen)]
             ELSE profiles[p]]
      ELSE UNCHANGED profiles

First(own) == CHOOSE p \in own : \A q \in own : p <= q

\* ensure_default_profile: every handler that shows or uses a profile calls it.
Ensure(t) ==
  LET u   == threads[t].user
      own == Of(u, threads[t].view)
  IN
  /\ threads[t].at = "commit" /\ threads[t].op = "ensure"
  /\ IF own = {} THEN Insert(u, TRUE)
     ELSE IF \E p \in own : threads[t].view[p].default THEN UNCHANGED <<profiles, raced>>
     ELSE SetDefault(t, own, First(own)) /\ UNCHANGED raced
  /\ Leave(t)
  /\ UNCHANGED <<mailOf, users, seeded, crossed, spent>>

CreateProfile(t) ==
  LET u == threads[t].user IN
  /\ threads[t].at = "commit" /\ threads[t].op = "create"
  /\ Insert(u, Of(u, threads[t].view) = {})
  /\ Leave(t)
  /\ UNCHANGED <<mailOf, users, seeded, crossed, spent>>

SetDefaultProfile(t) ==
  /\ threads[t].at = "commit" /\ threads[t].op = "default"
  /\ SetDefault(t, Of(threads[t].user, threads[t].view), threads[t].target)
  /\ Leave(t)
  /\ UNCHANGED <<mailOf, users, seeded, raced, crossed, spent>>

DeleteProfile(t) ==
  /\ threads[t].at = "commit" /\ threads[t].op = "drop"
  /\ profiles' = [profiles EXCEPT ![threads[t].target] = NoProfile]
  /\ Leave(t)
  /\ UNCHANGED <<mailOf, users, seeded, raced, crossed, spent>>

-----------------------------------------------------------------------------

SignInStep(t) == Register(t) \/ Merge(t)

Next ==
  \/ \E k \in Clerk, e \in Emails : Move(k, e)
  \/ \E t \in Threads :
       \/ \E k \in Clerk, e \in Emails \cup {NoEmail} : SignIn(t, k, e)
       \/ \E k \in Clerk : SignInAgain(t, k)
       \/ \E e \in Emails : Invite(t, e)
       \/ Register(t)
       \/ Merge(t)
       \/ Admit(t)
       \/ \E u \in UserIds :
            \/ \E status \in Status \ {"pending"} : SetStatus(t, u, status)
            \/ \E role \in Roles : SetRole(t, u, role)
            \/ DeleteUser(t, u)
       \/ \E op \in {"ensure", "create", "default", "drop"} :
            \E p \in ProfileIds \cup {0} : ReadProfiles(t, op, p)
       \/ Ensure(t)
       \/ CreateProfile(t)
       \/ SetDefaultProfile(t)
       \/ DeleteProfile(t)

Spec == Init /\ [][Next]_vars

(***************************************************************************)
(* Properties                                                              *)
(***************************************************************************)

Approved == {u \in UserIds : Exists(u) /\ users[u].status = "approved"}

\* What a request read of the candidates of a merge has not changed since.
Fresh(t) == \A u \in threads[t].seen : users[u] = threads[t].rows[u]

\* An approval survives the sign-in of its person: the merge of two rows keeps
\* it, and so does a sign-in that read the row before it was approved, because
\* the session writes back only what it changed.
ApprovalSurvives ==
  [][\A t \in Threads :
       LET seen == threads[t].seen IN
       SignInStep(t) /\ (Fresh(t) \/ Cardinality(seen) = 1) /\ seen \cap Approved # {}
         => seen \cap Approved' # {}]_vars

\* An account that is bound to an identity of Clerk is never turned back into
\* an invitation, by invitations that are repeated or were read before its
\* person signed in.
BindingSticks ==
  [][\A u \in UserIds :
       Exists(u) /\ users[u].ext # Invited /\ users'[u] # NoRow
         => users'[u].ext # Invited]_vars

\* Whoever has signed in has a watchlist, whichever of invitation, approval and
\* sign-in came first, unless their row was deleted while a sign-in was working
\* with it.
SignedInHasWatchlist ==
  \A u \in UserIds \ crossed : Exists(u) /\ users[u].ext # Invited => u \in seeded

\* A user with profiles has one default profile, as long as no two requests
\* about them overlapped and no other request works with the id of one of them.
OneDefault ==
  \A u \in UserIds \ raced :
    Of(u, profiles) # {} => Cardinality({p \in Of(u, profiles) : profiles[p].default}) = 1

\* What was granted to an account stays: the approval of its person, and the
\* identity it is bound to (upsert_from_auth, create_invited_user).
GrantsStay == ApprovalSurvives /\ BindingSticks
=============================================================================
