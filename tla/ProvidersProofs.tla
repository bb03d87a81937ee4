-------------------------- MODULE ProvidersProofs --------------------------
(***************************************************************************)
(* Theorems about the services that the program talks to: the tokens of    *)
(* Schwab (SchwabTokens), for any number of request threads, state values, *)
(* tokens and ticks; the market-data service (MarketData), for any number  *)
(* of threads, series and seconds; the messages about agent runs           *)
(* (Notifications), for any number of senders, runs and messages a day;    *)
(* and what is made of an answer (MarketQuotes), whatever the answer.      *)
(***************************************************************************)
EXTENDS MCProviders, MarketQuotes, FiniteSetTheorems, SequenceTheorems,
        WellFoundedInduction, TLAPS

(***************************************************************************)
(* The inductive invariant                                                 *)
(***************************************************************************)

\* What a thread keeps between two steps.
Reading    == [stage : {"refresh", "send"}, row : Rows, since : Times]
Renewing   == [stage : {"save"}, row : Rows, goal : {"read"}, since : Times]
Connecting == [stage : {"save"}, row : Rows, goal : {"connect"}]
Marking    == [stage : {"mark"}, mark : Status]
Claiming   == [stage : {"claim"}, state : States]
Waiting    == [stage : {"idle", "exchange"}]
Task == Reading \cup Renewing \cup Connecting \cup Marking \cup Claiming \cup Waiting

\* The variables that belong to the stored tokens and their readers.
TypesOK ==
  /\ now \in Times
  /\ row \in Rows \cup {NoRow}
  /\ task \in [Threads -> Task]
  /\ issued \in 0..MaxTokens
  /\ honoured \subseteq 1..issued
  /\ live \subseteq 1..issued
  /\ strained \subseteq Strains

\* A state value has led to an exchange once when its row is used, and never
\* before; a callback in flight holds a state that has a row.
StatesOK ==
  /\ states \in [DOMAIN states -> [expires : Nat, used : BOOLEAN]]
  /\ DOMAIN states \subseteq States
  /\ exchanged \in [States -> Nat]
  /\ \A s \in States :
       exchanged[s] = IF s \in DOMAIN states /\ states[s].used THEN 1 ELSE 0
  /\ \A t \in Threads : task[t].stage = "claim" => task[t].state \in DOMAIN states

\* A thread that has read the row, or marks it, has a row to read or mark.
RowRead ==
  \A t \in Threads : task[t].stage \in {"refresh", "send", "mark"} => row \in Rows

\* No row names a token that was not issued yet.
RowIssued(r, n) == r.access \in 1..n /\ r.refresh \in 0..n
TokensIssued ==
  /\ row \in Rows => RowIssued(row, issued)
  /\ \A t \in Threads :
       task[t].stage \in {"refresh", "save", "send"} => RowIssued(task[t].row, issued)

TypeInv == TypesOK /\ StatesOK /\ RowRead /\ TokensIssued

\* As long as nothing disturbed the order of refreshes, the stored refresh
\* token is honoured, or a thread is about to save the one that is.
Undisturbed == strained \cap {"overlap", "lost", "bare", "revoked"} = {}
LiveInv ==
  Undisturbed =>
    /\ \A t \in Threads : task[t].stage = "save" => task[t].row.refresh \in honoured
    /\ row \in Rows =>
         row.refresh \in honoured \/ \E t \in Threads : task[t].stage = "save"

\* A thread's token cannot have expired when it read the row.
Fresh(q) == q.row.accessExpires = Unknown \/ q.since < q.row.accessExpires

\* As long as nothing excuses a refusal: what a thread is about to refresh is
\* the stored token, and a row that is refused, or is about to be, cannot be
\* refreshed.
Excused == strained \cap {"overlap", "lost", "outage", "late", "revoked"} # {}
RefusalInv ==
  ~ Excused =>
    /\ row \in Rows => row.access \in live
    /\ row \in Rows /\ ~ Accepts(row) => ~ Refreshable
    /\ \A t \in Threads :
         /\ task[t].stage \in {"send", "save"} => task[t].row.access \in live
         /\ task[t].stage = "refresh" => task[t].row.refresh = row.refresh
         /\ task[t].stage = "mark" /\ task[t].mark # "connected" => ~ Refreshable

FreshInv ==
  \A t \in Threads :
    /\ task[t].stage = "send" \/ (task[t].stage = "save" /\ task[t].goal = "read") =>
         Fresh(task[t])
    /\ task[t].stage = "save" => task[t].row.status = "connected"

IInv == TypeInv /\ LiveInv /\ FreshInv /\ RefusalInv

(***************************************************************************)
(* Lemmas                                                                  *)
(***************************************************************************)

LEMMA Locals ==
  ASSUME NEW q \in Task
  PROVE  /\ q.stage \in {"refresh", "send"} => q \in Reading
         /\ q.stage = "save" => q \in Renewing \cup Connecting
         /\ q.stage = "save" /\ q.goal = "read" => q \in Renewing
         /\ q.stage = "mark" => q \in Marking
         /\ q.stage = "claim" => q \in Claiming
         /\ q.stage \in {"refresh", "send", "save"} => q.row \in Rows
         /\ q.stage \in {"idle", "refresh", "send", "save", "mark", "claim", "exchange"}
BY DEF Task, Reading, Renewing, Connecting, Marking, Claiming, Waiting

LEMMA IdleIsWaiting == Idle \in Task /\ Idle.stage = "idle"
BY DEF Idle, Task, Waiting

LEMMA GoneTo ==
  ASSUME TypesOK, NEW t \in Threads, NEW next, Goto(t, next)
  PROVE  /\ \A u \in Threads : task'[u] = IF u = t THEN next ELSE task[u]
         /\ next \in Task => task' \in [Threads -> Task]
BY DEF TypesOK, Goto

\* A token response names the tokens that Schwab has just issued.
LEMMA AnswerOK ==
  ASSUME TypesOK, issued < MaxTokens, NEW at \in Times,
         NEW refresh \in {issued + 1, NoId}, NEW a \in Answer(at, refresh)
  PROVE  /\ a \in Rows
         /\ a.access = issued + 1 /\ a.refresh = refresh /\ a.status = "connected"
         /\ a.accessExpires = Unknown \/ at < a.accessExpires
<1>1. PICK e \in {at + AccessLife, Unknown}, r \in {at + RefreshLife, Unknown} :
        a = [access |-> issued + 1, refresh |-> refresh, accessExpires |-> e,
             refreshExpires |-> r, status |-> "connected"]
  BY DEF Answer
<1>2. at \in Nat /\ AccessLife \in Nat /\ AccessLife > 0 /\ RefreshLife \in Nat
      /\ issued \in Nat /\ MaxTokens \in Nat
  BY TokenAssumption DEF Times, TypesOK
<1>3. e \in Expiry /\ r \in Expiry
  BY <1>2 DEF Expiry
<1>4. issued + 1 \in Ids
  BY <1>2 DEF Ids
<1> QED BY <1>1, <1>2, <1>3, <1>4 DEF Rows, Status

\* What Schwab issues is honoured from then on, and the tokens it does not
\* retire still are.
LEMMA IssueOK ==
  ASSUME TypesOK, NEW old, Issue(old)
  PROVE  /\ issued < MaxTokens /\ issued' = issued + 1 /\ issued' \in 0..MaxTokens
         /\ honoured' = (honoured \ old) \cup {issued + 1}
         /\ live' = live \cup {issued + 1}
         /\ honoured' \subseteq 1..issued' /\ live' \subseteq 1..issued'
<1>1. issued < MaxTokens /\ issued' = issued + 1 /\ issued \in Nat /\ MaxTokens \in Nat
  BY TokenAssumption DEF TypesOK, Issue
<1>2. honoured' = (honoured \ old) \cup {issued + 1} /\ live' = live \cup {issued + 1}
  BY DEF Issue
<1>3. 1..issued \subseteq 1..issued' /\ issued + 1 \in 1..issued'
  BY <1>1
<1>4. honoured \subseteq 1..issued /\ live \subseteq 1..issued
  BY DEF TypesOK
<1>5. issued' \in 0..MaxTokens
  BY <1>1
<1>6. honoured' \subseteq 1..issued' /\ live' \subseteq 1..issued'
  BY <1>2, <1>3, <1>4
<1> QED BY <1>1, <1>2, <1>5, <1>6

\* Strains only accumulate.
LEMMA StrainOK ==
  ASSUME TypesOK, NEW why \in SUBSET Strains, Strain(why)
  PROVE  /\ strained' \subseteq Strains /\ strained \subseteq strained'
         /\ why \subseteq strained'
BY DEF TypesOK, Strain

LEMMA Strained ==
  ASSUME strained \subseteq strained'
  PROVE  /\ Undisturbed' => Undisturbed
         /\ ~ Excused' => ~ Excused
         /\ "overlap" \in strained' => ~ Undisturbed' /\ Excused'
         /\ "revoked" \in strained' => ~ Undisturbed' /\ Excused'
         /\ "lost" \in strained' => ~ Undisturbed' /\ Excused'
         /\ "bare" \in strained' => ~ Undisturbed'
         /\ "outage" \in strained' \/ "late" \in strained' => Excused'
BY DEF Undisturbed, Excused

\* A step that changes neither the states nor a callback keeps StatesOK.
LEMMA StatesKept ==
  ASSUME StatesOK, UNCHANGED <<states, exchanged>>,
         \A u \in Threads : task'[u].stage = "claim" => task'[u] = task[u]
  PROVE  StatesOK'
BY DEF StatesOK

LEMMA InitInv == Init => IInv
<1> SUFFICES ASSUME Init PROVE IInv
  OBVIOUS
<1> USE DEF Init
<1>1. \A t \in Threads : task[t].stage = "idle"
  BY IdleIsWaiting
<1>2. TypesOK
  BY IdleIsWaiting, TokenAssumption DEF TypesOK, Times
<1>3. StatesOK
  BY <1>1 DEF StatesOK
<1>4. row \notin Rows
  BY TokenAssumption
<1>5. RowRead /\ TokensIssued
  BY <1>1, <1>4 DEF RowRead, TokensIssued
<1>6. LiveInv /\ FreshInv /\ RefusalInv
  BY <1>1, <1>4 DEF LiveInv, FreshInv, RefusalInv
<1> QED BY <1>2, <1>3, <1>5, <1>6 DEF IInv, TypeInv

(***************************************************************************)
(* Steps                                                                   *)
(***************************************************************************)

\* A step of one thread that leaves the row and Schwab alone and moves on with
\* well-formed locals.
LEMMA QuietGoto ==
  ASSUME IInv, NEW t \in Threads, NEW next \in Task, Goto(t, next),
         UNCHANGED <<now, row, states, schwab, exchanged>>,
         NEW why \in SUBSET Strains, Strain(why),
         next.stage \in {"idle", "refresh", "send", "mark", "claim", "exchange"},
         next.stage \in {"refresh", "send", "mark"} => row \in Rows,
         next.stage \in {"refresh", "send"} => next.row \in {row, task[t].row} /\ RowIssued(next.row, issued),
         next.stage = "claim" => next.state \in DOMAIN states,
         next.stage = "send" => Fresh(next),
         task[t].stage # "save",
         ~ Excused' =>
           /\ next.stage = "send" => next.row.access \in live
           /\ next.stage = "refresh" => next.row.refresh = row.refresh
           /\ next.stage = "mark" /\ next.mark # "connected" => ~ Refreshable
  PROVE  IInv'
<1> USE DEF IInv, TypeInv
<1>1. \A u \in Threads : task'[u] = IF u = t THEN next ELSE task[u]
  BY GoneTo
<1>2. /\ strained' \subseteq Strains
      /\ Undisturbed' => Undisturbed
      /\ ~ Excused' => ~ Excused
  BY StrainOK, Strained
<1>3. /\ now' = now /\ row' = row /\ issued' = issued /\ honoured' = honoured
      /\ live' = live /\ states' = states /\ exchanged' = exchanged
  BY DEF schwab
<1>4. TypesOK'
  BY <1>2, <1>3, GoneTo DEF TypesOK
<1>5. StatesOK'
  BY <1>1, <1>3 DEF StatesOK
<1>6. RowRead' /\ TokensIssued'
  BY <1>1, <1>3 DEF RowRead, TokensIssued, RowIssued
<1>7. LiveInv'
  BY <1>1, <1>2, <1>3 DEF LiveInv
<1>8. FreshInv'
  BY <1>1, <1>3 DEF FreshInv, Fresh
<1>9. Refreshable' = Refreshable
  BY <1>3 DEF Refreshable, Expired
<1>10. RefusalInv'
  BY <1>1, <1>2, <1>3, <1>9 DEF RefusalInv, Accepts
<1> QED BY <1>4, <1>5, <1>6, <1>7, <1>8, <1>10

LEMMA NoStrain ==
  ASSUME TypesOK, UNCHANGED strained
  PROVE  {} \in SUBSET Strains /\ Strain({})
BY DEF Strain

LEMMA TickStep == ASSUME IInv, Tick PROVE IInv'
<1> USE DEF IInv, TypeInv
<1>1. /\ now' = now + 1 /\ now' \in Times /\ now \in Nat
      /\ UNCHANGED <<row, states, task, issued, honoured, live, exchanged, strained>>
  BY TokenAssumption DEF Tick, schwab, TypesOK, Times
<1>2. TypesOK' /\ StatesOK' /\ RowRead' /\ TokensIssued'
  BY <1>1 DEF TypesOK, StatesOK, RowRead, TokensIssued, RowIssued
<1>3. LiveInv' /\ FreshInv'
  BY <1>1 DEF LiveInv, FreshInv, Undisturbed, Fresh
<1>4. row \in Rows /\ ~ Refreshable => ~ Refreshable'
  <2>1. row \in Rows /\ Expired(row.refreshExpires) => Expired(row.refreshExpires)'
    BY <1>1, TokenAssumption DEF Rows, Expiry, Expired
  <2> QED BY <1>1, <2>1 DEF Refreshable
<1>5. RefusalInv'
  BY <1>1, <1>4 DEF RefusalInv, RowRead, Excused, Accepts
<1> QED BY <1>2, <1>3, <1>5

LEMMA RevokeStep == ASSUME IInv, Revoke PROVE IInv'
<1> USE DEF IInv, TypeInv
<1>1. /\ honoured' = {} /\ live' = {} /\ strained' = strained \cup {"revoked"}
      /\ UNCHANGED <<now, row, states, task, issued, exchanged>>
  BY DEF Revoke, Strain
<1>2. TypesOK' /\ StatesOK' /\ RowRead' /\ TokensIssued'
  BY <1>1 DEF TypesOK, StatesOK, RowRead, TokensIssued, RowIssued, Strains
<1>3. FreshInv'
  BY <1>1 DEF FreshInv, Fresh
<1>4. LiveInv' /\ RefusalInv'
  BY <1>1, Strained DEF LiveInv, RefusalInv
<1> QED BY <1>2, <1>3, <1>4

LEMMA StartOAuthStep ==
  ASSUME IInv, NEW s \in States, StartOAuth(s) PROVE IInv'
<1> USE DEF IInv, TypeInv
<1> DEFINE fresh == [expires |-> now + StateLife, used |-> FALSE]
<1>1. /\ s \notin DOMAIN states
      /\ states' = [r \in DOMAIN states \cup {s} |-> IF r = s THEN fresh ELSE states[r]]
      /\ UNCHANGED <<now, row, task, issued, honoured, live, exchanged, strained>>
  BY DEF StartOAuth, schwab
<1>2. fresh \in [expires : Nat, used : BOOLEAN] /\ ~ fresh.used
  BY TokenAssumption DEF TypesOK, Times
<1> HIDE DEF fresh
<1>3. DOMAIN states' = DOMAIN states \cup {s}
  BY <1>1
<1>4. StatesOK'
  BY <1>1, <1>2, <1>3 DEF StatesOK
<1>5. TypesOK' /\ RowRead' /\ TokensIssued' /\ FreshInv' /\ LiveInv'
  BY <1>1 DEF TypesOK, RowRead, TokensIssued, RowIssued, FreshInv, Fresh, LiveInv, Undisturbed
<1>6. RefusalInv'
  BY <1>1 DEF RefusalInv, Excused, Accepts, Refreshable, Expired
<1> QED BY <1>4, <1>5, <1>6

LEMMA CallbackStep ==
  ASSUME IInv, NEW t \in Threads, NEW s \in States, Callback(t, s) PROVE IInv'
<1> DEFINE next == [stage |-> "claim", state |-> s]
<1>1. /\ task[t] = Idle /\ s \in DOMAIN states /\ Goto(t, next)
      /\ UNCHANGED <<now, row, states, schwab, exchanged, strained>>
  BY DEF Callback
<1>2. next \in Task /\ next.stage = "claim" /\ next.state = s
  BY DEF Task, Claiming
<1> HIDE DEF next
<1>3. Strain({}) /\ {} \in SUBSET Strains
  BY <1>1, NoStrain DEF IInv, TypeInv
<1>4. task[t].stage # "save"
  BY <1>1, IdleIsWaiting
<1> QED BY <1>1, <1>2, <1>3, <1>4, QuietGoto

LEMMA ClaimStep ==
  ASSUME IInv, NEW t \in Threads, Claim(t) PROVE IInv'
<1> DEFINE s == task[t].state
<1>1. task[t].stage = "claim" /\ UNCHANGED <<now, row, schwab, strained>>
  BY DEF Claim
<1>2. task[t] \in Claiming /\ s \in States /\ s \in DOMAIN states
  BY <1>1, Locals DEF IInv, TypeInv, TypesOK, StatesOK, Claiming
<1>3. Strain({}) /\ {} \in SUBSET Strains
  BY <1>1, NoStrain DEF IInv, TypeInv
<1>4. ASSUME Claimable(s),
             states' = [states EXCEPT ![s].used = TRUE],
             exchanged' = [exchanged EXCEPT ![s] = @ + 1],
             Goto(t, [stage |-> "exchange"])
      PROVE  IInv'
  <2> USE DEF IInv, TypeInv
  <2> DEFINE next == [stage |-> "exchange"]
  <2>1. next \in Task /\ next.stage = "exchange"
    BY DEF Task, Waiting
  <2> HIDE DEF next
  <2>2. \A u \in Threads : task'[u] = IF u = t THEN next ELSE task[u]
    BY <1>4, GoneTo DEF next
  <2>3. ~ states[s].used /\ exchanged[s] = 0
    BY <1>2, <1>4 DEF Claimable, StatesOK
  <2>4. /\ DOMAIN states' = DOMAIN states
        /\ states' \in [DOMAIN states -> [expires : Nat, used : BOOLEAN]]
        /\ \A r \in DOMAIN states : states'[r].used = IF r = s THEN TRUE ELSE states[r].used
    BY <1>2, <1>4 DEF StatesOK
  <2>5. \A r \in States : exchanged'[r] = IF r = s THEN 1 ELSE exchanged[r]
    BY <1>2, <1>4, <2>3 DEF StatesOK
  <2>6. StatesOK'
    <3>1. /\ DOMAIN states' \subseteq States
          /\ states' \in [DOMAIN states' -> [expires : Nat, used : BOOLEAN]]
          /\ exchanged' \in [States -> Nat]
      BY <1>2, <1>4, <2>4 DEF StatesOK
    <3>2. ASSUME NEW r \in States
          PROVE  exchanged'[r] = IF r \in DOMAIN states' /\ states'[r].used THEN 1 ELSE 0
      BY <1>2, <2>4, <2>5 DEF StatesOK
    <3>3. \A u \in Threads : task'[u].stage = "claim" => task'[u].state \in DOMAIN states'
      BY <2>1, <2>2, <2>4 DEF StatesOK
    <3> QED BY <3>1, <3>2, <3>3 DEF StatesOK
  <2>7. TypesOK'
    BY <1>1, <1>4, <2>1, GoneTo DEF TypesOK, schwab, next
  <2>8. RowRead' /\ TokensIssued' /\ FreshInv' /\ LiveInv'
    BY <1>1, <2>1, <2>2
    DEF schwab, RowRead, TokensIssued, RowIssued, FreshInv, Fresh, LiveInv, Undisturbed
  <2>9. RefusalInv'
    BY <1>1, <2>1, <2>2 DEF schwab, RefusalInv, Excused, Accepts, Refreshable, Expired
  <2> QED BY <2>6, <2>7, <2>8, <2>9
<1>5. ASSUME Finish(t), UNCHANGED <<states, exchanged>> PROVE IInv'
  BY <1>1, <1>3, <1>5, IdleIsWaiting, QuietGoto DEF Finish
<1> QED BY <1>4, <1>5 DEF Claim

LEMMA ReadStep ==
  ASSUME IInv, NEW t \in Threads, Read(t) PROVE IInv'
<1> USE DEF IInv, TypeInv
<1> DEFINE refuse == Expired(row.refreshExpires) \/ (NeedsRefresh(row) /\ row.refresh = NoId)
           mark   == [stage |-> "mark", mark |-> "reconnect_required"]
           keep   == [stage |-> IF NeedsRefresh(row) THEN "refresh" ELSE "send",
                      row |-> row, since |-> now]
           next   == IF refuse THEN mark ELSE keep
<1>1. /\ task[t] = Idle /\ row # NoRow /\ Accepts(row) /\ Goto(t, next)
      /\ UNCHANGED <<now, row, states, schwab, exchanged, strained>>
  BY DEF Read
<1>2. row \in Rows /\ now \in Times
  BY <1>1 DEF TypesOK
<1>3. RowIssued(row, issued)
  BY <1>2 DEF TokensIssued
<1>4. Strain({}) /\ {} \in SUBSET Strains
  BY <1>1, NoStrain
<1>5. task[t].stage # "save" /\ ~ Excused' => ~ Excused
  BY <1>1, IdleIsWaiting DEF Excused
<1>6. ASSUME refuse PROVE IInv'
  <2>1. mark \in Task /\ mark.stage = "mark"
    BY DEF Task, Marking, Status
  <2>2. NoId \notin honoured
    BY DEF TypesOK, NoId
  <2>3. ~ Refreshable
    BY <1>6, <2>2 DEF Refreshable
  <2>4. Goto(t, mark)
    BY <1>1, <1>6
  <2>5. task[t].stage # "save"
    BY <1>1, IdleIsWaiting
  <2> HIDE DEF mark, next, refuse, keep
  <2> QED BY <1>1, <1>2, <1>4, <2>1, <2>3, <2>4, <2>5, QuietGoto
<1>7. ASSUME ~ refuse PROVE IInv'
  <2>1. keep \in Task /\ keep.stage \in {"refresh", "send"} /\ keep.row = row
        /\ keep.since = now
    BY <1>2 DEF Task, Reading
  <2>2. keep.stage = "send" => Fresh(keep)
    <3>1. keep.stage = "send" => ~ NeedsRefresh(row)
      OBVIOUS
    <3>2. row.accessExpires \in Expiry
      BY <1>2 DEF Rows
    <3>3. now \in Nat /\ Leeway \in Nat
      BY <1>2, TokenAssumption DEF Times
    <3>4. keep.stage = "send" =>
            row.accessExpires = Unknown \/ ~ (row.accessExpires <= now + Leeway)
      BY <3>1 DEF NeedsRefresh
    <3> HIDE DEF keep
    <3> QED
      BY <2>1, <3>2, <3>3, <3>4 DEF Fresh, Expiry
  <2>3. ~ Excused => row.access \in live
    BY <1>2 DEF RefusalInv
  <2>4. Goto(t, keep)
    BY <1>1, <1>7
  <2>5. task[t].stage # "save"
    BY <1>1, IdleIsWaiting
  <2>6. ~ Excused' => ~ Excused
    BY <1>1 DEF Excused
  <2> HIDE DEF mark, next, refuse, keep
  <2> QED BY <1>1, <1>2, <1>3, <1>4, <2>1, <2>2, <2>3, <2>4, <2>5, <2>6, QuietGoto
<1> QED BY <1>6, <1>7

LEMMA SendStep ==
  ASSUME IInv, NEW t \in Threads, Send(t) PROVE IInv'
<1> USE DEF IInv, TypeInv
<1> DEFINE token == task[t].row
           dead  == Expired(token.accessExpires) \/ token.access \notin live
           refused == [stage |-> "mark", mark |-> "reconnect_required"]
           good    == [stage |-> "mark", mark |-> "connected"]
           late == IF Expired(token.accessExpires) /\ task[t].since < token.accessExpires
                   THEN {"late"} ELSE {}
<1>1. task[t].stage = "send" /\ UNCHANGED <<now, row, states, schwab, exchanged>>
  BY DEF Send
<1>2. row \in Rows /\ task[t] \in Reading
  BY <1>1, Locals DEF RowRead, TypesOK
<1>3. refused \in Task /\ refused.stage = "mark" /\ good \in Task /\ good.stage = "mark"
      /\ good.mark = "connected"
  BY DEF Task, Marking, Status
<1>4. ASSUME dead, Goto(t, refused), Strain(late) PROVE IInv'
  <2>1. late \in SUBSET Strains
    BY DEF Strains
  <2>2. late \subseteq strained' /\ strained \subseteq strained'
    BY <1>4, <2>1, StrainOK
  <2>3. ~ Excused' => ~ Excused /\ token.access \in live
    BY <1>1, <2>2, Strained DEF RefusalInv
  <2>4. ~ Excused' => "late" \notin late
    BY <2>2 DEF Excused
  <2>5. Fresh(task[t])
    BY <1>1 DEF FreshInv
  <2>6. ~ Excused' => FALSE
    <3>1. ASSUME ~ Excused' PROVE FALSE
      <4>1. Expired(token.accessExpires)
        BY <1>4, <2>3, <3>1
      <4>2. ~ (task[t].since < token.accessExpires)
        BY <2>4, <3>1, <4>1
      <4> QED BY <2>5, <4>1, <4>2 DEF Fresh, Expired
    <3> QED BY <3>1
  <2> HIDE DEF token, dead, refused, late
  <2> QED BY <1>1, <1>2, <1>3, <1>4, <2>1, <2>6, QuietGoto
<1>5. ASSUME Goto(t, good), UNCHANGED strained PROVE IInv'
  <2>1. Strain({}) /\ {} \in SUBSET Strains
    BY <1>5, NoStrain
  <2> HIDE DEF token, dead, good
  <2> QED BY <1>1, <1>2, <1>3, <1>5, <2>1, QuietGoto
<1>6. ASSUME Finish(t), UNCHANGED strained PROVE IInv'
  <2>1. Strain({}) /\ {} \in SUBSET Strains
    BY <1>6, NoStrain
  <2> QED BY <1>1, <1>6, <2>1, IdleIsWaiting, QuietGoto DEF Finish
<1> QED BY <1>4, <1>5, <1>6 DEF Send

LEMMA ExchangeStep ==
  ASSUME IInv, NEW t \in Threads, Exchange(t) PROVE IInv'
<1> USE DEF IInv, TypeInv
<1>1. task[t].stage = "exchange" /\ UNCHANGED <<now, row, states, exchanged>>
  BY DEF Exchange
<1>2. ASSUME Issue({}), NEW refresh \in {issued + 1, NoId},
             NEW a \in Answer(now, refresh),
             Goto(t, [stage |-> "save", row |-> a, goal |-> "connect"]),
             Strain(IF refresh = NoId THEN {"bare"} ELSE {})
      PROVE  IInv'
  <2> DEFINE next == [stage |-> "save", row |-> a, goal |-> "connect"]
             why  == IF refresh = NoId THEN {"bare"} ELSE {}
  <2>1. /\ issued < MaxTokens /\ issued' = issued + 1 /\ issued' \in 0..MaxTokens
        /\ honoured' = honoured \cup {issued + 1} /\ live' = live \cup {issued + 1}
        /\ honoured' \subseteq 1..issued' /\ live' \subseteq 1..issued'
    BY <1>2, IssueOK
  <2>2. a \in Rows /\ a.access = issued + 1 /\ a.refresh = refresh /\ a.status = "connected"
    BY <1>2, <2>1, AnswerOK DEF TypesOK
  <2>3. next \in Task /\ next.stage = "save" /\ next.row = a /\ next.goal = "connect"
    BY <2>2 DEF Task, Connecting
  <2>4. Goto(t, next) /\ Strain(why) /\ why \in SUBSET Strains
    BY <1>2 DEF Strains
  <2>5. why \subseteq strained' /\ strained \subseteq strained' /\ strained' \subseteq Strains
    BY <2>4, StrainOK
  <2>6. Undisturbed' => refresh = issued + 1
    BY <2>5, Strained
  <2> HIDE DEF next, why
  <2>7. \A u \in Threads : task'[u] = IF u = t THEN next ELSE task[u]
    BY <2>4, GoneTo
  <2>8. issued \in Nat
    BY DEF TypesOK
  <2>9. TypesOK'
    BY <1>1, <2>1, <2>3, <2>4, <2>5, GoneTo DEF TypesOK
  <2>10. StatesOK'
    BY <1>1, <2>3, <2>7, StatesKept
  <2>11. RowRead' /\ FreshInv'
    BY <1>1, <2>2, <2>3, <2>7 DEF RowRead, FreshInv, Fresh
  <2>12. RowIssued(a, issued')
    BY <2>1, <2>2, <2>8 DEF RowIssued, NoId
  <2>13. \A r : RowIssued(r, issued) => RowIssued(r, issued')
    BY <2>1, <2>8 DEF RowIssued
  <2>14. TokensIssued'
    <3>1. row \in Rows => RowIssued(row, issued')
      BY <2>13 DEF TokensIssued
    <3>2. \A u \in Threads :
            task'[u].stage \in {"refresh", "save", "send"} => RowIssued(task'[u].row, issued')
      BY <2>3, <2>7, <2>12, <2>13 DEF TokensIssued
    <3> QED BY <1>1, <3>1, <3>2 DEF TokensIssued
  <2>15. LiveInv'
    BY <1>1, <2>1, <2>2, <2>3, <2>5, <2>6, <2>7, Strained DEF LiveInv
  <2>16. row \in Rows /\ ~ Refreshable => ~ Refreshable'
    <3>1. row \in Rows => row.refresh # issued + 1
      BY <2>8 DEF TokensIssued, RowIssued
    <3> QED BY <1>1, <2>1, <3>1 DEF Refreshable, Expired
  <2>17. RefusalInv'
    BY <1>1, <2>1, <2>2, <2>3, <2>5, <2>7, <2>16, Strained
    DEF RefusalInv, RowRead, Accepts
  <2> QED BY <2>9, <2>10, <2>11, <2>14, <2>15, <2>17
<1>3. ASSUME Finish(t), UNCHANGED <<schwab, strained>> PROVE IInv'
  <2>1. Strain({}) /\ {} \in SUBSET Strains
    BY <1>3, NoStrain
  <2> QED BY <1>1, <1>3, <2>1, IdleIsWaiting, QuietGoto DEF Finish
<1> QED BY <1>2, <1>3 DEF Exchange

\* Another request that holds on to the row is seen by a request that writes.
LEMMA BusyOK ==
  ASSUME NEW t \in Threads, ~ Busy(t), NEW u \in Threads, u # t
  PROVE  task[u].stage \notin {"refresh", "save", "send", "mark", "exchange"}
BY DEF Busy

LEMMA SaveStep ==
  ASSUME IInv, NEW t \in Threads, Save(t) PROVE IInv'
<1> USE DEF IInv, TypeInv
<1> DEFINE q    == task[t]
           kept == [stage |-> "send", row |-> q.row, since |-> q.since]
           why  == IF Busy(t) THEN {"overlap"} ELSE {}
           next == IF q.goal = "read" THEN kept ELSE Idle
<1>1. /\ q.stage = "save" /\ row' = Stored(q.row) /\ Goto(t, next) /\ Strain(why)
      /\ UNCHANGED <<now, states, issued, honoured, live, exchanged>>
  BY DEF Save, Finish, schwab
<1>2. q \in Task /\ q.row \in Rows /\ RowIssued(q.row, issued)
  BY <1>1, Locals DEF TypesOK, TokensIssued
<1>3. q.row.status = "connected" /\ (q.goal = "read" => q \in Renewing /\ Fresh(q))
  BY <1>1, <1>2, Locals DEF FreshInv
<1>4. /\ next \in Task /\ next.stage \in {"idle", "send"}
      /\ next.stage = "send" => next.row = q.row /\ Fresh(next)
  <2>1. CASE q.goal = "read"
    BY <1>2, <1>3, <2>1 DEF Renewing, Task, Reading, Fresh
  <2>2. CASE q.goal # "read"
    BY <2>2, IdleIsWaiting
  <2> QED BY <2>1, <2>2
<1>5. why \in SUBSET Strains /\ strained' \subseteq Strains /\ strained \subseteq strained'
      /\ why \subseteq strained'
  <2>1. why \in SUBSET Strains
    BY DEF Strains
  <2> QED BY <1>1, <2>1, StrainOK
<1>6. (Undisturbed' \/ ~ Excused') => ~ Busy(t)
  BY <1>5, Strained
<1>7. /\ row' \in Rows /\ RowIssued(row', issued) /\ row'.access = q.row.access
      /\ row'.status = q.row.status
      /\ q.row.refresh # NoId => row' = q.row
  BY <1>1, <1>2 DEF Stored, TokensIssued, RowIssued, TypesOK, Rows
<1> HIDE DEF next, why
<1>8. \A u \in Threads : task'[u] = IF u = t THEN next ELSE task[u]
  BY <1>1, GoneTo
<1>q. q = task[t]
  OBVIOUS
<1> HIDE DEF q
<1>9. TypesOK'
  BY <1>1, <1>4, <1>5, <1>7, GoneTo DEF TypesOK
<1>10. StatesOK'
  BY <1>1, <1>4, <1>8, StatesKept
<1>11. RowRead' /\ TokensIssued' /\ FreshInv'
  BY <1>1, <1>2, <1>4, <1>7, <1>8 DEF RowRead, TokensIssued, FreshInv, Fresh
<1>12. LiveInv'
  <2> SUFFICES ASSUME Undisturbed'
               PROVE  /\ \A u \in Threads :
                           task'[u].stage = "save" => task'[u].row.refresh \in honoured
                      /\ row'.refresh \in honoured
    BY <1>1 DEF LiveInv
  <2>1. Undisturbed
    BY <1>5, Strained
  <2>2. q.row.refresh \in honoured
    BY <1>1, <1>q, <2>1 DEF LiveInv
  <2>3. row' = q.row
    BY <1>7, <2>2 DEF TypesOK, NoId
  <2> QED BY <1>4, <1>8, <2>1, <2>2, <2>3 DEF LiveInv
<1>13. RefusalInv'
  <2> SUFFICES ASSUME ~ Excused'
               PROVE  /\ row'.access \in live
                      /\ Accepts(row')
                      /\ \A u \in Threads :
                           /\ task'[u].stage \in {"send", "save"} => task'[u].row.access \in live
                           /\ task'[u].stage # "refresh" /\ task'[u].stage # "mark"
    BY <1>1 DEF RefusalInv, Accepts
  <2>1. ~ Excused
    BY <1>5, Strained
  <2>2. q.row.access \in live
    BY <1>1, <1>q, <2>1 DEF RefusalInv
  <2>3. \A u \in Threads : u # t => task[u].stage \notin {"refresh", "mark"}
    BY <1>6, BusyOK
  <2> QED BY <1>3, <1>4, <1>7, <1>8, <2>1, <2>2, <2>3 DEF RefusalInv, Accepts
<1> QED BY <1>9, <1>10, <1>11, <1>12, <1>13

LEMMA MarkStep ==
  ASSUME IInv, NEW t \in Threads, Mark(t) PROVE IInv'
<1> USE DEF IInv, TypeInv
<1> DEFINE q    == task[t]
           why  == IF Busy(t) THEN {"overlap"} ELSE {}
<1>1. /\ q.stage = "mark" /\ row' = [row EXCEPT !.status = q.mark] /\ Goto(t, Idle)
      /\ Strain(why)
      /\ UNCHANGED <<now, states, issued, honoured, live, exchanged>>
  BY DEF Mark, Finish, schwab
<1>2. q \in Marking /\ row \in Rows
  BY <1>1, Locals DEF TypesOK, RowRead
<1>3. why \in SUBSET Strains /\ strained' \subseteq Strains /\ strained \subseteq strained'
      /\ why \subseteq strained'
  <2>1. why \in SUBSET Strains
    BY DEF Strains
  <2> QED BY <1>1, <2>1, StrainOK
<1>4. (Undisturbed' \/ ~ Excused') => ~ Busy(t)
  BY <1>3, Strained
<1>5. /\ row' \in Rows /\ row'.access = row.access /\ row'.refresh = row.refresh
      /\ row'.refreshExpires = row.refreshExpires /\ row'.status = q.mark
  BY <1>1, <1>2 DEF Marking, Rows
<1> HIDE DEF why
<1>6. \A u \in Threads : task'[u] = IF u = t THEN Idle ELSE task[u]
  BY <1>1, GoneTo
<1>7. TypesOK'
  BY <1>1, <1>3, <1>5, IdleIsWaiting, GoneTo DEF TypesOK
<1>8. StatesOK'
  BY <1>1, <1>6, IdleIsWaiting, StatesKept
<1>9. RowRead' /\ TokensIssued' /\ FreshInv'
  BY <1>1, <1>2, <1>5, <1>6, IdleIsWaiting
  DEF RowRead, TokensIssued, RowIssued, FreshInv, Fresh
<1>10. LiveInv'
  BY <1>1, <1>2, <1>3, <1>5, <1>6, IdleIsWaiting, Strained DEF LiveInv
<1>11. RefusalInv'
  <2> SUFFICES ASSUME ~ Excused'
               PROVE  /\ row'.access \in live
                      /\ ~ Accepts(row') => ~ Refreshable'
                      /\ \A u \in Threads :
                           task'[u].stage \notin {"refresh", "send", "save", "mark"}
    BY <1>1 DEF RefusalInv, Accepts
  <2>1. ~ Excused
    BY <1>3, Strained
  <2>2. Refreshable' = Refreshable
    BY <1>1, <1>5 DEF Refreshable, Expired
  <2>3. ~ Accepts(row') => ~ Refreshable
    BY <1>1, <1>5, <2>1 DEF RefusalInv, Accepts
  <2>4. \A u \in Threads : u # t => task[u].stage \notin {"refresh", "send", "save", "mark"}
    BY <1>4, BusyOK
  <2>5. \A u \in Threads : task'[u].stage \notin {"refresh", "send", "save", "mark"}
    BY <1>6, <2>4, IdleIsWaiting
  <2>6. row'.access \in live
    BY <1>2, <1>5, <2>1 DEF RefusalInv
  <2> QED BY <2>2, <2>3, <2>5, <2>6
<1> QED BY <1>7, <1>8, <1>9, <1>10, <1>11

LEMMA RefreshStep ==
  ASSUME IInv, NEW t \in Threads, Refresh(t) PROVE IInv'
<1> USE DEF IInv, TypeInv
<1> DEFINE old == task[t].row
           since == task[t].since
           failed(answered) == [stage |-> "mark", mark |-> MarkAfter(answered)]
           race == IF Busy(t) THEN {"overlap"} ELSE {}
<1>1. task[t].stage = "refresh" /\ UNCHANGED <<now, row, states, exchanged>>
  BY DEF Refresh
<1>2. /\ task[t] \in Reading /\ old \in Rows /\ since \in Times /\ row \in Rows
      /\ RowIssued(old, issued)
  BY <1>1, Locals DEF Reading, TypesOK, RowRead, TokensIssued
<1>3. race \in SUBSET Strains /\ issued \in Nat
  BY DEF Strains, TypesOK
<1>4. /\ failed(TRUE) \in Task /\ failed(FALSE) \in Task
      /\ failed(TRUE).stage = "mark" /\ failed(FALSE).stage = "mark"
  BY DEF MarkAfter, Task, Marking, Status
\* Schwab issues new tokens; the thread saves them, or never sees them.
<1>5. ASSUME old.refresh \in honoured, NEW rotated \in BOOLEAN,
             Issue(IF rotated THEN {old.refresh} ELSE {}),
             NEW next \in Task, Goto(t, next),
             NEW why \in SUBSET Strains, Strain(why), race \subseteq why,
             \/ /\ next.stage = "save" /\ Fresh(next) /\ next.row.status = "connected"
                /\ next.row.access = issued + 1 /\ RowIssued(next.row, issued')
                /\ next.row.refresh = IF rotated THEN issued + 1 ELSE old.refresh
             \/ next.stage \in {"mark", "idle"} /\ "lost" \in why
      PROVE  IInv'
  <2>1. /\ issued' = issued + 1 /\ issued' \in 0..MaxTokens
        /\ honoured' = (honoured \ (IF rotated THEN {old.refresh} ELSE {})) \cup {issued + 1}
        /\ live' = live \cup {issued + 1}
        /\ honoured' \subseteq 1..issued' /\ live' \subseteq 1..issued'
    BY <1>5, IssueOK
  <2>2. why \subseteq strained' /\ strained \subseteq strained' /\ strained' \subseteq Strains
    BY <1>5, StrainOK
  <2>3. (Undisturbed' \/ ~ Excused') => ~ Busy(t) /\ next.stage = "save"
    BY <1>5, <2>2, Strained
  <2>4. \A u \in Threads : task'[u] = IF u = t THEN next ELSE task[u]
    BY <1>5, GoneTo
  <2>5. (Undisturbed' \/ ~ Excused') => \A u \in Threads : u # t =>
          task[u].stage \notin {"refresh", "save", "send", "mark"}
    BY <2>3, BusyOK
  <2> HIDE DEF old, since, failed, race
  <2>6. TypesOK'
    BY <1>1, <1>5, <2>1, <2>2, GoneTo DEF TypesOK
  <2>7. StatesOK'
    BY <1>1, <1>5, <2>4, StatesKept
  <2>8. RowRead' /\ FreshInv'
    BY <1>1, <1>2, <1>5, <2>4 DEF RowRead, FreshInv, Fresh
  <2>9. \A r : RowIssued(r, issued) => RowIssued(r, issued')
    BY <1>3, <2>1 DEF RowIssued
  <2>10. TokensIssued'
    <3>1. \A u \in Threads :
            task'[u].stage \in {"refresh", "save", "send"} => RowIssued(task'[u].row, issued')
      BY <1>5, <2>4, <2>9 DEF TokensIssued
    <3> QED BY <1>1, <2>9, <3>1 DEF TokensIssued
  <2>11. LiveInv'
    <3> SUFFICES ASSUME Undisturbed'
                 PROVE  /\ \A u \in Threads :
                             task'[u].stage = "save" => task'[u].row.refresh \in honoured'
                        /\ task'[t].stage = "save"
      BY <1>1 DEF LiveInv
    <3>1. next.row.refresh \in honoured'
      BY <1>5, <2>1, <2>3
    <3> QED BY <2>3, <2>4, <2>5, <3>1
  <2>12. row.refresh # issued + 1
    BY <1>2, <1>3 DEF TokensIssued, RowIssued
  <2>13. ~ Refreshable => ~ Refreshable'
    BY <1>1, <2>1, <2>12 DEF Refreshable, Expired
  <2>14. RefusalInv'
    <3> SUFFICES ASSUME ~ Excused'
                 PROVE  /\ row.access \in live'
                        /\ ~ Accepts(row) => ~ Refreshable'
                        /\ next.row.access \in live' /\ next.stage = "save"
                        /\ \A u \in Threads : u # t =>
                             task[u].stage \notin {"refresh", "save", "send", "mark"}
      BY <1>1, <2>4 DEF RefusalInv, Accepts
    <3>1. ~ Excused
      BY <2>2, Strained
    <3> QED BY <1>2, <1>5, <2>1, <2>3, <2>5, <2>13, <3>1 DEF RefusalInv
  <2> QED BY <2>6, <2>7, <2>8, <2>10, <2>11, <2>14
\* Schwab issues nothing: it refuses the token, or cannot be reached.
<1>6. ASSUME UNCHANGED schwab, NEW next \in Task, Goto(t, next),
             NEW why \in SUBSET Strains, Strain(why), race \subseteq why,
             next.stage \in {"mark", "idle"},
             old.refresh \notin honoured \/ "outage" \in why
      PROVE  IInv'
  <2>1. why \subseteq strained' /\ strained \subseteq strained'
    BY <1>6, StrainOK
  <2>2. ~ Excused' => ~ Refreshable
    <3> SUFFICES ASSUME ~ Excused' PROVE ~ Refreshable
      OBVIOUS
    <3>1. ~ Excused /\ old.refresh \notin honoured
      BY <1>6, <2>1, Strained
    <3>2. old.refresh = row.refresh
      BY <1>1, <3>1 DEF RefusalInv
    <3> QED BY <3>1, <3>2 DEF Refreshable
  <2>3. task[t].stage # "save"
    BY <1>1
  <2> HIDE DEF old, since, failed, race
  <2> QED BY <1>1, <1>2, <1>6, <2>2, <2>3, QuietGoto
<1>7. CASE /\ old.refresh \in honoured
           /\ \E rotated \in BOOLEAN :
                /\ Issue(IF rotated THEN {old.refresh} ELSE {})
                /\ \/ /\ \E a \in Answer(since, IF rotated THEN issued + 1 ELSE NoId) :
                           Goto(t, [stage |-> "save", goal |-> "read",
                                    row |-> Refreshed(old, a), since |-> since])
                      /\ Strain(race)
                   \/ /\ Goto(t, failed(FALSE)) \/ Finish(t)
                      /\ Strain(race \cup {"lost"})
  <2>1. PICK rotated \in BOOLEAN :
          /\ Issue(IF rotated THEN {old.refresh} ELSE {})
          /\ \/ /\ \E a \in Answer(since, IF rotated THEN issued + 1 ELSE NoId) :
                     Goto(t, [stage |-> "save", goal |-> "read",
                              row |-> Refreshed(old, a), since |-> since])
                /\ Strain(race)
             \/ /\ Goto(t, failed(FALSE)) \/ Finish(t)
                /\ Strain(race \cup {"lost"})
    BY <1>7
  <2>2. issued < MaxTokens /\ issued' = issued + 1
    BY <2>1, IssueOK
  <2>3. ASSUME NEW a \in Answer(since, IF rotated THEN issued + 1 ELSE NoId),
               Goto(t, [stage |-> "save", goal |-> "read",
                        row |-> Refreshed(old, a), since |-> since]),
               Strain(race)
        PROVE  IInv'
    <3> DEFINE refresh == IF rotated THEN issued + 1 ELSE NoId
               new  == Refreshed(old, a)
               next == [stage |-> "save", goal |-> "read", row |-> new, since |-> since]
    <3>1. refresh \in {issued + 1, NoId} /\ a \in Answer(since, refresh)
      BY <2>3
    <3>2. /\ a \in Rows /\ a.access = issued + 1 /\ a.refresh = refresh
          /\ a.status = "connected"
          /\ a.accessExpires = Unknown \/ since < a.accessExpires
      <4> HIDE DEF refresh, since
      <4> QED BY <1>2, <2>2, <3>1, AnswerOK
    <3>3. /\ new \in Rows /\ new.access = issued + 1
          /\ new.refresh = IF rotated THEN issued + 1 ELSE old.refresh
          /\ new.accessExpires = a.accessExpires /\ new.status = "connected"
      <4>1. old.refresh \in Ids \cup {NoId} /\ old.refreshExpires \in Expiry
        BY <1>2 DEF Rows
      <4>2. CASE rotated
        BY <1>3, <3>2, <4>2 DEF Refreshed, NoId
      <4>3. CASE ~ rotated
        <5>1. new = [a EXCEPT !.refresh = old.refresh, !.refreshExpires = old.refreshExpires]
          BY <3>2, <4>3 DEF Refreshed
        <5> HIDE DEF new, old
        <5> QED BY <3>2, <4>1, <4>3, <5>1 DEF Rows
      <4> QED BY <4>2, <4>3
    <3>4. RowIssued(new, issued')
      BY <1>2, <1>3, <2>2, <3>3 DEF RowIssued
    <3> HIDE DEF new
    <3>5. next \in Task /\ next.stage = "save" /\ next.row = new /\ Fresh(next)
      BY <1>2, <3>2, <3>3 DEF Task, Renewing, Fresh
    <3>6. Goto(t, next)
      BY <2>3 DEF new
    <3> HIDE DEF next, refresh, old, race, since
    <3> QED BY <1>3, <1>5, <1>7, <2>1, <2>3, <3>3, <3>4, <3>5, <3>6
  <2>4. ASSUME Goto(t, failed(FALSE)) \/ Finish(t), Strain(race \cup {"lost"})
        PROVE  IInv'
    <3>1. race \cup {"lost"} \in SUBSET Strains
      BY <1>3 DEF Strains
    <3> HIDE DEF race, failed, old, since
    <3>2. PICK next \in Task : Goto(t, next) /\ next.stage \in {"mark", "idle"}
      BY <1>4, <2>4, IdleIsWaiting DEF Finish
    <3> QED BY <1>5, <1>7, <2>1, <2>4, <3>1, <3>2
  <2> QED BY <2>1, <2>3, <2>4
<1>8. CASE /\ old.refresh \notin honoured
           /\ Goto(t, failed(TRUE)) /\ Strain(race)
           /\ UNCHANGED schwab
  <2> HIDE DEF race, failed, old, since
  <2> QED BY <1>3, <1>4, <1>6, <1>8
<1>9. CASE /\ Goto(t, failed(TRUE)) \/ Goto(t, failed(FALSE)) \/ Finish(t)
           /\ Strain(race \cup {"outage"})
           /\ UNCHANGED schwab
  <2>1. race \cup {"outage"} \in SUBSET Strains
    BY <1>3 DEF Strains
  <2> HIDE DEF race, failed, old, since
  <2>2. PICK next \in Task : Goto(t, next) /\ next.stage \in {"mark", "idle"}
    BY <1>4, <1>9, IdleIsWaiting DEF Finish
  <2> QED BY <1>6, <1>9, <2>1, <2>2
<1> QED BY <1>7, <1>8, <1>9 DEF Refresh

LEMMA InvStep == IInv /\ [Next]_vars => IInv'
<1> SUFFICES ASSUME IInv, [Next]_vars PROVE IInv'
  OBVIOUS
<1>1. CASE UNCHANGED vars
  BY <1>1 DEF vars, IInv, TypeInv, TypesOK, StatesOK, RowRead, TokensIssued, LiveInv,
    Undisturbed, FreshInv, Fresh, RefusalInv, Excused, Accepts, Refreshable, Expired
<1>2. CASE Next
  BY <1>2, TickStep, RevokeStep, StartOAuthStep, CallbackStep, ClaimStep, ExchangeStep,
    ReadStep, RefreshStep, SaveStep, MarkStep, SendStep DEF Next
<1> QED BY <1>1, <1>2

LEMMA Invariant == Spec => []IInv
<1> QED BY InitInv, InvStep, PTL DEF Spec

(***************************************************************************)
(* Theorems                                                                *)
(***************************************************************************)

\* The row of tokens, the state values, the requests and what Schwab knows of
\* them are well formed, however the requests interleave.
THEOREM TokenTypes == Spec => []TypeOK
<1>1. IInv => TypeOK
  <2> SUFFICES ASSUME IInv PROVE TypeOK
    OBVIOUS
  <2>1. /\ DOMAIN states \subseteq States /\ exchanged \in [States -> Nat]
        /\ \A s \in DOMAIN states : states[s] \in [expires : Nat, used : BOOLEAN]
    BY DEF IInv, TypeInv, StatesOK
  <2>2. \A t \in Threads :
          /\ task[t].stage \in Stages
          /\ task[t].stage \in {"refresh", "save", "send"} => task[t].row \in Rows
    BY Locals DEF IInv, TypeInv, TypesOK, Stages
  <2> QED BY <2>1, <2>2 DEF IInv, TypeInv, TypesOK, TypeOK
<1> QED BY <1>1, Invariant, PTL

\* A state value leads to one code exchange at most, whatever number of
\* callbacks come with it and however they interleave: the UPDATE that claims
\* it is conditional, and the exchange comes after it (consume_state).
THEOREM StatesUsedOnce == Spec => []StateUsedOnce
<1>1. IInv => StateUsedOnce
  BY DEF IInv, TypeInv, StatesOK, StateUsedOnce
<1> QED BY <1>1, Invariant, PTL

\* What became of the stored tokens is explained.  Unless two requests
\* overlapped, an answer was lost or had no refresh token, or access was
\* revoked, the stored refresh token is one that Schwab honours; and unless one
\* of those, an outage or a late answer came between, a row that is refused
\* could not be refreshed (_access_token, _refresh_tokens, save_token_bundle,
\* mark_token_status).
THEOREM TokensStaySound == Spec => []TokensAreSound
<1>1. IInv => TokensAreSound
  <2> SUFFICES ASSUME IInv PROVE TokensAreSound
    OBVIOUS
  <2>1. ConnectedIsLive
    <3> SUFFICES ASSUME Quiet, Undisturbed, ~ Expired(row.refreshExpires)
                 PROVE  Refreshable
      BY DEF ConnectedIsLive, Undisturbed
    <3>1. row \in Rows /\ \A t \in Threads : task[t].stage # "save"
      BY IdleIsWaiting DEF Quiet, IInv, TypeInv, TypesOK
    <3> QED BY <3>1 DEF IInv, LiveInv, Refreshable
  <2>2. RefusalExplained
    <3> SUFFICES ASSUME Quiet, ~ Excused, ~ Accepts(row) PROVE ~ Refreshable
      BY DEF RefusalExplained, Excused
    <3>1. row \in Rows
      BY DEF Quiet, IInv, TypeInv, TypesOK
    <3> QED BY <3>1 DEF IInv, RefusalInv
  <2> QED BY <2>1, <2>2 DEF TokensAreSound
<1> QED BY <1>1, Invariant, PTL

(***************************************************************************)
(* The market-data service                                                 *)
(***************************************************************************)

\* What may be answered to a question of a kind, or kept.
MayBe(kind, value) ==
  CASE value = "demo" -> setting.provider = "fallback" \/ setting.demo
    [] value = "unavailable" -> kind = "option"
    [] value = "missing" -> ~setting.configured \/ setting.provider = "fallback"
    [] OTHER -> setting.configured

\* What is kept is kept under the key of what it is about.
EntriesOK ==
  \A k \in DOMAIN cache :
    /\ k[1] \in Market!Kinds
    /\ k = Market!KeyOf(k[1], cache[k].of)
    /\ MayBe(k[1], cache[k].value)

\* What a thread keeps between two steps.
Fetching(q) ==
  /\ q = [pc |-> q.pc, kind |-> q.kind, series |-> q.series]
  /\ q.pc \in {"fetch", "pages", "keep"}
  /\ q.kind \in Market!Kinds
  /\ q.pc # "fetch" => q.kind = "bars" /\ setting.configured

Answered(q) ==
  /\ q = [pc |-> q.pc, kind |-> q.kind, series |-> q.series, value |-> q.value,
          of |-> q.of, until |-> q.until, at |-> q.at, meta |-> q.meta]
  /\ q.pc \in {"describe", "answered"}
  /\ q.of.symbol = q.series.symbol
  /\ q.kind = "bars" => q.of.limit = q.series.limit
  /\ q.at < q.until
  /\ q.value = "demo" => setting.provider = "fallback" \/ setting.demo

ThreadOK(q) == q.pc \in {"idle", "refused"} \/ Fetching(q) \/ Answered(q)

MarketInv ==
  /\ clock \in Nat
  /\ setting \in [provider : Providers, configured : BOOLEAN, demo : BOOLEAN]
  /\ EntriesOK
  /\ thread \in [Threads -> Range(thread)]
  /\ \A t \in Threads : ThreadOK(thread[t])

\* Equal keys are about one symbol and, for bars, one length.
LEMMA KeysTell ==
  ASSUME NEW kind \in Market!Kinds, NEW s, NEW kind2, NEW s2,
         Market!KeyOf(kind, s) = Market!KeyOf(kind2, s2)
  PROVE  /\ kind = kind2 /\ s.symbol = s2.symbol
         /\ kind = "bars" => s.limit = s2.limit
         /\ Market!KeyOf(kind, s)[1] = kind
BY DEF Market!KeyOf

LEMMA MarketStart == Market!MarketInit => MarketInv
<1> SUFFICES ASSUME Market!MarketInit PROVE MarketInv
  OBVIOUS
<1>1. clock = 0 /\ cache = << >> /\ thread = [t \in Threads |-> Market!Idle]
      /\ setting \in [provider : Providers, configured : BOOLEAN, demo : BOOLEAN]
  BY DEF Market!MarketInit
<1>2. EntriesOK
  BY <1>1 DEF EntriesOK
<1>3. thread \in [Threads -> Range(thread)] /\ \A t \in Threads : ThreadOK(thread[t])
  BY <1>1 DEF Range, Market!Idle, ThreadOK
<1> QED BY <1>1, <1>2, <1>3 DEF MarketInv

\* A step of one thread that leaves the setting alone.
LEMMA ThreadStep ==
  ASSUME MarketInv, NEW t \in Threads, NEW q, thread' = [thread EXCEPT ![t] = q],
         ThreadOK(q), setting' = setting, clock' = clock, EntriesOK'
  PROVE  MarketInv'
<1>1. thread' \in [Threads -> Range(thread')]
  BY DEF MarketInv, Range
<1>2. \A u \in Threads : thread'[u] = IF u = t THEN q ELSE thread[u]
  BY DEF MarketInv
<1>3. ASSUME NEW u \in Threads PROVE ThreadOK(thread[u])'
  <2>1. PICK p : p = thread'[u] /\ ThreadOK(p)
    BY <1>2 DEF MarketInv
  <2> QED BY <2>1 DEF ThreadOK, Fetching, Answered
<1> QED BY <1>1, <1>3 DEF MarketInv

LEMMA KeepStep ==
  ASSUME MarketInv, NEW t \in Threads, NEW value, NEW meta, Market!Keep(t, value, meta),
         Fetching(thread[t]), MayBe(thread[t].kind, value),
         setting' = setting, clock' = clock
  PROVE  MarketInv'
<1>q. PICK q : q = thread[t]
  OBVIOUS
<1>1. Fetching(q) /\ q.kind \in Market!Kinds
  BY <1>q DEF Fetching
<1>k. PICK key : key = Market!KeyOf(q.kind, q.series)
  OBVIOUS
<1> DEFINE until == clock + Market!Ttl(q.kind)
           entry == [value |-> value, of |-> q.series, until |-> until, meta |-> meta]
           new   == Market!Served(q.kind, q.series, [value |-> value, of |-> q.series, until |-> until])
<1>2. /\ cache' = [k \in DOMAIN cache \cup {key} |-> IF k = key THEN entry ELSE cache[k]]
      /\ thread' = [thread EXCEPT ![t] = new]
  BY <1>q, <1>k DEF Market!Keep, Market!Stored
<1>3. clock \in Nat /\ Market!Ttl(q.kind) \in Nat \ {0}
  BY DEF MarketInv, Market!Ttl
<1>4. EntriesOK'
  <2>1. key[1] = q.kind
    BY <1>k DEF Market!KeyOf
  <2>2. entry.of = q.series /\ entry.value = value
    OBVIOUS
  <2> HIDE DEF entry
  <2>3. ASSUME NEW k \in DOMAIN cache'
        PROVE  /\ k[1] \in Market!Kinds
               /\ k = Market!KeyOf(k[1], cache'[k].of)
               /\ MayBe(k[1], cache'[k].value)
    <3>1. CASE k = key
      BY <1>1, <1>2, <1>k, <1>q, <2>1, <2>2, <3>1
    <3>2. CASE k # key
      BY <1>2, <2>3, <3>2 DEF MarketInv, EntriesOK
    <3> QED BY <3>1, <3>2
  <2> QED BY <2>3 DEF EntriesOK, MayBe
<1>5. ThreadOK(new)
  <2>1. clock < until
    BY <1>3
  <2>2. value = "demo" => setting.provider = "fallback" \/ setting.demo
    BY DEF MayBe
  <2>3. new = [pc |-> IF q.kind = "bars" THEN "describe" ELSE "answered", kind |-> q.kind,
               series |-> q.series, value |-> value, of |-> q.series, until |-> until,
               at |-> clock, meta |-> Market!NoMeta]
    BY DEF Market!Served
  <2> HIDE DEF new, until
  <2> QED BY <2>1, <2>2, <2>3 DEF ThreadOK, Answered
<1> HIDE DEF new
<1> QED BY <1>2, <1>4, <1>5, ThreadStep

LEMMA RefuseStep ==
  ASSUME MarketInv, NEW t \in Threads, NEW reason, Market!Refuse(t, reason),
         setting' = setting, clock' = clock
  PROVE  MarketInv'
<1> DEFINE q == [pc |-> "refused", kind |-> thread[t].kind, reason |-> reason]
<1>1. /\ thread' = [thread EXCEPT ![t] = q] /\ cache' = cache
      /\ ThreadOK(q)
  BY DEF Market!Refuse, ThreadOK
<1>2. EntriesOK'
  BY <1>1 DEF MarketInv, EntriesOK, MayBe
<1> HIDE DEF q
<1> QED BY <1>1, <1>2, ThreadStep

LEMMA FailsStep ==
  ASSUME MarketInv, NEW t \in Threads, NEW answer, Market!ProviderFails(t, answer),
         Fetching(thread[t]), setting' = setting, clock' = clock
  PROVE  MarketInv'
<1>1. CASE thread[t].kind = "option" /\ Market!Keep(t, "unavailable", Market!NoMeta)
  <2>1. MayBe(thread[t].kind, "unavailable")
    BY <1>1 DEF MayBe
  <2> QED BY <1>1, <2>1, KeepStep
<1>2. CASE Market!MayFallBack(t) /\ Market!Keep(t, "demo", Market!OwnMeta(t))
  <2>1. MayBe(thread[t].kind, "demo")
    BY <1>2 DEF MayBe, Market!MayFallBack
  <2> QED BY <1>2, <2>1, KeepStep
<1>3. CASE Market!Refuse(t, answer) \/ Market!Refuse(t, "unavailable") \/ Market!Refuse(t, "raised")
  BY <1>3, RefuseStep
<1> QED BY <1>1, <1>2, <1>3 DEF Market!ProviderFails

\* A thread that asks the provider is one that fetches.
LEMMA Fetches ==
  ASSUME MarketInv, NEW t \in Threads, thread[t].pc \in {"fetch", "pages", "keep"}
  PROVE  Fetching(thread[t])
<1>1. ThreadOK(thread[t])
  BY DEF MarketInv
<1> QED BY <1>1 DEF ThreadOK, Answered

LEMMA AskStep ==
  ASSUME MarketInv, NEW t \in Threads, NEW kind \in Market!Kinds, NEW series,
         Market!Ask(t, kind, series)
  PROVE  MarketInv'
<1>k. PICK key : key = Market!KeyOf(kind, series)
  OBVIOUS
<1>1. setting' = setting /\ clock' = clock
  BY DEF Market!Ask
<1>2. CASE Market!Kept(key)
  <2>e. PICK entry : entry = cache[key]
    OBVIOUS
  <2> DEFINE new == Market!Served(kind, series, entry)
  <2>1. thread' = [thread EXCEPT ![t] = new] /\ cache' = cache
    BY <1>2, <1>k, <2>e DEF Market!Ask
  <2>2. key \in DOMAIN cache /\ clock < entry.until
    BY <1>2, <2>e DEF Market!Kept
  <2>3. key = Market!KeyOf(key[1], entry.of) /\ MayBe(key[1], entry.value)
    BY <2>2, <2>e DEF MarketInv, EntriesOK
  <2>4. /\ key[1] = kind /\ entry.of.symbol = series.symbol
        /\ kind = "bars" => entry.of.limit = series.limit
    BY <1>k, <2>3, KeysTell
  <2>5. entry.value = "demo" => setting.provider = "fallback" \/ setting.demo
    BY <2>3 DEF MayBe
  <2>6. ThreadOK(new)
    <3>1. new = [pc |-> IF kind = "bars" THEN "describe" ELSE "answered", kind |-> kind,
                 series |-> series, value |-> entry.value, of |-> entry.of,
                 until |-> entry.until, at |-> clock, meta |-> Market!NoMeta]
      BY DEF Market!Served
    <3> HIDE DEF new
    <3> QED BY <2>2, <2>4, <2>5, <3>1 DEF ThreadOK, Answered
  <2>7. EntriesOK'
    BY <1>1, <2>1 DEF MarketInv, EntriesOK, MayBe
  <2> HIDE DEF new
  <2> QED BY <1>1, <2>1, <2>6, <2>7, ThreadStep
<1>3. CASE ~ Market!Kept(key)
  <2> DEFINE new == [pc |-> "fetch", kind |-> kind, series |-> series]
  <2>1. /\ thread' = [thread EXCEPT ![t] = new]
        /\ cache' = [k \in DOMAIN cache \ {key} |-> cache[k]]
    BY <1>3, <1>k DEF Market!Ask, Market!Restrict
  <2>2. ThreadOK(new)
    BY DEF ThreadOK, Fetching
  <2>3. EntriesOK'
    BY <1>1, <2>1 DEF MarketInv, EntriesOK, MayBe
  <2> HIDE DEF new
  <2> QED BY <1>1, <2>1, <2>2, <2>3, ThreadStep
<1> QED BY <1>2, <1>3

LEMMA NobodyStep ==
  ASSUME MarketInv, NEW t \in Threads, Market!AskNobody(t)
  PROVE  MarketInv'
<1>1. setting' = setting /\ clock' = clock /\ Fetching(thread[t])
  BY Fetches DEF Market!AskNobody
<1>2. CASE /\ setting.provider = "fallback" \/ ~ setting.configured
           /\ Market!Keep(t, "missing", Market!NoMeta)
  <2>1. MayBe(thread[t].kind, "missing")
    BY <1>2 DEF MayBe
  <2> QED BY <1>1, <1>2, <2>1, KeepStep
<1>3. CASE setting.provider = "fallback" /\ Market!Keep(t, "demo", Market!OwnMeta(t))
  <2>1. MayBe(thread[t].kind, "demo")
    BY <1>3 DEF MayBe
  <2> QED BY <1>1, <1>3, <2>1, KeepStep
<1> QED BY <1>2, <1>3 DEF Market!AskNobody

LEMMA QuoteStep ==
  ASSUME MarketInv, NEW t \in Threads, Market!FetchQuote(t)
  PROVE  MarketInv'
<1>1. /\ setting' = setting /\ clock' = clock /\ Fetching(thread[t]) /\ setting.configured
      /\ Market!Keep(t, "provider", Market!NoMeta)
  BY Fetches DEF Market!FetchQuote, Market!Asking
<1>2. MayBe(thread[t].kind, "provider")
  BY <1>1 DEF MayBe
<1> QED BY <1>1, <1>2, KeepStep

\* A thread that goes on fetching bars.
LEMMA OnwardStep ==
  ASSUME MarketInv, NEW t \in Threads, NEW pc \in {"pages", "keep"}, Fetching(thread[t]),
         thread[t].kind = "bars", setting.configured,
         thread' = [thread EXCEPT ![t].pc = pc],
         setting' = setting, clock' = clock, cache' = cache
  PROVE  MarketInv'
<1>q. PICK q : q = [thread[t] EXCEPT !.pc = pc]
  OBVIOUS
<1>1. thread' = [thread EXCEPT ![t] = q]
  BY <1>q
<1>2. q = [pc |-> pc, kind |-> "bars", series |-> thread[t].series]
  BY <1>q DEF Fetching
<1>3. ThreadOK(q)
  BY <1>2 DEF ThreadOK, Fetching, Market!Kinds
<1>4. EntriesOK'
  BY DEF MarketInv, EntriesOK, MayBe
<1> QED BY <1>1, <1>3, <1>4, ThreadStep

LEMMA BarsStep ==
  ASSUME MarketInv, NEW t \in Threads,
         Market!FetchPage(t) \/ Market!FetchEnds(t)
  PROVE  MarketInv'
<1>1. CASE Market!FetchPage(t)
  <2>1. Fetching(thread[t])
    BY <1>1, Fetches DEF Market!FetchPage, Market!Asking
  <2> QED BY <1>1, <2>1, OnwardStep DEF Market!FetchPage
<1>2. CASE Market!FetchEnds(t)
  <2>1. Fetching(thread[t]) /\ thread[t].pc = "pages"
    BY <1>2, Fetches DEF Market!FetchEnds
  <2>2. thread[t].kind = "bars" /\ setting.configured
    BY <2>1 DEF Fetching
  <2> QED BY <1>2, <2>1, <2>2, OnwardStep DEF Market!FetchEnds
<1> QED BY <1>1, <1>2

LEMMA KeepBarsStep ==
  ASSUME MarketInv, NEW t \in Threads, Market!KeepBars(t)
  PROVE  MarketInv'
<1>1. setting' = setting /\ clock' = clock /\ Fetching(thread[t]) /\ thread[t].pc = "keep"
  BY Fetches DEF Market!KeepBars
<1>2. PICK meta : Market!Keep(t, "provider", meta)
  BY DEF Market!KeepBars
<1>3. MayBe(thread[t].kind, "provider")
  BY <1>1 DEF MayBe, Fetching
<1> QED BY <1>1, <1>2, <1>3, KeepStep

LEMMA DescribeStep ==
  ASSUME MarketInv, NEW t \in Threads, Market!Describe(t)
  PROVE  MarketInv'
<1>1. setting' = setting /\ clock' = clock /\ cache' = cache
  BY DEF Market!Describe
<1>2. EntriesOK'
  BY <1>1 DEF MarketInv, EntriesOK, MayBe
<1>3. CASE thread' = [thread EXCEPT ![t] = [pc |-> "refused", kind |-> "bars",
                                           reason |-> "unavailable"]]
  <2> DEFINE q == [pc |-> "refused", kind |-> "bars", reason |-> "unavailable"]
  <2>1. ThreadOK(q)
    BY DEF ThreadOK
  <2> HIDE DEF q
  <2> QED BY <1>1, <1>2, <1>3, <2>1, ThreadStep DEF q
<1>4. CASE thread' = [thread EXCEPT ![t].pc = "answered", ![t].meta = serviceMeta]
  <2>p. PICK p : p = thread[t]
    OBVIOUS
  <2>q. PICK q : q = [p EXCEPT !.pc = "answered", !.meta = serviceMeta]
    OBVIOUS
  <2>1. thread' = [thread EXCEPT ![t] = q]
    BY <1>4, <2>p, <2>q DEF MarketInv
  <2>2. ThreadOK(p) /\ p.pc = "describe"
    BY <2>p DEF MarketInv, Market!Describe
  <2>3. Answered(p)
    BY <2>2 DEF ThreadOK, Fetching
  <2>4. q = [pc |-> "answered", kind |-> p.kind, series |-> p.series, value |-> p.value,
             of |-> p.of, until |-> p.until, at |-> p.at, meta |-> serviceMeta]
    BY <2>3, <2>q DEF Answered
  <2>5. ThreadOK(q)
    BY <2>3, <2>4 DEF ThreadOK, Answered
  <2> QED BY <1>1, <1>2, <2>1, <2>5, ThreadStep
<1> QED BY <1>3, <1>4 DEF Market!Describe

LEMMA MarketStep == MarketInv /\ [Market!MarketNext]_(Market!marketVars) => MarketInv'
<1> SUFFICES ASSUME MarketInv, [Market!MarketNext]_(Market!marketVars) PROVE MarketInv'
  OBVIOUS
<1>1. ASSUME UNCHANGED <<setting, cache, thread>>, clock' \in Nat PROVE MarketInv'
  <2>1. EntriesOK' /\ \A t \in Threads : ThreadOK(thread[t])'
    BY <1>1 DEF MarketInv, EntriesOK, MayBe, ThreadOK, Fetching, Answered
  <2> QED BY <1>1, <2>1 DEF MarketInv
<1>2. CASE UNCHANGED Market!marketVars
  BY <1>1, <1>2 DEF MarketInv, Market!marketVars
<1>3. CASE Market!MarketTick
  <2>1. clock' \in Nat
    BY <1>3 DEF MarketInv, Market!MarketTick
  <2> QED BY <1>1, <1>3, <2>1 DEF Market!MarketTick
<1>4. ASSUME NEW t \in Threads, Market!FetchFails(t) \/ Market!PagesFail(t) PROVE MarketInv'
  <2>1. /\ Fetching(thread[t]) /\ setting' = setting /\ clock' = clock
        /\ \E answer : Market!ProviderFails(t, answer)
    BY <1>4, Fetches DEF Market!FetchFails, Market!PagesFail, Market!Asking
  <2> QED BY <1>4, <2>1, FailsStep
<1> QED
  BY <1>2, <1>3, <1>4, AskStep, NobodyStep, QuoteStep, BarsStep, KeepBarsStep, DescribeStep
  DEF Market!MarketNext

LEMMA MarketInvariant == Market!MarketSpec => []MarketInv
<1> QED BY MarketStart, MarketStep, PTL DEF Market!MarketSpec

\* Whatever the other threads ask meanwhile, every thread is answered with data
\* of the series it asked for that was not past its time, and demo data is
\* neither answered nor kept unless the deployment allows it - for any number of
\* threads, series and providers (MarketDataService, TTLCache).
THEOREM AnsweredAsAsked == Market!MarketSpec => []MarketAnswersAsAsked
<1>1. MarketInv => MarketAnswersAsAsked
  <2> SUFFICES ASSUME MarketInv PROVE Market!AnswerIsAsked /\ Market!NoHiddenFallback
    BY DEF MarketAnswersAsAsked
  <2>1. \A t \in Threads : Market!HasData(t) => Answered(thread[t])
    BY DEF MarketInv, ThreadOK, Fetching, Market!HasData
  <2>2. Market!AnswerIsAsked
    BY <2>1 DEF Market!AnswerIsAsked, Answered
  <2>3. Market!NoHiddenFallback
    BY <2>1 DEF Market!NoHiddenFallback, Answered, MarketInv, EntriesOK, MayBe
  <2> QED BY <2>2, <2>3
<1> QED BY <1>1, MarketInvariant, PTL

(***************************************************************************)
(* The texts                                                               *)
(***************************************************************************)

Attempts ==
  [channel : {"email", "sms"}, status : {"sent", "failed", "skipped", "disabled", "unrecorded"},
   run : Senders \cup {"test"}, took : BOOLEAN]

\* How many rows of s are among A.
CountIn(s, A) == Cardinality({i \in DOMAIN s : s[i] \in A})

\* The attempts that the provider was asked for, and of which there is a record.
Tried == {a \in Attempts : a.channel = "sms" /\ a.status \in {"sent", "failed"}}
Lost  == {a \in Attempts : a.status = "unrecorded"}
Taken == {a \in Attempts : a.channel = "sms" /\ a.took}

\* The senders that were allowed a text which is not recorded yet.
Texting == {s \in Senders : sender[s].doing = "text"}

Sending(q) ==
  /\ q = [doing |-> q.doing, left |-> q.left, profile |-> q.profile, run |-> q.run]
  /\ q.doing \in {"check", "text"}
  /\ q.left \in Seq({"email", "sms"}) /\ q.left # <<>>
  /\ q.run \in Senders \cup {"test"}
  /\ q.doing = "text" => Head(q.left) = "sms"

\* A text that the provider has was tried or lost; tried texts and those about to
\* be tried are as many as the limit and one for each of the other senders.
NoticeInv ==
  /\ rows \in Seq(Attempts)
  /\ \A i \in DOMAIN rows : rows[i] \in Taken => rows[i] \in Tried \cup Lost
  /\ sender \in [Senders -> Range(sender)]
  /\ \A s \in Senders : sender[s].doing = "nothing" \/ Sending(sender[s])
  /\ CountIn(rows, Tried) + Cardinality(Texting) <= DayLimit + Cardinality(Senders) - 1

LEMMA CountOK ==
  ASSUME NEW S, NEW s \in Seq(S), NEW A
  PROVE  IsFiniteSet({i \in DOMAIN s : s[i] \in A}) /\ CountIn(s, A) \in Nat
<1>1. DOMAIN s = 1..Len(s) /\ Len(s) \in Nat
  OBVIOUS
<1>2. IsFiniteSet(1..Len(s))
  BY <1>1, FS_Interval
<1>3. {i \in DOMAIN s : s[i] \in A} \in SUBSET (1..Len(s))
  BY <1>1
<1>4. IsFiniteSet({i \in DOMAIN s : s[i] \in A})
  BY <1>2, <1>3, FS_Subset
<1> QED BY <1>4, FS_CardinalityType DEF CountIn

LEMMA CountOfMore ==
  ASSUME NEW S, NEW s \in Seq(S), NEW e \in S, NEW A
  PROVE  CountIn(Append(s, e), A) = CountIn(s, A) + (IF e \in A THEN 1 ELSE 0)
<1> DEFINE more == Append(s, e)
           I == {i \in DOMAIN s : s[i] \in A}
           J == {i \in DOMAIN more : more[i] \in A}
<1>1. /\ Len(s) \in Nat /\ DOMAIN s = 1..Len(s) /\ DOMAIN more = 1..(Len(s) + 1)
      /\ \A i \in 1..Len(s) : more[i] = s[i]
      /\ more[Len(s) + 1] = e
  OBVIOUS
<1>2. J = IF e \in A THEN I \cup {Len(s) + 1} ELSE I
  <2> HIDE DEF more
  <2> QED BY <1>1
<1>3. Len(s) + 1 \notin I
  BY <1>1
<1>4. IsFiniteSet(I) /\ Cardinality(I) \in Nat
  BY CountOK DEF CountIn
<1> HIDE DEF I, J
<1>5. Cardinality(J) = Cardinality(I) + (IF e \in A THEN 1 ELSE 0)
  <2>1. CASE e \in A
    <3>1. Cardinality(I \cup {Len(s) + 1}) = Cardinality(I) + 1
      BY <1>3, <1>4, FS_AddElement
    <3> QED BY <2>1, <3>1, <1>2
  <2>2. CASE e \notin A
    <3>1. J = I
      BY <1>2, <2>2
    <3> QED BY <2>2, <3>1, <1>4
  <2> QED BY <2>1, <2>2
<1> QED BY <1>5 DEF CountIn, I, J, more

LEMMA CountOfFewer ==
  ASSUME NEW S, NEW s \in Seq(S), s # <<>>, NEW A
  PROVE  CountIn(Tail(s), A) <= CountIn(s, A)
<1> DEFINE I == {i \in DOMAIN s : s[i] \in A}
           J == {i \in DOMAIN Tail(s) : Tail(s)[i] \in A}
           f == [i \in J |-> i + 1]
<1>1. /\ Len(s) \in Nat \ {0} /\ DOMAIN s = 1..Len(s) /\ DOMAIN Tail(s) = 1..(Len(s) - 1)
      /\ \A i \in 1..(Len(s) - 1) : Tail(s)[i] = s[i + 1]
  OBVIOUS
<1>2. f \in Injection(J, I)
  <2>1. \A i \in J : i \in Nat /\ i + 1 \in I
    BY <1>1
  <2> HIDE DEF I, J
  <2> QED BY <2>1 DEF Injection, IsInjective
<1>3. IsFiniteSet(I)
  BY CountOK
<1>4. Cardinality(J) <= Cardinality(I)
  <2> HIDE DEF I, J, f
  <2> QED BY <1>2, <1>3, FS_Injection
<1> QED BY <1>4 DEF CountIn

LEMMA TextingOK ==
  /\ IsFiniteSet(Senders) /\ Cardinality(Senders) \in Nat \ {0}
  /\ IsFiniteSet(Texting) /\ Cardinality(Texting) \in Nat
  /\ Cardinality(Texting) <= Cardinality(Senders)
<1>1. IsFiniteSet(Senders) /\ Senders # {} /\ Texting \subseteq Senders
  BY NotificationsAssumption DEF Texting
<1> QED BY <1>1, FS_CardinalityType, FS_EmptySet, FS_Subset

LEMMA NoticeStart == NoticeInit => NoticeInv
<1> SUFFICES ASSUME NoticeInit PROVE NoticeInv
  OBVIOUS
<1>1. rows = <<>> /\ sender = [s \in Senders |-> Sleeping]
  BY DEF NoticeInit
<1>2. Texting = {} /\ CountIn(rows, Tried) = 0
  BY <1>1, FS_EmptySet DEF Texting, Sleeping, CountIn
<1>3. 0 + 0 <= DayLimit + Cardinality(Senders) - 1
  BY TextingOK, NotificationsAssumption
<1>4. Cardinality(Texting) = 0
  BY <1>2, FS_EmptySet
<1> QED BY <1>1, <1>2, <1>3, <1>4 DEF NoticeInv, Sleeping, Range

\* A sender that begins, goes on or is allowed a text.
LEMMA SenderStep ==
  ASSUME NoticeInv, NEW s \in Senders, NEW q, sender' = [sender EXCEPT ![s] = q],
         q.doing = "nothing" \/ Sending(q), rows' = rows,
         CountIn(rows, Tried) + Cardinality(Texting') <= DayLimit + Cardinality(Senders) - 1
  PROVE  NoticeInv'
<1>1. sender' \in [Senders -> Range(sender')]
  BY DEF NoticeInv, Range
<1>2. \A u \in Senders : sender'[u] = IF u = s THEN q ELSE sender[u]
  BY DEF NoticeInv
<1>3. \A u \in Senders : sender'[u].doing = "nothing" \/ Sending(sender'[u])
  BY <1>2 DEF NoticeInv
<1> QED BY <1>1, <1>3 DEF NoticeInv, Sending

LEMMA BeginStep ==
  ASSUME NoticeInv, NEW s \in Senders, Begin(s)
  PROVE  NoticeInv'
<1>1. PICK p : /\ Channels(p) # <<>>
               /\ sender' = [sender EXCEPT ![s] = [doing |-> "check", left |-> Channels(p),
                               profile |-> p, run |-> IF s \in Runs THEN s ELSE "test"]]
  BY DEF Begin
<1>2. rows' = rows /\ sender[s] = Sleeping
  BY DEF Begin
<1> DEFINE q == [doing |-> "check", left |-> Channels(p), profile |-> p,
                 run |-> IF s \in Runs THEN s ELSE "test"]
<1>3. Channels(p) \in Seq({"email", "sms"})
  <2> DEFINE C == {"email", "sms"}
  <2>1. <<"email">> \in Seq(C) /\ <<"sms">> \in Seq(C) /\ <<>> \in Seq(C)
    OBVIOUS
  <2> HIDE DEF C
  <2>2. \A x, y \in Seq(C) : x \o y \in Seq(C)
    OBVIOUS
  <2>3. PICK x : x = IF p.preference \in {"email", "both"} /\ p.email THEN <<"email">> ELSE <<>>
    OBVIOUS
  <2>4. PICK y : y = IF p.preference \in {"sms", "both"} /\ p.sms THEN <<"sms">> ELSE <<>>
    OBVIOUS
  <2>5. x \in Seq(C) /\ y \in Seq(C)
    BY <2>1, <2>3, <2>4
  <2>6. x \o y \in Seq(C)
    BY <2>2, <2>5
  <2>7. Channels(p) = x \o y
    BY <2>3, <2>4, Zenon DEF Channels
  <2> QED BY <2>6, <2>7 DEF C
<1>4. Sending(q)
  BY <1>1, <1>3 DEF Sending
<1>5. sender' = [sender EXCEPT ![s] = q] /\ q.doing = "check"
  BY <1>1
<1> HIDE DEF q
<1>6. Texting' = Texting
  BY <1>2, <1>5 DEF NoticeInv, Texting, Sleeping
<1> QED BY <1>2, <1>4, <1>5, <1>6, SenderStep DEF NoticeInv

LEMMA AllowStep ==
  ASSUME NoticeInv, NEW s \in Senders, AllowText(s)
  PROVE  NoticeInv'
<1>q. PICK q : q = sender[s]
  OBVIOUS
<1>n. PICK new : new = [q EXCEPT !.doing = "text"]
  OBVIOUS
<1>1. /\ q.doing = "check" /\ Head(q.left) = "sms" /\ ~ Limited(q.run) /\ rows' = rows
      /\ sender' = [sender EXCEPT ![s] = new]
  BY <1>q, <1>n DEF AllowText
<1>2. Sending(q)
  BY <1>1, <1>q DEF NoticeInv
<1>3. new = [doing |-> "text", left |-> q.left, profile |-> q.profile, run |-> q.run]
  BY <1>2, <1>n DEF Sending
<1>4. Sending(new)
  BY <1>1, <1>2, <1>3 DEF Sending
<1>5. Texting' = Texting \cup {s} /\ s \notin Texting
  BY <1>1, <1>3, <1>q DEF NoticeInv, Texting
<1>6. Cardinality(Texting') <= Cardinality(Senders) /\ Cardinality(Texting') \in Nat
  <2>1. Texting' \subseteq Senders
    BY DEF Texting
  <2> QED BY <2>1, TextingOK, FS_Subset, FS_CardinalityType
<1>7. CountIn(rows, Tried) < DayLimit
  <2> DEFINE I == {i \in DOMAIN rows : rows[i] \in Tried}
             J == {i \in DOMAIN rows : rows[i].channel = "sms"
                     /\ rows[i].status \in {"sent", "failed", "skipped", "disabled"}}
  <2>1. Cardinality(J) < DayLimit /\ Cardinality(J) \in Nat /\ IsFiniteSet(J)
    <3>1. DOMAIN rows = 1..Len(rows) /\ Len(rows) \in Nat
      BY DEF NoticeInv
    <3>2. IsFiniteSet(J)
      <4>1. IsFiniteSet(1..Len(rows))
        BY <3>1, FS_Interval
      <4>2. J \in SUBSET (1..Len(rows))
        BY <3>1
      <4> QED BY <4>1, <4>2, FS_Subset
    <3>3. ~ (Cardinality(J) >= DayLimit)
      BY <1>1 DEF Limited, CountRecent, Count
    <3>4. Cardinality(J) \in Nat
      BY <3>2, FS_CardinalityType
    <3> QED BY <3>2, <3>3, <3>4, NotificationsAssumption
  <2>2. I \subseteq J
    BY DEF Tried
  <2> HIDE DEF I, J
  <2>3. Cardinality(I) <= Cardinality(J) /\ Cardinality(I) \in Nat
    BY <2>1, <2>2, FS_Subset, FS_CardinalityType
  <2> QED BY <2>1, <2>3, NotificationsAssumption DEF CountIn, I
<1>8. CountIn(rows, Tried) \in Nat
  BY CountOK DEF NoticeInv
<1>9. CountIn(rows, Tried) + Cardinality(Texting') <= DayLimit + Cardinality(Senders) - 1
  BY <1>6, <1>7, <1>8, TextingOK, NotificationsAssumption
<1> QED BY <1>1, <1>4, <1>9, SenderStep

\* An attempt is recorded, or a text is sent and its record lost: what counts
\* against the limit is what the sender was allowed.
LEMMA AttemptStep ==
  ASSUME NoticeInv, NEW s \in Senders, NEW a \in Attempts, NEW q,
         rows' = Append(rows, a), sender' = [sender EXCEPT ![s] = q],
         q.doing = "nothing" \/ (Sending(q) /\ q.doing = "check"),
         a \in Taken => a \in Tried \cup Lost,
         a \in Tried => s \in Texting
  PROVE  NoticeInv'
<1>1. sender' \in [Senders -> Range(sender')]
  BY DEF NoticeInv, Range
<1>2. \A u \in Senders : sender'[u] = IF u = s THEN q ELSE sender[u]
  BY DEF NoticeInv
<1>3. \A u \in Senders : sender'[u].doing = "nothing" \/ Sending(sender'[u])
  BY <1>2 DEF NoticeInv
<1>4. rows' \in Seq(Attempts) /\ \A i \in DOMAIN rows' : rows'[i] \in Taken => rows'[i] \in Tried \cup Lost
  BY DEF NoticeInv
<1>5. Texting' = Texting \ {s}
  BY <1>2 DEF Texting
<1>6. CountIn(rows', Tried) = CountIn(rows, Tried) + (IF a \in Tried THEN 1 ELSE 0)
      /\ CountIn(rows, Tried) \in Nat
  BY CountOfMore, CountOK DEF NoticeInv
<1>7. /\ Cardinality(Texting') \in Nat
      /\ Cardinality(Texting') <= Cardinality(Texting) - (IF a \in Tried THEN 1 ELSE 0)
  <2>1. CASE s \in Texting
    <3>1. IsFiniteSet(Texting \ {s}) /\ Cardinality(Texting \ {s}) = Cardinality(Texting) - 1
      BY <2>1, TextingOK, FS_RemoveElement
    <3>2. Cardinality(Texting') = Cardinality(Texting) - 1 /\ Cardinality(Texting') \in Nat
      BY <1>5, <3>1, FS_CardinalityType
    <3> QED BY <3>2, TextingOK
  <2>2. CASE s \notin Texting
    <3>1. Texting' = Texting
      BY <1>5, <2>2
    <3> QED BY <2>2, <3>1, TextingOK
  <2> QED BY <2>1, <2>2
<1>8. CountIn(rows', Tried) + Cardinality(Texting') <= DayLimit + Cardinality(Senders) - 1
  BY <1>6, <1>7, TextingOK, NotificationsAssumption DEF NoticeInv
<1>9. CountIn(rows, Tried)' = CountIn(rows', Tried)
  BY DEF CountIn, Tried, Attempts
<1> QED BY <1>1, <1>3, <1>4, <1>8, <1>9 DEF NoticeInv, Sending, Taken, Tried, Lost, Attempts

LEMMA RecordStep ==
  ASSUME NoticeInv, NEW s \in Senders, Sending(sender[s]),
         NEW status \in {"sent", "failed", "skipped", "disabled"}, NEW took \in BOOLEAN,
         Record(s, status, took),
         Head(sender[s].left) = "sms" =>
           IF status \in {"sent", "failed"} THEN sender[s].doing = "text" ELSE ~ took
  PROVE  NoticeInv'
<1>q. PICK q : q = sender[s]
  OBVIOUS
<1> DEFINE a   == Attempted(Head(q.left), status, q.run, took)
           new == Onward(q)
<1>1. rows' = Append(rows, a) /\ sender' = [sender EXCEPT ![s] = new]
  BY <1>q DEF Record, NoticeInv
<1>2. Sending(q)
  BY <1>q
<1>3. Head(q.left) \in {"email", "sms"}
  BY <1>2 DEF Sending
<1>4. /\ a \in Attempts /\ a.channel = Head(q.left) /\ a.status = status /\ a.took = took
  BY <1>2, <1>3 DEF Attempted, Attempts, Sending
<1>5. new.doing = "nothing" \/ (Sending(new) /\ new.doing = "check")
  <2>1. CASE Len(q.left) = 1
    BY <2>1 DEF Onward, Sleeping
  <2>2. CASE Len(q.left) # 1
    <3>1. Tail(q.left) \in Seq({"email", "sms"}) /\ Tail(q.left) # <<>>
      <4>1. PICK x : x = q.left
        OBVIOUS
      <4>2. x \in Seq({"email", "sms"}) /\ x # <<>> /\ Len(x) # 1
        BY <1>2, <2>2, <4>1 DEF Sending
      <4>3. Len(x) \in Nat /\ Len(x) # 0
        BY <4>2
      <4>4. Tail(x) \in Seq({"email", "sms"}) /\ Len(Tail(x)) = Len(x) - 1
        BY <4>2, <4>3
      <4>5. Tail(x) # <<>>
        BY <4>2, <4>3, <4>4
      <4> QED BY <4>1, <4>4, <4>5
    <3>2. new = [doing |-> "check", left |-> Tail(q.left), profile |-> q.profile, run |-> q.run]
      BY <1>2, <2>2 DEF Onward, Sending
    <3> HIDE DEF new
    <3> QED BY <1>2, <3>1, <3>2 DEF Sending
  <2> QED BY <2>1, <2>2
<1> HIDE DEF a, new
<1>6. (a \in Taken => a \in Tried \cup Lost) /\ (a \in Tried => s \in Texting)
  BY <1>4, <1>q DEF Taken, Tried, Texting
<1> QED BY <1>1, <1>4, <1>5, <1>6, AttemptStep

LEMMA LoseStep ==
  ASSUME NoticeInv, NEW s \in Senders, LoseRecord(s)
  PROVE  NoticeInv'
<1> DEFINE a == Attempted("sms", "unrecorded", sender[s].run, TRUE)
<1>1. rows' = Append(rows, a) /\ sender' = [sender EXCEPT ![s] = Sleeping]
  BY DEF LoseRecord
<1>2. Sending(sender[s])
  BY DEF LoseRecord, NoticeInv
<1>3. a \in Attempts /\ a \in Lost /\ a \notin Tried
  BY <1>2 DEF Attempted, Attempts, Sending, Lost, Tried
<1>4. Sleeping.doing = "nothing"
  BY DEF Sleeping
<1> HIDE DEF a
<1> QED BY <1>1, <1>3, <1>4, AttemptStep

LEMMA AgeStep == ASSUME NoticeInv, Age PROVE NoticeInv'
<1>1. rows # <<>> /\ rows' = Tail(rows) /\ sender' = sender /\ rows \in Seq(Attempts)
  BY DEF Age, NoticeInv
<1>2. rows' \in Seq(Attempts) /\ \A i \in DOMAIN rows' : rows'[i] \in Taken => rows'[i] \in Tried \cup Lost
  BY <1>1 DEF NoticeInv
<1>3. CountIn(rows', Tried) <= CountIn(rows, Tried)
  BY <1>1, CountOfFewer
<1>4. CountIn(rows', Tried) \in Nat /\ CountIn(rows, Tried) \in Nat
  BY <1>1, <1>2, CountOK
<1>5. Texting' = Texting
  BY <1>1 DEF Texting
<1>6. CountIn(rows', Tried) + Cardinality(Texting') <= DayLimit + Cardinality(Senders) - 1
  BY <1>3, <1>4, <1>5, TextingOK, NotificationsAssumption DEF NoticeInv
<1>7. CountIn(rows, Tried)' = CountIn(rows', Tried)
  BY DEF CountIn, Tried, Attempts
<1> QED BY <1>1, <1>2, <1>6, <1>7 DEF NoticeInv, Range, Sending, Taken, Tried, Lost, Attempts

LEMMA NoticesStep == NoticeInv /\ [NoticeStep]_noticeVars => NoticeInv'
<1> SUFFICES ASSUME NoticeInv, [NoticeStep]_noticeVars PROVE NoticeInv'
  OBVIOUS
<1>1. ASSUME rows' = rows, sender' = sender PROVE NoticeInv'
  <2>1. Texting' = Texting
    BY <1>1 DEF Texting
  <2> QED BY <1>1, <2>1 DEF NoticeInv, Range, Sending, CountIn, Taken, Tried, Lost, Attempts
<1>2. ASSUME NEW s \in Senders, sender[s].doing \in {"check", "text"} PROVE Sending(sender[s])
  BY <1>2 DEF NoticeInv
<1>3. ASSUME NEW s \in Senders, SendEmail(s) PROVE NoticeInv'
  BY <1>2, <1>3, RecordStep DEF SendEmail
<1>4. ASSUME NEW s \in Senders, HoldText(s) PROVE NoticeInv'
  BY <1>2, <1>4, RecordStep DEF HoldText
<1>5. ASSUME NEW s \in Senders, SendText(s) PROVE NoticeInv'
  BY <1>2, <1>5, RecordStep DEF SendText
<1> QED
  BY <1>1, <1>3, <1>4, <1>5, BeginStep, AllowStep, LoseStep, AgeStep
  DEF NoticeStep, EditNotices, noticeVars

\* The texts that a user gets in a day exceed the limit only by one for each
\* other sender and by those whose record was lost - for any number of senders,
\* channels, limits and settings (_sms_allowed, _send_sms).
THEOREM TextsAreBounded == NoticeSpec => []TextsStayBounded
<1>1. NoticeInv => TextsStayBounded
  <2> SUFFICES ASSUME NoticeInv PROVE TextsStayBounded
    OBVIOUS
  <2> DEFINE T == {i \in DOMAIN rows : rows[i].channel = "sms" /\ rows[i].took}
             U == {i \in DOMAIN rows : rows[i].status = "unrecorded"}
             R == {i \in DOMAIN rows : rows[i] \in Tried}
  <2>1. T \subseteq R \cup U
    BY DEF NoticeInv, Taken, Tried, Lost
  <2>2. IsFiniteSet(R) /\ IsFiniteSet(U) /\ IsFiniteSet(R \cap U)
    <3>1. DOMAIN rows = 1..Len(rows) /\ Len(rows) \in Nat
      BY DEF NoticeInv
    <3>2. IsFiniteSet(1..Len(rows))
      BY <3>1, FS_Interval
    <3>3. R \subseteq 1..Len(rows) /\ U \subseteq 1..Len(rows) /\ R \cap U \subseteq 1..Len(rows)
      BY <3>1
    <3> HIDE DEF R, U
    <3> QED BY <3>2, <3>3, FS_Subset
  <2>3. CountIn(rows, Tried) = Cardinality(R)
    BY DEF CountIn
  <2>4. TextsStayBounded <=> Cardinality(T) <= DayLimit + (Cardinality(Senders) - 1) + Cardinality(U)
    BY DEF TextsStayBounded, Count
  <2> HIDE DEF T, U, R
  <2>5. Cardinality(T) <= Cardinality(R) + Cardinality(U)
    <3>1. /\ IsFiniteSet(R \cup U)
          /\ Cardinality(R \cup U) = Cardinality(R) + Cardinality(U) - Cardinality(R \cap U)
      BY <2>2, FS_Union
    <3>2. Cardinality(T) <= Cardinality(R \cup U) /\ Cardinality(T) \in Nat
      BY <2>1, <3>1, FS_Subset, FS_CardinalityType
    <3>3. Cardinality(R) \in Nat /\ Cardinality(U) \in Nat /\ Cardinality(R \cap U) \in Nat
      BY <2>2, FS_CardinalityType
    <3> QED BY <3>1, <3>2, <3>3
  <2>6. Cardinality(R) \in Nat /\ Cardinality(U) \in Nat /\ Cardinality(T) \in Nat
    BY <2>1, <2>2, FS_CardinalityType, FS_Subset, FS_Union
  <2>7. Cardinality(R) + Cardinality(Texting) <= DayLimit + Cardinality(Senders) - 1
    BY <2>3 DEF NoticeInv
  <2> QED BY <2>4, <2>5, <2>6, <2>7, TextingOK, NotificationsAssumption
<1> QED BY <1>1, NoticeStart, NoticesStep, PTL DEF NoticeSpec

(***************************************************************************)
(* What the providers make of an answer                                    *)
(***************************************************************************)

LEMMA DivisionBounds ==
  ASSUME NEW d \in Nat \ {0}, NEW n \in Nat
  PROVE  n \div d \in Nat /\ d * (n \div d) <= n /\ n < d * ((n \div d) + 1)
  BY Z3

LEMMA LeastElement ==
  ASSUME NEW T \in SUBSET Nat, T # {}
  PROVE  \E m \in T : \A k \in T : m <= k
<1> DEFINE R == {ss \in Nat \X Nat : ss[1] < ss[2]}
<1>1. IsWellFoundedOn(R, Nat)
  BY NatLessThanWellFounded DEF OpToRel
<1> HIDE DEF R
<1>2. PICK m \in T : \A k \in T : ~ (<<k, m>> \in R)
  BY <1>1, WFMin
<1>3. \A k \in T : ~ (k < m)
  BY <1>2 DEF R
<1> QED BY <1>3

LEMMA BucketsAre ==
  /\ BucketsPerDay("30M") = 13 /\ BucketsPerDay("1H") = 7 /\ BucketsPerDay("4H") = 2
<1>1. 12 \div 1 = 12 /\ 12 \div 2 = 6 /\ 12 \div 8 = 1
  OBVIOUS
<1> QED BY <1>1 DEF BucketsPerDay, BucketOf, BucketHalves

\* Enough days are read for a window, when a day has per bars.
LEMMA DaysSuffice ==
  ASSUME NEW per \in {2, 7, 13}, NEW wanted \in Nat, NEW today \in 0..13
  PROVE  LET days == (wanted + per - 1) \div per
             source == ((days + 2) * 13 - today) \div 13
         IN  source * per >= wanted
<1> DEFINE days == (wanted + per - 1) \div per
           rest == (days + 2) * 13 - today
           source == rest \div 13
<1>1. wanted + per - 1 \in Nat /\ per \in Nat \ {0}
  OBVIOUS
<1>2. days \in Nat /\ wanted + per - 1 < per * (days + 1)
  <2> DEFINE n == wanted + per - 1
  <2>1. n \in Nat
    BY <1>1
  <2> HIDE DEF n
  <2>2. n \div per \in Nat /\ n < per * ((n \div per) + 1)
    BY <1>1, <2>1, DivisionBounds
  <2> QED BY <2>2 DEF n
<1> HIDE DEF days
<1>3. rest \in Nat /\ rest >= 13 * (days + 1)
  BY <1>2
<1> HIDE DEF rest
<1>4. source \in Nat /\ rest < 13 * (source + 1)
  BY <1>3, DivisionBounds
<1> HIDE DEF source
<1>5. source >= days + 1
  BY <1>2, <1>3, <1>4
<1>6. CASE per = 2
  BY <1>2, <1>4, <1>5, <1>6 DEF days, source, rest
<1>7. CASE per = 7
  BY <1>2, <1>4, <1>5, <1>7 DEF days, source, rest
<1>8. CASE per = 13
  BY <1>2, <1>4, <1>5, <1>8 DEF days, source, rest
<1> QED BY <1>6, <1>7, <1>8

\* The half hours that are read fill a window of any length, whatever part of
\* today's session has passed (_rth_source_page_target_count).
THEOREM WindowsStayFilled ==
  \A tf \in {"30M", "1H", "4H"}, limit \in Nat, today \in 0..13 : WindowIsFilled(tf, limit, today)
<1> SUFFICES ASSUME NEW tf \in {"30M", "1H", "4H"}, NEW limit \in Nat, NEW today \in 0..13
             PROVE  WindowIsFilled(tf, limit, today)
  OBVIOUS
<1> DEFINE wanted == IF limit < 1 THEN 1 ELSE limit
           per == BucketsPerDay(tf)
           source == (((wanted + per - 1) \div per + 2) * 13 - today) \div 13
<1>1. wanted \in Nat /\ wanted >= limit /\ per \in {2, 7, 13}
  BY BucketsAre
<1> HIDE DEF wanted, per
<1>2. source * per >= wanted
  BY <1>1, DaysSuffice
<1>3. WindowIsFilled(tf, limit, today) <=> source * per >= limit
  BY BucketsAre DEF WindowIsFilled, SourceBars, wanted, per
<1>4. source * per >= limit
  <2> DEFINE all == source * per
  <2>1. all \in Int
    BY <1>1
  <2>2. all >= wanted
    BY <1>2
  <2> HIDE DEF all
  <2>3. all >= limit
    BY <1>1, <2>1, <2>2
  <2> QED BY <2>3 DEF all
<1> QED BY <1>3, <1>4

\* A member of a set where a function of naturals is least.
LEMMA LeastOf ==
  ASSUME NEW S, S # {}, NEW f \in [S -> Nat]
  PROVE  \E m \in S : \A x \in S : f[m] <= f[x]
<1>1. {f[x] : x \in S} \in SUBSET Nat /\ {f[x] : x \in S} # {}
  OBVIOUS
<1>2. PICK least \in {f[x] : x \in S} : \A k \in {f[x] : x \in S} : least <= k
  BY <1>1, LeastElement
<1> QED BY <1>2

\* A listing: no two contracts have the same symbol.
IsListing(listing, most) ==
  /\ IsFiniteSet(listing)
  /\ \A c \in listing : /\ c.expiry \in Int /\ c.strike \in Int /\ c.symbol \in Nat
                        /\ c.liquidity \in Nat /\ c.liquidity <= most
  /\ \A c, d \in listing : c.symbol = d.symbol => c = d

LEMMA DistanceIs ==
  ASSUME NEW a \in Int, NEW b \in Int
  PROVE  DistanceTo(a, b) \in Nat
<1> QED BY DEF DistanceTo

\* One contract is preferred to every other.
LEMMA OnePreferred ==
  ASSUME NEW listing, NEW most \in Nat, IsListing(listing, most), NEW found \in SUBSET listing, found # {},
         NEW expiry \in Int, NEW strike \in Int
  PROVE  \E c \in found : \A d \in found \ {c} : Nearer(c, d, expiry, strike)
<1> DEFINE days == [c \in found |-> DistanceTo(c.expiry, expiry)]
           off  == [c \in found |-> DistanceTo(c.strike, strike)]
           dry  == [c \in found |-> most - c.liquidity]
           name == [c \in found |-> c.symbol]
<1>1. days \in [found -> Nat] /\ off \in [found -> Nat]
  BY DistanceIs DEF IsListing
<1>2. dry \in [found -> Nat] /\ name \in [found -> Nat]
  BY DEF IsListing
<1>3. \A c, d \in found : name[c] = name[d] => c = d
  BY DEF IsListing
<1>4. ASSUME NEW c \in found, NEW d \in found,
             \/ days[c] < days[d]
             \/ days[c] = days[d] /\ off[c] < off[d]
             \/ days[c] = days[d] /\ off[c] = off[d] /\ dry[c] < dry[d]
             \/ days[c] = days[d] /\ off[c] = off[d] /\ dry[c] = dry[d] /\ name[c] < name[d]
      PROVE  Nearer(c, d, expiry, strike)
  <2> DEFINE key(x) == <<DistanceTo(x.expiry, expiry), DistanceTo(x.strike, strike), -x.liquidity, x.symbol>>
  <2>1. /\ c.liquidity \in Nat /\ d.liquidity \in Nat
        /\ days[c] = DistanceTo(c.expiry, expiry) /\ days[d] = DistanceTo(d.expiry, expiry)
        /\ off[c] = DistanceTo(c.strike, strike) /\ off[d] = DistanceTo(d.strike, strike)
        /\ dry[c] = most - c.liquidity /\ dry[d] = most - d.liquidity
        /\ name[c] = c.symbol /\ name[d] = d.symbol
    BY DEF IsListing
  <2>2. dry[c] = dry[d] => -c.liquidity = -d.liquidity
    BY <2>1
  <2>3. dry[c] < dry[d] => -c.liquidity < -d.liquidity
    BY <2>1
  <2> HIDE DEF days, off, dry, name
  <2>4. /\ key(c)[1] = days[c] /\ key(c)[2] = off[c] /\ key(c)[3] = -c.liquidity /\ key(c)[4] = name[c]
        /\ key(d)[1] = days[d] /\ key(d)[2] = off[d] /\ key(d)[3] = -d.liquidity /\ key(d)[4] = name[d]
    BY <2>1
  <2>5. Nearer(c, d, expiry, strike) <=>
          \E i \in 1..4 : key(c)[i] < key(d)[i] /\ \A j \in 1..(i - 1) : key(c)[j] = key(d)[j]
    BY DEF Nearer
  <2> HIDE DEF key
  <2>6. CASE days[c] < days[d]
    <3>1. key(c)[1] < key(d)[1] /\ \A j \in 1..0 : key(c)[j] = key(d)[j]
      BY <2>4, <2>6
    <3> QED BY <2>5, <3>1
  <2>7. CASE days[c] = days[d] /\ off[c] < off[d]
    <3>1. key(c)[2] < key(d)[2] /\ \A j \in 1..1 : key(c)[j] = key(d)[j]
      BY <2>4, <2>7
    <3> QED BY <2>5, <3>1
  <2>8. CASE days[c] = days[d] /\ off[c] = off[d] /\ dry[c] < dry[d]
    <3>1. key(c)[3] < key(d)[3] /\ \A j \in 1..2 : key(c)[j] = key(d)[j]
      BY <2>3, <2>4, <2>8
    <3> QED BY <2>5, <3>1
  <2>9. CASE days[c] = days[d] /\ off[c] = off[d] /\ dry[c] = dry[d] /\ name[c] < name[d]
    <3>1. key(c)[4] < key(d)[4] /\ \A j \in 1..3 : key(c)[j] = key(d)[j]
      BY <2>2, <2>4, <2>9
    <3> QED BY <2>5, <3>1
  <2> QED BY <1>4, <2>6, <2>7, <2>8, <2>9
<1> HIDE DEF days, off, dry, name
<1>5. PICK m1 \in found : \A x \in found : days[m1] <= days[x]
  BY <1>1, LeastOf
<1> DEFINE F1 == {x \in found : days[x] = days[m1]}
<1>6. PICK m2 \in F1 : \A x \in F1 : off[m2] <= off[x]
  <2> DEFINE f == [x \in F1 |-> off[x]]
  <2>1. f \in [F1 -> Nat] /\ F1 # {}
    BY <1>1
  <2>2. \E m \in F1 : \A x \in F1 : f[m] <= f[x]
    <3> HIDE DEF f, F1
    <3> QED BY <2>1, LeastOf
  <2> QED BY <2>2
<1> DEFINE F2 == {x \in F1 : off[x] = off[m2]}
<1>7. PICK m3 \in F2 : \A x \in F2 : dry[m3] <= dry[x]
  <2> DEFINE f == [x \in F2 |-> dry[x]]
  <2>1. f \in [F2 -> Nat] /\ F2 # {}
    BY <1>2, <1>6
  <2>2. \E m \in F2 : \A x \in F2 : f[m] <= f[x]
    <3> HIDE DEF f, F2
    <3> QED BY <2>1, LeastOf
  <2> QED BY <2>2
<1> DEFINE F3 == {x \in F2 : dry[x] = dry[m3]}
<1>8. PICK m4 \in F3 : \A x \in F3 : name[m4] <= name[x]
  <2> DEFINE f == [x \in F3 |-> name[x]]
  <2>1. f \in [F3 -> Nat] /\ F3 # {}
    BY <1>2, <1>7
  <2>2. \E m \in F3 : \A x \in F3 : f[m] <= f[x]
    <3> HIDE DEF f, F3
    <3> QED BY <2>1, LeastOf
  <2> QED BY <2>2
<1>9. ASSUME NEW d \in found \ {m4}
      PROVE  \/ days[m4] < days[d]
             \/ days[m4] = days[d] /\ off[m4] < off[d]
             \/ days[m4] = days[d] /\ off[m4] = off[d] /\ dry[m4] < dry[d]
             \/ days[m4] = days[d] /\ off[m4] = off[d] /\ dry[m4] = dry[d] /\ name[m4] < name[d]
  <2>1. /\ days[m4] = days[m1] /\ off[m4] = off[m2] /\ dry[m4] = dry[m3] /\ m4 \in found
        /\ days[m4] \in Nat /\ off[m4] \in Nat /\ dry[m4] \in Nat /\ name[m4] \in Nat
        /\ days[d] \in Nat /\ off[d] \in Nat /\ dry[d] \in Nat /\ name[d] \in Nat
    BY <1>1, <1>2, <1>8
  <2>2. name[m4] # name[d]
    BY <1>3, <2>1
  <2>3. days[m4] <= days[d]
    BY <1>5, <2>1
  <2>4. days[m4] = days[d] => off[m4] <= off[d]
    BY <1>6, <2>1
  <2>5. days[m4] = days[d] /\ off[m4] = off[d] => dry[m4] <= dry[d]
    BY <1>7, <2>1
  <2>6. days[m4] = days[d] /\ off[m4] = off[d] /\ dry[m4] = dry[d] => name[m4] <= name[d]
    BY <1>8, <2>1
  <2> QED BY <2>1, <2>2, <2>3, <2>4, <2>5, <2>6
<1>10. m4 \in found
  BY <1>8
<1>11. \A d \in found \ {m4} : Nearer(m4, d, expiry, strike)
  BY <1>4, <1>9, <1>10
<1> QED BY <1>10, <1>11

\* Of rows that are cut the first remain, and all when they are not too many.
LEMMA FirstRemain ==
  ASSUME NEW listed, IsFiniteSet(listed), listed # {}, NEW limit \in Nat \ {0},
         \A c \in listed : c.expiry \in Int /\ c.strike \in Int /\ c.symbol \in Nat
  PROVE  /\ FirstRows(listed, limit) \subseteq listed /\ FirstRows(listed, limit) # {}
         /\ Cardinality(listed) =< limit => FirstRows(listed, limit) = listed
<1> DEFINE before(c) == {d \in listed : Ahead(d, c)}
           rank == [c \in listed |-> Cardinality(before(c))]
<1>1. \A c \in listed : /\ IsFiniteSet(before(c)) /\ Cardinality(before(c)) \in Nat
                       /\ Cardinality(before(c)) < Cardinality(listed)
  <2> TAKE c \in listed
  <2>1. before(c) \subseteq listed /\ before(c) # listed
    <3>1. c \notin before(c)
      BY DEF Ahead
    <3> QED BY <3>1
  <2> HIDE DEF before
  <2>2. /\ IsFiniteSet(before(c)) /\ Cardinality(before(c)) =< Cardinality(listed)
        /\ Cardinality(before(c)) # Cardinality(listed)
    BY <2>1, FS_Subset
  <2>3. Cardinality(before(c)) \in Nat /\ Cardinality(listed) \in Nat
    BY <2>2, FS_CardinalityType
  <2> QED BY <2>2, <2>3
<1>2. rank \in [listed -> Nat]
  BY <1>1
<1>3. PICK c \in listed : \A d \in listed : rank[c] =< rank[d]
  <2> HIDE DEF rank
  <2> QED BY <1>2, LeastOf
<1>4. before(c) = {}
  <2> SUFFICES ASSUME NEW d \in before(c) PROVE FALSE
    OBVIOUS
  <2>1. d \in listed /\ Ahead(d, c)
    OBVIOUS
  <2>2. before(d) \subseteq before(c)
    <3> SUFFICES ASSUME NEW e \in listed, Ahead(e, d) PROVE Ahead(e, c)
      OBVIOUS
    <3> QED BY <2>1 DEF Ahead
  <2>3. d \notin before(d) /\ d \in before(c)
    BY <2>1 DEF Ahead
  <2> HIDE DEF before
  <2>4. /\ Cardinality(before(d)) =< Cardinality(before(c))
        /\ Cardinality(before(d)) # Cardinality(before(c))
    BY <1>1, <2>2, <2>3, FS_Subset
  <2>5. Cardinality(before(c)) =< Cardinality(before(d))
    BY <1>3, <2>1
  <2> QED BY <1>1, <2>1, <2>4, <2>5
<1>5. c \in FirstRows(listed, limit)
  <2>1. Cardinality(before(c)) = 0
    BY <1>4, FS_EmptySet
  <2> QED BY <2>1 DEF FirstRows
<1>6. ASSUME Cardinality(listed) =< limit PROVE FirstRows(listed, limit) = listed
  <2>1. Cardinality(listed) \in Nat
    BY FS_CardinalityType
  <2>2. ASSUME NEW d \in listed PROVE Cardinality(before(d)) < limit
    <3>1. Cardinality(before(d)) \in Nat /\ Cardinality(before(d)) < Cardinality(listed)
      BY <1>1
    <3> HIDE DEF before
    <3> QED BY <1>6, <2>1, <3>1
  <2> QED BY <2>2 DEF FirstRows
<1>7. FirstRows(listed, limit) \subseteq listed
  BY DEF FirstRows
<1> QED BY <1>5, <1>6, <1>7

\* A leg resolves to a listed contract of its own side, of the asked expiration
\* where there is one and then, unless the rows were cut, the nearest to the
\* strike, whatever the listing and its limit (resolve_option_contract).
THEOREM LegsStayListed ==
  \A listing, side, window : \A most \in Nat, expiry \in Int, strike \in Int, limit \in Nat \ {0} :
    IsListing(listing, most) => LegIsListed(listing, side, expiry, strike, window, limit)
<1> SUFFICES ASSUME NEW listing, NEW most \in Nat, NEW side, NEW expiry \in Int, NEW strike \in Int,
                    NEW window, NEW limit \in Nat \ {0}, IsListing(listing, most)
             PROVE  LegIsListed(listing, side, expiry, strike, window, limit)
  OBVIOUS
<1> DEFINE near  == {c \in listing : InWindow(c, side, strike, window)}
           exact == {c \in near : c.expiry = expiry}
           wanted == IF exact # {} THEN exact ELSE near
           found == FirstRows(wanted, limit)
           best  == CHOOSE c \in found : \A d \in found \ {c} : Nearer(c, d, expiry, strike)
           r     == ResolveContract(listing, TRUE, side, expiry, strike, window, limit)
<1>1. /\ Asked(listing, side, expiry, strike, window) = wanted
      /\ Candidates(listing, side, expiry, strike, window, limit) = found
  BY DEF Asked, Candidates
<1>2. CASE near = {}
  <2>1. found = {}
    BY <1>2 DEF FirstRows
  <2> QED BY <1>1, <1>2, <2>1 DEF LegIsListed, ResolveContract
<1>3. CASE near # {}
  <2>1. /\ found # {} /\ found \subseteq near /\ near \subseteq listing /\ found \subseteq wanted
        /\ Cardinality(wanted) =< limit => found = wanted
    <3>1. wanted # {} /\ wanted \subseteq near /\ near \subseteq listing
      BY <1>3
    <3> HIDE DEF wanted
    <3>2. IsFiniteSet(wanted) /\ \A c \in wanted : c.expiry \in Int /\ c.strike \in Int /\ c.symbol \in Nat
      BY <3>1, FS_Subset DEF IsListing
    <3> QED BY <3>1, <3>2, FirstRemain
  <2> HIDE DEF found
  <2>2. best \in found /\ \A d \in found \ {best} : Nearer(best, d, expiry, strike)
    <3>1. \E c \in found : \A d \in found \ {c} : Nearer(c, d, expiry, strike)
      BY <2>1, OnePreferred
    <3> QED BY <3>1
  <2>3. r = [symbol |-> best.symbol, exact |-> best.expiry = expiry, snap |-> DistanceTo(best.strike, strike)]
    BY <1>1, <2>1 DEF ResolveContract
  <2> HIDE DEF best, r
  <2>4. r.symbol = best.symbol /\ r.snap = DistanceTo(best.strike, strike)
    BY <2>3
  <2>5. (\E d \in near : d.expiry = expiry) => best.expiry = expiry
    BY <2>1, <2>2
  <2>6. ASSUME NEW d \in near, d.expiry = best.expiry, Cardinality(wanted) =< limit
        PROVE  DistanceTo(d.strike, strike) >= r.snap
    <3>1. d \in found
      <4>1. found = wanted /\ best \in wanted
        BY <2>1, <2>2, <2>6
      <4> QED BY <2>6, <4>1
    <3>2. /\ DistanceTo(d.strike, strike) \in Nat /\ DistanceTo(best.strike, strike) \in Nat
      BY <2>1, <2>2, DistanceIs DEF IsListing
    <3>3. CASE d = best
      BY <2>4, <3>2, <3>3
    <3>4. CASE d # best
      <4> DEFINE key(c) == <<DistanceTo(c.expiry, expiry), DistanceTo(c.strike, strike), -c.liquidity, c.symbol>>
      <4>1. PICK i \in 1..4 : key(best)[i] < key(d)[i] /\ \A j \in 1..(i - 1) : key(best)[j] = key(d)[j]
        BY <2>2, <3>1, <3>4 DEF Nearer
      <4>2. /\ key(best)[1] = key(d)[1] /\ key(best)[1] = DistanceTo(best.expiry, expiry)
            /\ key(best)[2] = DistanceTo(best.strike, strike) /\ key(d)[2] = DistanceTo(d.strike, strike)
        BY <2>6
      <4>3. DistanceTo(best.expiry, expiry) \in Nat
        BY <2>1, <2>2, DistanceIs DEF IsListing
      <4> HIDE DEF key
      <4>4. i # 1
        <5> SUFFICES ASSUME i = 1 PROVE FALSE
          OBVIOUS
        <5>1. key(best)[1] < key(best)[1] /\ key(best)[1] \in Nat
          BY <4>1, <4>2, <4>3
        <5> QED BY <5>1
      <4>5. key(best)[2] <= key(d)[2]
        <5>1. CASE i = 2
          BY <3>2, <4>1, <4>2, <5>1
        <5>2. CASE i # 2
          <6>1. 2 \in 1..(i - 1)
            BY <4>4, <5>2
          <6> QED BY <3>2, <4>1, <4>2, <6>1
        <5> QED BY <5>1, <5>2
      <4> QED BY <2>4, <3>2, <4>2, <4>5
    <3> QED BY <3>3, <3>4
  <2>7. best \in near /\ best.symbol = r.symbol
    BY <2>1, <2>2, <2>4
  <2> HIDE DEF wanted
  <2> QED BY <1>1, <1>3, <2>5, <2>6, <2>7 DEF LegIsListed, r
<1> QED BY <1>2, <1>3

\* What the samples of a probe tell.
LEMMA SamplesTell ==
  ASSUME NEW t, NEW n \in Nat, DOMAIN t = 1..n
  PROVE  LET p == ProbeSamples(t)
         IN  /\ p.state = "ok" => \E i \in DOMAIN t : /\ Attempt(t[i]) = "ok"
                                                      /\ \A j \in 1..(i - 1) : t[j] \notin {"denied", "raised"}
             /\ p.state = "warn" => \A i \in DOMAIN t : t[i] \notin {"denied", "raised"}
<1> DEFINE p == ProbeSamples(t)
           deciding == {i \in DOMAIN t : Attempt(t[i]) \in {"denied", "raised", "ok"}}
           first == CHOOSE i \in deciding : \A j \in deciding : i =< j
<1>1. \A s : s \in {"denied", "raised"} => Attempt(s) = s
  BY DEF Attempt
<1>2. CASE deciding = {}
  <2>1. p.state # "ok"
    BY <1>2 DEF ProbeSamples, Probe
  <2>2. \A i \in DOMAIN t : t[i] \notin {"denied", "raised"}
    BY <1>1, <1>2
  <2> QED BY <2>1, <2>2
<1>3. CASE deciding # {}
  <2>1. first \in deciding /\ \A j \in deciding : first =< j
    <3>1. deciding \in SUBSET Nat
      OBVIOUS
    <3> HIDE DEF deciding
    <3>2. \E i \in deciding : \A j \in deciding : i =< j
      BY <1>3, <3>1, LeastElement
    <3> QED BY <3>2
  <2>2. p = IF Attempt(t[first]) = "denied" THEN Probe("failed_not_entitled", "not_entitled")
            ELSE IF Attempt(t[first]) = "raised" THEN Probe("raised", "unknown")
            ELSE Probe("ok", "entitled")
    BY <1>3 DEF ProbeSamples
  <2> HIDE DEF first, p
  <2>3. p.state # "warn"
    BY <2>2 DEF Probe
  <2>4. ASSUME p.state = "ok"
        PROVE  \E i \in DOMAIN t : /\ Attempt(t[i]) = "ok"
                                    /\ \A j \in 1..(i - 1) : t[j] \notin {"denied", "raised"}
    <3>1. first \in DOMAIN t /\ Attempt(t[first]) = "ok"
      BY <2>1, <2>2, <2>4 DEF Probe
    <3>2. ASSUME NEW j \in 1..(first - 1) PROVE t[j] \notin {"denied", "raised"}
      <4>1. j \in DOMAIN t /\ ~(first =< j)
        BY <3>1
      <4>2. j \notin deciding
        BY <2>1, <4>1
      <4> QED BY <1>1, <4>1, <4>2
    <3> QED BY <3>1, <3>2
  <2> QED BY <2>3, <2>4 DEF p
<1> QED BY <1>2, <1>3

\* What the probe of option data says is earned, whatever the provider, the
\* underlyings and the samples answer (options_data_health).
THEOREM ProbesStayEarned ==
  \A provider, underlyings, samples, static : \A configured \in BOOLEAN, n \in Nat \ {0} :
    DOMAIN samples = 1..n => ProbeIsEarned(provider, configured, underlyings, samples, static)
<1> SUFFICES ASSUME NEW provider, NEW configured \in BOOLEAN, NEW underlyings, NEW n \in Nat \ {0},
                    NEW samples, NEW static, DOMAIN samples = 1..n
             PROVE  ProbeIsEarned(provider, configured, underlyings, samples, static)
  OBVIOUS
<1> DEFINE p == OptionsProbe(provider, configured, underlyings, samples, static)
           found == Discovery(provider, underlyings)
           tried == IF found = "found" THEN samples ELSE <<static>>
           told  == \/ p = ProbeSamples(tried)
                    \/ p.state \notin {"ok", "warn"} /\ p.entitlement # "entitled"
<1>1. \E m \in Nat \ {0} : DOMAIN tried = 1..m
  <2>1. CASE found = "found"
    <3>1. tried = samples
      BY <2>1
    <3> QED BY <3>1
  <2>2. CASE found # "found"
    <3>1. tried = <<static>>
      BY <2>2
    <3>2. DOMAIN <<static>> = 1..1
      OBVIOUS
    <3> HIDE DEF tried
    <3> QED BY <3>1, <3>2
  <2> QED BY <2>1, <2>2
<1>2. tried # << >>
  <2>1. 1 \in DOMAIN tried /\ 1 \notin DOMAIN << >>
    BY <1>1
  <2> QED BY <2>1
<1> HIDE DEF found
<1>3. /\ told
      /\ p.entitlement = "entitled" => configured /\ provider # "fallback"
  <2>1. CASE provider = "fallback"
    BY <2>1 DEF OptionsProbe, Probe
  <2>2. CASE provider # "fallback" /\ ~configured
    BY <2>2 DEF OptionsProbe, Probe
  <2>3. CASE provider # "fallback" /\ configured /\ found \in {"index_denied", "index_failed", "denied", "raised"}
    BY <2>3 DEF OptionsProbe, Probe, found
  <2>4. CASE provider # "fallback" /\ configured /\ found = "found"
    <3>1. p = ProbeSamples(samples)
      BY <2>4 DEF OptionsProbe, found
    <3> HIDE DEF p
    <3> QED BY <2>4, <3>1
  <2>5. CASE provider # "fallback" /\ configured
             /\ found \notin {"index_denied", "index_failed", "denied", "raised", "found"}
    <3>1. p = IF underlyings[1].index THEN Probe("degraded", "unknown") ELSE ProbeSamples(<<static>>)
      BY <2>5 DEF OptionsProbe, found
    <3>2. tried = <<static>>
      BY <2>5
    <3> HIDE DEF p, tried
    <3> QED BY <2>5, <3>1, <3>2 DEF Probe
  <2> QED BY <2>1, <2>2, <2>3, <2>4, <2>5
<1> HIDE DEF tried, p
<1>4. /\ p.state = "ok" => \E i \in DOMAIN tried : /\ Attempt(tried[i]) = "ok"
                                                   /\ \A j \in 1..(i - 1) : tried[j] \notin {"denied", "raised"}
      /\ p.state = "warn" => \A i \in DOMAIN tried : tried[i] \notin {"denied", "raised"}
  <2>1. CASE p = ProbeSamples(tried)
    BY <1>1, <2>1, SamplesTell
  <2>2. CASE p.state \notin {"ok", "warn"}
    BY <2>2
  <2> QED BY <1>3, <2>1, <2>2
<1> QED BY <1>2, <1>3, <1>4 DEF ProbeIsEarned, p, tried, found
=============================================================================
