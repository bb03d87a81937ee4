---------------------------- MODULE SchwabTokens ----------------------------
(***************************************************************************)
(* The OAuth tokens of the Schwab market-data provider: the row of         *)
(* provider_oauth_tokens, the state values of provider_oauth_states, the   *)
(* callback that connects the application, and the reads of market data    *)
(* that refresh the access token when it is about to expire.               *)
(*                                                                         *)
(* Request threads and the schedulers read market data at the same time.   *)
(* A read takes the row, perhaps asks the token endpoint for new tokens,   *)
(* saves them or marks the row, and calls the market-data API; every       *)
(* repository call and every HTTP call is a step of its own, and no lock   *)
(* spans two of them.                                                      *)
(*                                                                         *)
(* Schwab is external: which tokens it honours is its own state.  It may   *)
(* rotate the refresh token or keep it, and its answer may be lost.        *)
(***************************************************************************)
EXTENDS Naturals, FiniteSets

CONSTANTS
  Threads,
  States,      \* values of the OAuth state parameter
  Unknown,     \* an expiry that Schwab did not name (NULL)
  NoRow,       \* provider_oauth_tokens is empty
  AccessLife,  \* ticks of an access token
  RefreshLife, \* ticks of a refresh token
  StateLife,   \* ticks of a state value (ten minutes)
  Leeway,      \* schwab_access_token_refresh_leeway_seconds
  MaxTime,     \* bound on the clock
  MaxTokens    \* bound on the tokens Schwab issues

Times   == 0..MaxTime
Ids     == 1..MaxTokens
NoId    == 0                   \* an empty refresh token
Expiry  == Nat \cup {Unknown}
Status  == {"connected", "reconnect_required", "degraded"}
Strains == {"overlap", "lost", "outage", "bare", "revoked", "late"}
Rows == [access: Ids, refresh: Ids \cup {NoId}, accessExpires: Expiry,
         refreshExpires: Expiry, status: Status]

ASSUME TokenAssumption ==
  /\ {AccessLife, RefreshLife, StateLife, Leeway, MaxTime, MaxTokens}
       \subseteq Nat
  /\ AccessLife > 0
  /\ Unknown \notin Nat
  /\ NoRow \notin Rows

VARIABLES
  now,
  row,        \* provider_oauth_tokens, at most one row per provider
  states,     \* provider_oauth_states: the rows created so far
  task,       \* the request each thread serves
  issued,     \* Schwab: tokens issued so far
  honoured,   \* Schwab: the refresh tokens it still accepts
  live,       \* Schwab: the access tokens it has not revoked
  exchanged,  \* history: how often each state led to an exchange
  strained    \* history: what disturbed the order of refreshes

vars == <<now, row, states, task, issued, honoured, live, exchanged, strained>>
schwab == <<issued, honoured, live>>

\* The stages of a request.  Between two steps it keeps "row", the row it read
\* or is about to save, "mark", the status it is about to write, and "since",
\* the time at which it read the row.
Stages == {"idle", "refresh", "save", "send", "mark", "claim", "exchange"}

Idle == [stage |-> "idle"]

TypeOK ==
  /\ now \in Times
  /\ row \in Rows \cup {NoRow}
  /\ DOMAIN states \subseteq States
  /\ \A s \in DOMAIN states :
       states[s] \in [expires: Nat, used: BOOLEAN]
  /\ \A t \in Threads : task[t].stage \in Stages
  /\ \A t \in Threads :
       task[t].stage \in {"refresh", "save", "send"} => task[t].row \in Rows
  /\ issued \in 0..MaxTokens
  /\ honoured \subseteq 1..issued
  /\ live \subseteq 1..issued
  /\ exchanged \in [States -> Nat]
  /\ strained \subseteq Strains

Init ==
  /\ now = 0
  /\ row = NoRow
  /\ states = [s \in {} |-> {}]
  /\ task = [t \in Threads |-> Idle]
  /\ issued = 0
  /\ honoured = {}
  /\ live = {}
  /\ exchanged = [s \in States |-> 0]
  /\ strained = {}

Goto(t, next) == task' = [task EXCEPT ![t] = next]
Finish(t) == Goto(t, Idle)
Strain(why) == strained' = strained \cup why

\* Another request is between reading the row and writing it.
Busy(t) == \E u \in Threads \ {t} :
             task[u].stage \in {"refresh", "save", "send", "mark", "exchange"}

-----------------------------------------------------------------------------
(* Connecting: /auth/schwab/start and /auth/schwab/callback                *)

StartOAuth(s) ==
  /\ s \notin DOMAIN states
  /\ states' = [r \in DOMAIN states \cup {s} |->
                  IF r = s THEN [expires |-> now + StateLife, used |-> FALSE]
                  ELSE states[r]]
  /\ UNCHANGED <<now, row, task, schwab, exchanged, strained>>

Usable(s) == ~states[s].used /\ states[s].expires >= now

\* The SELECT of consume_state: a used or expired state ends the callback.
\* A browser may repeat the callback, so a state comes any number of times.
Callback(t, s) ==
  /\ task[t] = Idle
  /\ s \in DOMAIN states
  /\ Usable(s)
  /\ Goto(t, [stage |-> "claim", state |-> s])
  /\ UNCHANGED <<now, row, states, schwab, exchanged, strained>>

\* Faulty variant: the UPDATE trusts what the SELECT saw.
Claimable_Seen(s) == TRUE

\* The WHERE of its UPDATE: used_at is still NULL.  The expiry is compared with
\* the time of the SELECT again, and neither changes.
Claimable(s) == ~states[s].used

Claim(t) ==
  /\ task[t].stage = "claim"
  /\ LET s == task[t].state
     IN \/ /\ Claimable(s)
           /\ states' = [states EXCEPT ![s].used = TRUE]
           /\ exchanged' = [exchanged EXCEPT ![s] = @ + 1]
           /\ Goto(t, [stage |-> "exchange"])
        \/ /\ ~Claimable(s)
           /\ Finish(t)
           /\ UNCHANGED <<states, exchanged>>
  /\ UNCHANGED <<now, row, schwab, strained>>

\* A token response as parse_schwab_token_payload reads it at time "at": it
\* names the expiries or not.
Answer(at, refresh) ==
  {[access |-> issued + 1, refresh |-> refresh, accessExpires |-> e,
    refreshExpires |-> r, status |-> "connected"] :
      e \in {at + AccessLife, Unknown}, r \in {at + RefreshLife, Unknown}}

\* Schwab issues tokens; the refresh tokens in "old" stop working.
Issue(old) ==
  /\ issued < MaxTokens
  /\ issued' = issued + 1
  /\ honoured' = (honoured \ old) \cup {issued + 1}
  /\ live' = live \cup {issued + 1}

\* exchange_code_for_tokens: an answer, with a refresh token or without one,
\* or an error redirect.
Exchange(t) ==
  /\ task[t].stage = "exchange"
  /\ \/ /\ Issue({})
        /\ \E refresh \in {issued + 1, NoId} :
             /\ \E a \in Answer(now, refresh) :
                  Goto(t, [stage |-> "save", row |-> a, goal |-> "connect"])
             /\ Strain(IF refresh = NoId THEN {"bare"} ELSE {})
     \/ /\ Finish(t)
        /\ UNCHANGED <<schwab, strained>>
  /\ UNCHANGED <<now, row, states, exchanged>>

-----------------------------------------------------------------------------
(* Reading market data: _access_token and _request_json                    *)

Expired(e) == e # Unknown /\ e <= now

\* Faulty variant: no leeway, and a token that expires now is still sent.
NeedsRefresh_Past(r) == r.accessExpires # Unknown /\ r.accessExpires < now

NeedsRefresh(r) == r.accessExpires # Unknown /\ r.accessExpires <= now + Leeway

\* Any other status is refused before the tokens are looked at.
Accepts(r) == r.status \in {"connected", "expired"}

\* _access_token up to its first write or call.
Read(t) ==
  /\ task[t] = Idle
  /\ row # NoRow
  /\ Accepts(row)
  /\ Goto(t,
       IF Expired(row.refreshExpires) \/ (NeedsRefresh(row) /\ row.refresh = NoId)
       THEN [stage |-> "mark", mark |-> "reconnect_required"]
       ELSE [stage |-> IF NeedsRefresh(row) THEN "refresh" ELSE "send",
             row |-> row, since |-> now])
  /\ UNCHANGED <<now, row, states, schwab, exchanged, strained>>

\* Faulty variant: the rotated refresh token is not kept.
Refreshed_KeepsOld(old, new) ==
  [new EXCEPT !.refresh = old.refresh, !.refreshExpires = old.refreshExpires]

\* A refresh whose answer has no refresh token keeps the old one.
Refreshed(old, new) ==
  IF new.refresh = NoId
  THEN [new EXCEPT !.refresh = old.refresh, !.refreshExpires = old.refreshExpires]
  ELSE new

\* Faulty variant: a status that no reader of the row knows.
MarkAfter_Error(answered) == "error"

\* What a failed refresh writes: after an HTTP error of any kind the operator
\* has to reconnect, an endpoint that did not answer leaves the row degraded.
MarkAfter(answered) == IF answered THEN "reconnect_required" ELSE "degraded"

\* _refresh_tokens.
Refresh(t) ==
  /\ task[t].stage = "refresh"
  /\ LET old  == task[t].row
         fail(answered) == Goto(t, [stage |-> "mark", mark |-> MarkAfter(answered)])
         race == IF Busy(t) THEN {"overlap"} ELSE {}
     IN \/ \* Schwab honours the token and rotates it or not ...
           /\ old.refresh \in honoured
           /\ \E rotated \in BOOLEAN :
                /\ Issue(IF rotated THEN {old.refresh} ELSE {})
                /\ \/ /\ \E a \in Answer(task[t].since,
                                         IF rotated THEN issued + 1 ELSE NoId) :
                           Goto(t, [stage |-> "save", goal |-> "read",
                                    row |-> Refreshed(old, a),
                                    since |-> task[t].since])
                      /\ Strain(race)
                   \/ \* ... but its answer never comes, or is not JSON (an
                      \* error that nobody marks).
                      /\ fail(FALSE) \/ Finish(t)
                      /\ Strain(race \cup {"lost"})
        \/ \* Schwab refuses a token it does not honour.
           /\ old.refresh \notin honoured
           /\ fail(TRUE)
           /\ Strain(race)
           /\ UNCHANGED schwab
        \/ \* The endpoint is down: an HTTP error, no answer, or no JSON.
           /\ fail(TRUE) \/ fail(FALSE) \/ Finish(t)
           /\ Strain(race \cup {"outage"})
           /\ UNCHANGED schwab
  /\ UNCHANGED <<now, row, states, exchanged>>

\* The row save_token_bundle leaves: a bundle without a refresh token keeps
\* the stored one.
Stored(bundle) ==
  IF bundle.refresh = NoId /\ row # NoRow
  THEN [bundle EXCEPT !.refresh = row.refresh]
  ELSE bundle

Save(t) ==
  /\ task[t].stage = "save"
  /\ row' = Stored(task[t].row)
  /\ IF task[t].goal = "read"
     THEN Goto(t, [stage |-> "send", row |-> task[t].row, since |-> task[t].since])
     ELSE Finish(t)
  /\ Strain(IF Busy(t) THEN {"overlap"} ELSE {})
  /\ UNCHANGED <<now, states, schwab, exchanged>>

\* mark_token_status: whichever tokens the row holds by now.
Mark(t) ==
  /\ task[t].stage = "mark"
  /\ row' = [row EXCEPT !.status = task[t].mark]
  /\ Finish(t)
  /\ Strain(IF Busy(t) THEN {"overlap"} ELSE {})
  /\ UNCHANGED <<now, states, schwab, exchanged>>

\* The market-data call.  401 marks the row for a reconnect, 403 marks it
\* connected, any other answer leaves it alone.
Send(t) ==
  /\ task[t].stage = "send"
  /\ LET token == task[t].row
         dead  == Expired(token.accessExpires) \/ token.access \notin live
     IN \/ /\ dead
           /\ Goto(t, [stage |-> "mark", mark |-> "reconnect_required"])
           /\ Strain(IF Expired(token.accessExpires)
                          /\ task[t].since < token.accessExpires
                     THEN {"late"} ELSE {})
        \/ /\ ~dead
           /\ Goto(t, [stage |-> "mark", mark |-> "connected"])
           /\ UNCHANGED strained
        \/ /\ Finish(t)
           /\ UNCHANGED strained
  /\ UNCHANGED <<now, row, states, schwab, exchanged>>

\* What schwab_connection_status shows and what it asks for.
Shown(r) ==
  IF Expired(r.refreshExpires) \/ (Expired(r.accessExpires) /\ r.refresh = NoId)
  THEN "reconnect_required"
  ELSE IF Expired(r.accessExpires) THEN "connected"
  ELSE r.status

RequiresReconnect(r) == Shown(r) \in {"reconnect_required", "degraded"}

-----------------------------------------------------------------------------
Tick ==
  /\ now < MaxTime
  /\ now' = now + 1
  /\ UNCHANGED <<row, states, task, schwab, exchanged, strained>>

\* The account holder withdraws the application's access (external).
Revoke ==
  /\ honoured # {}
  /\ honoured' = {}
  /\ live' = {}
  /\ Strain({"revoked"})
  /\ UNCHANGED <<now, row, states, task, issued, exchanged>>

Next ==
  \/ Tick
  \/ Revoke
  \/ \E s \in States : StartOAuth(s)
  \/ \E t \in Threads, s \in States : Callback(t, s)
  \/ \E t \in Threads :
       \/ Claim(t)
       \/ Exchange(t)
       \/ Read(t)
       \/ Refresh(t)
       \/ Save(t)
       \/ Mark(t)
       \/ Send(t)

Spec == Init /\ [][Next]_vars

-----------------------------------------------------------------------------
(* Properties                                                              *)

\* Every state value leads to one code exchange at most, however often the
\* browser repeats the callback and however the two requests interleave
\* (consume_state).
StateUsedOnce == \A s \in States : exchanged[s] <= 1

Quiet == row # NoRow /\ \A t \in Threads : task[t] = Idle

\* A refresh can still succeed with the stored refresh token.
Refreshable ==
  row.refresh \in honoured /\ ~Expired(row.refreshExpires)

\* Once every request has ended, a row that reads accept holds a refresh token
\* that Schwab honours, unless the token has expired or a lost answer, two
\* overlapping requests, an answer without a refresh token or a revocation
\* came between: a rotated token is never replaced by the one it retired
\* (_access_token, save_token_bundle).
ConnectedIsLive ==
  Quiet /\ Accepts(row) =>
    \/ Refreshable
    \/ Expired(row.refreshExpires)
    \/ strained \cap {"overlap", "lost", "bare", "revoked"} # {}

\* Once every request has ended, a row that reads refuse holds a refresh token
\* that no longer works, unless an outage of the endpoint, an answer that came
\* after the access token had expired, two overlapping requests or a
\* revocation came between: the leeway keeps reads from sending an expired
\* token and marking a good row for a reconnect (_access_token,
\* _request_json).
RefusalExplained ==
  Quiet /\ ~Accepts(row) =>
    \/ ~Refreshable
    \/ strained \cap {"overlap", "lost", "outage", "late", "revoked"} # {}

\* Both: what became of a stored row of tokens is explained, good or bad.
TokensAreSound == ConnectedIsLive /\ RefusalExplained

\* A reconnect is asked for only when the stored tokens are missing or
\* invalid, says docs/roadmap-status.md:369-371.  No run checks it: the code asks
\* for one after any failed refresh (mark_token_status in _access_token,
\* schwab_connection_status; README, known divergences).
ReconnectReserved ==
  Quiet /\ RequiresReconnect(row) => ~Refreshable

=============================================================================
