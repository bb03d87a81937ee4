---------------------------- MODULE AgentScheduler ----------------------------
(***************************************************************************)
(* The Agent Mode scheduler: run_due, as the scheduler loop, an operator's *)
(* diagnostic dry run or a forced check invoke it, the per-profile latch   *)
(* it claims a window with, and the agent_mode_runs rows it consults.      *)
(*                                                                         *)
(* A check is a process of its own.  It reads the time once and the        *)
(* profiles once, then visits the profiles in order of their ids, one      *)
(* repository transaction per step.  Nothing keeps two checks apart but    *)
(* the latch columns of the profile row, so checks of different processes  *)
(* interleave.                                                             *)
(*                                                                         *)
(* Time is in units of the loop's interval (300 seconds).  A window key is *)
(* the local date and the run time of the profile; the profile part of the *)
(* key is the row the latch is in, and every profile has one time zone.    *)
(* The paper trades of a run are one step here (PaperLedger has their own  *)
(* interleavings); notifications and the texts of skip reasons are left    *)
(* out, and a profile is not deleted while a check visits it.              *)
(***************************************************************************)
EXTENDS Naturals, Sequences

CONSTANTS
  Workers,      \* processes that can run a check: loops and operators' shells
  NumProfiles,
  RunTimes,     \* the daily_run_time of a profile, as units after midnight
  DayLength,    \* units in a day
  OpenDays,     \* days on which the market is open
  StaleAfter,   \* AGENT_SCHEDULER_HEALTH_STALE_SECONDS, in units
  RunLimit,     \* the rows list_runs returns at most (100)
  Punctual,     \* whether every loop completes a check within each unit
  MaxClock,     \* bound on the time
  Limit         \* bounds on the events that happen now and then

Profiles == 1..NumProfiles
Days     == 0..(MaxClock \div DayLength)
Windows  == Days \X RunTimes

\* What a profile's row, its watchlists and its user say: enabled and neither
\* paused nor killed; a universe of at least one symbol; an approved user.
Settings == [on: BOOLEAN, ready: BOOLEAN, approved: BOOLEAN, runTime: RunTimes]

Events == {"edit", "manual", "dryRun", "force", "crash"}

\* The loop runs plain checks; the operator may ask for the other two.
Kinds == {"check", "dryRun", "force"}

ASSUME SchedulerAssumption ==
  /\ NumProfiles \in Nat \ {0}
  /\ DayLength \in Nat \ {0}
  /\ RunTimes \subseteq 0..(DayLength - 1)
  /\ StaleAfter \in Nat
  /\ RunLimit \in Nat
  /\ MaxClock \in Nat
  /\ Punctual \in BOOLEAN
  /\ Limit \in [Events -> Nat]

VARIABLES
  clock,
  settings,   \* what the tables say of each profile now
  latch,      \* scheduler_last_* columns of each profile
  log,        \* agent_mode_runs rows of each profile, oldest first
  traded,     \* how many runs traded on paper for each profile and window
  ticks,      \* local variables of the check each worker is running
  polled,     \* the workers whose loop has begun its check of this unit
  spent       \* how many events of each kind have happened

vars == <<clock, settings, latch, log, traded, ticks, polled, spent>>

NoWindow == <<>>
Latch    == [window: Windows \cup {NoWindow},
             result: {"none", "skipped", "running", "completed", "error"},
             checkedAt: 0..MaxClock]
RunRow   == [kind: Kinds \cup {"manual"}, window: Windows \cup {NoWindow}]

Tick == [at: {"idle", "check", "lookup", "claim", "user", "skip", "trade", "record", "finish"},
         kind: Kinds,
         now: 0..MaxClock,
         seen: [Profiles -> Settings] \cup {<<>>},
         profile: Profiles,
         window: Windows \cup {NoWindow},
         result: {"none", "completed", "error"}]

TypeOK ==
  /\ clock \in 0..MaxClock
  /\ settings \in [Profiles -> Settings]
  /\ latch \in [Profiles -> Latch]
  /\ log \in [Profiles -> Seq(RunRow)]
  /\ traded \in [Profiles -> [Windows -> Nat]]
  /\ ticks \in [Workers -> Tick]
  /\ polled \subseteq Workers
  /\ spent \in [Events -> Nat]

\* A worker between checks has no local variables.
Idle == [at |-> "idle", kind |-> "check", now |-> 0, seen |-> <<>>,
         profile |-> 1, window |-> NoWindow, result |-> "none"]

Init ==
  /\ clock = 0
  /\ settings \in [Profiles -> {s \in Settings : s.on /\ s.ready /\ s.approved}]
  /\ latch = [p \in Profiles |-> [window |-> NoWindow, result |-> "none", checkedAt |-> 0]]
  /\ log = [p \in Profiles |-> <<>>]
  /\ traded = [p \in Profiles |-> [win \in Windows |-> 0]]
  /\ ticks = [w \in Workers |-> Idle]
  /\ polled = {}
  /\ spent = [e \in Events |-> 0]

(***************************************************************************)
(* Time, and the operator                                                  *)
(***************************************************************************)

Day(now)       == now \div DayLength
TimeOfDay(now) == now % DayLength

\* _scheduler_window: the window the profile is in, and whether it is due.
Window(now, setting)  == <<Day(now), setting.runTime>>
IsDueAt(now, setting) == TimeOfDay(now) >= setting.runTime

\* An event that happens a bounded number of times.
Spend(event) ==
  /\ spent[event] < Limit[event]
  /\ spent' = [spent EXCEPT ![event] = @ + 1]

\* Time passes.  If the loops are punctual, each has completed a check before.
Advance ==
  /\ clock < MaxClock
  /\ Punctual => polled = Workers /\ \A w \in Workers : ticks[w].at = "idle"
  /\ clock' = clock + 1
  /\ polled' = {}
  /\ UNCHANGED <<settings, latch, log, traded, ticks, spent>>

\* The operator edits a profile or its watchlist, or an admin its user: the
\* latch stays as it is.
Edit(p) ==
  /\ Spend("edit")
  /\ \/ settings' = [settings EXCEPT ![p].on = ~ @]
     \/ settings' = [settings EXCEPT ![p].ready = ~ @]
     \/ settings' = [settings EXCEPT ![p].approved = ~ @]
     \/ \E t \in RunTimes \ {settings[p].runTime} :
          settings' = [settings EXCEPT ![p].runTime = t]
  /\ UNCHANGED <<clock, latch, log, traded, ticks, polled>>

\* POST /user/agent-mode/run: a run outside the schedule leaves a row, too.
ManualRun(p) ==
  /\ Spend("manual")
  /\ log' = [log EXCEPT ![p] = Append(@, [kind |-> "manual", window |-> NoWindow])]
  /\ UNCHANGED <<clock, settings, latch, traded, ticks, polled>>

(***************************************************************************)
(* A check                                                                 *)
(***************************************************************************)

\* The check of worker w moves on with these local variables ...
Goto(w, locals) ==
  /\ ticks' = [ticks EXCEPT ![w] = locals]
  /\ UNCHANGED <<clock, settings, polled, spent>>

\* Faulty variant: one profile too many.
NextProfile_OneMore(w) ==
  Goto(w, IF ticks[w].profile > NumProfiles THEN Idle
          ELSE [ticks[w] EXCEPT !.at = "check", !.profile = @ + 1,
                                !.window = NoWindow, !.result = "none"])

\* ... or to the next profile, if there is one.
NextProfile(w) ==
  Goto(w, IF ticks[w].profile = NumProfiles THEN Idle
          ELSE [ticks[w] EXCEPT !.at = "check", !.profile = @ + 1,
                                !.window = NoWindow, !.result = "none"])

\* update_scheduler_check overwrites the latch, whoever has claimed it.
WriteLatch(w, result) ==
  latch' = [latch EXCEPT ![ticks[w].profile] =
    [window |-> Window(ticks[w].now, ticks[w].seen[ticks[w].profile]),
     result |-> result, checkedAt |-> ticks[w].now]]

\* The check reads the time, and every row of the profiles table.
Begin(w, kind) ==
  /\ ticks[w].at = "idle"
  /\ IF kind = "check"
     THEN w \notin polled /\ polled' = polled \cup {w} /\ UNCHANGED spent
     ELSE Spend(kind) /\ UNCHANGED polled
  /\ ticks' = [ticks EXCEPT ![w] = [Idle EXCEPT !.at = "check", !.kind = kind,
                                                !.now = clock, !.seen = settings]]
  /\ UNCHANGED <<clock, settings, latch, log, traded>>

\* A profile that is off, a closed market or a window that is not due: the
\* check records a skip.  A forced check minds the first of these only.
MustSkip(w) ==
  LET tick == ticks[w]
      seen == tick.seen[tick.profile]
  IN  \/ ~ seen.on
      \/ /\ tick.kind # "force"
         /\ Day(tick.now) \notin OpenDays \/ ~ IsDueAt(tick.now, seen)

SkipEarly(w) ==
  /\ ticks[w].at = "check"
  /\ MustSkip(w)
  /\ WriteLatch(w, "skipped")
  /\ NextProfile(w)
  /\ UNCHANGED <<log, traded>>

EnterWindow(w) ==
  LET tick == ticks[w] IN
  /\ tick.at = "check"
  /\ ~ MustSkip(w)
  /\ Goto(w, [tick EXCEPT !.at = "lookup",
                          !.window = Window(tick.now, tick.seen[tick.profile])])
  /\ UNCHANGED <<latch, log, traded>>

\* scheduled_run_for_window: among the latest rows of the profile, one that a
\* scheduled run has written for this window.
Recent(p) == {i \in DOMAIN log[p] : i + RunLimit > Len(log[p])}

\* Faulty variant: a lookup that takes the latest row, whoever wrote it.
HasRun_Latest(p, window) ==
  log[p] # <<>> /\ log[p][Len(log[p])].window = window

HasRun(p, window) ==
  \E i \in Recent(p) : log[p][i].kind \in {"check", "force"} /\ log[p][i].window = window

\* The run of this window and the universe, which are looked up before the
\* claim: with either answer the window may be left unclaimed.
Lookup(w) ==
  LET tick == ticks[w]
      seesRun == tick.kind # "force" /\ HasRun(tick.profile, tick.window)
      goesOn == ~ seesRun /\ settings[tick.profile].ready
  IN
  /\ tick.at = "lookup"
  /\ Goto(w, [tick EXCEPT !.at = IF ~ goesOn THEN "skip"
                                 ELSE IF tick.kind = "force" THEN "user" ELSE "claim"])
  /\ UNCHANGED <<latch, log, traded>>

\* Faulty variants: a claim that is never stale, and one that a check at the
\* same time takes over.
Claimable_NeverStale(p, window, now) ==
  latch[p].window # window \/ latch[p].result # "running"
Claimable_StaleAtOnce(p, window, now) ==
  \/ latch[p].window # window
  \/ latch[p].result # "running"
  \/ latch[p].checkedAt <= now

\* claim_scheduler_window, one conditional UPDATE: it fails only for a latch
\* that is running this very window and is not stale.
Claimable(p, window, now) ==
  \/ latch[p].window # window
  \/ latch[p].result # "running"
  \/ latch[p].checkedAt + StaleAfter < now

Claim(w) ==
  LET tick == ticks[w] IN
  /\ tick.at = "claim"
  /\ \/ /\ Claimable(tick.profile, tick.window, tick.now)
        /\ WriteLatch(w, "running")
        /\ Goto(w, [tick EXCEPT !.at = "user"])
     \/ /\ ~ Claimable(tick.profile, tick.window, tick.now)
        /\ NextProfile(w)
        /\ UNCHANGED latch
  /\ UNCHANGED <<log, traded>>

\* Faulty variant: a check that leaves the claim with a user who is not approved.
CheckUser_KeepsClaim(w) ==
  LET tick == ticks[w] IN
  /\ tick.at = "user"
  /\ IF settings[tick.profile].approved
     THEN Goto(w, [tick EXCEPT !.at = "trade"])
     ELSE NextProfile(w)
  /\ UNCHANGED <<latch, log, traded>>

CheckUser(w) ==
  LET tick == ticks[w] IN
  /\ tick.at = "user"
  /\ Goto(w, [tick EXCEPT !.at = IF settings[tick.profile].approved THEN "trade" ELSE "skip"])
  /\ UNCHANGED <<latch, log, traded>>

WriteSkip(w) ==
  /\ ticks[w].at = "skip"
  /\ WriteLatch(w, "skipped")
  /\ NextProfile(w)
  /\ UNCHANGED <<log, traded>>

\* The trading part of run, which reads the profile again: a profile that was
\* turned off meanwhile is run dry.  It may raise before or after it traded.
Trade(w) ==
  LET tick == ticks[w]
      dry  == tick.kind = "dryRun" \/ ~ settings[tick.profile].on
  IN
  /\ tick.at = "trade"
  /\ \E result \in {"completed", "error"} :
       /\ Goto(w, [tick EXCEPT !.at = "record", !.result = result])
       /\ \/ /\ dry \/ result = "error"
             /\ UNCHANGED traded
          \/ /\ ~ dry
             /\ traded' = [traded EXCEPT ![tick.profile][tick.window] = @ + 1]
  /\ UNCHANGED <<latch, log>>

\* Faulty variant: a run that raises leaves no row.
Record_CompletedOnly(w) ==
  LET tick == ticks[w] IN
  /\ tick.at = "record"
  /\ log' = IF tick.result = "error" THEN log
            ELSE [log EXCEPT ![tick.profile] =
                    Append(@, [kind |-> tick.kind, window |-> tick.window])]
  /\ Goto(w, [tick EXCEPT !.at = "finish"])
  /\ UNCHANGED <<latch, traded>>

\* create_run, of run or of the handler of its exception.
Record(w) ==
  LET tick == ticks[w] IN
  /\ tick.at = "record"
  /\ log' = [log EXCEPT ![tick.profile] =
               Append(@, [kind |-> tick.kind, window |-> tick.window])]
  /\ Goto(w, [tick EXCEPT !.at = "finish"])
  /\ UNCHANGED <<latch, traded>>

Finish(w) ==
  /\ ticks[w].at = "finish"
  /\ WriteLatch(w, ticks[w].result)
  /\ NextProfile(w)
  /\ UNCHANGED <<log, traded>>

\* The process dies, with whatever it has claimed.
Crash(w) ==
  /\ ticks[w].at # "idle"
  /\ Spend("crash")
  /\ ticks' = [ticks EXCEPT ![w] = Idle]
  /\ UNCHANGED <<clock, settings, latch, log, traded, polled>>

-----------------------------------------------------------------------------

Step(w) ==
  \/ SkipEarly(w) \/ EnterWindow(w) \/ Lookup(w) \/ Claim(w) \/ CheckUser(w)
  \/ WriteSkip(w) \/ Trade(w) \/ Record(w) \/ Finish(w)

Next ==
  \/ Advance
  \/ \E p \in Profiles : Edit(p) \/ ManualRun(p)
  \/ \E w \in Workers :
       \/ \E kind \in Kinds : Begin(w, kind)
       \/ Step(w)
       \/ Crash(w)

Spec == Init /\ [][Next]_vars

(***************************************************************************)
(* Properties                                                              *)
(***************************************************************************)

\* No two regular checks record a run for the same window of a profile.
RunsDiffer(p) ==
  \A i, j \in DOMAIN log[p] :
    i # j /\ log[p][i].kind = "check" /\ log[p][j].kind = "check"
      => log[p][i].window # log[p][j].window

\* With one check at a time and few enough rows for the lookup to see them all,
\* a window is run once, through dry runs, forced checks, edits and crashes.
OneRunPerWindow == \A p \in Profiles : Len(log[p]) <= RunLimit => RunsDiffer(p)

\* ... and trades again only after a check died between its trades and its row.
TradedOncePerCrash ==
  \A p \in Profiles : Len(log[p]) <= RunLimit =>
    \A win \in Windows : traded[p][win] <= 1 + spent["crash"] + spent["force"]

\* A punctual loop misses no window: the window of a profile that is left alone
\* is run in the unit in which it is due, and a check that dies in possession
\* of the claim delays it by no more than the time the claim takes to go stale.
DueWindowRun ==
  \A p \in Profiles :
    LET setting == settings[p] IN
    /\ spent["edit"] = 0 /\ Len(log[p]) <= RunLimit
    /\ Day(clock) \in OpenDays
    /\ TimeOfDay(clock) > setting.runTime + (spent["crash"] * (StaleAfter + 1))
    => HasRun(p, Window(clock, setting))

\* A claim is given up: a latch says "running" only while the check that
\* claimed it is under way, or after some check has died.
Holds(w, p) == ticks[w].profile = p /\ ticks[w].at \in {"user", "skip", "trade", "record", "finish"}
ClaimReleased ==
  spent["crash"] = 0 =>
    \A p \in Profiles : latch[p].result = "running" => \E w \in Workers : Holds(w, p)

\* Checks that begin within one stale period of each other, of profiles that are
\* due and left alone, never trade for a profile at the same time: until one of
\* them has recorded its run, and after that as long as there are two processes.
\* Of three, one that finds the recorded run overwrites the claim of the second
\* with its skip, and the third may trade beside it.
Trading(w, p) == ticks[w].profile = p /\ ticks[w].at \in {"user", "trade", "record"}
Undisturbed ==
  /\ spent["edit"] = 0 /\ spent["force"] = 0
  /\ clock <= StaleAfter /\ 0 \in OpenDays
  /\ \A p \in Profiles : settings[p].runTime = 0
Recorded(p) == \E i \in DOMAIN log[p] : log[p][i].kind \in {"check", "force"}
AtMostTwo   == \A u, v, w \in Workers : u = v \/ v = w \/ u = w
NoTwoTrade ==
  Undisturbed =>
    \A p \in Profiles : Len(log[p]) <= RunLimit /\ (Recorded(p) => AtMostTwo) =>
      \A v, w \in Workers : Trading(v, p) /\ Trading(w, p) => v = w

\* What docs/agent-mode.md says: duplicate prevention is based on the claim and
\* the window key.  A check that has looked up the runs before another check
\* records one can claim after it, and the lookup sees the latest rows only: no
\* run checks it (README, known divergences).
NoDuplicateRun == \A p \in Profiles : RunsDiffer(p)
=============================================================================
