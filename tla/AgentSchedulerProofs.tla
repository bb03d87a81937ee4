------------------------ MODULE AgentSchedulerProofs ------------------------
(***************************************************************************)
(* Theorems about AgentScheduler, for any number of workers and profiles,  *)
(* any bounds and any lengths of the day and of the stale period; and      *)
(* about what an agent run asks for: the triggers and the reviews,         *)
(* whatever the profile, the indicators, the prices and the levels, and    *)
(* the calendar's decision, whatever the settings and the events it knows. *)
(***************************************************************************)
EXTENDS AgentScheduler, AgentTriggers, RiskCalendar, Integers, SequenceTheorems, WellFoundedInduction, TLAPS

(***************************************************************************)
(* Arithmetic: the day of a time up to MaxClock is one of Days             *)
(***************************************************************************)

LEMMA DivisionBounds ==
  ASSUME NEW d \in Nat \ {0}, NEW n \in Nat
  PROVE  n \div d \in Nat /\ d * (n \div d) <= n /\ n < d * ((n \div d) + 1)
  BY Z3

LEMMA ProductMonotone ==
  ASSUME NEW d \in Nat \ {0}, NEW a \in Nat, NEW b \in Nat, a <= b
  PROVE  d * a <= d * b
  BY Z3

LEMMA DivisionMonotone ==
  ASSUME NEW d \in Nat \ {0}, NEW m \in Nat, NEW n \in 0..m
  PROVE  n \div d \in 0..(m \div d)
<1> DEFINE a == n \div d
<1> DEFINE b == m \div d
<1>1. a \in Nat /\ b \in Nat /\ d * a <= n /\ m < d * (b + 1)
  BY DivisionBounds
<1> HIDE DEF a, b
<1>2. a <= b
  <2> SUFFICES ASSUME a > b PROVE FALSE
    BY <1>1
  <2> DEFINE x == d * (b + 1)
  <2> DEFINE y == d * a
  <2>1. x <= y
    BY <1>1, ProductMonotone
  <2>2. x \in Nat /\ y \in Nat
    BY <1>1
  <2>3. y <= n /\ m < x
    BY <1>1
  <2> HIDE DEF x, y
  <2> QED BY <2>1, <2>2, <2>3
<1> QED BY <1>1, <1>2 DEF a, b

LEMMA WindowTyped ==
  ASSUME NEW now \in 0..MaxClock, NEW setting \in Settings
  PROVE  Window(now, setting) \in Windows
<1>1. now \div DayLength \in 0..(MaxClock \div DayLength)
  BY SchedulerAssumption, DivisionMonotone
<1> QED
  BY <1>1 DEF Window, Day, Windows, Days, Settings

(***************************************************************************)
(* Typing                                                                  *)
(***************************************************************************)

\* A check that is under way has read the profiles, and knows the window of
\* the profile it visits once it has decided to enter it.
TickOK(r) ==
  /\ r \in Tick
  /\ r.at # "idle" => r.seen \in [Profiles -> Settings]
  /\ r.at \notin {"idle", "check"} => r.window \in Windows

TicksOK == ticks \in [Workers -> Tick] /\ \A w \in Workers : TickOK(ticks[w])

RestOK ==
  /\ clock \in 0..MaxClock
  /\ settings \in [Profiles -> Settings]
  /\ polled \subseteq Workers
  /\ spent \in [Events -> Nat]

LatchOK  == latch \in [Profiles -> Latch]
LogOK    == log \in [Profiles -> Seq(RunRow)]
TradedOK == traded \in [Profiles -> [Windows -> Nat]]

TypeInv == TicksOK /\ RestOK /\ LatchOK /\ LogOK /\ TradedOK

LEMMA IdleOK == TickOK(Idle)
<1>1. 1 \in Profiles /\ 0 \in 0..MaxClock
  BY SchedulerAssumption DEF Profiles
<1> QED
  BY <1>1 DEF TickOK, Tick, Idle, Kinds, NoWindow

LEMMA TypeInit == Init => TypeInv
<1> SUFFICES ASSUME Init PROVE TypeInv
  OBVIOUS
<1>1. TicksOK
  BY IdleOK DEF Init, TicksOK, TickOK
<1>2. RestOK
  BY SchedulerAssumption DEF Init, RestOK
<1>3. LatchOK
  BY SchedulerAssumption DEF Init, LatchOK, Latch
<1>4. LogOK /\ TradedOK
  BY DEF Init, LogOK, TradedOK
<1> QED
  BY <1>1, <1>2, <1>3, <1>4 DEF TypeInv

LEMMA LocalsOK ==
  ASSUME TicksOK, NEW w \in Workers, NEW r, TickOK(r), ticks' = [ticks EXCEPT ![w] = r]
  PROVE  TicksOK'
  BY DEF TicksOK, TickOK

LEMMA GotoOK ==
  ASSUME TypeInv, NEW w \in Workers, NEW r, TickOK(r), Goto(w, r)
  PROVE  TicksOK' /\ RestOK'
<1>1. TicksOK'
  BY LocalsOK DEF Goto, TypeInv
<1> QED
  BY <1>1 DEF Goto, TypeInv, RestOK

\* A check that is under way has typed locals, whatever it changes of these.
LEMMA MoveOK ==
  ASSUME TypeInv, NEW w \in Workers, ticks[w].at # "idle",
         NEW at, at \in {"lookup", "claim", "user", "skip", "trade", "record", "finish"},
         NEW window \in Windows, NEW result \in {"none", "completed", "error"}
  PROVE  TickOK([ticks[w] EXCEPT !.at = at, !.window = window, !.result = result])
<1> DEFINE r == [ticks[w] EXCEPT !.at = at, !.window = window, !.result = result]
<1>1. ticks[w] \in Tick /\ ticks[w].seen \in [Profiles -> Settings]
  BY DEF TypeInv, TicksOK, TickOK
<1>2. r \in Tick
  BY <1>1 DEF Tick
<1>3. r.at = at /\ r.seen = ticks[w].seen /\ r.window = window
  BY <1>1 DEF Tick
<1> HIDE DEF r
<1>4. TickOK(r)
  BY <1>1, <1>2, <1>3 DEF TickOK
<1> QED BY <1>4 DEF r

LEMMA NextProfileOK ==
  ASSUME TypeInv, NEW w \in Workers, ticks[w].at # "idle", NextProfile(w)
  PROVE  TicksOK' /\ RestOK'
<1>1. CASE ticks[w].profile = NumProfiles
  BY <1>1, GotoOK, IdleOK DEF NextProfile
<1>2. CASE ticks[w].profile # NumProfiles
  <2> DEFINE r == [ticks[w] EXCEPT !.at = "check", !.profile = @ + 1,
                                   !.window = NoWindow, !.result = "none"]
  <2>1. ticks[w] \in Tick /\ ticks[w].seen \in [Profiles -> Settings]
    BY DEF TypeInv, TicksOK, TickOK
  <2>2. ticks[w].profile + 1 \in Profiles
    BY <1>2, <2>1, SchedulerAssumption DEF Tick, Profiles
  <2>3. r \in Tick
    BY <2>1, <2>2 DEF Tick
  <2>4. r.at = "check" /\ r.seen = ticks[w].seen
    BY <2>1 DEF Tick
  <2>5. Goto(w, r)
    BY <1>2 DEF NextProfile
  <2> HIDE DEF r
  <2> QED BY <2>1, <2>3, <2>4, <2>5, GotoOK DEF TickOK
<1> QED BY <1>1, <1>2

LEMMA WriteLatchOK ==
  ASSUME TypeInv, NEW w \in Workers, ticks[w].at # "idle",
         NEW result \in {"skipped", "running", "none", "completed", "error"},
         WriteLatch(w, result)
  PROVE  LatchOK'
<1> DEFINE window == Window(ticks[w].now, ticks[w].seen[ticks[w].profile])
<1>1. /\ ticks[w].now \in 0..MaxClock
      /\ ticks[w].profile \in Profiles
      /\ ticks[w].seen[ticks[w].profile] \in Settings
  BY DEF TypeInv, TicksOK, TickOK, Tick
<1>2. window \in Windows
  BY <1>1, WindowTyped
<1>3. latch' = [latch EXCEPT ![ticks[w].profile] =
                  [window |-> window, result |-> result, checkedAt |-> ticks[w].now]]
  BY DEF WriteLatch
<1> HIDE DEF window
<1> QED BY <1>1, <1>2, <1>3 DEF TypeInv, LatchOK, Latch

LEMMA SpendOK ==
  ASSUME RestOK, NEW event \in Events, Spend(event)
  PROVE  spent' \in [Events -> Nat]
  BY DEF RestOK, Spend

LEMMA TypeStep ==
  ASSUME TypeInv, [Next]_vars
  PROVE  TypeInv'
<1> USE DEF TypeInv
<1>0. ASSUME NEW w \in Workers, ticks[w].at # "idle"
      PROVE  /\ ticks[w] \in Tick
             /\ ticks[w].profile \in Profiles
             /\ ticks[w].seen \in [Profiles -> Settings]
             /\ ticks[w].seen[ticks[w].profile] \in Settings
             /\ ticks[w].now \in 0..MaxClock
             /\ ticks[w].at # "check" => ticks[w].window \in Windows
             /\ ticks[w].result \in {"none", "completed", "error"}
  BY <1>0 DEF TicksOK, TickOK, Tick
<1>1. CASE Advance
  <2>1. RestOK'
    BY <1>1, SchedulerAssumption DEF Advance, RestOK
  <2> QED BY <1>1, <2>1 DEF Advance, TicksOK, TickOK, LatchOK, LogOK, TradedOK
<1>2. ASSUME NEW p \in Profiles, Edit(p) PROVE TypeInv'
  <2>1. spent' \in [Events -> Nat]
    BY <1>2, SpendOK DEF Edit, Events
  <2>2. settings' \in [Profiles -> Settings]
    <3>1. settings[p] \in Settings
      BY DEF RestOK
    <3>2. ASSUME NEW s \in Settings, settings' = [settings EXCEPT ![p] = s]
          PROVE  settings' \in [Profiles -> Settings]
      BY <3>2 DEF RestOK
    <3>3. /\ [settings[p] EXCEPT !.on = ~ @] \in Settings
          /\ [settings[p] EXCEPT !.ready = ~ @] \in Settings
          /\ [settings[p] EXCEPT !.approved = ~ @] \in Settings
          /\ \A t \in RunTimes : [settings[p] EXCEPT !.runTime = t] \in Settings
      BY <3>1 DEF Settings
    <3>4. \/ settings' = [settings EXCEPT ![p] = [settings[p] EXCEPT !.on = ~ @]]
          \/ settings' = [settings EXCEPT ![p] = [settings[p] EXCEPT !.ready = ~ @]]
          \/ settings' = [settings EXCEPT ![p] = [settings[p] EXCEPT !.approved = ~ @]]
          \/ \E t \in RunTimes :
               settings' = [settings EXCEPT ![p] = [settings[p] EXCEPT !.runTime = t]]
      BY <1>2 DEF Edit, RestOK
    <3> QED BY <3>2, <3>3, <3>4
  <2> QED BY <1>2, <2>1, <2>2 DEF Edit, RestOK, TicksOK, TickOK, LatchOK, LogOK, TradedOK
<1>3. ASSUME NEW p \in Profiles, ManualRun(p) PROVE TypeInv'
  <2>1. spent' \in [Events -> Nat]
    BY <1>3, SpendOK DEF ManualRun, Events
  <2>2. LogOK'
    <3>1. [kind |-> "manual", window |-> NoWindow] \in RunRow
      BY DEF RunRow
    <3> QED BY <1>3, <3>1 DEF ManualRun, LogOK
  <2> QED BY <1>3, <2>1, <2>2 DEF ManualRun, RestOK, TicksOK, TickOK, LatchOK, TradedOK
<1>4. ASSUME NEW w \in Workers, NEW kind \in Kinds, Begin(w, kind) PROVE TypeInv'
  <2> DEFINE r == [Idle EXCEPT !.at = "check", !.kind = kind, !.now = clock, !.seen = settings]
  <2>1. Idle \in Tick
    BY IdleOK DEF TickOK
  <2>2. r \in Tick /\ r.at = "check" /\ r.seen = settings
    BY <2>1 DEF Tick, RestOK
  <2>3. ticks' = [ticks EXCEPT ![w] = r]
    BY <1>4 DEF Begin
  <2> HIDE DEF r
  <2>4. TicksOK'
    BY <2>2, <2>3, LocalsOK DEF TickOK, RestOK
  <2>5. polled' \subseteq Workers /\ spent' \in [Events -> Nat]
    <3>1. CASE kind = "check"
      BY <1>4, <3>1 DEF Begin, RestOK
    <3>2. CASE kind # "check"
      <4>1. kind \in Events /\ Spend(kind) /\ UNCHANGED polled
        BY <1>4, <3>2 DEF Begin, Kinds, Events
      <4> QED BY <4>1, SpendOK DEF RestOK
    <3> QED BY <3>1, <3>2
  <2> QED BY <1>4, <2>4, <2>5 DEF Begin, RestOK, LatchOK, LogOK, TradedOK
<1>5. ASSUME NEW w \in Workers, SkipEarly(w) PROVE TypeInv'
  <2>1. ticks[w].at # "idle" /\ WriteLatch(w, "skipped") /\ NextProfile(w)
    BY <1>5 DEF SkipEarly
  <2> QED BY <1>5, <2>1, NextProfileOK, WriteLatchOK DEF SkipEarly, LogOK, TradedOK
<1>6. ASSUME NEW w \in Workers, EnterWindow(w) PROVE TypeInv'
  <2> DEFINE window == Window(ticks[w].now, ticks[w].seen[ticks[w].profile])
  <2>1. ticks[w].at # "idle"
    BY <1>6 DEF EnterWindow
  <2>2. window \in Windows
    BY <1>0, <2>1, WindowTyped
  <2>3. Goto(w, [ticks[w] EXCEPT !.at = "lookup", !.window = window])
    BY <1>6 DEF EnterWindow
  <2> HIDE DEF window
  <2>4. [ticks[w] EXCEPT !.at = "lookup", !.window = window]
        = [ticks[w] EXCEPT !.at = "lookup", !.window = window, !.result = ticks[w].result]
    BY <1>0, <2>1 DEF Tick
  <2>5. TicksOK' /\ RestOK'
    BY <1>0, <2>1, <2>2, <2>3, <2>4, MoveOK, GotoOK
  <2> QED BY <1>6, <2>5 DEF EnterWindow, LatchOK, LogOK, TradedOK
<1>7. ASSUME NEW w \in Workers, ticks[w].at \notin {"idle", "check"},
             NEW at \in {"lookup", "claim", "user", "skip", "trade", "record", "finish"},
             Goto(w, [ticks[w] EXCEPT !.at = at])
      PROVE  TicksOK' /\ RestOK'
  <2>1. [ticks[w] EXCEPT !.at = at]
        = [ticks[w] EXCEPT !.at = at, !.window = ticks[w].window, !.result = ticks[w].result]
    BY <1>0, <1>7 DEF Tick
  <2> QED BY <1>0, <1>7, <2>1, MoveOK, GotoOK
<1>8. ASSUME NEW w \in Workers, Lookup(w) PROVE TypeInv'
  <2>1. PICK at \in {"skip", "user", "claim"} : Goto(w, [ticks[w] EXCEPT !.at = at])
    BY <1>8 DEF Lookup
  <2>2. ticks[w].at = "lookup" /\ UNCHANGED <<latch, log, traded>>
    BY <1>8 DEF Lookup
  <2> QED BY <1>7, <2>1, <2>2 DEF LatchOK, LogOK, TradedOK
<1>9. ASSUME NEW w \in Workers, Claim(w) PROVE TypeInv'
  <2>1. ticks[w].at = "claim" /\ UNCHANGED <<log, traded>>
    BY <1>9 DEF Claim
  <2>2. CASE WriteLatch(w, "running") /\ Goto(w, [ticks[w] EXCEPT !.at = "user"])
    <3>1. LatchOK'
      BY <2>1, <2>2, WriteLatchOK
    <3> QED BY <1>7, <2>1, <2>2, <3>1 DEF LogOK, TradedOK
  <2>3. CASE NextProfile(w) /\ UNCHANGED latch
    BY <2>1, <2>3, NextProfileOK DEF LatchOK, LogOK, TradedOK
  <2> QED BY <1>9, <2>2, <2>3 DEF Claim
<1>10. ASSUME NEW w \in Workers, CheckUser(w) PROVE TypeInv'
  <2>1. PICK at \in {"skip", "trade"} : Goto(w, [ticks[w] EXCEPT !.at = at])
    BY <1>10 DEF CheckUser
  <2>2. ticks[w].at = "user" /\ UNCHANGED <<latch, log, traded>>
    BY <1>10 DEF CheckUser
  <2> QED BY <1>7, <2>1, <2>2 DEF LatchOK, LogOK, TradedOK
<1>11. ASSUME NEW w \in Workers, WriteSkip(w) PROVE TypeInv'
  <2>1. ticks[w].at # "idle" /\ WriteLatch(w, "skipped") /\ NextProfile(w)
    BY <1>11 DEF WriteSkip
  <2> QED BY <1>11, <2>1, NextProfileOK, WriteLatchOK DEF WriteSkip, LogOK, TradedOK
<1>12. ASSUME NEW w \in Workers, Trade(w) PROVE TypeInv'
  <2>1. ticks[w].at = "trade" /\ UNCHANGED <<latch, log>>
    BY <1>12 DEF Trade
  <2>2. PICK result \in {"completed", "error"} :
          Goto(w, [ticks[w] EXCEPT !.at = "record", !.result = result])
    BY <1>12 DEF Trade
  <2>3. [ticks[w] EXCEPT !.at = "record", !.result = result]
        = [ticks[w] EXCEPT !.at = "record", !.window = ticks[w].window, !.result = result]
    BY <1>0, <2>1 DEF Tick
  <2>4. TicksOK' /\ RestOK'
    BY <1>0, <2>1, <2>2, <2>3, MoveOK, GotoOK
  <2>5. TradedOK'
    <3>1. \/ UNCHANGED traded
          \/ traded' = [traded EXCEPT ![ticks[w].profile][ticks[w].window] = @ + 1]
      BY <1>12 DEF Trade
    <3> QED BY <1>0, <2>1, <3>1 DEF TradedOK
  <2> QED BY <2>1, <2>4, <2>5 DEF LatchOK, LogOK
<1>13. ASSUME NEW w \in Workers, Record(w) PROVE TypeInv'
  <2>1. /\ ticks[w].at = "record" /\ UNCHANGED <<latch, traded>>
        /\ Goto(w, [ticks[w] EXCEPT !.at = "finish"])
        /\ log' = [log EXCEPT ![ticks[w].profile] =
                     Append(@, [kind |-> ticks[w].kind, window |-> ticks[w].window])]
    BY <1>13 DEF Record
  <2>2. [kind |-> ticks[w].kind, window |-> ticks[w].window] \in RunRow
    BY <1>0, <2>1 DEF RunRow, Tick
  <2>3. LogOK'
    BY <1>0, <2>1, <2>2 DEF LogOK
  <2> QED BY <1>7, <2>1, <2>3 DEF LatchOK, TradedOK
<1>14. ASSUME NEW w \in Workers, Finish(w) PROVE TypeInv'
  <2>1. /\ ticks[w].at # "idle" /\ NextProfile(w) /\ UNCHANGED <<log, traded>>
        /\ WriteLatch(w, ticks[w].result)
    BY <1>14 DEF Finish
  <2>2. ticks[w].result \in {"skipped", "running", "none", "completed", "error"}
    BY <1>0, <2>1
  <2> QED BY <2>1, <2>2, NextProfileOK, WriteLatchOK DEF LogOK, TradedOK
<1>15. ASSUME NEW w \in Workers, Crash(w) PROVE TypeInv'
  <2>1. spent' \in [Events -> Nat]
    BY <1>15, SpendOK DEF Crash, Events
  <2>2. TicksOK'
    BY <1>15, IdleOK, LocalsOK DEF Crash
  <2> QED BY <1>15, <2>1, <2>2 DEF Crash, RestOK, LatchOK, LogOK, TradedOK
<1>16. CASE UNCHANGED vars
  BY <1>16 DEF vars, TicksOK, TickOK, RestOK, LatchOK, LogOK, TradedOK
<1> QED
  BY <1>1, <1>2, <1>3, <1>4, <1>5, <1>6, <1>8, <1>9, <1>10, <1>11, <1>12, <1>13,
    <1>14, <1>15, <1>16 DEF Next, Step

LEMMA TypeInvariant == Spec => []TypeInv
  BY TypeInit, TypeStep, PTL DEF Spec

\* The latch, the rows and the local variables of every check keep their
\* types: a check that writes a latch knows the profile and the window.
THEOREM SchedulerTypes == Spec => []TypeOK
<1>1. TypeInv => TypeOK
  BY DEF TypeInv, TypeOK, TicksOK, RestOK, LatchOK, LogOK, TradedOK
<1> QED BY <1>1, TypeInvariant, PTL

(***************************************************************************)
(* What each step of a check does to its local variables and to the tables *)
(***************************************************************************)

\* It goes on with the same profile ...
MovesOn(w, at, window) ==
  /\ ticks'[w].at = at /\ ticks'[w].window = window
  /\ ticks'[w].kind = ticks[w].kind /\ ticks'[w].now = ticks[w].now
  /\ ticks'[w].seen = ticks[w].seen /\ ticks'[w].profile = ticks[w].profile

\* ... or leaves it,
Leaves(w) ==
  \/ ticks'[w] = Idle /\ ticks[w].profile = NumProfiles
  \/ /\ ticks'[w].at = "check" /\ ticks'[w].profile = ticks[w].profile + 1
     /\ ticks'[w].kind = ticks[w].kind /\ ticks'[w].now = ticks[w].now
     /\ ticks'[w].seen = ticks[w].seen

\* writes the latch of the profile,
Writes(w, result) ==
  \A p \in Profiles : latch'[p] =
    IF p = ticks[w].profile
    THEN [window |-> Window(ticks[w].now, ticks[w].seen[p]), result |-> result,
          checkedAt |-> ticks[w].now]
    ELSE latch[p]

\* or appends to its log.
Appends(w) ==
  \A p \in Profiles : log'[p] =
    IF p = ticks[w].profile
    THEN Append(log[p], [kind |-> ticks[w].kind, window |-> ticks[w].window])
    ELSE log[p]

Skips(w) ==
  /\ ticks[w].at = "check" /\ MustSkip(w)
  /\ Writes(w, "skipped") /\ Leaves(w) /\ UNCHANGED <<log, traded>>
Enters(w) ==
  /\ ticks[w].at = "check" /\ ~ MustSkip(w) /\ UNCHANGED <<latch, log, traded>>
  /\ MovesOn(w, "lookup", Window(ticks[w].now, ticks[w].seen[ticks[w].profile]))
LooksUp(w) ==
  /\ ticks[w].at = "lookup" /\ UNCHANGED <<latch, log, traded>>
  /\ \/ /\ MovesOn(w, "skip", ticks[w].window)
        /\ \/ ticks[w].kind # "force" /\ HasRun(ticks[w].profile, ticks[w].window)
           \/ ~ settings[ticks[w].profile].ready
     \/ MovesOn(w, "user", ticks[w].window) /\ ticks[w].kind = "force"
     \/ /\ MovesOn(w, "claim", ticks[w].window) /\ ticks[w].kind # "force"
        /\ ~ HasRun(ticks[w].profile, ticks[w].window)
WinsClaim(w) ==
  /\ ticks[w].at = "claim"
  /\ Claimable(ticks[w].profile, ticks[w].window, ticks[w].now)
  /\ Writes(w, "running") /\ MovesOn(w, "user", ticks[w].window) /\ UNCHANGED <<log, traded>>
LosesClaim(w) ==
  /\ ticks[w].at = "claim"
  /\ ~ Claimable(ticks[w].profile, ticks[w].window, ticks[w].now)
  /\ Leaves(w) /\ UNCHANGED <<latch, log, traded>>
LooksAtUser(w) ==
  /\ ticks[w].at = "user" /\ UNCHANGED <<latch, log, traded>>
  /\ \/ MovesOn(w, "trade", ticks[w].window)
     \/ MovesOn(w, "skip", ticks[w].window) /\ ~ settings[ticks[w].profile].approved
SkipsLate(w) ==
  /\ ticks[w].at = "skip"
  /\ Writes(w, "skipped") /\ Leaves(w) /\ UNCHANGED <<log, traded>>
Trades(w) ==
  /\ ticks[w].at = "trade" /\ MovesOn(w, "record", ticks[w].window) /\ UNCHANGED <<latch, log>>
  /\ \/ UNCHANGED traded
     \/ /\ ticks[w].kind # "dryRun"
        /\ traded' = [traded EXCEPT ![ticks[w].profile][ticks[w].window] = @ + 1]
Records(w) ==
  /\ ticks[w].at = "record" /\ MovesOn(w, "finish", ticks[w].window)
  /\ Appends(w) /\ UNCHANGED <<latch, traded>>
Finishes(w) ==
  /\ ticks[w].at = "finish" /\ Leaves(w) /\ UNCHANGED <<log, traded>>
  /\ \E result \in {"none", "completed", "error"} : Writes(w, result)

LEMMA StepEffect ==
  ASSUME TypeInv, NEW w \in Workers, Step(w)
  PROVE  /\ \A v \in Workers : v # w => ticks'[v] = ticks[v]
         /\ UNCHANGED <<clock, settings, polled, spent>>
         /\ \/ Skips(w) \/ Enters(w) \/ LooksUp(w) \/ WinsClaim(w) \/ LosesClaim(w)
            \/ LooksAtUser(w) \/ SkipsLate(w) \/ Trades(w) \/ Records(w) \/ Finishes(w)
<1>1. ticks[w] \in Tick /\ ticks[w].profile \in Profiles
  BY DEF TypeInv, TicksOK, Tick
<1>2. ASSUME NEW r, Goto(w, r)
      PROVE  /\ ticks'[w] = r /\ \A v \in Workers : v # w => ticks'[v] = ticks[v]
             /\ UNCHANGED <<clock, settings, polled, spent>>
  BY <1>2 DEF Goto, TypeInv, TicksOK
<1> DEFINE Rest == /\ \A v \in Workers : v # w => ticks'[v] = ticks[v]
                   /\ UNCHANGED <<clock, settings, polled, spent>>
<1>3. ASSUME NEW at, NEW window, NEW result,
             Goto(w, [ticks[w] EXCEPT !.at = at, !.window = window, !.result = result])
      PROVE  MovesOn(w, at, window) /\ Rest
  <2> DEFINE r == [ticks[w] EXCEPT !.at = at, !.window = window, !.result = result]
  <2>1. /\ r.at = at /\ r.window = window /\ r.kind = ticks[w].kind /\ r.now = ticks[w].now
        /\ r.seen = ticks[w].seen /\ r.profile = ticks[w].profile
    BY <1>1 DEF Tick
  <2>2. Goto(w, r)
    BY <1>3
  <2> HIDE DEF r
  <2> QED BY <1>2, <2>1, <2>2 DEF MovesOn
<1>4. ASSUME NEW at, Goto(w, [ticks[w] EXCEPT !.at = at])
      PROVE  MovesOn(w, at, ticks[w].window) /\ Rest
  <2>1. PICK window, result : window = ticks[w].window /\ result = ticks[w].result
    OBVIOUS
  <2>2. [ticks[w] EXCEPT !.at = at]
        = [ticks[w] EXCEPT !.at = at, !.window = window, !.result = result]
    BY <1>1, <2>1 DEF Tick
  <2>3. Goto(w, [ticks[w] EXCEPT !.at = at, !.window = window, !.result = result])
    BY <1>4, <2>2
  <2>4. MovesOn(w, at, window) /\ Rest
    BY <1>3, <2>3
  <2> QED BY <2>1, <2>4
<1>5. ASSUME NextProfile(w) PROVE Leaves(w) /\ Rest
  <2>1. CASE ticks[w].profile = NumProfiles
    BY <1>2, <1>5, <2>1 DEF NextProfile, Leaves
  <2>2. CASE ticks[w].profile # NumProfiles
    <3> DEFINE r == [ticks[w] EXCEPT !.at = "check", !.profile = @ + 1,
                                     !.window = NoWindow, !.result = "none"]
    <3>1. /\ r.at = "check" /\ r.profile = ticks[w].profile + 1 /\ r.kind = ticks[w].kind
          /\ r.now = ticks[w].now /\ r.seen = ticks[w].seen
      BY <1>1 DEF Tick
    <3>2. Goto(w, r)
      BY <1>5, <2>2 DEF NextProfile
    <3> HIDE DEF r
    <3> QED BY <1>2, <3>1, <3>2 DEF Leaves
  <2> QED BY <2>1, <2>2
<1>6. ASSUME NEW result, WriteLatch(w, result) PROVE Writes(w, result)
  <2> DEFINE row == [window |-> Window(ticks[w].now, ticks[w].seen[ticks[w].profile]),
                     result |-> result, checkedAt |-> ticks[w].now]
  <2>1. latch' = [latch EXCEPT ![ticks[w].profile] = row]
    BY <1>6 DEF WriteLatch
  <2> HIDE DEF row
  <2>2. \A p \in Profiles : latch'[p] = IF p = ticks[w].profile THEN row ELSE latch[p]
    BY <2>1 DEF TypeInv, LatchOK
  <2> QED BY <2>2 DEF Writes, row
<1> HIDE DEF Rest
<1>7. CASE SkipEarly(w)
  BY <1>5, <1>6, <1>7 DEF SkipEarly, Skips, Rest
<1>8. CASE EnterWindow(w)
  <2>1. PICK window : window = Window(ticks[w].now, ticks[w].seen[ticks[w].profile])
    OBVIOUS
  <2>2. Goto(w, [ticks[w] EXCEPT !.at = "lookup", !.window = window])
    BY <1>8, <2>1 DEF EnterWindow
  <2>3. PICK result : result = ticks[w].result
    OBVIOUS
  <2>4. [ticks[w] EXCEPT !.at = "lookup", !.window = window]
        = [ticks[w] EXCEPT !.at = "lookup", !.window = window, !.result = result]
    BY <1>1, <2>3 DEF Tick
  <2>5. PICK at : at = "lookup"
    OBVIOUS
  <2>6. Goto(w, [ticks[w] EXCEPT !.at = at, !.window = window, !.result = result])
    BY <2>2, <2>4, <2>5
  <2>7. MovesOn(w, at, window) /\ Rest
    BY <1>3, <2>6
  <2> QED BY <1>8, <2>1, <2>5, <2>7 DEF EnterWindow, Enters, Rest
<1>9. CASE Lookup(w)
  <2>1. PICK at \in {"skip", "user", "claim"} :
          /\ Goto(w, [ticks[w] EXCEPT !.at = at])
          /\ at = "skip" => \/ ticks[w].kind # "force" /\ HasRun(ticks[w].profile, ticks[w].window)
                            \/ ~ settings[ticks[w].profile].ready
          /\ at = "user" => ticks[w].kind = "force"
          /\ at = "claim" => /\ ticks[w].kind # "force"
                             /\ ~ HasRun(ticks[w].profile, ticks[w].window)
    BY <1>9 DEF Lookup
  <2>2. MovesOn(w, at, ticks[w].window) /\ Rest
    BY <1>4, <2>1
  <2> QED BY <1>9, <2>1, <2>2 DEF Lookup, LooksUp, Rest
<1>10. CASE Claim(w)
  <2>1. Claimable(ticks[w].profile, ticks[w].window, ticks[w].now) => WinsClaim(w) /\ Rest
    BY <1>4, <1>6, <1>10 DEF Claim, WinsClaim
  <2>2. ~ Claimable(ticks[w].profile, ticks[w].window, ticks[w].now) => LosesClaim(w) /\ Rest
    BY <1>5, <1>10 DEF Claim, LosesClaim
  <2> QED BY <2>1, <2>2 DEF Rest
<1>11. CASE CheckUser(w)
  <2>1. PICK at \in {"skip", "trade"} :
          /\ Goto(w, [ticks[w] EXCEPT !.at = at])
          /\ at = "skip" => ~ settings[ticks[w].profile].approved
    BY <1>11 DEF CheckUser
  <2>2. MovesOn(w, at, ticks[w].window) /\ Rest
    BY <1>4, <2>1
  <2> QED BY <1>11, <2>1, <2>2 DEF CheckUser, LooksAtUser, Rest
<1>12. CASE WriteSkip(w)
  BY <1>5, <1>6, <1>12 DEF WriteSkip, SkipsLate, Rest
<1>13. CASE Trade(w)
  <2>1. PICK result \in {"completed", "error"} :
          Goto(w, [ticks[w] EXCEPT !.at = "record", !.result = result])
    BY <1>13 DEF Trade
  <2>2. [ticks[w] EXCEPT !.at = "record", !.result = result]
        = [ticks[w] EXCEPT !.at = "record", !.window = ticks[w].window, !.result = result]
    BY <1>1 DEF Tick
  <2>3. MovesOn(w, "record", ticks[w].window) /\ Rest
    BY <1>3, <2>1, <2>2
  <2> QED BY <1>13, <2>3 DEF Trade, Trades, Rest
<1>14. CASE Record(w)
  <2> DEFINE row == [kind |-> ticks[w].kind, window |-> ticks[w].window]
  <2>1. log' = [log EXCEPT ![ticks[w].profile] = Append(@, row)]
    BY <1>14 DEF Record
  <2> HIDE DEF row
  <2>2. \A p \in Profiles : log'[p] = IF p = ticks[w].profile THEN Append(log[p], row) ELSE log[p]
    BY <2>1 DEF TypeInv, LogOK
  <2>3. Appends(w)
    BY <2>2 DEF Appends, row
  <2> QED BY <1>4, <1>14, <2>3 DEF Record, Records, Rest
<1>15. CASE Finish(w)
  <2>1. ticks[w].result \in {"none", "completed", "error"}
    BY <1>1 DEF Tick
  <2>2. Writes(w, ticks[w].result) /\ Leaves(w) /\ Rest
    BY <1>5, <1>6, <1>15 DEF Finish
  <2> QED BY <1>15, <2>1, <2>2 DEF Finish, Finishes, Rest
<1> QED BY <1>7, <1>8, <1>9, <1>10, <1>11, <1>12, <1>13, <1>14, <1>15 DEF Step

(***************************************************************************)
(* Claims are released                                                     *)
(***************************************************************************)

\* Whatever the number of checks and their interleaving, a latch says
\* "running" only while a check holds it, as long as no check has died.
THEOREM ClaimsReleased == Spec => []ClaimReleased
<1>1. Init => ClaimReleased
  BY DEF Init, ClaimReleased
<1>2. ASSUME TypeInv, ClaimReleased, [Next]_vars PROVE ClaimReleased'
  <2> DEFINE Running(p) == latch[p].result = "running"
  <2>1. ASSUME NEW p \in Profiles, latch'[p] = latch[p], spent'["crash"] = spent["crash"],
               \A w \in Workers : Holds(w, p) => Holds(w, p)'
        PROVE  spent'["crash"] = 0 /\ Running(p)' => \E w \in Workers : Holds(w, p)'
    BY <1>2, <2>1 DEF ClaimReleased
  <2>2. ASSUME UNCHANGED <<ticks, latch>>, spent'["crash"] = spent["crash"]
        PROVE  ClaimReleased'
    BY <1>2, <2>2 DEF ClaimReleased, Holds
  <2>3. CASE Advance
    BY <2>2, <2>3 DEF Advance
  <2>4. ASSUME NEW p \in Profiles, Edit(p) \/ ManualRun(p) PROVE ClaimReleased'
    BY <1>2, <2>2, <2>4 DEF Edit, ManualRun, Spend, TypeInv, RestOK, Events
  <2>5. ASSUME NEW w \in Workers, NEW kind \in Kinds, Begin(w, kind) PROVE ClaimReleased'
    <3>1. spent'["crash"] = spent["crash"]
      BY <1>2, <2>5 DEF Begin, Spend, Kinds, TypeInv, RestOK, Events
    <3>2. \A p \in Profiles, v \in Workers : Holds(v, p) => v # w
      BY <2>5 DEF Begin, Holds
    <3>3. \A p \in Profiles, v \in Workers : Holds(v, p) => Holds(v, p)'
      BY <1>2, <2>5, <3>2 DEF Begin, Holds, TypeInv, TicksOK
    <3>4. UNCHANGED latch
      BY <2>5 DEF Begin
    <3> QED BY <1>2, <3>1, <3>3, <3>4 DEF ClaimReleased
  <2>6. ASSUME NEW w \in Workers, Crash(w) PROVE ClaimReleased'
    BY <1>2, <2>6 DEF Crash, Spend, ClaimReleased, TypeInv, RestOK, Events
  <2>7. ASSUME NEW w \in Workers, Step(w), \A v \in Workers : v # w => ticks'[v] = ticks[v],
               UNCHANGED spent,
               \A p \in Profiles :
                 \/ latch'[p] = latch[p] /\ (Holds(w, p) => Holds(w, p)')
                 \/ latch'[p].result # "running"
                 \/ Holds(w, p)'
        PROVE  ClaimReleased'
    <3> SUFFICES ASSUME NEW p \in Profiles, spent["crash"] = 0, Running(p)'
                 PROVE  \E v \in Workers : Holds(v, p)'
      BY <2>7 DEF ClaimReleased
    <3>1. CASE Holds(w, p)'
      BY <3>1
    <3>2. CASE latch'[p] = latch[p] /\ (Holds(w, p) => Holds(w, p)')
      <4>1. PICK v \in Workers : Holds(v, p)
        BY <1>2, <3>2 DEF ClaimReleased
      <4> QED BY <2>7, <3>2, <4>1 DEF Holds
    <3> QED BY <2>7, <3>1, <3>2
  <2> DEFINE Others(w) == \A v \in Workers : v # w => ticks'[v] = ticks[v]
  <2> DEFINE Kept(w) == \A p \in Profiles : Holds(w, p) => Holds(w, p)'
  <2>8. ASSUME NEW w \in Workers, NEW r, Goto(w, r)
        PROVE  Others(w) /\ UNCHANGED spent /\ ticks'[w] = r
    BY <1>2, <2>8 DEF Goto, TypeInv, TicksOK
  <2>9. ASSUME NEW w \in Workers, NextProfile(w)
        PROVE  Others(w) /\ UNCHANGED spent
    BY <2>8, <2>9 DEF NextProfile
  <2>10. ASSUME NEW w \in Workers, NEW result, WriteLatch(w, result), ticks[w].profile \in Profiles
         PROVE  /\ latch'[ticks[w].profile].result = result
                /\ \A p \in Profiles : p # ticks[w].profile => latch'[p] = latch[p]
    BY <1>2, <2>10 DEF WriteLatch, TypeInv, LatchOK
  <2>11. ASSUME NEW w \in Workers PROVE ticks[w] \in Tick /\ ticks[w].profile \in Profiles
    BY <1>2 DEF TypeInv, TicksOK, Tick
  \* A check that leaves a profile overwrites its claim.
  <2>12. ASSUME NEW w \in Workers, Step(w), NextProfile(w), NEW result, result # "running",
                WriteLatch(w, result)
         PROVE  ClaimReleased'
    BY <2>7, <2>9, <2>10, <2>11, <2>12 DEF Holds
  \* A check that moves on in the same profile still holds it.
  <2>13. ASSUME NEW w \in Workers, NEW r, Goto(w, r), UNCHANGED latch, Step(w),
                r.profile = ticks[w].profile,
                r.at \in {"user", "skip", "trade", "record", "finish"}
                  \/ ticks[w].at \notin {"user", "skip", "trade", "record", "finish"}
         PROVE  ClaimReleased'
    BY <2>7, <2>8, <2>13 DEF Holds
  <2>14. ASSUME NEW w \in Workers, Step(w) PROVE ClaimReleased'
    <3>1. CASE SkipEarly(w) \/ WriteSkip(w)
      BY <2>12, <2>14, <3>1 DEF SkipEarly, WriteSkip
    <3>2. CASE Finish(w)
      <4>1. ticks[w].result # "running"
        BY <2>11 DEF Tick
      <4> QED BY <2>12, <2>14, <3>2, <4>1 DEF Finish
    <3>3. CASE EnterWindow(w)
      <4> DEFINE r == [ticks[w] EXCEPT !.at = "lookup",
                         !.window = Window(ticks[w].now, ticks[w].seen[ticks[w].profile])]
      <4>1. r.profile = ticks[w].profile
        BY <2>11 DEF Tick
      <4>2. Goto(w, r) /\ UNCHANGED latch /\ ticks[w].at = "check"
        BY <3>3 DEF EnterWindow
      <4> HIDE DEF r
      <4> QED BY <2>13, <2>14, <4>1, <4>2
    <3>4. CASE Lookup(w)
      <4>1. PICK at : Goto(w, [ticks[w] EXCEPT !.at = at])
        BY <3>4 DEF Lookup
      <4>2. [ticks[w] EXCEPT !.at = at].profile = ticks[w].profile
        BY <2>11 DEF Tick
      <4>3. UNCHANGED latch /\ ticks[w].at = "lookup"
        BY <3>4 DEF Lookup
      <4> QED BY <2>13, <2>14, <4>1, <4>2, <4>3
    <3>5. CASE CheckUser(w)
      <4>1. PICK at \in {"trade", "skip"} : Goto(w, [ticks[w] EXCEPT !.at = at])
        BY <3>5 DEF CheckUser
      <4>2. /\ [ticks[w] EXCEPT !.at = at].profile = ticks[w].profile
            /\ [ticks[w] EXCEPT !.at = at].at = at
        BY <2>11 DEF Tick
      <4>3. UNCHANGED latch
        BY <3>5 DEF CheckUser
      <4> QED BY <2>13, <2>14, <4>1, <4>2, <4>3
    <3>6. CASE Trade(w)
      <4>1. PICK result : Goto(w, [ticks[w] EXCEPT !.at = "record", !.result = result])
        BY <3>6 DEF Trade
      <4>2. /\ [ticks[w] EXCEPT !.at = "record", !.result = result].profile = ticks[w].profile
            /\ [ticks[w] EXCEPT !.at = "record", !.result = result].at = "record"
        BY <2>11 DEF Tick
      <4>3. UNCHANGED latch
        BY <3>6 DEF Trade
      <4> QED BY <2>13, <2>14, <4>1, <4>2, <4>3
    <3>7. CASE Record(w)
      <4>1. Goto(w, [ticks[w] EXCEPT !.at = "finish"]) /\ UNCHANGED latch
        BY <3>7 DEF Record
      <4>2. /\ [ticks[w] EXCEPT !.at = "finish"].profile = ticks[w].profile
            /\ [ticks[w] EXCEPT !.at = "finish"].at = "finish"
        BY <2>11 DEF Tick
      <4> QED BY <2>13, <2>14, <4>1, <4>2
    <3>8. CASE Claim(w)
      <4>1. ticks[w].at = "claim"
        BY <3>8 DEF Claim
      <4>2. CASE WriteLatch(w, "running") /\ Goto(w, [ticks[w] EXCEPT !.at = "user"])
        <5>1. /\ ticks'[w].profile = ticks[w].profile /\ ticks'[w].at = "user"
              /\ Others(w) /\ UNCHANGED spent
          BY <2>8, <2>11, <4>2 DEF Tick
        <5>2. \A p \in Profiles : p # ticks[w].profile => latch'[p] = latch[p] /\ ~ Holds(w, p)
          BY <2>10, <2>11, <4>2 DEF Holds
        <5>4. \A p \in Profiles : p = ticks[w].profile => Holds(w, p)'
          BY <5>1 DEF Holds
        <5> QED BY <2>7, <2>14, <5>1, <5>2, <5>4
      <4>3. CASE NextProfile(w) /\ UNCHANGED latch
        BY <2>7, <2>9, <2>14, <4>1, <4>3 DEF Holds
      <4> QED BY <3>8, <4>2, <4>3 DEF Claim
    <3> QED BY <2>14, <3>1, <3>2, <3>3, <3>4, <3>5, <3>6, <3>7, <3>8 DEF Step
  <2>15. CASE UNCHANGED vars
    BY <2>2, <2>15 DEF vars
  <2> QED
    BY <1>2, <2>3, <2>4, <2>5, <2>6, <2>14, <2>15 DEF Next
<1> QED
  BY <1>1, <1>2, TypeInvariant, PTL DEF Spec

(***************************************************************************)
(* One check at a time                                                     *)
(***************************************************************************)

OneWorker == \A v, w \in Workers : v = w

\* A check that has looked up the runs of its window and has not recorded its
\* own yet is about to write the first row of the window.  It is the reason
\* why checks must not overlap: another check could write that row first.
Entered(w) == ticks[w].kind = "check" /\ ticks[w].at \in {"claim", "user", "trade", "record"}
NotYetRun(p, window) ==
  Len(log[p]) <= RunLimit =>
    \A i \in DOMAIN log[p] : log[p][i].kind = "check" => log[p][i].window # window

SoloInv ==
  /\ OneRunPerWindow
  /\ \A w \in Workers : Entered(w) => NotYetRun(ticks[w].profile, ticks[w].window)

\* The rows of a profile after a new one is appended.
LEMMA AppendedRow ==
  ASSUME NEW rows \in Seq(RunRow), NEW row \in RunRow
  PROVE  /\ Len(Append(rows, row)) = Len(rows) + 1
         /\ DOMAIN Append(rows, row) = 1..(Len(rows) + 1)
         /\ DOMAIN rows = 1..Len(rows)
         /\ Len(rows) \in Nat
         /\ \A i \in 1..Len(rows) : Append(rows, row)[i] = rows[i]
         /\ Append(rows, row)[Len(rows) + 1] = row
  OBVIOUS

LEMMA LookupFindsRuns ==
  ASSUME TypeInv, NEW p \in Profiles, NEW window, ~ HasRun(p, window)
  PROVE  NotYetRun(p, window)
<1>1. log[p] \in Seq(RunRow) /\ RunLimit \in Nat
  BY SchedulerAssumption DEF TypeInv, LogOK
<1>2. DOMAIN log[p] = 1..Len(log[p]) /\ Len(log[p]) \in Nat
  BY <1>1
<1>3. Len(log[p]) <= RunLimit => \A i \in DOMAIN log[p] : i \in Recent(p)
  BY <1>1, <1>2 DEF Recent
<1> QED
  BY <1>3 DEF HasRun, NotYetRun

LEMMA SoloStep ==
  ASSUME OneWorker, TypeInv, SoloInv, [Next]_vars
  PROVE  SoloInv'
<1>0. ASSUME NEW w \in Workers
      PROVE  ticks[w] \in Tick /\ ticks[w].profile \in Profiles
  BY DEF TypeInv, TicksOK, Tick
\* A step that writes no row and enters no window.
<1>1. ASSUME UNCHANGED log,
             \A w \in Workers : Entered(w)' =>
               /\ Entered(w)
               /\ ticks'[w].profile = ticks[w].profile
               /\ ticks'[w].window = ticks[w].window
      PROVE  SoloInv'
  BY <1>1 DEF SoloInv, OneRunPerWindow, RunsDiffer, NotYetRun
\* One that writes a row that is not of a regular check.
<1>2. ASSUME NEW p \in Profiles, NEW row \in RunRow, row.kind # "check",
             log' = [log EXCEPT ![p] = Append(@, row)],
             \A w \in Workers : Entered(w)' =>
               /\ Entered(w)
               /\ ticks'[w].profile = ticks[w].profile
               /\ ticks'[w].window = ticks[w].window
      PROVE  SoloInv'
  <2>1. log[p] \in Seq(RunRow) /\ RunLimit \in Nat
    BY SchedulerAssumption DEF TypeInv, LogOK
  <2>2. /\ log'[p] = Append(log[p], row)
        /\ \A q \in Profiles : q # p => log'[q] = log[q]
    BY <1>2 DEF TypeInv, LogOK
  <2>3. Len(log'[p]) <= RunLimit => Len(log[p]) <= RunLimit
    BY <2>1, <2>2, AppendedRow
  <2>4. \A i \in DOMAIN log'[p] :
          log'[p][i].kind = "check" => i \in DOMAIN log[p] /\ log'[p][i] = log[p][i]
    BY <1>2, <2>1, <2>2, AppendedRow
  <2>5. OneRunPerWindow'
    <3> SUFFICES ASSUME NEW q \in Profiles, Len(log'[q]) <= RunLimit PROVE RunsDiffer(q)'
      BY DEF OneRunPerWindow
    <3>1. Len(log[q]) <= RunLimit /\ RunsDiffer(q)
      BY <2>2, <2>3 DEF SoloInv, OneRunPerWindow
    <3>2. CASE q = p
      BY <2>4, <3>1, <3>2 DEF RunsDiffer
    <3>3. CASE q # p
      BY <2>2, <3>1, <3>3 DEF RunsDiffer
    <3> QED BY <3>2, <3>3
  <2>6. ASSUME NEW w \in Workers, Entered(w)'
        PROVE  NotYetRun(ticks[w].profile, ticks[w].window)'
    <3> DEFINE q == ticks[w].profile
    <3>1. ticks'[w].profile = q /\ ticks'[w].window = ticks[w].window /\ q \in Profiles
      BY <1>0, <1>2, <2>6
    <3>2. NotYetRun(q, ticks[w].window)
      BY <1>2, <2>6 DEF SoloInv
    <3> HIDE DEF q
    <3>3. NotYetRun(q, ticks[w].window) => (Len(log'[q]) <= RunLimit =>
            \A i \in DOMAIN log'[q] :
              log'[q][i].kind = "check" => log'[q][i].window # ticks'[w].window)
      <4>1. CASE q = p
        BY <2>3, <2>4, <3>1, <4>1 DEF NotYetRun
      <4>2. CASE q # p
        BY <2>2, <3>1, <4>2 DEF NotYetRun
      <4> QED BY <4>1, <4>2
    <3> QED BY <3>1, <3>2, <3>3 DEF NotYetRun
  <2> QED BY <2>5, <2>6 DEF SoloInv
<1>3. ASSUME NEW w \in Workers, NEW r, Goto(w, r) PROVE ticks'[w] = r
  BY <1>3 DEF Goto, TypeInv, TicksOK
<1>4. CASE Advance
  BY <1>1, <1>4 DEF Advance, Entered
<1>5. ASSUME NEW p \in Profiles, Edit(p) PROVE SoloInv'
  BY <1>1, <1>5 DEF Edit, Entered
<1>6. ASSUME NEW p \in Profiles, ManualRun(p) PROVE SoloInv'
  <2> DEFINE row == [kind |-> "manual", window |-> NoWindow]
  <2>1. row \in RunRow /\ row.kind # "check"
    BY DEF RunRow
  <2>2. log' = [log EXCEPT ![p] = Append(@, row)] /\ UNCHANGED ticks
    BY <1>6 DEF ManualRun
  <2> HIDE DEF row
  <2> QED BY <1>2, <2>1, <2>2 DEF Entered
<1>7. ASSUME NEW w \in Workers, UNCHANGED log, ~ Entered(w)' PROVE SoloInv'
  BY <1>1, <1>7 DEF OneWorker
<1>8. ASSUME NEW w \in Workers, NEW kind \in Kinds, Begin(w, kind) PROVE SoloInv'
  <2>1. ticks'[w].at = "check"
    BY <1>8 DEF Begin, Idle, TypeInv, TicksOK
  <2> QED BY <1>7, <1>8, <2>1 DEF Begin, Entered
<1>9. ASSUME NEW w \in Workers, Crash(w) PROVE SoloInv'
  <2>1. ticks'[w].at = "idle"
    BY <1>9 DEF Crash, Idle, TypeInv, TicksOK
  <2> QED BY <1>7, <1>9, <2>1 DEF Crash, Entered
<1>10. ASSUME NEW w \in Workers, NextProfile(w), UNCHANGED log PROVE SoloInv'
  <2>1. ticks'[w].at \in {"idle", "check"}
    <3>1. CASE ticks[w].profile = NumProfiles
      BY <1>3, <1>10, <3>1 DEF NextProfile, Idle
    <3>2. CASE ticks[w].profile # NumProfiles
      <4> DEFINE r == [ticks[w] EXCEPT !.at = "check", !.profile = @ + 1,
                                       !.window = NoWindow, !.result = "none"]
      <4>1. Goto(w, r)
        BY <1>10, <3>2 DEF NextProfile
      <4>2. r.at = "check"
        BY <1>0 DEF Tick
      <4> HIDE DEF r
      <4> QED BY <1>3, <4>1, <4>2
    <3> QED BY <3>1, <3>2
  <2> QED BY <1>7, <1>10, <2>1 DEF Entered
<1>11. ASSUME NEW w \in Workers, SkipEarly(w) \/ WriteSkip(w) \/ Finish(w) PROVE SoloInv'
  BY <1>10, <1>11 DEF SkipEarly, WriteSkip, Finish
<1>12. ASSUME NEW w \in Workers, EnterWindow(w) PROVE SoloInv'
  <2>1. ticks'[w].at = "lookup"
    <3> DEFINE window == Window(ticks[w].now, ticks[w].seen[ticks[w].profile])
    <3>1. Goto(w, [ticks[w] EXCEPT !.at = "lookup", !.window = window])
      BY <1>12 DEF EnterWindow
    <3> HIDE DEF window
    <3> QED BY <1>0, <1>3, <3>1 DEF Tick
  <2> QED BY <1>7, <1>12, <2>1 DEF EnterWindow, Entered
<1>13. ASSUME NEW w \in Workers, NEW at, Goto(w, [ticks[w] EXCEPT !.at = at]), UNCHANGED log
       PROVE  /\ ticks'[w].at = at /\ ticks'[w].kind = ticks[w].kind
              /\ ticks'[w].profile = ticks[w].profile
              /\ ticks'[w].window = ticks[w].window
              /\ at \in {"user", "trade", "record"} /\ Entered(w) => SoloInv'
              /\ at \notin {"claim", "user", "trade", "record"} => SoloInv'
              /\ ticks[w].kind # "check" => SoloInv'
  <2>1. /\ ticks'[w].at = at /\ ticks'[w].kind = ticks[w].kind
        /\ ticks'[w].profile = ticks[w].profile
        /\ ticks'[w].window = ticks[w].window
    BY <1>0, <1>3, <1>13 DEF Tick
  <2>2. at \in {"user", "trade", "record"} /\ Entered(w) => SoloInv'
    BY <1>1, <1>13, <2>1 DEF OneWorker
  <2>3. at \notin {"claim", "user", "trade", "record"} => SoloInv'
    BY <1>7, <1>13, <2>1 DEF Entered
  <2>4. ticks[w].kind # "check" => SoloInv'
    BY <1>7, <1>13, <2>1 DEF Entered
  <2> QED BY <2>1, <2>2, <2>3, <2>4
<1>14. ASSUME NEW w \in Workers, Lookup(w) PROVE SoloInv'
  <2>1. PICK at \in {"skip", "user", "claim"} :
          /\ Goto(w, [ticks[w] EXCEPT !.at = at])
          /\ at = "user" => ticks[w].kind = "force"
          /\ at = "claim" /\ ticks[w].kind = "check" => ~ HasRun(ticks[w].profile, ticks[w].window)
    BY <1>14 DEF Lookup
  <2>2. UNCHANGED log
    BY <1>14 DEF Lookup
  <2>3. CASE at # "claim" \/ ticks[w].kind # "check"
    BY <1>13, <2>1, <2>2, <2>3
  <2>4. CASE at = "claim" /\ ticks[w].kind = "check"
    <3>1. NotYetRun(ticks[w].profile, ticks[w].window)
      BY <1>0, <2>1, <2>4, LookupFindsRuns
    <3>2. ticks'[w].profile = ticks[w].profile /\ ticks'[w].window = ticks[w].window
      BY <1>13, <2>1, <2>2
    <3>3. \A v \in Workers : NotYetRun(ticks[v].profile, ticks[v].window)'
      BY <2>2, <3>1, <3>2 DEF NotYetRun, OneWorker
    <3> QED BY <2>2, <3>3 DEF SoloInv, OneRunPerWindow, RunsDiffer
  <2> QED BY <2>3, <2>4
<1>15. ASSUME NEW w \in Workers, Claim(w) PROVE SoloInv'
  <2>1. CASE Goto(w, [ticks[w] EXCEPT !.at = "user"])
    <3>1. UNCHANGED log /\ ticks[w].at = "claim"
      BY <1>15 DEF Claim
    <3> QED BY <1>13, <2>1, <3>1 DEF Entered
  <2>2. CASE NextProfile(w)
    BY <1>10, <1>15, <2>2 DEF Claim
  <2> QED BY <1>15, <2>1, <2>2 DEF Claim
<1>16. ASSUME NEW w \in Workers, CheckUser(w) PROVE SoloInv'
  <2>1. PICK at \in {"skip", "trade"} : Goto(w, [ticks[w] EXCEPT !.at = at])
    BY <1>16 DEF CheckUser
  <2>2. UNCHANGED log /\ ticks[w].at = "user"
    BY <1>16 DEF CheckUser
  <2> QED BY <1>13, <2>1, <2>2 DEF Entered
<1>17. ASSUME NEW w \in Workers, Trade(w) PROVE SoloInv'
  <2>1. PICK result \in {"completed", "error"} :
          Goto(w, [ticks[w] EXCEPT !.at = "record", !.result = result])
    BY <1>17 DEF Trade
  <2>2. UNCHANGED log /\ ticks[w].at = "trade"
    BY <1>17 DEF Trade
  <2>3. /\ ticks'[w].at = "record" /\ ticks'[w].kind = ticks[w].kind
        /\ ticks'[w].profile = ticks[w].profile
        /\ ticks'[w].window = ticks[w].window
    BY <1>0, <1>3, <2>1 DEF Tick
  <2> QED BY <1>1, <2>2, <2>3 DEF Entered, OneWorker
<1>18. ASSUME NEW w \in Workers, Record(w) PROVE SoloInv'
  <2>0. PICK p \in Profiles : p = ticks[w].profile
    BY <1>0
  <2> DEFINE row == [kind |-> ticks[w].kind, window |-> ticks[w].window]
  <2>1. row \in RunRow /\ row.kind = ticks[w].kind /\ row.window = ticks[w].window
    BY <1>0 DEF RunRow, Tick
  <2>2. log' = [log EXCEPT ![p] = Append(@, row)] 
    BY <2>0, <1>18 DEF Record
  <2>3. ticks'[w].at = "finish"
    BY <1>0, <1>3, <1>18 DEF Record, Tick
  <2>4. \A v \in Workers : ~ Entered(v)'
    BY <2>3 DEF Entered, OneWorker
  <2> HIDE DEF row
  <2>5. CASE ticks[w].kind # "check"
    BY <1>2, <2>1, <2>2, <2>4, <2>5
  <2>6. CASE ticks[w].kind = "check"
    <3>1. NotYetRun(p, row.window)
      BY <1>18, <2>0, <2>1, <2>6 DEF Record, Entered, SoloInv
    <3>2. log[p] \in Seq(RunRow) /\ RunLimit \in Nat
      BY <2>2, SchedulerAssumption DEF TypeInv, LogOK
    <3>3. /\ log'[p] = Append(log[p], row)
          /\ \A q \in Profiles : q # p => log'[q] = log[q]
      BY <2>2 DEF TypeInv, LogOK
    <3>4. SUFFICES ASSUME Len(log'[p]) <= RunLimit PROVE RunsDiffer(p)'
      <4>1. ASSUME NEW q \in Profiles, q # p, Len(log'[q]) <= RunLimit PROVE RunsDiffer(q)'
        BY <3>3, <4>1 DEF SoloInv, OneRunPerWindow, RunsDiffer
      <4>2. (Len(log'[p]) <= RunLimit => RunsDiffer(p)') => OneRunPerWindow'
        BY <4>1 DEF OneRunPerWindow
      <4> QED BY <2>4, <4>2 DEF SoloInv
    <3>5. Len(log[p]) <= RunLimit /\ RunsDiffer(p)
      BY <2>1, <2>2, <3>2, <3>3, <3>4, AppendedRow DEF SoloInv, OneRunPerWindow
    <3>6. \A i \in DOMAIN log'[p] :
            \/ i \in DOMAIN log[p] /\ log'[p][i] = log[p][i]
            \/ i = Len(log[p]) + 1 /\ log'[p][i] = row
      BY <2>1, <3>2, <3>3, AppendedRow
    <3>7. \A i \in DOMAIN log[p] : log[p][i].kind = "check" => log[p][i].window # row.window
      BY <3>1, <3>5 DEF NotYetRun
    <3>8. ASSUME NEW i \in DOMAIN log'[p], NEW j \in DOMAIN log'[p], i # j,
                 log'[p][i].kind = "check", log'[p][j].kind = "check"
          PROVE  log'[p][i].window # log'[p][j].window
      BY <3>5, <3>6, <3>7, <3>8 DEF RunsDiffer
    <3>9. RunsDiffer(p) => \A i, j \in DOMAIN log'[p] :
            i # j /\ log'[p][i].kind = "check" /\ log'[p][j].kind = "check"
              => log'[p][i].window # log'[p][j].window
      BY <3>8
    <3> QED BY <3>5, <3>9 DEF RunsDiffer
  <2> QED BY <2>5, <2>6
<1>19. CASE UNCHANGED vars
  BY <1>1, <1>19 DEF vars, Entered
<1> QED
  BY <1>4, <1>5, <1>6, <1>8, <1>9, <1>11, <1>12, <1>14, <1>15, <1>16, <1>17, <1>18,
    <1>19 DEF Next, Step

\* When checks do not overlap, no window of a profile is run twice by the
\* schedule, whatever checks die, whatever the operator forces, runs dry or
\* edits, and however many profiles there are.
THEOREM WindowsRunOnce == ASSUME OneWorker PROVE Spec => []OneRunPerWindow
<1>1. Init => SoloInv
  BY DEF Init, SoloInv, OneRunPerWindow, RunsDiffer, Entered, Idle
<1>2. TypeInv /\ SoloInv /\ [Next]_vars => SoloInv'
  BY SoloStep
<1>3. SoloInv => OneRunPerWindow
  BY DEF SoloInv
<1> QED
  BY <1>1, <1>2, <1>3, TypeInvariant, PTL DEF Spec

(***************************************************************************)
(* What a window trades                                                    *)
(***************************************************************************)

\* The row that a scheduled run of the window has left, whether or not the
\* lookup of a check sees it.
Ran(p, window) ==
  \E i \in DOMAIN log[p] : log[p][i].kind \in {"check", "force"} /\ log[p][i].window = window
FewRows(p) == Len(log[p]) <= RunLimit

LEMMA FewRowsSeen ==
  ASSUME TypeInv, NEW p \in Profiles, FewRows(p), NEW window
  PROVE  HasRun(p, window) <=> Ran(p, window)
<1>1. log[p] \in Seq(RunRow) /\ RunLimit \in Nat
  BY SchedulerAssumption DEF TypeInv, LogOK
<1>2. DOMAIN log[p] = 1..Len(log[p]) /\ Len(log[p]) \in Nat
  BY <1>1
<1>3. \A i \in DOMAIN log[p] : i \in Recent(p)
  BY <1>1, <1>2 DEF Recent, FewRows
<1>4. \A i \in Recent(p) : i \in DOMAIN log[p]
  BY DEF Recent
<1> QED BY <1>3, <1>4 DEF HasRun, Ran

LEMMA RowAdded ==
  ASSUME TypeInv, NEW p \in Profiles, NEW row \in RunRow, log'[p] = Append(log[p], row)
  PROVE  /\ FewRows(p)' => FewRows(p)
         /\ \A window : Ran(p, window)' <=>
              Ran(p, window) \/ (row.kind \in {"check", "force"} /\ row.window = window)
<1>1. log[p] \in Seq(RunRow) /\ RunLimit \in Nat
  BY SchedulerAssumption DEF TypeInv, LogOK
<1>2. /\ Len(log'[p]) = Len(log[p]) + 1 /\ Len(log[p]) \in Nat
      /\ DOMAIN log'[p] = 1..(Len(log[p]) + 1) /\ DOMAIN log[p] = 1..Len(log[p])
      /\ \A i \in 1..Len(log[p]) : log'[p][i] = log[p][i]
      /\ log'[p][Len(log[p]) + 1] = row
  BY <1>1, AppendedRow
<1>3. FewRows(p)' => FewRows(p)
  BY <1>1, <1>2 DEF FewRows
<1>4. ASSUME NEW window PROVE
        Ran(p, window)' <=>
          Ran(p, window) \/ (row.kind \in {"check", "force"} /\ row.window = window)
  <2>1. Ran(p, window)' <=>
          \E i \in 1..(Len(log[p]) + 1) :
            log'[p][i].kind \in {"check", "force"} /\ log'[p][i].window = window
    BY <1>2 DEF Ran
  <2>2. \A i \in 1..(Len(log[p]) + 1) : i \in 1..Len(log[p]) \/ i = Len(log[p]) + 1
    BY <1>2
  <2>3. Len(log[p]) + 1 \in 1..(Len(log[p]) + 1) /\ 1..Len(log[p]) \subseteq 1..(Len(log[p]) + 1)
    BY <1>2
  <2>4. Ran(p, window) <=>
          \E i \in 1..Len(log[p]) :
            log'[p][i].kind \in {"check", "force"} /\ log'[p][i].window = window
    BY <1>2 DEF Ran
  <2> QED BY <1>2, <2>1, <2>2, <2>3, <2>4
<1> QED BY <1>3, <1>4

\* The checks that may have traded without leaving a row behind, or that may
\* trade although there is one.
Losses == spent["crash"] + spent["force"]

\* A forced check that may still trade for the profile.
Forcing(w, p) ==
  /\ ticks[w].kind = "force" /\ ticks[w].at # "idle"
  /\ ticks[w].profile < p \/ (ticks[w].profile = p /\ ticks[w].at \notin {"record", "finish"})

\* The row that goes with a trade of the window is there or about to be written.
Explained(w, p, window) ==
  \/ Ran(p, window)
  \/ /\ ticks[w].kind = "check" /\ ticks[w].at = "record"
     /\ ticks[w].profile = p /\ ticks[w].window = window

Accounted(w, p, window) ==
  /\ traded[p][window] <= Losses + 1
  /\ Forcing(w, p) \/ ~ Explained(w, p, window) => traded[p][window] <= Losses
  /\ Forcing(w, p) /\ ~ Explained(w, p, window) => traded[p][window] + 1 <= Losses

\* Between its lookup and its trades a check knows that the window was not run.
StillFirst(w) ==
  /\ ticks[w].kind = "check" /\ ticks[w].at \in {"claim", "user", "trade"}
  /\ FewRows(ticks[w].profile)
  => ~ Ran(ticks[w].profile, ticks[w].window)

TradeInv(w) ==
  /\ StillFirst(w)
  /\ \A p \in Profiles : FewRows(p) => \A window \in Windows : Accounted(w, p, window)

LEMMA LossesTyped == ASSUME TypeInv PROVE Losses \in Nat
  BY DEF TypeInv, RestOK, Events, Losses

LEMMA TradeInit == ASSUME Init, NEW w \in Workers PROVE TradeInv(w)
<1>1. Losses = 0
  BY DEF Init, Losses, Events
<1>2. \A p \in Profiles, window \in Windows : traded[p][window] = 0 /\ ~ Forcing(w, p)
  BY DEF Init, Forcing, Idle
<1> QED BY <1>1, <1>2 DEF Init, TradeInv, Accounted, StillFirst, Idle

\* A step that trades nothing keeps the account if it starts no forced check and
\* takes no explanation away ...
LEMMA AccountKept ==
  ASSUME TypeInv, NEW w \in Workers, NEW p \in Profiles, NEW window \in Windows,
         Accounted(w, p, window), traded'[p][window] = traded[p][window], Losses' = Losses,
         Forcing(w, p)' => Forcing(w, p), Explained(w, p, window) => Explained(w, p, window)'
  PROVE  Accounted(w, p, window)'
  BY DEF Accounted

\* ... or if it is one of the losses.
LEMMA LossCounted ==
  ASSUME TypeInv, NEW w \in Workers, NEW p \in Profiles, NEW window \in Windows,
         Accounted(w, p, window), traded'[p][window] = traded[p][window], Losses' = Losses + 1,
         \/ ~ Forcing(w, p)'
         \/ ~ Forcing(w, p) /\ (Explained(w, p, window) => Explained(w, p, window)')
  PROVE  Accounted(w, p, window)'
<1>1. Losses \in Nat /\ traded[p][window] \in Nat
  BY LossesTyped DEF TypeInv, TradedOK
<1> QED BY <1>1 DEF Accounted

LEMMA TradeStep ==
  ASSUME TypeInv, NEW w, Workers = {w}, TradeInv(w), [Next]_vars
  PROVE  TradeInv(w)'
<1>1. /\ w \in Workers /\ ticks[w] \in Tick /\ ticks[w].profile \in Profiles
      /\ ticks[w].at \notin {"idle", "check"} => ticks[w].window \in Windows
      /\ Losses \in Nat /\ \A p \in Profiles : p \in Nat
  BY LossesTyped DEF TypeInv, TicksOK, TickOK, Tick, Profiles
\* A step of the check, or none, that adds no row and trades nothing.
<1>2. ASSUME UNCHANGED <<log, traded, spent>>, StillFirst(w)',
             \A p \in Profiles : Forcing(w, p)' => Forcing(w, p),
             ticks[w].at # "record" \/ UNCHANGED ticks
      PROVE  TradeInv(w)'
  <2>1. \A p, window : /\ FewRows(p)' = FewRows(p) /\ Ran(p, window)' = Ran(p, window)
                       /\ Losses' = Losses
    BY <1>2 DEF FewRows, Ran, Losses
  <2>2. \A p, window : Explained(w, p, window) => Explained(w, p, window)'
    BY <1>2, <2>1 DEF Explained
  <2> QED BY <1>1, <1>2, <2>1, <2>2, AccountKept DEF TradeInv
<1>3. CASE UNCHANGED <<log, traded, ticks, spent>>
  <2>1. StillFirst(w)'
    BY <1>3 DEF TradeInv, StillFirst, FewRows, Ran
  <2>2. \A p : Forcing(w, p)' => Forcing(w, p)
    BY <1>3 DEF Forcing
  <2> QED BY <1>2, <1>3, <2>1, <2>2
<1>4. ASSUME NEW event \in {"edit", "manual", "dryRun"}, Spend(event)
      PROVE  Losses' = Losses
  BY <1>4 DEF Losses, Spend, TypeInv, RestOK, Events
<1>5. ASSUME NEW event \in {"crash", "force"}, Spend(event)
      PROVE  Losses' = Losses + 1
  BY <1>5 DEF Losses, Spend, TypeInv, RestOK, Events
\* One that leaves the local variables of the check alone, or begins a check.
<1>6. ASSUME UNCHANGED <<log, traded>>, Losses' = Losses, StillFirst(w)',
             \A p \in Profiles : Forcing(w, p)' => Forcing(w, p),
             \/ UNCHANGED ticks
             \/ ticks[w].at = "idle"
      PROVE  TradeInv(w)'
  <2>1. \A p, window : FewRows(p)' = FewRows(p) /\ Ran(p, window)' = Ran(p, window)
    BY <1>6 DEF FewRows, Ran
  <2>2. \A p, window : Explained(w, p, window) => Explained(w, p, window)'
    BY <1>6, <2>1 DEF Explained
  <2> QED BY <1>1, <1>6, <2>1, <2>2, AccountKept DEF TradeInv
<1>7. CASE Advance
  BY <1>3, <1>7 DEF Advance
<1>8. ASSUME NEW p \in Profiles, Edit(p) PROVE TradeInv(w)'
  <2>1. UNCHANGED <<log, traded, ticks>> /\ Losses' = Losses
    BY <1>4, <1>8 DEF Edit
  <2>2. StillFirst(w)' /\ \A q : Forcing(w, q)' => Forcing(w, q)
    BY <2>1 DEF TradeInv, StillFirst, FewRows, Ran, Forcing
  <2> QED BY <1>6, <2>1, <2>2
<1>9. ASSUME NEW p \in Profiles, ManualRun(p) PROVE TradeInv(w)'
  <2>1. PICK row \in RunRow : row.kind = "manual" /\ log' = [log EXCEPT ![p] = Append(@, row)]
    BY <1>9 DEF ManualRun, RunRow
  <2>2. UNCHANGED <<traded, ticks>> /\ Losses' = Losses
    BY <1>4, <1>9 DEF ManualRun
  <2>3. /\ log'[p] = Append(log[p], row)
        /\ \A q \in Profiles \ {p} : log'[q] = log[q]
    BY <2>1 DEF TypeInv, LogOK
  <2>4. \A q \in Profiles : /\ FewRows(q)' => FewRows(q)
                            /\ \A window : Ran(q, window)' = Ran(q, window)
    <3>1. ASSUME NEW q \in Profiles \ {p}, NEW window
          PROVE  FewRows(q)' = FewRows(q) /\ Ran(q, window)' = Ran(q, window)
      BY <2>3 DEF FewRows, Ran
    <3>2. FewRows(p)' => FewRows(p)
      BY <2>3, RowAdded
    <3>3. ASSUME NEW window PROVE Ran(p, window)' = Ran(p, window)
      <4>1. Ran(p, window)' <=> Ran(p, window)
        BY <2>1, <2>3, RowAdded
      <4> QED BY <4>1 DEF Ran
    <3> QED BY <3>1, <3>2, <3>3
  <2>5. StillFirst(w)'
    BY <1>1, <2>2, <2>4 DEF TradeInv, StillFirst
  <2>6. \A q \in Profiles, window \in Windows :
          /\ Forcing(w, q)' => Forcing(w, q)
          /\ Explained(w, q, window) => Explained(w, q, window)'
    BY <2>2, <2>4 DEF Forcing, Explained
  <2> QED BY <1>1, <2>2, <2>4, <2>5, <2>6, AccountKept DEF TradeInv
<1>10. ASSUME NEW kind \in Kinds, Begin(w, kind) PROVE TradeInv(w)'
  <2>1. /\ UNCHANGED <<log, traded>> /\ ticks[w].at = "idle"
        /\ ticks'[w].at = "check" /\ ticks'[w].kind = kind
    BY <1>10 DEF Begin, Idle, TypeInv, TicksOK
  <2>2. StillFirst(w)'
    BY <2>1 DEF StillFirst
  <2>3. CASE kind = "force"
    <3>1. Losses' = Losses + 1
      BY <1>5, <1>10, <2>3 DEF Begin
    <3>2. \A p, window : /\ FewRows(p)' = FewRows(p) /\ ~ Forcing(w, p)
                         /\ Explained(w, p, window) => Explained(w, p, window)'
      BY <2>1 DEF FewRows, Ran, Forcing, Explained
    <3> QED BY <1>1, <2>1, <2>2, <3>1, <3>2, LossCounted DEF TradeInv
  <2>4. CASE kind # "force"
    <3>1. Losses' = Losses
      <4>1. CASE kind = "check"
        BY <1>10, <4>1 DEF Begin, Losses
      <4>2. CASE kind = "dryRun"
        BY <1>4, <1>10, <4>2 DEF Begin
      <4> QED BY <2>4, <4>1, <4>2 DEF Kinds
    <3>2. \A p : ~ Forcing(w, p)'
      BY <2>1, <2>4 DEF Forcing
    <3> QED BY <1>6, <2>1, <2>2, <3>1, <3>2
  <2> QED BY <2>3, <2>4
<1>11. CASE Crash(w)
  <2>1. /\ UNCHANGED <<log, traded>> /\ Losses' = Losses + 1
        /\ ticks'[w].at = "idle"
    BY <1>5, <1>11 DEF Crash, Idle, TypeInv, TicksOK
  <2>2. StillFirst(w)' /\ \A p : FewRows(p)' = FewRows(p) /\ ~ Forcing(w, p)'
    BY <2>1 DEF StillFirst, FewRows, Forcing
  <2> QED BY <1>1, <2>1, <2>2, LossCounted DEF TradeInv
<1>12. CASE Step(w)
  <2>1. UNCHANGED spent /\ Losses' = Losses
    BY <1>1, <1>12, StepEffect DEF Losses
  <2>2. ASSUME Leaves(w), ticks[w].at # "idle"
        PROVE  /\ StillFirst(w)' /\ ticks'[w].at \in {"idle", "check"}
               /\ \A p \in Profiles : Forcing(w, p)' => Forcing(w, p)
    <3>1. CASE ticks'[w] = Idle
      BY <3>1 DEF StillFirst, Forcing, Idle
    <3>2. CASE /\ ticks'[w].at = "check" /\ ticks'[w].profile = ticks[w].profile + 1
               /\ ticks'[w].kind = ticks[w].kind
      BY <1>1, <2>2, <3>2 DEF StillFirst, Forcing
    <3> QED BY <2>2, <3>1, <3>2 DEF Leaves
  <2>3. CASE Skips(w) \/ LosesClaim(w) \/ SkipsLate(w) \/ Finishes(w)
    <3>1. Leaves(w) /\ UNCHANGED <<log, traded>> /\ ticks[w].at \notin {"idle", "record"}
      BY <2>3 DEF Skips, LosesClaim, SkipsLate, Finishes
    <3> QED BY <1>2, <2>1, <2>2, <3>1
  <2>4. ASSUME NEW at, NEW window, MovesOn(w, at, window), ticks[w].at \notin {"idle", "record", "finish"}
        PROVE  \A p \in Profiles : Forcing(w, p)' => Forcing(w, p)
    BY <2>4 DEF MovesOn, Forcing
  <2>5. CASE Enters(w)
    <3>1. PICK window : MovesOn(w, "lookup", window)
      BY <2>5 DEF Enters
    <3>2. ticks[w].at = "check" /\ UNCHANGED <<log, traded>>
      BY <2>5 DEF Enters
    <3>3. StillFirst(w)'
      BY <3>1 DEF StillFirst, MovesOn
    <3> QED BY <1>2, <2>1, <2>4, <3>1, <3>2, <3>3
  <2>6. CASE LooksUp(w)
    <3>1. PICK at, window : /\ MovesOn(w, at, window) /\ window = ticks[w].window
                            /\ at \in {"skip", "user", "claim"}
                            /\ at = "user" => ticks[w].kind = "force"
                            /\ at = "claim" => ~ HasRun(ticks[w].profile, window)
      BY <2>6 DEF LooksUp
    <3>2. ticks[w].at = "lookup" /\ UNCHANGED <<log, traded>>
      BY <2>6 DEF LooksUp
    <3>3. StillFirst(w)'
      <4>1. PICK p \in Profiles : p = ticks[w].profile
        BY <1>1
      <4>2. FewRows(p) /\ at = "claim" => ~ Ran(p, window)
        BY <3>1, <4>1, FewRowsSeen
      <4>3. FewRows(p)' = FewRows(p) /\ Ran(p, window)' = Ran(p, window)
        BY <3>2 DEF FewRows, Ran
      <4>4. /\ ticks'[w].at = at /\ ticks'[w].profile = p /\ ticks'[w].window = window
            /\ ticks'[w].kind = ticks[w].kind
        BY <3>1, <4>1 DEF MovesOn
      <4> QED BY <3>1, <4>2, <4>3, <4>4 DEF StillFirst
    <3> QED BY <1>2, <2>1, <2>4, <3>1, <3>2, <3>3
  <2>7. CASE WinsClaim(w) \/ LooksAtUser(w)
    <3>1. PICK at, window : /\ MovesOn(w, at, window) /\ window = ticks[w].window
                            /\ at \in {"user", "trade", "skip"}
      BY <2>7 DEF WinsClaim, LooksAtUser
    <3>2. ticks[w].at \in {"claim", "user"} /\ UNCHANGED <<log, traded>>
      BY <2>7 DEF WinsClaim, LooksAtUser
    <3>3. StillFirst(w)'
      BY <3>1, <3>2 DEF TradeInv, StillFirst, MovesOn, FewRows, Ran
    <3> QED BY <1>2, <2>1, <2>4, <3>1, <3>2, <3>3
  <2>8. CASE Trades(w)
    <3>1. PICK q \in Profiles, win \in Windows : q = ticks[w].profile /\ win = ticks[w].window
      BY <1>1, <2>8 DEF Trades
    <3>2. /\ ticks[w].at = "trade" /\ UNCHANGED log /\ MovesOn(w, "record", win)
          /\ \/ UNCHANGED traded
             \/ /\ ticks[w].kind # "dryRun" /\ traded' = [traded EXCEPT ![q][win] = @ + 1]
      BY <2>8, <3>1 DEF Trades
    <3>3. StillFirst(w)'
      BY <3>2 DEF StillFirst, MovesOn
    <3>4. \A p, window : FewRows(p)' = FewRows(p) /\ Ran(p, window)' = Ran(p, window)
      BY <3>2 DEF FewRows, Ran
    <3>5. \A p \in Profiles, window \in Windows :
            /\ Forcing(w, p)' => Forcing(w, p)
            /\ Explained(w, p, window) => Explained(w, p, window)'
      BY <2>4, <3>2, <3>4 DEF Explained
    <3>6. CASE UNCHANGED traded
      BY <1>1, <2>1, <3>3, <3>4, <3>5, <3>6, AccountKept DEF TradeInv
    <3>7. CASE ticks[w].kind # "dryRun" /\ traded' = [traded EXCEPT ![q][win] = @ + 1]
      <4>1. ASSUME NEW p \in Profiles, NEW window \in Windows, FewRows(p)
            PROVE  Accounted(w, p, window)'
        <5>1. CASE p = q /\ window = win
          <6>1. traded[q][win] \in Nat /\ traded'[q][win] = traded[q][win] + 1
            BY <3>7 DEF TypeInv, TradedOK
          <6>2. Accounted(w, q, win)
            BY <4>1, <5>1 DEF TradeInv
          <6>3. ~ Forcing(w, q)'
            BY <1>1, <3>1, <3>2 DEF Forcing, MovesOn
          <6>4. CASE ticks[w].kind = "force"
            <7>1. Forcing(w, q)
              BY <3>1, <3>2, <6>4 DEF Forcing
            <7>2. Explained(w, q, win)' <=> Explained(w, q, win)
              BY <3>2, <3>4, <6>4 DEF Explained, MovesOn
            <7> QED BY <1>1, <2>1, <5>1, <6>1, <6>2, <6>3, <7>1, <7>2 DEF Accounted
          <6>5. CASE ticks[w].kind = "check"
            <7>1. ~ Explained(w, q, win)
              BY <3>1, <3>2, <4>1, <5>1, <6>5 DEF Explained, TradeInv, StillFirst
            <7>2. Explained(w, q, win)'
              BY <3>1, <3>2, <6>5 DEF Explained, MovesOn
            <7> QED BY <1>1, <2>1, <5>1, <6>1, <6>2, <6>3, <7>1, <7>2 DEF Accounted
          <6> QED BY <1>1, <3>7, <6>4, <6>5 DEF Tick, Kinds
        <5>2. CASE p # q \/ window # win
          <6>1. traded'[p][window] = traded[p][window]
            BY <3>7, <5>2 DEF TypeInv, TradedOK
          <6>2. Accounted(w, p, window)
            BY <4>1 DEF TradeInv
          <6> QED BY <1>1, <2>1, <3>5, <6>1, <6>2, AccountKept
        <5> QED BY <5>1, <5>2
      <4> QED BY <3>3, <3>4, <4>1 DEF TradeInv
    <3> QED BY <3>2, <3>6, <3>7
  <2>9. CASE Records(w)
    <3>1. PICK q \in Profiles, win \in Windows : q = ticks[w].profile /\ win = ticks[w].window
      BY <1>1, <2>9 DEF Records
    <3>2. PICK row \in RunRow : row = [kind |-> ticks[w].kind, window |-> win]
      BY <1>1 DEF RunRow, Tick
    <3>3. /\ ticks[w].at = "record" /\ MovesOn(w, "finish", win) /\ UNCHANGED traded
          /\ log'[q] = Append(log[q], row) /\ \A p \in Profiles \ {q} : log'[p] = log[p]
      BY <2>9, <3>1, <3>2 DEF Records, Appends
    <3>4. StillFirst(w)'
      BY <3>3 DEF StillFirst, MovesOn
    <3>5. \A p \in Profiles : FewRows(p)' => FewRows(p)
      <4>1. \A p \in Profiles \ {q} : FewRows(p)' = FewRows(p)
        BY <3>3 DEF FewRows
      <4> QED BY <3>3, <4>1, RowAdded
    <3>6. ASSUME NEW p \in Profiles, NEW window \in Windows, Explained(w, p, window)
          PROVE  Explained(w, p, window)'
      <4>1. CASE p = q
        <5>1. Ran(q, window) \/ (row.kind \in {"check", "force"} /\ row.window = window)
          BY <3>1, <3>2, <3>6, <4>1 DEF Explained
        <5>2. Ran(q, window)'
          BY <3>3, <5>1, RowAdded
        <5> QED BY <4>1, <5>2 DEF Explained
      <4>2. CASE p # q
        BY <3>1, <3>3, <3>6, <4>2 DEF Explained, Ran
      <4> QED BY <4>1, <4>2
    <3>7. \A p \in Profiles : ~ (Forcing(w, p)' /\ ~ Forcing(w, p))
      BY <3>3 DEF MovesOn, Forcing
    <3> QED BY <1>1, <2>1, <3>3, <3>4, <3>5, <3>6, <3>7, AccountKept DEF TradeInv
  <2> QED
    BY <1>1, <1>12, <2>3, <2>5, <2>6, <2>7, <2>8, <2>9, StepEffect
<1>13. CASE UNCHANGED vars
  BY <1>3, <1>13 DEF vars
<1> QED
  BY <1>1, <1>7, <1>8, <1>9, <1>10, <1>11, <1>12, <1>13 DEF Next

\* When checks do not overlap, a window trades a second time only after a check
\* has died between its trades and its row, or was forced, however many windows,
\* edits, dry runs and manual runs there are.
THEOREM TradesOncePerLoss ==
  ASSUME NEW w, Workers = {w}
  PROVE  Spec => []TradedOncePerCrash
<1>1. Init => TradeInv(w)
  BY TradeInit
<1>2. TypeInv /\ TradeInv(w) /\ [Next]_vars => TradeInv(w)'
  BY TradeStep
<1>3. TypeInv /\ TradeInv(w) => TradedOncePerCrash
  <2> SUFFICES ASSUME TypeInv, TradeInv(w), NEW p \in Profiles, Len(log[p]) <= RunLimit,
                      NEW win \in Windows
               PROVE  traded[p][win] <= 1 + spent["crash"] + spent["force"]
    BY DEF TradedOncePerCrash
  <2>1. traded[p][win] <= Losses + 1
    BY DEF TradeInv, FewRows, Accounted
  <2> QED BY <2>1 DEF Losses, TypeInv, RestOK, TradedOK, Events
<1> QED BY <1>1, <1>2, <1>3, TypeInvariant, PTL DEF Spec

(***************************************************************************)
(* The claim keeps checks apart                                            *)
(***************************************************************************)

\* While nothing disturbs it, the loop is about the first window of the first day.
First == <<0, 0>>

Claimed(w, p) ==
  ticks[w].profile = p /\ ticks[w].at \in {"user", "trade", "record", "finish"}
AtClaim(w, p) == ticks[w].profile = p /\ ticks[w].at = "claim"
AtSkip(w, p)  == ticks[w].profile = p /\ ticks[w].at = "skip"
Running(p)    == latch[p].result = "running"

\* What a check knows, and what the tables say of every profile.
Early(w) ==
  /\ ticks[w].at # "idle" =>
       ticks[w].kind # "force" /\ ticks[w].now <= clock /\ ticks[w].seen = settings
  /\ ticks[w].at \notin {"idle", "check"} => ticks[w].window = First
Ready(p) ==
  /\ settings[p].on /\ settings[p].ready /\ settings[p].approved
  /\ Recorded(p) => Ran(p, First)
  /\ Running(p) => latch[p].window = First

\* A claim stands for as long as the check that won it is under way, unless the
\* skip of another check has overwritten it; but that check has seen the recorded
\* run, and of two processes nobody is left to take the claim.
Exclusive(p) ==
  FewRows(p) /\ (Recorded(p) => AtMostTwo) =>
    /\ \A v, w \in Workers : Claimed(v, p) /\ Claimed(w, p) => v = w
    /\ \A v \in Workers : Claimed(v, p) =>
         Running(p) \/ (Recorded(p) /\ \A w \in Workers : AtClaim(w, p) => w = v)
    /\ \A v \in Workers : AtSkip(v, p) => Recorded(p)

ClaimInv ==
  Undisturbed =>
    /\ \A w \in Workers : Early(w)
    /\ \A p \in Profiles : Ready(p) /\ Exclusive(p)

LEMMA ClaimInit == Init => ClaimInv
<1> SUFFICES ASSUME Init PROVE ClaimInv
  OBVIOUS
<1>1. \A w \in Workers : Early(w) /\ \A p : ~ Claimed(w, p) /\ ~ AtSkip(w, p)
  BY DEF Init, Early, Claimed, AtSkip, Idle
<1>2. \A p \in Profiles : /\ settings[p].on /\ settings[p].ready /\ settings[p].approved
                          /\ ~ Recorded(p) /\ ~ Running(p)
  BY DEF Init, Recorded, Running
<1> QED BY <1>1, <1>2 DEF ClaimInv, Ready, Exclusive

LEMMA FirstDay ==
  ASSUME NEW S \in Nat, NEW D \in Nat \ {0}, S < D, NEW now \in 0..S
  PROVE  now \div D = 0 /\ now % D = now
  BY Z3

\* Nothing becomes undisturbed.
LEMMA DisturbanceStays ==
  ASSUME TypeInv, [Next]_vars, Undisturbed'
  PROVE  Undisturbed /\ UNCHANGED settings /\ clock <= clock'
<1>1. /\ spent \in [Events -> Nat] /\ clock \in Nat /\ StaleAfter \in Nat
      /\ "edit" \in Events /\ "force" \in Events
  BY SchedulerAssumption DEF TypeInv, RestOK, Events
<1>2. \A p \in Profiles : ~ Edit(p)
  BY <1>1 DEF Edit, Spend, Undisturbed
<1>3. UNCHANGED settings
  BY <1>2, StepEffect DEF Next, vars, Advance, ManualRun, Begin, Crash
<1>4. /\ spent'["edit"] = 0 => spent["edit"] = 0
      /\ spent'["force"] = 0 => spent["force"] = 0
  <2>1. ASSUME NEW event \in Events, Spend(event)
        PROVE  \A e \in Events : spent'[e] = 0 => spent[e] = 0
    BY <1>1, <2>1 DEF Spend
  <2>2. CASE UNCHANGED spent
    BY <2>2
  <2>3. UNCHANGED spent \/ \E event \in Events : Spend(event)
    BY <1>2, StepEffect DEF Next, vars, Advance, ManualRun, Begin, Crash, Kinds, Events
  <2> QED BY <1>1, <2>1, <2>2, <2>3
<1>5. clock' = clock \/ clock' = clock + 1
  BY <1>2, StepEffect DEF Next, vars, Advance, ManualRun, Begin, Crash
<1> QED BY <1>1, <1>3, <1>4, <1>5 DEF Undisturbed

\* A step that concerns another profile, or nobody's claim.
LEMMA ExclusiveKept ==
  ASSUME NEW p \in Profiles, Exclusive(p), latch'[p] = latch[p],
         FewRows(p)' => FewRows(p), Recorded(p)' <=> Recorded(p),
         \A v \in Workers : /\ Claimed(v, p)' => Claimed(v, p)
                            /\ AtClaim(v, p)' => AtClaim(v, p)
                            /\ AtSkip(v, p)' => AtSkip(v, p)
  PROVE  Exclusive(p)'
  BY DEF Exclusive, Running

LEMMA ClaimStep ==
  ASSUME StaleAfter < DayLength, TypeInv, ClaimInv, [Next]_vars
  PROVE  ClaimInv'
<1> SUFFICES ASSUME Undisturbed'
             PROVE  /\ \A w \in Workers : Early(w)'
                    /\ \A p \in Profiles : Ready(p)' /\ Exclusive(p)'
  BY DEF ClaimInv
<1>1. /\ Undisturbed /\ UNCHANGED settings /\ clock <= clock'
      /\ \A w \in Workers : Early(w)
      /\ \A p \in Profiles : Ready(p) /\ Exclusive(p)
  BY DisturbanceStays DEF ClaimInv
<1>2. /\ clock \in Nat /\ clock' \in Nat /\ StaleAfter \in Nat /\ DayLength \in Nat \ {0}
      /\ clock <= StaleAfter
      /\ \A w \in Workers : ticks[w] \in Tick /\ ticks[w].profile \in Profiles
      /\ \A w \in Workers : ticks[w].now \in Nat
      /\ log \in [Profiles -> Seq(RunRow)]
  <2>1. TypeInv'
    BY TypeStep
  <2> QED BY <1>1, <2>1, SchedulerAssumption
          DEF TypeInv, RestOK, TicksOK, Tick, LogOK, Undisturbed
\* Of one worker whose locals do not change, of one profile that is left alone.
<1>3. ASSUME NEW w \in Workers, ticks'[w] = ticks[w] PROVE Early(w)'
  BY <1>1, <1>2, <1>3 DEF Early
<1>4. ASSUME NEW p \in Profiles, log'[p] = log[p]
      PROVE  /\ FewRows(p)' = FewRows(p) /\ Recorded(p)' = Recorded(p)
             /\ Ran(p, First)' = Ran(p, First)
  BY <1>4 DEF FewRows, Recorded, Ran
<1>5. ASSUME NEW p \in Profiles, log'[p] = log[p], latch'[p] = latch[p] PROVE Ready(p)'
  BY <1>1, <1>4, <1>5 DEF Ready, Running
<1>6. ASSUME UNCHANGED <<ticks, latch, log>>
      PROVE  /\ \A w \in Workers : Early(w)'
             /\ \A p \in Profiles : Ready(p)' /\ Exclusive(p)'
  <2>1. ASSUME NEW p \in Profiles PROVE Exclusive(p)'
    BY <1>1, <1>4, <1>6, ExclusiveKept DEF Claimed, AtClaim, AtSkip
  <2> QED BY <1>3, <1>5, <1>6, <2>1
<1>7. CASE Advance \/ UNCHANGED vars
  BY <1>6, <1>7 DEF Advance, vars
<1>8. ASSUME NEW q \in Profiles, ManualRun(q)
      PROVE  /\ \A w \in Workers : Early(w)'
             /\ \A p \in Profiles : Ready(p)' /\ Exclusive(p)'
  <2>1. PICK row \in RunRow : row.kind = "manual" /\ log' = [log EXCEPT ![q] = Append(@, row)]
    BY <1>8 DEF ManualRun, RunRow
  <2>2. UNCHANGED <<ticks, latch>>
    BY <1>8 DEF ManualRun
  <2>3. log'[q] = Append(log[q], row) /\ \A p \in Profiles \ {q} : log'[p] = log[p]
    BY <1>2, <2>1
  <2>4. /\ FewRows(q)' => FewRows(q)
        /\ \A window : Ran(q, window)' <=> Ran(q, window)
    BY <2>1, <2>3, RowAdded
  <2>5. \A p \in Profiles : /\ FewRows(p)' => FewRows(p)
                            /\ Ran(p, First)' <=> Ran(p, First)
                            /\ Recorded(p)' <=> Recorded(p)
    <3>1. \A p : Recorded(p) <=> \E window : Ran(p, window)
      BY DEF Recorded, Ran
    <3>2. \A p : Recorded(p)' <=> \E window : Ran(p, window)'
      BY DEF Recorded, Ran
    <3> QED BY <1>4, <2>3, <2>4, <3>1, <3>2
  <2>6. ASSUME NEW p \in Profiles PROVE Ready(p)' /\ Exclusive(p)'
    <3>1. Ready(p)'
      BY <1>1, <2>2, <2>5 DEF Ready, Running
    <3>2. Exclusive(p)'
      BY <1>1, <2>2, <2>5, ExclusiveKept DEF Claimed, AtClaim, AtSkip
    <3> QED BY <3>1, <3>2
  <2> QED BY <1>3, <2>2, <2>6
\* A check that begins or dies claims nothing.
<1>9. ASSUME NEW u \in Workers, \A v \in Workers : v # u => ticks'[v] = ticks[v],
             Early(u)', ticks'[u].at \in {"idle", "check"}, UNCHANGED <<latch, log>>
      PROVE  /\ \A w \in Workers : Early(w)'
             /\ \A p \in Profiles : Ready(p)' /\ Exclusive(p)'
  <2>1. ASSUME NEW p \in Profiles PROVE Exclusive(p)'
    BY <1>1, <1>4, <1>9, ExclusiveKept DEF Claimed, AtClaim, AtSkip
  <2> QED BY <1>3, <1>5, <1>9, <2>1
<1>10. ASSUME NEW u \in Workers, NEW kind \in Kinds, Begin(u, kind)
       PROVE  /\ \A w \in Workers : Early(w)'
              /\ \A p \in Profiles : Ready(p)' /\ Exclusive(p)'
  <2>1. kind # "force"
    BY <1>10 DEF Begin, Spend, Undisturbed, TypeInv, RestOK, Events
  <2>2. /\ ticks'[u].at = "check" /\ ticks'[u].kind = kind /\ ticks'[u].now = clock
        /\ ticks'[u].seen = settings /\ UNCHANGED <<latch, log, clock>>
        /\ \A v \in Workers : v # u => ticks'[v] = ticks[v]
    BY <1>10 DEF Begin, Idle, TypeInv, TicksOK
  <2>3. Early(u)'
    BY <1>1, <1>2, <2>1, <2>2 DEF Early
  <2> QED BY <1>9, <2>2, <2>3
<1>11. ASSUME NEW u \in Workers, Crash(u)
       PROVE  /\ \A w \in Workers : Early(w)'
              /\ \A p \in Profiles : Ready(p)' /\ Exclusive(p)'
  <2>1. /\ ticks'[u].at = "idle" /\ UNCHANGED <<latch, log>>
        /\ \A v \in Workers : v # u => ticks'[v] = ticks[v]
    BY <1>11 DEF Crash, Idle, TypeInv, TicksOK
  <2>2. Early(u)'
    BY <2>1 DEF Early
  <2> QED BY <1>9, <2>1, <2>2
<1>12. ASSUME NEW u \in Workers, Step(u)
       PROVE  /\ \A w \in Workers : Early(w)'
              /\ \A p \in Profiles : Ready(p)' /\ Exclusive(p)'
  <2>0. PICK q \in Profiles : q = ticks[u].profile
    BY <1>2
  <2>1. /\ \A v \in Workers : v # u => ticks'[v] = ticks[v]
        /\ UNCHANGED <<clock, settings>> /\ Early(u) /\ Ready(q) /\ Exclusive(q)
    BY <1>1, <1>12, StepEffect
  <2>2. /\ ticks[u].at # "idle" /\ ticks[u].kind # "force"
        /\ ticks[u].now <= clock /\ ticks[u].seen = settings
    <3>1. ticks[u].at # "idle"
      BY <1>12 DEF Step, SkipEarly, EnterWindow, Lookup, Claim, CheckUser, WriteSkip, Trade,
                   Record, Finish
    <3> QED BY <2>1, <3>1 DEF Early
  <2>3. Window(ticks[u].now, settings[q]) = First /\ ~ MustSkip(u)
    <3>1. PICK now \in 0..StaleAfter : now = ticks[u].now
      BY <1>2, <2>2
    <3>2. now \div DayLength = 0 /\ now % DayLength = now /\ now >= 0
      <4>1. StaleAfter \in Nat /\ DayLength \in Nat \ {0} /\ now \in 0..StaleAfter
        BY <1>2, <3>1
      <4>2. now \div DayLength = 0 /\ now % DayLength = now
        BY ONLY <4>1, StaleAfter < DayLength, FirstDay
      <4> QED BY <4>1, <4>2
    <3>3. settings[q].runTime = 0 /\ 0 \in OpenDays
      BY <1>1 DEF Undisturbed
    <3>4. Window(now, settings[q]) = First
      BY <3>2, <3>3 DEF Window, Day, First
    <3>5. Day(now) \in OpenDays /\ IsDueAt(now, settings[q])
      BY <3>2, <3>3 DEF Day, TimeOfDay, IsDueAt
    <3> QED BY <2>0, <2>1, <2>2, <3>1, <3>4, <3>5 DEF MustSkip, Ready
  \* The other profiles.
  <2>5. ASSUME NEW p \in Profiles \ {q}, log'[p] = log[p], latch'[p] = latch[p],
               ticks'[u].profile = q \/ ticks'[u].at \in {"idle", "check"}
        PROVE  Ready(p)' /\ Exclusive(p)'
    <3>1. \A v \in Workers : /\ Claimed(v, p)' => Claimed(v, p)
                             /\ AtClaim(v, p)' => AtClaim(v, p)
                             /\ AtSkip(v, p)' => AtSkip(v, p)
      BY <2>0, <2>1, <2>5 DEF Claimed, AtClaim, AtSkip
    <3> QED BY <1>1, <1>4, <1>5, <2>5, <3>1, ExclusiveKept
  <2>6. ASSUME Early(u)', Ready(q)', Exclusive(q)',
               ticks'[u].profile = q \/ ticks'[u].at \in {"idle", "check"},
               \A p \in Profiles \ {q} : log'[p] = log[p] /\ latch'[p] = latch[p]
        PROVE  /\ \A w \in Workers : Early(w)'
               /\ \A p \in Profiles : Ready(p)' /\ Exclusive(p)'
    BY <1>3, <2>1, <2>5, <2>6
  <2>7. ASSUME Leaves(u)
        PROVE  /\ Early(u)' /\ ticks'[u].at \in {"idle", "check"}
               /\ \A p : ~ Claimed(u, p)' /\ ~ AtClaim(u, p)' /\ ~ AtSkip(u, p)'
    <3>1. ticks'[u].at \in {"idle", "check"}
      BY <2>7 DEF Leaves, Idle
    <3>2. Early(u)'
      BY <2>1, <2>2, <2>7 DEF Leaves, Early, Idle
    <3> QED BY <3>1, <3>2 DEF Claimed, AtClaim, AtSkip
  <2>8. ASSUME NEW at, NEW window, MovesOn(u, at, window), window = First
        PROVE  Early(u)' /\ ticks'[u].profile = q /\ ticks'[u].at = at
    BY <2>0, <2>1, <2>2, <2>8 DEF MovesOn, Early
  <2>9. ASSUME NEW result, Writes(u, result)
        PROVE  /\ latch'[q].result = result /\ latch'[q].window = First
               /\ \A p \in Profiles \ {q} : latch'[p] = latch[p]
    <3>1. latch'[q] = [window |-> Window(ticks[u].now, ticks[u].seen[q]), result |-> result,
                       checkedAt |-> ticks[u].now]
      BY <2>0, <2>9 DEF Writes
    <3>2. ticks[u].seen[q] = settings[q]
      BY <2>2
    <3>3. Window(ticks[u].now, ticks[u].seen[q]) = First
      BY <2>3, <3>2 DEF Window
    <3>4. \A p \in Profiles \ {q} : latch'[p] = latch[p]
      BY <2>0, <2>9 DEF Writes
    <3> QED BY <3>1, <3>3, <3>4
  <2>10. \A v \in Workers : v # u => /\ Claimed(v, q)' = Claimed(v, q)
                                     /\ AtClaim(v, q)' = AtClaim(v, q)
                                     /\ AtSkip(v, q)' = AtSkip(v, q)
    BY <2>1 DEF Claimed, AtClaim, AtSkip
  <2>11. CASE Skips(u)
    BY <2>3, <2>11 DEF Skips
  <2>12. CASE Enters(u)
    <3>1. PICK window : MovesOn(u, "lookup", window) /\ window = First
      BY <2>0, <2>2, <2>3, <2>12 DEF Enters
    <3>2. UNCHANGED <<latch, log>>
      BY <2>12 DEF Enters
    <3>3. /\ Early(u)' /\ ticks'[u].profile = q /\ ticks'[u].at = "lookup"
      BY <2>8, <3>1
    <3>4. Exclusive(q)'
      BY <1>4, <2>1, <2>10, <3>2, <3>3, ExclusiveKept DEF Claimed, AtClaim, AtSkip
    <3> QED BY <1>5, <2>6, <3>2, <3>3, <3>4
  <2>13. CASE LooksUp(u)
    <3>1. PICK at, window : /\ MovesOn(u, at, window) /\ window = ticks[u].window
                            /\ \/ at = "skip" /\ HasRun(q, window)
                               \/ at = "claim" /\ ~ HasRun(q, window)
      BY <2>0, <2>1, <2>2, <2>13 DEF LooksUp, Ready
    <3>2. UNCHANGED <<latch, log>> /\ window = First
      BY <2>1, <2>13, <3>1 DEF LooksUp, Early
    <3>3. /\ Early(u)' /\ ticks'[u].profile = q /\ ticks'[u].at = at
      BY <2>8, <3>1, <3>2
    <3>4. Exclusive(q)'
      <4>1. /\ ~ Claimed(u, q)' /\ (AtClaim(u, q)' => at = "claim")
            /\ (AtSkip(u, q)' => at = "skip") /\ Running(q)' = Running(q)
        BY <3>1, <3>2, <3>3 DEF Claimed, AtClaim, AtSkip, Running
      <4>2. FewRows(q) => (HasRun(q, First) <=> Recorded(q))
        BY <2>1, FewRowsSeen DEF Ready, Ran, Recorded
      <4> QED BY <1>4, <2>1, <2>10, <3>1, <3>2, <4>1, <4>2 DEF Exclusive
    <3> QED BY <1>5, <2>6, <3>2, <3>3, <3>4
  \* No claim is stale yet, so that the one who wins it finds it free.
  <2>14. CASE WinsClaim(u)
    <3>1. PICK window : MovesOn(u, "user", window) /\ window = ticks[u].window
      BY <2>14 DEF WinsClaim
    <3>2. /\ UNCHANGED log /\ window = First /\ AtClaim(u, q) /\ ~ Claimed(u, q)
          /\ latch'[q].result = "running" /\ latch'[q].window = First
          /\ \A p \in Profiles \ {q} : latch'[p] = latch[p]
      BY <2>0, <2>1, <2>9, <2>14, <3>1 DEF WinsClaim, Early, AtClaim, Claimed
    <3>3. ~ Running(q)
      <4>1. latch[q].checkedAt \in Nat
        BY DEF TypeInv, LatchOK, Latch
      <4>2. ~ (latch[q].checkedAt + StaleAfter < ticks[u].now)
        BY <1>2, <2>2, <4>1
      <4>3. Claimable(q, First, ticks[u].now)
        BY <2>0, <2>14, <3>1, <3>2 DEF WinsClaim
      <4> QED BY <2>1, <4>2, <4>3 DEF Claimable, Ready, Running
    <3>4. /\ Early(u)' /\ ticks'[u].profile = q /\ ticks'[u].at = "user"
      BY <2>8, <3>1, <3>2
    <3>5. Ready(q)'
      BY <1>1, <1>4, <3>2 DEF Ready, Running
    <3>6. Exclusive(q)'
      <4>1. Running(q)' /\ ~ AtClaim(u, q)' /\ ~ AtSkip(u, q)'
        BY <3>2, <3>4 DEF Running, AtClaim, AtSkip
      <4>2. FewRows(q) /\ (Recorded(q) => AtMostTwo) => \A v \in Workers : ~ Claimed(v, q)
        BY <2>1, <3>2, <3>3 DEF Exclusive
      <4> QED BY <1>4, <2>1, <2>10, <3>2, <4>1, <4>2 DEF Exclusive
    <3> QED BY <2>6, <3>2, <3>4, <3>5, <3>6
  <2>15. CASE LosesClaim(u)
    <3>1. UNCHANGED <<latch, log>> /\ Leaves(u)
      BY <2>15 DEF LosesClaim
    <3>2. Exclusive(q)'
      BY <1>4, <2>1, <2>7, <2>10, <3>1, ExclusiveKept
    <3> QED BY <1>5, <2>6, <2>7, <3>1, <3>2
  <2>16. CASE LooksAtUser(u) \/ Trades(u)
    <3>1. PICK at, window : /\ MovesOn(u, at, window) /\ window = ticks[u].window
                            /\ at \in {"trade", "record"}
      BY <2>0, <2>1, <2>16 DEF LooksAtUser, Trades, Ready
    <3>2. /\ UNCHANGED <<latch, log>> /\ window = First /\ Claimed(u, q)
      BY <2>0, <2>1, <2>16, <3>1 DEF LooksAtUser, Trades, Early, Claimed
    <3>3. /\ Early(u)' /\ ticks'[u].profile = q /\ ticks'[u].at = at
      BY <2>8, <3>1, <3>2
    <3>4. Exclusive(q)'
      BY <1>4, <2>1, <2>10, <3>1, <3>2, <3>3, ExclusiveKept DEF Claimed, AtClaim, AtSkip
    <3> QED BY <1>5, <2>6, <3>2, <3>3, <3>4
  \* The check that skips here has seen the recorded run.
  <2>17. CASE SkipsLate(u)
    <3>1. /\ UNCHANGED log /\ Leaves(u) /\ AtSkip(u, q)
          /\ latch'[q].result = "skipped" /\ \A p \in Profiles \ {q} : latch'[p] = latch[p]
      BY <2>0, <2>9, <2>17 DEF SkipsLate, AtSkip
    <3>2. Ready(q)'
      BY <1>1, <1>4, <3>1 DEF Ready, Running
    <3>3. Exclusive(q)'
      <4> SUFFICES ASSUME FewRows(q), Recorded(q) => AtMostTwo
                   PROVE  /\ \A v, w \in Workers : Claimed(v, q)' /\ Claimed(w, q)' => v = w
                          /\ Recorded(q)
                          /\ \A v, w \in Workers : Claimed(v, q)' /\ AtClaim(w, q)' => w = v
        BY <1>4, <3>1 DEF Exclusive
      <4>1. Recorded(q)
        BY <2>1, <3>1 DEF Exclusive
      <4>2. \A v \in Workers : Claimed(v, q)' \/ AtClaim(v, q)' => v # u
        BY <2>7, <3>1
      <4> QED BY <4>1, <4>2 DEF AtMostTwo
    <3> QED BY <2>6, <2>7, <3>1, <3>2, <3>3
  <2>18. CASE Records(u)
    <3>1. PICK window : MovesOn(u, "finish", window) /\ window = ticks[u].window
      BY <2>18 DEF Records
    <3>2. /\ UNCHANGED latch /\ window = First /\ Claimed(u, q)
      BY <2>0, <2>1, <2>18, <3>1 DEF Records, Early, Claimed
    <3>3. PICK row \in RunRow : row = [kind |-> ticks[u].kind, window |-> First]
      BY <1>2, <3>1, <3>2 DEF RunRow, Tick
    <3>4. log'[q] = Append(log[q], row) /\ \A p \in Profiles \ {q} : log'[p] = log[p]
      BY <2>0, <2>18, <3>1, <3>2, <3>3 DEF Records, Appends
    <3>5. /\ Early(u)' /\ ticks'[u].profile = q /\ ticks'[u].at = "finish"
      BY <2>8, <3>1, <3>2
    <3>6. /\ FewRows(q)' => FewRows(q)
          /\ Ran(q, First) => Ran(q, First)'
          /\ Recorded(q) => Recorded(q)'
          /\ Recorded(q)' => Ran(q, First)'
      <4>1. \A p : Recorded(p) <=> \E win : Ran(p, win)
        BY DEF Recorded, Ran
      <4>2. \A p : Recorded(p)' <=> \E win : Ran(p, win)'
        BY DEF Recorded, Ran
      <4>3. /\ FewRows(q)' => FewRows(q)
            /\ \A win : Ran(q, win)' <=>
                 Ran(q, win) \/ (row.kind \in {"check", "force"} /\ row.window = win)
        BY <3>4, RowAdded
      <4>4. Recorded(q) => Ran(q, First)
        BY <2>1 DEF Ready
      <4> QED BY <3>3, <4>1, <4>2, <4>3, <4>4
    <3>7. Ready(q)'
      BY <1>1, <2>1, <3>2, <3>6 DEF Ready, Running
    <3>8. Exclusive(q)'
      <4>1. Running(q)' = Running(q) /\ ~ AtClaim(u, q)' /\ ~ AtSkip(u, q)'
        BY <3>2, <3>5 DEF Running, AtClaim, AtSkip
      <4> QED BY <2>1, <2>10, <3>2, <3>6, <4>1 DEF Exclusive
    <3> QED BY <2>6, <3>2, <3>4, <3>5, <3>7, <3>8
  <2>19. CASE Finishes(u)
    <3>1. PICK result : Writes(u, result) /\ result # "running"
      BY <2>19 DEF Finishes
    <3>2. /\ UNCHANGED log /\ Leaves(u) /\ Claimed(u, q)
          /\ latch'[q].result # "running" /\ \A p \in Profiles \ {q} : latch'[p] = latch[p]
      BY <2>0, <2>9, <2>19, <3>1 DEF Finishes, Claimed
    <3>3. Ready(q)'
      BY <1>1, <1>4, <3>2 DEF Ready, Running
    <3>4. Exclusive(q)'
      <4>1. FewRows(q) /\ (Recorded(q) => AtMostTwo) => \A v \in Workers : ~ Claimed(v, q)'
        BY <2>1, <2>7, <2>10, <3>2 DEF Exclusive
      <4> QED BY <1>4, <2>1, <2>7, <2>10, <3>2, <4>1 DEF Exclusive
    <3> QED BY <2>6, <2>7, <3>2, <3>3, <3>4
  <2> QED
    BY <1>12, <2>11, <2>12, <2>13, <2>14, <2>15, <2>16, <2>17, <2>18, <2>19, StepEffect
<1>13. ASSUME NEW p \in Profiles, Edit(p) PROVE FALSE
  BY <1>13 DEF Edit, Spend, Undisturbed, TypeInv, RestOK, Events
<1> QED BY <1>7, <1>8, <1>10, <1>11, <1>12, <1>13 DEF Next

\* Within the time a claim takes to go stale, which is shorter than a day, no two
\* checks trade for one profile at the same time: of any number of processes until
\* the first of them has recorded its run, and of two processes after it as well.
THEOREM ClaimsKeepApart ==
  ASSUME StaleAfter < DayLength
  PROVE  Spec => []NoTwoTrade
<1>1. TypeInv /\ ClaimInv /\ [Next]_vars => ClaimInv'
  BY ClaimStep
<1>2. ClaimInv => NoTwoTrade
  <2>1. \A w \in Workers, p \in Profiles : Trading(w, p) => Claimed(w, p)
    BY DEF Trading, Claimed
  <2> QED BY <2>1 DEF ClaimInv, NoTwoTrade, Exclusive, FewRows
<1> QED BY <1>1, <1>2, ClaimInit, TypeInvariant, PTL DEF Spec

(***************************************************************************)
(* A punctual loop misses no window                                        *)
(***************************************************************************)

LEMMA DivMod ==
  ASSUME NEW d \in Nat \ {0}, NEW n \in Nat
  PROVE  /\ n \div d \in Nat /\ n % d \in 0..(d - 1)
         /\ n = (d * (n \div d)) + (n % d)
  BY Z3

LEMMA DivisionUnique ==
  ASSUME NEW d \in Nat \ {0}, NEW a \in Nat, NEW b \in Nat,
         NEW r \in 0..(d - 1), NEW s \in 0..(d - 1), (d * a) + r = (d * b) + s
  PROVE  a = b /\ r = s
<1>1. CASE a < b
  <2>1. d * (a + 1) <= d * b
    BY <1>1, Z3
  <2> QED BY <2>1, Z3
<1>2. CASE b < a
  <2>1. d * (b + 1) <= d * a
    BY <1>2, Z3
  <2> QED BY <2>1, Z3
<1>3. CASE a = b
  <2>1. d * a = d * b
    BY <1>3
  <2> QED BY <1>3, <2>1, Z3
<1> QED BY <1>1, <1>2, <1>3

LEMMA RunTimeTyped ==
  ASSUME NEW setting \in Settings
  PROVE  setting.runTime \in Nat
<1>1. DayLength \in Nat \ {0} /\ RunTimes \subseteq 0..(DayLength - 1)
  BY SchedulerAssumption
<1>2. setting.runTime \in 0..(DayLength - 1)
  BY <1>1 DEF Settings
<1> QED BY <1>1, <1>2

\* The next unit is the next of the same day, or the first of the next day.
LEMMA NextTime ==
  ASSUME NEW d \in Nat \ {0}, NEW n \in Nat
  PROVE  \/ (n + 1) \div d = n \div d /\ (n + 1) % d = (n % d) + 1
         \/ (n + 1) \div d = (n \div d) + 1 /\ (n + 1) % d = 0
<1> DEFINE a == n \div d
           r == n % d
           b == (n + 1) \div d
           s == (n + 1) % d
<1>1. a \in Nat /\ r \in 0..(d - 1) /\ n = (d * a) + r
  BY DivMod
<1>2. b \in Nat /\ s \in 0..(d - 1) /\ n + 1 = (d * b) + s
  <2>1. n + 1 \in Nat
    OBVIOUS
  <2> QED BY <2>1, DivMod
<1> HIDE DEF a, b, r, s
<1>3. CASE r + 1 < d
  <2>1. (d * b) + s = (d * a) + (r + 1) /\ r + 1 \in 0..(d - 1)
    BY <1>1, <1>2, <1>3, Z3
  <2> QED BY <1>1, <1>2, <2>1, DivisionUnique DEF a, b, r, s
<1>4. CASE r + 1 = d
  <2>1. (d * b) + s = (d * (a + 1)) + 0
    BY <1>1, <1>2, <1>4, Z3
  <2> QED BY <1>1, <1>2, <2>1, DivisionUnique DEF a, b, r, s
<1> QED BY <1>1, <1>3, <1>4

LEMMA SameDay ==
  ASSUME NEW d \in Nat \ {0}, NEW m \in Nat, NEW n \in Nat, m \div d = n \div d
  PROVE  m % d \in Nat /\ n % d \in Nat /\ n + (m % d) = m + (n % d)
<1>1. /\ m % d \in 0..(d - 1) /\ n % d \in 0..(d - 1)
      /\ m = (d * (m \div d)) + (m % d) /\ n = (d * (n \div d)) + (n % d)
  BY DivMod
<1> QED BY <1>1, Z3

\* The unit of the day up to which the crashes so far excuse a delay.
Reach(p) == settings[p].runTime + (spent["crash"] * (StaleAfter + 1))
Today(p) == Window(clock, settings[p])

\* A due window that no scheduled run has recorded yet.
Overdue(p) ==
  /\ FewRows(p) /\ Day(clock) \in OpenDays /\ IsDueAt(clock, settings[p])
  /\ ~ Ran(p, Today(p))

\* The loop's check of this unit is still to visit the profile, or visits it.
Awaited(w, p) ==
  \/ w \notin polled
  \/ ticks[w].kind = "check" /\ ticks[w].at # "idle" /\ ticks[w].profile <= p

Winner(w, p) == ticks[w].kind # "force" /\ Claimed(w, p)

\* What a check of a punctual loop knows, and what a claim says.
Current(w) ==
  /\ ticks[w].at # "idle" => ticks[w].now = clock /\ ticks[w].seen = settings
  /\ ticks[w].at \notin {"idle", "check"} =>
       /\ ticks[w].window = Today(ticks[w].profile)
       /\ ticks[w].kind # "force" => IsDueAt(clock, settings[ticks[w].profile])
  /\ ticks[w].at = "claim" => ticks[w].kind # "force"
ClaimTimed(p) ==
  /\ settings[p].on /\ settings[p].ready /\ settings[p].approved
  /\ Running(p) =>
       /\ latch[p].checkedAt <= clock
       /\ latch[p].window = Window(latch[p].checkedAt, settings[p])
       /\ IsDueAt(latch[p].checkedAt, settings[p])

\* An overdue window is excused by the crashes so far: through this unit if its
\* check is over, and until the claim goes stale if nobody holds it.
Excused(w, p) ==
  Overdue(p) =>
    /\ TimeOfDay(clock) <= Reach(p)
    /\ ~ Awaited(w, p) => TimeOfDay(clock) + 1 <= Reach(p)
    /\ Running(p) /\ latch[p].window = Today(p) /\ ~ Winner(w, p) =>
         TimeOfDay(latch[p].checkedAt) + StaleAfter + 1 <= Reach(p)
    /\ ticks[w].profile = p /\ ticks[w].kind = "check" => ticks[w].at \notin {"skip", "finish"}
    /\ ticks[w].profile = p => ticks[w].at # "skip"

DueInv(w) ==
  spent["edit"] = 0 => Current(w) /\ \A p \in Profiles : ClaimTimed(p) /\ Excused(w, p)

LEMMA DueInit == ASSUME Init, NEW w \in Workers PROVE DueInv(w)
<1>1. clock = 0 /\ w \notin polled /\ ticks[w] = Idle /\ spent["crash"] = 0
  BY DEF Init, Events
<1>2. ASSUME NEW p \in Profiles
      PROVE  /\ settings[p] \in Settings /\ ~ Running(p)
             /\ settings[p].on /\ settings[p].ready /\ settings[p].approved
  BY DEF Init, Running
<1>3. ASSUME NEW p \in Profiles PROVE Excused(w, p)
  <2>1. TimeOfDay(clock) = 0
    <3>1. DayLength \in Nat \ {0} /\ 0 \in 0..0
      BY SchedulerAssumption
    <3>2. 0 % DayLength = 0
      BY <3>1, Z3
    <3> QED BY <1>1, <3>2 DEF TimeOfDay
  <2>2. settings[p].runTime \in Nat /\ StaleAfter \in Nat
    BY <1>2, RunTimeTyped, SchedulerAssumption
  <2>3. TimeOfDay(clock) <= Reach(p)
    <3>1. spent["crash"] * (StaleAfter + 1) = 0
      BY <1>1, <2>2
    <3> QED BY <2>1, <2>2, <3>1 DEF Reach
  <2> QED BY <1>1, <1>2, <2>3 DEF Excused, Awaited, Idle
<1> QED BY <1>1, <1>2, <1>3 DEF DueInv, Current, ClaimTimed, Idle

\* Times of two units, one of them after the other.
LEMMA Clockwork ==
  ASSUME NEW n \in 0..MaxClock
  PROVE  /\ Day(n) \in Nat /\ TimeOfDay(n) \in Nat
         /\ \A m \in 0..n :
              /\ Day(m) <= Day(n)
              /\ Day(m) = Day(n) => TimeOfDay(m) <= TimeOfDay(n)
              /\ Day(m) = Day(n) => n + TimeOfDay(m) = m + TimeOfDay(n)
         /\ \/ Day(n + 1) = Day(n) /\ TimeOfDay(n + 1) = TimeOfDay(n) + 1
            \/ Day(n + 1) = Day(n) + 1 /\ TimeOfDay(n + 1) = 0
<1>0. DayLength \in Nat \ {0} /\ MaxClock \in Nat
  BY SchedulerAssumption
<1>1. DayLength \in Nat \ {0} /\ n \in Nat
  BY <1>0
<1>2. Day(n) \in Nat /\ TimeOfDay(n) \in Nat
  <2>1. n \div DayLength \in Nat /\ n % DayLength \in 0..(DayLength - 1)
    BY <1>1, DivMod
  <2> QED BY <1>1, <2>1 DEF Day, TimeOfDay
<1>3. ASSUME NEW m \in 0..n
      PROVE  /\ Day(m) <= Day(n)
             /\ Day(m) = Day(n) => n + TimeOfDay(m) = m + TimeOfDay(n)
             /\ TimeOfDay(m) \in Nat
  <2>1. Day(m) <= Day(n)
    BY <1>1, DivisionMonotone DEF Day
  <2>2. m \in Nat
    BY <1>1
  <2>3. Day(m) = Day(n) => n + TimeOfDay(m) = m + TimeOfDay(n)
    BY <1>1, <2>2, SameDay DEF Day, TimeOfDay
  <2>4. TimeOfDay(m) \in Nat
    BY <1>1, <2>2, DivMod DEF TimeOfDay
  <2> QED BY <2>1, <2>3, <2>4
<1>4. \A m \in 0..n : Day(m) = Day(n) => TimeOfDay(m) <= TimeOfDay(n)
  BY <1>1, <1>2, <1>3
<1>5. \/ Day(n + 1) = Day(n) /\ TimeOfDay(n + 1) = TimeOfDay(n) + 1
      \/ Day(n + 1) = Day(n) + 1 /\ TimeOfDay(n + 1) = 0
  BY <1>1, NextTime DEF Day, TimeOfDay
<1> QED BY <1>2, <1>3, <1>4, <1>5

LEMMA ReachTyped ==
  ASSUME TypeInv, NEW p \in Profiles
  PROVE  /\ Reach(p) \in Nat /\ settings[p].runTime \in Nat
         /\ settings[p].runTime <= Reach(p) /\ StaleAfter \in Nat
<1>1. StaleAfter \in Nat /\ settings[p] \in Settings /\ spent["crash"] \in Nat
  BY SchedulerAssumption DEF TypeInv, RestOK, Events
<1>2. spent["crash"] * (StaleAfter + 1) \in Nat
  BY <1>1
<1>3. settings[p].runTime \in Nat
  BY <1>1, RunTimeTyped
<1> QED BY <1>1, <1>2, <1>3 DEF Reach

\* A step within the unit that leaves the settings alone, and what is to be shown
\* of it: only the profile that the check visits can be disturbed.
LEMMA ExcuseKept ==
  ASSUME NEW w, NEW p \in Profiles, Excused(w, p), Overdue(p)' => Overdue(p),
         UNCHANGED <<clock, settings>>, Reach(p)' = Reach(p), latch'[p] = latch[p],
         Awaited(w, p) => Awaited(w, p)', Winner(w, p) => Winner(w, p)',
         ticks'[w].profile = p => /\ ticks'[w].at # "skip"
                                  /\ ticks'[w].kind = "check" => ticks'[w].at # "finish"
  PROVE  Excused(w, p)'
<1>1. TimeOfDay(clock)' = TimeOfDay(clock) /\ Today(p)' = Today(p)
  BY DEF TimeOfDay, Today, Window, Day
<1>2. Running(p)' = Running(p) /\ TimeOfDay(latch[p].checkedAt)' = TimeOfDay(latch[p].checkedAt)
  BY DEF Running, TimeOfDay
<1> QED BY <1>1, <1>2 DEF Excused

LEMMA DueStep ==
  ASSUME Punctual, TypeInv, NEW w, Workers = {w}, DueInv(w), [Next]_vars
  PROVE  DueInv(w)'
<1> DEFINE Goal == Current(w)' /\ \A p \in Profiles : ClaimTimed(p)' /\ Excused(w, p)'
<1>1. SUFFICES ASSUME spent'["edit"] = 0 PROVE Goal
  BY DEF DueInv
<1>2. /\ spent \in [Events -> Nat] /\ w \in Workers /\ ticks[w] \in Tick
      /\ ticks \in [Workers -> Tick] /\ ticks[w].profile \in Profiles
      /\ clock \in 0..MaxClock /\ clock \in Nat
      /\ latch \in [Profiles -> Latch] /\ log \in [Profiles -> Seq(RunRow)]
  <2>1. MaxClock \in Nat
    BY SchedulerAssumption
  <2> QED BY <2>1 DEF TypeInv, RestOK, TicksOK, Tick, LatchOK, LogOK
<1>3. ASSUME NEW event \in Events \ {"crash"}, Spend(event)
      PROVE  /\ \A p : Reach(p)' = settings'[p].runTime + (spent["crash"] * (StaleAfter + 1))
             /\ spent["edit"] = 0 /\ event # "edit"
  <2>1. /\ spent' = [spent EXCEPT ![event] = @ + 1] /\ "crash" \in Events /\ "edit" \in Events
    BY <1>3 DEF Spend, Events
  <2>2. spent'["crash"] = spent["crash"] /\ (spent'["edit"] = 0 => spent["edit"] = 0 /\ event # "edit")
    BY <1>2, <1>3, <2>1
  <2> QED BY <1>1, <2>2 DEF Reach
<1>4. ASSUME spent["edit"] = 0
      PROVE  Current(w) /\ \A p \in Profiles : ClaimTimed(p) /\ Excused(w, p)
  BY <1>4 DEF DueInv
\* What the log says of a window.
<1>5. ASSUME NEW p \in Profiles, UNCHANGED <<clock, settings>>,
             \/ log'[p] = log[p]
             \/ \E row \in RunRow : log'[p] = Append(log[p], row)
      PROVE  Overdue(p)' => Overdue(p)
  <2>1. /\ FewRows(p)' => FewRows(p)
        /\ Ran(p, Today(p)) => Ran(p, Today(p))'
    <3>1. Today(p)' = Today(p)
      BY <1>5 DEF Today, Window, Day
    <3>2. ASSUME NEW window PROVE Ran(p, window) => Ran(p, window)'
      BY <1>5, RowAdded DEF Ran
    <3>3. PICK window : window = Today(p)
      OBVIOUS
    <3>4. Ran(p, Today(p)) => Ran(p, window)'
      BY <3>2, <3>3
    <3>5. FewRows(p)' => FewRows(p)
      BY <1>5, RowAdded DEF FewRows
    <3> QED BY <3>1, <3>3, <3>4, <3>5 DEF Ran
  <2>2. Day(clock)' = Day(clock) /\ IsDueAt(clock, settings[p])' = IsDueAt(clock, settings[p])
    BY <1>5 DEF Day, IsDueAt, TimeOfDay
  <2> QED BY <2>1, <2>2 DEF Overdue
<1>6. ASSUME NEW p \in Profiles, UNCHANGED <<clock, settings>>, latch'[p] = latch[p], ClaimTimed(p)
      PROVE  ClaimTimed(p)'
  BY <1>6 DEF ClaimTimed, Running, Window, Day, IsDueAt, TimeOfDay
\* Steps that are no step of the check and leave the time alone.
<1>7. ASSUME UNCHANGED <<clock, settings, latch, ticks, polled>>, spent["edit"] = 0,
             \A p : Reach(p)' = Reach(p),
             \A p \in Profiles : \/ log'[p] = log[p]
                                 \/ \E row \in RunRow : log'[p] = Append(log[p], row)
      PROVE  Goal
  <2>1. Current(w)'
    BY <1>4, <1>7 DEF Current, Today, Window, Day, IsDueAt, TimeOfDay
  <2>2. ASSUME NEW p \in Profiles PROVE Excused(w, p)'
    <3>1. /\ Awaited(w, p)' = Awaited(w, p) /\ Winner(w, p)' = Winner(w, p)
      BY <1>7 DEF Awaited, Winner, Claimed
    <3>2. Overdue(p) /\ ticks[w].profile = p =>
            /\ ticks[w].at # "skip"
            /\ ticks[w].kind = "check" => ticks[w].at # "finish"
      BY <1>4, <1>7 DEF Excused
    <3>3. Overdue(p)' => Overdue(p)
      BY <1>5, <1>7
    <3>4. CASE ~ Overdue(p)
      BY <3>3, <3>4 DEF Excused
    <3>5. CASE Overdue(p)
      BY <1>4, <1>7, <3>1, <3>2, <3>3, <3>5, ExcuseKept
    <3> QED BY <3>4, <3>5
  <2> QED BY <1>4, <1>6, <1>7, <2>1, <2>2
<1>8. CASE UNCHANGED vars
  <2>1. \A p : Reach(p)' = Reach(p)
    BY <1>8 DEF vars, Reach
  <2> QED BY <1>1, <1>7, <1>8, <2>1 DEF vars
<1>9. ASSUME NEW q \in Profiles, Edit(q) PROVE Goal
  BY <1>1, <1>2, <1>9 DEF Edit, Spend, Events
<1>10. ASSUME NEW q \in Profiles, ManualRun(q) PROVE Goal
  <2>1. PICK row \in RunRow : log' = [log EXCEPT ![q] = Append(@, row)]
    BY <1>10 DEF ManualRun, RunRow
  <2>2. \A p \in Profiles : log'[p] = log[p] \/ log'[p] = Append(log[p], row)
    BY <1>2, <2>1
  <2>3. UNCHANGED <<clock, settings, latch, ticks, polled>> /\ Spend("manual")
    BY <1>10 DEF ManualRun
  <2>4. spent["edit"] = 0 /\ \A p : Reach(p)' = Reach(p)
    BY <1>3, <2>3 DEF Events, Reach
  <2> QED BY <1>7, <2>2, <2>3, <2>4
<1>11. ASSUME NEW kind \in Kinds, Begin(w, kind) PROVE Goal
  <2>1. /\ UNCHANGED <<clock, settings, latch, log>> /\ ticks[w].at = "idle"
        /\ ticks'[w].at = "check" /\ ticks'[w].kind = kind /\ ticks'[w].profile = 1
        /\ ticks'[w].now = clock /\ ticks'[w].seen = settings
    BY <1>2, <1>11 DEF Begin, Idle
  <2>2. spent["edit"] = 0 /\ \A p : Reach(p)' = Reach(p)
    <3>1. CASE kind = "check"
      BY <1>1, <1>11, <3>1 DEF Begin, Reach
    <3>2. CASE kind # "check"
      <4>1. Spend(kind) /\ kind \in Events \ {"crash"}
        BY <1>11, <3>2 DEF Begin, Kinds, Events
      <4> QED BY <1>3, <2>1, <4>1 DEF Reach
    <3> QED BY <3>1, <3>2
  <2>3. Current(w)'
    BY <2>1 DEF Current
  <2>4. ASSUME NEW p \in Profiles PROVE Excused(w, p)'
    <3>1. Awaited(w, p) => Awaited(w, p)'
      <4>1. 1 <= p
        BY DEF Profiles
      <4> QED BY <1>11, <2>1, <4>1 DEF Begin, Awaited
    <3>2. ~ Winner(w, p)
      BY <2>1 DEF Winner, Claimed
    <3> QED BY <1>4, <1>5, <2>1, <2>2, <3>1, <3>2, ExcuseKept
  <2> QED BY <1>4, <1>6, <2>1, <2>2, <2>3, <2>4
\* A crash excuses as many units as its claim can block.
<1>12. CASE Crash(w)
  <2>1. /\ UNCHANGED <<clock, settings, latch, log, polled>> /\ ticks'[w].at = "idle"
        /\ spent["edit"] = 0 /\ spent'["crash"] = spent["crash"] + 1
    BY <1>1, <1>2, <1>12 DEF Crash, Idle, Spend, Events
  <2>2. Current(w)'
    BY <2>1 DEF Current
  <2>3. ASSUME NEW p \in Profiles PROVE Excused(w, p)'
    <3>1. Reach(p)' = Reach(p) + StaleAfter + 1 /\ Reach(p) \in Nat /\ StaleAfter \in Nat
      <4>1. PICK k \in Nat, s \in Nat : k = spent["crash"] /\ s = StaleAfter
        BY <1>2, ReachTyped DEF Events
      <4>2. (k + 1) * (s + 1) = (k * (s + 1)) + s + 1 /\ k * (s + 1) \in Nat
        BY Z3
      <4>3. PICK rt \in Nat : rt = settings[p].runTime
        BY ReachTyped
      <4>4. Reach(p) = rt + (k * (s + 1)) /\ Reach(p)' = rt + ((k + 1) * (s + 1))
        BY <2>1, <4>1, <4>3 DEF Reach
      <4> QED BY <4>1, <4>2, <4>4
    <3>2. Overdue(p)' => Overdue(p)
      BY <1>5, <2>1
    <3>3. TimeOfDay(clock) \in Nat
      BY <1>2, Clockwork
    <3>4. Running(p) /\ latch[p].window = Today(p) => TimeOfDay(latch[p].checkedAt) <= TimeOfDay(clock)
                                                     /\ TimeOfDay(latch[p].checkedAt) \in Nat
      <4>1. PICK m \in Nat : m = latch[p].checkedAt
        BY <1>2 DEF Latch
      <4>2. CASE Running(p) /\ latch[p].window = Today(p)
        <5>1. m \in 0..clock /\ Day(m) = Day(clock)
          BY <1>2, <1>4, <2>1, <4>1, <4>2 DEF ClaimTimed, Window, Today
        <5>2. m \in 0..MaxClock
          BY <1>2, <4>1 DEF Latch
        <5> QED BY <1>2, <4>1, <5>1, <5>2, Clockwork
      <4> QED BY <4>2
    <3>5. Overdue(p) => TimeOfDay(clock) <= Reach(p)
      BY <1>4, <2>1 DEF Excused
    <3>6. /\ TimeOfDay(clock)' = TimeOfDay(clock) /\ Running(p)' = Running(p)
          /\ Today(p)' = Today(p) /\ latch'[p] = latch[p]
          /\ TimeOfDay(latch[p].checkedAt)' = TimeOfDay(latch[p].checkedAt)
      BY <2>1 DEF TimeOfDay, Running, Today, Window, Day
    <3> QED BY <2>1, <3>1, <3>2, <3>3, <3>4, <3>5, <3>6 DEF Excused
  <2> QED BY <1>4, <1>6, <2>1, <2>2, <2>3
\* The check of this unit is over: what it did not run, crashes excuse, and a claim
\* for a window of the next day cannot have been made.
<1>13. CASE Advance
  <2>1. /\ clock' = clock + 1 /\ UNCHANGED <<settings, latch, log, ticks, spent>>
        /\ w \in polled /\ ticks[w].at = "idle" /\ polled' = {} /\ spent["edit"] = 0
        /\ clock < MaxClock
    BY <1>1, <1>2, <1>13 DEF Advance
  <2>2. Current(w)'
    BY <2>1 DEF Current
  <2>3. ASSUME NEW p \in Profiles PROVE ClaimTimed(p)' /\ Excused(w, p)'
    <3>1. ClaimTimed(p) /\ Excused(w, p)
      BY <1>4, <2>1
    <3>2. PICK m \in 0..MaxClock : m = latch[p].checkedAt
      BY <1>2 DEF Latch
    <3>3. ClaimTimed(p)'
      <4>1. Running(p)' = Running(p) /\ (m <= clock => m <= clock')
        BY <1>2, <2>1, <3>2 DEF Running
      <4> QED BY <2>1, <3>1, <3>2, <4>1 DEF ClaimTimed, Window, Day, IsDueAt, TimeOfDay
    <3>4. /\ Reach(p)' = Reach(p) /\ Reach(p) \in Nat /\ settings[p].runTime \in Nat
          /\ settings[p].runTime <= Reach(p)
      BY <2>1, ReachTyped DEF Reach
    <3>5. ~ Awaited(w, p) /\ ~ Winner(w, p) /\ ~ Winner(w, p)' /\ Awaited(w, p)'
      BY <2>1 DEF Awaited, Winner, Claimed
    <3>6. SUFFICES ASSUME Overdue(p)'
                   PROVE  /\ TimeOfDay(clock) ' <= Reach(p)
                          /\ Running(p) /\ latch[p].window = Today(p)' =>
                               TimeOfDay(m) + StaleAfter + 1 <= Reach(p)
      BY <2>1, <3>2, <3>3, <3>4, <3>5 DEF Excused, Running, TimeOfDay
    <3>7. PICK n : n = clock /\ n \in 0..MaxClock
      BY <1>2
    <3>8. /\ TimeOfDay(clock)' = TimeOfDay(n + 1) /\ TimeOfDay(clock) = TimeOfDay(n)
          /\ Today(p)' = Window(n + 1, settings[p]) /\ Today(p) = Window(n, settings[p])
          /\ FewRows(p) /\ Day(n + 1) \in OpenDays
          /\ IsDueAt(n + 1, settings[p]) /\ ~ Ran(p, Window(n + 1, settings[p]))
      BY <2>1, <3>6, <3>7 DEF TimeOfDay, Today, Window, Day, Overdue, FewRows, IsDueAt, Ran
    <3>9. Running(p) => /\ m \in 0..n /\ latch[p].window = Window(m, settings[p])
                        /\ IsDueAt(m, settings[p])
      BY <3>1, <3>2, <3>7 DEF ClaimTimed
    <3>10. CASE Day(n + 1) = Day(n) /\ TimeOfDay(n + 1) = TimeOfDay(n) + 1
      <4>1. Window(n + 1, settings[p]) = Window(n, settings[p])
        BY <3>10 DEF Window
      <4>2. CASE settings[p].runTime <= TimeOfDay(n)
        <5>1. Overdue(p)
          BY <3>4, <3>7, <3>8, <3>10, <4>1, <4>2, Clockwork DEF Overdue, IsDueAt, Today
        <5>2. /\ TimeOfDay(n) + 1 <= Reach(p)
              /\ Running(p) /\ latch[p].window = Today(p) =>
                   TimeOfDay(m) + StaleAfter + 1 <= Reach(p)
          BY <3>1, <3>2, <3>5, <3>8, <5>1 DEF Excused
        <5> QED BY <3>8, <3>10, <4>1, <5>2
      <4>3. CASE ~ (settings[p].runTime <= TimeOfDay(n))
        <5>1. TimeOfDay(n) \in Nat
          BY <3>7, Clockwork
        <5>2. TimeOfDay(n + 1) <= Reach(p)
          BY <3>4, <3>10, <4>3, <5>1
        <5>3. ~ (Running(p) /\ latch[p].window = Window(n, settings[p]))
          <6> SUFFICES ASSUME Running(p), latch[p].window = Window(n, settings[p])
                       PROVE  FALSE
            OBVIOUS
          <6>1. m \in 0..n /\ Day(m) = Day(n) /\ TimeOfDay(m) >= settings[p].runTime
            BY <3>9 DEF Window, IsDueAt
          <6>2. TimeOfDay(m) <= TimeOfDay(n) /\ TimeOfDay(m) \in Nat
            BY <3>2, <3>7, <6>1, Clockwork
          <6> QED BY <3>4, <4>3, <5>1, <6>1, <6>2
        <5> QED BY <3>8, <4>1, <5>2, <5>3
      <4> QED BY <4>2, <4>3
    <3>11. CASE Day(n + 1) = Day(n) + 1 /\ TimeOfDay(n + 1) = 0
      <4>1. ~ (Running(p) /\ latch[p].window = Window(n + 1, settings[p]))
        <5> SUFFICES ASSUME Running(p), latch[p].window = Window(n + 1, settings[p])
                     PROVE  FALSE
          OBVIOUS
        <5>1. m \in 0..n /\ Day(m) = Day(n + 1)
          BY <3>9 DEF Window
        <5>2. Day(m) <= Day(n) /\ Day(n) \in Nat
          BY <3>7, <5>1, Clockwork
        <5> QED BY <3>11, <5>1, <5>2
      <4> QED BY <3>4, <3>8, <3>11, <4>1
    <3> QED BY <3>7, <3>10, <3>11, Clockwork
  <2> QED BY <2>2, <2>3
\* A step of the check disturbs the profile it visits, and no other.
<1>14. CASE Step(w)
  <2>1. /\ UNCHANGED <<clock, settings, polled, spent>> /\ spent["edit"] = 0
        /\ \/ Skips(w) \/ Enters(w) \/ LooksUp(w) \/ WinsClaim(w) \/ LosesClaim(w)
           \/ LooksAtUser(w) \/ SkipsLate(w) \/ Trades(w) \/ Records(w) \/ Finishes(w)
    BY <1>1, <1>2, <1>14, StepEffect
  <2>2. Current(w) /\ \A p \in Profiles : ClaimTimed(p) /\ Excused(w, p)
    BY <1>4, <2>1
  <2>3. PICK q : q = ticks[w].profile /\ q \in Profiles
    BY <1>2
  <2>4. /\ ticks[w].at # "idle" /\ ticks[w].now = clock /\ ticks[w].seen = settings
    <3>1. ticks[w].at # "idle"
      BY <2>1 DEF Skips, Enters, LooksUp, WinsClaim, LosesClaim, LooksAtUser, SkipsLate,
                  Trades, Records, Finishes
    <3> QED BY <2>2, <3>1 DEF Current
  <2>5. \A p \in Profiles : Reach(p)' = Reach(p) /\ Today(p)' = Today(p)
    BY <2>1 DEF Reach, Today, Window, Day
  <2>6. TimeOfDay(clock)' = TimeOfDay(clock)
    BY <2>1 DEF TimeOfDay
  <2>7. ASSUME Leaves(w)
        PROVE  /\ \A p \in Profiles \ {q} : Awaited(w, p) => Awaited(w, p)'
               /\ w \notin polled => Awaited(w, q)'
               /\ ticks'[w].at \in {"idle", "check"} /\ Current(w)'
    <3>1. Current(w)' /\ ticks'[w].at \in {"idle", "check"}
      BY <2>1, <2>4, <2>7 DEF Leaves, Current, Idle
    <3>2. ASSUME NEW p \in Profiles \ {q}, Awaited(w, p) PROVE Awaited(w, p)'
      <4>1. p \in 1..NumProfiles /\ q \in 1..NumProfiles /\ NumProfiles \in Nat /\ p # q
        BY <2>3, <3>2, SchedulerAssumption DEF Profiles
      <4>2. CASE w \notin polled
        BY <2>1, <4>2 DEF Awaited
      <4>3. CASE w \in polled
        <5>1. ticks[w].kind = "check" /\ q < p /\ q # NumProfiles
          BY <2>3, <3>2, <4>1, <4>3 DEF Awaited
        <5>2. ticks'[w].at = "check" /\ ticks'[w].profile = q + 1 /\ ticks'[w].kind = "check"
          BY <2>3, <2>7, <5>1 DEF Leaves
        <5> QED BY <4>1, <5>1, <5>2 DEF Awaited
      <4> QED BY <4>2, <4>3
    <3> QED BY <2>1, <3>1, <3>2 DEF Awaited
  <2>8. ASSUME NEW at, NEW window, MovesOn(w, at, window), at # "idle"
        PROVE  /\ \A p \in Profiles : Awaited(w, p) => Awaited(w, p)'
               /\ ticks'[w].profile = q /\ ticks'[w].at = at /\ ticks'[w].kind = ticks[w].kind
               /\ ticks'[w].now = clock /\ ticks'[w].seen = settings
               /\ ticks'[w].window = window
    BY <2>1, <2>3, <2>4, <2>8 DEF MovesOn, Awaited
  <2>9. ASSUME NEW at, MovesOn(w, at, ticks[w].window), at \notin {"idle", "claim"},
               ticks[w].at \notin {"idle", "check"}
        PROVE  Current(w)'
    <3>1. PICK window : window = ticks[w].window
      OBVIOUS
    <3>2. /\ ticks'[w].profile = q /\ ticks'[w].at = at /\ ticks'[w].kind = ticks[w].kind
          /\ ticks'[w].now = clock /\ ticks'[w].seen = settings /\ ticks'[w].window = window
      BY <2>8, <2>9, <3>1
    <3>3. /\ window = Today(q)
          /\ ticks[w].kind # "force" => IsDueAt(clock, settings[q])
      BY <2>2, <2>3, <2>9, <3>1 DEF Current
    <3>4. Today(ticks[w].profile)' = Today(q)
      BY <2>1, <3>2 DEF Today, Window, Day
    <3> QED BY <2>1, <2>9, <3>2, <3>3, <3>4 DEF Current, IsDueAt, TimeOfDay
  \* The other profiles
  <2>10. ASSUME NEW p \in Profiles, p # q PROVE ClaimTimed(p)' /\ Excused(w, p)'
    <3>1. latch'[p] = latch[p] /\ log'[p] = log[p]
      BY <2>1, <2>3, <2>10 DEF Skips, Enters, LooksUp, WinsClaim, LosesClaim, LooksAtUser,
                               SkipsLate, Trades, Records, Finishes, Writes, Appends
    <3>2. /\ Awaited(w, p) => Awaited(w, p)'
          /\ ticks'[w].profile = p => ticks'[w].at \in {"idle", "check"}
      <4>1. CASE Leaves(w)
        BY <2>7, <2>10, <4>1
      <4>2. CASE ~ Leaves(w)
        <5>1. \E at, window : at # "idle" /\ MovesOn(w, at, window)
          BY <2>1, <4>2 DEF Skips, Enters, LooksUp, WinsClaim, LosesClaim, LooksAtUser,
                            SkipsLate, Trades, Records, Finishes
        <5> QED BY <2>8, <2>10, <5>1
      <4> QED BY <4>1, <4>2
    <3>3. ~ Winner(w, p)
      BY <2>3, <2>10 DEF Winner, Claimed
    <3>4. Overdue(p)' => Overdue(p)
      BY <1>5, <2>1, <3>1
    <3> QED BY <1>6, <2>1, <2>2, <2>5, <3>1, <3>2, <3>3, <3>4, ExcuseKept
  \* The profile that is visited
  <2>11. ASSUME UNCHANGED log, ~ Overdue(q) PROVE Excused(w, q)'
    BY <1>5, <2>1, <2>3, <2>11 DEF Excused
  <2>12. ASSUME NEW result, Writes(w, result), result = "running" => IsDueAt(clock, settings[q])
         PROVE  ClaimTimed(q)' /\ latch'[q].result = result
    <3>1. latch'[q] = [window |-> Window(clock, settings[q]), result |-> result, checkedAt |-> clock]
      BY <2>3, <2>4, <2>12 DEF Writes
    <3>2. settings[q].on /\ settings[q].ready /\ settings[q].approved /\ settings' = settings
      BY <2>1, <2>2, <2>3 DEF ClaimTimed
    <3>3. /\ latch'[q].window = Window(clock, settings[q]) /\ latch'[q].checkedAt = clock
          /\ latch'[q].result = result
      BY <3>1
    <3>4. IsDueAt(latch[q].checkedAt, settings[q])' = IsDueAt(clock, settings[q])
      BY <3>2, <3>3 DEF IsDueAt, TimeOfDay
    <3>5. Window(latch[q].checkedAt, settings[q])' = Window(clock, settings[q])
      BY <3>2, <3>3 DEF Window, Day
    <3> QED BY <1>2, <2>1, <2>12, <3>2, <3>3, <3>4, <3>5 DEF ClaimTimed, Running
  <2>13. ASSUME NEW at, NEW window, MovesOn(w, at, window), at \notin {"idle", "skip"},
                UNCHANGED latch,
                Winner(w, q) => at \in {"user", "trade", "record", "finish"},
                at = "finish" => ticks[w].kind # "check",
                Overdue(q)' => Overdue(q)
         PROVE  ClaimTimed(q)' /\ Excused(w, q)'
    <3>1. /\ ticks'[w].profile = q /\ ticks'[w].at = at /\ ticks'[w].kind = ticks[w].kind
          /\ Awaited(w, q) => Awaited(w, q)'
      BY <2>3, <2>8, <2>13
    <3>2. Winner(w, q) => Winner(w, q)'
      BY <2>13, <3>1 DEF Winner, Claimed
    <3> QED BY <1>6, <2>1, <2>2, <2>3, <2>5, <2>13, <3>1, <3>2, ExcuseKept
  <2>14. ASSUME Current(w)', ClaimTimed(q)', Excused(w, q)' PROVE Goal
    BY <2>10, <2>14
  <2> HIDE DEF Goal
  <2>15. UNCHANGED log => (Overdue(q)' => Overdue(q))
    BY <1>5, <2>1, <2>3
  <2>16. CASE Skips(w)
    <3>1. ~ Overdue(q)
      <4>1. settings[q].on
        BY <2>2, <2>3 DEF ClaimTimed
      <4> QED BY <2>3, <2>4, <2>16, <4>1 DEF Skips, MustSkip, Overdue
    <3> QED BY <2>7, <2>11, <2>12, <2>14, <2>16, <3>1 DEF Skips
  <2>17. CASE Enters(w)
    <3>1. PICK window : window = Window(ticks[w].now, ticks[w].seen[ticks[w].profile])
      OBVIOUS
    <3>2. MovesOn(w, "lookup", window) /\ UNCHANGED <<latch, log>> /\ ~ Winner(w, q)
      BY <2>17, <3>1 DEF Enters, Winner, Claimed
    <3>3. ClaimTimed(q)' /\ Excused(w, q)'
      BY <2>13, <2>15, <3>2
    <3>4. Current(w)'
      <4>1. window = Today(q) /\ (ticks[w].kind # "force" => IsDueAt(clock, settings[q]))
        BY <2>3, <2>4, <2>17, <3>1 DEF Enters, MustSkip, Today
      <4>2. /\ ticks'[w].profile = q /\ ticks'[w].at = "lookup" /\ ticks'[w].kind = ticks[w].kind
            /\ ticks'[w].now = clock /\ ticks'[w].seen = settings /\ ticks'[w].window = window
        BY <2>8, <3>2
      <4>3. Today(ticks[w].profile)' = Today(q)
        BY <2>1, <4>2 DEF Today, Window, Day
      <4> QED BY <2>1, <4>1, <4>2, <4>3 DEF Current, IsDueAt, TimeOfDay
    <3> QED BY <2>14, <3>3, <3>4
  <2>18. CASE LooksUp(w)
    <3>1. PICK window : window = ticks[w].window /\ window = Today(q)
      BY <2>2, <2>3, <2>18 DEF LooksUp, Current
    <3>2. ~ Winner(w, q) /\ UNCHANGED <<latch, log>> /\ settings[q].ready
      BY <2>2, <2>3, <2>18 DEF LooksUp, Winner, Claimed, ClaimTimed
    <3>3. CASE MovesOn(w, "skip", window)
      <4>1. HasRun(q, window)
        <5>1. ~ MovesOn(w, "user", window) /\ ~ MovesOn(w, "claim", window)
          BY <3>3 DEF MovesOn
        <5> QED BY <2>3, <2>18, <3>1, <3>2, <5>1 DEF LooksUp
      <4>2. ~ Overdue(q)
        BY <2>3, <3>1, <4>1, FewRowsSeen DEF Overdue
      <4>3. Current(w)'
        BY <2>9, <2>18, <3>1, <3>3 DEF LooksUp
      <4> QED BY <1>6, <2>1, <2>2, <2>3, <2>11, <2>14, <3>2, <4>2, <4>3
    <3>4. CASE MovesOn(w, "user", window)
      <4>1. Current(w)'
        BY <2>9, <2>18, <3>1, <3>4 DEF LooksUp
      <4>2. ClaimTimed(q)' /\ Excused(w, q)'
        BY <2>13, <2>15, <3>2, <3>4
      <4> QED BY <2>14, <4>1, <4>2
    <3>5. CASE MovesOn(w, "claim", window) /\ ticks[w].kind # "force"
      <4>1. Current(w)'
        <5>1. /\ ticks'[w].profile = q /\ ticks'[w].at = "claim" /\ ticks'[w].kind = ticks[w].kind
              /\ ticks'[w].now = clock /\ ticks'[w].seen = settings /\ ticks'[w].window = window
          BY <2>8, <3>5
        <5>2. IsDueAt(clock, settings[q])
          BY <2>2, <2>3, <2>18, <3>5 DEF LooksUp, Current
        <5>3. Today(ticks[w].profile)' = Today(q)
          BY <2>1, <5>1 DEF Today, Window, Day
        <5> QED BY <2>1, <3>1, <3>5, <5>1, <5>2, <5>3 DEF Current, IsDueAt, TimeOfDay
      <4>2. ClaimTimed(q)' /\ Excused(w, q)'
        BY <2>13, <2>15, <3>2, <3>5
      <4> QED BY <2>14, <4>1, <4>2
    <3> QED BY <2>18, <3>1, <3>3, <3>4, <3>5 DEF LooksUp
  <2>19. CASE WinsClaim(w)
    <3>1. Current(w)'
      BY <2>9, <2>19 DEF WinsClaim
    <3>2. IsDueAt(clock, settings[q]) /\ ticks[w].kind # "force"
      BY <2>2, <2>3, <2>19 DEF WinsClaim, Current
    <3>3. ClaimTimed(q)'
      BY <2>12, <2>19, <3>2 DEF WinsClaim
    <3>4. PICK window : window = ticks[w].window
      OBVIOUS
    <3>5. /\ ticks'[w].profile = q /\ ticks'[w].at = "user" /\ ticks'[w].kind = ticks[w].kind
          /\ Awaited(w, q) => Awaited(w, q)'
      BY <2>3, <2>8, <2>19, <3>4 DEF WinsClaim
    <3>6. Winner(w, q)'
      BY <3>2, <3>5 DEF Winner, Claimed
    <3>7. Overdue(q)' => Overdue(q)
      BY <2>15, <2>19 DEF WinsClaim
    <3>8. Excused(w, q)'
      BY <2>2, <2>3, <2>5, <2>6, <3>5, <3>6, <3>7 DEF Excused
    <3> QED BY <2>14, <3>1, <3>3, <3>8
  <2>20. CASE LosesClaim(w)
    <3>1. PICK m \in Nat : m = latch[q].checkedAt /\ m \in 0..MaxClock
      BY <1>2, <2>3 DEF Latch
    <3>2. /\ latch[q].window = Today(q) /\ Running(q) /\ ~ (m + StaleAfter < clock)
          /\ UNCHANGED <<latch, log>> /\ ~ Winner(w, q)
      BY <2>2, <2>3, <2>4, <2>20, <3>1 DEF LosesClaim, Claimable, Current, Running, Winner, Claimed
    <3>3. Current(w)' /\ ticks'[w].at \in {"idle", "check"}
      BY <2>7, <2>20 DEF LosesClaim
    <3>4. m \in 0..clock /\ Day(m) = Day(clock)
      BY <1>2, <2>2, <2>3, <3>1, <3>2 DEF ClaimTimed, Window, Today
    <3>5. /\ clock + TimeOfDay(m) = m + TimeOfDay(clock)
          /\ TimeOfDay(m) \in Nat /\ TimeOfDay(clock) \in Nat
      BY <1>2, <3>1, <3>4, Clockwork
    <3>6. Overdue(q) => TimeOfDay(m) + StaleAfter + 1 <= Reach(q)
      BY <2>2, <2>3, <3>1, <3>2 DEF Excused
    <3>7. Overdue(q) => TimeOfDay(clock) + 1 <= Reach(q)
      <4>1. StaleAfter \in Nat /\ Reach(q) \in Nat
        BY <2>3, ReachTyped
      <4> QED BY <1>2, <3>1, <3>2, <3>5, <3>6, <4>1
    <3>8. /\ Overdue(q)' => Overdue(q) /\ latch'[q] = latch[q]
          /\ TimeOfDay(latch[q].checkedAt)' = TimeOfDay(m)
      BY <2>15, <3>1, <3>2 DEF TimeOfDay
    <3>9. Overdue(q) => TimeOfDay(clock) <= Reach(q)
      BY <2>2, <2>3 DEF Excused
    <3>10. Excused(w, q)'
      BY <2>3, <2>5, <2>6, <3>3, <3>6, <3>7, <3>8, <3>9 DEF Excused
    <3> QED BY <1>6, <2>1, <2>2, <2>3, <2>14, <3>2, <3>3, <3>10
  <2>21. CASE LooksAtUser(w)
    <3>1. PICK window : window = ticks[w].window
      OBVIOUS
    <3>2. MovesOn(w, "trade", window) /\ UNCHANGED <<latch, log>>
      BY <2>2, <2>3, <2>21, <3>1 DEF LooksAtUser, ClaimTimed
    <3>3. Current(w)'
      BY <2>9, <2>21, <3>1, <3>2 DEF LooksAtUser
    <3>4. ClaimTimed(q)' /\ Excused(w, q)'
      BY <2>13, <2>15, <3>2
    <3> QED BY <2>14, <3>3, <3>4
  <2>22. CASE SkipsLate(w)
    <3>1. ~ Overdue(q)
      BY <2>2, <2>3, <2>22 DEF SkipsLate, Excused
    <3> QED BY <2>7, <2>11, <2>12, <2>14, <2>22, <3>1 DEF SkipsLate
  <2>23. CASE Trades(w)
    <3>1. PICK window : window = ticks[w].window
      OBVIOUS
    <3>2. MovesOn(w, "record", window) /\ UNCHANGED <<latch, log>>
      BY <2>23, <3>1 DEF Trades
    <3>3. Current(w)'
      BY <2>9, <2>23, <3>1, <3>2 DEF Trades
    <3>4. ClaimTimed(q)' /\ Excused(w, q)'
      BY <2>13, <2>15, <3>2
    <3> QED BY <2>14, <3>3, <3>4
  <2>24. CASE Records(w)
    <3>1. PICK window, kind : window = ticks[w].window /\ window = Today(q) /\ kind = ticks[w].kind
      BY <2>2, <2>3, <2>24 DEF Records, Current
    <3>2. MovesOn(w, "finish", window) /\ UNCHANGED latch
      BY <2>24, <3>1 DEF Records
    <3>3. Current(w)'
      BY <2>9, <2>24, <3>1, <3>2 DEF Records
    <3>4. PICK row \in RunRow : row = [kind |-> kind, window |-> window]
      <4>1. kind \in Kinds /\ window \in Windows \cup {NoWindow}
        BY <1>2, <3>1 DEF Tick
      <4> QED BY <4>1 DEF RunRow
    <3>5. log'[q] = Append(log[q], row)
      BY <2>3, <2>24, <3>1, <3>4 DEF Records, Appends
    <3>6. Overdue(q)' => Overdue(q)
      BY <1>5, <2>1, <2>3, <3>5
    <3>7. CASE kind \in {"check", "force"}
      <4>1. Ran(q, window)'
        BY <2>3, <3>4, <3>5, <3>7, RowAdded
      <4>2. Ran(q, Today(q))'
        BY <2>3, <2>5, <3>1, <4>1 DEF Ran
      <4>3. ~ Overdue(q)'
        BY <4>2 DEF Overdue
      <4>4. ClaimTimed(q)'
        BY <1>6, <2>1, <2>2, <2>3, <3>2
      <4> QED BY <2>14, <3>3, <4>3, <4>4 DEF Excused
    <3>8. CASE kind \notin {"check", "force"}
      <4>1. ClaimTimed(q)' /\ Excused(w, q)'
        BY <2>13, <3>1, <3>2, <3>6, <3>8
      <4> QED BY <2>14, <3>3, <4>1
    <3> QED BY <3>7, <3>8
  <2>25. CASE Finishes(w)
    <3>1. PICK result : Writes(w, result) /\ result # "running"
      BY <2>25 DEF Finishes
    <3>2. /\ Current(w)' /\ ticks'[w].at \in {"idle", "check"}
          /\ w \notin polled => Awaited(w, q)'
      BY <2>7, <2>25 DEF Finishes
    <3>3. ClaimTimed(q)' /\ ~ Running(q)'
      BY <2>12, <3>1 DEF Running
    <3>4. Overdue(q)' => Overdue(q)
      BY <2>15, <2>25 DEF Finishes
    <3>5. Overdue(q) => (~ Awaited(w, q)' => ~ Awaited(w, q))
      BY <2>2, <2>3, <2>25, <3>2 DEF Excused, Awaited, Finishes
    <3>6. Excused(w, q)'
      BY <2>2, <2>3, <2>5, <2>6, <3>2, <3>3, <3>4, <3>5 DEF Excused
    <3> QED BY <2>14, <3>2, <3>3, <3>6
  <2> QED
    BY <2>1, <2>16, <2>17, <2>18, <2>19, <2>20, <2>21, <2>22, <2>23, <2>24, <2>25
<1> QED
  BY <1>8, <1>9, <1>10, <1>11, <1>12, <1>13, <1>14 DEF Next

\* A loop that completes a check in every unit runs the due window of a profile that
\* is left alone in the unit in which it is due; every check that dies delays it by
\* no more than the time its claim takes to go stale.
THEOREM DueWindowsRun ==
  ASSUME Punctual, NEW w, Workers = {w}
  PROVE  Spec => []DueWindowRun
<1>1. Init => DueInv(w)
  BY DueInit
<1>2. TypeInv /\ DueInv(w) /\ [Next]_vars => DueInv(w)'
  BY DueStep
<1>3. TypeInv /\ DueInv(w) => DueWindowRun
  <2>1. SUFFICES ASSUME TypeInv, DueInv(w), NEW p \in Profiles,
                        spent["edit"] = 0, Len(log[p]) <= RunLimit,
                        Day(clock) \in OpenDays, TimeOfDay(clock) > Reach(p)
                 PROVE  HasRun(p, Today(p))
    BY DEF DueWindowRun, Reach, Today
  <2>2. clock \in 0..MaxClock /\ TimeOfDay(clock) \in Nat
    BY <2>1, Clockwork DEF TypeInv, RestOK
  <2>3. IsDueAt(clock, settings[p]) /\ ~ (TimeOfDay(clock) <= Reach(p))
    BY <2>1, <2>2, ReachTyped DEF IsDueAt
  <2>4. Ran(p, Today(p))
    BY <2>1, <2>3 DEF DueInv, Excused, Overdue, FewRows
  <2>5. PICK window : window = Today(p)
    OBVIOUS
  <2>6. HasRun(p, window)
    BY <2>1, <2>4, <2>5, FewRowsSeen DEF FewRows
  <2> QED BY <2>5, <2>6
<1> QED BY <1>1, <1>2, <1>3, TypeInvariant, PTL DEF Spec

(***************************************************************************)
(* The review of a position                                                *)
(***************************************************************************)

\* A set of naturals that is not empty has a least element.
LEMMA LeastElement ==
  ASSUME NEW T \in SUBSET Nat, T # {}
  PROVE  \E m \in T : \A k \in T : m <= k
<1> DEFINE R == {ss \in Nat \X Nat : ss[1] < ss[2]}
<1>1. IsWellFoundedOn(R, Nat)
  BY NatLessThanWellFounded DEF OpToRel
<1> HIDE DEF R
<1>2. PICK m \in T : \A k \in T : ~ (<<k, m>> \in R)
  BY <1>1, WFMin
<1>3. \A k \in T : ~ (k < m)
  BY <1>2 DEF R
<1> QED BY <1>3

\* Of a question the prices, quantities and limits are numbers.
IsQuestion(q) ==
  /\ q.position.quantity \in Int /\ q.position.entry \in Int /\ q.position.stop \in Int
  /\ q.position.target1 \in Int /\ q.position.target2 \in Int
  /\ q.snapshot.price \in Int /\ q.limits.notional \in Int

\* The first verdict that applies is given, so what is given applies and none
\* before it does.
LEMMA VerdictIsFirst ==
  ASSUME NEW c, c.unavailable \in BOOLEAN, c.stop \in BOOLEAN, c.scales \in BOOLEAN
  PROVE  /\ ~c.unavailable /\ c.stop => Classify(c) = "stop_triggered"
         /\ Classify(c) = "stop_triggered" => c.stop
         /\ Classify(c) = "scale_in_candidate" => c.scales
<1> DEFINE v == <<<<c.unavailable, "review_unavailable">>,
          <<c.stop, "stop_triggered">>,
          <<c.invalidated, "invalidated">>,
          <<c.holding = "exceeded", "time_stop_exit">>,
          <<c.target /\ c.ranking \in {"weakened", "not_currently_ranked", "unavailable"},
            "target_reached_take_profit">>,
          <<c.target, "target_reached_hold">>,
          <<c.scales, "scale_in_candidate">>,
          <<c.holding = "warning", "time_stop_warning">>,
          <<TRUE, "hold_valid">>>>
           first(i) == v[i][1] /\ \A j \in 1..(i - 1) : ~v[j][1]
           i == CHOOSE k \in DOMAIN v : first(k)
<1>1. /\ DOMAIN v = 1..9
      /\ v[1][1] = c.unavailable /\ v[2][1] = c.stop /\ v[7][1] = c.scales /\ v[9][1] = TRUE
  OBVIOUS
<1>0. /\ v[1][2] = "review_unavailable" /\ v[2][2] = "stop_triggered" /\ v[3][2] = "invalidated"
      /\ v[4][2] = "time_stop_exit" /\ v[5][2] = "target_reached_take_profit"
      /\ v[6][2] = "target_reached_hold" /\ v[7][2] = "scale_in_candidate"
      /\ v[8][2] = "time_stop_warning" /\ v[9][2] = "hold_valid"
  OBVIOUS
<1>2. Classify(c) = v[i][2]
  BY DEF Classify
<1> HIDE DEF v
<1>3. \E k \in DOMAIN v : first(k)
  <2>1. {k \in 1..9 : v[k][1]} \in SUBSET Nat /\ 9 \in {k \in 1..9 : v[k][1]}
    BY <1>1
  <2>2. PICK m \in {k \in 1..9 : v[k][1]} : \A k \in {n \in 1..9 : v[n][1]} : m <= k
    BY <2>1, LeastElement
  <2>3. \A j \in 1..(m - 1) : j \in 1..9 /\ ~(m <= j)
    BY <2>2
  <2> QED BY <1>1, <2>2, <2>3
<1>4. i \in 1..9 /\ first(i)
  BY <1>1, <1>3
<1> HIDE DEF i
<1>5. ASSUME ~c.unavailable, c.stop PROVE i = 2
  <2>1. i # 1
    BY <1>1, <1>4, <1>5
  <2>2. ~(2 \in 1..(i - 1))
    BY <1>1, <1>4, <1>5
  <2> QED BY <1>4, <2>1, <2>2
<1>6. i = 2 => c.stop
  BY <1>1, <1>4
<1>7. i = 7 => c.scales
  BY <1>1, <1>4
<1>8. i \in {1, 2, 3, 4, 5, 6, 7, 8, 9}
  BY <1>4
<1> QED BY <1>0, <1>2, <1>5, <1>6, <1>7, <1>8

\* What the review says, in terms of the position and of the mark it used.
LEMMA ReviewRead ==
  ASSUME NEW q, IsQuestion(q),
         NEW r, r = Review(q), r.mark # Missing
  PROVE  /\ r.mark = q.snapshot.price /\ r.mark > 0
         /\ q.providerRequired => ~q.snapshot.fallback
         /\ StopTriggered(q.position, r.mark) => r.action = "stop_triggered"
         /\ r.action = "stop_triggered" => StopTriggered(q.position, r.mark)
<1> DEFINE p       == q.position
           mark    == IF UsableMark(q.snapshot, q.providerRequired) THEN q.snapshot.price ELSE Missing
           ranking == RankingOf(p.symbol, q.recent)
           stop    == mark # Missing /\ StopTriggered(p, mark)
           target  == mark # Missing /\ TargetReached(p, mark)
           blockers == ScaleInBlockers(p, mark, q.limits, q.gate.allow)
           strong  == StrongRank(ranking, RankOf(p.symbol, q.recent))
           sound   == mark # Missing /\ Pnl(p, mark) >= 0 /\ ~stop
           c == [unavailable |-> MarkNoted(q.snapshot, q.providerRequired),
                 stop |-> stop, target |-> target, ranking |-> ranking,
                 invalidated |-> ranking = "weakened" /\ ~target,
                 holding |-> HoldingStatus(p),
                 scales |-> strong /\ sound /\ blockers = {} /\ ~target]
<1>1. r.mark = mark /\ r.action = Classify(c)
  BY DEF Review
<1>2. UsableMark(q.snapshot, q.providerRequired) /\ mark = q.snapshot.price
  BY <1>1
<1>3. /\ c.unavailable = FALSE
      /\ c.stop = (mark # Missing /\ StopTriggered(p, mark))
      /\ c.scales = (strong /\ sound /\ blockers = {} /\ ~target)
  BY <1>2 DEF MarkNoted
<1>4. c.stop \in BOOLEAN /\ c.scales \in BOOLEAN
  BY <1>3
<1>5. c.stop <=> StopTriggered(p, r.mark)
  BY <1>1, <1>3
<1>7. c.unavailable \in BOOLEAN /\ ~c.unavailable
  BY <1>3
<1> HIDE DEF c
<1>8. (c.stop => Classify(c) = "stop_triggered") /\ (Classify(c) = "stop_triggered" => c.stop)
  BY <1>4, <1>7, VerdictIsFirst
<1>6. /\ StopTriggered(p, r.mark) => r.action = "stop_triggered"
      /\ r.action = "stop_triggered" => StopTriggered(p, r.mark)
  BY <1>1, <1>5, <1>8
<1> QED BY <1>1, <1>2, <1>6 DEF UsableMark

\* A side multiplies by one or by minus one.
LEMMA SignIs == ASSUME NEW side PROVE Sign(side) \in {-1, 1}
<1> QED BY DEF Sign

\* A protective stop has the last word (_build_position_review and the agent's
\* run), for any prices and levels and whatever else is known.
LEMMA StopsWin ==
  ASSUME NEW q, IsQuestion(q), NEW direction, NEW f, NEW r, r = Review(q)
  PROVE  StopWins(q, r, direction, f)
<1> DEFINE p == q.position
<1> SUFFICES ASSUME r.mark # Missing, p.stop # Missing
             PROVE  /\ Beyond(p, r.mark) /\ f.closes =>
                         Planned(q, r, direction, f)
                           = [intent |-> "CLOSE_PAPER", reason |-> "stop_triggered", opens |-> "none"]
                    /\ r.action = "stop_triggered" => 10000 * (r.mark - p.stop) * Sign(p.side) < r.mark
  BY DEF StopWins
<1>1. r.mark \in Int /\ r.mark > 0 /\ p.stop \in Int
  BY ReviewRead DEF IsQuestion
<1>2. ASSUME Beyond(p, r.mark), f.closes
      PROVE  Planned(q, r, direction, f)
               = [intent |-> "CLOSE_PAPER", reason |-> "stop_triggered", opens |-> "none"]
  <2>1. StopTriggered(p, r.mark)
    BY <1>1, <1>2, SignIs DEF StopTriggered, Reached, Beyond
  <2>2. r.action = "stop_triggered"
    BY <2>1, ReviewRead
  <2>3. Intent(r.action, "own", f) = "CLOSE_PAPER"
    BY <1>2, <2>2 DEF Intent, CloseWorthy
  <2> QED BY <2>2, <2>3 DEF Planned
<1>3. ASSUME r.action = "stop_triggered"
      PROVE  10000 * (r.mark - p.stop) * Sign(p.side) < r.mark
  <2>1. 20000 * ((r.mark - p.stop) * Sign(p.side)) <= r.mark
    BY <1>3, ReviewRead DEF StopTriggered, Reached
  <2> QED BY <1>1, <2>1, SignIs
<1> QED BY <1>2, <1>3

\* What opens against a position has closed it first, and no short is opened for
\* a profile without shorts.
LEMMA OppositeOpens ==
  ASSUME NEW q, NEW r, NEW direction \in {"long", "short", "neutral"}, NEW f
  PROVE  LET plan == Planned(q, r, direction, f)
         IN  /\ plan.opens = "short" => f.shorts
             /\ plan.opens # "none" => plan.intent = "CLOSE_PAPER" /\ plan.opens # q.position.side
<1> DEFINE own == q.position.side
           s == Bidirectional(direction, own, FALSE, f)
<1>1. s.close => /\ s.opens = "short" => f.shorts
                 /\ s.opens # "none" => s.opens # own
  <2>1. CASE direction = "neutral" \/ own = direction
    BY <2>1 DEF Bidirectional, Held
  <2>2. CASE direction # "neutral" /\ own = "none"
    BY <2>2 DEF Bidirectional
  <2>3. CASE direction # "neutral" /\ own # direction /\ own # "none"
    BY <2>3 DEF Bidirectional, Held
  <2> QED BY <2>1, <2>2, <2>3
<1> HIDE DEF s, own
<1> QED BY <1>1 DEF Planned, s, own

\* Nobody adds to a position that a limit, the calendar or its levels forbid.
LEMMA AdditionsSound ==
  ASSUME NEW q, IsQuestion(q), NEW direction \in {"long", "short", "neutral"}, NEW f,
         NEW r, r = Review(q)
  PROVE  AdditionIsSound(q, r, direction, f)
<1> DEFINE p       == q.position
           mark    == IF UsableMark(q.snapshot, q.providerRequired) THEN q.snapshot.price ELSE Missing
           ranking == RankingOf(p.symbol, q.recent)
           stop    == mark # Missing /\ StopTriggered(p, mark)
           target  == mark # Missing /\ TargetReached(p, mark)
           blockers == ScaleInBlockers(p, mark, q.limits, q.gate.allow)
           strong  == StrongRank(ranking, RankOf(p.symbol, q.recent))
           sound   == mark # Missing /\ Pnl(p, mark) >= 0 /\ ~stop
           c == [unavailable |-> MarkNoted(q.snapshot, q.providerRequired),
                 stop |-> stop, target |-> target, ranking |-> ranking,
                 invalidated |-> ranking = "weakened" /\ ~target,
                 holding |-> HoldingStatus(p),
                 scales |-> strong /\ sound /\ blockers = {} /\ ~target]
<1>1. r.mark = mark /\ r.action = Classify(c)
  BY DEF Review
<1>2. ASSUME r.action = "scale_in_candidate"
      PROVE  /\ q.gate.allow /\ (q.providerRequired => ~q.snapshot.fallback)
             /\ (p.quantity + 1) * r.mark <= q.limits.notional
             /\ p.stop # Missing /\ ~Beyond(p, r.mark) /\ Pnl(p, r.mark) >= 0
             /\ \A t \in {p.target1, p.target2} \ {Missing} : (t - r.mark) * Sign(p.side) > 0
  <2>1. /\ c.unavailable \in BOOLEAN /\ c.stop \in BOOLEAN /\ c.scales \in BOOLEAN
        /\ c.scales = (strong /\ sound /\ blockers = {} /\ ~target)
    BY DEF MarkNoted, StopTriggered, Reached
  <2>2. c.unavailable \in BOOLEAN /\ c.stop \in BOOLEAN /\ c.scales \in BOOLEAN
    BY <2>1
  <2>12. c.scales
    <3>1. Classify(c) = "scale_in_candidate"
      BY <1>1, <1>2
    <3> HIDE DEF c
    <3> QED BY <3>1, <2>2, VerdictIsFirst
  <2>3. sound /\ blockers = {} /\ ~target
    BY <2>1, <2>12
  <2> HIDE DEF c, blockers, mark
  <2>4. mark # Missing /\ Pnl(p, mark) >= 0 /\ ~StopTriggered(p, mark) /\ ~TargetReached(p, mark)
    BY <2>3
  <2>5. /\ UsableMark(q.snapshot, q.providerRequired) /\ mark = q.snapshot.price
        /\ mark \in Int /\ mark > 0
    BY <2>4 DEF mark, UsableMark, IsQuestion
  <2>6. /\ q.gate.allow /\ ~(p.quantity * mark + mark > q.limits.notional)
        /\ p.stop # Missing
    BY <2>3, <2>4 DEF blockers, ScaleInBlockers
  <2>7. (p.quantity + 1) * mark = p.quantity * mark + mark /\ p.quantity * mark \in Int
    BY <2>5 DEF IsQuestion
  <2>8. (p.quantity + 1) * mark <= q.limits.notional
    BY <2>5, <2>6, <2>7 DEF IsQuestion
  <2>9. ~Beyond(p, mark)
    BY <2>4, <2>5, <2>6, SignIs DEF StopTriggered, Reached, Beyond, IsQuestion
  <2>10. ASSUME NEW t \in {p.target1, p.target2} \ {Missing} PROVE (t - mark) * Sign(p.side) > 0
    <3>1. ~(20000 * ((t - mark) * Sign(p.side)) <= mark)
      BY <2>4 DEF TargetReached, Reached
    <3> QED BY <2>5, <3>1, SignIs DEF IsQuestion
  <2>11. q.providerRequired => ~q.snapshot.fallback
    BY <2>5 DEF UsableMark
  <2> QED BY <1>1, <2>4, <2>6, <2>8, <2>9, <2>10, <2>11
<1> HIDE DEF c, mark
<1> QED BY <1>2, OppositeOpens DEF AdditionIsSound

\* For any prices, levels, limits, ranking and signal, a protective stop has the
\* last word and nothing forbidden is added (_build_position_review of
\* api/routes/admin.py and the agent's use of it).
THEOREM ReviewsStaySound ==
  \A q, flags : \A direction \in {"long", "short", "neutral"} :
    IsQuestion(q) => ReviewIsSound(q, Review(q), direction, flags)
<1> QED BY StopsWin, AdditionsSound DEF ReviewIsSound

(***************************************************************************)
(* The triggers of agents                                                  *)
(***************************************************************************)

\* What a long, or a short, of one filter has read.
LEMMA MomentumLong ==
  ASSUME NEW mode, NEW r, MomentumVerdict(mode, r) = "LONG_ELIGIBLE"
  PROVE  /\ Readable(r) /\ ~Bearish(r.momentum) /\ Rising(r.momentum)
         /\ mode \in {"conservative", "balanced", "aggressive"}
<1> USE DEF MomentumVerdict
<1>1. CASE mode = "conservative"
  BY <1>1 DEF Bullish, Bearish
<1>2. CASE mode = "balanced"
  BY <1>2 DEF Bullish, Bearish, Rising
<1>3. CASE mode = "aggressive"
  BY <1>3 DEF Bullish, Bearish, Improving, Rising
<1>4. CASE mode \notin {"conservative", "balanced", "aggressive"}
  BY <1>4
<1> QED BY <1>1, <1>2, <1>3, <1>4

LEMMA MomentumShort ==
  ASSUME NEW mode, NEW r, MomentumVerdict(mode, r) = "SHORT_REVIEW"
  PROVE  Readable(r) /\ Bearish(r.momentum) /\ Falling(r.momentum)
<1> QED BY DEF MomentumVerdict

LEMMA HacoLong ==
  ASSUME NEW mode, NEW r, HacoVerdict(mode, r) = "LONG_ELIGIBLE"
  PROVE  r.haco = "green" /\ mode # "short_only"
<1> QED BY DEF HacoVerdict

LEMMA HacoShort ==
  ASSUME NEW mode, NEW r, HacoVerdict(mode, r) = "SHORT_REVIEW"
  PROVE  r.haco = "red"
<1> QED BY DEF HacoVerdict

HacoOf(p, r)     == HacoVerdict(Stored(p.hacoMode, "long_only"), r)
MomentumOf(p, r) == MomentumVerdict(Stored(p.momentumMode, "conservative"), r)

\* A Hybrid is long when all its filters are, and short when one of them is.
LEMMA HybridIs ==
  ASSUME NEW p, NEW r, NEW top
  PROVE  /\ HybridVerdict(p, r, top) = "LONG_ELIGIBLE" =>
              /\ top
              /\ "haco" \in p.filters => HacoOf(p, r) = "LONG_ELIGIBLE"
              /\ "momentum" \in p.filters => MomentumOf(p, r) = "LONG_ELIGIBLE"
         /\ /\ top
            /\ "haco" \in p.filters => HacoOf(p, r) = "LONG_ELIGIBLE"
            /\ "momentum" \in p.filters => MomentumOf(p, r) = "LONG_ELIGIBLE"
            => HybridVerdict(p, r, top) = "LONG_ELIGIBLE"
         /\ HybridVerdict(p, r, top) = "SHORT_REVIEW" =>
              /\ top
              /\ \/ "haco" \in p.filters /\ HacoOf(p, r) = "SHORT_REVIEW"
                 \/ "momentum" \in p.filters /\ MomentumOf(p, r) = "SHORT_REVIEW"
<1> DEFINE v == FilterVerdicts(p, r)
           blocks == {i \in DOMAIN v : v[i] # "LONG_ELIGIBLE"}
           first == CHOOSE i \in blocks : \A j \in blocks : i <= j
           h == HacoOf(p, r)
           m == MomentumOf(p, r)
<1>1. CASE "haco" \in p.filters /\ "momentum" \in p.filters
  <2>1. v = <<h>> \o <<m>>
    BY <1>1 DEF FilterVerdicts, HacoOf, MomentumOf
  <2> HIDE DEF v, h, m
  <2>2. DOMAIN v = {1, 2} /\ v[1] = h /\ v[2] = m
    BY <2>1
  <2>3. blocks # {} => first \in blocks
    BY <2>2
  <2> HIDE DEF first
  <2> QED BY <1>1, <2>2, <2>3 DEF HybridVerdict, v, h, m, first
<1>2. CASE "haco" \in p.filters /\ "momentum" \notin p.filters
  <2>1. v = <<h>> \o <<>>
    BY <1>2 DEF FilterVerdicts, HacoOf
  <2> HIDE DEF v, h, m
  <2>2. DOMAIN v = {1} /\ v[1] = h
    BY <2>1
  <2>3. blocks # {} => first \in blocks
    BY <2>2
  <2> HIDE DEF first
  <2> QED BY <1>2, <2>2, <2>3 DEF HybridVerdict, v, h, m, first
<1>3. CASE "haco" \notin p.filters /\ "momentum" \in p.filters
  <2>1. v = <<>> \o <<m>>
    BY <1>3 DEF FilterVerdicts, MomentumOf
  <2> HIDE DEF v, h, m
  <2>2. DOMAIN v = {1} /\ v[1] = m
    BY <2>1
  <2>3. blocks # {} => first \in blocks
    BY <2>2
  <2> HIDE DEF first
  <2> QED BY <1>3, <2>2, <2>3 DEF HybridVerdict, v, h, m, first
<1>4. CASE "haco" \notin p.filters /\ "momentum" \notin p.filters
  <2>1. v = <<>> \o <<>>
    BY <1>4 DEF FilterVerdicts
  <2>2. DOMAIN v = {}
    BY <2>1
  <2> QED BY <1>4, <2>2 DEF HybridVerdict
<1> QED BY <1>1, <1>2, <1>3, <1>4

\* A profile that trades on indicators, with the trigger modes its settings admit.
TriggerModes == {"", "conservative", "balanced", "aggressive", "review_only"}
IsTrader(p) ==
  p \in [type : STRING, prevents : BOOLEAN,
         flags : [shorts : BOOLEAN, hedge : BOOLEAN, flip : BOOLEAN, closeOpposite : BOOLEAN],
         hacoMode : STRING, momentumMode : TriggerModes, filters : SUBSET {"haco", "momentum", "atr"}]

\* What a plan that opens has read: of a directional profile its signal, of any
\* other the verdict.
LEMMA PlanOpens ==
  ASSUME NEW p, IsTrader(p), NEW r, NEW top, NEW others \in SUBSET {"long", "short"},
         NEW side \in {"long", "short"}, OpenPlan(p, r, top, others) = side
  PROVE  /\ Directional(p) => Signal(p, r, top) = side
         /\ ~Directional(p) => Verdict(p, r, top) = "LONG_ELIGIBLE" /\ side = "long"
         /\ side = "short" => p.flags.shorts
         /\ p.prevents => \A s \in others : s = side \/ (Directional(p) /\ p.flags.hedge)
<1> DEFINE sig    == Signal(p, r, top)
           facing == IF sig = "long" THEN "short" ELSE "long"
           opposed == p.prevents /\ sig # "neutral" /\ facing \in others
           bid == Bidirectional(sig, "none", opposed, p.flags)
<1>1. CASE Directional(p)
  <2>1. (IF bid.opens # "none" THEN bid.opens ELSE bid.why) = side
    BY <1>1 DEF OpenPlan
  <2>2. CASE sig = "neutral" \/ "none" = sig
    BY <2>1, <2>2 DEF Bidirectional, Held
  <2>3. CASE sig # "neutral" /\ "none" # sig
    <3>1. bid = IF opposed /\ ~p.flags.hedge THEN [close |-> FALSE, opens |-> "none", why |-> "opposed"]
                ELSE IF sig = "long" \/ p.flags.shorts
                THEN [close |-> FALSE, opens |-> sig, why |-> "open"]
                ELSE [close |-> FALSE, opens |-> "none", why |-> "short_blocked"]
      BY <2>3 DEF Bidirectional
    <3>2. sig = side /\ ~(opposed /\ ~p.flags.hedge) /\ (sig = "long" \/ p.flags.shorts)
      <4> HIDE DEF opposed, sig
      <4> QED BY <2>1, <2>3, <3>1
    <3> HIDE DEF sig
    <3> QED BY <1>1, <3>2 DEF sig
  <2> QED BY <2>2, <2>3
<1>2. CASE ~Directional(p)
  BY <1>2 DEF OpenPlan, Directional
<1> QED BY <1>1, <1>2

\* What a signal has read, by the type of the profile.
LEMMA SignalLong ==
  ASSUME NEW p, NEW r, NEW top, Signal(p, r, top) = "long"
  PROVE  /\ p.type = "atr_trailing_stop" => r.atr = "long"
         /\ p.type = "haco_direction" => r.haco = "green"
         /\ p.type \in {"true_momentum", "hybrid"} => Verdict(p, r, top) = "LONG_ELIGIBLE"
         /\ p.type \in {"atr_trailing_stop", "haco_direction", "true_momentum", "hybrid"}
<1>1. CASE p.type = "atr_trailing_stop"
  BY <1>1 DEF Signal, AtrSignal
<1>2. CASE p.type = "haco_direction"
  BY <1>2 DEF Signal
<1>3. CASE p.type = "true_momentum"
  BY <1>3 DEF Signal, Toward
<1>4. CASE p.type = "hybrid"
  BY <1>4 DEF Signal, Toward
<1>5. CASE p.type \notin {"atr_trailing_stop", "haco_direction", "true_momentum", "hybrid"}
  BY <1>5 DEF Signal
<1> QED BY <1>1, <1>2, <1>3, <1>4, <1>5

LEMMA SignalShort ==
  ASSUME NEW p, NEW r, NEW top, Signal(p, r, top) = "short"
  PROVE  /\ p.type = "atr_trailing_stop" => r.atr = "short"
         /\ p.type = "haco_direction" => r.haco = "red"
         /\ p.type \in {"true_momentum", "hybrid"} => Verdict(p, r, top) = "SHORT_REVIEW"
         /\ p.type \in {"atr_trailing_stop", "haco_direction", "true_momentum", "hybrid"}
<1>1. CASE p.type = "atr_trailing_stop"
  BY <1>1 DEF Signal, AtrSignal
<1>2. CASE p.type = "haco_direction"
  BY <1>2 DEF Signal
<1>3. CASE p.type = "true_momentum"
  BY <1>3 DEF Signal, Toward
<1>4. CASE p.type = "hybrid"
  BY <1>4 DEF Signal, Toward
<1>5. CASE p.type \notin {"atr_trailing_stop", "haco_direction", "true_momentum", "hybrid"}
  BY <1>5 DEF Signal
<1> QED BY <1>1, <1>2, <1>3, <1>4, <1>5

\* The verdict of each type.
LEMMA VerdictIs ==
  ASSUME NEW p, NEW r, NEW top
  PROVE  /\ p.type = "haco_direction" =>
              Verdict(p, r, top) = HacoVerdict(Stored(p.hacoMode, "long_only"), r)
         /\ p.type = "true_momentum" =>
              Verdict(p, r, top) = MomentumVerdict(Stored(p.momentumMode, "review_only"), r)
         /\ p.type = "hybrid" => Verdict(p, r, top) = HybridVerdict(p, r, top)
         /\ p.type \notin {"haco_direction", "true_momentum", "hybrid"} =>
              Verdict(p, r, top) = IF top THEN "LONG_ELIGIBLE" ELSE "NEUTRAL_REVIEW"
<1> QED BY DEF Verdict

\* What a long has read, whatever the type of the profile.
LEMMA LongIsEarned ==
  ASSUME NEW p, IsTrader(p), NEW r, NEW top, NEW others \in SUBSET {"long", "short"},
         OpenPlan(p, r, top, others) = "long"
  PROVE  CASE p.type = "haco_direction"    -> r.haco = "green"
           [] p.type = "true_momentum"     -> /\ ~Bearish(r.momentum) /\ Rising(r.momentum)
                                              /\ p.momentumMode \notin {"", "review_only"}
           [] p.type = "atr_trailing_stop" -> r.atr = "long"
           [] p.type = "hybrid" -> /\ top
                                   /\ "haco" \in p.filters => r.haco = "green" /\ p.hacoMode # "short_only"
                                   /\ "momentum" \in p.filters =>
                                        Readable(r) /\ ~Bearish(r.momentum) /\ Rising(r.momentum)
           [] OTHER -> top
<1>1. /\ Directional(p) => Signal(p, r, top) = "long"
      /\ ~Directional(p) => Verdict(p, r, top) = "LONG_ELIGIBLE"
  BY PlanOpens
<1>2. CASE p.type = "haco_direction"
  <2>1. r.haco = "green"
    BY <1>1, <1>2, SignalLong, VerdictIs, HacoLong
  <2> QED BY <1>2, <2>1
<1>3. CASE p.type = "true_momentum"
  <2>1. Verdict(p, r, top) = "LONG_ELIGIBLE"
    BY <1>1, <1>3, SignalLong
  <2>2. MomentumVerdict(Stored(p.momentumMode, "review_only"), r) = "LONG_ELIGIBLE"
    BY <1>3, <2>1, VerdictIs
  <2>3. Stored(p.momentumMode, "review_only") \in {"conservative", "balanced", "aggressive"}
    BY <2>2, MomentumLong
  <2>4. p.momentumMode \notin {"", "review_only"}
    BY <2>3 DEF Stored
  <2>5. ~Bearish(r.momentum) /\ Rising(r.momentum)
    BY <2>2, MomentumLong
  <2> QED BY <1>3, <2>4, <2>5
<1>4. CASE p.type = "atr_trailing_stop"
  <2>1. r.atr = "long"
    BY <1>1, <1>4, SignalLong DEF Directional
  <2> QED BY <1>4, <2>1
<1>5. CASE p.type = "hybrid"
  <2>1. Verdict(p, r, top) = "LONG_ELIGIBLE"
    BY <1>1, <1>5, SignalLong
  <2>2. HybridVerdict(p, r, top) = "LONG_ELIGIBLE"
    BY <1>5, <2>1, VerdictIs
  <2>3. /\ top
        /\ "haco" \in p.filters => HacoOf(p, r) = "LONG_ELIGIBLE"
        /\ "momentum" \in p.filters => MomentumOf(p, r) = "LONG_ELIGIBLE"
    BY <2>2, HybridIs
  <2>4. "haco" \in p.filters => r.haco = "green" /\ p.hacoMode # "short_only"
    BY <2>3, HacoLong DEF HacoOf, Stored
  <2>5. "momentum" \in p.filters => Readable(r) /\ ~Bearish(r.momentum) /\ Rising(r.momentum)
    BY <2>3, MomentumLong DEF MomentumOf
  <2> QED BY <1>5, <2>3, <2>4, <2>5
<1>6. CASE p.type \notin {"haco_direction", "true_momentum", "atr_trailing_stop", "hybrid"}
  <2>1. ~Directional(p)
    BY <1>1, <1>6, SignalLong
  <2>2. top
    BY <1>1, <1>6, <2>1, VerdictIs
  <2> QED BY <1>6, <2>2
<1> QED BY <1>2, <1>3, <1>4, <1>5, <1>6

\* What a short has read.
LEMMA ShortIsEarned ==
  ASSUME NEW p, IsTrader(p), NEW r, NEW top, NEW others \in SUBSET {"long", "short"},
         OpenPlan(p, r, top, others) = "short"
  PROVE  CASE p.type = "haco_direction"    -> r.haco = "red"
           [] p.type = "true_momentum"     -> Bearish(r.momentum) /\ ExitCaution(r)
           [] p.type = "atr_trailing_stop" -> r.atr = "short"
           [] p.type = "hybrid" -> top /\ \/ "haco" \in p.filters /\ r.haco = "red"
                                          \/ /\ "momentum" \in p.filters
                                             /\ Bearish(r.momentum) /\ Falling(r.momentum)
           [] OTHER -> FALSE
<1>1. Signal(p, r, top) = "short"
  BY PlanOpens
<1>2. CASE p.type = "haco_direction"
  BY <1>1, <1>2, SignalShort
<1>3. CASE p.type = "true_momentum"
  <2>1. MomentumVerdict(Stored(p.momentumMode, "review_only"), r) = "SHORT_REVIEW"
    BY <1>1, <1>3, SignalShort, VerdictIs
  <2>2. Readable(r) /\ Bearish(r.momentum) /\ Falling(r.momentum)
    BY <2>1, MomentumShort
  <2> QED BY <1>3, <2>2 DEF ExitCaution
<1>4. CASE p.type = "atr_trailing_stop"
  BY <1>1, <1>4, SignalShort
<1>5. CASE p.type = "hybrid"
  <2>1. HybridVerdict(p, r, top) = "SHORT_REVIEW"
    BY <1>1, <1>5, SignalShort, VerdictIs
  <2>2. /\ top
        /\ \/ "haco" \in p.filters /\ HacoOf(p, r) = "SHORT_REVIEW"
           \/ "momentum" \in p.filters /\ MomentumOf(p, r) = "SHORT_REVIEW"
    BY <2>1, HybridIs
  <2>3. HacoOf(p, r) = "SHORT_REVIEW" => r.haco = "red"
    BY HacoShort DEF HacoOf
  <2>4. MomentumOf(p, r) = "SHORT_REVIEW" => Bearish(r.momentum) /\ Falling(r.momentum)
    BY MomentumShort DEF MomentumOf
  <2> QED BY <1>5, <2>2, <2>3, <2>4
<1>6. CASE p.type \notin {"haco_direction", "true_momentum", "atr_trailing_stop", "hybrid"}
  BY <1>1, <1>6, SignalShort
<1> QED BY <1>2, <1>3, <1>4, <1>5, <1>6

\* An open is earned.
LEMMA OpensEarned ==
  ASSUME NEW p, IsTrader(p), NEW r, NEW top, NEW others \in SUBSET {"long", "short"}
  PROVE  OpensAreEarned(p, r, top, others)
<1> DEFINE opens == OpenPlan(p, r, top, others)
<1>1. opens = "short" => p.flags.shorts
  BY PlanOpens
<1>2. p.prevents /\ opens \in {"long", "short"} =>
        \A s \in others : s = opens \/ (Directional(p) /\ p.flags.hedge)
  BY PlanOpens
<1>3. opens = "long" =>
        CASE p.type = "haco_direction"    -> r.haco = "green"
          [] p.type = "true_momentum"     -> /\ ~Bearish(r.momentum) /\ Rising(r.momentum)
                                             /\ p.momentumMode \notin {"", "review_only"}
          [] p.type = "atr_trailing_stop" -> r.atr = "long"
          [] p.type = "hybrid" -> /\ top
                                  /\ "haco" \in p.filters => r.haco = "green" /\ p.hacoMode # "short_only"
                                  /\ "momentum" \in p.filters =>
                                       Readable(r) /\ ~Bearish(r.momentum) /\ Rising(r.momentum)
          [] OTHER -> top
  BY LongIsEarned
<1>4. opens = "short" =>
        CASE p.type = "haco_direction"    -> r.haco = "red"
          [] p.type = "true_momentum"     -> Bearish(r.momentum) /\ ExitCaution(r)
          [] p.type = "atr_trailing_stop" -> r.atr = "short"
          [] p.type = "hybrid" -> top /\ \/ "haco" \in p.filters /\ r.haco = "red"
                                         \/ /\ "momentum" \in p.filters
                                            /\ Bearish(r.momentum) /\ Falling(r.momentum)
          [] OTHER -> FALSE
  BY ShortIsEarned
<1> HIDE DEF opens
<1> QED BY <1>1, <1>2, <1>3, <1>4 DEF OpensAreEarned, opens

\* A long stays one when whatever it was opened on is still read long.
LEMMA LongStays ==
  ASSUME NEW p, IsTrader(p), NEW o, IsTrader(o), NEW r, NEW top,
         NEW others \in SUBSET {"long", "short"},
         o.type = p.type, o.flags = p.flags, o.prevents = p.prevents,
         Signal(p, r, top) = "long" => Signal(o, r, top) = "long",
         Verdict(p, r, top) = "LONG_ELIGIBLE" => Verdict(o, r, top) = "LONG_ELIGIBLE",
         OpenPlan(p, r, top, others) = "long"
  PROVE  OpenPlan(o, r, top, others) = "long"
<1>1. CASE Directional(p)
  <2>1. Signal(p, r, top) = "long" /\ Signal(o, r, top) = "long" /\ Directional(o)
    BY <1>1, PlanOpens DEF Directional
  <2> QED BY <2>1, <1>1 DEF OpenPlan
<1>2. CASE ~Directional(p)
  <2>1. Verdict(p, r, top) = "LONG_ELIGIBLE" /\ ~Directional(o)
    BY <1>2, PlanOpens DEF Directional
  <2> QED BY <2>1, <1>2 DEF OpenPlan
<1> QED BY <1>1, <1>2

\* What a more careful mode takes long, the next less careful one does.
LEMMA CarefulIsFewer ==
  ASSUME NEW r, MomentumVerdict("conservative", r) = "LONG_ELIGIBLE"
                \/ MomentumVerdict("balanced", r) = "LONG_ELIGIBLE"
  PROVE  /\ MomentumVerdict("conservative", r) = "LONG_ELIGIBLE"
              => MomentumVerdict("balanced", r) = "LONG_ELIGIBLE"
         /\ MomentumVerdict("balanced", r) = "LONG_ELIGIBLE"
              => MomentumVerdict("aggressive", r) = "LONG_ELIGIBLE"
<1> QED BY DEF MomentumVerdict

LEMMA FiltersBlock ==
  ASSUME NEW p, IsTrader(p), NEW r, NEW top, NEW others \in SUBSET {"long", "short"},
         OpenPlan(p, r, top, others) = "long"
  PROVE  FiltersOnlyBlock(p, r, top, others)
<1>1. ASSUME NEW f \in p.filters
      PROVE  OpenPlan([p EXCEPT !.filters = @ \ {f}], r, top, others) = "long"
  <2> DEFINE o == [p EXCEPT !.filters = @ \ {f}]
  <2>1. /\ IsTrader(o) /\ o.type = p.type /\ o.flags = p.flags /\ o.prevents = p.prevents
        /\ o.filters = p.filters \ {f}
        /\ o.hacoMode = p.hacoMode /\ o.momentumMode = p.momentumMode
    BY DEF IsTrader
  <2> HIDE DEF o
  <2>2. ASSUME HybridVerdict(p, r, top) = "LONG_ELIGIBLE"
        PROVE  HybridVerdict(o, r, top) = "LONG_ELIGIBLE"
    <3>1. HacoOf(o, r) = HacoOf(p, r) /\ MomentumOf(o, r) = MomentumOf(p, r)
      BY <2>1 DEF HacoOf, MomentumOf
    <3> QED BY <2>1, <2>2, <3>1, HybridIs
  <2>3. Verdict(p, r, top) = "LONG_ELIGIBLE" => Verdict(o, r, top) = "LONG_ELIGIBLE"
    <3>1. p.type # "hybrid" => Verdict(o, r, top) = Verdict(p, r, top)
      BY <2>1 DEF Verdict
    <3> QED BY <2>1, <2>2, <3>1, VerdictIs
  <2>4. Signal(p, r, top) = "long" => Signal(o, r, top) = "long"
    <3>1. CASE p.type = "hybrid"
      BY <2>1, <2>3, <3>1 DEF Signal, Toward
    <3>2. CASE p.type # "hybrid"
      <4>1. Verdict(o, r, top) = Verdict(p, r, top)
        BY <2>1, <3>2 DEF Verdict
      <4> QED BY <2>1, <3>2, <4>1 DEF Signal
    <3> QED BY <3>1, <3>2
  <2>5. OpenPlan(o, r, top, others) = "long"
    BY <2>1, <2>3, <2>4, LongStays
  <2> QED BY <2>5 DEF o
<1>2. ASSUME p.momentumMode \in DOMAIN MoreCareful
      PROVE  OpenPlan([p EXCEPT !.momentumMode = MoreCareful[@]], r, top, others) = "long"
  <2> DEFINE o == [p EXCEPT !.momentumMode = MoreCareful[@]]
  <2>1. /\ p.momentumMode = "conservative" \/ p.momentumMode = "balanced"
        /\ MoreCareful["conservative"] = "balanced" /\ MoreCareful["balanced"] = "aggressive"
    BY <1>2 DEF MoreCareful
  <2> DEFINE next == MoreCareful[p.momentumMode]
  <2>8. next = (IF p.momentumMode = "conservative" THEN "balanced" ELSE "aggressive") /\ next \in TriggerModes
    <3>1. CASE p.momentumMode = "conservative"
      BY <2>1, <3>1 DEF TriggerModes
    <3>2. CASE p.momentumMode = "balanced"
      BY <2>1, <3>2 DEF TriggerModes
    <3> QED BY <2>1, <3>1, <3>2
  <2>9. o = [p EXCEPT !.momentumMode = next]
    OBVIOUS
  <2> HIDE DEF next, o
  <2>2. /\ IsTrader(o) /\ o.type = p.type /\ o.flags = p.flags /\ o.prevents = p.prevents
        /\ o.filters = p.filters /\ o.hacoMode = p.hacoMode
        /\ o.momentumMode = IF p.momentumMode = "conservative" THEN "balanced" ELSE "aggressive"
    BY <2>8, <2>9 DEF IsTrader
  <2> HIDE DEF o
  <2>3. ASSUME NEW d, MomentumVerdict(Stored(p.momentumMode, d), r) = "LONG_ELIGIBLE"
        PROVE  MomentumVerdict(Stored(o.momentumMode, d), r) = "LONG_ELIGIBLE"
    BY <2>1, <2>2, <2>3, CarefulIsFewer DEF Stored
  <2>4. ASSUME HybridVerdict(p, r, top) = "LONG_ELIGIBLE"
        PROVE  HybridVerdict(o, r, top) = "LONG_ELIGIBLE"
    <3>1. HacoOf(o, r) = HacoOf(p, r)
      BY <2>2 DEF HacoOf
    <3>2. MomentumOf(p, r) = "LONG_ELIGIBLE" => MomentumOf(o, r) = "LONG_ELIGIBLE"
      BY <2>3 DEF MomentumOf
    <3> QED BY <2>2, <2>4, <3>1, <3>2, HybridIs
  <2>5. Verdict(p, r, top) = "LONG_ELIGIBLE" => Verdict(o, r, top) = "LONG_ELIGIBLE"
    <3>1. p.type \notin {"hybrid", "true_momentum"} => Verdict(o, r, top) = Verdict(p, r, top)
      BY <2>2 DEF Verdict
    <3> QED BY <2>2, <2>3, <2>4, <3>1, VerdictIs
  <2>6. Signal(p, r, top) = "long" => Signal(o, r, top) = "long"
    <3>1. CASE p.type \in {"hybrid", "true_momentum"}
      BY <2>2, <2>5, <3>1 DEF Signal, Toward
    <3>2. CASE p.type \notin {"hybrid", "true_momentum"}
      BY <2>2, <3>2 DEF Signal
    <3> QED BY <3>1, <3>2
  <2>7. OpenPlan(o, r, top, others) = "long"
    BY <2>2, <2>5, <2>6, LongStays
  <2> QED BY <2>7 DEF o
<1> QED BY <1>1, <1>2 DEF FiltersOnlyBlock

LEMMA OwnKept ==
  ASSUME NEW p, IsTrader(p), NEW r, NEW own \in {"long", "short"}
  PROVE  OwnIsKept(p, r, own)
<1> DEFINE sig == Signal(p, r, FALSE)
           plan == OwnPlan(p, r, own)
<1>1. plan = Bidirectional(sig, own, FALSE, p.flags)
  BY DEF OwnPlan
<1>2. plan.close => /\ sig # own /\ sig # "neutral" /\ plan.opens \in {sig, "none"}
                    /\ plan.opens = "short" => p.flags.shorts
  <2>1. CASE sig = "neutral" \/ own = sig
    <3> HIDE DEF sig
    <3>1. plan = Held(own)
      BY <1>1, <2>1 DEF Bidirectional
    <3> QED BY <3>1 DEF Held
  <2>2. CASE sig # "neutral" /\ own # sig
    <3> HIDE DEF sig
    <3> QED BY <1>1, <2>2 DEF Bidirectional, Held
  <2> QED BY <2>1, <2>2
<1>3. sig \in {"long", "short", "neutral"}
  BY DEF Signal, AtrSignal, Toward
<1>4. ASSUME plan.close, p.type = "true_momentum", own = "long" PROVE ExitCaution(r)
  <2>1. sig = "short"
    <3> HIDE DEF sig, plan
    <3> QED BY <1>2, <1>3, <1>4
  <2>3. Verdict(p, r, FALSE) = "SHORT_REVIEW"
    BY <1>4, <2>1, SignalShort
  <2>2. MomentumVerdict(Stored(p.momentumMode, "review_only"), r) = "SHORT_REVIEW"
    BY <1>4, <2>3, VerdictIs
  <2> QED BY <2>2, MomentumShort DEF ExitCaution
<1> HIDE DEF sig, plan
<1> QED BY <1>2, <1>3, <1>4 DEF OwnIsKept, sig, plan

\* A profile opens only where what it trades on reads its side and nobody it must
\* not oppose opposes, a filter or a more careful mode only prevents longs, and
\* its own position is closed by a signal against it only (agent_mode's
\* indicator_eligibility, directional and service modules), for any readings.
THEOREM TriggersStaySound ==
  \A p, r, top : \A others \in SUBSET {"long", "short"} :
    IsTrader(p) => /\ OpensAreEarned(p, r, top, others)
                   /\ FiltersOnlyBlock(p, r, top, others)
                   /\ \A own \in {"long", "short"} : OwnIsKept(p, r, own)
<1>1. ASSUME NEW p, NEW r, NEW top, NEW others \in SUBSET {"long", "short"}, IsTrader(p)
      PROVE  FiltersOnlyBlock(p, r, top, others)
  <2>1. CASE OpenPlan(p, r, top, others) = "long"
    BY <1>1, <2>1, FiltersBlock
  <2>2. CASE OpenPlan(p, r, top, others) # "long"
    BY <2>2 DEF FiltersOnlyBlock
  <2> QED BY <2>1, <2>2
<1> QED BY <1>1, OpensEarned, OwnKept

(***************************************************************************)
(* The market-risk calendar                                                *)
(***************************************************************************)

\* Settings under which the window asked of the provider holds every event the
\* decision is about: before and after differ by little, and a release blocks
\* for three days at most.
IsCalendar(cfg) ==
  /\ cfg.before \in Nat /\ cfg.after \in Nat
  /\ cfg.before <= 2 \/ cfg.before <= cfg.after
  /\ cfg.after <= 2 \/ cfg.after <= cfg.before
  /\ cfg.macroBefore \in Nat /\ cfg.macroAfter \in Nat
  /\ cfg.macroBefore <= 4320 /\ cfg.macroAfter <= 4320
  /\ cfg.modeBlocks \in BOOLEAN /\ cfg.blocksHighImpact \in BOOLEAN

\* What is asked about a moment; an event does not end before it starts.
IsAsked(q) ==
  /\ q.now \in Nat /\ q.events \in Seq({q.events[i] : i \in DOMAIN q.events})
  /\ \A i \in DOMAIN q.events :
       /\ q.events[i].starts \in Nat /\ q.events[i].ends \in Nat
       /\ q.events[i].starts <= q.events[i].ends
  /\ q.points # NoContext => \A s \in DOMAIN q.points : q.points[s].asOf \in Int

\* The decisions there are: their parts agree.
IsDecision(d) ==
  /\ d.state \in {"normal", "caution", "restricted", "requires_event_evidence", "no_trade",
                  "data_quality_block"}
  /\ d.allow \in BOOLEAN /\ d.confirm \in BOOLEAN
  /\ d.allow <=> d.state \in {"normal", "caution", "restricted"}
  /\ d.confirm <=> d.state = "restricted"

LEMMA SeverityIs == ASSUME NEW d, IsDecision(d) PROVE Severity(d) \in 0..5
<1> QED BY DEF IsDecision, Severity

LEMMA NormalIs == IsDecision(Normal) /\ IsDecision(Caution) /\ Severity(Normal) = 0
<1> QED BY DEF IsDecision, Normal, Caution, Decision, Severity

LEMMA QualityIs == ASSUME NEW cfg, NEW q PROVE IsDecision(QualityDecision(cfg, q))
<1>1. CASE OutOfSession(cfg, q) /\ cfg.sessionBlocks
  BY <1>1 DEF QualityDecision, IsDecision, Decision
<1>2. CASE OutOfSession(cfg, q) /\ ~cfg.sessionBlocks
  BY <1>2, NormalIs DEF QualityDecision
<1>3. CASE ~OutOfSession(cfg, q) /\ IndexFlags(cfg, q.points, q.now) # {}
  BY <1>3, NormalIs DEF QualityDecision
<1>4. CASE ~OutOfSession(cfg, q) /\ IndexFlags(cfg, q.points, q.now) = {}
  BY <1>4, NormalIs DEF QualityDecision
<1> QED BY <1>1, <1>2, <1>3, <1>4

LEMMA IndexIs == ASSUME NEW cfg, NEW q PROVE IsDecision(IndexDecision(cfg, q))
<1> DEFINE effects == IF q.points = NoContext \/ ~cfg.indexRisk THEN {} ELSE IndexEffects(cfg, q.points)
<1>1. IndexDecision(cfg, q) = CASE "restricted" \in effects -> Decision("restricted", TRUE, TRUE, "reduce_size")
                                [] effects = {"caution"}    -> Caution
                                [] OTHER                    -> Normal
  BY DEF IndexDecision
<1> HIDE DEF effects
<1>2. CASE "restricted" \in effects
  <2>1. effects # {"caution"}
    BY <1>2
  <2>2. IndexDecision(cfg, q) = Decision("restricted", TRUE, TRUE, "reduce_size")
    BY <1>1, <1>2, <2>1
  <2> QED BY <2>2 DEF IsDecision, Decision
<1>3. CASE "restricted" \notin effects /\ effects = {"caution"}
  BY <1>1, <1>3, NormalIs
<1>4. CASE "restricted" \notin effects /\ effects # {"caution"}
  BY <1>1, <1>4, NormalIs
<1> QED BY <1>2, <1>3, <1>4

LEMMA MarketIs ==
  ASSUME NEW cfg, IsCalendar(cfg), NEW e PROVE IsDecision(MarketDecision(cfg, e))
<1> DEFINE blocks == cfg.modeBlocks \/ cfg.blocksHighImpact
<1>0. blocks \in BOOLEAN
  BY DEF IsCalendar
<1>1. CASE e.kind \in Macro /\ e.impact \in {"high", "extreme"}
  <2>1. MarketDecision(cfg, e) = Decision(IF blocks THEN "no_trade" ELSE "restricted", ~blocks, ~blocks,
                                          IF blocks THEN "sit_out" ELSE "wait")
    BY <1>1 DEF MarketDecision, Macro
  <2> HIDE DEF blocks
  <2>2. CASE blocks
    <3>1. (~blocks) = FALSE
      BY <2>2
    <3>2. MarketDecision(cfg, e) = Decision("no_trade", FALSE, FALSE, "sit_out")
      BY <2>1, <2>2, <3>1
    <3> QED BY <3>2 DEF IsDecision, Decision
  <2>3. CASE ~blocks
    <3>1. (~blocks) = TRUE
      BY <2>3
    <3>2. MarketDecision(cfg, e) = Decision("restricted", TRUE, TRUE, "wait")
      BY <2>1, <2>3, <3>1
    <3> QED BY <3>2 DEF IsDecision, Decision
  <2> QED BY <2>2, <2>3
<1>2. CASE e.kind = "market_holiday"
  BY <1>2 DEF MarketDecision, Macro, IsDecision, Decision
<1>3. CASE e.kind = "market_half_day"
  BY <1>3 DEF MarketDecision, Macro, IsDecision, Decision
<1>4. CASE e.kind = "provider_data_issue"
  BY <1>4 DEF MarketDecision, Macro, IsDecision, Decision
<1>5. CASE /\ ~(e.kind \in Macro /\ e.impact \in {"high", "extreme"})
           /\ e.kind \notin {"market_holiday", "market_half_day", "provider_data_issue"}
  BY <1>5, NormalIs DEF MarketDecision
<1> QED BY <1>1, <1>2, <1>3, <1>4, <1>5

LEMMA EarningsIs ==
  ASSUME NEW q
  PROVE  /\ IsDecision(EarningsDecision(q))
         /\ Severity(EarningsDecision(q)) = IF CurrentEvidence(q) THEN 2 ELSE 3
<1> QED BY DEF EarningsDecision, IsDecision, Decision, Severity

\* The members of four lists, one after the other.
LEMMA ThirdOfFour ==
  ASSUME NEW D, NEW a \in Seq(D), NEW b \in Seq(D), NEW c \in Seq(D), NEW d \in Seq(D), NEW i \in 1..Len(c)
  PROVE  (a \o b \o c \o d)[Len(a) + Len(b) + i] = c[i]
<1> QED OBVIOUS

LEMMA SecondOfFour ==
  ASSUME NEW D, NEW a \in Seq(D), NEW b \in Seq(D), NEW c \in Seq(D), NEW d \in Seq(D), NEW i \in 1..Len(b)
  PROVE  (a \o b \o c \o d)[Len(a) + i] = b[i]
<1> QED OBVIOUS

LEMMA SourcesAre ==
  ASSUME NEW cfg, IsCalendar(cfg), NEW q, IsAsked(q)
  PROVE  LET n == Len(q.events)
             s == Sources(cfg, q)
         IN  /\ n \in Nat /\ DOMAIN q.events = 1..n /\ DOMAIN s = 1..(2 * n + 3)
             /\ \A i \in DOMAIN s : IsDecision(s[i])
             /\ \A i \in 1..n : /\ s[2 + i] = OfMarket(cfg, q.events[i], q)
                                /\ s[2 + n + i] = OfSymbol(cfg, q.events[i], q)
<1> DEFINE n == Len(q.events)
           s == Sources(cfg, q)
           a == <<QualityDecision(cfg, q), IndexDecision(cfg, q)>>
           b == [i \in DOMAIN q.events |-> OfMarket(cfg, q.events[i], q)]
           c == [i \in DOMAIN q.events |-> OfSymbol(cfg, q.events[i], q)]
           d == <<VolatilityDecision(cfg, q)>>
           D == {a[1], a[2], d[1]} \cup {b[i] : i \in DOMAIN q.events} \cup {c[i] : i \in DOMAIN q.events}
<1>1. n \in Nat /\ DOMAIN q.events = 1..n
  BY DEF IsAsked
<1>2. s = a \o b \o c \o d
  BY DEF Sources
<1>3. /\ a \in Seq(D) /\ Len(a) = 2 /\ b \in Seq(D) /\ Len(b) = n
      /\ c \in Seq(D) /\ Len(c) = n /\ d \in Seq(D) /\ Len(d) = 1
  <2>1. a \in Seq(D) /\ Len(a) = 2 /\ d \in Seq(D) /\ Len(d) = 1
    OBVIOUS
  <2>2. b \in [1..n -> D] /\ c \in [1..n -> D]
    BY <1>1
  <2>3. b \in Seq(D) /\ Len(b) = n /\ c \in Seq(D) /\ Len(c) = n
    <3> HIDE DEF b, c, D, n
    <3> QED BY <1>1, <2>2
  <2> QED BY <2>1, <2>3
<1>4. ASSUME NEW x \in D PROVE IsDecision(x)
  <2>1. IsDecision(VolatilityDecision(cfg, q))
    BY NormalIs DEF VolatilityDecision, IsDecision, Decision
  <2>2. ASSUME NEW e PROVE IsDecision(OfMarket(cfg, e, q)) /\ IsDecision(OfSymbol(cfg, e, q))
    BY MarketIs, NormalIs, EarningsIs DEF OfMarket, OfSymbol
  <2> QED BY <2>1, <2>2, QualityIs, IndexIs
<1> HIDE DEF a, b, c, d, D, n, s
<1>5. /\ s \in Seq(D) /\ Len(s) = 2 * n + 3
      /\ \A i \in 1..n : s[2 + i] = b[i] /\ s[2 + n + i] = c[i]
  <2>1. a \in Seq(D) /\ b \in Seq(D) /\ c \in Seq(D) /\ d \in Seq(D)
    BY <1>3
  <2>2. /\ a \o b \o c \o d \in Seq(D)
        /\ Len(a \o b \o c \o d) = Len(a) + Len(b) + Len(c) + Len(d)
        /\ \A i \in 1..Len(b) : (a \o b \o c \o d)[Len(a) + i] = b[i]
        /\ \A i \in 1..Len(c) : (a \o b \o c \o d)[Len(a) + Len(b) + i] = c[i]
    <3>1. /\ a \o b \o c \o d \in Seq(D)
          /\ Len(a \o b \o c \o d) = Len(a) + Len(b) + Len(c) + Len(d)
      BY <2>1
    <3>2. ASSUME NEW i \in 1..Len(b) PROVE (a \o b \o c \o d)[Len(a) + i] = b[i]
      BY <2>1, SecondOfFour
    <3>3. ASSUME NEW i \in 1..Len(c) PROVE (a \o b \o c \o d)[Len(a) + Len(b) + i] = c[i]
      BY <2>1, ThirdOfFour
    <3> QED BY <3>1, <3>2, <3>3
  <2>3. /\ s \in Seq(D) /\ Len(s) = Len(a) + Len(b) + Len(c) + Len(d)
        /\ \A i \in 1..Len(b) : s[Len(a) + i] = b[i]
        /\ \A i \in 1..Len(c) : s[Len(a) + Len(b) + i] = c[i]
    BY <1>2, <2>2, Zenon
  <2>4. 2 + n + n + 1 = 2 * n + 3
    BY <1>1
  <2> QED BY <1>3, <2>3, <2>4
<1>6. DOMAIN s = 1..(2 * n + 3) /\ \A i \in DOMAIN s : IsDecision(s[i])
  BY <1>1, <1>4, <1>5
<1>7. \A i \in 1..n : b[i] = OfMarket(cfg, q.events[i], q) /\ c[i] = OfSymbol(cfg, q.events[i], q)
  BY <1>1 DEF b, c
<1> QED BY <1>1, <1>5, <1>6, <1>7 DEF n, s

\* The strongest of decisions is one of them, and none is stronger.
LEMMA StrongestIs ==
  ASSUME NEW n \in Nat \ {0}, NEW s, DOMAIN s = 1..n, \A i \in 1..n : IsDecision(s[i])
  PROVE  IsDecision(Strongest(s)) /\ \A j \in 1..n : Severity(s[j]) <= Severity(Strongest(s))
<1> DEFINE sev(i) == Severity(s[i])
           first(i) == \A j \in DOMAIN s : sev(j) <= sev(i) /\ (j < i => sev(j) < sev(i))
           best == CHOOSE i \in DOMAIN s : first(i)
<1>1. \A i \in 1..n : sev(i) \in 0..5
  BY SeverityIs
<1>2. Strongest(s) = s[best]
  BY DEF Strongest
<1> HIDE DEF sev
<1>3. PICK t \in {5 - sev(i) : i \in 1..n} : \A u \in {5 - sev(i) : i \in 1..n} : t <= u
  <2>1. {5 - sev(i) : i \in 1..n} \in SUBSET Nat /\ {5 - sev(i) : i \in 1..n} # {}
    BY <1>1
  <2> QED BY <2>1, LeastElement
<1>4. PICK m \in {i \in 1..n : 5 - sev(i) = t} : \A k \in {i \in 1..n : 5 - sev(i) = t} : m <= k
  <2>1. {i \in 1..n : 5 - sev(i) = t} \in SUBSET Nat /\ {i \in 1..n : 5 - sev(i) = t} # {}
    BY <1>3
  <2> QED BY <2>1, LeastElement
<1>5. first(m)
  <2> SUFFICES ASSUME NEW j \in 1..n PROVE sev(j) <= sev(m) /\ (j < m => sev(j) < sev(m))
    OBVIOUS
  <2>1. t <= 5 - sev(j) /\ 5 - sev(m) = t /\ sev(j) \in 0..5 /\ sev(m) \in 0..5
    BY <1>1, <1>3, <1>4
  <2>2. j < m => 5 - sev(j) # t
    BY <1>4
  <2> QED BY <2>1, <2>2
<1>6. best \in 1..n /\ first(best)
  <2>1. \E i \in DOMAIN s : first(i)
    BY <1>4, <1>5
  <2> QED BY <2>1
<1> HIDE DEF best
<1>7. \A j \in 1..n : sev(j) <= sev(best)
  BY <1>6
<1> QED BY <1>2, <1>6, <1>7 DEF sev

\* An event that matters lies in the window asked of the provider.
LEMMA ActiveIsListed ==
  ASSUME NEW cfg, IsCalendar(cfg), NEW q, q.now \in Nat,
         NEW e, e.starts \in Nat, e.ends \in Nat, e.starts <= e.ends,
         e.about = {} \/ q.symbol = NoSymbol \/ q.symbol \in e.about,
         Active(cfg, e, q.now) \/ InsideEarningsWindow(cfg, e, q.now)
  PROVE  Listed(cfg, e, q)
<1> DEFINE back  == Longer(3, cfg.before + 1)
           ahead == Longer(3, cfg.after + 1)
<1>1. /\ back \in Nat /\ ahead \in Nat /\ 3 <= back /\ 3 <= ahead
      /\ cfg.after + 1 <= back /\ cfg.before + 1 <= ahead
  BY DEF Longer, IsCalendar
<1>2. CASE Active(cfg, e, q.now)
  <2>1. e.starts <= q.now + 4320 /\ q.now <= e.ends + 4320
    <3>1. CASE e.kind \in Macro
      <4> DEFINE around == IF e.kind \in Macro THEN <<cfg.macroBefore, cfg.macroAfter>> ELSE <<0, 0>>
      <4>1. e.starts - around[1] <= q.now /\ q.now <= e.ends + around[2]
        BY <1>2 DEF Active
      <4>2. around[1] = cfg.macroBefore /\ around[2] = cfg.macroAfter
        BY <3>1
      <4>3. /\ cfg.macroBefore \in Nat /\ cfg.macroBefore <= 4320
            /\ cfg.macroAfter \in Nat /\ cfg.macroAfter <= 4320
        BY DEF IsCalendar
      <4>4. e.starts - cfg.macroBefore <= q.now /\ q.now <= e.ends + cfg.macroAfter
        BY <4>1, <4>2
      <4> HIDE DEF around
      <4>5. e.starts \in Nat /\ e.ends \in Nat /\ q.now \in Nat
        OBVIOUS
      <4>6. e.starts <= q.now + 4320
        BY <4>3, <4>4, <4>5
      <4>7. q.now <= e.ends + 4320
        BY <4>3, <4>4, <4>5
      <4> QED BY <4>6, <4>7
    <3>2. CASE e.kind \notin Macro
      <4>1. e.starts - 0 <= q.now /\ q.now <= e.ends + 0
        BY <1>2, <3>2 DEF Active
      <4> QED BY <4>1
    <3> QED BY <3>1, <3>2
  <2> HIDE DEF back, ahead
  <2>2. e.ends >= q.now - 1440 * back /\ e.starts <= q.now + 1440 * ahead
    BY <1>1, <2>1
  <2> QED BY <2>2 DEF Listed, back, ahead
<1>3. CASE InsideEarningsWindow(cfg, e, q.now)
  <2> DEFINE u == UtcDay(q.now)
             v == UtcDay(e.starts)
  <2>1. /\ u \in Nat /\ 1440 * u <= q.now + 240 /\ q.now + 240 < 1440 * (u + 1)
        /\ v \in Nat /\ 1440 * v <= e.starts + 240 /\ e.starts + 240 < 1440 * (v + 1)
    <3>1. \A x \in Nat : /\ (x + 240) \div 1440 \in Nat
                         /\ 1440 * ((x + 240) \div 1440) <= x + 240
                         /\ x + 240 < 1440 * (((x + 240) \div 1440) + 1)
      BY DivisionBounds
    <3> QED BY <3>1 DEF UtcDay
  <2>2. v - cfg.before <= u /\ u <= v + cfg.after
    BY <1>3, <2>1 DEF InsideEarningsWindow, IsCalendar
  <2> HIDE DEF u, v, back, ahead
  <2>3. e.starts <= q.now + 1440 * ahead
    BY <1>1, <2>1, <2>2 DEF IsCalendar
  <2>4. e.ends >= q.now - 1440 * back
    BY <1>1, <2>1, <2>2 DEF IsCalendar
  <2> QED BY <2>3, <2>4 DEF Listed, back, ahead
<1> QED BY <1>2, <1>3

\* Whatever the settings of the calendar and the events, index data, candles and
\* evidence it knows, no event it has in its window is masked and its readers agree
\* (MarketRiskCalendarService.assess, and generation, queue, agent and staging).
LEMMA EventsHeeded ==
  \A cfg, q : IsCalendar(cfg) /\ IsAsked(q) => NothingIsMasked(cfg, q) /\ ConsumersAgree(cfg, q)
<1> SUFFICES ASSUME NEW cfg, NEW q, IsCalendar(cfg), IsAsked(q)
             PROVE  NothingIsMasked(cfg, q) /\ ConsumersAgree(cfg, q)
  OBVIOUS
<1> DEFINE n == Len(q.events)
           s == Sources(cfg, q)
           d == Assess(cfg, q)
<1>1. /\ n \in Nat /\ DOMAIN q.events = 1..n /\ DOMAIN s = 1..(2 * n + 3)
      /\ \A i \in DOMAIN s : IsDecision(s[i])
      /\ \A i \in 1..n : /\ s[2 + i] = OfMarket(cfg, q.events[i], q)
                         /\ s[2 + n + i] = OfSymbol(cfg, q.events[i], q)
  BY SourcesAre
<1> HIDE DEF n, s
<1>2. /\ IsDecision(Strongest(s))
      /\ \A j \in 1..(2 * n + 3) : Severity(s[j]) <= Severity(Strongest(s))
  <2>1. 2 * n + 3 \in Nat \ {0} /\ \A i \in 1..(2 * n + 3) : IsDecision(s[i])
    BY <1>1
  <2> QED BY <1>1, <2>1, StrongestIs
<1>3. d = IF ~cfg.enabled THEN Normal ELSE Strongest(s)
  BY DEF Assess, s
<1> HIDE DEF d
<1>4. NothingIsMasked(cfg, q)
  <2> SUFFICES ASSUME cfg.enabled, NEW i \in 1..n
               PROVE  Severity(d) >= Promised(cfg, q.events[i], q)
    BY <1>1 DEF NothingIsMasked, d
  <2> DEFINE e == q.events[i]
  <2>1. /\ d = Strongest(s) /\ Severity(d) \in 0..5
        /\ Severity(s[2 + i]) <= Severity(d) /\ Severity(s[2 + n + i]) <= Severity(d)
    <3>1. 2 + i \in 1..(2 * n + 3) /\ 2 + n + i \in 1..(2 * n + 3)
      BY <1>1
    <3> QED BY <1>2, <1>3, <3>1, SeverityIs
  <2>2. /\ e.starts \in Nat /\ e.ends \in Nat /\ e.starts <= e.ends /\ q.now \in Nat
        /\ s[2 + i] = OfMarket(cfg, e, q) /\ s[2 + n + i] = OfSymbol(cfg, e, q)
    BY <1>1 DEF IsAsked
  <2>3. q.events[i] = e
    OBVIOUS
  <2> HIDE DEF e
  <2>4. CASE ~(e.about = {} \/ q.symbol = NoSymbol \/ q.symbol \in e.about)
    BY <2>1, <2>3, <2>4 DEF Promised
  <2>5. CASE /\ e.about = {} \/ q.symbol = NoSymbol \/ q.symbol \in e.about
             /\ e.kind \in Earnings
    <3>1. CASE ~cfg.avoidsEarnings \/ q.symbol = NoSymbol \/ ~InsideEarningsWindow(cfg, e, q.now)
      BY <2>1, <2>3, <2>5, <3>1 DEF Promised
    <3>2. CASE cfg.avoidsEarnings /\ q.symbol # NoSymbol /\ InsideEarningsWindow(cfg, e, q.now)
      <4>1. Listed(cfg, e, q)
        BY <2>2, <2>5, <3>2, ActiveIsListed
      <4>2. s[2 + n + i] = EarningsDecision(q)
        BY <2>2, <2>5, <3>2, <4>1 DEF OfSymbol
      <4>3. Promised(cfg, e, q) = IF CurrentEvidence(q) THEN 2 ELSE 3
        BY <2>5, <3>2 DEF Promised
      <4> QED BY <2>1, <2>3, <4>2, <4>3, EarningsIs
    <3> QED BY <3>1, <3>2
  <2>6. CASE /\ e.about = {} \/ q.symbol = NoSymbol \/ q.symbol \in e.about
             /\ e.kind \notin Earnings
    <3>1. CASE ~Active(cfg, e, q.now)
      BY <2>1, <2>3, <2>6, <3>1 DEF Promised
    <3>2. CASE Active(cfg, e, q.now)
      <4>1. Listed(cfg, e, q)
        BY <2>2, <2>6, <3>2, ActiveIsListed
      <4>2. s[2 + i] = MarketDecision(cfg, e)
        BY <2>2, <2>6, <3>2, <4>1 DEF OfMarket
      <4>3. Promised(cfg, e, q) = Severity(MarketDecision(cfg, e))
        BY <2>6, <3>2 DEF Promised
      <4>4. Severity(MarketDecision(cfg, e)) \in 0..5
        BY MarketIs, SeverityIs
      <4> QED BY <2>1, <2>3, <4>2, <4>3, <4>4
    <3> QED BY <3>1, <3>2
  <2> QED BY <2>4, <2>5, <2>6
<1>5. IsDecision(d)
  BY <1>2, <1>3, NormalIs
<1>6. ConsumersAgree(cfg, q)
  <2>1. Refused(d) <=> ~d.allow
    BY <1>5 DEF Refused, IsDecision
  <2>2. QueueStatus("top_candidate", d) # "top_candidate" <=> ~d.allow
    BY <1>5 DEF QueueStatus, IsDecision
  <2>3. OrderVerdict(d, TRUE, TRUE) # "allowed" <=> Refused(d)
    <3>1. CASE Refused(d)
      BY <3>1 DEF OrderVerdict
    <3>2. CASE ~Refused(d)
      BY <3>2 DEF OrderVerdict
    <3> QED BY <3>1, <3>2
  <2>4. d.state = "restricted" <=> OrderVerdict(d, FALSE, FALSE) = "confirmation_required"
    <3>1. CASE Refused(d)
      BY <3>1 DEF OrderVerdict, Refused
    <3>2. CASE ~Refused(d) /\ d.confirm
      BY <1>5, <3>2 DEF OrderVerdict, IsDecision
    <3>3. CASE ~Refused(d) /\ ~d.confirm
      BY <1>5, <3>3 DEF OrderVerdict, IsDecision
    <3> QED BY <3>1, <3>2, <3>3
  <2> QED BY <2>1, <2>2, <2>3, <2>4 DEF ConsumersAgree, AgentSkips, d
<1> QED BY <1>4, <1>6

\* Arithmetic of the week.
LEMMA WeekParts ==
  ASSUME NEW d \in Int
  PROVE  \E w \in Int, r \in Int : d = 7 * w + r /\ 0 <= r /\ r <= 6 /\ d % 7 = r
<1>1. d % 7 \in Int /\ 0 <= d % 7 /\ d % 7 <= 6 /\ d = 7 * (d \div 7) + (d % 7) /\ d \div 7 \in Int
  BY Z3
<1> QED BY <1>1

LEMMA DayParts ==
  ASSUME NEW t \in Nat
  PROVE  DayOf(t) \in Nat /\ MinuteOf(t) \in Nat /\ MinuteOf(t) <= 1439 /\ t = 1440 * DayOf(t) + MinuteOf(t)
<1>1. t \div 1440 \in Nat /\ t % 1440 \in Int /\ 0 <= t % 1440 /\ t % 1440 <= 1439
      /\ t = 1440 * (t \div 1440) + (t % 1440)
  BY Z3
<1> QED BY <1>1 DEF DayOf, MinuteOf

LEMMA WeekdayBefore ==
  ASSUME NEW d \in Int
  PROVE  LET l == LastWeekday(d)
         IN  l \in Int /\ l <= d /\ ~Weekend(l) /\ \A x \in Int : l < x /\ x <= d => Weekend(x)
<1>1. \A x \in Int : \E w \in Int, r \in Int :
        x = 7 * w + r /\ 0 <= r /\ r <= 6 /\ (Weekend(x) <=> r >= 5)
  BY WeekParts DEF Weekend
<1>2. CASE ~Weekend(d)
  BY <1>2 DEF LastWeekday
<1>3. CASE Weekend(d) /\ ~Weekend(d - 1)
  <2>1. LastWeekday(d) = d - 1
    BY <1>3 DEF LastWeekday
  <2>2. ASSUME NEW x \in Int, d - 1 < x, x <= d PROVE Weekend(x)
    <3>1. x = d
      BY <2>2
    <3> QED BY <1>3, <3>1
  <2> QED BY <1>3, <2>1, <2>2
<1>4. CASE Weekend(d) /\ Weekend(d - 1)
  <2>1. LastWeekday(d) = d - 2
    BY <1>4 DEF LastWeekday
  <2>2. ~Weekend(d - 2)
    <3>1. PICK w \in Int, r \in Int : d = 7 * w + r /\ 0 <= r /\ r <= 6 /\ (Weekend(d) <=> r >= 5)
      BY <1>1
    <3>2. PICK w1 \in Int, r1 \in Int :
            d - 1 = 7 * w1 + r1 /\ 0 <= r1 /\ r1 <= 6 /\ (Weekend(d - 1) <=> r1 >= 5)
      <4>1. d - 1 \in Int
        OBVIOUS
      <4> QED BY <1>1, <4>1
    <3>3. PICK w2 \in Int, r2 \in Int :
            d - 2 = 7 * w2 + r2 /\ 0 <= r2 /\ r2 <= 6 /\ (Weekend(d - 2) <=> r2 >= 5)
      <4>1. d - 2 \in Int
        OBVIOUS
      <4> QED BY <1>1, <4>1
    <3>4. r >= 5 /\ r1 >= 5
      BY <1>4, <3>1, <3>2
    <3>5. r = 6 /\ w1 = w /\ r1 = 5
      BY <3>1, <3>2, <3>4
    <3>6. w2 = w /\ r2 = 4
      BY <3>1, <3>3, <3>5
    <3> QED BY <3>3, <3>6
  <2>3. ASSUME NEW x \in Int, d - 2 < x, x <= d PROVE Weekend(x)
    <3>1. x = d \/ x = d - 1
      BY <2>3
    <3> QED BY <1>4, <3>1
  <2> QED BY <2>1, <2>2, <2>3
<1> QED BY <1>2, <1>3, <1>4

\* Out of session the latest index timestamp that is expected is that of the last
\* close there was.
LEMMA ExpectedIsLastClose ==
  ASSUME NEW now \in Nat, ~InSession(now), NEW d \in Nat, d <= DayOf(now), ~Weekend(d), d * 1440 + 960 <= now
  PROVE  \E l \in Nat : /\ l <= DayOf(now) /\ ~Weekend(l) /\ d <= l
                        /\ ExpectedLatest(now) = l * 1440 + 960 /\ l * 1440 + 960 <= now
<1> DEFINE day == DayOf(now)
           min == MinuteOf(now)
<1>1. day \in Nat /\ min \in Nat /\ min <= 1439 /\ now = 1440 * day + min
  BY DayParts
<1>2. ~InSession(now) <=> Weekend(day) \/ min \notin 570..959
  BY DEF InSession
<1>3. CASE ~Weekend(day) /\ min >= 960
  <2>1. ExpectedLatest(now) = day * 1440 + 960
    BY <1>1, <1>2, <1>3 DEF ExpectedLatest
  <2> HIDE DEF day, min
  <2>2. day * 1440 + 960 <= now
    BY <1>1, <1>3
  <2> QED BY <1>1, <1>3, <2>1, <2>2 DEF day
<1>4. CASE ~(~Weekend(day) /\ min >= 960)
  <2> DEFINE l == LastWeekday(day - 1)
  <2>1. ExpectedLatest(now) = l * 1440 + 960
    BY <1>2, <1>4 DEF ExpectedLatest
  <2>2. /\ l \in Int /\ l <= day - 1 /\ ~Weekend(l)
        /\ \A x \in Int : l < x /\ x <= day - 1 => Weekend(x)
    <3>1. day - 1 \in Int
      BY <1>1
    <3> QED BY <3>1, WeekdayBefore
  <2> HIDE DEF l
  <2>3. d # day
    <3> SUFFICES ASSUME d = day PROVE FALSE
      OBVIOUS
    <3>1. min < 960
      BY <1>1, <1>4
    <3> HIDE DEF day, min
    <3> QED BY <1>1, <3>1
  <2> HIDE DEF day, min
  <2>4. d <= day - 1
    BY <1>1, <2>3 DEF day
  <2>5. ~(l < d)
    BY <2>2, <2>4
  <2>6. l \in Nat /\ d <= l /\ l <= day /\ l * 1440 + 960 <= now
    BY <1>1, <2>2, <2>5
  <2> QED BY <2>1, <2>2, <2>6 DEF day
<1> QED BY <1>3, <1>4

\* Index data that passes as current is of the last session, at any moment of any
\* week, as long as data may be old for less than the time between a close and
\* the next opening (_index_freshness_decision).
THEOREM FreshStaysCurrent ==
  \A cfg : \A asOf \in Int, now \in Nat :
    cfg.staleMinutes \in Nat \ {0} /\ cfg.staleMinutes <= 1060 => FreshIsOfLastSession(cfg, asOf, now)
<1> SUFFICES ASSUME NEW cfg, NEW asOf \in Int, NEW now \in Nat,
                    cfg.staleMinutes \in Nat \ {0}, cfg.staleMinutes <= 1060
             PROVE  FreshIsOfLastSession(cfg, asOf, now)
  OBVIOUS
<1> DEFINE open   == {n \in 0..DayOf(now) : ~Weekend(n)}
           closes == {d * 1440 + 960 : d \in open}
           past   == {c \in closes : c <= now}
           last   == CHOOSE c \in past : \A d \in past : d <= c
<1> SUFFICES ASSUME past # {}, asOf <= now
             PROVE  /\ Accepted(cfg, asOf, now) => asOf >= last - 30
                    /\ asOf = last /\ ~InSession(now) => Accepted(cfg, asOf, now)
  BY DEF FreshIsOfLastSession
<1>1. DayOf(now) \in Nat /\ MinuteOf(now) \in Nat /\ now = 1440 * DayOf(now) + MinuteOf(now)
  BY DayParts
<1>2. PICK d0 \in open : d0 * 1440 + 960 <= now
  OBVIOUS
<1>3. d0 \in Nat /\ d0 <= DayOf(now) /\ ~Weekend(d0)
  BY <1>1
<1>4. CASE InSession(now)
  <2>1. ~Weekend(DayOf(now)) /\ MinuteOf(now) >= 570 /\ MinuteOf(now) <= 959
    BY <1>4 DEF InSession
  <2>2. ASSUME NEW c \in past PROVE c \in Nat /\ c + 1050 <= now
    <3>1. PICK d \in open : c = d * 1440 + 960
      OBVIOUS
    <3>2. d \in Nat /\ d <= DayOf(now) /\ d * 1440 + 960 <= now
      BY <1>1, <3>1
    <3>3. d # DayOf(now)
      BY <1>1, <2>1, <3>2
    <3>4. d <= DayOf(now) - 1
      BY <1>1, <3>2, <3>3
    <3> QED BY <1>1, <2>1, <3>1, <3>2, <3>4
  <2>3. last \in past
    <3>1. \E c \in past : \A d \in past : d <= c
      <4> DEFINE T == {now - c : c \in past}
      <4>1. T \in SUBSET Nat /\ T # {}
        BY <2>2
      <4> HIDE DEF T
      <4>2. PICK t \in T : \A u \in T : t <= u
        BY <4>1, LeastElement
      <4>3. PICK c \in past : t = now - c
        BY DEF T
      <4>4. \A d \in past : t <= now - d
        BY <4>2 DEF T
      <4> HIDE DEF past
      <4>5. \A d \in past : d <= c
        BY <2>2, <4>3, <4>4
      <4> QED BY <4>3, <4>5
    <3> HIDE DEF past
    <3> QED BY <3>1
  <2> HIDE DEF last, past
  <2>4. last \in Nat /\ last + 1050 <= now
    BY <2>2, <2>3
  <2>5. ASSUME Accepted(cfg, asOf, now) PROVE asOf >= last - 30
    <3>1. now - asOf <= cfg.staleMinutes + 20
      BY <1>4, <2>5 DEF Accepted
    <3> QED BY <2>4, <3>1
  <2> QED BY <1>4, <2>5
<1>5. CASE ~InSession(now)
  <2> DEFINE e == ExpectedLatest(now)
  <2>1. e \in past
    <3>1. PICK l \in Nat : /\ l <= DayOf(now) /\ ~Weekend(l)
                           /\ e = l * 1440 + 960 /\ l * 1440 + 960 <= now
      BY <1>2, <1>3, <1>5, ExpectedIsLastClose
    <3>2. l \in open
      BY <1>1, <3>1
    <3> QED BY <3>1, <3>2
  <2>2. ASSUME NEW c \in past PROVE c <= e
    <3>1. PICK d \in open : c = d * 1440 + 960 /\ d * 1440 + 960 <= now
      OBVIOUS
    <3>2. d \in Nat /\ d <= DayOf(now) /\ ~Weekend(d)
      BY <1>1
    <3>3. PICK l \in Nat : d <= l /\ e = l * 1440 + 960
      BY <1>5, <3>1, <3>2, ExpectedIsLastClose
    <3> QED BY <3>1, <3>2, <3>3
  <2>3. past \subseteq Nat
    BY <1>1
  <2> HIDE DEF e, past
  <2>4. last \in past /\ \A d \in past : d <= last
    BY <2>1, <2>2
  <2> HIDE DEF last
  <2>5. last = e /\ e \in Nat
    <3>1. e <= last /\ last <= e
      BY <2>1, <2>2, <2>4
    <3> QED BY <2>1, <2>3, <2>4, <3>1
  <2>6. Accepted(cfg, asOf, now) <=> e - asOf <= 30
    BY <1>5 DEF Accepted, e
  <2> QED BY <2>5, <2>6
<1> QED BY <1>4, <1>5

\* Whatever the events, index data, candles and evidence the calendar knows, no
\* event it has in its window is masked, its readers agree and the index data that
\* passed is of the last session, under settings like the ones it comes with
\* (MarketRiskCalendarService.assess, _index_freshness_decision and generation,
\* queue, agent and staging).
THEOREM CalendarStaysHeeded ==
  \A cfg, q :
    IsCalendar(cfg) /\ cfg.staleMinutes \in Nat \ {0} /\ cfg.staleMinutes <= 1060 /\ IsAsked(q)
      => CalendarIsHeeded(cfg, q)
<1> SUFFICES ASSUME NEW cfg, NEW q, IsCalendar(cfg), IsAsked(q),
                    cfg.staleMinutes \in Nat \ {0}, cfg.staleMinutes <= 1060
             PROVE  CalendarIsHeeded(cfg, q)
  OBVIOUS
<1>1. NothingIsMasked(cfg, q) /\ ConsumersAgree(cfg, q)
  BY EventsHeeded
<1>2. ASSUME q.points # NoContext, NEW s \in DOMAIN q.points
      PROVE  FreshIsOfLastSession(cfg, q.points[s].asOf, q.now)
  <2>1. q.points[s].asOf \in Int /\ q.now \in Nat
    BY <1>2 DEF IsAsked
  <2>2. ASSUME NEW asOf \in Int, NEW now \in Nat PROVE FreshIsOfLastSession(cfg, asOf, now)
    BY FreshStaysCurrent
  <2> QED BY <2>1, <2>2
<1> QED BY <1>1, <1>2 DEF CalendarIsHeeded
=============================================================================
