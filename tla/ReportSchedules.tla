--------------------------- MODULE ReportSchedules ---------------------------
(***************************************************************************)
(* Strategy report schedules: run_due_schedules as the task scheduler      *)
(* starts it, the operator's "run now" and edits, the schedule rows and    *)
(* the reports they cause.                                                 *)
(*                                                                         *)
(* A batch lists the due schedules once and then runs them one by one, in  *)
(* the order in which the database returned them (the query asks for none).*)
(* Running one reads its row again, stores a run row, sends the report and *)
(* only then stores the next due time, in transactions of their own.  An   *)
(* exception ends the whole batch: only the failure of a heatmap to find   *)
(* usable rows is caught, and recorded as a failed run.                    *)
(*                                                                         *)
(* Left out: the contents of a report, the log of e-mails (written, never  *)
(* read), the command that runs the heatmaps only, and changes of daylight *)
(* saving time.                                                            *)
(***************************************************************************)
EXTENDS Naturals, FiniteSets

CONSTANTS
  Workers,       \* processes and request threads
  Schedules,
  NoSchedule,
  RunTimes,      \* run_time, as units after midnight
  Unparsable,    \* a run time or time zone that _next_run_at cannot read
  DayLength,     \* units in a day
  FirstWeekday,  \* the weekday of day 0; Monday is 0
  Punctual,      \* whether every batch worker completes a batch in each unit
  MaxClock,      \* bound on the time
  MaxMails,      \* bound on the count of mails, which stays there
  Limit,         \* bounds on the events that happen now and then
  MaxKinds       \* bound on the kinds of them in one behaviour

Frequencies == {"daily", "weekdays", "weekly"}
Kinds       == {"scan", "heatmap"}
Events      == {"edit", "break", "runNow", "noData", "mailFails", "crash"}

ASSUME ScheduleAssumption ==
  /\ NoSchedule \notin Schedules
  /\ DayLength \in Nat \ {0}
  /\ RunTimes \subseteq 0..(DayLength - 1)
  /\ Unparsable \notin RunTimes
  /\ FirstWeekday \in 0..6
  /\ Punctual \in BOOLEAN
  /\ MaxClock \in Nat
  /\ MaxMails \in Nat
  /\ Limit \in [Events -> Nat]
  /\ MaxKinds \in Nat

\* A due time is at most a week ahead of the clock.
Times == 0..(MaxClock + 8 * DayLength)
NoDue == 0

VARIABLES
  clock,
  schedules,  \* strategy_report_schedules rows
  history,    \* per schedule and due time: the statuses of its run rows
  mails,      \* per schedule and due time: how many reports were sent
  procs,      \* local variables of the batch or request each worker is running
  polled,     \* the workers that have begun a batch in this unit
  spent       \* how many events of each kind have happened

vars == <<clock, schedules, history, mails, procs, polled, spent>>

Row == [enabled: BOOLEAN,
        kind: Kinds,
        frequency: Frequencies,
        runTime: RunTimes \cup {Unparsable},
        reachable: BOOLEAN,   \* the mail provider accepts the recipient
        next: Times]          \* next_run_at

NoRow == <<>>

Proc == [at: {"idle", "load", "compose", "send", "mark", "apologise"},
         todo: SUBSET Schedules,
         schedule: Schedules \cup {NoSchedule},
         row: Row \cup {NoRow},
         due: Times,
         status: {"sent", "failed"}]

Idle == [at |-> "idle", todo |-> {}, schedule |-> NoSchedule, row |-> NoRow,
         due |-> NoDue, status |-> "sent"]

TypeOK ==
  /\ clock \in 0..MaxClock
  /\ schedules \in [Schedules -> Row]
  /\ history \in [Schedules -> [Times -> SUBSET {"sent", "failed"}]]
  /\ mails \in [Schedules -> [Times -> 0..MaxMails]]
  /\ procs \in [Workers -> Proc]
  /\ polled \subseteq Workers
  /\ spent \in [Events -> Nat]

(***************************************************************************)
(* The next due time                                                       *)
(***************************************************************************)

Day(t)     == t \div DayLength
Weekday(t) == (FirstWeekday + Day(t)) % 7

\* The days on which a report of this frequency is wanted.
Wanted(frequency, t) ==
  \/ frequency = "daily"
  \/ frequency = "weekdays" /\ Weekday(t) < 5
  \/ frequency = "weekly" /\ Weekday(t) = 0

\* The loop of _next_run_at: from today's run time on, day by day, until the
\* candidate is on a wanted day and no earlier than it may be.
FirstCandidate(now, frequency, runTime, earliest) ==
  LET candidate(k) == (Day(now) + k) * DayLength + runTime
      stops(k)     == Wanted(frequency, candidate(k)) /\ candidate(k) >= earliest
  IN  candidate(CHOOSE k \in 0..7 : stops(k) /\ \A j \in 0..(k - 1) : ~ stops(j))

\* Faulty variants: a candidate that is due at this very moment is accepted,
\* and a run time that is still to come today is not.
NextRunAt_Now(now, frequency, runTime) ==
  FirstCandidate(now, frequency, runTime, now)
NextRunAt_NotToday(now, frequency, runTime) ==
  FirstCandidate(now, frequency, runTime, (Day(now) + 1) * DayLength)

NextRunAt(now, frequency, runTime) ==
  FirstCandidate(now, frequency, runTime, now + 1)

\* A schedule as its creation leaves it: create_strategy_schedule computes
\* the next due time, which a run time or zone it cannot read prevents.  (One
\* created with a recipient whom the provider refuses is one that Break(s) made.)
Created == {row \in Row :
  /\ row.enabled /\ row.reachable
  /\ row.runTime \in RunTimes
  /\ row.next = NextRunAt(0, row.frequency, row.runTime)}

Init ==
  /\ clock = 0
  /\ schedules \in [Schedules -> Created]
  /\ history = [s \in Schedules |-> [t \in Times |-> {}]]
  /\ mails = [s \in Schedules |-> [t \in Times |-> 0]]
  /\ procs = [w \in Workers |-> Idle]
  /\ polled = {}
  /\ spent = [e \in Events |-> 0]

(***************************************************************************)
(* Time, and the operator                                                  *)
(***************************************************************************)

Spend(event) ==
  /\ spent[event] < Limit[event]
  /\ Cardinality({e \in Events : e = event \/ spent[e] > 0}) <= MaxKinds
  /\ spent' = [spent EXCEPT ![event] = @ + 1]

\* Every worker has completed a batch in this unit.
BatchOver == polled = Workers /\ \A w \in Workers : procs[w] = Idle

Advance ==
  /\ clock < MaxClock
  /\ Punctual => BatchOver
  /\ clock' = clock + 1
  /\ polled' = {}
  /\ UNCHANGED <<schedules, history, mails, procs, spent>>

\* update_strategy_schedule writes what the request names, and leaves the next
\* due time to the next run.
Edit(s) ==
  /\ Spend("edit")
  /\ \/ schedules' = [schedules EXCEPT ![s].enabled = ~ @]
     \/ \E t \in RunTimes : schedules' = [schedules EXCEPT ![s].runTime = t]
     \/ \E f \in Frequencies : schedules' = [schedules EXCEPT ![s].frequency = f]
     \/ \E k \in Kinds :  \* a new payload, with a recipient
          schedules' = [schedules EXCEPT ![s].kind = k, ![s].reachable = TRUE]
  /\ UNCHANGED <<clock, history, mails, procs, polled>>

\* It does not validate: a run time or zone that cannot be read, or a recipient
\* whom the provider refuses, is stored as well.  The recipient of a heatmap is
\* the account's own address, that of a scan is free text.
Break(s) ==
  /\ Spend("break")
  /\ \/ schedules' = [schedules EXCEPT ![s].runTime = Unparsable]
     \/ /\ schedules[s].kind = "scan"
        /\ schedules' = [schedules EXCEPT ![s].reachable = FALSE]
  /\ UNCHANGED <<clock, history, mails, procs, polled>>

(***************************************************************************)
(* A batch, or a request to run one schedule now                           *)
(***************************************************************************)

Due(s) == schedules[s].enabled /\ schedules[s].next <= clock

\* The worker moves on with these local variables ...
Goto(w, locals) ==
  /\ procs' = [procs EXCEPT ![w] = locals]
  /\ UNCHANGED <<clock, polled>>

\* ... or to the schedules that are left ...
Resume(w) ==
  Goto(w, IF procs[w].todo = {} THEN Idle
          ELSE [Idle EXCEPT !.at = "load", !.todo = procs[w].todo])

\* ... or an exception ends it, and with it the schedules that are left.
Abort(w) == Goto(w, Idle)

ListDue(w) ==
  LET due == {s \in Schedules : Due(s)} IN
  /\ procs[w] = Idle
  /\ procs' = [procs EXCEPT ![w] =
       IF due = {} THEN Idle ELSE [Idle EXCEPT !.at = "load", !.todo = due]]
  /\ polled' = polled \cup {w}
  /\ UNCHANGED <<clock, schedules, history, mails, spent>>

RunNow(w, s) ==
  /\ procs[w] = Idle
  /\ Spend("runNow")
  /\ Goto(w, [Idle EXCEPT !.at = "load", !.todo = {s}])
  /\ UNCHANGED <<schedules, history, mails>>

\* run_schedule reads the row again, and does not ask whether it is enabled or
\* still due.  The run is for the due time it finds, if that has come.
Load(w) ==
  /\ procs[w].at = "load"
  /\ \E s \in procs[w].todo :
       Goto(w, [procs[w] EXCEPT
         !.at = "compose", !.todo = @ \ {s}, !.schedule = s, !.row = schedules[s],
         !.due = IF schedules[s].next <= clock THEN schedules[s].next ELSE NoDue])
  /\ UNCHANGED <<schedules, history, mails, spent>>

\* create_run, which says what the mail that follows will have been.
AddRun(w, status) ==
  history' = [history EXCEPT ![procs[w].schedule][procs[w].due] = @ \cup {status}]

\* Faulty variant: a due time that has a run row is left alone.
Compose_OnlyOnce(w) ==
  /\ procs[w].at = "compose"
  /\ IF "sent" \in history[procs[w].schedule][procs[w].due]
     THEN Resume(w) /\ UNCHANGED history
     ELSE AddRun(w, "sent") /\ Goto(w, [procs[w] EXCEPT !.at = "send"])
  /\ UNCHANGED <<schedules, mails, spent>>

Compose(w) ==
  /\ procs[w].at = "compose"
  /\ AddRun(w, "sent")
  /\ Goto(w, [procs[w] EXCEPT !.at = "send"])
  /\ UNCHANGED <<schedules, mails, spent>>

\* When the market data cannot be had, a heatmap fails and goes on to its next
\* due time, and a scan raises.
ComposeFails(w) ==
  /\ procs[w].at = "compose"
  /\ Spend("noData")
  /\ \/ /\ procs[w].row.kind = "heatmap"
        /\ AddRun(w, "failed")
        /\ Goto(w, [procs[w] EXCEPT !.at = "mark", !.status = "failed"])
     \/ /\ procs[w].row.kind = "scan"
        /\ Abort(w)
        /\ UNCHANGED history
  /\ UNCHANGED <<schedules, mails>>

Send(w) ==
  /\ procs[w].at = "send"
  /\ procs[w].row.reachable
  /\ mails' = [mails EXCEPT ![procs[w].schedule][procs[w].due] =
                 IF @ < MaxMails THEN @ + 1 ELSE @]
  /\ Goto(w, [procs[w] EXCEPT !.at = "mark"])
  /\ UNCHANGED <<schedules, history, spent>>

\* Faulty variant: a report that cannot be sent is as good as sent.
SendFails_GoesOn(w) ==
  /\ procs[w].at = "send"
  /\ IF procs[w].row.reachable THEN Spend("mailFails") ELSE UNCHANGED spent
  /\ Goto(w, [procs[w] EXCEPT !.at = "mark"])
  /\ UNCHANGED <<schedules, history, mails>>

SendFails(w) ==
  /\ procs[w].at = "send"
  /\ IF procs[w].row.reachable THEN Spend("mailFails") ELSE UNCHANGED spent
  /\ Abort(w)
  /\ UNCHANGED <<schedules, history, mails>>

\* mark_schedule_run, with the next due time of the row that was read before.
Mark(w) ==
  LET row == procs[w].row IN
  /\ procs[w].at = "mark"
  /\ row.runTime # Unparsable
  /\ schedules' = [schedules EXCEPT ![procs[w].schedule].next =
                     NextRunAt(clock, row.frequency, row.runTime)]
  /\ IF procs[w].status = "failed"
     THEN Goto(w, [procs[w] EXCEPT !.at = "apologise"])
     ELSE Resume(w)
  /\ UNCHANGED <<history, mails, spent>>

MarkFails(w) ==
  /\ procs[w].at = "mark"
  /\ procs[w].row.runTime = Unparsable
  /\ Abort(w)
  /\ UNCHANGED <<schedules, history, mails, spent>>

\* The mail about a failed heatmap; that it cannot be sent is caught.
Apologise(w) ==
  /\ procs[w].at = "apologise"
  /\ Resume(w)
  /\ UNCHANGED <<schedules, history, mails, spent>>

Crash(w) ==
  /\ procs[w] # Idle
  /\ Spend("crash")
  /\ Abort(w)
  /\ UNCHANGED <<schedules, history, mails>>

-----------------------------------------------------------------------------

\* What a worker does of itself, once it is started.
Step(w) ==
  \/ Load(w) \/ Compose(w) \/ ComposeFails(w) \/ Send(w) \/ SendFails(w)
  \/ Mark(w) \/ MarkFails(w) \/ Apologise(w)

Next ==
  \/ Advance
  \/ \E s \in Schedules : Edit(s) \/ Break(s)
  \/ \E w \in Workers :
       \/ ListDue(w)
       \/ \E s \in Schedules : RunNow(w, s)
       \/ Step(w)
       \/ Crash(w)

Spec == Init /\ [][Next]_vars

\* The task scheduler starts batches for ever, and a batch that is started ends.
FairSpec ==
  /\ Spec
  /\ \A w \in Workers : WF_vars(ListDue(w) /\ procs'[w] # Idle) /\ WF_vars(Step(w))

(***************************************************************************)
(* Properties                                                              *)
(***************************************************************************)

\* One worker at a time sends the report of a due time once, through edits in
\* the middle of a run and requests to run it now, and once more for each time it
\* died between the mail and the mark, as long as no edit breaks a schedule
\* (Break): with a run time that cannot be read, marking it raises after its mail
\* is sent, so that the next batch sends it again (README, known divergences).
OncePerDue ==
  spent["break"] = 0 =>
    \A s \in Schedules : \A t \in Times \ {NoDue} : mails[s][t] <= 1 + spent["crash"]

\* A schedule never leaves a due time that has come behind, unless its report
\* was sent or its failure recorded: whatever fails before leaves it due.
NoneSkipped ==
  [][\A s \in Schedules :
       LET due == schedules[s].next IN
       schedules'[s].next # due /\ due <= clock
         => mails[s][due] > 0 \/ "failed" \in history[s][due]]_vars

\* The times that a frequency and a run time name.
Occurs(row, t) ==
  /\ t % DayLength = row.runTime
  /\ Wanted(row.frequency, t)

Undisturbed ==
  \A e \in {"edit", "break", "noData", "mailFails", "crash"} : spent[e] = 0

\* With punctual batches that nothing disturbs, a schedule is served at every
\* time its frequency and run time name: _next_run_at computes, one due time
\* after the other, what the operator asked for.
ServedOnTime ==
  Undisturbed =>
    \A s \in Schedules : \A t \in 1..clock :
      Occurs(schedules[s], t) /\ (t = clock => BatchOver) => mails[s][t] > 0

Healthy(s) == schedules[s].runTime \in RunTimes /\ schedules[s].reachable

\* A due schedule with a run time that can be read and a recipient that can be
\* reached is run, whatever fails for it or for other schedules that are due
\* with it, unless an operator has made one of them fail for ever.
DueAreServed ==
  \A s \in Schedules :
    Due(s) /\ Healthy(s) ~> ~ (Due(s) /\ Healthy(s)) \/ spent["break"] > 0

\* Nothing that was asked for is left out: an undisturbed schedule is served at
\* every time it names, and a disturbed one never steps over a due time
\* (_next_run_at, run_due_schedules).
NothingLeftOut == []ServedOnTime /\ NoneSkipped
=============================================================================
