-------------------------- MODULE ResearchProofs ----------------------------
(***************************************************************************)
(* Theorems about the strategy reports, for any schedules, workers,        *)
(* lengths of the day, run times and numbers of events; about the scans    *)
(* over bars, for any prices and losses; about heatmap views and           *)
(* watchlists, for any seeds, requests and symbols; about the folder of    *)
(* fixtures, for any manifests, files and computed values; and about the   *)
(* momentum scores, for any comparisons of a bar and of the bars before.   *)
(***************************************************************************)
EXTENDS ReportSchedules, MCResearch, MomentumScore,
        FiniteSetTheorems, WellFoundedInduction, TLAPS

(***************************************************************************)
(* The inductive invariants                                                *)
(***************************************************************************)

InRun(p) == p.at \in {"compose", "send", "mark"}

\* A worker that runs a schedule has read its row, at a time when what it found
\* due had come; only a run that failed is not a sent one.
LocalsOK ==
  \A w \in Workers :
    LET p == procs[w] IN
    /\ p.at = "idle" => p = Idle
    /\ p.at \in {"load", "compose", "send"} => p.status = "sent"
    /\ InRun(p) => p.schedule \in Schedules /\ p.row \in Row /\ p.due <= clock

\* No schedule is due at midnight of the first day.
NextAhead == \A s \in Schedules : schedules[s].next # NoDue

TypeInv == TypeOK /\ LocalsOK /\ NextAhead

\* A worker that is about to set the next due time has served the due time it
\* found, or has recorded that it failed.
Served ==
  \A w \in Workers :
    LET p == procs[w] IN
    p.at = "mark" /\ p.due # NoDue =>
      IF p.status = "sent" THEN mails[p.schedule][p.due] > 0
      ELSE "failed" \in history[p.schedule][p.due]

\* With punctual batches, a schedule that is due while it is run was due when
\* its run began.
Current ==
  \A w \in Workers :
    LET p == procs[w] IN
    InRun(p) /\ schedules[p.schedule].next <= clock =>
      p.due = schedules[p.schedule].next

\* Something will serve a schedule that is due now.
Coming(s) ==
  \E w \in Workers :
    \/ w \notin polled
    \/ s \in procs[w].todo
    \/ InRun(procs[w]) /\ procs[w].schedule = s

\* As long as nothing disturbs the batches, every time behind the next due time
\* was served, and that one is not behind the clock.
OnTime ==
  Undisturbed =>
    /\ \A s \in Schedules :
         /\ schedules[s].enabled /\ schedules[s].reachable
         /\ schedules[s].runTime \in RunTimes
         /\ \A t \in 1..(schedules[s].next - 1) :
              Occurs(schedules[s], t) => mails[s][t] > 0
         /\ clock <= schedules[s].next
         /\ schedules[s].next = clock => Coming(s)
    /\ \A w \in Workers :
         LET p == procs[w] IN
         InRun(p) =>
           /\ p.row.reachable /\ p.status = "sent"
           /\ p.row.runTime = schedules[p.schedule].runTime
           /\ p.row.frequency = schedules[p.schedule].frequency

PunctualInv == TypeInv /\ Served /\ Current /\ OnTime

\* A report that was sent for a due time belongs to the past, or to the next due
\* time; that one was sent as often as a worker died after it, and once more
\* while the worker is about to set the next.
SentOnce ==
  spent["break"] = 0 =>
    \A s \in Schedules :
      /\ schedules[s].runTime \in RunTimes
      /\ \A t \in Times \ {NoDue} :
           /\ mails[s][t] <= 1 + spent["crash"]
           /\ mails[s][t] > 0 => t <= clock /\ t <= schedules[s].next
      /\ mails[s][schedules[s].next] <= spent["crash"] +
           (IF \E w \in Workers : procs[w].at = "mark" /\ procs[w].schedule = s
            THEN 1 ELSE 0)

\* The due time that the only worker found is still the next one.
Owned ==
  \A w \in Workers :
    LET p == procs[w] IN
    InRun(p) =>
      /\ p.due \in {NoDue, schedules[p.schedule].next}
      /\ spent["break"] = 0 => p.row.runTime \in RunTimes

AloneInv == TypeInv /\ SentOnce /\ Owned

(***************************************************************************)
(* The next due time                                                       *)
(***************************************************************************)

LEMMA Quotient ==
  ASSUME NEW n \in Nat, NEW d \in Nat \ {0}
  PROVE  /\ n \div d \in Nat /\ n % d \in Nat /\ n % d < d
         /\ n = d * (n \div d) + (n % d)
<1>1. n \div d \in Nat
  OBVIOUS
<1>2. n = d * (n \div d) + (n % d) /\ n % d \in Nat
  OBVIOUS
<1>3. n % d < d
  OBVIOUS
<1> QED BY <1>1, <1>2, <1>3

\* A time is a day and a time of that day.
LEMMA DayOf ==
  ASSUME NEW d \in Nat, NEW r \in 0..(DayLength - 1)
  PROVE  /\ d * DayLength + r \in Nat
         /\ Day(d * DayLength + r) = d
         /\ (d * DayLength + r) % DayLength = r
<1> DEFINE n == d * DayLength + r
           q == n \div DayLength
           m == n % DayLength
<1>1. DayLength \in Nat \ {0} /\ r \in Nat /\ r < DayLength
  BY ScheduleAssumption
<1>2. n \in Nat
  BY <1>1
<1>3. q \in Nat /\ m \in Nat /\ m < DayLength /\ n = DayLength * q + m
  BY <1>1, <1>2
<1> HIDE DEF q, m
<1>4. d * DayLength + r = q * DayLength + m
  BY <1>1, <1>3
<1>5. ~ (q < d)
  <2> SUFFICES ASSUME q < d PROVE FALSE
    OBVIOUS
  <2>1. PICK e \in Nat : d = q + 1 + e
    <3>1. d - q - 1 \in Nat /\ d = q + 1 + (d - q - 1)
      BY <1>3
    <3> QED BY <3>1
  <2>2. d * DayLength = q * DayLength + DayLength + e * DayLength
    BY <1>1, <1>3, <2>1
  <2>3. e * DayLength \in Nat /\ q * DayLength \in Nat
    BY <1>1, <1>3
  <2> QED BY <1>1, <1>3, <1>4, <2>2, <2>3
<1>6. ~ (d < q)
  <2> SUFFICES ASSUME d < q PROVE FALSE
    OBVIOUS
  <2>1. PICK e \in Nat : q = d + 1 + e
    <3>1. q - d - 1 \in Nat /\ q = d + 1 + (q - d - 1)
      BY <1>3
    <3> QED BY <3>1
  <2>2. q * DayLength = d * DayLength + DayLength + e * DayLength
    BY <1>1, <1>3, <2>1
  <2>3. e * DayLength \in Nat /\ d * DayLength \in Nat
    BY <1>1
  <2> QED BY <1>1, <1>3, <1>4, <2>2, <2>3
<1>7. q = d /\ m = r
  <2>1. q = d
    BY <1>3, <1>5, <1>6
  <2> QED BY <1>1, <1>3, <1>4, <2>1
<1> QED BY <1>2, <1>7 DEF Day, q, m

LEMMA DayBounds ==
  ASSUME NEW t \in Nat
  PROVE  /\ Day(t) \in Nat /\ t % DayLength \in 0..(DayLength - 1)
         /\ t = Day(t) * DayLength + (t % DayLength)
<1> DEFINE q == t \div DayLength
           m == t % DayLength
<1>1. DayLength \in Nat \ {0}
  BY ScheduleAssumption
<1>2. q \in Nat /\ m \in Nat /\ m < DayLength /\ t = DayLength * q + m
  BY <1>1, Quotient
<1> HIDE DEF q, m
<1>3. DayLength * q = q * DayLength
  BY <1>1, <1>2
<1>4. m \in 0..(DayLength - 1) /\ t = q * DayLength + m
  BY <1>1, <1>2, <1>3
<1>5. Day(t) = q /\ t % DayLength = m
  BY DEF Day, q, m
<1> QED BY <1>2, <1>4, <1>5

\* The order of days is the order of the times at the same time of day.
LEMMA DaysInOrder ==
  ASSUME NEW a \in Nat, NEW b \in Nat, a < b
  PROVE  /\ a * DayLength + DayLength <= b * DayLength
         /\ a * DayLength \in Nat /\ b * DayLength \in Nat
<1>1. DayLength \in Nat \ {0}
  BY ScheduleAssumption
<1>2. PICK e \in Nat : b = a + 1 + e
  <2>1. b - a - 1 \in Nat /\ b = a + 1 + (b - a - 1)
    OBVIOUS
  <2> QED BY <2>1
<1>3. b * DayLength = a * DayLength + DayLength + e * DayLength
  BY <1>1, <1>2
<1>4. e * DayLength \in Nat /\ a * DayLength \in Nat
  BY <1>1
<1> QED BY <1>1, <1>3, <1>4

\* In seven days there is a Monday, on which every frequency is wanted.
LEMMA MondayComes ==
  ASSUME NEW x \in Nat
  PROVE  \E k \in 1..7 : (x + k) % 7 = 0
<1> DEFINE q == x \div 7
           m == x % 7
           k == 7 - m
<1>1. q \in Nat /\ m \in Nat /\ m < 7 /\ x = 7 * q + m
  BY Quotient
<1> HIDE DEF q, m
<1>2. k \in 1..7 /\ x + k = 7 * (q + 1)
  BY <1>1
<1>3. (7 * (q + 1)) % 7 = 0
  BY <1>1
<1> QED BY <1>2, <1>3

\* A non-empty set of small numbers has a smallest one.
LEMMA Smallest ==
  ASSUME NEW S \in SUBSET (0..7), S # {}
  PROVE  \E k \in S : \A j \in 0..(k - 1) : j \notin S
<1>1. CASE 0 \in S
  BY <1>1
<1>2. CASE 0 \notin S /\ 1 \in S
  BY <1>2
<1>3. CASE 0 \notin S /\ 1 \notin S /\ 2 \in S
  BY <1>3
<1>4. CASE 0 \notin S /\ 1 \notin S /\ 2 \notin S /\ 3 \in S
  BY <1>4
<1>5. CASE 0 \notin S /\ 1 \notin S /\ 2 \notin S /\ 3 \notin S /\ 4 \in S
  BY <1>5
<1>6. CASE S \cap (0..4) = {} /\ 5 \in S
  BY <1>6
<1>7. CASE S \cap (0..5) = {} /\ 6 \in S
  BY <1>7
<1>8. CASE S \cap (0..6) = {}
  <2>1. PICK x \in S : x \in 0..7 /\ x \notin 0..6
    BY <1>8
  <2>2. 7 \in S /\ \A j \in 0..(7 - 1) : j \notin S
    BY <1>8, <2>1
  <2> QED BY <2>2
<1> QED BY <1>1, <1>2, <1>3, <1>4, <1>5, <1>6, <1>7, <1>8

\* _next_run_at: the next due time is the first time after now that the
\* frequency and the run time name, and it is at most a week and a day ahead.
LEMMA NextIsFirst ==
  ASSUME NEW now \in Nat, NEW frequency \in Frequencies, NEW runTime \in RunTimes
  PROVE  LET n == NextRunAt(now, frequency, runTime) IN
         /\ n \in Nat /\ n > now /\ n < now + 8 * DayLength
         /\ \A t \in Nat :
              now < t /\ t < n => ~ (t % DayLength = runTime /\ Wanted(frequency, t))
<1> DEFINE d == Day(now)
           candidate(k) == (d + k) * DayLength + runTime
           stops(k) == Wanted(frequency, candidate(k)) /\ candidate(k) >= now + 1
           S == {k \in 0..7 : stops(k)}
<1>1. /\ DayLength \in Nat \ {0} /\ runTime \in 0..(DayLength - 1) /\ runTime \in Nat
      /\ FirstWeekday \in Nat
  BY ScheduleAssumption
<1>2. d \in Nat /\ now = d * DayLength + (now % DayLength)
      /\ now % DayLength \in 0..(DayLength - 1)
  BY DayBounds
<1>3. ASSUME NEW k \in Nat
      PROVE  candidate(k) \in Nat /\ Day(candidate(k)) = d + k
             /\ candidate(k) % DayLength = runTime
  <2>1. d + k \in Nat
    BY <1>2
  <2> HIDE DEF d
  <2> QED BY <1>1, <2>1, DayOf
<1> HIDE DEF d
<1>4. \A k \in 1..7 : candidate(k) >= now + 1
  <2> SUFFICES ASSUME NEW k \in 1..7 PROVE candidate(k) >= now + 1
    OBVIOUS
  <2>1. d * DayLength + DayLength <= (d + k) * DayLength
        /\ d * DayLength \in Nat /\ (d + k) * DayLength \in Nat
    BY <1>2, DaysInOrder
  <2> QED BY <1>1, <1>2, <2>1
<1>5. PICK m \in 1..7 : (FirstWeekday + d + m) % 7 = 0
  <2>1. FirstWeekday + d \in Nat
    BY <1>1, <1>2
  <2> QED BY <2>1, MondayComes
<1>6. m \in S
  <2>1. Weekday(candidate(m)) = 0
    <3>1. Day(candidate(m)) = d + m
      BY <1>3
    <3>2. FirstWeekday + (d + m) = FirstWeekday + d + m
      BY <1>1, <1>2
    <3> HIDE DEF candidate
    <3> QED BY <1>5, <3>1, <3>2 DEF Weekday
  <2>2. Wanted(frequency, candidate(m))
    BY <2>1 DEF Wanted, Frequencies
  <2> QED BY <1>4, <2>2
<1>7. \E k \in 0..7 : stops(k) /\ \A j \in 0..(k - 1) : ~ stops(j)
  <2> HIDE DEF stops
  <2>1. PICK k \in S : \A j \in 0..(k - 1) : j \notin S
    BY <1>6, Smallest
  <2> QED BY <2>1
<1> DEFINE c == CHOOSE k \in 0..7 : stops(k) /\ \A j \in 0..(k - 1) : ~ stops(j)
           n == NextRunAt(now, frequency, runTime)
<1>8. c \in 0..7 /\ stops(c) /\ \A j \in 0..(c - 1) : ~ stops(j)
  <2> HIDE DEF stops
  <2> QED BY <1>7
<1>9. n = candidate(c)
  BY DEF NextRunAt, FirstCandidate, d
<1> HIDE DEF c, n
<1>10. n \in Nat /\ n > now
  BY <1>3, <1>8, <1>9
<1>11. n < now + 8 * DayLength
  <2>1. (d + c) * DayLength = d * DayLength + c * DayLength /\ d * DayLength \in Nat
    BY <1>1, <1>2, <1>8
  <2>2. c * DayLength <= 7 * DayLength /\ c * DayLength \in Nat
    BY <1>1, <1>8
  <2> DEFINE x == d * DayLength
             y == c * DayLength
  <2>3. n = x + y + runTime /\ x \in Nat /\ y \in Nat /\ y <= 7 * DayLength
    BY <1>9, <2>1, <2>2
  <2>4. x <= now
    BY <1>2, <2>1
  <2> HIDE DEF x, y
  <2> QED BY <1>1, <2>3, <2>4
<1>12. ASSUME NEW t \in Nat, now < t, t < n, t % DayLength = runTime, Wanted(frequency, t)
       PROVE  FALSE
  <2>0. now < t /\ t < n
    BY <1>12
  <2>1. Day(t) \in Nat /\ t = Day(t) * DayLength + runTime
    <3> DEFINE r == t % DayLength
    <3>1. Day(t) \in Nat /\ t = Day(t) * DayLength + r
      BY DayBounds
    <3>2. r = runTime
      BY <1>12
    <3> HIDE DEF r
    <3> QED BY <3>1, <3>2
  <2>2. d <= Day(t)
    <3> SUFFICES ASSUME Day(t) < d PROVE FALSE
      BY <1>2, <2>1
    <3>1. Day(t) * DayLength + DayLength <= d * DayLength
          /\ Day(t) * DayLength \in Nat /\ d * DayLength \in Nat
      BY <1>2, <2>1, DaysInOrder
    <3>2. d * DayLength <= now
      BY <1>2, <3>1
    <3> DEFINE x == Day(t) * DayLength
               y == d * DayLength
    <3>3. x + DayLength <= y /\ y <= now /\ t = x + runTime /\ x \in Nat /\ y \in Nat
      BY <2>1, <3>1, <3>2
    <3> HIDE DEF x, y
    <3> QED BY <1>1, <2>0, <3>3
  <2>3. Day(t) < d + c
    <3> SUFFICES ASSUME d + c <= Day(t) PROVE FALSE
      BY <1>2, <1>8, <2>1
    <3>1. (d + c) * DayLength <= Day(t) * DayLength
          /\ Day(t) * DayLength \in Nat /\ (d + c) * DayLength \in Nat
      <4>1. CASE d + c = Day(t)
        BY <1>1, <2>1, <4>1
      <4>2. CASE d + c < Day(t)
        BY <1>1, <1>2, <1>8, <2>1, <4>2, DaysInOrder
      <4> QED BY <1>2, <1>8, <2>1, <4>1, <4>2
    <3> QED BY <1>1, <1>9, <1>10, <2>0, <2>1, <3>1
  <2> DEFINE j == Day(t) - d
  <2>4. j \in 0..(c - 1) /\ d + j = Day(t)
    BY <1>2, <1>8, <2>1, <2>2, <2>3
  <2>5. candidate(j) = t
    BY <2>1, <2>4
  <2>6. stops(j)
    BY <1>12, <2>5
  <2> HIDE DEF stops, j
  <2> QED BY <1>8, <2>4, <2>6
<1> QED BY <1>10, <1>11, <1>12 DEF n

(***************************************************************************)
(* Types                                                                   *)
(***************************************************************************)

\* Where a worker goes from a schedule that it has finished with.
Rest(p) == IF p.todo = {} THEN Idle ELSE [Idle EXCEPT !.at = "load", !.todo = p.todo]

\* The local variables that LocalsOK allows.
Sound(p) ==
  /\ p \in Proc
  /\ p.at = "idle" => p = Idle
  /\ p.at \in {"load", "compose", "send"} => p.status = "sent"
  /\ InRun(p) => p.schedule \in Schedules /\ p.row \in Row /\ p.due <= clock

LEMMA IdleSound == Sound(Idle) /\ ~ InRun(Idle) /\ Idle.todo = {}
  BY ScheduleAssumption DEF Sound, Idle, Proc, InRun, NoDue, Times, NoRow

LEMMA RestSound ==
  ASSUME NEW p \in Proc
  PROVE  Sound(Rest(p)) /\ ~ InRun(Rest(p)) /\ Rest(p).todo = p.todo
<1>1. CASE p.todo = {}
  BY <1>1, IdleSound DEF Rest
<1>2. CASE p.todo # {}
  <2>1. Rest(p) = [at |-> "load", todo |-> p.todo, schedule |-> NoSchedule,
                   row |-> NoRow, due |-> NoDue, status |-> "sent"]
    BY <1>2 DEF Rest, Idle
  <2>2. p.todo \subseteq Schedules
    BY DEF Proc
  <2>3. NoDue \in Times
    BY ScheduleAssumption DEF NoDue, Times
  <2> QED BY <2>1, <2>2, <2>3 DEF Sound, Proc, InRun
<1> QED BY <1>1, <1>2

\* A worker's new local variables, and everyone's.
LEMMA Moves ==
  ASSUME TypeInv, NEW w \in Workers, NEW p, Sound(p),
         procs' = [procs EXCEPT ![w] = p], clock' = clock
  PROVE  /\ procs' \in [Workers -> Proc] /\ LocalsOK'
         /\ \A u \in Workers : procs'[u] = IF u = w THEN p ELSE procs[u]
<1>1. \A u \in Workers : procs'[u] = IF u = w THEN p ELSE procs[u]
  BY DEF TypeInv, TypeOK
<1>2. procs' \in [Workers -> Proc]
  BY DEF TypeInv, TypeOK, Sound
<1>3. LocalsOK'
  <2> SUFFICES ASSUME NEW u \in Workers
               PROVE  /\ procs'[u].at = "idle" => procs'[u] = Idle
                      /\ procs'[u].at \in {"load", "compose", "send"}
                           => procs'[u].status = "sent"
                      /\ InRun(procs'[u]) =>
                           /\ procs'[u].schedule \in Schedules
                           /\ procs'[u].row \in Row /\ procs'[u].due <= clock
    BY DEF LocalsOK
  <2>1. CASE u = w
    <3>1. procs'[u] = p
      BY <1>1, <2>1
    <3> QED BY <3>1 DEF Sound
  <2>2. CASE u # w
    <3>1. procs'[u] = procs[u]
      BY <1>1, <2>2
    <3> QED BY <3>1 DEF TypeInv, LocalsOK
  <2> QED BY <2>1, <2>2
<1> QED BY <1>1, <1>2, <1>3

\* A worker that runs a schedule, with its locals named.
LEMMA Running ==
  ASSUME TypeInv, NEW w \in Workers, InRun(procs[w])
  PROVE  /\ procs[w] \in Proc /\ procs[w].todo \subseteq Schedules
         /\ procs[w].schedule \in Schedules /\ procs[w].row \in Row
         /\ procs[w].due \in Times /\ procs[w].due <= clock
         /\ procs[w].status \in {"sent", "failed"}
<1>1. procs[w] \in Proc
  BY DEF TypeInv, TypeOK
<1>2. procs[w].schedule \in Schedules /\ procs[w].row \in Row /\ procs[w].due <= clock
  BY DEF TypeInv, LocalsOK
<1> QED BY <1>1, <1>2 DEF Proc

\* A worker that goes on with the schedule it runs.
Onward(p, at, status) == [p EXCEPT !.at = at, !.status = status]

LEMMA GoesOn ==
  ASSUME TypeInv, NEW w \in Workers, InRun(procs[w]), NEW at \in {"send", "mark"},
         NEW status \in {"sent", "failed"}, at = "send" => status = "sent",
         NEW p, p = Onward(procs[w], at, status)
  PROVE  /\ Sound(p) /\ InRun(p)
         /\ p.at = at /\ p.status = status /\ p.todo = procs[w].todo
         /\ p.schedule = procs[w].schedule /\ p.row = procs[w].row
         /\ p.due = procs[w].due
<1> DEFINE q == procs[w]
<1>1. /\ q \in Proc /\ q.schedule \in Schedules /\ q.row \in Row /\ q.due <= clock
  BY Running
<1> HIDE DEF q
<1>2. p = [q EXCEPT !.at = at, !.status = status]
  BY DEF q, Onward
<1>3. /\ p \in Proc /\ p.at = at /\ p.status = status /\ p.todo = q.todo
      /\ p.schedule = q.schedule /\ p.row = q.row /\ p.due = q.due
  BY <1>1, <1>2 DEF Proc
<1>4. InRun(p) /\ p.at # "idle" /\ p.at \notin {"load", "compose"}
  BY <1>3 DEF InRun
<1>5. Sound(p)
  BY <1>1, <1>3, <1>4 DEF Sound
<1> QED BY <1>3, <1>4, <1>5 DEF q

\* Reading a row: the worker now runs one of the schedules it had left to run.
LEMMA LoadStep ==
  ASSUME TypeInv, NEW w \in Workers, Load(w)
  PROVE  \E s \in procs[w].todo, p \in Proc :
           /\ s \in Schedules /\ Sound(p) /\ InRun(p) /\ ~ InRun(procs[w])
           /\ procs' = [procs EXCEPT ![w] = p]
           /\ p.at = "compose" /\ p.todo = procs[w].todo \ {s} /\ p.schedule = s
           /\ p.row = schedules[s] /\ p.status = "sent"
           /\ p.due = IF schedules[s].next <= clock THEN schedules[s].next ELSE NoDue
<1> DEFINE q == procs[w]
<1>1. PICK s \in q.todo :
        procs' = [procs EXCEPT ![w] = [q EXCEPT
          !.at = "compose", !.todo = @ \ {s}, !.schedule = s, !.row = schedules[s],
          !.due = IF schedules[s].next <= clock THEN schedules[s].next ELSE NoDue]]
  BY DEF Load, Goto
<1>2. q \in Proc /\ q.at = "load" /\ q.status = "sent"
  BY DEF TypeInv, TypeOK, LocalsOK, Load
<1>3. s \in Schedules
  BY <1>2 DEF Proc
<1> DEFINE due == IF schedules[s].next <= clock THEN schedules[s].next ELSE NoDue
           p == [q EXCEPT !.at = "compose", !.todo = @ \ {s}, !.schedule = s,
                          !.row = schedules[s], !.due = due]
<1>4. schedules[s] \in Row /\ schedules[s].next \in Times
  BY <1>3 DEF TypeInv, TypeOK, Row
<1>5. due \in Times /\ due <= clock
  BY <1>4, ScheduleAssumption DEF NoDue, Times, TypeInv, TypeOK
<1> HIDE DEF q, due
<1>6. /\ p \in Proc /\ p.at = "compose" /\ p.todo = q.todo \ {s} /\ p.schedule = s
      /\ p.row = schedules[s] /\ p.status = "sent" /\ p.due = due
  BY <1>2, <1>3, <1>4, <1>5 DEF Proc
<1>7. procs' = [procs EXCEPT ![w] = p]
  BY <1>1 DEF due
<1> HIDE DEF p
<1>8. Sound(p) /\ InRun(p)
  BY <1>3, <1>4, <1>5, <1>6 DEF Sound, InRun
<1>9. ~ InRun(q)
  BY <1>2 DEF InRun
<1>10. /\ s \in Schedules /\ Sound(p) /\ InRun(p) /\ ~ InRun(procs[w])
       /\ procs' = [procs EXCEPT ![w] = p]
       /\ p.at = "compose" /\ p.todo = procs[w].todo \ {s} /\ p.schedule = s
       /\ p.row = schedules[s] /\ p.status = "sent"
       /\ p.due = IF schedules[s].next <= clock THEN schedules[s].next ELSE NoDue
  BY <1>3, <1>6, <1>7, <1>8, <1>9 DEF q, due
<1>11. s \in procs[w].todo
  BY DEF q
<1> QED BY <1>6, <1>10, <1>11

\* The next due time of a row that was read, as mark_schedule_run stores it.
LEMMA NextTime ==
  ASSUME TypeInv, NEW row \in Row, row.runTime # Unparsable
  PROVE  LET n == NextRunAt(clock, row.frequency, row.runTime) IN
         /\ n \in Times /\ n > clock /\ clock \in Nat
         /\ \A t \in Nat : clock < t /\ t < n => ~ Occurs(row, t)
<1>1. row.runTime \in RunTimes /\ row.frequency \in Frequencies
  BY DEF Row
<1>2. clock \in Nat /\ clock <= MaxClock
  BY ScheduleAssumption DEF TypeInv, TypeOK
<1> DEFINE n == NextRunAt(clock, row.frequency, row.runTime)
<1>3. /\ n \in Nat /\ n > clock /\ n < clock + 8 * DayLength
      /\ \A t \in Nat :
           clock < t /\ t < n =>
             ~ (t % DayLength = row.runTime /\ Wanted(row.frequency, t))
  BY <1>1, <1>2, NextIsFirst
<1> HIDE DEF n
<1>4. n \in Times
  BY <1>2, <1>3, ScheduleAssumption DEF Times
<1> QED BY <1>2, <1>3, <1>4 DEF n, Occurs

\* Storing it, which changes nothing else in the row.
LEMMA MarkStep ==
  ASSUME TypeInv, NEW w \in Workers, Mark(w)
  PROVE  LET q == procs[w]
             n == NextRunAt(clock, q.row.frequency, q.row.runTime)
         IN
         /\ InRun(q) /\ q.at = "mark" /\ q.row.runTime \in RunTimes
         /\ schedules' \in [Schedules -> Row]
         /\ schedules'[q.schedule] = [schedules[q.schedule] EXCEPT !.next = n]
         /\ schedules'[q.schedule].next = n
         /\ \A s \in Schedules \ {q.schedule} : schedules'[s] = schedules[s]
         /\ \E p \in Proc :
              /\ Sound(p) /\ ~ InRun(p) /\ procs' = [procs EXCEPT ![w] = p]
              /\ p.todo = q.todo
<1> DEFINE q == procs[w]
           n == NextRunAt(clock, q.row.frequency, q.row.runTime)
<1>1. q.at = "mark" /\ q.row.runTime # Unparsable /\ InRun(q)
  BY DEF Mark, InRun
<1>2. /\ q \in Proc /\ q.schedule \in Schedules /\ q.row \in Row
      /\ q.due \in Times /\ q.due <= clock /\ q.todo \subseteq Schedules
  BY <1>1, Running
<1>3. n \in Times
  BY <1>1, <1>2, NextTime
<1>4. schedules \in [Schedules -> Row]
  BY DEF TypeInv, TypeOK
<1>5. schedules' = [schedules EXCEPT ![q.schedule].next = n]
  BY DEF Mark
<1>6. \/ procs' = [procs EXCEPT ![w] = [q EXCEPT !.at = "apologise"]]
      \/ procs' = [procs EXCEPT ![w] = Rest(q)]
  BY DEF Mark, Goto, Resume, Rest
<1> HIDE DEF q, n
<1>7. [schedules[q.schedule] EXCEPT !.next = n] \in Row
      /\ [schedules[q.schedule] EXCEPT !.next = n].next = n
  BY <1>2, <1>3, <1>4 DEF Row
<1>8. /\ schedules' \in [Schedules -> Row]
      /\ schedules'[q.schedule] = [schedules[q.schedule] EXCEPT !.next = n]
      /\ \A s \in Schedules \ {q.schedule} : schedules'[s] = schedules[s]
  BY <1>2, <1>4, <1>5, <1>7
<1>9. \E p \in Proc :
        /\ Sound(p) /\ ~ InRun(p) /\ procs' = [procs EXCEPT ![w] = p]
        /\ p.todo = q.todo
  <2>1. CASE procs' = [procs EXCEPT ![w] = Rest(q)]
    BY <1>2, <2>1, RestSound DEF Sound
  <2>2. CASE procs' = [procs EXCEPT ![w] = [q EXCEPT !.at = "apologise"]]
    <3> DEFINE p == [q EXCEPT !.at = "apologise"]
    <3>1. p \in Proc /\ p.at = "apologise" /\ p.todo = q.todo
      BY <1>2 DEF Proc
    <3>2. procs' = [procs EXCEPT ![w] = p]
      BY <2>2
    <3> HIDE DEF p
    <3>3. Sound(p) /\ ~ InRun(p)
      BY <3>1 DEF Sound, InRun
    <3> QED BY <3>1, <3>2, <3>3
  <2> QED BY <1>6, <2>1, <2>2
<1>10. q.row.runTime \in RunTimes
  BY <1>1, <1>2 DEF Row
<1> QED BY <1>1, <1>7, <1>8, <1>9, <1>10 DEF q, n

LEMMA Spending ==
  ASSUME TypeInv, NEW event \in Events, Spend(event)
  PROVE  /\ spent' \in [Events -> Nat]
         /\ spent'[event] = spent[event] + 1
         /\ \A e \in Events \ {event} : spent'[e] = spent[e]
  BY DEF Spend, TypeInv, TypeOK

\* A worker that goes on, where only it changes and what it stores.
LEMMA LocalTypes ==
  ASSUME TypeInv, NEW w \in Workers, NEW p, Sound(p),
         procs' = [procs EXCEPT ![w] = p], clock' = clock,
         schedules' \in [Schedules -> Row], NextAhead',
         history' \in [Schedules -> [Times -> SUBSET {"sent", "failed"}]],
         mails' \in [Schedules -> [Times -> 0..MaxMails]],
         polled' \subseteq Workers, spent' \in [Events -> Nat]
  PROVE  TypeInv'
<1>1. procs' \in [Workers -> Proc] /\ LocalsOK'
  BY Moves
<1> QED BY <1>1 DEF TypeInv, TypeOK

\* Storing a run row, whatever it says.
LEMMA HistoryTypes ==
  ASSUME TypeInv, NEW w \in Workers, InRun(procs[w]), NEW status \in {"sent", "failed"},
         AddRun(w, status)
  PROVE  /\ history' \in [Schedules -> [Times -> SUBSET {"sent", "failed"}]]
         /\ status \in history'[procs[w].schedule][procs[w].due]
         /\ \A s \in Schedules : \A t \in Times : history[s][t] \subseteq history'[s][t]
<1> DEFINE s == procs[w].schedule
           d == procs[w].due
<1>1. s \in Schedules /\ d \in Times
  BY Running
<1>2. history \in [Schedules -> [Times -> SUBSET {"sent", "failed"}]]
  BY DEF TypeInv, TypeOK
<1>3. history' = [history EXCEPT ![s][d] = @ \cup {status}]
  BY DEF AddRun
<1> HIDE DEF s, d
<1>4. history' = [history EXCEPT ![s] = [history[s] EXCEPT ![d] = @ \cup {status}]]
  BY <1>3
<1>5. \A u \in Schedules : \A t \in Times :
        history'[u][t] = IF u = s /\ t = d THEN history[u][t] \cup {status} ELSE history[u][t]
  BY <1>1, <1>2, <1>4
<1>6. history' \in [Schedules -> [Times -> SUBSET {"sent", "failed"}]]
  <2>1. [history[s] EXCEPT ![d] = @ \cup {status}] \in [Times -> SUBSET {"sent", "failed"}]
    BY <1>1, <1>2
  <2> QED BY <1>1, <1>2, <1>4, <2>1
<1> QED BY <1>1, <1>5, <1>6 DEF s, d

\* Sending a mail: one more for the due time of the run, if the count goes on.
LEMMA MailTypes ==
  ASSUME TypeInv, NEW w \in Workers, Send(w)
  PROVE  /\ mails' \in [Schedules -> [Times -> 0..MaxMails]]
         /\ \A s \in Schedules : \A t \in Times :
              mails'[s][t] = IF s = procs[w].schedule /\ t = procs[w].due
                             THEN IF mails[s][t] < MaxMails THEN mails[s][t] + 1
                                  ELSE mails[s][t]
                             ELSE mails[s][t]
<1> DEFINE u == procs[w].schedule
           d == procs[w].due
<1>1. u \in Schedules /\ d \in Times
  BY Running DEF Send, InRun
<1>2. mails \in [Schedules -> [Times -> 0..MaxMails]] /\ MaxMails \in Nat
  BY ScheduleAssumption DEF TypeInv, TypeOK
<1>3. mails' = [mails EXCEPT ![u][d] = IF @ < MaxMails THEN @ + 1 ELSE @]
  BY DEF Send
<1> HIDE DEF u, d
<1> DEFINE new == IF mails[u][d] < MaxMails THEN mails[u][d] + 1 ELSE mails[u][d]
<1>4. mails' = [mails EXCEPT ![u] = [mails[u] EXCEPT ![d] = new]]
  BY <1>3
<1>5. new \in 0..MaxMails
  BY <1>1, <1>2
<1> HIDE DEF new
<1>6. mails' \in [Schedules -> [Times -> 0..MaxMails]]
  <2>1. [mails[u] EXCEPT ![d] = new] \in [Times -> 0..MaxMails]
    BY <1>1, <1>2, <1>5
  <2> QED BY <1>1, <1>2, <1>4, <2>1
<1>7. \A s \in Schedules : \A t \in Times :
        mails'[s][t] = IF s = u /\ t = d THEN new ELSE mails[s][t]
  BY <1>1, <1>2, <1>4
<1>8. \A s \in Schedules : \A t \in Times :
        s = u /\ t = d =>
          new = IF mails[s][t] < MaxMails THEN mails[s][t] + 1 ELSE mails[s][t]
  BY DEF new
<1>9. \A s \in Schedules : \A t \in Times :
        mails'[s][t] = IF s = u /\ t = d
                       THEN IF mails[s][t] < MaxMails THEN mails[s][t] + 1 ELSE mails[s][t]
                       ELSE mails[s][t]
  BY <1>7, <1>8
<1> QED BY <1>6, <1>9 DEF u, d

\* An edit leaves the due times as they are.
LEMMA EditStep ==
  ASSUME TypeInv, NEW s \in Schedules, Edit(s) \/ Break(s)
  PROVE  /\ schedules' \in [Schedules -> Row]
         /\ \A u \in Schedules : schedules'[u].next = schedules[u].next
         /\ UNCHANGED <<clock, history, mails, procs, polled>>
         /\ Spend("edit") \/ Spend("break")
<1>1. schedules \in [Schedules -> Row]
  BY DEF TypeInv, TypeOK
<1> DEFINE r == schedules[s]
<1>2. r \in Row
  BY <1>1
<1>3. \E q \in Row : q.next = r.next /\ schedules' = [schedules EXCEPT ![s] = q]
  <2>1. CASE schedules' = [schedules EXCEPT ![s].enabled = ~ @]
    <3>1. [r EXCEPT !.enabled = ~ @] \in Row /\ [r EXCEPT !.enabled = ~ @].next = r.next
      BY <1>2 DEF Row
    <3> QED BY <2>1, <3>1
  <2>2. CASE \E t \in RunTimes \cup {Unparsable} :
               schedules' = [schedules EXCEPT ![s].runTime = t]
    <3>1. PICK t \in RunTimes \cup {Unparsable} :
                 schedules' = [schedules EXCEPT ![s].runTime = t]
      BY <2>2
    <3>2. [r EXCEPT !.runTime = t] \in Row /\ [r EXCEPT !.runTime = t].next = r.next
      BY <1>2 DEF Row
    <3> QED BY <3>1, <3>2
  <2>3. CASE \E f \in Frequencies : schedules' = [schedules EXCEPT ![s].frequency = f]
    <3>1. PICK f \in Frequencies : schedules' = [schedules EXCEPT ![s].frequency = f]
      BY <2>3
    <3>2. [r EXCEPT !.frequency = f] \in Row /\ [r EXCEPT !.frequency = f].next = r.next
      BY <1>2 DEF Row
    <3> QED BY <3>1, <3>2
  <2>4. CASE \E k \in Kinds :
               schedules' = [schedules EXCEPT ![s].kind = k, ![s].reachable = TRUE]
    <3>1. PICK k \in Kinds :
                 schedules' = [schedules EXCEPT ![s].kind = k, ![s].reachable = TRUE]
      BY <2>4
    <3> DEFINE q == [r EXCEPT !.kind = k, !.reachable = TRUE]
    <3>2. q \in Row /\ q.next = r.next
      BY <1>2 DEF Row
    <3>3. schedules' = [schedules EXCEPT ![s] = q]
      BY <1>1, <1>2, <3>1 DEF Row
    <3> QED BY <3>2, <3>3
  <2>5. CASE schedules' = [schedules EXCEPT ![s].reachable = FALSE]
    <3>1. [r EXCEPT !.reachable = FALSE] \in Row
          /\ [r EXCEPT !.reachable = FALSE].next = r.next
      BY <1>2 DEF Row
    <3> QED BY <2>5, <3>1
  <2> QED BY <2>1, <2>2, <2>3, <2>4, <2>5 DEF Edit, Break
<1>4. UNCHANGED <<clock, history, mails, procs, polled>> /\ (Spend("edit") \/ Spend("break"))
  BY DEF Edit, Break
<1> HIDE DEF r
<1>5. r = schedules[s]
  BY DEF r
<1> QED BY <1>1, <1>3, <1>4, <1>5

\* Listing what is due, and asking for one schedule.
LEMMA BeginStep ==
  ASSUME TypeInv, NEW w \in Workers, NEW S \in SUBSET Schedules, NEW p,
         p = (IF S = {} THEN Idle ELSE [Idle EXCEPT !.at = "load", !.todo = S])
  PROVE  Sound(p) /\ ~ InRun(p) /\ p.todo = S
<1> DEFINE q == [Idle EXCEPT !.todo = S]
<1>1. q \in Proc /\ q.todo = S
  BY IdleSound DEF Sound, Proc, Idle
<1>2. Rest(q) = p
  BY <1>1 DEF Rest
<1> HIDE DEF q
<1> QED BY <1>1, <1>2, RestSound

\* The ways in which a worker stops: nothing is stored.
LEMMA Stops ==
  ASSUME TypeInv, NEW w \in Workers, NEW p, p = Idle \/ p = Rest(procs[w])
  PROVE  Sound(p) /\ ~ InRun(p)
<1>1. procs[w] \in Proc
  BY DEF TypeInv, TypeOK
<1> QED BY <1>1, IdleSound, RestSound

LEMMA TypeStep == TypeInv /\ [Next]_vars => TypeInv'
<1> SUFFICES ASSUME TypeInv, [Next]_vars PROVE TypeInv'
  OBVIOUS
<1> USE DEF Events
<1>0. CASE UNCHANGED vars
  BY <1>0 DEF vars, TypeInv, TypeOK, LocalsOK, NextAhead, InRun
<1>1. CASE Advance
  <2>1. clock' \in 0..MaxClock /\ clock \in Nat /\ clock' = clock + 1
    BY <1>1, ScheduleAssumption DEF Advance, TypeInv, TypeOK
  <2>2. UNCHANGED <<schedules, history, mails, procs, spent>> /\ polled' = {}
    BY <1>1 DEF Advance
  <2>3. TypeOK' /\ NextAhead'
    BY <2>1, <2>2 DEF TypeInv, TypeOK, NextAhead
  <2>4. LocalsOK'
    <3> SUFFICES ASSUME NEW w \in Workers, InRun(procs[w])
                 PROVE  procs[w].due <= clock'
      BY <2>2 DEF TypeInv, LocalsOK
    <3>1. procs[w].due <= clock /\ procs[w].due \in Nat
      BY Running, ScheduleAssumption DEF Times
    <3> QED BY <2>1, <3>1
  <2> QED BY <2>3, <2>4 DEF TypeInv
<1>2. ASSUME NEW s \in Schedules, Edit(s) \/ Break(s)
      PROVE  TypeInv'
  <2>1. /\ schedules' \in [Schedules -> Row] /\ NextAhead'
        /\ UNCHANGED <<clock, history, mails, procs, polled>>
    BY <1>2, EditStep DEF TypeInv, NextAhead
  <2>2. spent' \in [Events -> Nat]
    BY <1>2, EditStep, Spending
  <2> QED BY <2>1, <2>2 DEF TypeInv, TypeOK, LocalsOK, InRun
<1>3. ASSUME NEW w \in Workers, ListDue(w)
      PROVE  TypeInv'
  <2> DEFINE due == {s \in Schedules : Due(s)}
             p == IF due = {} THEN Idle ELSE [Idle EXCEPT !.at = "load", !.todo = due]
  <2>1. Sound(p)
    BY BeginStep
  <2>2. /\ procs' = [procs EXCEPT ![w] = p] /\ polled' \subseteq Workers
        /\ UNCHANGED <<clock, schedules, history, mails, spent>>
    BY <1>3 DEF ListDue, TypeInv, TypeOK
  <2> HIDE DEF p
  <2> QED BY <2>1, <2>2, LocalTypes DEF TypeInv, TypeOK, NextAhead
<1>4. ASSUME NEW w \in Workers, NEW s \in Schedules, RunNow(w, s)
      PROVE  TypeInv'
  <2> DEFINE p == [Idle EXCEPT !.at = "load", !.todo = {s}]
  <2>1. Sound(p)
    BY BeginStep
  <2>2. /\ procs' = [procs EXCEPT ![w] = p]
        /\ UNCHANGED <<clock, schedules, history, mails, polled>>
    BY <1>4 DEF RunNow, Goto
  <2>3. spent' \in [Events -> Nat]
    BY <1>4, Spending DEF RunNow
  <2> HIDE DEF p
  <2> QED BY <2>1, <2>2, <2>3, LocalTypes DEF TypeInv, TypeOK, NextAhead
<1>5. ASSUME NEW w \in Workers, Load(w)
      PROVE  TypeInv'
  <2>1. PICK p \in Proc : Sound(p) /\ procs' = [procs EXCEPT ![w] = p]
    BY <1>5, LoadStep
  <2>2. UNCHANGED <<clock, polled, schedules, history, mails, spent>>
    BY <1>5 DEF Load, Goto
  <2> QED BY <2>1, <2>2, LocalTypes DEF TypeInv, TypeOK, NextAhead
<1>6. ASSUME NEW w \in Workers, Compose(w)
      PROVE  TypeInv'
  <2> DEFINE p == Onward(procs[w], "send", "sent")
  <2>1. InRun(procs[w]) /\ procs[w].status = "sent" /\ procs[w] \in Proc
    BY <1>6 DEF Compose, InRun, TypeInv, TypeOK, LocalsOK
  <2>2. Sound(p)
    BY <2>1, GoesOn
  <2>3. /\ procs' = [procs EXCEPT ![w] = p] /\ AddRun(w, "sent")
        /\ UNCHANGED <<clock, polled, schedules, mails, spent>>
    BY <1>6, <2>1 DEF Compose, Goto, Proc, Onward
  <2>4. history' \in [Schedules -> [Times -> SUBSET {"sent", "failed"}]]
    BY <2>1, <2>3, HistoryTypes
  <2> HIDE DEF p
  <2> QED BY <2>2, <2>3, <2>4, LocalTypes DEF TypeInv, TypeOK, NextAhead
<1>7. ASSUME NEW w \in Workers, ComposeFails(w)
      PROVE  TypeInv'
  <2>1. InRun(procs[w])
    BY <1>7 DEF ComposeFails, InRun
  <2>2. spent' \in [Events -> Nat] /\ UNCHANGED <<clock, polled, schedules, mails>>
    BY <1>7, Spending DEF ComposeFails, Goto, Abort
  <2>3. CASE AddRun(w, "failed") /\
             Goto(w, [procs[w] EXCEPT !.at = "mark", !.status = "failed"])
    <3> DEFINE p == Onward(procs[w], "mark", "failed")
    <3>1. Sound(p)
      BY <2>1, GoesOn
    <3>2. procs' = [procs EXCEPT ![w] = p]
      BY <2>3 DEF Goto, Onward
    <3>3. history' \in [Schedules -> [Times -> SUBSET {"sent", "failed"}]]
      BY <2>1, <2>3, HistoryTypes
    <3> HIDE DEF p
    <3> QED BY <2>2, <3>1, <3>2, <3>3, LocalTypes DEF TypeInv, TypeOK, NextAhead
  <2>4. CASE procs' = [procs EXCEPT ![w] = Idle] /\ UNCHANGED history
    BY <2>2, <2>4, IdleSound, LocalTypes DEF TypeInv, TypeOK, NextAhead
  <2> QED BY <1>7, <2>3, <2>4 DEF ComposeFails, Abort, Goto
<1>8. ASSUME NEW w \in Workers, Send(w)
      PROVE  TypeInv'
  <2> DEFINE p == Onward(procs[w], "mark", "sent")
  <2>1. InRun(procs[w]) /\ procs[w].status = "sent" /\ procs[w] \in Proc
    BY <1>8 DEF Send, InRun, TypeInv, TypeOK, LocalsOK
  <2>2. Sound(p)
    BY <2>1, GoesOn
  <2>3. /\ procs' = [procs EXCEPT ![w] = p]
        /\ UNCHANGED <<clock, polled, schedules, history, spent>>
    BY <1>8, <2>1 DEF Send, Goto, Proc, Onward
  <2>4. mails' \in [Schedules -> [Times -> 0..MaxMails]]
    BY <1>8, MailTypes
  <2> HIDE DEF p
  <2> QED BY <2>2, <2>3, <2>4, LocalTypes DEF TypeInv, TypeOK, NextAhead
<1>9. ASSUME NEW w \in Workers,
             SendFails(w) \/ MarkFails(w) \/ Apologise(w) \/ Crash(w)
      PROVE  TypeInv'
  <2>1. PICK p \in {Idle, Rest(procs[w])} : procs' = [procs EXCEPT ![w] = p]
    BY <1>9 DEF SendFails, MarkFails, Apologise, Crash, Abort, Resume, Rest, Goto
  <2>2. UNCHANGED <<clock, polled, schedules, history, mails>>
    BY <1>9 DEF SendFails, MarkFails, Apologise, Crash, Abort, Resume, Goto
  <2>3. spent' \in [Events -> Nat]
    BY <1>9, Spending DEF SendFails, MarkFails, Apologise, Crash, TypeInv, TypeOK
  <2>4. Sound(p)
    BY <2>1, Stops
  <2> QED BY <2>1, <2>2, <2>3, <2>4, LocalTypes DEF TypeInv, TypeOK, NextAhead
<1>10. ASSUME NEW w \in Workers, Mark(w)
       PROVE  TypeInv'
  <2>1. /\ UNCHANGED <<clock, polled, history, mails, spent>>
        /\ procs[w].row \in Row /\ procs[w].row.runTime # Unparsable
    BY <1>10, Running DEF Mark, Goto, Resume, InRun
  <2>2. PICK p \in Proc : Sound(p) /\ procs' = [procs EXCEPT ![w] = p]
    BY <1>10, MarkStep
  <2>3. schedules' \in [Schedules -> Row]
    BY <1>10, MarkStep
  <2>4. NextAhead'
    <3> SUFFICES ASSUME NEW s \in Schedules PROVE schedules'[s].next # NoDue
      BY DEF NextAhead
    <3> DEFINE n == NextRunAt(clock, procs[w].row.frequency, procs[w].row.runTime)
    <3>1. n \in Times /\ n > clock /\ clock \in Nat
      BY <2>1, NextTime
    <3>2. s = procs[w].schedule => schedules'[s].next = n
      BY <1>10, MarkStep
    <3>3. s # procs[w].schedule => schedules'[s] = schedules[s]
      BY <1>10, MarkStep
    <3>4. n # NoDue
      BY <3>1, ScheduleAssumption DEF Times, NoDue
    <3> HIDE DEF n
    <3> QED BY <3>2, <3>3, <3>4 DEF TypeInv, NextAhead
  <2> QED BY <2>1, <2>2, <2>3, <2>4, LocalTypes DEF TypeInv, TypeOK
<1> QED BY <1>0, <1>1, <1>2, <1>3, <1>4, <1>5, <1>6, <1>7, <1>8, <1>9, <1>10
        DEF Next, Step

LEMMA TypeInit == Init => TypeInv
<1> SUFFICES ASSUME Init PROVE TypeInv
  OBVIOUS
<1>1. schedules \in [Schedules -> Row] /\ NextAhead
  <2>1. \A row \in Created : row \in Row /\ row.next # NoDue
    <3> SUFFICES ASSUME NEW row \in Created PROVE row \in Row /\ row.next # NoDue
      OBVIOUS
    <3>1. row \in Row /\ row.frequency \in Frequencies /\ row.runTime \in RunTimes
          /\ row.next = NextRunAt(0, row.frequency, row.runTime)
      BY DEF Created, Row
    <3>2. NextRunAt(0, row.frequency, row.runTime) > 0
      BY <3>1, NextIsFirst
    <3> QED BY <3>1, <3>2, NextIsFirst DEF NoDue
  <2> QED BY <2>1 DEF Init, NextAhead
<1>2. procs \in [Workers -> Proc] /\ LocalsOK
  BY IdleSound DEF Init, LocalsOK, Sound, Idle
<1>3. /\ clock \in 0..MaxClock
      /\ history \in [Schedules -> [Times -> SUBSET {"sent", "failed"}]]
      /\ mails \in [Schedules -> [Times -> 0..MaxMails]]
      /\ polled \subseteq Workers /\ spent \in [Events -> Nat]
  BY ScheduleAssumption DEF Init
<1> QED BY <1>1, <1>2, <1>3 DEF TypeInv, TypeOK

\* Everything keeps its type: rows and their next due times, run rows, mails and
\* the local variables of the batches (run_due_schedules, run_schedule).
THEOREM ReportTypes == Spec => []TypeOK
<1>1. TypeInv => TypeOK
  BY DEF TypeInv
<1> QED BY <1>1, TypeInit, TypeStep, PTL DEF Spec

(***************************************************************************)
(* One report for a due time                                               *)
(***************************************************************************)

\* What SentOnce says of one schedule, where m is 1 while a worker is about to
\* set its next due time.
SentOf(s, m) ==
  /\ schedules[s].runTime \in RunTimes
  /\ \A t \in Times \ {NoDue} :
       /\ mails[s][t] <= 1 + spent["crash"]
       /\ mails[s][t] > 0 => t <= clock /\ t <= schedules[s].next
  /\ mails[s][schedules[s].next] <= spent["crash"] + m

\* The worker is about to set the next due time of this schedule.
Marking(p, s) == p.at = "mark" /\ p.schedule = s

LEMMA SentAlone ==
  ASSUME NEW w, Workers = {w}
  PROVE  SentOnce <=> (spent["break"] = 0 =>
           \A s \in Schedules : SentOf(s, IF Marking(procs[w], s) THEN 1 ELSE 0))
<1>1. \A s \in Schedules :
        (\E u \in Workers : procs[u].at = "mark" /\ procs[u].schedule = s)
          <=> Marking(procs[w], s)
  BY DEF Marking
<1> QED BY <1>1 DEF SentOnce, SentOf

\* What changes neither the mails nor the schedule's times, does not turn the
\* clock back and does not move away from the mark, keeps what SentOnce says.
LEMMA SentStays ==
  ASSUME TypeInv, NEW s \in Schedules, NEW m \in {0, 1}, NEW n \in {0, 1}, SentOf(s, m),
         mails' = mails, clock' \in Nat, clock <= clock',
         schedules'[s].next = schedules[s].next, schedules'[s].runTime \in RunTimes,
         spent'["crash"] \in Nat,
         \/ spent'["crash"] = spent["crash"] /\ m <= n
         \/ spent'["crash"] = spent["crash"] + 1
  PROVE  SentOf(s, n)'
<1>1. /\ spent["crash"] \in Nat /\ schedules[s].next \in Times
      /\ \A t \in Times : mails[s][t] \in Nat /\ t \in Nat
      /\ clock \in Nat
  BY ScheduleAssumption, SMTT(30) DEF TypeInv, TypeOK, Events, Row, Times
<1>2. spent["crash"] <= spent'["crash"] /\ spent["crash"] + m <= spent'["crash"] + n
  BY <1>1
<1>3. mails[s][schedules[s].next] <= spent'["crash"] + n
  BY <1>1, <1>2 DEF SentOf
<1>4. \A t \in Times \ {NoDue} :
        /\ mails[s][t] <= 1 + spent'["crash"]
        /\ mails[s][t] > 0 => t <= clock' /\ t <= schedules[s].next
  BY <1>1, <1>2 DEF SentOf
<1> QED BY <1>3, <1>4 DEF SentOf

LEMMA AloneInit == Init => AloneInv
<1> SUFFICES ASSUME Init PROVE AloneInv
  OBVIOUS
<1>1. TypeInv
  BY TypeInit
<1>2. Owned
  BY IdleSound DEF Init, Owned
<1>3. SentOnce
  <2>1. \A s \in Schedules : schedules[s].runTime \in RunTimes /\ schedules[s].next \in Times
    BY <1>1 DEF Init, Created, TypeInv, TypeOK, Row
  <2>2. \A s \in Schedules : \A t \in Times : mails[s][t] = 0
    BY DEF Init
  <2>3. spent["crash"] = 0
    BY DEF Init, Events
  <2> QED BY <2>1, <2>2, <2>3 DEF SentOnce
<1> QED BY <1>1, <1>2, <1>3 DEF AloneInv

LEMMA AloneStep ==
  ASSUME NEW w, Workers = {w}, AloneInv, [Next]_vars
  PROVE  AloneInv'
<1> USE DEF Events
<1> DEFINE q == procs[w]
           mark(p, s) == IF Marking(p, s) THEN 1 ELSE 0
<1>t. TypeInv /\ TypeInv' /\ w \in Workers
  BY TypeStep DEF AloneInv
<1>n. /\ clock \in Nat /\ clock' \in Nat /\ spent["crash"] \in Nat /\ spent'["crash"] \in Nat
      /\ spent["break"] \in Nat /\ spent'["break"] \in Nat
      /\ \A t \in Times : t \in Nat
      /\ \A s \in Schedules : schedules[s].next \in Times /\ schedules[s].next # NoDue
  BY <1>t, ScheduleAssumption, SMTT(30) DEF TypeInv, TypeOK, NextAhead, Row, Times
<1>o. /\ InRun(q) => /\ q.due \in {NoDue, schedules[q.schedule].next}
                     /\ spent["break"] = 0 => q.row.runTime \in RunTimes
      /\ spent["break"] = 0 => \A s \in Schedules : SentOf(s, mark(q, s))
  BY <1>t, SentAlone DEF AloneInv, Owned
\* It is enough to say this of the only worker, and of one schedule.
<1>g. ASSUME InRun(procs'[w]) =>
               /\ procs'[w].due \in {NoDue, schedules'[procs'[w].schedule].next}
               /\ spent'["break"] = 0 => procs'[w].row.runTime \in RunTimes,
             spent'["break"] = 0 =>
               \A s \in Schedules : \A c \in {0, 1} :
                 (c = 1 <=> Marking(procs'[w], s)) => SentOf(s, c)'
      PROVE  AloneInv'
  <2>1. Owned'
    BY <1>g DEF Owned
  <2>2. \A s \in Schedules :
          (\E u \in Workers : procs'[u].at = "mark" /\ procs'[u].schedule = s)
            <=> Marking(procs'[w], s)
    BY DEF Marking
  <2>3. ASSUME spent'["break"] = 0, NEW s \in Schedules
        PROVE  \E c \in {0, 1} : (c = 1 <=> Marking(procs'[w], s)) /\ SentOf(s, c)'
    <3>1. PICK c \in {0, 1} : c = 1 <=> Marking(procs'[w], s)
      OBVIOUS
    <3> QED BY <1>g, <2>3, <3>1
  <2>4. SentOnce'
    BY <2>2, <2>3 DEF SentOnce, SentOf
  <2> QED BY <1>t, <2>1, <2>4 DEF AloneInv
\* The actions that store no mail and no due time: the worker does not leave the
\* mark, unless it dies there.
<1>k. ASSUME mails' = mails, clock <= clock',
             \A s \in Schedules :
               /\ schedules'[s].next = schedules[s].next
               /\ spent'["break"] = 0 => schedules'[s].runTime \in RunTimes,
             spent'["break"] = 0 => spent["break"] = 0,
             \/ spent'["crash"] = spent["crash"] + 1
             \/ /\ spent'["crash"] = spent["crash"]
                /\ \A s \in Schedules : Marking(q, s) => Marking(procs'[w], s),
             InRun(procs'[w]) =>
               \/ procs'[w] = q
               \/ InRun(q) /\ procs'[w].row = q.row /\ procs'[w].due = q.due
                          /\ procs'[w].schedule = q.schedule
               \/ /\ procs'[w].due \in {NoDue, schedules[procs'[w].schedule].next}
                  /\ spent'["break"] = 0 => procs'[w].row.runTime \in RunTimes
      PROVE  AloneInv'
  <2>1. InRun(procs'[w]) =>
          /\ procs'[w].due \in {NoDue, schedules'[procs'[w].schedule].next}
          /\ spent'["break"] = 0 => procs'[w].row.runTime \in RunTimes
    <3> SUFFICES ASSUME InRun(procs'[w])
                 PROVE  /\ procs'[w].due \in {NoDue, schedules'[procs'[w].schedule].next}
                        /\ spent'["break"] = 0 => procs'[w].row.runTime \in RunTimes
      OBVIOUS
    <3>1. procs'[w].schedule \in Schedules
      BY <1>t DEF TypeInv, LocalsOK
    <3>2. schedules'[procs'[w].schedule].next = schedules[procs'[w].schedule].next
      BY <1>k, <3>1
    <3>3. CASE InRun(q) /\ procs'[w].row = q.row /\ procs'[w].due = q.due
               /\ procs'[w].schedule = q.schedule
      BY <1>k, <1>o, <3>2, <3>3
    <3>4. CASE procs'[w] = q
      BY <1>k, <1>o, <3>2, <3>4
    <3>5. CASE /\ procs'[w].due \in {NoDue, schedules[procs'[w].schedule].next}
               /\ spent'["break"] = 0 => procs'[w].row.runTime \in RunTimes
      BY <3>2, <3>5
    <3> QED BY <1>k, <3>3, <3>4, <3>5
  <2>2. ASSUME spent'["break"] = 0, NEW s \in Schedules, NEW n \in {0, 1},
               n = 1 <=> Marking(procs'[w], s)
        PROVE  SentOf(s, n)'
    <3> DEFINE m == mark(q, s)
    <3>1. SentOf(s, m) /\ m \in {0, 1}
      BY <1>k, <1>o, <2>2
    <3>2. spent'["crash"] = spent["crash"] => m <= n
      BY <1>k, <1>n, <2>2
    <3>3. \/ spent'["crash"] = spent["crash"] /\ m <= n
          \/ spent'["crash"] = spent["crash"] + 1
      BY <1>k, <3>2
    <3> HIDE DEF m
    <3>4. /\ schedules'[s].next = schedules[s].next
          /\ schedules'[s].runTime \in RunTimes
      BY <1>k, <2>2
    <3>5. mails' = mails /\ clock <= clock'
      BY <1>k
    <3> QED BY <1>t, <1>n, <3>1, <3>3, <3>4, <3>5, SentStays
  <2> QED BY <1>g, <2>1, <2>2
<1>0. CASE UNCHANGED vars
  BY <1>0, <1>k, <1>n, <1>o DEF vars, SentOf
<1>1. CASE Advance
  <2>1. clock' = clock + 1 /\ UNCHANGED <<schedules, mails, procs, spent>>
    BY <1>1 DEF Advance
  <2> QED BY <1>k, <1>n, <1>o, <2>1 DEF SentOf
<1>2. ASSUME NEW s \in Schedules, Edit(s)
      PROVE  AloneInv'
  <2>1. Spend("edit") /\ UNCHANGED <<clock, mails, procs>>
        /\ \A u \in Schedules : schedules'[u].next = schedules[u].next
    BY <1>2, <1>t, EditStep DEF Edit
  <2>2. spent'["break"] = spent["break"] /\ spent'["crash"] = spent["crash"]
    BY <1>t, <2>1, Spending
  <2>3. \A u \in Schedules :
          schedules[u].runTime \in RunTimes => schedules'[u].runTime \in RunTimes
    <3>1. schedules \in [Schedules -> Row]
      BY <1>t DEF TypeInv, TypeOK
    <3>2. \A r \in Row :
            /\ [r EXCEPT !.enabled = ~ @].runTime = r.runTime
            /\ \A t \in RunTimes : [r EXCEPT !.runTime = t].runTime = t
            /\ \A f \in Frequencies : [r EXCEPT !.frequency = f].runTime = r.runTime
            /\ \A k \in Kinds : [r EXCEPT !.kind = k, !.reachable = TRUE].runTime = r.runTime
      BY DEF Row
    <3>3. CASE schedules' = [schedules EXCEPT ![s].enabled = ~ @]
      BY <3>1, <3>2, <3>3
    <3>4. CASE \E t \in RunTimes : schedules' = [schedules EXCEPT ![s].runTime = t]
      BY <3>1, <3>2, <3>4
    <3>5. CASE \E f \in Frequencies : schedules' = [schedules EXCEPT ![s].frequency = f]
      BY <3>1, <3>2, <3>5
    <3>6. CASE \E k \in Kinds :
                 schedules' = [schedules EXCEPT ![s].kind = k, ![s].reachable = TRUE]
      <4>1. PICK k \in Kinds :
                 schedules' = [schedules EXCEPT ![s].kind = k, ![s].reachable = TRUE]
        BY <3>6
      <4>2. \A u \in Schedules \ {s} : schedules'[u] = schedules[u]
        BY <3>1, <4>1
      <4>3. schedules'[s].runTime = schedules[s].runTime
        BY <3>1, <4>1 DEF Row
      <4> QED BY <4>2, <4>3
    <3> QED BY <1>2, <3>3, <3>4, <3>5, <3>6 DEF Edit
  <2> QED BY <1>k, <1>n, <1>o, <2>1, <2>2, <2>3 DEF SentOf
<1>3. ASSUME NEW s \in Schedules, Break(s)
      PROVE  AloneInv'
  <2>1. Spend("break") /\ UNCHANGED <<clock, mails, procs>>
        /\ \A u \in Schedules : schedules'[u].next = schedules[u].next
    BY <1>3, <1>t, EditStep DEF Break
  <2>2. spent'["break"] = spent["break"] + 1 /\ spent'["crash"] = spent["crash"]
    BY <1>t, <2>1, Spending
  <2>3. spent'["break"] # 0
    BY <1>n, <2>2
  <2> QED BY <1>k, <1>n, <2>1, <2>2, <2>3
<1>4. CASE ListDue(w)
  <2> DEFINE due == {s \in Schedules : Due(s)}
             p == IF due = {} THEN Idle ELSE [Idle EXCEPT !.at = "load", !.todo = due]
  <2>1. Sound(p) /\ ~ InRun(p)
    BY <1>t, BeginStep
  <2>2. procs' = [procs EXCEPT ![w] = p] /\ UNCHANGED <<clock, schedules, mails, spent>>
    BY <1>4 DEF ListDue
  <2>3. procs'[w] = p
    BY <1>t, <2>2 DEF TypeInv, TypeOK
  <2>4. \A s : ~ Marking(q, s)
    BY <1>4 DEF ListDue, Idle, Marking
  <2> HIDE DEF p, q
  <2> QED BY <1>k, <1>n, <1>o, <2>1, <2>2, <2>3, <2>4 DEF SentOf
<1>5. ASSUME NEW s \in Schedules, RunNow(w, s)
      PROVE  AloneInv'
  <2> DEFINE p == [Idle EXCEPT !.at = "load", !.todo = {s}]
  <2>1. Sound(p) /\ ~ InRun(p)
    BY <1>t, BeginStep
  <2>2. procs' = [procs EXCEPT ![w] = p] /\ UNCHANGED <<clock, schedules, mails>>
    BY <1>5 DEF RunNow, Goto
  <2>3. procs'[w] = p
    BY <1>t, <2>2 DEF TypeInv, TypeOK
  <2>4. \A u : ~ Marking(q, u)
    BY <1>5 DEF RunNow, Idle, Marking
  <2>5. spent'["break"] = spent["break"] /\ spent'["crash"] = spent["crash"]
    BY <1>5, <1>t, Spending DEF RunNow
  <2> HIDE DEF p, q
  <2> QED BY <1>k, <1>n, <1>o, <2>1, <2>2, <2>3, <2>4, <2>5 DEF SentOf
<1>6. CASE Load(w)
  <2>1. PICK s \in q.todo, p \in Proc :
          /\ s \in Schedules /\ Sound(p) /\ InRun(p)
          /\ procs' = [procs EXCEPT ![w] = p]
          /\ p.at = "compose" /\ p.schedule = s /\ p.row = schedules[s]
          /\ p.due = IF schedules[s].next <= clock THEN schedules[s].next ELSE NoDue
    BY <1>6, <1>t, LoadStep
  <2>2. UNCHANGED <<clock, schedules, mails, spent>>
    BY <1>6 DEF Load, Goto
  <2>3. procs'[w] = p
    BY <1>t, <2>1 DEF TypeInv, TypeOK
  <2>4. \A u : ~ Marking(q, u)
    BY <1>6 DEF Load, Marking
  <2>5. spent["break"] = 0 => p.row.runTime \in RunTimes
    BY <1>o, <2>1 DEF SentOf
  <2> HIDE DEF q
  <2> QED BY <1>k, <1>n, <1>o, <2>1, <2>2, <2>3, <2>4, <2>5 DEF SentOf
<1>7. CASE Compose(w)
  <2> DEFINE p == Onward(q, "send", "sent")
  <2>1. InRun(q) /\ q.at = "compose" /\ q.status = "sent" /\ q \in Proc
    BY <1>7, <1>t DEF Compose, InRun, TypeInv, TypeOK, LocalsOK
  <2>2. p.at = "send" /\ p.schedule = q.schedule /\ p.row = q.row /\ p.due = q.due
    BY <1>t, <2>1, GoesOn
  <2>3. procs' = [procs EXCEPT ![w] = p] /\ UNCHANGED <<clock, schedules, mails, spent>>
    BY <1>7, <2>1 DEF Compose, Goto, Proc, Onward
  <2>4. procs'[w] = p
    BY <1>t, <2>3 DEF TypeInv, TypeOK
  <2>5. \A u : ~ Marking(q, u)
    BY <2>1 DEF Marking
  <2> HIDE DEF p, q
  <2> QED BY <1>k, <1>n, <1>o, <2>1, <2>2, <2>3, <2>4, <2>5 DEF SentOf
<1>8. CASE ComposeFails(w)
  <2>1. InRun(q) /\ q.at = "compose"
    BY <1>8 DEF ComposeFails, InRun
  <2>2. UNCHANGED <<clock, schedules, mails>>
    BY <1>8 DEF ComposeFails, Goto, Abort
  <2>3. spent'["break"] = spent["break"] /\ spent'["crash"] = spent["crash"]
    BY <1>8, <1>t, Spending DEF ComposeFails
  <2>4. \A u : ~ Marking(q, u)
    BY <2>1 DEF Marking
  <2>5. PICK p : /\ procs' = [procs EXCEPT ![w] = p]
                 /\ \/ p = Idle
                    \/ p.schedule = q.schedule /\ p.row = q.row /\ p.due = q.due
    <3>1. CASE procs' = [procs EXCEPT ![w] = Idle]
      BY <3>1
    <3>2. CASE Goto(w, [q EXCEPT !.at = "mark", !.status = "failed"])
      <4> DEFINE p == Onward(q, "mark", "failed")
      <4>1. p.schedule = q.schedule /\ p.row = q.row /\ p.due = q.due
        BY <1>t, <2>1, GoesOn
      <4>2. procs' = [procs EXCEPT ![w] = p]
        BY <3>2 DEF Goto, Onward
      <4> HIDE DEF p
      <4> QED BY <4>1, <4>2
    <3> QED BY <1>8, <3>1, <3>2 DEF ComposeFails, Abort, Goto
  <2>6. procs'[w] = p
    BY <1>t, <2>5 DEF TypeInv, TypeOK
  <2>7. InRun(procs'[w]) => p.schedule = q.schedule /\ p.row = q.row /\ p.due = q.due
    BY <2>5, <2>6, IdleSound
  <2> HIDE DEF q
  <2> QED BY <1>k, <1>n, <1>o, <2>1, <2>2, <2>3, <2>4, <2>6, <2>7 DEF SentOf
<1>9. CASE SendFails(w) \/ MarkFails(w) \/ Apologise(w) \/ Crash(w)
  <2>1. PICK p \in {Idle, Rest(q)} : procs' = [procs EXCEPT ![w] = p]
    BY <1>9 DEF SendFails, MarkFails, Apologise, Crash, Abort, Resume, Rest, Goto
  <2>2. UNCHANGED <<clock, schedules, mails>>
    BY <1>9 DEF SendFails, MarkFails, Apologise, Crash, Abort, Resume, Goto
  <2>3. procs'[w] = p /\ ~ InRun(p)
    BY <1>t, <2>1, Stops DEF TypeInv, TypeOK
  <2>4. spent'["break"] = spent["break"]
    BY <1>9, <1>t, Spending DEF SendFails, MarkFails, Apologise, Crash
  <2>5. \/ spent'["crash"] = spent["crash"] + 1
        \/ spent'["crash"] = spent["crash"] /\ \A s \in Schedules : ~ Marking(q, s)
        \/ spent["break"] # 0 /\ spent'["crash"] = spent["crash"]
    <3>1. CASE Crash(w)
      BY <1>t, <3>1, Spending DEF Crash
    <3>2. CASE SendFails(w)
      BY <1>t, <3>2, Spending DEF SendFails, Marking
    <3>3. CASE Apologise(w)
      BY <3>3 DEF Apologise, Marking
    <3>4. CASE MarkFails(w)
      BY <1>o, <3>4, ScheduleAssumption DEF MarkFails, InRun
    <3> QED BY <1>9, <3>1, <3>2, <3>3, <3>4
  <2>6. CASE spent["break"] = 0
    <3> HIDE DEF q
    <3> QED BY <1>k, <1>n, <1>o, <2>2, <2>3, <2>4, <2>5, <2>6 DEF SentOf
  <2>7. CASE spent["break"] # 0
    BY <1>g, <2>3, <2>4, <2>7
  <2> QED BY <2>6, <2>7
\* The report is for the next due time, or for none: until now it was sent no
\* more often than a worker died.
<1>10. CASE Send(w)
  <2> DEFINE p == Onward(q, "mark", "sent")
             u == q.schedule
             d == q.due
  <2>1. InRun(q) /\ q.at = "send" /\ q.status = "sent" /\ q \in Proc
    BY <1>10, <1>t DEF Send, InRun, TypeInv, TypeOK, LocalsOK
  <2>2. /\ u \in Schedules /\ d \in Times /\ d <= clock
        /\ InRun(p) /\ p.at = "mark" /\ p.schedule = u /\ p.row = q.row /\ p.due = d
    BY <1>t, <2>1, Running, GoesOn
  <2>3. procs' = [procs EXCEPT ![w] = p] /\ UNCHANGED <<clock, schedules, spent>>
    BY <1>10, <2>1 DEF Send, Goto, Proc, Onward
  <2>4. procs'[w] = p
    BY <1>t, <2>3 DEF TypeInv, TypeOK
  <2>5. \A s \in Schedules : \A t \in Times :
          mails'[s][t] = IF s = u /\ t = d
                         THEN IF mails[s][t] < MaxMails THEN mails[s][t] + 1
                              ELSE mails[s][t]
                         ELSE mails[s][t]
    BY <1>10, <1>t, MailTypes
  <2>6. \A s \in Schedules : \A t \in Times : mails[s][t] \in Nat
    BY <1>t DEF TypeInv, TypeOK
  <2>7. d \in {NoDue, schedules[u].next}
    BY <1>o, <2>1
  <2>8. \A s : ~ Marking(q, s)
    BY <2>1 DEF Marking
  <2>9. \A s : Marking(procs'[w], s) <=> s = u
    BY <2>2, <2>4 DEF Marking
  <2> HIDE DEF p, q, u, d
  <2>10. ASSUME spent["break"] = 0, NEW s \in Schedules, NEW k \in {0, 1},
                k = 1 <=> Marking(procs'[w], s)
         PROVE  SentOf(s, k)'
    <3> DEFINE c == spent["crash"]
               n == schedules[s].next
    <3>1. SentOf(s, 0)
      BY <1>o, <2>8, <2>10
    <3>2. /\ schedules[s].runTime \in RunTimes /\ mails[s][n] <= c
          /\ \A t \in Times \ {NoDue} :
               mails[s][t] <= 1 + c /\ (mails[s][t] > 0 => t <= clock /\ t <= n)
      BY <1>n, <2>6, <3>1 DEF SentOf
    <3>3. n \in Times \ {NoDue} /\ n \in Nat /\ c \in Nat
      BY <1>n
    <3> HIDE DEF c, n
    <3>4. CASE s = u /\ d = n
      <4>1. mails'[s][n] <= c + 1
        BY <2>2, <2>5, <2>6, <3>2, <3>3, <3>4
      <4>2. \A t \in Times \ {NoDue} :
              mails'[s][t] <= 1 + c /\ (mails'[s][t] > 0 => t <= clock /\ t <= n)
        BY <1>n, <2>2, <2>5, <2>6, <3>2, <3>3, <3>4, <4>1
      <4>3. k = 1
        BY <2>9, <2>10, <3>4
      <4> QED BY <2>3, <3>2, <4>1, <4>2, <4>3 DEF SentOf, c, n
    <3>5. CASE ~ (s = u /\ d = n)
      <4>1. \A t \in Times \ {NoDue} : mails'[s][t] = mails[s][t]
        BY <2>5, <2>7, <3>5 DEF n
      <4>2. mails'[s][n] <= c
        BY <3>2, <3>3, <4>1
      <4>3. mails'[s][n] <= c + k
        BY <2>6, <3>3, <4>1, <4>2
      <4> QED BY <2>3, <3>2, <4>1, <4>3 DEF SentOf, c, n
    <3> QED BY <3>4, <3>5
  <2>11. InRun(q) => /\ d \in {NoDue, schedules[u].next}
                     /\ spent["break"] = 0 => q.row.runTime \in RunTimes
    BY <1>o DEF q, u, d
  <2>12. /\ procs'[w].due = d /\ procs'[w].row = q.row
         /\ schedules'[procs'[w].schedule].next = schedules[u].next
         /\ spent' = spent
    BY <2>2, <2>3, <2>4
  <2>13. InRun(procs'[w]) =>
           /\ procs'[w].due \in {NoDue, schedules'[procs'[w].schedule].next}
           /\ spent'["break"] = 0 => procs'[w].row.runTime \in RunTimes
    BY <2>1, <2>11, <2>12
  <2> QED BY <1>g, <2>10, <2>12, <2>13
\* No report was sent for the new due time, which is still to come.
<1>11. CASE Mark(w)
  <2> DEFINE u == q.schedule
             n == NextRunAt(clock, q.row.frequency, q.row.runTime)
  <2>1. InRun(q) /\ q.row.runTime \in RunTimes
    BY <1>11, <1>t, MarkStep
  <2>2. /\ schedules'[u] = [schedules[u] EXCEPT !.next = n] /\ schedules'[u].next = n
        /\ \A s \in Schedules \ {u} : schedules'[s] = schedules[s]
    BY <1>11, <1>t, MarkStep
  <2>3. PICK p \in Proc : Sound(p) /\ ~ InRun(p) /\ procs' = [procs EXCEPT ![w] = p]
    BY <1>11, <1>t, MarkStep
  <2>4. procs'[w] = p
    BY <1>t, <2>3 DEF TypeInv, TypeOK
  <2>5. UNCHANGED <<clock, mails, spent>>
    BY <1>11 DEF Mark, Goto, Resume
  <2>6. u \in Schedules /\ q.row \in Row /\ q.row.runTime # Unparsable
    BY <1>11, <1>t, <2>1, Running DEF Mark
  <2>7. n \in Times /\ n > clock
    BY <1>t, <2>6, NextTime
  <2>8. \A s : ~ Marking(procs'[w], s)
    BY <2>3, <2>4 DEF Marking, InRun
  <2>9. \A s \in Schedules : \A t \in Times : mails[s][t] \in Nat
    BY <1>t DEF TypeInv, TypeOK
  <2>10. \A s \in Schedules \ {u} : ~ Marking(q, s)
    BY DEF Marking
  <2>11. schedules'[u].runTime = schedules[u].runTime
    BY <1>t, <2>2, <2>6, <2>7 DEF TypeInv, TypeOK, Row
  <2> HIDE DEF q, u, n
  <2>12. ASSUME spent["break"] = 0, NEW s \in Schedules, NEW k \in {0, 1},
                k = 1 <=> Marking(procs'[w], s)
         PROVE  SentOf(s, k)'
    <3>1. k = 0
      BY <2>8, <2>12
    <3>2. CASE s = u
      <4>1. SentOf(u, mark(q, u))
        BY <1>o, <2>12, <3>2
      <4>2. /\ schedules[u].runTime \in RunTimes
            /\ \A t \in Times \ {NoDue} :
                 /\ mails[u][t] <= 1 + spent["crash"]
                 /\ mails[u][t] > 0 => t <= clock
        BY <4>1 DEF SentOf
      <4>3. n \in Times \ {NoDue} /\ ~ (n <= clock)
        BY <1>n, <2>7 DEF NoDue
      <4>4. mails[u][n] = 0
        BY <2>6, <2>9, <4>2, <4>3
      <4>5. \A t \in Times \ {NoDue} : mails[u][t] > 0 => t <= clock /\ t <= n
        BY <1>n, <2>7, <4>2
      <4>6. mails[u][n] <= spent["crash"] + 0
        BY <1>n, <4>4
      <4> QED BY <2>2, <2>5, <2>11, <3>1, <3>2, <4>2, <4>5, <4>6 DEF SentOf
    <3>3. CASE s # u
      <4>1. SentOf(s, 0) /\ schedules'[s] = schedules[s]
        BY <1>o, <2>2, <2>10, <2>12, <3>3
      <4> QED BY <2>5, <3>1, <4>1 DEF SentOf
    <3> QED BY <3>2, <3>3
  <2> QED BY <1>g, <2>3, <2>4, <2>5, <2>12
<1> QED BY <1>0, <1>1, <1>2, <1>3, <1>4, <1>5, <1>6, <1>7, <1>8, <1>9, <1>10, <1>11
        DEF Next, Step

\* As long as no edit breaks a schedule (Break), one worker at a time sends the
\* report of a due time once, and once more at most for each time it dies between
\* the mail and the mark (run_schedule; the batches of one task do not overlap).
THEOREM ReportsSentOnce ==
  ASSUME NEW w, Workers = {w}
  PROVE  Spec => []OncePerDue
<1>1. AloneInv => OncePerDue
  BY DEF AloneInv, SentOnce, OncePerDue
<1>2. AloneInv /\ [Next]_vars => AloneInv'
  BY AloneStep
<1> QED BY <1>1, <1>2, AloneInit, PTL DEF Spec

(***************************************************************************)
(* Nothing left out                                                        *)
(***************************************************************************)

\* Neither mails nor run rows are lost.
LEMMA Grows ==
  ASSUME TypeInv, [Next]_vars
  PROVE  \A s \in Schedules : \A t \in Times :
           /\ mails[s][t] > 0 => mails'[s][t] > 0
           /\ history[s][t] \subseteq history'[s][t]
<1>1. CASE mails' = mails /\ history' = history
  BY <1>1
<1>2. ASSUME NEW w \in Workers, Send(w)
      PROVE  \A s \in Schedules : \A t \in Times :
               mails[s][t] > 0 => mails'[s][t] > 0
  <2>1. \A s \in Schedules : \A t \in Times : mails[s][t] \in Nat
    BY DEF TypeInv, TypeOK
  <2> QED BY <1>2, <2>1, MailTypes
<1>3. ASSUME NEW w \in Workers, Compose(w) \/ ComposeFails(w)
      PROVE  /\ mails' = mails
             /\ \A s \in Schedules : \A t \in Times : history[s][t] \subseteq history'[s][t]
  <2>1. InRun(procs[w]) /\ mails' = mails
    BY <1>3 DEF Compose, ComposeFails, InRun
  <2>2. AddRun(w, "sent") \/ AddRun(w, "failed") \/ history' = history
    BY <1>3 DEF Compose, ComposeFails
  <2> QED BY <2>1, <2>2, HistoryTypes
<1>4. ASSUME NEW w \in Workers, Send(w)
      PROVE  history' = history
  BY <1>4 DEF Send
<1>5. \/ mails' = mails /\ history' = history
      \/ \E w \in Workers : Send(w) \/ Compose(w) \/ ComposeFails(w)
  BY DEF Next, Step, vars, Advance, Edit, Break, ListDue, RunNow, Load, SendFails, Mark,
         MarkFails, Apologise, Crash
<1> QED BY <1>1, <1>2, <1>3, <1>4, <1>5

\* The only steps that change a next due time are those that mark a run.
LEMMA NextStays ==
  ASSUME TypeInv, [Next]_vars, ~ \E w \in Workers : Mark(w)
  PROVE  \A s \in Schedules : schedules'[s].next = schedules[s].next
<1>1. CASE schedules' = schedules
  BY <1>1
<1>2. CASE \E s \in Schedules : Edit(s) \/ Break(s)
  BY <1>2, EditStep
<1> QED BY <1>1, <1>2 DEF Next, Step, vars, Advance, ListDue, RunNow, Load, Compose,
          ComposeFails, Send, SendFails, MarkFails, Apologise, Crash

LEMMA PunctualInit == Init => PunctualInv
<1> SUFFICES ASSUME Init PROVE PunctualInv
  OBVIOUS
<1>1. TypeInv
  BY TypeInit
<1>2. Served /\ Current
  BY DEF Init, Idle, Served, Current, InRun
<1>3. OnTime
  <2>1. \A w \in Workers : ~ InRun(procs[w]) /\ w \notin polled
    BY DEF Init, Idle, InRun
  <2>2. ASSUME NEW s \in Schedules
        PROVE  /\ schedules[s].enabled /\ schedules[s].reachable
               /\ schedules[s].runTime \in RunTimes
               /\ clock < schedules[s].next
               /\ \A t \in 1..(schedules[s].next - 1) : ~ Occurs(schedules[s], t)
    <3> DEFINE r == schedules[s]
               n == r.next
    <3>1. r \in Row /\ r.enabled /\ r.reachable /\ r.runTime \in RunTimes
          /\ n = NextRunAt(0, r.frequency, r.runTime) /\ clock = 0
      BY DEF Init, Created
    <3>2. r.frequency \in Frequencies
      BY <3>1 DEF Row
    <3>3. n \in Nat /\ n > 0
          /\ \A t \in Nat :
               0 < t /\ t < n => ~ (t % DayLength = r.runTime /\ Wanted(r.frequency, t))
      BY <3>1, <3>2, NextIsFirst
    <3> HIDE DEF n
    <3>4. \A t \in 1..(n - 1) : t \in Nat /\ 0 < t /\ t < n
      BY <3>3
    <3>5. \A t \in 1..(n - 1) : ~ Occurs(r, t)
      BY <3>3, <3>4 DEF Occurs
    <3> QED BY <3>1, <3>3, <3>5 DEF n
  <2>3. \A s \in Schedules : clock \in Nat /\ schedules[s].next \in Nat
    BY <1>1, ScheduleAssumption DEF TypeInv, TypeOK, Row, Times
  <2>4. \A s \in Schedules : clock <= schedules[s].next /\ schedules[s].next # clock
    BY <2>2, <2>3
  <2> QED BY <2>1, <2>2, <2>4 DEF OnTime
<1> QED BY <1>1, <1>2, <1>3 DEF PunctualInv

\* What a worker found due is still due while it runs, and has been served or has
\* failed when it is marked.
LEMMA ServedStep ==
  ASSUME Punctual, MaxMails > 0, TypeInv, TypeInv', Served, Current, [Next]_vars
  PROVE  Served' /\ Current'
<1> DEFINE served(p) == IF p.status = "sent" THEN mails'[p.schedule][p.due] > 0
                        ELSE "failed" \in history'[p.schedule][p.due]
           current(p) == schedules'[p.schedule].next <= clock'
                           => p.due = schedules'[p.schedule].next
<1>1. ASSUME NEW w \in Workers, InRun(procs[w])
      PROVE  /\ procs[w].at = "mark" /\ procs[w].due # NoDue => served(procs[w])
             /\ schedules[procs[w].schedule].next <= clock =>
                  procs[w].due = schedules[procs[w].schedule].next
  <2>1. procs[w].schedule \in Schedules /\ procs[w].due \in Times
    BY <1>1, Running
  <2> QED BY <1>1, <2>1, Grows DEF Served, Current
\* It is enough to look at the worker that takes the step.
<1>g. ASSUME NEW w \in Workers, NEW p \in Proc, procs' = [procs EXCEPT ![w] = p],
             clock' = clock,
             \A s \in Schedules : schedules'[s].next = schedules[s].next,
             InRun(p) =>
               \/ InRun(procs[w]) /\ p.schedule = procs[w].schedule /\ p.due = procs[w].due
               \/ p.schedule \in Schedules /\
                  p.due = IF schedules[p.schedule].next <= clock
                          THEN schedules[p.schedule].next ELSE NoDue,
             p.at = "mark" /\ p.due # NoDue => served(p)
      PROVE  Served' /\ Current'
  <2> SUFFICES ASSUME NEW u \in Workers
               PROVE  /\ procs'[u].at = "mark" /\ procs'[u].due # NoDue => served(procs'[u])
                      /\ InRun(procs'[u]) => current(procs'[u])
    BY DEF Served, Current
  <2>1. procs'[u] = IF u = w THEN p ELSE procs[u]
    BY <1>g DEF TypeInv, TypeOK
  <2>2. InRun(procs[u]) => procs[u].schedule \in Schedules
    BY Running
  <2>3. CASE u = w
    <3>1. InRun(p) => p.schedule \in Schedules
      BY <1>g, <2>2, <2>3
    <3>2. InRun(p) => current(p)
      BY <1>1, <1>g, <3>1
    <3> QED BY <1>g, <2>1, <2>3, <3>2
  <2>4. CASE u # w
    <3>1. procs'[u] = procs[u]
      BY <2>1, <2>4
    <3>2. procs[u].at = "mark" => InRun(procs[u])
      BY DEF InRun
    <3> QED BY <1>1, <1>g, <2>2, <3>1, <3>2
  <2> QED BY <2>3, <2>4
<1>0. CASE UNCHANGED vars
  BY <1>0 DEF vars, Served, Current
<1>2. CASE Advance
  <2>1. \A w \in Workers : procs'[w] = Idle
    BY <1>2 DEF Advance, BatchOver
  <2> QED BY <2>1 DEF Served, Current, Idle, InRun
<1>3. CASE \E s \in Schedules : Edit(s) \/ Break(s)
  <2>1. /\ UNCHANGED <<clock, procs>>
        /\ \A s \in Schedules : schedules'[s].next = schedules[s].next
    BY <1>3, EditStep
  <2> SUFFICES ASSUME NEW u \in Workers, InRun(procs[u])
               PROVE  /\ procs[u].at = "mark" /\ procs[u].due # NoDue => served(procs[u])
                      /\ current(procs[u])
    BY <2>1 DEF Served, Current, InRun
  <2>2. procs[u].schedule \in Schedules
    BY Running
  <2> QED BY <1>1, <2>1, <2>2
<1>4. ASSUME NEW w \in Workers, ListDue(w)
      PROVE  Served' /\ Current'
  <2> DEFINE due == {s \in Schedules : Due(s)}
             p == IF due = {} THEN Idle ELSE [Idle EXCEPT !.at = "load", !.todo = due]
  <2>1. Sound(p) /\ ~ InRun(p)
    BY BeginStep
  <2>2. /\ procs' = [procs EXCEPT ![w] = p] /\ clock' = clock
        /\ \A s \in Schedules : schedules'[s].next = schedules[s].next
    BY <1>4 DEF ListDue
  <2> HIDE DEF p, served, current
  <2> QED BY <1>g, <2>1, <2>2 DEF InRun, Sound
<1>5. ASSUME NEW w \in Workers, NEW s \in Schedules, RunNow(w, s)
      PROVE  Served' /\ Current'
  <2> DEFINE p == [Idle EXCEPT !.at = "load", !.todo = {s}]
  <2>1. Sound(p) /\ ~ InRun(p)
    BY BeginStep
  <2>2. /\ procs' = [procs EXCEPT ![w] = p] /\ clock' = clock
        /\ \A u \in Schedules : schedules'[u].next = schedules[u].next
    BY <1>5 DEF RunNow, Goto
  <2> HIDE DEF p, served, current
  <2> QED BY <1>g, <2>1, <2>2 DEF InRun, Sound
<1>6. ASSUME NEW w \in Workers, Load(w)
      PROVE  Served' /\ Current'
  <2>1. PICK s \in procs[w].todo, p \in Proc :
          /\ s \in Schedules /\ Sound(p) /\ procs' = [procs EXCEPT ![w] = p]
          /\ p.at = "compose" /\ p.schedule = s
          /\ p.due = IF schedules[s].next <= clock THEN schedules[s].next ELSE NoDue
    BY <1>6, LoadStep
  <2>2. clock' = clock /\ \A u \in Schedules : schedules'[u].next = schedules[u].next
    BY <1>6 DEF Load, Goto
  <2>3. p.at # "mark" /\ p.schedule \in Schedules
        /\ p.due = IF schedules[p.schedule].next <= clock
                   THEN schedules[p.schedule].next ELSE NoDue
    BY <2>1
  <2> HIDE DEF served, current
  <2> QED BY <1>g, <2>1, <2>2, <2>3
<1>7. ASSUME NEW w \in Workers, Compose(w)
      PROVE  Served' /\ Current'
  <2> DEFINE p == Onward(procs[w], "send", "sent")
  <2>0. p = Onward(procs[w], "send", "sent")
    OBVIOUS
  <2> HIDE DEF p
  <2>1. InRun(procs[w]) /\ procs[w].status = "sent" /\ procs[w] \in Proc
    BY <1>7 DEF Compose, InRun, TypeInv, TypeOK, LocalsOK
  <2>2. /\ Sound(p) /\ p.at = "send" /\ p.schedule = procs[w].schedule
        /\ p.due = procs[w].due
    BY <2>0, <2>1, GoesOn
  <2>3. /\ procs' = [procs EXCEPT ![w] = p] /\ clock' = clock
        /\ \A u \in Schedules : schedules'[u].next = schedules[u].next
    BY <1>7, <2>0, <2>1 DEF Compose, Goto, Proc, Onward
  <2> HIDE DEF served, current
  <2> QED BY <1>g, <2>1, <2>2, <2>3 DEF Sound
<1>8. ASSUME NEW w \in Workers, ComposeFails(w)
      PROVE  Served' /\ Current'
  <2>1. InRun(procs[w])
    BY <1>8 DEF ComposeFails, InRun
  <2>2. clock' = clock /\ \A u \in Schedules : schedules'[u].next = schedules[u].next
    BY <1>8 DEF ComposeFails, Goto, Abort
  <2>3. CASE procs' = [procs EXCEPT ![w] = Idle]
    <3>1. Idle \in Proc /\ ~ InRun(Idle) /\ Idle.at # "mark"
      BY IdleSound DEF Sound, InRun
    <3> HIDE DEF served, current
    <3> QED BY <1>g, <2>2, <2>3, <3>1
  <2>4. CASE AddRun(w, "failed") /\
             Goto(w, [procs[w] EXCEPT !.at = "mark", !.status = "failed"])
    <3> DEFINE p == Onward(procs[w], "mark", "failed")
    <3>0. p = Onward(procs[w], "mark", "failed")
      OBVIOUS
    <3> HIDE DEF p
    <3>1. /\ Sound(p) /\ p.status = "failed" /\ p.schedule = procs[w].schedule
          /\ p.due = procs[w].due
      BY <2>1, <3>0, GoesOn
    <3>2. procs' = [procs EXCEPT ![w] = p]
      BY <2>4, <3>0 DEF Goto, Onward
    <3>3. "failed" \in history'[procs[w].schedule][procs[w].due]
      BY <2>1, <2>4, HistoryTypes
    <3>4. served(p)
      BY <3>1, <3>3
    <3> HIDE DEF served, current
    <3> QED BY <1>g, <2>1, <2>2, <3>1, <3>2, <3>4 DEF Sound
  <2> QED BY <1>8, <2>3, <2>4 DEF ComposeFails, Abort, Goto
<1>9. ASSUME NEW w \in Workers, Send(w)
      PROVE  Served' /\ Current'
  <2> DEFINE p == Onward(procs[w], "mark", "sent")
  <2>0. p = Onward(procs[w], "mark", "sent")
    OBVIOUS
  <2> HIDE DEF p
  <2>1. InRun(procs[w]) /\ procs[w].status = "sent" /\ procs[w] \in Proc
    BY <1>9 DEF Send, InRun, TypeInv, TypeOK, LocalsOK
  <2>2. /\ Sound(p) /\ p.status = "sent" /\ p.schedule = procs[w].schedule
        /\ p.due = procs[w].due
    BY <2>0, <2>1, GoesOn
  <2>3. /\ procs' = [procs EXCEPT ![w] = p] /\ clock' = clock
        /\ \A u \in Schedules : schedules'[u].next = schedules[u].next
    BY <1>9, <2>0, <2>1 DEF Send, Goto, Proc, Onward
  <2>4. mails'[procs[w].schedule][procs[w].due] > 0
    <3>1. procs[w].schedule \in Schedules /\ procs[w].due \in Times
      BY <2>1, Running
    <3>2. mails[procs[w].schedule][procs[w].due] \in 0..MaxMails /\ MaxMails \in Nat
      BY <3>1, ScheduleAssumption DEF TypeInv, TypeOK
    <3>3. mails'[procs[w].schedule][procs[w].due] =
            IF mails[procs[w].schedule][procs[w].due] < MaxMails
            THEN mails[procs[w].schedule][procs[w].due] + 1
            ELSE mails[procs[w].schedule][procs[w].due]
      BY <1>9, <3>1, MailTypes
    <3> QED BY <3>2, <3>3
  <2>5. served(p)
    BY <2>2, <2>4
  <2> HIDE DEF served, current
  <2> QED BY <1>g, <2>1, <2>2, <2>3, <2>5 DEF Sound
<1>10. ASSUME NEW w \in Workers,
              SendFails(w) \/ MarkFails(w) \/ Apologise(w) \/ Crash(w)
       PROVE  Served' /\ Current'
  <2>1. PICK p \in {Idle, Rest(procs[w])} : procs' = [procs EXCEPT ![w] = p]
    BY <1>10 DEF SendFails, MarkFails, Apologise, Crash, Abort, Resume, Rest, Goto
  <2>2. clock' = clock /\ \A u \in Schedules : schedules'[u].next = schedules[u].next
    BY <1>10 DEF SendFails, MarkFails, Apologise, Crash, Abort, Resume, Goto
  <2>3. Sound(p) /\ ~ InRun(p)
    BY <2>1, Stops
  <2> HIDE DEF served, current
  <2> QED BY <1>g, <2>1, <2>2, <2>3 DEF InRun, Sound
\* The new due time is ahead of the clock: it says nothing of the other workers.
<1>11. ASSUME NEW w \in Workers, Mark(w)
       PROVE  Served' /\ Current'
  <2> DEFINE u == procs[w].schedule
             n == NextRunAt(clock, procs[w].row.frequency, procs[w].row.runTime)
  <2>1. /\ schedules'[u].next = n /\ InRun(procs[w])
        /\ \A s \in Schedules \ {u} : schedules'[s] = schedules[s]
    BY <1>11, MarkStep
  <2>2. PICK p \in Proc : ~ InRun(p) /\ procs' = [procs EXCEPT ![w] = p]
    BY <1>11, MarkStep
  <2>3. procs[w].row \in Row /\ procs[w].row.runTime # Unparsable
    BY <1>11, <2>1, Running DEF Mark
  <2>4. n \in Nat /\ n > clock /\ clock \in Nat /\ clock' = clock
    BY <1>11, <2>3, NextTime, ScheduleAssumption DEF Mark, Goto, Resume, Times
  <2> HIDE DEF u, n
  <2> SUFFICES ASSUME NEW v \in Workers, InRun(procs'[v])
               PROVE  /\ procs'[v].at = "mark" /\ procs'[v].due # NoDue => served(procs'[v])
                      /\ current(procs'[v])
    BY DEF Served, Current, InRun
  <2>5. procs'[v] = procs[v] /\ InRun(procs[v])
    BY <2>2 DEF TypeInv, TypeOK
  <2>6. procs[v].schedule \in Schedules
    BY <2>5, Running
  <2>7. current(procs[v])
    BY <1>1, <2>1, <2>4, <2>5, <2>6
  <2> QED BY <1>1, <2>5, <2>7
<1> QED BY <1>0, <1>2, <1>3, <1>4, <1>5, <1>6, <1>7, <1>8, <1>9, <1>10, <1>11
        DEF Next, Step

\* The events that happened stay counted.
LEMMA SpentGrows ==
  ASSUME TypeInv, [Next]_vars, NEW e \in Events
  PROVE  spent[e] <= spent'[e] /\ spent[e] \in Nat
<1>1. spent[e] \in Nat
  BY DEF TypeInv, TypeOK
<1>2. CASE spent' = spent
  BY <1>1, <1>2
<1>3. CASE \E event \in Events : Spend(event)
  BY <1>1, <1>3, Spending
<1>4. spent' = spent \/ \E event \in Events : Spend(event)
  BY DEF Next, Step, vars, Advance, Edit, Break, ListDue, RunNow, Load, Compose,
         ComposeFails, Send, SendFails, Mark, MarkFails, Apologise, Crash, Events
<1> QED BY <1>2, <1>3, <1>4

\* An event that is spent is seen to have happened.
LEMMA Disturbs ==
  ASSUME TypeInv, [Next]_vars,
         NEW event \in {"edit", "break", "noData", "mailFails", "crash"}, Spend(event)
  PROVE  ~ Undisturbed'
<1>1. event \in Events
  BY DEF Events
<1>2. spent[event] \in Nat /\ spent'[event] = spent[event] + 1
  BY <1>1, Spending DEF TypeInv, TypeOK
<1>3. spent'[event] # 0
  BY <1>2
<1> QED BY <1>3 DEF Undisturbed

\* What OnTime says of a schedule and of a worker's local variables.
Timely(s) ==
  /\ schedules[s].enabled /\ schedules[s].reachable
  /\ schedules[s].runTime \in RunTimes
  /\ \A t \in 1..(schedules[s].next - 1) : Occurs(schedules[s], t) => mails[s][t] > 0
  /\ clock <= schedules[s].next
  /\ schedules[s].next = clock => Coming(s)

Faithful(p) ==
  InRun(p) =>
    /\ p.row.reachable /\ p.status = "sent"
    /\ p.row.runTime = schedules[p.schedule].runTime
    /\ p.row.frequency = schedules[p.schedule].frequency

\* The worker will serve the schedule.
Expects(w, p, arrived, s) ==
  \/ w \notin arrived
  \/ s \in p.todo
  \/ InRun(p) /\ p.schedule = s

LEMMA OnTimeStep ==
  ASSUME Punctual, Workers # {}, TypeInv, TypeInv', Served, Current, OnTime, [Next]_vars
  PROVE  OnTime'
<1> SUFFICES ASSUME Undisturbed'
             PROVE  /\ \A s \in Schedules : Timely(s)'
                    /\ \A w \in Workers : Faithful(procs[w])'
  BY DEF OnTime, Timely, Faithful
<1>1. Undisturbed
  <2>1. ASSUME NEW e \in {"edit", "break", "noData", "mailFails", "crash"}
        PROVE  spent[e] = 0
    <3>1. e \in Events /\ spent'[e] = 0
      BY DEF Events, Undisturbed
    <3>2. spent[e] <= 0 /\ spent[e] \in Nat
      BY <3>1, SpentGrows
    <3> QED BY <3>2
  <2> QED BY <2>1 DEF Undisturbed
<1>2. /\ \A s \in Schedules : Timely(s)
      /\ \A w \in Workers : Faithful(procs[w])
  BY <1>1 DEF OnTime, Timely, Faithful
<1>3. /\ clock \in Nat
      /\ \A s \in Schedules :
           /\ schedules[s] \in Row /\ schedules[s].next \in Nat /\ schedules[s].next # NoDue
           /\ schedules[s].next \in Times
      /\ \A t \in Times : t \in Nat
  BY ScheduleAssumption DEF TypeInv, TypeOK, NextAhead, Row, Times
<1>4. \A s \in Schedules :
        Coming(s) <=> \E w \in Workers : Expects(w, procs[w], polled, s)
  BY DEF Coming, Expects
<1>5. \A s \in Schedules :
        Coming(s)' <=> \E w \in Workers : Expects(w, procs'[w], polled', s)
  BY DEF Coming, Expects
\* The actions of one worker that leave the schedules as they are.
<1>g. ASSUME NEW w \in Workers, NEW p, procs' = [procs EXCEPT ![w] = p],
             UNCHANGED <<clock, schedules>>,
             \A u \in Workers \ {w} : u \notin polled => u \notin polled',
             \A s \in Schedules :
               schedules[s].next = clock /\ Expects(w, procs[w], polled, s)
                 => Expects(w, p, polled', s),
             Faithful(p)
      PROVE  /\ \A s \in Schedules : Timely(s)'
             /\ \A u \in Workers : Faithful(procs[u])'
  <2>1. \A u \in Workers : procs'[u] = IF u = w THEN p ELSE procs[u]
    BY <1>g DEF TypeInv, TypeOK
  <2>2. ASSUME NEW u \in Workers
        PROVE  Faithful(procs[u])'
    <3>1. CASE u = w
      BY <1>g, <2>1, <3>1 DEF Faithful
    <3>2. CASE u # w
      BY <1>2, <1>g, <2>1, <3>2 DEF Faithful
    <3> QED BY <3>1, <3>2
  <2>3. ASSUME NEW s \in Schedules
        PROVE  Timely(s)'
    <3>1. schedules[s].next = clock => Coming(s)'
      <4> SUFFICES ASSUME schedules[s].next = clock PROVE Coming(s)'
        OBVIOUS
      <4>1. PICK u \in Workers : Expects(u, procs[u], polled, s)
        BY <1>2, <1>4 DEF Timely
      <4>2. CASE u = w
        BY <1>5, <1>g, <2>1, <4>1, <4>2
      <4>3. CASE u # w
        <5>1. Expects(u, procs'[u], polled', s)
          BY <1>g, <2>1, <4>1, <4>3 DEF Expects
        <5> QED BY <1>5, <5>1
      <4> QED BY <4>2, <4>3
    <3>2. \A t \in 1..(schedules[s].next - 1) :
            Occurs(schedules[s], t) => mails'[s][t] > 0
      <4> SUFFICES ASSUME NEW t \in 1..(schedules[s].next - 1), Occurs(schedules[s], t)
                   PROVE  mails'[s][t] > 0
        OBVIOUS
      <4>1. t \in Times
        BY <1>3, ScheduleAssumption DEF Times
      <4> QED BY <1>2, <4>1, Grows DEF Timely
    <3>3. /\ schedules[s].enabled /\ schedules[s].reachable
          /\ schedules[s].runTime \in RunTimes /\ clock <= schedules[s].next
      BY <1>2 DEF Timely
    <3> QED BY <1>g, <3>1, <3>2, <3>3 DEF Timely, Occurs
  <2> QED BY <2>2, <2>3
<1>0. CASE UNCHANGED vars
  BY <1>0, <1>2 DEF vars, Timely, Occurs, Coming, Faithful
\* Time goes on when every due schedule has been served.
<1>6. CASE Advance
  <2>1. /\ clock' = clock + 1 /\ polled' = {} /\ polled = Workers
        /\ UNCHANGED <<schedules, mails, procs>>
        /\ \A w \in Workers : procs[w] = Idle
    BY <1>6 DEF Advance, BatchOver
  <2>2. ASSUME NEW s \in Schedules
        PROVE  Timely(s)'
    <3>1. ~ Coming(s)
      BY <2>1, IdleSound DEF Coming
    <3>2. clock' <= schedules[s].next
      <4> DEFINE n == schedules[s].next
      <4>1. n \in Nat /\ clock <= n /\ n # clock
        BY <1>2, <1>3, <3>1 DEF Timely
      <4> HIDE DEF n
      <4>2. clock + 1 <= n
        BY <1>3, <4>1
      <4> QED BY <2>1, <4>2 DEF n
    <3>3. Coming(s)'
      BY <2>1 DEF Coming
    <3> QED BY <1>2, <2>1, <3>2, <3>3 DEF Timely, Occurs
  <2> QED BY <1>2, <2>1, <2>2 DEF Faithful
<1>7. ASSUME NEW s \in Schedules, Edit(s) \/ Break(s)
      PROVE  FALSE
  BY <1>7, EditStep, Disturbs
<1>8. ASSUME NEW w \in Workers, ListDue(w)
      PROVE  /\ \A s \in Schedules : Timely(s)'
             /\ \A u \in Workers : Faithful(procs[u])'
  <2> DEFINE due == {s \in Schedules : Due(s)}
             p == IF due = {} THEN Idle ELSE [Idle EXCEPT !.at = "load", !.todo = due]
  <2>1. Sound(p) /\ ~ InRun(p) /\ p.todo = due
    BY BeginStep
  <2>2. /\ procs' = [procs EXCEPT ![w] = p] /\ UNCHANGED <<clock, schedules>>
        /\ \A u \in Workers \ {w} : u \notin polled => u \notin polled'
    BY <1>8 DEF ListDue
  <2>3. \A s \in Schedules : schedules[s].next = clock => s \in due
    BY <1>2, <1>3 DEF Due, Timely
  <2> HIDE DEF p, due
  <2> QED BY <1>g, <2>1, <2>2, <2>3 DEF Faithful, Expects
<1>9. ASSUME NEW w \in Workers, NEW r \in Schedules, RunNow(w, r)
      PROVE  /\ \A s \in Schedules : Timely(s)'
             /\ \A u \in Workers : Faithful(procs[u])'
  <2> DEFINE p == [Idle EXCEPT !.at = "load", !.todo = {r}]
  <2>1. Sound(p) /\ ~ InRun(p) /\ p.todo = {r}
    BY BeginStep
  <2>2. /\ procs' = [procs EXCEPT ![w] = p] /\ UNCHANGED <<clock, schedules, polled>>
        /\ procs[w] = Idle
    BY <1>9 DEF RunNow, Goto
  <2> HIDE DEF p
  <2> QED BY <1>g, <2>1, <2>2, IdleSound DEF Faithful, Expects
<1>10. ASSUME NEW w \in Workers, Load(w)
       PROVE  /\ \A s \in Schedules : Timely(s)'
              /\ \A u \in Workers : Faithful(procs[u])'
  <2>1. PICK s \in procs[w].todo, p \in Proc :
          /\ s \in Schedules /\ InRun(p) /\ ~ InRun(procs[w])
          /\ procs' = [procs EXCEPT ![w] = p]
          /\ p.todo = procs[w].todo \ {s} /\ p.schedule = s
          /\ p.row = schedules[s] /\ p.status = "sent"
    BY <1>10, LoadStep
  <2>2. UNCHANGED <<clock, schedules, polled>>
    BY <1>10 DEF Load, Goto
  <2>3. Faithful(p)
    BY <1>2, <2>1 DEF Faithful, Timely
  <2>4. \A u : Expects(w, procs[w], polled, u) => Expects(w, p, polled, u)
    BY <2>1 DEF Expects
  <2> QED BY <1>g, <2>1, <2>2, <2>3, <2>4
<1>11. ASSUME NEW w \in Workers, Compose(w) \/ Send(w)
       PROVE  /\ \A s \in Schedules : Timely(s)'
              /\ \A u \in Workers : Faithful(procs[u])'
  <2>1. InRun(procs[w]) /\ procs[w].status = "sent" /\ procs[w] \in Proc
    BY <1>11 DEF Compose, Send, InRun, TypeInv, TypeOK, LocalsOK
  <2>2. PICK at \in {"send", "mark"} : procs' = [procs EXCEPT ![w] = Onward(procs[w], at, "sent")]
    BY <1>11, <2>1 DEF Compose, Send, Goto, Proc, Onward
  <2> DEFINE p == Onward(procs[w], at, "sent")
  <2>3. /\ InRun(p) /\ p.todo = procs[w].todo /\ p.schedule = procs[w].schedule
        /\ p.row = procs[w].row /\ p.status = "sent"
    BY <2>1, GoesOn
  <2>4. procs' = [procs EXCEPT ![w] = p] /\ UNCHANGED <<clock, schedules, polled>>
    BY <1>11, <2>2 DEF Compose, Send, Goto
  <2> HIDE DEF p
  <2>5. Faithful(p)
    BY <1>2, <2>1, <2>3 DEF Faithful
  <2>6. \A u : Expects(w, procs[w], polled, u) => Expects(w, p, polled, u)
    BY <2>3 DEF Expects
  <2> QED BY <1>g, <2>4, <2>5, <2>6
<1>12. ASSUME NEW w \in Workers,
              ComposeFails(w) \/ SendFails(w) \/ MarkFails(w) \/ Crash(w)
       PROVE  FALSE
  <2>1. InRun(procs[w]) \/ Crash(w)
    BY <1>12 DEF ComposeFails, SendFails, MarkFails, InRun
  <2>2. CASE ComposeFails(w) \/ Crash(w)
    BY <2>2, Disturbs DEF ComposeFails, Crash
  <2>3. CASE SendFails(w)
    <3>1. procs[w].row.reachable
      BY <1>2, <2>3 DEF Faithful, SendFails, InRun
    <3> QED BY <2>3, <3>1, Disturbs DEF SendFails
  <2>4. CASE MarkFails(w)
    <3>1. InRun(procs[w]) /\ procs[w].schedule \in Schedules
      BY <2>4, Running DEF MarkFails, InRun
    <3>2. procs[w].row.runTime \in RunTimes
      BY <1>2, <3>1 DEF Faithful, Timely
    <3> QED BY <2>4, <3>2, ScheduleAssumption DEF MarkFails
  <2> QED BY <1>12, <2>2, <2>3, <2>4
<1>13. ASSUME NEW w \in Workers, Apologise(w)
       PROVE  /\ \A s \in Schedules : Timely(s)'
              /\ \A u \in Workers : Faithful(procs[u])'
  <2> DEFINE p == Rest(procs[w])
  <2>1. procs[w] \in Proc /\ ~ InRun(procs[w])
    BY <1>13 DEF Apologise, InRun, TypeInv, TypeOK
  <2>2. ~ InRun(p) /\ p.todo = procs[w].todo
    BY <2>1, RestSound
  <2>3. procs' = [procs EXCEPT ![w] = p] /\ UNCHANGED <<clock, schedules, polled>>
    BY <1>13 DEF Apologise, Resume, Rest, Goto
  <2> HIDE DEF p
  <2> QED BY <1>g, <2>1, <2>2, <2>3 DEF Faithful, Expects
\* The times up to the new due time are served: those before the old one were,
\* that one is now, and none lies between.
<1>14. ASSUME NEW w \in Workers, Mark(w)
       PROVE  /\ \A s \in Schedules : Timely(s)'
              /\ \A u \in Workers : Faithful(procs[u])'
  <2> DEFINE q == procs[w]
  <2>0. PICK r \in Schedules : r = q.schedule
    BY <1>14, Running DEF Mark, InRun
  <2> DEFINE old == schedules[r].next
             n == NextRunAt(clock, q.row.frequency, q.row.runTime)
  <2>1. /\ InRun(q) /\ q.at = "mark" /\ q.row.runTime \in RunTimes
        /\ schedules'[r] = [schedules[r] EXCEPT !.next = n] /\ schedules'[r].next = n
        /\ \A s \in Schedules \ {r} : schedules'[s] = schedules[s]
    BY <1>14, <2>0, MarkStep
  <2>2. PICK p \in Proc :
          ~ InRun(p) /\ procs' = [procs EXCEPT ![w] = p] /\ p.todo = q.todo
    BY <1>14, MarkStep
  <2>3. UNCHANGED <<clock, polled, mails>> /\ q.row.runTime # Unparsable
    BY <1>14 DEF Mark, Goto, Resume
  <2>4. q.row \in Row /\ q.due \in Times
    BY <2>1, Running
  <2>5. n \in Nat /\ n > clock /\ \A t \in Nat : clock < t /\ t < n => ~ Occurs(q.row, t)
    BY <1>3, <2>3, <2>4, NextTime
  <2>6. \A t : Occurs(q.row, t) <=> Occurs(schedules[r], t)
    BY <1>2, <2>0, <2>1 DEF Faithful, Occurs
  <2>7. /\ schedules[r] \in Row /\ old \in Nat /\ clock <= old
        /\ \A t \in 1..(old - 1) : Occurs(schedules[r], t) => mails[r][t] > 0
        /\ schedules[r].enabled /\ schedules[r].reachable /\ schedules[r].runTime \in RunTimes
    BY <1>2, <1>3, <2>4 DEF Timely
  <2>8. old = clock => mails[r][clock] > 0
    <3> SUFFICES ASSUME old = clock PROVE mails[r][clock] > 0
      OBVIOUS
    <3>1. q.due = old /\ old # NoDue
      BY <1>3, <2>0, <2>1, <2>4 DEF Current
    <3>2. q.status = "sent"
      BY <1>2, <2>1 DEF Faithful
    <3> QED BY <2>0, <2>1, <3>1, <3>2 DEF Served
  <2>9. /\ schedules'[r].enabled = schedules[r].enabled
        /\ schedules'[r].reachable = schedules[r].reachable
        /\ schedules'[r].runTime = schedules[r].runTime
        /\ schedules'[r].frequency = schedules[r].frequency
    BY <2>1, <2>7 DEF Row
  <2>10. \A u \in Workers : procs'[u] = IF u = w THEN p ELSE procs[u]
    BY <2>2 DEF TypeInv, TypeOK
  <2> HIDE DEF n, old, q
  <2>11. Timely(r)'
    <3>1. \A t \in 1..(n - 1) : Occurs(schedules[r], t) => mails[r][t] > 0
      <4> SUFFICES ASSUME NEW t \in 1..(n - 1), Occurs(schedules[r], t)
                   PROVE  mails[r][t] > 0
        OBVIOUS
      <4>1. t \in Nat /\ t < n /\ 1 <= t
        BY <2>5
      <4>2. t <= clock
        BY <1>3, <2>5, <2>6, <4>1
      <4>3. CASE t = old
        BY <1>3, <2>7, <2>8, <4>2, <4>3
      <4>4. CASE t < old
        BY <2>7, <4>1, <4>4
      <4> QED BY <1>3, <2>7, <4>1, <4>2, <4>3, <4>4
    <3>2. \A t : Occurs(schedules[r], t) <=> Occurs(schedules'[r], t)
      BY <2>9 DEF Occurs
    <3>3. clock <= n /\ n # clock
      BY <1>3, <2>5
    <3> QED BY <2>1, <2>3, <2>7, <2>9, <3>1, <3>2, <3>3 DEF Timely, Occurs
  <2>12. ASSUME NEW s \in Schedules \ {r}
         PROVE  Timely(s)'
    <3>1. schedules'[s] = schedules[s] /\ Timely(s)
      BY <1>2, <2>1
    <3>2. Coming(s) => Coming(s)'
      <4> SUFFICES ASSUME Coming(s) PROVE Coming(s)'
        OBVIOUS
      <4>1. PICK u \in Workers : Expects(u, procs[u], polled, s)
        BY <1>4
      <4>2. Expects(u, procs'[u], polled', s)
        <5>1. CASE u = w
          BY <2>0, <2>2, <2>3, <2>10, <4>1, <5>1 DEF Expects, q
        <5>2. CASE u # w
          BY <2>3, <2>10, <4>1, <5>2 DEF Expects
        <5> QED BY <5>1, <5>2
      <4> QED BY <1>5, <4>2
    <3> QED BY <2>3, <3>1, <3>2 DEF Timely, Occurs
  <2>13. ASSUME NEW u \in Workers
         PROVE  Faithful(procs[u])'
    <3> SUFFICES ASSUME InRun(procs'[u])
                 PROVE  /\ procs'[u].row.reachable /\ procs'[u].status = "sent"
                        /\ procs'[u].row.runTime = schedules'[procs'[u].schedule].runTime
                        /\ procs'[u].row.frequency = schedules'[procs'[u].schedule].frequency
      BY DEF Faithful
    <3>1. procs'[u] = procs[u] /\ InRun(procs[u])
      BY <2>2, <2>10
    <3>2. procs[u].schedule \in Schedules
      BY <3>1, Running
    <3>3. /\ schedules'[procs[u].schedule].runTime = schedules[procs[u].schedule].runTime
          /\ schedules'[procs[u].schedule].frequency = schedules[procs[u].schedule].frequency
      BY <2>1, <2>9, <3>2
    <3> QED BY <1>2, <3>1, <3>3 DEF Faithful
  <2> QED BY <2>11, <2>12, <2>13
<1> QED BY <1>0, <1>6, <1>7, <1>8, <1>9, <1>10, <1>11, <1>12, <1>13, <1>14
        DEF Next, Step

LEMMA PunctualStep ==
  ASSUME Punctual, MaxMails > 0, Workers # {}, PunctualInv, [Next]_vars
  PROVE  PunctualInv'
<1>1. TypeInv'
  BY TypeStep DEF PunctualInv
<1>2. Served' /\ Current'
  BY <1>1, ServedStep DEF PunctualInv
<1>3. OnTime'
  BY <1>1, OnTimeStep DEF PunctualInv
<1> QED BY <1>1, <1>2, <1>3 DEF PunctualInv

\* A step over a due time that has come is a mark of a run for it.
LEMMA StepsOverNothing ==
  ASSUME Punctual, PunctualInv, [Next]_vars, NEW s \in Schedules,
         schedules'[s].next # schedules[s].next, schedules[s].next <= clock
  PROVE  \/ mails[s][schedules[s].next] > 0
         \/ "failed" \in history[s][schedules[s].next]
<1>1. PICK w \in Workers : Mark(w)
  BY NextStays DEF PunctualInv
<1>2. InRun(procs[w]) /\ procs[w].at = "mark" /\ procs[w].schedule = s
  BY <1>1, MarkStep DEF PunctualInv
<1>3. procs[w].due = schedules[s].next /\ procs[w].due # NoDue
  BY <1>2 DEF PunctualInv, Current, TypeInv, NextAhead
<1> QED BY <1>2, <1>3 DEF PunctualInv, Served

\* With punctual batches, any number of workers serve an undisturbed schedule at
\* every time that its frequency and run time name, and never step over a due
\* time that was neither served nor failed (_next_run_at, run_due_schedules).
THEOREM ReportsLeaveNothingOut ==
  ASSUME Punctual, MaxMails > 0, Workers # {}
  PROVE  Spec => NothingLeftOut
<1>1. PunctualInv => ServedOnTime
  <2> SUFFICES ASSUME PunctualInv, Undisturbed, NEW s \in Schedules, NEW t \in 1..clock,
                      Occurs(schedules[s], t), t = clock => BatchOver
               PROVE  mails[s][t] > 0
    BY DEF ServedOnTime
  <2> DEFINE n == schedules[s].next
  <2>1. clock \in Nat /\ n \in Nat /\ clock <= n /\ (n = clock => Coming(s))
        /\ \A u \in 1..(n - 1) : Occurs(schedules[s], u) => mails[s][u] > 0
    BY ScheduleAssumption DEF PunctualInv, OnTime, TypeInv, TypeOK, Row, Times
  <2>2. BatchOver => ~ Coming(s)
    BY IdleSound DEF BatchOver, Coming
  <2> HIDE DEF n
  <2>3. t # n
    BY <2>1, <2>2
  <2>4. t \in 1..(n - 1)
    BY <2>1, <2>3
  <2> QED BY <2>1, <2>4
<1>2. PunctualInv /\ [Next]_vars => PunctualInv'
  BY PunctualStep
<1>3. PunctualInv /\ [Next]_vars =>
        [\A s \in Schedules :
           LET due == schedules[s].next IN
           schedules'[s].next # due /\ due <= clock
             => mails[s][due] > 0 \/ "failed" \in history[s][due]]_vars
  BY StepsOverNothing
<1> QED BY <1>1, <1>2, <1>3, PunctualInit, PTL DEF Spec, NothingLeftOut, NoneSkipped

(***************************************************************************)
(* The scans                                                               *)
(***************************************************************************)

\* Before the first bar nothing is set; a bar leaves one of the flags up, and a
\* bar of one colour leaves that colour's.
HacoInv ==
  /\ HacoTypeOK
  /\ ~started => ~(utr \/ dtr \/ ltUtr \/ ltDtr \/ turned)
  /\ started => ltUtr \/ ltDtr
  /\ ~turned => ~upwSave /\ ~neutral
  /\ HacoFollowsTrend
  /\ ltDtr /\ ~ltUtr => ~upwSave
  /\ turned /\ ltUtr /\ ~ltDtr => upwSave

LEMMA HacoStart == HacoInit => HacoInv
<1> QED BY DEF HacoInit, HacoInv, HacoTypeOK, HacoFollowsTrend

LEMMA HacoTypes ==
  ASSUME HacoTypeOK, NEW b \in Bar, NEW sells \in BOOLEAN, ReadBar(b, sells)
  PROVE  HacoTypeOK'
<1>1. /\ {Up(b), UpToo(b), Utr(b), Down(b), DownToo(b), Dtr(b)} \subseteq BOOLEAN
      /\ {LtUp(b), LtUpToo(b), LtUtr(b), LtDown(b), LtDownToo(b), LtDtr(b)} \subseteq BOOLEAN
  BY DEF HacoTypeOK, Bar, UpAlert, DownAlert, Up, UpToo, Utr, Down, DownToo, Dtr,
         LtUp, LtUpToo, LtUtr, LtDown, LtDownToo, LtDtr
<1>2. HacoResult(b) \in BOOLEAN /\ UpwSave(b) \in BOOLEAN
  BY DEF HacoTypeOK, Bar, HacoResult, UpwSave, LtTurnsUp, TurnsUp
<1> QED BY <1>1, <1>2 DEF HacoTypeOK, ReadBar, Bar, LtTurnsUp, TurnsUp, Buy

LEMMA HacoStep == HacoInv /\ [HacoNext]_hacoVars => HacoInv'
<1>1. CASE UNCHANGED hacoVars
  BY <1>1 DEF hacoVars, HacoInv, HacoTypeOK, HacoFollowsTrend
<1>2. ASSUME HacoInv, NEW b \in Bar, NEW sells \in BOOLEAN, ReadBar(b, sells) PROVE HacoInv'
  <2>1. HacoTypeOK'
    BY <1>2, HacoTypes DEF HacoInv
  <2>2. /\ b.green => Utr(b) /\ LtUtr(b)
        /\ ~b.green => Dtr(b) /\ LtDtr(b)
    BY DEF UpAlert, DownAlert, Up, UpToo, Utr, Down, DownToo, Dtr,
           LtUp, LtUpToo, LtUtr, LtDown, LtDownToo, LtDtr
  <2>3. /\ utr' = Utr(b) /\ dtr' = Dtr(b) /\ result' = HacoResult(b) /\ started' = TRUE
        /\ ltUtr' = LtUtr(b) /\ ltDtr' = LtDtr(b) /\ upwSave' = UpwSave(b)
        /\ neutral' = (Buy(b) \/ (~sells /\ neutral))
        /\ turned' = (turned \/ LtTurnsUp(b) \/ LtTurnsDown(b))
    BY <1>2 DEF ReadBar
  <2>4. HacoFollowsTrend'
    BY <1>2, <2>2, <2>3 DEF HacoInv, HacoFollowsTrend, HacoResult, TurnsUp
  <2>5. ~turned' => ~upwSave' /\ ~neutral'
    BY <1>2, <2>3 DEF HacoInv, UpwSave, Buy
  <2>6. (ltDtr /\ ~ltUtr => ~upwSave)'
    BY <1>2, <2>3 DEF HacoInv, UpwSave, LtTurnsUp, LtTurnsDown, TurnsUp
  <2>7. (turned /\ ltUtr /\ ~ltDtr => upwSave)'
    BY <1>2, <2>3 DEF HacoInv, UpwSave, LtTurnsUp, LtTurnsDown, TurnsUp
  <2> QED BY <2>1, <2>2, <2>3, <2>4, <2>5, <2>6, <2>7 DEF HacoInv
<1> QED BY <1>1, <1>2 DEF HacoNext

LEMMA HacoAnswers == HacoInv => HacoFollowsTrend /\ HacoltFollowsTrend
<1> QED BY DEF HacoInv, HacoltFollowsTrend, HacoltStrip

\* The side of a bar: above the average, on it or below it.
SidesOK == {rel, relBefore, crossed, direction} \subseteq -1..1 /\ seen \in 0..2

\* The crossing is that of the last two bars; there is no direction before the
\* warm bar.
TrendInv ==
  /\ SidesOK
  /\ warm => seen = 2
  /\ ~warm => direction = 0
  /\ seen < 2 => crossed = 0
  /\ seen = 2 => crossed = IF relBefore <= 0 /\ rel > 0 THEN 1
                           ELSE IF relBefore >= 0 /\ rel < 0 THEN -1 ELSE 0
  /\ DirectionFollowsSide

LEMMA TrendStart == TrendInit => TrendInv
<1> QED BY DEF TrendInit, TrendInv, SidesOK, DirectionFollowsSide

LEMMA TrendStep == TrendInv /\ [TrendNext]_trendVars => TrendInv'
<1>1. CASE UNCHANGED trendVars
  BY <1>1 DEF trendVars, TrendInv, SidesOK, DirectionFollowsSide
<1>2. ASSUME TrendInv, NEW r \in -1..1, NEW wide \in BOOLEAN, NEW isWarm \in {warm, TRUE},
             NEW anyBuy, NEW anySell,
             isWarm => seen > 0, ReadTrendBar(r, wide, isWarm, anyBuy, anySell)
      PROVE  TrendInv'
  <2>a. PICK c : c = Crossing(r)
    OBVIOUS
  <2>b. PICK f : f = IF c # 0 /\ wide THEN c ELSE IF crossed # 0 /\ r = crossed THEN crossed ELSE 0
    OBVIOUS
  <2>c. PICK d : d = IF ~isWarm THEN 0 ELSE IF f # 0 THEN f ELSE IF direction # 0 THEN direction
                     ELSE IF r > 0 THEN 1 ELSE -1
    OBVIOUS
  <2>1. /\ seen' = (IF seen = 2 THEN 2 ELSE seen + 1)
        /\ warm' = isWarm /\ rel' = r /\ relBefore' = rel /\ crossed' = c
        /\ direction' = d
    <3>1. f = FinalSide(r, wide)
      BY <2>a, <2>b DEF FinalSide
    <3>2. d = TrendDirection(r, wide, isWarm)
      BY <2>c, <3>1 DEF TrendDirection
    <3> QED BY <1>2, <2>a, <3>2 DEF ReadTrendBar
  <2>2. c = IF seen = 0 THEN 0 ELSE IF rel <= 0 /\ r > 0 THEN 1 ELSE IF rel >= 0 /\ r < 0 THEN -1 ELSE 0
    BY <2>a DEF Crossing
  <2>3. c \in -1..1 /\ f \in -1..1 /\ d \in -1..1
    BY <1>2, <2>b, <2>c, <2>2 DEF TrendInv, SidesOK
  <2>4. SidesOK'
    BY <1>2, <2>1, <2>3 DEF TrendInv, SidesOK
  <2>5. /\ warm' => seen' = 2
        /\ ~warm' => direction' = 0
        /\ seen' < 2 => crossed' = 0
    BY <1>2, <2>1, <2>2, <2>c DEF TrendInv, SidesOK
  <2>6. seen' = 2 => crossed' = IF relBefore' <= 0 /\ rel' > 0 THEN 1
                                ELSE IF relBefore' >= 0 /\ rel' < 0 THEN -1 ELSE 0
    BY <1>2, <2>1, <2>2 DEF TrendInv, SidesOK
  <2>7. ASSUME isWarm PROVE d # 0
    BY <1>2, <2>3, <2>c, <2>7 DEF TrendInv, SidesOK
  <2>8. ASSUME isWarm, r # 0, r = rel PROVE d = r
    <3>1. c = 0
      BY <1>2, <2>2, <2>8 DEF TrendInv, SidesOK
    <3>2. CASE crossed = r
      BY <2>8, <2>b, <2>c, <3>1, <3>2
    <3>3. CASE crossed # r
      <4>1. crossed = 0 /\ (seen = 2 => relBefore = rel)
        BY <1>2, <2>8, <3>3 DEF TrendInv, SidesOK
      <4>2. direction # 0 => direction = r
        BY <1>2, <2>8, <4>1 DEF TrendInv, DirectionFollowsSide
      <4> QED BY <2>8, <2>b, <2>c, <3>1, <4>1, <4>2
    <3> QED BY <3>2, <3>3
  <2>9. DirectionFollowsSide'
    BY <2>1, <2>7, <2>8 DEF DirectionFollowsSide
  <2> QED BY <2>4, <2>5, <2>6, <2>9 DEF TrendInv
<1> QED BY <1>1, <1>2 DEF TrendNext

StopInv ==
  /\ {trail, lastClose, scoreStop} \subseteq Int
  /\ side \in {"none", "long", "short"} /\ scoreSide \in -1..1
  /\ side = "long" => trail <= lastClose
  /\ side = "short" => trail >= lastClose
  /\ scoreSide = 1 => scoreStop <= lastClose
  /\ scoreSide = -1 => scoreStop >= lastClose

LEMMA StopStart == AtrInit => StopInv
<1> QED BY DEF AtrInit, StopInv

LEMMA StopStep == StopInv /\ [AtrNext]_atrVars => StopInv'
<1>1. CASE UNCHANGED atrVars
  BY <1>1 DEF atrVars, StopInv
<1>2. ASSUME StopInv, NEW c \in Prices, NEW loss \in Losses, ReadClose(c, loss) PROVE StopInv'
  <2>1. c \in Int /\ loss \in Nat /\ lastClose' = c
    BY <1>2, AtrAssumption DEF ReadClose
  <2>2. /\ trail' \in Int /\ side' \in {"long", "short"}
        /\ side' = "long" => trail' <= c
        /\ side' = "short" => trail' >= c
    BY <1>2, <2>1, AtrAssumption
    DEF StopInv, ReadClose, FirstBar, StayLong, SellFlip, StayShort, BuyFlip, TakeSide, KeepSide,
        HoldsLong, HoldsShort, LongTrail, ShortTrail, Longer, Shorter
  <2>3. /\ scoreStop' \in Int /\ scoreSide' \in -1..1
        /\ scoreSide' = 1 => scoreStop' <= c
        /\ scoreSide' = -1 => scoreStop' >= c
    BY <1>2, <2>1 DEF StopInv, ReadClose, ScoreStopStep, Longer, Shorter
  <2> QED BY <2>1, <2>2, <2>3 DEF StopInv
<1> QED BY <1>1, <1>2 DEF AtrNext

LEMMA StopAnswers == StopInv => StopProtects
<1> QED BY DEF StopInv, StopProtects, AtrValue

ScanInv == HacoInv /\ TrendInv /\ StopInv

LEMMA ScanInvariant == ScanSpec => []ScanInv
<1>1. ScanInit => ScanInv
  BY HacoStart, TrendStart, StopStart DEF ScanInit, ScanInv
<1>2. ScanInv /\ [ScanNext]_scanVars => ScanInv'
  <2>1. ASSUME [ScanNext]_scanVars
        PROVE  [HacoNext]_hacoVars /\ [TrendNext]_trendVars /\ [AtrNext]_atrVars
    BY <2>1 DEF ScanNext, scanVars, HacoBar, StopBar, TrendBar
  <2> QED BY <2>1, HacoStep, TrendStep, StopStep DEF ScanInv
<1> QED BY <1>1, <1>2, PTL DEF ScanSpec

\* The direction of each scan is that of its trend once the trend is clear, and a
\* stop is never beyond the close it protects, for every sequence of bars
\* (compute_haco_states, compute_hacolt_direction, the True Momentum study and
\* the ATR trailing stops).
THEOREM ScansFollowTheBars == ScanSpec => []ScansFollow
<1>1. ScanInv => ScansFollow
  BY HacoAnswers, StopAnswers DEF ScanInv, TrendInv, ScansFollow
<1> QED BY <1>1, ScanInvariant, PTL
\* A stop only moves toward the price while the side is kept, and the side is
\* given up only at the stop (the ATR trailing stop).
THEOREM StopsOnlyTighten == ScanSpec => StopRatchets
<1>1. StopInv /\ [AtrNext]_atrVars =>
        [side # "none" =>
           /\ side' = side => IF side = "long" THEN trail' >= trail ELSE trail' <= trail
           /\ side' # side => /\ flipped'
                              /\ IF side = "long" THEN lastClose' <= trail \/ trail = 0
                                 ELSE lastClose' >= trail]_atrVars
  <2>1. ASSUME StopInv, NEW c \in Prices, NEW loss \in Losses, ReadClose(c, loss), side # "none"
        PROVE  /\ side' = side => IF side = "long" THEN trail' >= trail ELSE trail' <= trail
               /\ side' # side => /\ flipped'
                                  /\ IF side = "long" THEN lastClose' <= trail \/ trail = 0
                                     ELSE lastClose' >= trail
    <3>1. c \in Int /\ loss \in Nat /\ trail \in Int /\ side \in {"long", "short"} /\ lastClose' = c
      BY <2>1, AtrAssumption DEF StopInv, ReadClose
    <3>2. CASE StayLong(c, loss)
      BY <3>1, <3>2 DEF StayLong, KeepSide, LongTrail, Longer
    <3>3. CASE SellFlip(c, loss)
      BY <3>1, <3>3 DEF SellFlip, TakeSide, HoldsLong
    <3>4. CASE StayShort(c, loss)
      BY <3>1, <3>4 DEF StayShort, KeepSide, ShortTrail, Shorter
    <3>5. CASE BuyFlip(c, loss)
      BY <3>1, <3>5 DEF BuyFlip, TakeSide, HoldsShort
    <3> QED BY <2>1, <3>2, <3>3, <3>4, <3>5 DEF ReadClose, FirstBar
  <2> QED BY <2>1 DEF AtrNext
<1>2. [ScanNext]_scanVars => [AtrNext]_atrVars
  BY DEF ScanNext, scanVars, HacoBar, StopBar, TrendBar
<1>3. ScanInv => StopInv
  BY DEF ScanInv
<1> QED BY <1>1, <1>2, <1>3, ScanInvariant, PTL DEF ScanSpec, StopRatchets

\* Every turn of the direction is announced by a signal of its side, and no
\* signal repeats the direction that held (the True Momentum trend).
THEOREM TurnsAnnounced == ScanSpec => TurnsAreSignalled
<1>1. TrendInv /\ [TrendNext]_trendVars =>
        [/\ direction # 0 /\ direction' # direction => signal' = direction'
         /\ signal' # 0 => direction' = signal' /\ direction # signal']_trendVars
  <2>1. ASSUME TrendInv, NEW r \in -1..1, NEW wide \in BOOLEAN, NEW isWarm \in {warm, TRUE},
               NEW anyBuy, NEW anySell, ReadTrendBar(r, wide, isWarm, anyBuy, anySell)
        PROVE  /\ direction # 0 /\ direction' # direction => signal' = direction'
               /\ signal' # 0 => direction' = signal' /\ direction # signal'
    <3>1. PICK f : f = FinalSide(r, wide)
      OBVIOUS
    <3>2. /\ direction' = IF ~isWarm THEN 0 ELSE IF f # 0 THEN f ELSE IF direction # 0 THEN direction
                          ELSE IF r > 0 THEN 1 ELSE -1
          /\ signal' = IF isWarm /\ direction # f THEN f ELSE 0
      BY <2>1, <3>1 DEF ReadTrendBar, TrendDirection, NewSignal
    <3>3. direction # 0 => isWarm
      BY <2>1 DEF TrendInv
    <3> QED BY <3>2, <3>3
  <2> QED BY <2>1 DEF TrendNext
<1>2. [ScanNext]_scanVars => [TrendNext]_trendVars
  BY DEF ScanNext, scanVars, HacoBar, StopBar, TrendBar
<1>3. ScanInv => TrendInv
  BY DEF ScanInv
<1> QED BY <1>1, <1>2, <1>3, ScanInvariant, PTL DEF ScanSpec, TurnsAreSignalled
(***************************************************************************)
(* The heatmap                                                             *)
(***************************************************************************)

ViewsOK ==
  /\ views = [i \in Ids |-> views[i]] /\ Ids \subseteq 1..MaxView
  /\ \A i \in Ids : "default" \in DOMAIN views[i] /\ views[i].default \in BOOLEAN

\* Snapshot b may be what number n, of a view, is compared with.
Earlier(view, b, n) ==
  b # NoSnap => b \in DOMAIN snaps /\ b < n /\ snaps[b].view = view /\ Successful(snaps[b])

SnapsOK ==
  /\ snaps \in Seq(Range(snaps))
  /\ \A n \in DOMAIN snaps :
       /\ snaps[n].status = SnapshotStatus(snaps[n].rows)
       /\ Earlier(snaps[n].view, snaps[n].base, n)

\* A request that found seeds missing will add at least one of them, and one
\* that is past seeding finds a default view, as none is ever deleted.
ThreadsOK ==
  /\ DOMAIN pc = Threads
  /\ held = [t \in Threads |-> held[t]]
  /\ \A t \in Threads :
       /\ pc[t] = "seeding" => /\ held[t].missing \in SUBSET Seeds /\ held[t].missing # {}
                               /\ held[t].hasDefault => Defaults # {}
       /\ pc[t] = "ready" => Defaults # {}
       /\ pc[t] = "refreshing" => Earlier(held[t].view, held[t].base, Len(snaps) + 1)

HeatInv == ViewsOK /\ ADefaultRemains /\ SnapsOK /\ ThreadsOK

LEMMA LeastElement ==
  ASSUME NEW T \in SUBSET Nat, T # {}
  PROVE  \E m \in T : \A k \in T : m <= k
<1> DEFINE R == {ss \in Nat \X Nat : ss[1] < ss[2]}
<1>1. IsWellFoundedOn(R, Nat)
  BY NatLessThanWellFounded DEF OpToRel
<1> HIDE DEF R
<1>2. PICK m \in T : \A k \in T : ~ (<<k, m>> \in R)
  BY <1>1, WFMin
<1>3. \A k \in T : ~ (k < m)
  BY <1>2 DEF R
<1> QED BY <1>3

\* The least and, below a bound, the greatest of some numbers are among them.
LEMMA MinIsIn ==
  ASSUME NEW T \in SUBSET Nat, T # {}
  PROVE  Min(T) \in T
<1> QED BY LeastElement DEF Min

LEMMA MaxIsIn ==
  ASSUME NEW N \in Nat, NEW T \in SUBSET (0..N), T # {}
  PROVE  Max(T) \in T /\ \A k \in T : k <= Max(T)
<1> DEFINE U == {k \in Nat : \E x \in T : k = N - x}
<1>1. U \in SUBSET Nat /\ U # {}
  <2>1. PICK x \in T : TRUE
    OBVIOUS
  <2>2. N - x \in U
    OBVIOUS
  <2> QED BY <2>2
<1>2. PICK m \in U : \A k \in U : m <= k
  <2> HIDE DEF U
  <2> QED BY <1>1, LeastElement
<1>3. PICK x \in T : m = N - x
  OBVIOUS
<1>4. \A y \in T : x >= y
  <2>1. TAKE y \in T
  <2>2. N - y \in U
    OBVIOUS
  <2>3. m <= N - y
    BY <1>2, <2>2
  <2> QED BY <1>3, <2>3
<1> QED BY <1>4 DEF Max

\* A finite set in some order is a sequence of its elements.
LEMMA OrderOf ==
  ASSUME NEW S, IsFiniteSet(S)
  PROVE  SetToSeq(S) \in Seq(S) /\ Len(SetToSeq(S)) = Cardinality(S)
<1>1. Cardinality(S) \in Nat
  BY FS_CardinalityType
<1>2. PICK f \in [1..Cardinality(S) -> S] : IsInjective(f)
  <2>1. PICK g : g \in Bijection(1..Cardinality(S), S)
    BY FS_CardinalityType DEF ExistsBijection
  <2> QED BY <2>1 DEF Bijection, Injection, Surjection, IsInjective
<1>3. SetToSeq(S) \in [1..Cardinality(S) -> S]
  BY <1>2 DEF SetToSeq
<1> QED BY <1>1, <1>3

\* A snapshot that stands for its view has a row with all its scores.
LEMMA SuccessfulHasRow ==
  ASSUME NEW rows, SnapshotStatus(rows) \in {"fresh", "partial"}
  PROVE  \E r \in DOMAIN rows : Availability(rows[r]) = "fresh"
<1>1. PICK ok : ok = {r \in DOMAIN rows : \A tf \in Timeframes : rows[r][tf].status = "ok"}
  OBVIOUS
<1>2. ok # {}
  BY <1>1 DEF SnapshotStatus
<1>3. PICK r \in ok : TRUE
  BY <1>2
<1> QED BY <1>1, <1>3 DEF Availability

\* What is found to compare with is an earlier success of the view.
LEMMA LatestIsEarlier ==
  ASSUME SnapsOK, NEW i, NEW n
  PROVE  Earlier(i, LatestSnapshot(i, TRUE, n), n)
<1> DEFINE T == {NoSnap} \cup {m \in DOMAIN snaps : snaps[m].view = i /\ m < n /\ Successful(snaps[m])}
<1>1. Len(snaps) \in Nat /\ DOMAIN snaps = 1..Len(snaps)
  BY DEF SnapsOK
<1>2. T \in SUBSET (0..Len(snaps)) /\ T # {}
  BY <1>1 DEF NoSnap
<1>3. Max(T) \in T
  <2> HIDE DEF T
  <2> QED BY <1>1, <1>2, MaxIsIn
<1>4. LatestSnapshot(i, TRUE, n) = Max(T)
  BY DEF LatestSnapshot
<1> QED BY <1>3, <1>4 DEF Earlier

LEMMA HeatStart == ViewInit => HeatInv
<1> SUFFICES ASSUME ViewInit PROVE HeatInv
  OBVIOUS
<1>1. ViewsOK /\ ADefaultRemains
  BY DEF ViewInit, ViewsOK, Ids, ADefaultRemains
<1>2. SnapsOK
  BY DEF ViewInit, SnapsOK, Range
<1>3. ThreadsOK
  BY DEF ViewInit, ThreadsOK
<1> QED BY <1>1, <1>2, <1>3 DEF HeatInv

\* What a step that leaves views and snapshots alone must show of its thread.
LEMMA QuietHeat ==
  ASSUME HeatInv, NEW t \in Threads, UNCHANGED <<views, snaps>>,
         \A u \in Threads \ {t} : pc'[u] = pc[u] /\ held'[u] = held[u],
         DOMAIN pc' = Threads, held' = [u \in Threads |-> held'[u]],
         pc'[t] \notin {"seeding", "ready", "refreshing"}
  PROVE  HeatInv'
<1>1. ViewsOK' /\ ADefaultRemains' /\ SnapsOK'
  BY DEF HeatInv, ViewsOK, Ids, ADefaultRemains, Defaults, SnapsOK, Range, Earlier, Successful
<1>2. ThreadsOK'
  BY DEF HeatInv, ThreadsOK, Defaults, Ids, Earlier, Successful
<1> QED BY <1>1, <1>2 DEF HeatInv

\* Views may change while what they were read for stays true: a default view
\* stays a default view, and the threads other than t are where they were.
LEMMA ViewsChange ==
  ASSUME HeatInv, NEW t \in Threads, UNCHANGED snaps,
         ViewsOK', ADefaultRemains', Defaults # {} => Defaults' # {},
         \A u \in Threads \ {t} : pc'[u] = pc[u] /\ held'[u] = held[u],
         DOMAIN pc' = Threads, held' = [u \in Threads |-> held'[u]],
         pc'[t] \notin {"seeding", "refreshing"} \/ (pc'[t] = pc[t] /\ held'[t] = held[t]),
         pc'[t] = "ready" => Defaults' # {}
  PROVE  HeatInv'
<1>1. SnapsOK'
  BY DEF HeatInv, SnapsOK, Range, Earlier, Successful
<1>2. ThreadsOK'
  BY DEF HeatInv, ThreadsOK, Earlier, Successful
<1> QED BY <1>1, <1>2 DEF HeatInv

\* A request finds seeds missing only where there are no views or not all.
LEMMA SeedsRead ==
  ASSUME HeatInv, NEW t \in Threads, EnsureRead(t)
  PROVE  HeatInv'
<1>1. MissingSeeds # {}
  <2>1. SUFFICES ASSUME MissingSeeds = {} PROVE FALSE
    OBVIOUS
  <2>2. Main \in {views[i].slug : i \in Ids}
    BY <2>1, HeatmapAssumption DEF MissingSeeds
  <2> QED BY <2>1, <2>2 DEF HeatInv, ADefaultRemains, EnsureRead, Seeded
<1>2. /\ pc'[t] = "seeding" /\ held'[t].missing = MissingSeeds
      /\ held'[t].hasDefault = (Defaults # {})
  BY DEF HeatInv, ThreadsOK, EnsureRead
<1>3. MissingSeeds \in SUBSET Seeds
  BY DEF MissingSeeds
<1>4. ViewsOK' /\ ADefaultRemains' /\ SnapsOK' /\ Defaults' = Defaults
  BY DEF EnsureRead, HeatInv, ViewsOK, Ids, ADefaultRemains, Defaults, SnapsOK, Range, Earlier, Successful
<1>5. ThreadsOK'
  <2>1. ASSUME NEW u \in Threads \ {t} PROVE pc'[u] = pc[u] /\ held'[u] = held[u]
    BY DEF EnsureRead, HeatInv, ThreadsOK
  <2>2. DOMAIN pc' = Threads /\ held' = [u \in Threads |-> held'[u]] /\ UNCHANGED snaps
    BY DEF EnsureRead, HeatInv, ThreadsOK
  <2> QED BY <1>1, <1>2, <1>3, <1>4, <2>1, <2>2 DEF HeatInv, ThreadsOK, Earlier, Successful
<1> QED BY <1>4, <1>5 DEF HeatInv

\* Where a default is chosen there is one afterwards.
LEMMA DefaultIsChosen ==
  ASSUME NEW vs, vs = [i \in DOMAIN vs |-> vs[i]], DOMAIN vs \subseteq Nat, DOMAIN vs # {},
         \A i \in DOMAIN vs : "default" \in DOMAIN vs[i] /\ vs[i].default \in BOOLEAN
  PROVE  LET ws == WithDefault(vs) IN
         /\ ws = [i \in DOMAIN vs |-> ws[i]]
         /\ \A i \in DOMAIN vs : "default" \in DOMAIN ws[i] /\ ws[i].default \in BOOLEAN
         /\ \E i \in DOMAIN vs : ws[i].default
<1>1. vs # <<>>
  OBVIOUS
<1>2. CASE \E i \in DOMAIN vs : vs[i].default
  BY <1>2 DEF WithDefault
<1>3. CASE ~ \E i \in DOMAIN vs : vs[i].default
  <2>1. PICK mains : mains = {i \in DOMAIN vs : vs[i].slug = Main}
    OBVIOUS
  <2>2. PICK chosen : chosen = Min(IF mains # {} THEN mains ELSE DOMAIN vs)
    OBVIOUS
  <2>3. chosen \in DOMAIN vs
    BY <2>1, <2>2, MinIsIn
  <2>4. WithDefault(vs) = [vs EXCEPT ![chosen].default = TRUE]
    BY <1>1, <1>3, <2>1, <2>2 DEF WithDefault
  <2> QED BY <2>3, <2>4
<1> QED BY <1>2, <1>3

\* The next id is greater than any there is.
LEMMA NextIsNew ==
  ASSUME ViewsOK
  PROVE  NextId \in Nat /\ NextId >= 1 /\ \A i \in Ids : i < NextId
<1>1. Ids \cup {0} \in SUBSET (0..MaxView) /\ Ids \cup {0} # {} /\ MaxView \in Nat
  BY HeatmapAssumption DEF ViewsOK
<1>2. Max(Ids \cup {0}) \in Ids \cup {0} /\ \A k \in Ids \cup {0} : k <= Max(Ids \cup {0})
  BY <1>1, MaxIsIn
<1> QED BY <1>1, <1>2 DEF NextId

LEMMA SeedsCommit ==
  ASSUME HeatInv, NEW t \in Threads, EnsureCommit(t)
  PROVE  HeatInv'
<1>1. PICK has, missing : has = held[t].hasDefault /\ missing = held[t].missing
  OBVIOUS
<1>2. missing \in SUBSET Seeds /\ missing # {} /\ (has => Defaults # {})
  BY <1>1 DEF EnsureCommit, HeatInv, ThreadsOK
<1>3. PICK rest : rest = SetToSeq(missing \ {Main})
  OBVIOUS
<1>4. PICK order : order = IF Main \in missing THEN <<Main>> \o rest ELSE rest
  OBVIOUS
<1>5. order \in Seq(Seeds) /\ Len(order) >= 1
  <2>1. IsFiniteSet(missing \ {Main})
    BY <1>2, HeatmapAssumption, FS_Subset
  <2>2. rest \in Seq(missing \ {Main}) /\ Len(rest) = Cardinality(missing \ {Main})
    BY <1>3, <2>1, OrderOf
  <2>3. rest \in Seq(Seeds)
    BY <1>2, <2>2
  <2>4. CASE Main \in missing
    BY <1>4, <2>3, <2>4, HeatmapAssumption
  <2>5. CASE Main \notin missing
    <3>1. Cardinality(missing \ {Main}) \in Nat /\ Cardinality(missing \ {Main}) # 0
      BY <1>2, <2>1, <2>5, FS_CardinalityType, FS_EmptySet
    <3> QED BY <1>4, <2>2, <2>3, <2>5, <3>1
  <2> QED BY <2>4, <2>5
<1>6. PICK all : all = [k \in Ids \cup NextId..(NextId + Len(order) - 1) |->
                          IF k \in Ids THEN views[k]
                          ELSE SeedView(order[k - NextId + 1], uids + k - NextId + 1, has)]
  OBVIOUS
<1>7. Max({0} \cup DOMAIN all) <= MaxView /\ views' = IF has THEN all ELSE WithDefault(all)
  BY <1>1, <1>3, <1>4, <1>6 DEF EnsureCommit
<1>8. all = [k \in DOMAIN all |-> all[k]] /\ DOMAIN all \subseteq 1..MaxView /\ DOMAIN all # {}
  <2>1. NextId \in Nat /\ NextId >= 1
    BY NextIsNew DEF HeatInv
  <2>2. PICK N \in Nat : N = NextId + Len(order) - 1
    BY <1>5, <2>1
  <2>3. Ids \subseteq 0..N
    <3>1. \A i \in Ids : i < NextId /\ i \in Nat
      BY NextIsNew DEF HeatInv, ViewsOK
    <3> QED BY <1>5, <2>1, <2>2, <3>1
  <2>4. DOMAIN all \subseteq 1..N /\ NextId \in DOMAIN all
    BY <1>5, <1>6, <2>1, <2>2, <2>3 DEF HeatInv, ViewsOK
  <2>5. PICK T : T = {0} \cup DOMAIN all
    OBVIOUS
  <2>6. T \in SUBSET (0..N) /\ T # {}
    BY <2>4, <2>5
  <2>7. PICK m : m = Max(T)
    OBVIOUS
  <2>8. m \in T /\ (\A k \in T : k <= m) /\ m <= MaxView
    BY <1>7, <2>2, <2>5, <2>6, <2>7, MaxIsIn
  <2>9. ASSUME NEW k \in DOMAIN all PROVE k \in 1..MaxView
    <3>1. k <= m /\ k \in 1..N /\ m \in 0..N
      BY <2>4, <2>5, <2>6, <2>8
    <3> QED BY <2>2, <2>8, <3>1, HeatmapAssumption
  <2> QED BY <1>6, <2>4, <2>9
<1>9. /\ \A i \in DOMAIN all : "default" \in DOMAIN all[i] /\ all[i].default \in BOOLEAN
      /\ Ids \subseteq DOMAIN all /\ \A i \in Ids : all[i] = views[i]
  <2>1. ASSUME NEW i \in DOMAIN all, i \notin Ids
        PROVE  "default" \in DOMAIN all[i] /\ all[i].default \in BOOLEAN
    BY <1>6, <2>1 DEF SeedView
  <2> QED BY <1>6, <2>1 DEF HeatInv, ViewsOK
<1>10. ViewsOK' /\ Defaults' # {}
  <2>1. CASE has
    BY <1>2, <1>7, <1>8, <1>9, <2>1 DEF ViewsOK, Ids, Defaults
  <2>2. CASE ~has
    <3>1. views' = WithDefault(all)
      BY <1>7, <2>2
    <3>2. /\ views' = [i \in DOMAIN all |-> views'[i]]
          /\ \A i \in DOMAIN all : "default" \in DOMAIN views'[i] /\ views'[i].default \in BOOLEAN
          /\ \E i \in DOMAIN all : views'[i].default
      BY <1>8, <1>9, <3>1, DefaultIsChosen
    <3> QED BY <1>8, <3>2 DEF ViewsOK, Ids, Defaults
  <2> QED BY <2>1, <2>2
<1>11. pc'[t] = "ready" /\ UNCHANGED snaps /\ DOMAIN pc' = Threads
       /\ held' = [u \in Threads |-> held'[u]]
       /\ \A u \in Threads \ {t} : pc'[u] = pc[u] /\ held'[u] = held[u]
  BY DEF EnsureCommit, HeatInv, ThreadsOK
<1> QED BY <1>10, <1>11, ViewsChange DEF ADefaultRemains

LEMMA ViewAdded ==
  ASSUME HeatInv, NEW t \in Threads, NEW v, AddView(t, v), Begun(t),
         v.default = FALSE, "default" \in DOMAIN v, v = [x \in DOMAIN v |-> v[x]]
  PROVE  HeatInv'
<1>1. Defaults # {}
  BY DEF HeatInv, ThreadsOK, Begun, Seeded
<1>2. /\ NextId \in 1..MaxView
      /\ views' = [k \in Ids \cup {NextId} |->
                     IF k \in Ids THEN views[k] ELSE [v EXCEPT !.uid = uids + 1]]
  BY NextIsNew, HeatmapAssumption DEF AddView, HeatInv
<1>3. ViewsOK' /\ Defaults' # {}
  <2>1. ASSUME NEW i \in Ids' PROVE "default" \in DOMAIN views'[i] /\ views'[i].default \in BOOLEAN
    BY <1>2, <2>1 DEF Ids, HeatInv, ViewsOK
  <2>2. views' = [i \in Ids' |-> views'[i]] /\ Ids' \subseteq 1..MaxView
    BY <1>2 DEF Ids, HeatInv, ViewsOK
  <2>3. \A i \in Defaults : i \in Defaults'
    BY <1>2 DEF Ids, Defaults
  <2> QED BY <1>1, <2>1, <2>2, <2>3 DEF ViewsOK
<1>4. pc'[t] = "idle" /\ UNCHANGED snaps /\ DOMAIN pc' = Threads
      /\ held' = [u \in Threads |-> held'[u]]
      /\ \A u \in Threads \ {t} : pc'[u] = pc[u] /\ held'[u] = held[u]
  BY DEF AddView, Done, HeatInv, ThreadsOK
<1> QED BY <1>3, <1>4, ViewsChange DEF ADefaultRemains

LEMMA ViewDeleted ==
  ASSUME HeatInv, NEW t \in Threads, NEW i \in Ids, DeleteProfile(t, i)
  PROVE  HeatInv'
<1>1. views' = [k \in Ids \ {i} |-> views[k]] /\ ~views[i].default
  BY DEF DeleteProfile, Restrict, Protected
<1>2. ViewsOK' /\ Defaults' = Defaults
  BY <1>1 DEF Ids, Defaults, HeatInv, ViewsOK
<1>3. Ids' \subseteq Ids
  BY <1>1 DEF Ids
<1>4. pc'[t] = "idle" /\ UNCHANGED snaps /\ DOMAIN pc' = Threads
      /\ held' = [u \in Threads |-> held'[u]]
      /\ \A u \in Threads \ {t} : pc'[u] = pc[u] /\ held'[u] = held[u]
  BY DEF DeleteProfile, Done, HeatInv, ThreadsOK
<1>5. ADefaultRemains'
  BY <1>2, <1>3 DEF HeatInv, ADefaultRemains
<1> QED BY <1>2, <1>4, <1>5, ViewsChange

\* A change within a view leaves the default where it is.
LEMMA ViewEdited ==
  ASSUME HeatInv, NEW t \in Threads, NEW i \in Ids, NEW v, UNCHANGED snaps,
         views' = [views EXCEPT ![i] = v], v.default = views[i].default, "default" \in DOMAIN v,
         \A u \in Threads \ {t} : pc'[u] = pc[u] /\ held'[u] = held[u],
         DOMAIN pc' = Threads, held' = [u \in Threads |-> held'[u]],
         pc'[t] = "idle" \/ (pc'[t] = pc[t] /\ held'[t] = held[t])
  PROVE  HeatInv'
<1>1. ViewsOK' /\ Ids' = Ids /\ Defaults' = Defaults
  <2>1. Ids' = Ids
    BY DEF Ids, HeatInv, ViewsOK
  <2>2. \A k \in Ids : views'[k] = IF k = i THEN v ELSE views[k]
    BY DEF Ids
  <2>3. views' = [k \in Ids' |-> views'[k]]
    BY <2>1 DEF Ids, HeatInv, ViewsOK
  <2> QED BY <2>1, <2>2, <2>3 DEF Defaults, HeatInv, ViewsOK
<1>2. pc'[t] = "ready" => Defaults' # {}
  BY <1>1 DEF HeatInv, ThreadsOK
<1>3. ADefaultRemains'
  BY <1>1 DEF HeatInv, ADefaultRemains
<1> QED BY <1>1, <1>2, <1>3, ViewsChange

LEMMA EditsKeep ==
  ASSUME HeatInv, NEW t \in Threads, NEW i \in Ids,
         \/ ResetProfile(t, i)
         \/ \E slug \in Slugs, seeded \in BOOLEAN : UpdateProfile(t, i, slug, seeded)
  PROVE  HeatInv'
<1>1. CASE ResetProfile(t, i)
  <2>1. PICK seed : seed = IF views[i].slug \in Seeds THEN views[i].slug ELSE Main
    OBVIOUS
  <2>2. PICK v : v = [views[i] EXCEPT !.slug = seed, !.seeded = TRUE, !.rows = SeedRows[seed]]
    OBVIOUS
  <2>3. views' = [views EXCEPT ![i] = v]
    BY <1>1, <2>1, <2>2 DEF ResetProfile, Ids, HeatInv, ViewsOK
  <2>4. v.default = views[i].default /\ "default" \in DOMAIN v
    BY <2>2 DEF HeatInv, ViewsOK
  <2> QED BY <1>1, <2>3, <2>4, ViewEdited DEF ResetProfile, Done, HeatInv, ThreadsOK
<1>2. ASSUME NEW slug \in Slugs, NEW seeded \in BOOLEAN, UpdateProfile(t, i, slug, seeded)
      PROVE  HeatInv'
  <2>2. PICK v : v = [views[i] EXCEPT !.slug = slug, !.seeded = seeded]
    OBVIOUS
  <2>3. views' = [views EXCEPT ![i] = v]
    BY <1>2, <2>2 DEF UpdateProfile, Ids, HeatInv, ViewsOK
  <2>4. v.default = views[i].default /\ "default" \in DOMAIN v
    BY <2>2 DEF HeatInv, ViewsOK
  <2> QED BY <1>2, <2>3, <2>4, ViewEdited DEF UpdateProfile, HeatInv, ThreadsOK
<1> QED BY <1>1, <1>2

LEMMA RowsKept ==
  ASSUME HeatInv, NEW t \in Threads, NEW rows, RowsCommit(t, rows)
  PROVE  HeatInv'
<1>1. PICK i : i = held[t].view
  OBVIOUS
<1>2. i \in Ids
  BY <1>1 DEF RowsCommit
<1>3. PICK v : v = [views[i] EXCEPT !.rows = rows]
  OBVIOUS
<1>4. views' = [views EXCEPT ![i] = v]
  BY <1>1, <1>2, <1>3 DEF RowsCommit, Ids, HeatInv, ViewsOK
<1>5. v.default = views[i].default /\ "default" \in DOMAIN v
  BY <1>2, <1>3 DEF HeatInv, ViewsOK
<1> QED BY <1>2, <1>4, <1>5, ViewEdited DEF RowsCommit, Done, HeatInv, ThreadsOK

LEMMA BaselineRead ==
  ASSUME HeatInv, NEW t \in Threads, NEW i \in Ids, RefreshRead(t, i)
  PROVE  HeatInv'
<1>1. ViewsOK' /\ ADefaultRemains' /\ SnapsOK' /\ Defaults' = Defaults
  BY DEF RefreshRead, HeatInv, ViewsOK, Ids, ADefaultRemains, Defaults, SnapsOK, Range, Earlier, Successful
<1>2. pc'[t] = "refreshing" /\ held'[t].view = i /\ held'[t].base = LatestSnapshot(i, TRUE, MaxSnaps + 1)
  BY DEF RefreshRead, HeatInv, ThreadsOK
<1>3. Earlier(i, LatestSnapshot(i, TRUE, MaxSnaps + 1), Len(snaps) + 1)
  <2>1. Earlier(i, LatestSnapshot(i, TRUE, MaxSnaps + 1), MaxSnaps + 1)
    BY LatestIsEarlier DEF HeatInv
  <2>2. PICK b : b = LatestSnapshot(i, TRUE, MaxSnaps + 1)
    OBVIOUS
  <2>3. Len(snaps) \in Nat /\ DOMAIN snaps = 1..Len(snaps)
    BY DEF HeatInv, SnapsOK
  <2>4. b # NoSnap => b \in DOMAIN snaps /\ snaps[b].view = i /\ Successful(snaps[b])
    BY <2>1, <2>2 DEF Earlier
  <2>5. b \in DOMAIN snaps => b < Len(snaps) + 1
    BY <2>3
  <2>6. Earlier(i, b, Len(snaps) + 1)
    BY <2>4, <2>5 DEF Earlier
  <2> QED BY <2>2, <2>6
<1>4. DOMAIN pc' = Threads /\ held' = [u \in Threads |-> held'[u]] /\ UNCHANGED snaps
      /\ \A u \in Threads \ {t} : pc'[u] = pc[u] /\ held'[u] = held[u]
  BY DEF RefreshRead, HeatInv, ThreadsOK
<1>5. ThreadsOK'
  BY <1>1, <1>2, <1>3, <1>4 DEF HeatInv, ThreadsOK, Earlier, Successful
<1> QED BY <1>1, <1>5 DEF HeatInv

LEMMA SnapshotStored ==
  ASSUME HeatInv, NEW t \in Threads, NEW rows \in Outcomes, RefreshCommit(t, rows)
  PROVE  HeatInv'
<1>1. PICK s : /\ snaps' = Append(snaps, s) /\ s.status = SnapshotStatus(s.rows)
               /\ s.view = held[t].view /\ s.base = held[t].base
  BY DEF RefreshCommit
<1>2. Earlier(s.view, s.base, Len(snaps) + 1)
  BY <1>1 DEF RefreshCommit, HeatInv, ThreadsOK
<1>3. /\ Len(snaps) \in Nat /\ DOMAIN snaps = 1..Len(snaps)
      /\ snaps \in Seq(Range(snaps) \cup {s})
  BY DEF HeatInv, SnapsOK
<1>4. /\ Len(snaps') = Len(snaps) + 1 /\ DOMAIN snaps' = 1..(Len(snaps) + 1)
      /\ \A n \in DOMAIN snaps : snaps'[n] = snaps[n]
      /\ snaps'[Len(snaps) + 1] = s
      /\ snaps' \in Seq(Range(snaps) \cup {s})
  BY <1>1, <1>3
<1>5. snaps' \in Seq(Range(snaps'))
  <2>1. \A n \in DOMAIN snaps' : snaps'[n] \in Range(snaps')
    BY DEF Range
  <2> QED BY <1>3, <1>4, <2>1
<1>6. ASSUME NEW i, NEW b, NEW n, Earlier(i, b, n) PROVE Earlier(i, b, n)'
  BY <1>3, <1>4, <1>6 DEF Earlier, Successful
<1>7. SnapsOK'
  BY <1>1, <1>2, <1>3, <1>4, <1>5, <1>6 DEF SnapsOK, HeatInv
<1>8. ViewsOK' /\ ADefaultRemains' /\ Defaults' = Defaults
  BY DEF RefreshCommit, HeatInv, ViewsOK, Ids, ADefaultRemains, Defaults
<1>9. ThreadsOK'
  <2>1. pc'[t] = "idle" /\ DOMAIN pc' = Threads /\ held' = [u \in Threads |-> held'[u]]
        /\ \A u \in Threads \ {t} : pc'[u] = pc[u] /\ held'[u] = held[u]
    BY DEF RefreshCommit, Done, HeatInv, ThreadsOK
  <2>2. ASSUME NEW i, NEW b, Earlier(i, b, Len(snaps) + 1) PROVE Earlier(i, b, Len(snaps) + 1)'
    BY <1>3, <1>4, <2>2 DEF Earlier, Successful
  <2> QED BY <1>8, <2>1, <2>2 DEF HeatInv, ThreadsOK
<1> QED BY <1>7, <1>8, <1>9 DEF HeatInv

LEMMA HeatQuietSteps ==
  ASSUME HeatInv, NEW t \in Threads,
         \/ Respond(t) \/ EditRefused(t)
         \/ \E i \in Ids : \/ RowsRead(t, i) \/ GetSchedule(t, i)
                           \/ \E b \in BOOLEAN : UpdateSchedule(t, i, b)
  PROVE  HeatInv'
<1>1. CASE Respond(t) \/ EditRefused(t)
  BY <1>1, QuietHeat DEF Respond, EditRefused, Done, HeatInv, ThreadsOK
<1>2. ASSUME NEW i \in Ids, RowsRead(t, i) PROVE HeatInv'
  BY <1>2, QuietHeat DEF RowsRead, HeatInv, ThreadsOK
<1>3. ASSUME NEW i \in Ids, GetSchedule(t, i) PROVE HeatInv'
  BY <1>3, QuietHeat DEF GetSchedule, Done, HeatInv, ThreadsOK
<1>4. ASSUME NEW i \in Ids, NEW b \in BOOLEAN, UpdateSchedule(t, i, b) PROVE HeatInv'
  BY <1>4, QuietHeat DEF UpdateSchedule, Done, HeatInv, ThreadsOK
<1> QED BY <1>1, <1>2, <1>3, <1>4

LEMMA ViewsMade ==
  ASSUME HeatInv, NEW t \in Threads,
         \/ \E rows : CreateProfile(t, rows)
         \/ \E i \in Ids : DuplicateProfile(t, i)
  PROVE  HeatInv'
<1>1. ASSUME NEW rows, CreateProfile(t, rows) PROVE HeatInv'
  <2>1. PICK v : v = [uid |-> 0, slug |-> Custom, seeded |-> FALSE, default |-> FALSE, rows |-> rows]
    OBVIOUS
  <2>2. AddView(t, v) /\ Begun(t)
    BY <1>1, <2>1 DEF CreateProfile
  <2>3. v.default = FALSE /\ "default" \in DOMAIN v /\ v = [x \in DOMAIN v |-> v[x]]
    BY <2>1
  <2> QED BY <2>2, <2>3, ViewAdded
<1>2. ASSUME NEW i \in Ids, DuplicateProfile(t, i) PROVE HeatInv'
  <2>1. PICK v : v = [views[i] EXCEPT !.slug = Custom, !.seeded = FALSE, !.default = FALSE]
    OBVIOUS
  <2>2. AddView(t, v) /\ Begun(t)
    BY <1>2, <2>1 DEF DuplicateProfile
  <2>3. v.default = FALSE /\ "default" \in DOMAIN v /\ v = [x \in DOMAIN v |-> v[x]]
    BY <2>1 DEF HeatInv, ViewsOK
  <2> QED BY <2>2, <2>3, ViewAdded
<1> QED BY <1>1, <1>2

LEMMA HeatStep == HeatInv /\ [ViewNext]_viewVars => HeatInv'
<1> SUFFICES ASSUME HeatInv, [ViewNext]_viewVars PROVE HeatInv'
  OBVIOUS
<1>1. CASE UNCHANGED viewVars
  BY <1>1 DEF viewVars, HeatInv, ViewsOK, ADefaultRemains, SnapsOK, ThreadsOK, Ids, Defaults, Range,
              Earlier, Successful
<1>2. ASSUME NEW t \in Threads,
             \/ EnsureRead(t) \/ EnsureCommit(t) \/ Respond(t)
             \/ CreateProfile(t, SeedRows[Main]) \/ CreateProfile(t, <<>>)
      PROVE  HeatInv'
  BY <1>2, SeedsRead, SeedsCommit, HeatQuietSteps, ViewsMade
<1>3. ASSUME NEW t \in Threads, NEW i \in Ids,
             \/ DuplicateProfile(t, i) \/ DeleteProfile(t, i) \/ ResetProfile(t, i)
             \/ RowsRead(t, i)
             \/ \E slug \in Slugs, seeded \in BOOLEAN : UpdateProfile(t, i, slug, seeded)
             \/ GetSchedule(t, i)
             \/ \E b \in BOOLEAN : UpdateSchedule(t, i, b)
             \/ RefreshRead(t, i)
      PROVE  HeatInv'
  BY <1>3, ViewsMade, ViewDeleted, EditsKeep, HeatQuietSteps, BaselineRead
<1>4. ASSUME NEW t \in Threads, NEW s, AddRow(t, s) \/ RemoveRow(t, s) PROVE HeatInv'
  BY <1>4, RowsKept DEF AddRow, RemoveRow
<1>5. ASSUME NEW t \in Threads, \/ EditRefused(t)
                                \/ \E rows \in Outcomes : RefreshCommit(t, rows)
      PROVE  HeatInv'
  BY <1>5, HeatQuietSteps, SnapshotStored
<1> QED BY <1>1, <1>2, <1>3, <1>4, <1>5 DEF ViewNext

\* An account that has views has a default one, and what a snapshot or a report is
\* compared with is an earlier snapshot of the same view that holds values
\* (the heatmap repository and routes), for any seeds, requests and bounds.
THEOREM HeatmapStaysSound == ViewSpec => []HeatmapIsSound
<1>1. HeatInv => HeatmapIsSound
  <2> SUFFICES ASSUME HeatInv PROVE BaselineHasValues
    BY DEF HeatInv, HeatmapIsSound
  <2>1. ASSUME NEW n \in DOMAIN snaps, NEW b, Earlier(snaps[n].view, b, n)
        PROVE  Comparable(n, b)
    BY <2>1, SuccessfulHasRow DEF Earlier, Comparable, Successful, HeatInv, SnapsOK
  <2>2. \A n \in DOMAIN snaps : Comparable(n, snaps[n].base)
    BY <2>1 DEF HeatInv, SnapsOK
  <2>3. ASSUME NEW i \in Ids, NEW n \in SnapshotsForReport(i)
        PROVE  Comparable(n, BaselineOf(i, n))
    <3>1. n \in DOMAIN snaps /\ snaps[n].view = i
      BY LatestIsEarlier DEF SnapshotsForReport, Earlier, HeatInv
    <3>2. Earlier(i, BaselineOf(i, n), n)
      BY LatestIsEarlier DEF BaselineOf, HeatInv
    <3> QED BY <2>1, <3>1, <3>2
  <2> QED BY <2>2, <2>3 DEF BaselineHasValues
<1> QED BY <1>1, HeatStart, HeatStep, PTL DEF ViewSpec

(***************************************************************************)
(* The lists of symbols: folds over a sequence, as traces of their steps   *)
(***************************************************************************)

LEMMA LastOfRange ==
  ASSUME NEW m \in Nat, NEW t \in SUBSET (1..m), m \in t
  PROVE  Max(t) = m
<1>1. \A x \in t : m >= x
  OBVIOUS
<1>2. \A x \in t : (\A y \in t : x >= y) => x = m
  BY <1>1
<1> QED BY <1>1, <1>2 DEF Max

LEMMA MaxBelow ==
  ASSUME NEW m \in Nat, NEW t \in SUBSET (1..m), t # {}
  PROVE  Max(t) \in t
<1> DEFINE U == {k \in Nat : t \subseteq 1..k}
<1>1. m \in U
  OBVIOUS
<1>2. PICK k \in U : \A j \in U : k <= j
  <2> HIDE DEF U
  <2> QED BY <1>1, LeastElement DEF U
<1>3. t \subseteq 1..k /\ k \in Nat
  BY <1>2
<1>4. k \in t
  <2>1. SUFFICES ASSUME k \notin t PROVE FALSE
    OBVIOUS
  <2>2. k # 0
    <3>1. SUFFICES ASSUME k = 0 PROVE FALSE
      OBVIOUS
    <3>2. PICK x \in t : TRUE
      OBVIOUS
    <3>3. x \in 1..k /\ x <= k /\ x >= 1
      BY <1>3
    <3> QED BY <3>1, <3>3
  <2>3. t \subseteq 1..(k-1) /\ k - 1 \in Nat
    BY <1>3, <2>1, <2>2
  <2>4. k <= k - 1
    BY <1>2, <2>3
  <2> QED BY <1>3, <2>4
<1> QED BY <1>3, <1>4, LastOfRange

\* What is true at the start, and stays true, is true to the end.
LEMMA Upwards ==
  ASSUME NEW n \in Nat, NEW P, 0 \in P, \A k \in 1..n : k - 1 \in P => k \in P
  PROVE  \A k \in 0..n : k \in P
<1> DEFINE T == {k \in 0..n : k \notin P}
<1>1. SUFFICES ASSUME T # {} PROVE FALSE
  OBVIOUS
<1>2. PICK k \in T : \A j \in T : k <= j
  <2>1. T \in SUBSET Nat
    OBVIOUS
  <2> HIDE DEF T
  <2> QED BY <1>1, <2>1, LeastElement
<1>3. k \in 1..n /\ k \notin P
  OBVIOUS
<1>4. k - 1 \notin T
  BY <1>2, <1>3
<1>5. k - 1 \in P
  BY <1>3, <1>4
<1> QED BY <1>3, <1>5

\* g is the fold of F over the subsets of 1..n, the greatest number last.
FoldOf(g, n, St, b, F) ==
  /\ g \in [SUBSET (1..n) -> St]
  /\ \A t \in SUBSET (1..n) :
       g[t] = IF t = {} THEN b ELSE F[<<g[t \ {Max(t)}], Max(t)>>]

\* A fold over 1..n that takes the greatest number last is well defined.
LEMMA FoldExists ==
  ASSUME NEW n \in Nat, NEW St, NEW b \in St, NEW F,
         \A x \in St : \A k \in 1..n : F[<<x, k>>] \in St
  PROVE  \E g : FoldOf(g, n, St, b, F)
<1> DEFINE Folds(g, m) == FoldOf(g, m, St, b, F)
           P == {m \in 0..n : \E g : Folds(g, m)}
<1>1. 0 \in P
  <2>1. SUBSET (1..0) = {{}}
    OBVIOUS
  <2>2. Folds([t \in SUBSET (1..0) |-> b], 0)
    BY <2>1 DEF FoldOf
  <2>3. 0 \in 0..n
    OBVIOUS
  <2> HIDE DEF Folds
  <2> QED BY <2>2, <2>3
<1>2. ASSUME NEW m \in 1..n, m - 1 \in P PROVE m \in P
  <2>1. PICK g : Folds(g, m - 1)
    BY <1>2
  <2> DEFINE h == [t \in SUBSET (1..m) |->
                     IF m \in t THEN F[<<g[t \ {m}], m>>] ELSE g[t]]
  <2>2. \A t \in SUBSET (1..m) : t \ {m} \in SUBSET (1..(m-1))
    <3> TAKE t \in SUBSET (1..m)
    <3>1. SUFFICES ASSUME NEW x \in t, x # m PROVE x \in 1..(m-1)
      OBVIOUS
    <3>2. x \in 1..m
      OBVIOUS
    <3> QED BY <3>1, <3>2
  <2>3. \A t \in SUBSET (1..m) : m \notin t => t \in SUBSET (1..(m-1))
    OBVIOUS
  <2>4. \A t \in SUBSET (1..(m-1)) : t \in SUBSET (1..m) /\ m \notin t /\ g[t] \in St
    BY <2>1 DEF FoldOf
  <2>5. \A t \in SUBSET (1..(m-1)) : h[t] = g[t]
    BY <2>4
  <2>6. \A t \in SUBSET (1..m) : h[t] \in St
    <3> TAKE t \in SUBSET (1..m)
    <3>1. CASE m \in t
      <4>1. g[t \ {m}] \in St
        BY <2>2, <2>4
      <4> QED BY <3>1, <4>1
    <3>2. CASE m \notin t
      BY <3>2, <2>3, <2>4
    <3> QED BY <3>1, <3>2
  <2>7. h \in [SUBSET (1..m) -> St]
    BY <2>6
  <2>8. ASSUME NEW t \in SUBSET (1..m)
        PROVE  h[t] = IF t = {} THEN b ELSE F[<<h[t \ {Max(t)}], Max(t)>>]
    <3>1. CASE m \in t
      <4>1. Max(t) = m
        BY <3>1, LastOfRange
      <4>2. h[t \ {m}] = g[t \ {m}]
        BY <2>2, <2>5
      <4>3. h[t] = F[<<g[t \ {m}], m>>]
        BY <3>1
      <4> HIDE DEF h
      <4> QED BY <3>1, <4>1, <4>2, <4>3
    <3>2. CASE m \notin t
      <4>1. t \in SUBSET (1..(m-1))
        BY <2>3, <3>2
      <4>2. h[t] = g[t]
        BY <2>5, <4>1
      <4>3. t \ {Max(t)} \in SUBSET (1..(m-1))
        BY <4>1
      <4>4. h[t \ {Max(t)}] = g[t \ {Max(t)}]
        BY <2>5, <4>3
      <4>5. g[t] = IF t = {} THEN b ELSE F[<<g[t \ {Max(t)}], Max(t)>>]
        BY <2>1, <4>1 DEF FoldOf
      <4> HIDE DEF h
      <4> QED BY <4>2, <4>4, <4>5
    <3> QED BY <3>1, <3>2
  <2>9. Folds(h, m)
    <3> HIDE DEF h
    <3> QED BY <2>7, <2>8 DEF FoldOf
  <2>10. m \in 0..n
    OBVIOUS
  <2> HIDE DEF Folds
  <2> QED BY <2>9, <2>10
<1>3. n \in P
  <2> HIDE DEF P
  <2> QED BY <1>1, <1>2, Upwards
<1> QED BY <1>3

\* The results of the first k steps, for every k.
StepsOf(h, n, St, b, F, G) ==
  /\ h \in [0..n -> St]
  /\ h[0] = b /\ h[n] = G[1..n]
  /\ \A k \in 1..n : h[k] = F[<<h[k - 1], k>>]

FollowsFold(G, n, St, b, F) ==
  /\ G[{}] = b
  /\ \A t \in SUBSET (1..n) : t # {} /\ G[t \ {Max(t)}] \in St =>
       G[t] = F[<<G[t \ {Max(t)}], Max(t)>>]

\* Along a fold the results of the first k steps follow each other.
LEMMA FoldSteps ==
  ASSUME NEW n \in Nat, NEW St, NEW b \in St, NEW F, NEW G,
         \A x \in St : \A k \in 1..n : F[<<x, k>>] \in St,
         FollowsFold(G, n, St, b, F)
  PROVE  \E h : StepsOf(h, n, St, b, F, G)
<1> DEFINE h == [k \in 0..n |-> G[1..k]]
           P == {k \in 0..n : h[k] \in St}
<1>1. h[0] = b
  <2>1. 1..0 = {} /\ 0 \in 0..n
    OBVIOUS
  <2> QED BY <2>1 DEF FollowsFold
<1>2. ASSUME NEW k \in 1..n, h[k - 1] \in St
      PROVE  h[k] = F[<<h[k - 1], k>>] /\ h[k] \in St
  <2>1. 1..k \in SUBSET (1..n) /\ 1..k # {} /\ k - 1 \in 0..n /\ k \in 0..n
    <3>1. k \in 1..k
      OBVIOUS
    <3>2. 1..k \in SUBSET (1..n)
      OBVIOUS
    <3> QED BY <3>1, <3>2
  <2>2. Max(1..k) = k /\ (1..k) \ {k} = 1..(k-1)
    BY LastOfRange
  <2>3. h[k - 1] = G[1..(k-1)] /\ h[k] = G[1..k]
    BY <2>1
  <2> HIDE DEF h
  <2>4. h[k] = F[<<h[k - 1], k>>]
    BY <1>2, <2>1, <2>2, <2>3 DEF FollowsFold
  <2> QED BY <1>2, <2>4
<1> HIDE DEF h
<1>3. \A k \in 0..n : k \in P
  <2>1. 0 \in P
    BY <1>1
  <2>2. \A k \in 1..n : k - 1 \in P => k \in P
    <3> TAKE k \in 1..n
    <3> HAVE k - 1 \in P
    <3>1. h[k - 1] \in St /\ k \in 0..n
      OBVIOUS
    <3>2. h[k] \in St
      BY <1>2, <3>1
    <3> QED BY <3>1, <3>2
  <2> HIDE DEF P
  <2> QED BY <2>1, <2>2, Upwards
<1>4. h \in [0..n -> St] /\ h[n] = G[1..n]
  BY <1>3 DEF h
<1>5. \A k \in 1..n : h[k] = F[<<h[k - 1], k>>]
  <2> TAKE k \in 1..n
  <2>1. k - 1 \in P
    BY <1>3
  <2> QED BY <1>2, <2>1
<1> QED BY <1>1, <1>4, <1>5 DEF StepsOf

\* The steps of the three folds.
Kept(out, s) == IF s \in ToSet(out) THEN out ELSE Append(out, s)
Picked(out, x, S) == IF x \in S THEN Append(out, x) ELSE out
Joined(out, id, all) == out \o OfList(id, all)

NormTrace(h, s, A) ==
  /\ h \in [0..Len(s) -> Seq(A)]
  /\ h[0] = <<>>
  /\ \A k \in 1..Len(s) : h[k] = Kept(h[k - 1], s[k])

PickTrace(h, s, A, S) ==
  /\ h \in [0..Len(s) -> Seq(A)]
  /\ h[0] = <<>>
  /\ \A k \in 1..Len(s) : h[k] = Picked(h[k - 1], s[k], S)

JoinTrace(h, s, A, all) ==
  /\ h \in [0..Len(s) -> Seq(A)]
  /\ h[0] = <<>>
  /\ \A k \in 1..Len(s) : h[k] = Joined(h[k - 1], s[k], all)

LEMMA KeptType ==
  ASSUME NEW A, NEW out \in Seq(A), NEW x \in A
  PROVE  Kept(out, x) \in Seq(A)
BY DEF Kept

LEMMA PickedType ==
  ASSUME NEW A, NEW out \in Seq(A), NEW x \in A, NEW S
  PROVE  Picked(out, x, S) \in Seq(A)
BY DEF Picked

LEMMA NormalizedTrace ==
  ASSUME NEW A, NEW s \in Seq(A)
  PROVE  \E h : NormTrace(h, s, A) /\ Normalized(s) = h[Len(s)]
<1> DEFINE n == Len(s)
           Fold(g) == g = [t \in SUBSET (1..n) |->
                             IF t = {} THEN <<>> ELSE Kept(g[t \ {Max(t)}], s[Max(t)])]
           F == [p \in Seq(A) \X (1..n) |-> Kept(p[1], s[p[2]])]
           G == CHOOSE g : Fold(g)
<1>1. n \in Nat /\ DOMAIN s = 1..n /\ \A k \in 1..n : s[k] \in A
  OBVIOUS
<1>2. \A x \in Seq(A) : \A k \in 1..n : F[<<x, k>>] = Kept(x, s[k])
  OBVIOUS
<1>3. \A x \in Seq(A) : \A k \in 1..n : F[<<x, k>>] \in Seq(A)
  BY <1>1, <1>2, KeptType
<1>4. \E g : Fold(g)
  <2> HIDE DEF n, F
  <2>1. PICK g : FoldOf(g, n, Seq(A), <<>>, F)
    <3>1. <<>> \in Seq(A)
      OBVIOUS
    <3> QED BY <1>1, <1>3, <3>1, FoldExists
  <2>2. ASSUME NEW t \in SUBSET (1..n), t # {}
        PROVE  F[<<g[t \ {Max(t)}], Max(t)>>] = Kept(g[t \ {Max(t)}], s[Max(t)])
    <3>1. Max(t) \in 1..n
      BY <1>1, <2>2, MaxBelow
    <3>2. g[t \ {Max(t)}] \in Seq(A)
      BY <2>1 DEF FoldOf
    <3> QED BY <1>2, <3>1, <3>2
  <2>3. \A t \in SUBSET (1..n) :
          g[t] = IF t = {} THEN <<>> ELSE Kept(g[t \ {Max(t)}], s[Max(t)])
    BY <2>1, <2>2 DEF FoldOf
  <2>4. Fold(g)
    BY <2>1, <2>3 DEF FoldOf
  <2> QED BY <2>4
<1>5. Fold(G)
  BY <1>4
<1>6. Normalized(s) = G[1..n]
  <2>1. Normalized(s) = G[DOMAIN s]
    BY <1>1 DEF Normalized, FoldLeft, MapThenFoldSet, Kept
  <2> QED BY <1>1, <2>1
<1> HIDE DEF G, F, n
<1>7. \E h : StepsOf(h, n, Seq(A), <<>>, F, G)
  <2>1. <<>> \in Seq(A) /\ {} \in SUBSET (1..n)
    OBVIOUS
  <2>2. G[{}] = <<>>
    BY <1>5, <2>1
  <2>3. ASSUME NEW t \in SUBSET (1..n), t # {}, G[t \ {Max(t)}] \in Seq(A)
        PROVE  G[t] = F[<<G[t \ {Max(t)}], Max(t)>>]
    <3>1. Max(t) \in 1..n
      BY <1>1, <2>3, MaxBelow
    <3>2. G[t] = Kept(G[t \ {Max(t)}], s[Max(t)])
      BY <1>5, <2>3
    <3> QED BY <1>2, <2>3, <3>1, <3>2
  <2>4. FollowsFold(G, n, Seq(A), <<>>, F)
    BY <2>2, <2>3 DEF FollowsFold
  <2> QED BY <1>1, <1>3, <2>1, <2>4, FoldSteps
<1>8. PICK h : StepsOf(h, n, Seq(A), <<>>, F, G)
  BY <1>7
<1>9. ASSUME NEW k \in 1..n
      PROVE  h[k] = Kept(h[k - 1], s[k])
  <2>1. h[k - 1] \in Seq(A) /\ h[k] = F[<<h[k - 1], k>>]
    <3>1. k - 1 \in 0..n
      BY <1>1
    <3> QED BY <1>8, <3>1 DEF StepsOf
  <2> QED BY <1>2, <2>1
<1>10. NormTrace(h, s, A)
  BY <1>8, <1>9 DEF StepsOf, NormTrace, n
<1> QED BY <1>6, <1>8, <1>10 DEF n, StepsOf

LEMMA WithinTrace ==
  ASSUME NEW A, NEW s \in Seq(A), NEW S
  PROVE  \E h : PickTrace(h, s, A, S) /\ Within(s, S) = h[Len(s)]
<1> DEFINE n == Len(s)
           Fold(g) == g = [t \in SUBSET (1..n) |->
                             IF t = {} THEN <<>> ELSE Picked(g[t \ {Max(t)}], s[Max(t)], S)]
           F == [p \in Seq(A) \X (1..n) |-> Picked(p[1], s[p[2]], S)]
           G == CHOOSE g : Fold(g)
<1>1. n \in Nat /\ DOMAIN s = 1..n /\ \A k \in 1..n : s[k] \in A
  OBVIOUS
<1>2. \A x \in Seq(A) : \A k \in 1..n : F[<<x, k>>] = Picked(x, s[k], S)
  OBVIOUS
<1>3. \A x \in Seq(A) : \A k \in 1..n : F[<<x, k>>] \in Seq(A)
  BY <1>1, <1>2, PickedType
<1>4. \E g : Fold(g)
  <2> HIDE DEF n, F
  <2>1. PICK g : FoldOf(g, n, Seq(A), <<>>, F)
    <3>1. <<>> \in Seq(A)
      OBVIOUS
    <3> QED BY <1>1, <1>3, <3>1, FoldExists
  <2>2. ASSUME NEW t \in SUBSET (1..n), t # {}
        PROVE  F[<<g[t \ {Max(t)}], Max(t)>>] = Picked(g[t \ {Max(t)}], s[Max(t)], S)
    <3>1. Max(t) \in 1..n
      BY <1>1, <2>2, MaxBelow
    <3>2. g[t \ {Max(t)}] \in Seq(A)
      BY <2>1 DEF FoldOf
    <3> QED BY <1>2, <3>1, <3>2
  <2>3. \A t \in SUBSET (1..n) :
          g[t] = IF t = {} THEN <<>> ELSE Picked(g[t \ {Max(t)}], s[Max(t)], S)
    BY <2>1, <2>2 DEF FoldOf
  <2>4. Fold(g)
    BY <2>1, <2>3 DEF FoldOf
  <2> QED BY <2>4
<1>5. Fold(G)
  BY <1>4
<1>6. Within(s, S) = G[1..n]
  <2>1. Within(s, S) = G[DOMAIN s]
    BY <1>1 DEF Within, FoldLeft, MapThenFoldSet, Picked
  <2> QED BY <1>1, <2>1
<1> HIDE DEF G, F, n
<1>7. \E h : StepsOf(h, n, Seq(A), <<>>, F, G)
  <2>1. <<>> \in Seq(A) /\ {} \in SUBSET (1..n)
    OBVIOUS
  <2>2. G[{}] = <<>>
    BY <1>5, <2>1
  <2>3. ASSUME NEW t \in SUBSET (1..n), t # {}, G[t \ {Max(t)}] \in Seq(A)
        PROVE  G[t] = F[<<G[t \ {Max(t)}], Max(t)>>]
    <3>1. Max(t) \in 1..n
      BY <1>1, <2>3, MaxBelow
    <3>2. G[t] = Picked(G[t \ {Max(t)}], s[Max(t)], S)
      BY <1>5, <2>3
    <3> QED BY <1>2, <2>3, <3>1, <3>2
  <2>4. FollowsFold(G, n, Seq(A), <<>>, F)
    BY <2>2, <2>3 DEF FollowsFold
  <2> QED BY <1>1, <1>3, <2>1, <2>4, FoldSteps
<1>8. PICK h : StepsOf(h, n, Seq(A), <<>>, F, G)
  BY <1>7
<1>9. ASSUME NEW k \in 1..n
      PROVE  h[k] = Picked(h[k - 1], s[k], S)
  <2>1. h[k - 1] \in Seq(A) /\ h[k] = F[<<h[k - 1], k>>]
    <3>1. k - 1 \in 0..n
      BY <1>1
    <3> QED BY <1>8, <3>1 DEF StepsOf
  <2> QED BY <1>2, <2>1
<1>10. PickTrace(h, s, A, S)
  BY <1>8, <1>9 DEF StepsOf, PickTrace, n
<1> QED BY <1>6, <1>8, <1>10 DEF n, StepsOf

LEMMA JoinedType ==
  ASSUME NEW A, NEW all, \A i \in Int : OfList(i, all) \in Seq(A),
         NEW out \in Seq(A), NEW i \in Int
  PROVE  Joined(out, i, all) \in Seq(A)
<1>1. OfList(i, all) \in Seq(A)
  OBVIOUS
<1> QED BY <1>1 DEF Joined

LEMMA OfListsTrace ==
  ASSUME NEW A, NEW s \in Seq(Int), NEW all,
         \A i \in Int : OfList(i, all) \in Seq(A)
  PROVE  \E h : JoinTrace(h, s, A, all) /\ OfLists(s, all) = h[Len(s)]
<1> DEFINE n == Len(s)
           Fold(g) == g = [t \in SUBSET (1..n) |->
                             IF t = {} THEN <<>> ELSE Joined(g[t \ {Max(t)}], s[Max(t)], all)]
           F == [p \in Seq(A) \X (1..n) |-> Joined(p[1], s[p[2]], all)]
           G == CHOOSE g : Fold(g)
<1>1. n \in Nat /\ DOMAIN s = 1..n /\ \A k \in 1..n : s[k] \in Int
  OBVIOUS
<1>2. \A x \in Seq(A) : \A k \in 1..n : F[<<x, k>>] = Joined(x, s[k], all)
  OBVIOUS
<1>3. \A x \in Seq(A) : \A k \in 1..n : F[<<x, k>>] \in Seq(A)
  BY <1>1, <1>2, JoinedType
<1>4. \E g : Fold(g)
  <2> HIDE DEF n, F
  <2>1. PICK g : FoldOf(g, n, Seq(A), <<>>, F)
    <3>1. <<>> \in Seq(A)
      OBVIOUS
    <3> QED BY <1>1, <1>3, <3>1, FoldExists
  <2>2. ASSUME NEW t \in SUBSET (1..n), t # {}
        PROVE  F[<<g[t \ {Max(t)}], Max(t)>>] = Joined(g[t \ {Max(t)}], s[Max(t)], all)
    <3>1. Max(t) \in 1..n
      BY <1>1, <2>2, MaxBelow
    <3>2. g[t \ {Max(t)}] \in Seq(A)
      BY <2>1 DEF FoldOf
    <3> QED BY <1>2, <3>1, <3>2
  <2>3. \A t \in SUBSET (1..n) :
          g[t] = IF t = {} THEN <<>> ELSE Joined(g[t \ {Max(t)}], s[Max(t)], all)
    BY <2>1, <2>2 DEF FoldOf
  <2>4. Fold(g)
    BY <2>1, <2>3 DEF FoldOf
  <2> QED BY <2>4
<1>5. Fold(G)
  BY <1>4
<1>6. OfLists(s, all) = G[1..n]
  <2>1. OfLists(s, all) = G[DOMAIN s]
    BY <1>1 DEF OfLists, FoldLeft, MapThenFoldSet, Joined
  <2> QED BY <1>1, <2>1
<1> HIDE DEF G, F, n
<1>7. \E h : StepsOf(h, n, Seq(A), <<>>, F, G)
  <2>1. <<>> \in Seq(A) /\ {} \in SUBSET (1..n)
    OBVIOUS
  <2>2. G[{}] = <<>>
    BY <1>5, <2>1
  <2>3. ASSUME NEW t \in SUBSET (1..n), t # {}, G[t \ {Max(t)}] \in Seq(A)
        PROVE  G[t] = F[<<G[t \ {Max(t)}], Max(t)>>]
    <3>1. Max(t) \in 1..n
      BY <1>1, <2>3, MaxBelow
    <3>2. G[t] = Joined(G[t \ {Max(t)}], s[Max(t)], all)
      BY <1>5, <2>3
    <3> QED BY <1>2, <2>3, <3>1, <3>2
  <2>4. FollowsFold(G, n, Seq(A), <<>>, F)
    BY <2>2, <2>3 DEF FollowsFold
  <2> QED BY <1>1, <1>3, <2>1, <2>4, FoldSteps
<1>8. PICK h : StepsOf(h, n, Seq(A), <<>>, F, G)
  BY <1>7
<1>9. ASSUME NEW k \in 1..n
      PROVE  h[k] = Joined(h[k - 1], s[k], all)
  <2>1. h[k - 1] \in Seq(A) /\ h[k] = F[<<h[k - 1], k>>]
    <3>1. k - 1 \in 0..n
      BY <1>1
    <3> QED BY <1>8, <3>1 DEF StepsOf
  <2> QED BY <1>2, <2>1
<1>10. JoinTrace(h, s, A, all)
  BY <1>8, <1>9 DEF StepsOf, JoinTrace, n
<1> QED BY <1>6, <1>8, <1>10 DEF n, StepsOf

Distinct(s) == \A i, j \in DOMAIN s : s[i] = s[j] => i = j

LEMMA PrefixGrows ==
  ASSUME NEW A, NEW s \in Seq(A), NEW k \in 1..Len(s)
  PROVE  /\ SubSeq(s, 1, k) = Append(SubSeq(s, 1, k - 1), s[k])
         /\ SubSeq(s, 1, k - 1) \in Seq(A)
         /\ ToSet(SubSeq(s, 1, k - 1)) = {s[i] : i \in 1..(k-1)}
<1>1. SubSeq(s, 1, k - 1) \in Seq(A) /\ Len(SubSeq(s, 1, k - 1)) = k - 1
      /\ \A i \in 1..(k-1) : SubSeq(s, 1, k - 1)[i] = s[i]
  OBVIOUS
<1>2. SubSeq(s, 1, k) \in Seq(A) /\ Len(SubSeq(s, 1, k)) = k
      /\ \A i \in 1..k : SubSeq(s, 1, k)[i] = s[i]
  OBVIOUS
<1> DEFINE p == SubSeq(s, 1, k - 1)
           q == SubSeq(s, 1, k)
<1>3. DOMAIN p = 1..(k-1) /\ s[k] \in A
  BY <1>1
<1>4. ToSet(p) = {s[i] : i \in 1..(k-1)}
  BY <1>1, <1>3 DEF ToSet
<1>5. q = Append(p, s[k])
  <2> HIDE DEF p, q
  <2>1. p \in Seq(A) /\ Len(p) = k - 1 /\ \A i \in 1..(k-1) : p[i] = s[i]
    BY <1>1 DEF p
  <2>2. q \in Seq(A) /\ Len(q) = k /\ \A i \in 1..k : q[i] = s[i]
    BY <1>2 DEF q
  <2>3. Append(p, s[k]) \in Seq(A) /\ Len(Append(p, s[k])) = k
    BY <2>1, <1>3
  <2>4. \A i \in 1..k : Append(p, s[k])[i] = q[i]
    BY <2>1, <2>2, <1>3
  <2> QED BY <2>2, <2>3, <2>4
<1> QED BY <1>1, <1>4, <1>5

LEMMA PrefixEnds ==
  ASSUME NEW A, NEW s \in Seq(A)
  PROVE  SubSeq(s, 1, 0) = <<>> /\ SubSeq(s, 1, Len(s)) = s
OBVIOUS

\* A sequence has one trace.
LEMMA NormalizedIs ==
  ASSUME NEW A, NEW s \in Seq(A), NEW g, NormTrace(g, s, A)
  PROVE  Normalized(s) = g[Len(s)]
<1>1. PICK h : NormTrace(h, s, A) /\ Normalized(s) = h[Len(s)]
  BY NormalizedTrace
<1> DEFINE n == Len(s)
           P == {k \in 0..n : h[k] = g[k]}
<1>2. n \in Nat
  OBVIOUS
<1>3. 0 \in P
  BY <1>1, <1>2 DEF NormTrace
<1>4. \A k \in 1..n : k - 1 \in P => k \in P
  BY <1>1, <1>2 DEF NormTrace
<1>5. \A k \in 0..n : k \in P
  <2> HIDE DEF P, n
  <2> QED BY <1>2, <1>3, <1>4, Upwards
<1>6. n \in P
  BY <1>2, <1>5
<1> QED BY <1>1, <1>6

\* Normalized leaves no symbol out altogether, and none twice.
LEMMA NormalizedFacts ==
  ASSUME NEW A, NEW s \in Seq(A)
  PROVE  /\ Normalized(s) \in Seq(A)
         /\ Distinct(Normalized(s))
         /\ Normalized(s) = <<>> <=> s = <<>>
<1>1. PICK h : NormTrace(h, s, A) /\ Normalized(s) = h[Len(s)]
  BY NormalizedTrace
<1> DEFINE n == Len(s)
           P == {k \in 0..n : Distinct(h[k]) /\ (k # 0 => h[k] # <<>>)}
<1>2. n \in Nat /\ h \in [0..n -> Seq(A)] /\ \A k \in 1..n : s[k] \in A
  BY <1>1 DEF NormTrace
<1>3. 0 \in P
  <2>1. h[0] = <<>>
    BY <1>1 DEF NormTrace
  <2> QED BY <1>2, <2>1 DEF Distinct
<1>4. ASSUME NEW k \in 1..n, k - 1 \in P PROVE k \in P
  <2>1. h[k] = Kept(h[k - 1], s[k])
    BY <1>1 DEF NormTrace
  <2> DEFINE p == h[k - 1]
             x == s[k]
  <2>2. p \in Seq(A) /\ x \in A /\ Distinct(p)
    BY <1>2, <1>4
  <2>3. CASE x \in ToSet(p)
    <3>1. h[k] = p /\ p # <<>>
      BY <2>1, <2>3 DEF Kept, ToSet
    <3> QED BY <2>2, <3>1, <1>2
  <2>4. CASE x \notin ToSet(p)
    <3> HIDE DEF p, x
    <3>1. h[k] = Append(p, x)
      BY <2>1, <2>4 DEF Kept, p, x
    <3>2. Append(p, x) # <<>>
      <4>1. Len(Append(p, x)) = Len(p) + 1 /\ Len(p) \in Nat /\ Append(p, x) \in Seq(A)
        BY <2>2
      <4>2. Len(Append(p, x)) # 0
        BY <4>1
      <4> QED BY <4>1, <4>2
    <3>3. \A i \in DOMAIN p : p[i] # x
      BY <2>4 DEF ToSet
    <3>4. ASSUME NEW i \in DOMAIN Append(p, x), NEW j \in DOMAIN Append(p, x),
                 Append(p, x)[i] = Append(p, x)[j]
          PROVE  i = j
      <4>1. DOMAIN p = 1..Len(p) /\ DOMAIN Append(p, x) = 1..(Len(p) + 1) /\ Len(p) \in Nat
        BY <2>2
      <4>2. Append(p, x)[Len(p) + 1] = x /\ \A l \in 1..Len(p) : Append(p, x)[l] = p[l]
        BY <2>2
      <4>3. CASE i \in 1..Len(p) /\ j \in 1..Len(p)
        BY <4>1, <4>2, <4>3, <3>4, <2>2 DEF Distinct
      <4>4. CASE i = Len(p) + 1 /\ j \in 1..Len(p)
        BY <4>1, <4>2, <4>4, <3>3, <3>4
      <4>5. CASE j = Len(p) + 1 /\ i \in 1..Len(p)
        BY <4>1, <4>2, <4>5, <3>3, <3>4
      <4>6. CASE i = Len(p) + 1 /\ j = Len(p) + 1
        BY <4>6
      <4> QED BY <4>1, <4>3, <4>4, <4>5, <4>6
    <3>5. Distinct(Append(p, x))
      BY <3>4 DEF Distinct
    <3>6. Distinct(h[k]) /\ h[k] # <<>> /\ k \in 0..n
      BY <3>1, <3>2, <3>5, <1>2
    <3> QED BY <3>6
  <2> QED BY <2>3, <2>4
<1>5. \A k \in 0..n : k \in P
  <2> HIDE DEF P, n
  <2> QED BY <1>2, <1>3, <1>4, Upwards
<1>6. n \in P /\ h[n] \in Seq(A)
  BY <1>2, <1>5
<1>7. s = <<>> <=> n = 0
  OBVIOUS
<1>8. h[0] = <<>>
  BY <1>1 DEF NormTrace
<1> QED BY <1>1, <1>6, <1>7, <1>8

LEMMA NormalizedDistinct ==
  ASSUME NEW A, NEW s \in Seq(A), Distinct(s)
  PROVE  Normalized(s) = s
<1> DEFINE g == [k \in 0..Len(s) |-> SubSeq(s, 1, k)]
<1>1. g[0] = <<>> /\ g[Len(s)] = s
  BY PrefixEnds
<1>2. \A k \in 0..Len(s) : SubSeq(s, 1, k) \in Seq(A)
  OBVIOUS
<1>3. ASSUME NEW k \in 1..Len(s)
      PROVE  g[k] = Kept(g[k - 1], s[k])
  <2>1. g[k] = SubSeq(s, 1, k) /\ g[k - 1] = SubSeq(s, 1, k - 1)
    OBVIOUS
  <2>2. s[k] \notin ToSet(SubSeq(s, 1, k - 1))
    <3>1. SUFFICES ASSUME NEW i \in 1..(k-1), s[i] = s[k] PROVE FALSE
      BY PrefixGrows
    <3>2. i \in DOMAIN s /\ k \in DOMAIN s
      OBVIOUS
    <3>3. i = k
      BY <3>1, <3>2 DEF Distinct
    <3> QED BY <3>3
  <2> QED BY <2>1, <2>2, PrefixGrows DEF Kept
<1>4. g \in [0..Len(s) -> Seq(A)]
  BY <1>2
<1> HIDE DEF g
<1>5. NormTrace(g, s, A)
  BY <1>1, <1>3, <1>4 DEF NormTrace
<1> QED BY <1>1, <1>5, NormalizedIs

\* The trace of a sequence begins with the trace of its beginning.
LEMMA TraceBegins ==
  ASSUME NEW A, NEW a \in Seq(A), NEW b \in Seq(A), NEW h, NormTrace(h, a \o b, A)
  PROVE  /\ h[Len(a)] = Normalized(a)
         /\ \A j \in 1..Len(b) : h[Len(a) + j] = Kept(h[Len(a) + j - 1], b[j])
<1>1. a \o b \in Seq(A) /\ Len(a \o b) = Len(a) + Len(b)
      /\ (\A i \in 1..Len(a) : (a \o b)[i] = a[i])
      /\ (\A j \in 1..Len(b) : (a \o b)[Len(a) + j] = b[j])
  OBVIOUS
<1>2. Len(a) \in Nat /\ Len(b) \in Nat
  OBVIOUS
<1> DEFINE g == [k \in 0..Len(a) |-> h[k]]
<1>3. g \in [0..Len(a) -> Seq(A)] /\ g[0] = <<>> /\ g[Len(a)] = h[Len(a)]
  <2>1. \A k \in 0..Len(a) : k \in 0..Len(a \o b)
    BY <1>1, <1>2
  <2>2. h \in [0..Len(a \o b) -> Seq(A)] /\ h[0] = <<>>
    BY DEF NormTrace
  <2>3. \A k \in 0..Len(a) : h[k] \in Seq(A)
    BY <2>1, <2>2
  <2> QED BY <1>2, <2>2, <2>3
<1>4. ASSUME NEW k \in 1..Len(a)
      PROVE  g[k] = Kept(g[k - 1], a[k])
  <2>1. k \in 1..Len(a \o b) /\ k \in 0..Len(a) /\ k - 1 \in 0..Len(a)
    BY <1>1, <1>2
  <2>2. h[k] = Kept(h[k - 1], (a \o b)[k])
    BY <2>1 DEF NormTrace
  <2>3. g[k] = h[k] /\ g[k - 1] = h[k - 1] /\ (a \o b)[k] = a[k]
    BY <1>1, <2>1
  <2> QED BY <2>2, <2>3
<1> HIDE DEF g
<1>5. NormTrace(g, a, A)
  BY <1>3, <1>4 DEF NormTrace
<1>6. h[Len(a)] = Normalized(a)
  BY <1>3, <1>5, NormalizedIs
<1>7. ASSUME NEW j \in 1..Len(b)
      PROVE  h[Len(a) + j] = Kept(h[Len(a) + j - 1], b[j])
  <2>1. Len(a) + j \in 1..Len(a \o b)
    BY <1>1, <1>2
  <2>2. h[Len(a) + j] = Kept(h[Len(a) + j - 1], (a \o b)[Len(a) + j])
    <3>1. \A k \in 1..Len(a \o b) : h[k] = Kept(h[k - 1], (a \o b)[k])
      BY DEF NormTrace
    <3> DEFINE k == Len(a) + j
    <3>2. k \in 1..Len(a \o b)
      BY <2>1
    <3> HIDE DEF k
    <3>3. h[k] = Kept(h[k - 1], (a \o b)[k])
      BY <3>1, <3>2
    <3> QED BY <3>3 DEF k
  <2> QED BY <1>1, <2>2
<1> QED BY <1>6, <1>7

\* It does not matter whether the beginning was normalized before.
LEMMA NormalizedTwice ==
  ASSUME NEW A, NEW a \in Seq(A), NEW b \in Seq(A)
  PROVE  Normalized(Normalized(a) \o b) = Normalized(a \o b)
<1> DEFINE c == Normalized(a)
<1>1. c \in Seq(A) /\ Normalized(c) = c
  BY NormalizedFacts, NormalizedDistinct
<1> HIDE DEF c
<1>2. PICK h : NormTrace(h, a \o b, A) /\ Normalized(a \o b) = h[Len(a \o b)]
  <2>1. a \o b \in Seq(A)
    OBVIOUS
  <2> QED BY <2>1, NormalizedTrace
<1>3. PICK u : NormTrace(u, c \o b, A) /\ Normalized(c \o b) = u[Len(c \o b)]
  <2>1. c \o b \in Seq(A)
    BY <1>1
  <2> QED BY <2>1, NormalizedTrace
<1> DEFINE n == Len(b)
           P == {j \in 0..n : h[Len(a) + j] = u[Len(c) + j]}
<1>4. n \in Nat /\ Len(a) \in Nat /\ Len(c) \in Nat
  BY <1>1
<1>5. 0 \in P
  <2>1. h[Len(a)] = c
    BY <1>2, TraceBegins DEF c
  <2>2. u[Len(c)] = c
    BY <1>1, <1>3, TraceBegins
  <2>3. Len(a) + 0 = Len(a) /\ Len(c) + 0 = Len(c)
    BY <1>4
  <2> QED BY <1>4, <2>1, <2>2, <2>3
<1>6. ASSUME NEW j \in 1..n, j - 1 \in P PROVE j \in P
  <2>1. h[Len(a) + j] = Kept(h[Len(a) + j - 1], b[j])
    BY <1>2, TraceBegins
  <2>2. u[Len(c) + j] = Kept(u[Len(c) + j - 1], b[j])
    BY <1>1, <1>3, TraceBegins
  <2>3. Len(a) + (j - 1) = Len(a) + j - 1 /\ Len(c) + (j - 1) = Len(c) + j - 1
    BY <1>4
  <2>4. h[Len(a) + j - 1] = u[Len(c) + j - 1]
    BY <1>6, <2>3
  <2> QED BY <1>4, <2>1, <2>2, <2>4
<1>7. \A j \in 0..n : j \in P
  <2> HIDE DEF P, n
  <2> QED BY <1>4, <1>5, <1>6, Upwards
<1>8. h[Len(a) + n] = u[Len(c) + n]
  BY <1>4, <1>7
<1>9. Len(a \o b) = Len(a) + n /\ Len(c \o b) = Len(c) + n
  BY <1>1
<1> QED BY <1>2, <1>3, <1>8, <1>9 DEF c

LEMMA WithinType ==
  ASSUME NEW A, NEW s \in Seq(A), NEW S
  PROVE  Within(s, S) \in Seq(A)
<1>1. PICK h : PickTrace(h, s, A, S) /\ Within(s, S) = h[Len(s)]
  BY WithinTrace
<1>2. Len(s) \in 0..Len(s)
  OBVIOUS
<1> QED BY <1>1, <1>2 DEF PickTrace

\* Of a sequence that lies in the set, all is taken.
LEMMA WithinAll ==
  ASSUME NEW A, NEW s \in Seq(A), NEW S, \A i \in DOMAIN s : s[i] \in S
  PROVE  Within(s, S) = s
<1>1. PICK h : PickTrace(h, s, A, S) /\ Within(s, S) = h[Len(s)]
  BY WithinTrace
<1> DEFINE n == Len(s)
           P == {k \in 0..n : h[k] = SubSeq(s, 1, k)}
<1>2. n \in Nat /\ SubSeq(s, 1, 0) = <<>> /\ SubSeq(s, 1, n) = s
  BY PrefixEnds
<1>3. 0 \in P
  BY <1>1, <1>2 DEF PickTrace
<1>4. ASSUME NEW k \in 1..n, k - 1 \in P PROVE k \in P
  <2>1. h[k] = Picked(h[k - 1], s[k], S) /\ h[k - 1] = SubSeq(s, 1, k - 1)
    BY <1>1, <1>4 DEF PickTrace
  <2>2. s[k] \in S /\ k \in 0..n
    OBVIOUS
  <2>3. h[k] = Append(SubSeq(s, 1, k - 1), s[k])
    BY <2>1, <2>2 DEF Picked
  <2> QED BY <2>2, <2>3, PrefixGrows
<1>5. \A k \in 0..n : k \in P
  <2> HIDE DEF P, n
  <2> QED BY <1>2, <1>3, <1>4, Upwards
<1>6. n \in P
  BY <1>2, <1>5
<1> QED BY <1>1, <1>2, <1>6

\* Of a sequence without any member of the set, nothing is.
LEMMA WithinNone ==
  ASSUME NEW A, NEW s \in Seq(A), NEW S, \A i \in DOMAIN s : s[i] \notin S
  PROVE  Within(s, S) = <<>>
<1>1. PICK h : PickTrace(h, s, A, S) /\ Within(s, S) = h[Len(s)]
  BY WithinTrace
<1> DEFINE n == Len(s)
           P == {k \in 0..n : h[k] = <<>>}
<1>2. n \in Nat
  OBVIOUS
<1>3. 0 \in P
  BY <1>1, <1>2 DEF PickTrace
<1>4. ASSUME NEW k \in 1..n, k - 1 \in P PROVE k \in P
  <2>1. h[k] = Picked(h[k - 1], s[k], S) /\ h[k - 1] = <<>>
    BY <1>1, <1>4 DEF PickTrace
  <2>2. s[k] \notin S /\ k \in 0..n
    OBVIOUS
  <2> QED BY <2>1, <2>2 DEF Picked
<1>5. \A k \in 0..n : k \in P
  <2> HIDE DEF P, n
  <2> QED BY <1>2, <1>3, <1>4, Upwards
<1>6. n \in P
  BY <1>2, <1>5
<1> QED BY <1>1, <1>6

(***************************************************************************)
(* The watchlists, their previews and runs                                 *)
(***************************************************************************)

Syms == ToSet(Alphabet)
Filled(symbols) == symbols \in Seq(Syms) /\ symbols # <<>>
LEMMA FilledInputs ==
  /\ Filled(Alphabet)
  /\ \A symbols \in SymbolLists : Filled(symbols) /\ Filled(Normalized(symbols))
  /\ Filled(Normalized(Alphabet))


<1>1. Filled(Alphabet)
  BY SymbolsAssumption DEF Filled, Syms
<1>2. ASSUME NEW symbols \in SymbolLists \cup {Alphabet}
      PROVE  Filled(symbols) /\ Filled(Normalized(symbols))
  <2>1. symbols \in Seq(Syms) /\ symbols # <<>>
    BY SymbolsAssumption DEF Syms
  <2> QED BY <2>1, NormalizedFacts DEF Filled
<1> QED BY <1>1, <1>2

\* A list has symbols, and so has what a request writes to it.  What sets a default
\* flag takes it from the others, or is a seeding that saw no list.
RowSound(row) ==
  {"symbols", "isDefault"} \subseteq DOMAIN row /\ row.isDefault \in BOOLEAN /\ Filled(row.symbols)
Asked(q) ==
  /\ q.isDefault \subseteq BOOLEAN /\ \A s \in q.symbols : Filled(s)
  /\ q.found = {} => q.symbols # {}
  /\ TRUE \in q.isDefault => q.takes \/ (q.doing = "seed" /\ q.found = {} /\ q.saw = {})

\* Of the default lists, all but one came beside another.
ListsInv ==
  /\ lists = [id \in ListIds |-> lists[id]]
  /\ \A id \in ListIds : RowSound(lists[id])
  /\ request = [r \in Requests |-> request[r]]
  /\ \A r \in Requests : request[r] # Resting => Asked(request[r])
  /\ \A i, j \in DefaultIds \ beside : i = j

LEMMA ListStart == ListInit => ListsInv
<1> SUFFICES ASSUME ListInit PROVE ListsInv
  OBVIOUS
<1>1. PICK row : row = StarterList
  OBVIOUS
<1>2. RowSound(row) /\ row.isDefault = TRUE
  BY <1>1, FilledInputs DEF StarterList, RowSound
<1>3. lists = [id \in {} |-> TRUE] \/ lists = [id \in {1} |-> row]
  BY <1>1 DEF ListInit, Nil
<1>4. request = [r \in Requests |-> request[r]] /\ \A r \in Requests : request[r] = Resting
  BY DEF ListInit
<1> QED BY <1>2, <1>3, <1>4 DEF ListsInv, ListIds, DefaultIds

LEMMA AskingIsSound ==
  ASSUME NEW doing, NEW found, NEW name, NEW symbols, NEW default \in AtMostOneOf(BOOLEAN),
         \A s \in symbols : Filled(Normalized(s)), found = {} => symbols # {},
         doing = "seed" => found = {} /\ ListIds = {}
  PROVE  Asked(Asking(doing, found, name, symbols, default))
<1>1. PICK q : q = Asking(doing, found, name, symbols, default)
  OBVIOUS
<1>2. /\ q.found = found /\ q.doing = doing
      /\ q.symbols = {Normalized(s) : s \in symbols} \ {lists[id].symbols : id \in found}
      /\ q.isDefault = default \ {lists[id].isDefault : id \in found}
      /\ q.takes = (doing # "seed" /\ default = {TRUE})
      /\ q.saw = IF doing = "seed" THEN DefaultIds ELSE {}
  BY <1>1 DEF Asking
<1>3. default \subseteq BOOLEAN /\ (TRUE \in default => default = {TRUE})
  BY DEF AtMostOneOf
<1>4. q.isDefault \subseteq BOOLEAN /\ \A s \in q.symbols : Filled(s)
  BY <1>2, <1>3
<1>5. q.found = {} => q.symbols # {}
  BY <1>2
<1>6. TRUE \in q.isDefault => q.takes \/ (q.doing = "seed" /\ q.found = {} /\ q.saw = {})
  BY <1>2, <1>3 DEF DefaultIds
<1> QED BY <1>1, <1>4, <1>5, <1>6 DEF Asked

LEMMA ListAsked ==
  ASSUME ListsInv, NEW r \in Requests, NEW q, Asked(q), Request(r, q)
  PROVE  ListsInv'
<1>1. request' = [request EXCEPT ![r] = q] /\ UNCHANGED <<lists, beside>>
  BY DEF Request
<1>2. /\ request' = [s \in Requests |-> request'[s]]
      /\ \A s \in Requests : request'[s] = IF s = r THEN q ELSE request[s]
  BY <1>1 DEF ListsInv
<1>3. \A s \in Requests : request'[s] # Resting => Asked(request'[s])
  BY <1>2 DEF ListsInv
<1>4. ListIds' = ListIds /\ DefaultIds' = DefaultIds
  BY <1>1 DEF ListIds, DefaultIds
<1>5. \A id \in ListIds' : RowSound(lists'[id])
  BY <1>1, <1>4 DEF ListsInv
<1> QED BY <1>1, <1>2, <1>3, <1>4, <1>5 DEF ListsInv, Resting

\* What a request writes: its own row, from columns it brings and columns it keeps.
LEMMA RowWritten ==
  ASSUME ListsInv, NEW q, Asked(q), NEW id, q.found # {} => id \in ListIds,
         NEW row, row = [name |-> Column(q.name, lists[id].name),
                         symbols |-> Column(q.symbols, lists[id].symbols),
                         isDefault |-> Column(q.isDefault, q.found # {} /\ lists[id].isDefault)]
  PROVE  /\ RowSound(row)
         /\ row.isDefault => TRUE \in q.isDefault \/ id \in DefaultIds
<1>1. PICK flag : flag = (q.found # {} /\ lists[id].isDefault)
  OBVIOUS
<1>2. /\ "symbols" \in DOMAIN row /\ "isDefault" \in DOMAIN row
      /\ row.symbols = Column(q.symbols, lists[id].symbols) /\ row.isDefault = Column(q.isDefault, flag)
  BY <1>1
<1>3. flag \in BOOLEAN /\ (flag => id \in DefaultIds)
  BY <1>1 DEF DefaultIds
<1>4. \A written : \A stored : Column(written, stored) = stored \/ Column(written, stored) \in written
  BY DEF Column
<1>5. Filled(row.symbols)
  <2>1. CASE q.symbols = {}
    <3>1. id \in ListIds
      BY <2>1 DEF Asked
    <3> QED BY <1>2, <2>1, <3>1 DEF ListsInv, RowSound, Column
  <2>2. CASE q.symbols # {}
    BY <1>2, <2>2 DEF Asked, Column
  <2> QED BY <2>1, <2>2
<1>6. row.isDefault = flag \/ row.isDefault \in q.isDefault
  BY <1>2, <1>4
<1>7. row.isDefault \in BOOLEAN
  BY <1>3, <1>6 DEF Asked
<1>8. row.isDefault => TRUE \in q.isDefault \/ id \in DefaultIds
  BY <1>3, <1>6, <1>7
<1> QED BY <1>2, <1>5, <1>7, <1>8 DEF RowSound

LEMMA ListWritten ==
  ASSUME ListsInv, NEW r \in Requests, WriteList(r)
  PROVE  ListsInv'
<1>1. PICK q : q = request[r]
  OBVIOUS
<1>2. PICK id : id = IF q.found = {} THEN NewId ELSE CHOOSE i \in q.found : TRUE
  OBVIOUS
<1>3. PICK row : row = [name |-> Column(q.name, lists[id].name),
                        symbols |-> Column(q.symbols, lists[id].symbols),
                        isDefault |-> Column(q.isDefault, q.found # {} /\ lists[id].isDefault)]
  OBVIOUS
<1>4. /\ q # Resting /\ request' = [request EXCEPT ![r] = Resting]
      /\ lists' = IF ~ (q.found \subseteq ListIds) THEN lists ELSE Put(Others(id, q), id, row)
      /\ beside' = IF ~ (q.found \subseteq ListIds) THEN beside ELSE IF q.takes THEN {}
                   ELSE IF q.doing = "seed" /\ q.saw = {} THEN beside \union Surplus({id}) ELSE beside
  BY <1>1, <1>2, <1>3 DEF WriteList
<1>5. Asked(q)
  BY <1>1, <1>4 DEF ListsInv
<1>6. /\ request' = [s \in Requests |-> request'[s]]
      /\ \A s \in Requests : request'[s] = IF s = r THEN Resting ELSE request[s]
  BY <1>4 DEF ListsInv
<1>7. \A s \in Requests : request'[s] # Resting' => Asked(request'[s])
  BY <1>6 DEF ListsInv, Resting
<1>8. CASE ~ (q.found \subseteq ListIds)
  <2>1. UNCHANGED <<lists, beside>> /\ ListIds' = ListIds /\ DefaultIds' = DefaultIds
    BY <1>4, <1>8 DEF ListIds, DefaultIds
  <2> QED BY <1>6, <1>7, <2>1 DEF ListsInv
<1>9. CASE q.found \subseteq ListIds
  <2>1. PICK others : others = Others(id, q)
    OBVIOUS
  <2>2. /\ DOMAIN others = ListIds \ {id}
        /\ \A i \in ListIds \ {id} :
             RowSound(others[i]) /\ (others[i].isDefault => i \in DefaultIds /\ ~ q.takes)
    <3>1. DOMAIN others = ListIds \ {id}
      BY <2>1 DEF Others
    <3>2. ASSUME NEW i \in ListIds \ {id}
          PROVE  RowSound(others[i]) /\ (others[i].isDefault => i \in DefaultIds /\ ~ q.takes)
      <4>1. others[i] = [lists[i] EXCEPT !.isDefault = @ /\ ~ q.takes] /\ RowSound(lists[i])
        BY <2>1, <3>2 DEF Others, ListsInv
      <4>2. /\ DOMAIN others[i] = DOMAIN lists[i] /\ others[i].symbols = lists[i].symbols
            /\ others[i].isDefault = (lists[i].isDefault /\ ~ q.takes)
        BY <4>1 DEF RowSound
      <4> QED BY <3>2, <4>1, <4>2 DEF RowSound, DefaultIds
    <3> QED BY <3>1, <3>2
  <2>3. lists' = [x \in (ListIds \ {id}) \cup {id} |-> IF x = id THEN row ELSE others[x]]
    BY <1>4, <1>9, <2>1, <2>2 DEF Put
  <2>4. q.found # {} => id \in ListIds
    BY <1>2, <1>9
  <2>5. RowSound(row) /\ (row.isDefault => TRUE \in q.isDefault \/ id \in DefaultIds)
    BY <1>3, <1>5, <2>4, RowWritten
  <2>6. /\ lists' = [x \in ListIds' |-> lists'[x]] /\ ListIds' = ListIds \cup {id}
        /\ lists'[id] = row /\ \A i \in ListIds \ {id} : lists'[i] = others[i]
    BY <2>3 DEF ListIds
  <2>7. \A i \in ListIds' : RowSound(lists'[i])
    BY <2>2, <2>5, <2>6
  <2>8. \A k \in DefaultIds' : k = id \/ (k \in DefaultIds /\ ~ q.takes)
    BY <2>2, <2>6 DEF DefaultIds
  <2>9. id \in DefaultIds' => TRUE \in q.isDefault \/ id \in DefaultIds
    BY <2>5, <2>6 DEF DefaultIds
  <2>10. ASSUME NEW i \in DefaultIds' \ beside', NEW j \in DefaultIds' \ beside' PROVE i = j
    <3>1. CASE q.takes
      BY <2>8, <2>10, <3>1
    <3>2. CASE ~ q.takes /\ q.doing = "seed" /\ q.saw = {}
      <4>1. beside' = beside \cup {k \in {id} : DefaultIds # {} \/ k # (CHOOSE n \in {id} : TRUE)}
        BY <1>4, <1>9, <3>2 DEF Surplus
      <4>2. CASE DefaultIds = {}
        BY <2>8, <2>10, <4>2
      <4>3. CASE DefaultIds # {}
        BY <2>8, <2>10, <4>1, <4>3 DEF ListsInv
      <4> QED BY <4>2, <4>3
    <3>3. CASE ~ q.takes /\ ~ (q.doing = "seed" /\ q.saw = {})
      <4>1. beside' = beside /\ TRUE \notin q.isDefault
        BY <1>4, <1>5, <1>9, <3>3 DEF Asked
      <4> QED BY <2>8, <2>9, <2>10, <4>1 DEF ListsInv
    <3> QED BY <3>1, <3>2, <3>3
  <2> QED BY <1>6, <1>7, <2>6, <2>7, <2>10 DEF ListsInv
<1> QED BY <1>8, <1>9

LEMMA ListsInherited ==
  ASSUME ListsInv, NEW d \in Duplicates, Inherit(d)
  PROVE  ListsInv'
<1>1. PICK new : new = {id \in DOMAIN d.lists : d.lists[id].isDefault}
  OBVIOUS
<1>2. /\ DOMAIN d.lists \cap ListIds = {} /\ UNCHANGED request
      /\ lists' = [x \in ListIds \cup DOMAIN d.lists |-> IF x \in ListIds THEN lists[x] ELSE d.lists[x]]
      /\ beside' = beside \cup {i \in new : DefaultIds # {} \/ i # (CHOOSE id \in new : TRUE)}
  BY <1>1 DEF Inherit, Both, ListIds, Surplus
<1>3. \A id \in DOMAIN d.lists : RowSound(d.lists[id])
  BY DuplicatesAssumption DEF RowSound, Filled, Syms
<1>4. /\ ListIds' = ListIds \cup DOMAIN d.lists /\ lists' = [x \in ListIds' |-> lists'[x]]
      /\ \A id \in ListIds' : lists'[id] = IF id \in ListIds THEN lists[id] ELSE d.lists[id]
  BY <1>2 DEF ListIds
<1>5. \A id \in ListIds' : RowSound(lists'[id])
  BY <1>3, <1>4 DEF ListsInv
<1>6. DefaultIds' = DefaultIds \cup new
  BY <1>1, <1>2, <1>4 DEF DefaultIds
<1>7. \A i, j \in DefaultIds' \ beside' : i = j
  BY <1>2, <1>6 DEF ListsInv
<1> QED BY <1>2, <1>4, <1>5, <1>7 DEF ListsInv, Resting

LEMMA ListStep == ListsInv /\ [ListRequest \/ SymbolRequest]_listVars => ListsInv'
<1> SUFFICES ASSUME ListsInv, [ListRequest \/ SymbolRequest]_listVars PROVE ListsInv'
  OBVIOUS
<1>1. CASE UNCHANGED <<lists, request, beside>>
  <2>1. ListIds' = ListIds /\ DefaultIds' = DefaultIds
    BY <1>1 DEF ListIds, DefaultIds
  <2> QED BY <1>1, <2>1 DEF ListsInv, Resting
<1>2. ASSUME NEW r \in Requests, WriteList(r) PROVE ListsInv'
  BY <1>2, ListWritten
<1>3. ASSUME NEW r \in Requests, AskStarter(r) PROVE ListsInv'
  <2>1. \A s \in {Alphabet} : Filled(Normalized(s))
    BY FilledInputs
  <2>2. ListIds = {} /\ Request(r, Asking("seed", {}, {Starter}, {Alphabet}, {TRUE}))
    BY <1>3 DEF AskStarter
  <2>3. {TRUE} \in AtMostOneOf(BOOLEAN)
    BY DEF AtMostOneOf
  <2>4. Asked(Asking("seed", {}, {Starter}, {Alphabet}, {TRUE}))
    BY <2>1, <2>2, <2>3, AskingIsSound
  <2> QED BY <2>2, <2>4, ListAsked
<1>4. ASSUME NEW r \in Requests, NEW symbols \in AtMostOneOf(SymbolLists),
             NEW default \in AtMostOneOf(BOOLEAN), NEW name, NEW s \in symbols,
             AskUpsert(r, name, s, default)
      PROVE  ListsInv'
  <2>1. PICK same : Request(r, Asking("upsert", same, {name}, {s}, default))
    BY <1>4 DEF AskUpsert
  <2>2. \A t \in {s} : Filled(Normalized(t))
    BY FilledInputs DEF AtMostOneOf
  <2>3. Asked(Asking("upsert", same, {name}, {s}, default))
    BY <2>2, AskingIsSound
  <2> QED BY <2>1, <2>3, ListAsked
<1>5. ASSUME NEW r \in Requests, NEW symbols \in AtMostOneOf(SymbolLists),
             NEW default \in AtMostOneOf(BOOLEAN), NEW name, NEW id,
             AskUpdate(r, id, name, symbols, default)
      PROVE  ListsInv'
  <2>1. \A t \in symbols : Filled(Normalized(t))
    BY FilledInputs DEF AtMostOneOf
  <2>2. Asked(Asking("update", {id}, name, symbols, default))
    BY <2>1, AskingIsSound
  <2> QED BY <1>5, <2>2, ListAsked DEF AskUpdate
<1>6. ASSUME NEW id \in ListIds, DeleteList(id) PROVE ListsInv'
  <2>1. lists' = [x \in ListIds \ {id} |-> lists[x]] /\ beside' = beside \ {id} /\ UNCHANGED request
    BY <1>6 DEF DeleteList, Drop, ListIds
  <2>2. ListIds' = ListIds \ {id} /\ DefaultIds' = DefaultIds \ {id}
    BY <2>1 DEF ListIds, DefaultIds
  <2> QED BY <2>1, <2>2 DEF ListsInv, Resting
<1>7. ASSUME NEW d \in Duplicates, Inherit(d) PROVE ListsInv'
  BY <1>7, ListsInherited
<1>8. CASE SymbolRequest
  BY <1>1, <1>8 DEF SymbolRequest, SetMember, RemoveMember, SetSymbol
<1>9. CASE ListRequest
  BY <1>2, <1>3, <1>4, <1>5, <1>6, <1>7, <1>9 DEF ListRequest
<1> QED BY <1>1, <1>8, <1>9 DEF listVars

\* However requests overlap, at most one list is the default one, but for those that
\* a merge, or a seeding that counted before the other came, put beside it since a
\* request last set the default (WatchlistRepository, UserRepository), for any
\* requests, names, symbols and duplicates.
THEOREM OneDefaultList == ListSpec => []AtMostOneDefault
<1>1. ListsInv => AtMostOneDefault
  <2> DEFINE alone == DefaultIds \ beside
  <2> SUFFICES ASSUME ListsInv PROVE Cardinality(alone) <= 1
    BY DEF AtMostOneDefault
  <2>1. CASE alone = {}
    BY <2>1, FS_EmptySet
  <2>2. CASE alone # {}
    <3>1. PICK i \in alone : alone = {i}
      BY <2>2 DEF ListsInv
    <3>2. Cardinality({i}) = 1
      BY FS_Singleton
    <3> QED BY <3>1, <3>2
  <2> QED BY <2>1, <2>2
<1> QED BY <1>1, ListStart, ListStep, PTL DEF ListSpec

\* Every list has symbols.
SymbolsThere == \A id \in ListIds : "symbols" \in DOMAIN lists[id] /\ Filled(lists[id].symbols)

LEMMA SymbolsStay == ListsInv => SymbolsThere
BY DEF ListsInv, RowSound, SymbolsThere

LEMMA OfListType ==
  ASSUME SymbolsThere, NEW id, NEW all
  PROVE  OfList(id, all) \in Seq(Syms)
<1>1. \A S : Within(Alphabet, S) \in Seq(Syms)
  BY FilledInputs, WithinType DEF Filled
<1>2. \A f : Actives(f, all) \in Seq(Syms)
  BY <1>1 DEF Actives
<1>3. <<>> \in Seq(Syms)
  OBVIOUS
<1>4. id \in ListIds => lists[id].symbols \in Seq(Syms)
  BY DEF SymbolsThere, Filled
<1> QED BY <1>2, <1>3, <1>4 DEF OfList

LEMMA OfListsType ==
  ASSUME SymbolsThere, NEW ids \in Seq(Int), NEW all
  PROVE  OfLists(ids, all) \in Seq(Syms)
<1>1. \A i \in Int : OfList(i, all) \in Seq(Syms)
  BY OfListType
<1>2. PICK h : JoinTrace(h, ids, Syms, all) /\ OfLists(ids, all) = h[Len(ids)]
  <2> HIDE DEF Syms
  <2> QED BY <1>1, OfListsTrace
<1>3. Len(ids) \in 0..Len(ids)
  OBVIOUS
<1> QED BY <1>2, <1>3 DEF JoinTrace

\* Nothing is excluded: what is resolved are all symbols, each once, whether the
\* manual ones were normalized before or not.
LEMMA Resolved ==
  ASSUME NEW A, NEW m \in Seq(A), NEW l \in Seq(A), NEW a \in Seq(A)
  PROVE  /\ Resolve(<<>>, m, l, a, {}) = Normalized(m \o (l \o a))
         /\ Resolve(<<>>, m, l, a, {}) \in Seq(A)
         /\ Resolve(<<>>, m, l, a, {}) = <<>> => m = <<>>
         /\ Resolve(<<>>, Normalized(m), l, a, {}) = Resolve(<<>>, m, l, a, {})
<1>1. ASSUME NEW c \in Seq(A)
      PROVE  Resolve(<<>>, c, l, a, {}) = Normalized(c \o (l \o a))
  <2> DEFINE all == Normalized(<<>> \o c \o l \o a)
  <2>1. <<>> \o c \o l \o a = c \o (l \o a) /\ c \o (l \o a) \in Seq(A)
    OBVIOUS
  <2>2. all \in Seq(A)
    BY <2>1, NormalizedFacts
  <2>3. \A i \in DOMAIN all : all[i] \in ToSet(all) \ {}
    BY DEF ToSet
  <2> HIDE DEF all
  <2>4. Within(all, ToSet(all) \ {}) = all
    BY <2>2, <2>3, WithinAll
  <2>5. Resolve(<<>>, c, l, a, {}) = Within(all, ToSet(all) \ {})
    BY DEF Resolve, all
  <2> QED BY <2>1, <2>4, <2>5 DEF all
<1>2. l \o a \in Seq(A) /\ m \o (l \o a) \in Seq(A)
  OBVIOUS
<1>3. Normalized(m) \in Seq(A)
  BY NormalizedFacts
<1>4. Normalized(Normalized(m) \o (l \o a)) = Normalized(m \o (l \o a))
  BY <1>2, NormalizedTwice
<1>5. Normalized(m \o (l \o a)) = <<>> => m \o (l \o a) = <<>>
  BY <1>2, NormalizedFacts
<1>6. m \o (l \o a) = <<>> => m = <<>>
  <2>1. Len(m \o (l \o a)) = Len(m) + Len(l \o a) /\ Len(m) \in Nat /\ Len(l \o a) \in Nat
    BY <1>2
  <2>2. Len(m) = 0 => m = <<>>
    OBVIOUS
  <2>3. m \o (l \o a) = <<>> => Len(m \o (l \o a)) = 0
    OBVIOUS
  <2> QED BY <2>1, <2>2, <2>3
<1> QED BY <1>1, <1>2, <1>3, <1>4, <1>5, <1>6, NormalizedFacts

LEMMA IdListsType == \A ids \in IdLists : ids \in Seq(Int)
<1>1. MaxLists \in Nat
  BY WatchlistsAssumption
<1>2. \A i \in 1..MaxLists : <<i>> \in Seq(Int)
  BY <1>1
<1>3. \A i \in 1..(MaxLists - 1) : <<i + 1, i>> \in Seq(Int)
  BY <1>1
<1>4. ASSUME NEW ids \in IdLists PROVE ids \in Seq(Int)
  <2>1. CASE ids = <<>>
    BY <2>1
  <2>2. CASE \E i \in 1..MaxLists : ids = <<i>>
    BY <1>2, <2>2
  <2>3. CASE \E i \in 1..(MaxLists - 1) : ids = <<i + 1, i>>
    BY <1>3, <2>3
  <2> QED BY <2>1, <2>2, <2>3 DEF IdLists
<1> QED BY <1>4

\* A list that a profile names and that is there has symbols.
LEMMA StatusOfLists ==
  ASSUME SymbolsThere, NEW ids \in Seq(Int)
  PROVE  /\ ~ PreviewRefused("watchlist", ids) => SourceStatus("watchlist", ids) = "ok"
         /\ (\A id \in ToSet(ids) : id \notin ListIds) => SourceStatus("watchlist", ids) = "missing"
<1> DEFINE there == Within(ids, ListIds)
<1>1. ASSUME ~ PreviewRefused("watchlist", ids)
      PROVE  SourceStatus("watchlist", ids) = "ok"
  <2>1. ids # <<>> /\ \A id \in ToSet(ids) : id \in ListIds
    BY <1>1 DEF PreviewRefused
  <2>2. \A i \in DOMAIN ids : ids[i] \in ListIds
    BY <2>1 DEF ToSet
  <2>3. there = ids
    BY <2>2, WithinAll
  <2>4. 1 \in DOMAIN ids
    BY <2>1
  <2>5. lists[ids[1]].symbols # <<>>
    BY <2>2, <2>4 DEF SymbolsThere, Filled
  <2> HIDE DEF there
  <2> QED BY <2>1, <2>3, <2>4, <2>5 DEF SourceStatus, there
<1>2. ASSUME \A id \in ToSet(ids) : id \notin ListIds
      PROVE  SourceStatus("watchlist", ids) = "missing"
  <2>1. \A i \in DOMAIN ids : ids[i] \notin ListIds
    BY <1>2 DEF ToSet
  <2>2. there = <<>>
    BY <2>1, WithinNone
  <2> HIDE DEF there
  <2> QED BY <2>2 DEF SourceStatus, there
<1> QED BY <1>1, <1>2

LEMMA RunsAsShown ==
  ASSUME SymbolsThere
  PROVE  PreviewIsWhatRuns
<1> SUFFICES ASSUME NEW source \in Sources, NEW manual \in SymbolLists, NEW ids \in IdLists,
                    NEW depth \in 1..Len(Alphabet)
    PROVE LET run   == RunUniverse(source, Normalized(manual), ids, depth)
              shown == Preview(source, <<>>, manual, ids, FALSE, FALSE, {})
          IN IF PreviewRefused(source, ids)
             THEN source = "watchlist" /\ (\A id \in ToSet(ids) : id \notin ListIds) => run = <<>>
             ELSE run = SubSeq(shown, 1, IF Len(shown) < depth THEN Len(shown) ELSE depth)
  BY DEF PreviewIsWhatRuns
<1> DEFINE run    == RunUniverse(source, Normalized(manual), ids, depth)
           shown  == Preview(source, <<>>, manual, ids, FALSE, FALSE, {})
           named  == IF source = "manual" THEN <<>> ELSE ids
           typed  == IF source = "watchlist" THEN <<>> ELSE manual
           typedN == IF source = "watchlist" THEN <<>> ELSE Normalized(manual)
           listed == OfLists(named, FALSE)
           active == IF source = "all_active" THEN Actives(universe, FALSE) ELSE <<>>
           found  == Resolve(<<>>, typedN, listed, active, {})
           symbols == IF found # <<>> THEN found
                      ELSE IF source \in {"watchlist", "watchlist_plus_manual"} THEN <<>>
                      ELSE Normalized(manual)
           missing == source = "watchlist" /\ SourceStatus(source, ids) # "ok"
<1>1. ids \in Seq(Int) /\ named \in Seq(Int)
  BY IdListsType
<1>2. Filled(manual) /\ Filled(Normalized(manual))
  BY FilledInputs
<1>3. listed \in Seq(Syms)
  BY <1>1, OfListsType
<1>4. active \in Seq(Syms)
  <2>1. Within(Alphabet, {s \in DOMAIN universe : FALSE \/ universe[s]}) \in Seq(Syms)
    BY FilledInputs, WithinType DEF Filled
  <2>2. <<>> \in Seq(Syms)
    OBVIOUS
  <2> QED BY <2>1, <2>2 DEF Actives
<1>5. typed \in Seq(Syms) /\ typedN \in Seq(Syms)
  <2>1. <<>> \in Seq(Syms)
    OBVIOUS
  <2> QED BY <1>2, <2>1 DEF Filled
<1>6. shown = Resolve(<<>>, typed, listed, active, {})
  BY DEF Preview, ResolveSymbols, Sources
<1>7. run = IF missing THEN <<>>
            ELSE SubSeq(symbols, 1, IF Len(symbols) < depth THEN Len(symbols) ELSE depth)
  BY DEF RunUniverse, ResolveSymbols
<1> HIDE DEF listed, active, shown, run
<1>8. found = shown
  <2> DEFINE S == Syms
  <2> HIDE DEF Syms
  <2>1. CASE source = "watchlist"
    BY <1>6, <2>1
  <2>2. CASE source # "watchlist"
    BY <1>3, <1>4, <1>5, <1>6, <2>2, Resolved
  <2> QED BY <2>1, <2>2
<1>9. symbols = shown
  <2>1. CASE found # <<>>
    BY <1>8, <2>1
  <2>2. CASE source \in {"watchlist", "watchlist_plus_manual"}
    BY <1>8, <2>2
  <2>3. CASE found = <<>> /\ source \notin {"watchlist", "watchlist_plus_manual"}
    <3>1. typedN = <<>>
      <4> HIDE DEF Syms, typedN
      <4> QED BY <1>3, <1>4, <1>5, <2>3, Resolved
    <3>2. Normalized(manual) # <<>>
      BY <1>2 DEF Filled
    <3> QED BY <2>3, <3>1, <3>2
  <2> QED BY <2>1, <2>2, <2>3
<1>10. ~ PreviewRefused(source, ids) => ~ missing
  BY <1>1, StatusOfLists
<1>11. source = "watchlist" /\ (\A id \in ToSet(ids) : id \notin ListIds) => missing
  BY <1>1, StatusOfLists
<1>12. CASE PreviewRefused(source, ids)
  <2>1. source = "watchlist" /\ (\A id \in ToSet(ids) : id \notin ListIds) => run = <<>>
    <3> HIDE DEF missing, symbols
    <3> QED BY <1>7, <1>11
  <2> QED BY <1>12, <2>1 DEF run
<1>13. CASE ~ PreviewRefused(source, ids)
  <2>1. run = SubSeq(shown, 1, IF Len(shown) < depth THEN Len(shown) ELSE depth)
    <3> HIDE DEF missing, symbols
    <3> QED BY <1>7, <1>9, <1>10, <1>13
  <2> QED BY <1>13, <2>1 DEF run, shown
<1> QED BY <1>12, <1>13

\* What the preview shows for a source, a run of it scans, in every state that
\* requests and changes of members and symbols lead to.
THEOREM ListsShowWhatRuns == ListSpec => []PreviewIsWhatRuns
<1>1. ListsInv => PreviewIsWhatRuns
  BY SymbolsStay, RunsAsShown
<1> QED BY <1>1, ListStart, ListStep, PTL DEF ListSpec

\* At most one list is the default one but for those that a merge or an overlapping
\* seeding put beside it, and a run scans what the preview of its source shows
\* (WatchlistRepository, preview_symbol_universe, resolve_universe), for any
\* requests, names, symbols and duplicates.
THEOREM ListsStaySound == ListSpec => []ListsAreSound
<1>1. AtMostOneDefault /\ PreviewIsWhatRuns => ListsAreSound
  BY DEF ListsAreSound
<1> QED BY <1>1, OneDefaultList, ListsShowWhatRuns, PTL

(***************************************************************************)
(* The folder of Thinkorswim fixtures                                      *)
(***************************************************************************)

\* A report is what a validation of the folder says, until the folder is edited.
FolderInv ==
  /\ manifest \in Seq({manifest[i] : i \in DOMAIN manifest})
  /\ report.made /\ ~edited => report = ValidationReport

LEMMA FolderStart == FolderInit => FolderInv
<1> SUFFICES ASSUME FolderInit PROVE FolderInv
  OBVIOUS
<1>1. manifest = <<>> /\ report.made = FALSE
  BY DEF FolderInit, NoManifest, NoReport
<1> QED BY <1>1 DEF FolderInv

LEMMA FolderStep == FolderInv /\ [FolderNext]_folderVars => FolderInv'
<1> SUFFICES ASSUME FolderInv, [FolderNext]_folderVars PROVE FolderInv'
  OBVIOUS
<1>1. ASSUME UNCHANGED <<manifest, present>> PROVE ValidationReport' = ValidationReport
  BY <1>1 DEF ValidationReport, ManifestValid, Result, Computation, StudyDisagrees
<1>2. CASE UNCHANGED folderVars
  BY <1>1, <1>2 DEF FolderInv, folderVars
<1>3. ASSUME NEW m \in Manifests, SaveManifest(m) PROVE FolderInv'
  BY <1>3, ParityAssumption DEF FolderInv, SaveManifest
<1>4. ASSUME NEW f \in Files, DropFile(f) \/ RemoveFile(f) PROVE FolderInv'
  BY <1>4 DEF FolderInv, DropFile, RemoveFile
<1>5. CASE Validate
  BY <1>1, <1>5 DEF FolderInv, Validate
<1> QED BY <1>2, <1>3, <1>4, <1>5 DEF FolderNext

\* A count of all of 1..n that reaches n leaves none out.
LEMMA CountOfAll ==
  ASSUME NEW n \in Nat, NEW S \in SUBSET (1..n), ~(Cardinality(S) < n)
  PROVE  S = 1..n /\ Cardinality(S) = n
<1>1. IsFiniteSet(1..n) /\ Cardinality(1..n) = n
  BY FS_Interval
<1>2. IsFiniteSet(S) /\ Cardinality(S) \in Nat /\ Cardinality(S) <= n
  BY <1>1, FS_Subset, FS_CardinalityType
<1>3. Cardinality(S) = n
  BY <1>1, <1>2
<1>4. S = 1..n
  BY <1>1, <1>3, FS_Subset
<1> QED BY <1>3, <1>4

LEMMA PassedMeansAll ==
  ASSUME FolderInv, report.made, ~edited, SettingsCard.status = "passed"
  PROVE  /\ ManifestValid(manifest) /\ report = ValidationReport
         /\ report.passed = Len(manifest)
         /\ report.results = [i \in DOMAIN manifest |-> Result(manifest[i])]
         /\ \A i \in DOMAIN manifest : Result(manifest[i]).status \in Passing
<1>1. ManifestValid(manifest) /\ report.overall = "passed" /\ report = ValidationReport
  BY DEF SettingsCard, WorkflowStatus, FolderInv
<1> DEFINE results == [i \in DOMAIN manifest |-> Result(manifest[i])]
           passed == Tally(results, Passing, "all")
           good == {i \in DOMAIN results : results[i].status \in Passing}
<1>2. /\ report.results = results /\ report.passed = passed
      /\ report.overall = Overall([valid |-> TRUE, total |-> Len(manifest), passed |-> passed,
                                   failed |-> Tally(results, Failing, "all")])
  BY <1>1 DEF ValidationReport
<1>3. ~(passed < Len(manifest))
  BY <1>1, <1>2 DEF Overall
<1>4. passed = Cardinality(good) /\ Len(manifest) \in Nat /\ good \subseteq 1..Len(manifest)
      /\ DOMAIN manifest = 1..Len(manifest)
  BY DEF Tally, FolderInv
<1>5. good = DOMAIN manifest /\ passed = Len(manifest)
  <2> HIDE DEF good, passed
  <2> QED BY <1>3, <1>4, CountOfAll
<1> QED BY <1>1, <1>2, <1>5

LEMMA AttestedCompares ==
  ASSUME NEW e, ModeOf(e) = "visual_attestation", Result(e).status \in Passing
  PROVE  /\ CommonFields(e) \cup CommonLabels(e) # {}
         /\ "oscillator_mismatch" \notin Result(e).class
<1>1. Attestation(e) \in Passing /\ Result(e).class = Classification(e)
  BY DEF Result
<1>2. (CommonFields(e) # {} \/ CommonLabels(e) # {}) /\ OffFields(e) = {}
  BY <1>1 DEF Attestation, Passing
<1>3. "oscillator_mismatch" \notin Classification(e)
  BY <1>2 DEF Classification
<1> QED BY <1>1, <1>2, <1>3

\* What the settings card calls passed has compared every entry, and no
\* reading was written beside a mode that ignores it (the validator and the
\* card of Thinkorswim fixtures), for any manifests, files and computed values.
THEOREM ParityStaysEarned == FolderSpec => []ParityIsEarned
<1>1. FolderInv => ParityIsEarned
  <2> SUFFICES ASSUME FolderInv, report.made, ~edited, SettingsCard.status = "passed"
               PROVE  CardIsEarned /\ NothingIsDropped
    BY DEF ParityIsEarned, CardIsEarned, NothingIsDropped
  <2> DEFINE results == [i \in DOMAIN manifest |-> Result(manifest[i])]
  <2>1. /\ ManifestValid(manifest) /\ report = ValidationReport /\ report.passed = Len(manifest)
        /\ report.results = results
        /\ \A i \in DOMAIN manifest : Result(manifest[i]).status \in Passing
    BY PassedMeansAll
  <2>2. report.counts = ModeCounts(results)
    BY <2>1 DEF ValidationReport
  <2>3. \A i \in DOMAIN results :
          results[i].status \in Passing /\ results[i].mode = ModeOf(manifest[i])
    BY <2>1 DEF Result
  <2>4. ASSUME NEW mode \in Modes
        PROVE  /\ report.counts[mode].passed = Declared(mode)
               /\ report.counts[mode].total = Declared(mode)
               /\ report.counts[mode].failed = 0 /\ report.counts[mode].partial = 0
    <3> DEFINE own == {i \in DOMAIN manifest : ModeOf(manifest[i]) = mode}
    <3>1. DOMAIN results = DOMAIN manifest /\ mode # "all"
      BY DEF Modes
    <3> DEFINE asked == {i \in DOMAIN results : results[i].mode = mode}
    <3>2. /\ report.counts[mode].total = Cardinality(asked)
          /\ report.counts[mode].passed = Tally(results, Passing, mode)
          /\ report.counts[mode].failed = Tally(results, Failing, mode)
          /\ report.counts[mode].partial = Tally(results, {"visual_partial"}, mode)
      BY <2>2 DEF ModeCounts
    <3>3. /\ asked = own
          /\ {i \in DOMAIN results : /\ results[i].status \in Passing
                                     /\ (mode = "all" \/ results[i].mode = mode)} = own
      BY <2>3, <3>1
    <3>4. /\ {i \in DOMAIN results : /\ results[i].status \in Failing
                                     /\ (mode = "all" \/ results[i].mode = mode)} = {}
          /\ {i \in DOMAIN results : /\ results[i].status \in {"visual_partial"}
                                     /\ (mode = "all" \/ results[i].mode = mode)} = {}
      BY <2>3 DEF Failing, Passing
    <3>5. Declared(mode) = Cardinality(own) /\ Cardinality({}) = 0
      BY <2>1, FS_EmptySet DEF Declared
    <3>6. /\ Tally(results, Passing, mode) = Cardinality(own)
          /\ Tally(results, Failing, mode) = 0 /\ Tally(results, {"visual_partial"}, mode) = 0
      <4> HIDE DEF own, results
      <4> QED BY <3>3, <3>4, <3>5 DEF Tally
    <3> HIDE DEF asked, own, results
    <3> QED BY <3>2, <3>3, <3>5, <3>6
  <2>5. SettingsCard.attestation \in {"none", "visual_attested"}
    <3>1. SettingsCard.attestation = AttestationStatus(report.counts["visual_attestation"])
      BY DEF SettingsCard, Counts
    <3> QED BY <2>4, <3>1 DEF AttestationStatus, Modes
  <2>6. CardIsEarned
    BY <2>1, <2>4, <2>5, AttestedCompares DEF CardIsEarned
  <2>7. NothingIsDropped
    BY <2>1 DEF NothingIsDropped, ManifestValid, EntryRefused
  <2> QED BY <2>6, <2>7
<1> QED BY <1>1, FolderStart, FolderStep, PTL DEF FolderSpec

(***************************************************************************)
(* The True Momentum scores                                                *)
(***************************************************************************)

\* The parts of the composite score, by the side of the oscillator.
LEMMA OscillatorSides ==
  ASSUME NEW tm \in Int, NEW avg \in Int
  PROVE  LET x == OscillatorTo(tm, avg)
         IN  /\ x = 0 \/ x = 15 * SignOf(tm - avg)
             /\ AbsOf(tm - avg) >= 14 => x = 15 * SignOf(tm - avg)
<1> QED BY DEF OscillatorTo

LEMMA BiasSides ==
  ASSUME NEW tm \in Int, NEW avg \in Int
  PROVE  BiasWithOverride(tm, avg) \in {0, 10 * SignOf(tm - avg), 20 * SignOf(tm - avg)}
<1> DEFINE way == SignOf(tm - avg)
<1>1. way \in {-1, 0, 1}
  BY DEF SignOf
<1>2. PositionBias(tm, avg) \in {0, 10 * way, 20 * way}
  BY DEF PositionBias, SignOf
<1>3. OverrideBias(tm, avg) \in {0, 10 * way}
  BY DEF OverrideBias
<1> QED BY <1>2, <1>3 DEF BiasWithOverride

LEMMA CrossingSides ==
  ASSUME NEW tm \in Int, NEW avg \in Int
  PROVE  MidCrossing(tm, avg) \in {0, 10 * SignOf(tm - avg)}
<1> QED BY DEF MidCrossing, SignOf, AbsOf

\* Whatever the oscillator and its average, the composite points have the sign
\* of the gap, stay within 45, and a gap of 1.4 scores
\* (build_true_momentum_score, the composite points).
THEOREM CompositeStaysOnSide ==
  \A tm, avg \in Int : CompositeSides(tm, avg)
<1> SUFFICES ASSUME NEW tm \in Int, NEW avg \in Int PROVE CompositeSides(tm, avg)
  OBVIOUS
<1> DEFINE way == SignOf(tm - avg)
           x == OscillatorTo(tm, avg)
           y == BiasWithOverride(tm, avg)
           z == MidCrossing(tm, avg)
<1>1. way \in {-1, 0, 1}
  BY DEF SignOf
<1>2. AbsOf(tm - avg) >= 14 => way # 0
  BY DEF SignOf, AbsOf
<1>3. /\ x = 0 \/ x = 15 * way
      /\ AbsOf(tm - avg) >= 14 => x = 15 * way
  BY OscillatorSides
<1>4. y \in {0, 10 * way, 20 * way}
  BY BiasSides
<1>5. z \in {0, 10 * way}
  BY CrossingSides
<1>6. XScore(tm, avg) = x + y + z
  BY DEF XScore
<1> HIDE DEF way, x, y, z
<1>7. AbsOf(XScore(tm, avg)) <= 45
  BY <1>1, <1>3, <1>4, <1>5, <1>6 DEF AbsOf
<1>8. XScore(tm, avg) # 0 => SignOf(XScore(tm, avg)) = way
  BY <1>1, <1>3, <1>4, <1>5, <1>6 DEF SignOf
<1>9. AbsOf(tm - avg) >= 14 => AbsOf(XScore(tm, avg)) >= 15
  BY <1>1, <1>2, <1>3, <1>4, <1>5, <1>6 DEF AbsOf
<1> QED BY <1>7, <1>8, <1>9 DEF CompositeSides, way

\* The marks of a bar agree, whatever the scores and the touches.
LEMMA MarksAgree ==
  ASSUME NEW old \in Int, NEW total \in Int, NEW before, NEW touches
  PROVE  MarksAreConsistent(old, total, before, touches)
<1> DEFINE new == NewPullbacks(before, total, touches)
           weak == WeakeningMoves(old, total)
<1>1. /\ "max_bull" \in new => total >= 95
      /\ "bull" \in new => total >= 75
      /\ "max_bear" \in new => total <= -95
      /\ "bear" \in new => total <= -75
      /\ new \subseteq {"max_bull", "bull", "max_bear", "bear"}
  BY DEF NewPullbacks, PullbackFlags
<1>2. /\ "max_bull" \in weak => total <= 65
      /\ "bull" \in weak => total <= 55
  BY DEF WeakeningMoves
<1>3. Classify(total) = "neutral" => total < 45 /\ total > -45
  BY DEF Classify
<1> HIDE DEF new, weak
<1>4. CandleMarkers(old, total, before, touches) =
        (IF new \cap {"max_bull", "bull"} # {} THEN {"bullish_pullback_context"} ELSE {})
          \cup (IF new \cap {"max_bear", "bear"} # {} THEN {"bearish_rally_context"} ELSE {})
          \cup (IF weak # {} THEN {"reversal_warning"} ELSE {})
          \cup ResolvingMoves(old, total)
  BY DEF CandleMarkers, new, weak
<1>5. ResolvingMoves(old, total) \subseteq {"neutral_to_bull", "neutral_to_bear"}
  BY DEF ResolvingMoves
<1> DEFINE marks == CandleMarkers(old, total, before, touches)
<1>6. /\ "bullish_pullback_context" \in marks <=> new \cap {"max_bull", "bull"} # {}
      /\ "bearish_rally_context" \in marks <=> new \cap {"max_bear", "bear"} # {}
      /\ "reversal_warning" \in marks <=> weak # {}
  BY <1>4, <1>5
<1> HIDE DEF marks
<1>7. new \cap {"max_bull", "bull"} # {} => total >= 75
  BY <1>1
<1>8. new \cap {"max_bear", "bear"} # {} => total <= -75
  BY <1>1
<1>9. ASSUME new # {} PROVE total >= 75 \/ total <= -75
  <2>1. PICK m \in new : TRUE
    BY <1>9
  <2>2. m \in {"max_bull", "bull", "max_bear", "bear"}
    BY <1>1
  <2> QED BY <1>1, <2>1, <2>2
<1>10. LET told == Explanation(old, total, before, touches)
       IN  told.reversal = (weak # {}) /\ told.pullback = (new # {})
           /\ told.noTrade = (Classify(total) = "neutral")
  BY DEF Explanation, new, weak
<1>11. ~({"bullish_pullback_context", "bearish_rally_context"} \subseteq marks)
  BY <1>6, <1>7, <1>8
<1>12. "max_bull" \in weak \/ "bull" \in weak => "bullish_pullback_context" \notin marks
  BY <1>2, <1>6, <1>7
<1>13. Classify(total) = "neutral" => new = {}
  BY <1>3, <1>9
<1> QED BY <1>6, <1>10, <1>11, <1>12, <1>13 DEF MarksAreConsistent, marks, weak

\* The parts of a bar, as the studies give them.
IsBar(b) ==
  /\ b.x \in -45..45 /\ b.hilo \in -20..20 /\ b.atr \in {-5, 5} /\ b.macd \in {-5, 0, 5}
  /\ b.has200 \in BOOLEAN

LEMMA AveragesCount ==
  ASSUME NEW a, NEW has200
  PROVE  BullMA(a, has200) \in 0..35 /\ BearMA(a, has200) \in -35..0
<1>1. \A count : CountScore(count, has200) \in 0..35
  BY DEF CountScore
<1> QED BY <1>1 DEF BullMA, BearMA

LEMMA TotalsWithinRange ==
  ASSUME NEW b, IsBar(b)
  PROVE  ScoreWithinRange(b)
<1> DEFINE bull == BullMA(b.a, b.has200)
           bear == BearMA(b.a, b.has200)
           p == IF Penalised(b) THEN 1 ELSE 0
<1>1. bull \in 0..35 /\ bear \in -35..0 /\ p \in {0, 1}
  BY AveragesCount
<1>2. /\ b.x \in -45..45 /\ b.hilo \in -20..20 /\ b.atr \in {-5, 5} /\ b.macd \in {-5, 0, 5}
  BY DEF IsBar
<1>3. BaseScore(b) = b.x + b.hilo + bull + bear + b.atr + b.macd
  BY DEF BaseScore
<1>4. BaseScore(b) \in Int /\ -110 <= BaseScore(b) /\ BaseScore(b) <= 110
  <2> HIDE DEF bull, bear
  <2>1. /\ b.x \in Int /\ -45 <= b.x /\ b.x <= 45 /\ b.hilo \in Int /\ -20 <= b.hilo /\ b.hilo <= 20
        /\ b.atr \in Int /\ -5 <= b.atr /\ b.atr <= 5 /\ b.macd \in Int /\ -5 <= b.macd /\ b.macd <= 5
    BY <1>2
  <2>2. bull \in Int /\ 0 <= bull /\ bull <= 35 /\ bear \in Int /\ -35 <= bear /\ bear <= 0
    BY <1>1
  <2> QED BY <1>3, <2>1, <2>2
<1>5. TotalScore(b) = BaseScore(b) - 5 * p /\ (p = 1 => BaseScore(b) >= -95)
  BY <1>4 DEF TotalScore, Penalised
<1>6. TrendScore6(b) = 15 * (bull + bear + b.atr) - 30 * p
  BY <1>1, <1>2 DEF TrendScore6
<1>7. MomoScore6(b) = 10 * (b.x + b.hilo + b.macd)
  BY DEF MomoScore6
<1>8. Classify(TotalScore(b)) = "max_bull" => TotalScore(b) >= 100
  BY DEF Classify
<1> HIDE DEF bull, bear, p
<1>9. AbsOf(TotalScore(b)) <= 110
  BY <1>1, <1>4, <1>5 DEF AbsOf
<1>10. TrendScore6(b) <= 600 /\ TrendScore6(b) >= -630
  BY <1>1, <1>2, <1>6
<1>11. AbsOf(MomoScore6(b)) <= 700
  BY <1>2, <1>7 DEF AbsOf
<1>12. ASSUME Classify(TotalScore(b)) = "max_bull" PROVE bull > -bear
  <2>1. BaseScore(b) >= 100
    BY <1>1, <1>4, <1>5, <1>8, <1>12
  <2>2. b.x + b.hilo + b.atr + b.macd <= 75
    BY <1>2
  <2>3. /\ b.x \in Int /\ b.hilo \in Int /\ b.atr \in Int /\ b.macd \in Int
        /\ bull \in Int /\ bear \in Int
    BY <1>1, <1>2
  <2> QED BY <1>3, <2>1, <2>2, <2>3
<1> QED BY <1>9, <1>10, <1>11, <1>12 DEF ScoreWithinRange, bull, bear

\* The total, trend and momentum of a bar stay within their ranges and what its
\* chart marks is consistent, whatever its comparisons and the scores before
\* (true_momentum_score.py, momentum_service.py).
THEOREM ChartsStayConsistent ==
  /\ \A b : IsBar(b) => ScoreWithinRange(b)
  /\ \A old, total \in Int : \A before, touches : MarksAreConsistent(old, total, before, touches)
BY TotalsWithinRange, MarksAgree
=============================================================================
