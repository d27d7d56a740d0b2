-------------------------- MODULE ScheduledPosting --------------------------
(***************************************************************************)
(* Schedules and the runs that post them                                   *)
(* (services/scheduled_transaction_service.py, domain/schedule.py,         *)
(* tasks/scheduler.py): the stepping of a schedule over the calendar, the  *)
(* nightly job and its catch-up at startup, a budget at a time, beside the *)
(* requests of people and crashes of the server.                           *)
(*                                                                         *)
(* A transaction reads a schedule once: the session keeps the row it has   *)
(* loaded, whatever is committed meanwhile. It writes the dates it worked  *)
(* out from that row, without looking again, behind the row's lock, so a   *)
(* transaction is a step that reads and a step that commits. Days are      *)
(* numbers; what a row of the register carries besides its date is         *)
(* Ledger's subject.                                                       *)
(***************************************************************************)
EXTENDS Integers, Sequences, FiniteSets, FiniteSetsExt

CONSTANTS Schedules,     \* the ids a schedule may get
          Budgets,
          Clients,       \* bound: places for the transactions of people under way
          Start,         \* the first days of the calendar's months, from day 0
          Nights,        \* the days whose midnight the model passes
          Ends,          \* end dates a person may set
          Shapes,        \* what a person may ask for: [budget, frequency, start, second, end]
          Scenarios,     \* [stored, today, steps]
          None

Frequencies == {"once", "daily", "weekly", "biweekly", "monthly", "twice_monthly", "yearly"}
Jobs == {"cron", "startup"}
Months == 1..(Len(Start) - 1)
Length(m) == Start[m + 1] - Start[m]
Days == 0..(Start[Len(Start)] - 1)
Asked == [budget : Budgets, frequency : Frequencies, start : Days,
          second : Int \cup {None}, end : Int \cup {None}]

\* A year of the calendar follows the last night.
ASSUME ScheduleAssumption ==
    /\ Start \in Seq(Nat) /\ Len(Start) > 12
    /\ Start[1] = 0 /\ \A m \in Months : Length(m) \in 28..31
    /\ Nights \subseteq Nat /\ Nights # {}
    /\ \A night \in Nights : night < Start[Len(Start) - 12]
    /\ None \notin Int \cup {"deleted", "completed"} /\ Clients \subseteq Nat
    /\ Ends \subseteq Int /\ Shapes \subseteq Asked

VARIABLES schedules,  \* id -> the stored row, or None
          posted,     \* id -> the register's rows of it: [day, by, nth of its day]
          skipped,    \* id -> the occurrences people passed over
          broken,     \* the schedules that file into an envelope that takes no row
          job,        \* job -> [state, day, left, due]
          request,    \* place -> None or the transaction begun there
          raced,      \* the schedules written from a row that had changed since
          up, today,
          steps       \* what people and failures may still do

vars == <<schedules, posted, skipped, broken, job, request, raced, up, today, steps>>

-----------------------------------------------------------------------------
(* The calendar and the stepping (domain/schedule.py). *)

\* Functions, so that their argument is worked out once.
MonthOf[day \in Nat] == CHOOSE m \in Months : Start[m] <= day /\ day < Start[m + 1]
DayOf[day \in Nat] == day - Start[MonthOf[day]] + 1
DayIn[m \in Months] == [day \in 1..31 |-> Start[m] + Min({day, Length(m)}) - 1]

\* Mutant: steps on from the clamped date, which drifts.
StepMonthsFromClamped(current, months, day) == DayIn[MonthOf[current] + months][DayOf[current]]
StepMonths(current, months, day) == DayIn[MonthOf[current] + months][day]
NextTwice(current, days) ==
    LET month == MonthOf[current]
    IN  Min({d \in {DayIn[m][n] : m \in {month, month + 1}, n \in days} : d > current})
Stepped(s, current) ==
    CASE s.frequency = "daily" -> current + 1
      [] s.frequency = "weekly" -> current + 7
      [] s.frequency = "biweekly" -> current + 14
      [] s.frequency = "monthly" -> StepMonths(current, 1, DayOf[s.start])
      [] s.frequency = "yearly" -> StepMonths(current, 12, DayOf[s.start])
      [] s.frequency = "twice_monthly" -> NextTwice(current, {DayOf[s.start], s.second})
Past(end, day) == end # None /\ day > end

\* stored_next_occurrence
NextOccurrence(s, current) ==
    IF s.frequency = "once" THEN None
    ELSE LET next == Stepped(s, current) IN IF Past(s.end, next) THEN None ELSE next

\* The stored date and the occurrences after it, up to the one past the
\* model's last night.
Horizon == Max(Nights)
Upcoming(s) ==
    LET from[d \in Nat \cup {None}] ==
          IF d = None THEN {} ELSE IF d > Horizon THEN {d} ELSE {d} \cup from[NextOccurrence(s, d)]
    IN  from[s.next]

\* Mutant: an end moved back behind the next date is not looked at.
ProjectedPastEnd(s, horizon) == {Max({d, today}) : d \in {e \in Upcoming(s) : e <= horizon}}
\* projected_occurrences
Projected(s, horizon) ==
    LET ahead == {d \in Upcoming(s) : d <= horizon /\ ~Past(s.end, d)}
    IN  {Max({d, today}) : d \in ahead}

\* validate_schedule
Valid(shape) ==
    /\ shape.frequency = "twice_monthly" =>
          shape.second \in 1..31 /\ shape.second # DayOf[shape.start]
    /\ shape.end # None => shape.end >= shape.start

Stored(shape) ==
    [budget |-> shape.budget, frequency |-> shape.frequency, start |-> shape.start,
     second |-> shape.second, end |-> shape.end, next |-> shape.start, last |-> None, gone |-> None]
Live(s) == schedules[s] # None /\ schedules[s].gone = None
\* What is stored of a schedule.
Kept == [budget : Budgets, frequency : Frequencies, start : Days,
         second : Int \cup {None}, end : Int \cup {None},
         next : Days, last : Days \cup {None}, gone : {None, "deleted", "completed"}]
\* A run starts from schedules that have just been set up.
ASSUME ScenariosAssumption ==
    /\ None \notin Kept
    /\ \A c \in Scenarios :
          /\ c.today \in Nights /\ c.stored \in [Schedules -> {None} \cup Kept]
          /\ \A s \in Schedules : c.stored[s] # None =>
                /\ Valid(c.stored[s]) /\ c.stored[s].next = c.stored[s].start
                /\ c.stored[s].last = None /\ c.stored[s].gone = None
Off == [state |-> "off", day |-> 0, left |-> {}, due |-> None]

Init ==
    \E c \in Scenarios :
        /\ schedules = c.stored /\ broken = {} /\ today = c.today /\ steps = c.steps
        /\ posted = [s \in Schedules |-> {}]
        /\ skipped = [s \in Schedules |-> {}]
        /\ job = [j \in Jobs |-> [Off EXCEPT !.state = IF j = "cron" THEN "queued" ELSE "off"]]
        /\ request = [place \in Clients |-> None]
        /\ raced = {} /\ up = TRUE

-----------------------------------------------------------------------------
(* Posting and advancing. *)

\* The dates a row is given once `days` have been entered or passed over,
\* and `next` is what follows them.
Advanced(s, next, last) ==
    [schedules[s] EXCEPT !.next = IF next # None THEN next ELSE @,
                         !.last = IF last # None THEN last ELSE @,
                         !.gone = IF next = None /\ @ = None THEN "completed" ELSE @]
Entered(s, days, by) ==
    posted[s] \cup {[day |-> d, by |-> by, nth |-> Cardinality({row \in posted[s] : row.day = d})] :
                      d \in days}

\* What is written from a row that is no longer what was read.
Stale(s, copy) == schedules[s] # copy

-----------------------------------------------------------------------------
(* The job: process_due_scheduled_transactions, a budget at a time. *)

Alive == up /\ UNCHANGED <<up, today, steps, broken>>
BeginRun(j) ==
    /\ Alive /\ job[j].state = "queued"
    /\ job' = [job EXCEPT ![j] = [state |-> "running", day |-> today, left |-> Budgets, due |-> None]]
    /\ UNCHANGED <<schedules, posted, skipped, request, raced>>

\* Mutant: only the latest night is caught up.
MissedLatest(copy, day) ==
    LET days == {d \in Upcoming(copy) : d <= day} IN {d \in days : d = Max(days) /\ ~Past(copy.end, d)}
\* process_due on one schedule: each missed occurrence on its own day. All
\* the run writes follows from the row it has loaded.
Missed(copy, day) ==
    IF Past(copy.end, copy.next) THEN {} ELSE {d \in Upcoming(copy) : d <= day}
Owed(copy, day, shut) ==
    LET days == Missed(copy, day)
    IN  [copy |-> copy, shut |-> shut, days |-> days,
         next |-> IF days = {} THEN None ELSE NextOccurrence(copy, Max(days)),
         last |-> IF days = {} THEN None ELSE Max(days)]

\* Mutant: what falls on the very day waits.
DueBefore(b, day) == {s \in Schedules : Live(s) /\ schedules[s].budget = b /\ schedules[s].next < day}
Due(b, day) == {s \in Schedules : Live(s) /\ schedules[s].budget = b /\ schedules[s].next <= day}
LoadDue(j, b) ==
    /\ Alive /\ job[j].state = "running" /\ job[j].due = None /\ b \in job[j].left
    /\ job' = [job EXCEPT ![j].left = @ \ {b},
                          ![j].due = [s \in Due(b, job[j].day) |->
                                        Owed(schedules[s], job[j].day, s \in broken)]]
    /\ UNCHANGED <<schedules, posted, skipped, request, raced>>

Finished(j) ==
    job' = [job EXCEPT ![j] = IF @.left = {} THEN Off ELSE [@ EXCEPT !.due = None]]

\* A row the register refuses (require_categorizable): the transaction it
\* would be in is rolled back. The envelope is the one of the row as loaded.
Refused(j) == \E s \in DOMAIN job[j].due :
                 job[j].due[s].shut /\ Live(s) /\ job[j].due[s].days # {}
CommitDue(j) ==
    LET due == job[j].due
        taken == {s \in DOMAIN due : Live(s)}
    IN  /\ Alive /\ due # None /\ ~Refused(j)
        /\ schedules' = [s \in Schedules |->
                            IF s \in taken THEN Advanced(s, due[s].next, due[s].last) ELSE schedules[s]]
        /\ posted' = [s \in Schedules |->
                        IF s \in taken THEN Entered(s, due[s].days, "run") ELSE posted[s]]
        /\ raced' = raced \cup {s \in taken : Stale(s, due[s].copy)}
        /\ Finished(j) /\ UNCHANGED <<skipped, request>>

\* The rollback expires the budgets the run has loaded: naming the one that
\* failed in the log raises, and the run ends with the budgets it has left.
FailDue(j) ==
    /\ Alive /\ job[j].due # None /\ Refused(j)
    /\ job' = [job EXCEPT ![j] = Off] /\ UNCHANGED <<schedules, posted, skipped, request, raced>>

-----------------------------------------------------------------------------
(* The people. *)

Ask == up /\ steps > 0 /\ steps' = steps - 1 /\ UNCHANGED <<up, today>>
\* A transaction takes the first free place; which one it has is nothing.
\* Bound: nobody works ahead of the model's last night.
Begin(c, s, op) ==
    /\ Ask /\ c = Min({d \in Clients : request[d] = None}) /\ Live(s) /\ schedules[s].next <= Horizon
    /\ request' = [request EXCEPT ![c] =
                     [op |-> op, schedule |-> s, copy |-> schedules[s], shut |-> s \in broken]]
    /\ UNCHANGED <<schedules, posted, skipped, broken, job, raced>>
BeginEnter(c, s) == Begin(c, s, "enter")
BeginSkip(c, s) == Begin(c, s, "skip")

Answer(c) ==
    /\ Alive /\ request[c] # None /\ request' = [request EXCEPT ![c] = None]
    /\ UNCHANGED job
\* Mutant: the row is entered and its schedule stays where it was.
MoveNothing(s, copy, last) == UNCHANGED <<schedules, raced>>
Move(s, copy, last) ==
    /\ schedules' = [schedules EXCEPT ![s] = Advanced(s, NextOccurrence(copy, copy.next), last)]
    /\ raced' = IF Stale(s, copy) THEN raced \cup {s} ELSE raced
CommitEnter(c) ==
    LET s == request[c].schedule
        copy == request[c].copy
    IN  /\ Answer(c) /\ request[c].op = "enter" /\ ~request[c].shut
        /\ posted' = [posted EXCEPT ![s] = Entered(s, {copy.next}, "person")]
        /\ Move(s, copy, copy.next) /\ UNCHANGED skipped
\* Mutant: a skipped occurrence is stamped as one that was posted.
CommitSkipStamped(c) ==
    LET s == request[c].schedule
        copy == request[c].copy
    IN  /\ Answer(c) /\ request[c].op = "skip"
        /\ skipped' = [skipped EXCEPT ![s] = @ \cup {copy.next}]
        /\ Move(s, copy, copy.next) /\ UNCHANGED posted
CommitSkip(c) ==
    LET s == request[c].schedule
        copy == request[c].copy
    IN  /\ Answer(c) /\ request[c].op = "skip"
        /\ skipped' = [skipped EXCEPT ![s] = @ \cup {copy.next}]
        /\ Move(s, copy, None) /\ UNCHANGED posted
RefuseEnter(c) ==
    /\ Answer(c) /\ request[c].op = "enter" /\ request[c].shut
    /\ UNCHANGED <<schedules, posted, skipped, raced>>

Writes(S) == Ask /\ schedules' = S /\ UNCHANGED <<posted, skipped, job, request, raced>>
\* Whether the envelope takes rows is not asked: only that it is the budget's.
Create(s) ==
    /\ schedules[s] = None
    /\ \E shape \in Shapes :
          Valid(shape) /\ Writes([schedules EXCEPT ![s] = Stored(shape)])
    /\ broken' \in {broken, broken \cup {s}}
EditEnd(s) ==
    /\ Live(s)
    /\ \E end \in Ends :
          /\ end >= schedules[s].start
          /\ Writes([schedules EXCEPT ![s].end = end])
    /\ UNCHANGED broken
Delete(s) ==
    /\ Live(s) /\ Writes([schedules EXCEPT ![s].gone = "deleted"]) /\ UNCHANGED broken
\* The schedule is filed to another envelope, which may be archived or a
\* card's, and away again. No envelope is archived under a live schedule:
\* archive_categories, archive_group and retire_group refuse it.
Refile(s) ==
    /\ Live(s) /\ Writes(schedules)
    /\ broken' = IF s \in broken THEN broken \ {s} ELSE broken \cup {s}

-----------------------------------------------------------------------------
(* The clock and the server. The job store is in memory. *)

Register == <<schedules, posted, skipped, broken, raced>>
\* A night the server is down goes by unnoticed. No run lasts into the next
\* night; past the last one midnights pass with nothing new due.
Midnight ==
    /\ job["cron"].state = "off"
    /\ today' = IF \E d \in Nights : d > today THEN Min({d \in Nights : d > today}) ELSE today
    /\ job' = IF up THEN [job EXCEPT !["cron"].state = "queued"] ELSE job
    /\ UNCHANGED <<Register, request, up, steps>>
Crash ==
    /\ up /\ steps > 0 /\ steps' = steps - 1 /\ up' = FALSE
    /\ job' = [j \in Jobs |-> Off] /\ request' = [c \in Clients |-> None]
    /\ UNCHANGED <<Register, today>>
StartUp ==
    /\ ~up /\ up' = TRUE
    /\ job' = [job EXCEPT !["startup"].state = "queued"]
    /\ UNCHANGED <<Register, request, today, steps>>

Run(j) == BeginRun(j) \/ (\E b \in Budgets : LoadDue(j, b)) \/ CommitDue(j) \/ FailDue(j)
Next ==
    \/ \E j \in Jobs : Run(j)
    \/ \E c \in Clients :
         \/ \E s \in Schedules : BeginEnter(c, s) \/ BeginSkip(c, s)
         \/ CommitEnter(c) \/ CommitSkip(c) \/ RefuseEnter(c)
    \/ \E s \in Schedules : Create(s) \/ EditEnd(s) \/ Delete(s) \/ Refile(s)
    \/ Midnight \/ Crash \/ StartUp

Spec == Init /\ [][Next]_vars
             /\ WF_vars(Midnight) /\ WF_vars(StartUp) /\ \A j \in Jobs : WF_vars(Run(j))

-----------------------------------------------------------------------------
Rows(s) == {row.day : row \in posted[s]}

TypeOK ==
    /\ \A s \in Schedules : schedules[s] # None =>
          /\ Valid(schedules[s]) /\ schedules[s].frequency \in Frequencies
          /\ schedules[s].gone \in {None, "deleted", "completed"}
          /\ schedules[s].last \in Rows(s) \cup {None}
    /\ \A j \in Jobs : job[j].state \in {"off", "queued", "running"} /\ (job[j].state # "off" => up)
    /\ \A c \in Clients : request[c] # None => up
    /\ raced \subseteq Schedules /\ broken \subseteq Schedules /\ today \in Nights

(* The days a schedule falls on, said of the calendar and not of the step   *)
(* before: the same weekday, or the same day of its months, the last one of *)
(* a month too short for it.                                                *)
Falls(s) ==
    LET first == MonthOf[s.start]
        every(days) == {s.start + days * k : k \in 0..(Max({Horizon - s.start, 0}) \div days + 4)}
        onDay(n, months) == {DayIn[m][n] : m \in {k \in Months : (k - first) % months = 0}}
        days == CASE s.frequency = "once" -> {s.start}
                  [] s.frequency = "daily" -> every(1)
                  [] s.frequency = "weekly" -> every(7)
                  [] s.frequency = "biweekly" -> every(14)
                  [] s.frequency = "monthly" -> onDay(DayOf[s.start], 1)
                  [] s.frequency = "yearly" -> onDay(DayOf[s.start], 12)
                  [] s.frequency = "twice_monthly" -> onDay(DayOf[s.start], 1) \cup onDay(s.second, 1)
    IN  {d \in days : d >= s.start}

(* A schedule never leaves its days, by whatever steps, edits and catch-ups *)
(* it got there: a bill on the 31st is on the 31st after February.          *)
OnItsDays ==
    \A s \in Schedules : schedules[s] # None =>
        Rows(s) \cup skipped[s] \cup {schedules[s].next} \subseteq Falls(schedules[s])

(* Every occurrence behind a schedule's next date was posted or passed over *)
(* by a person, across nights missed, crashes and two writers; a schedule   *)
(* that ended has none left.                                                *)
NoneMissed ==
    \A s \in Schedules : schedules[s] # None =>
        \A d \in Falls(schedules[s]) :
            \/ d \in Rows(s) \cup skipped[s]
            \/ d >= schedules[s].next /\ schedules[s].gone # "completed"
            \/ Past(schedules[s].end, d) /\ schedules[s].gone = "completed"
            \/ s \in raced /\ schedules[s].gone = "completed"

(* An occurrence is posted once, and not after it was passed over, unless a *)
(* writer worked from a row that had changed: nothing but the lost update   *)
(* of enter_now and the nightly run posts twice.                            *)
PostedOnce ==
    \A s \in Schedules \ raced :
        /\ \A row \in posted[s] : row.nth = 0
        /\ Rows(s) \cap skipped[s] = {}

(* What the cash projection books ahead is what the runs will post.         *)
ForecastPosts ==
    \A s \in Schedules : Live(s) =>
        LET row == schedules[s]
            ahead == {d \in Falls(row) : d >= row.next /\ d <= Horizon /\ ~Past(row.end, d)}
        IN  Projected(row, Horizon) = {Max({d, today}) : d \in ahead}

(* Schedules are brought up to date again and again, over crashes and       *)
(* nights missed, unless the register refuses one of them.                  *)
Settled(s) == ~Live(s) \/ schedules[s].next > today
Refusable(S) == \E t \in broken : Live(t) /\ schedules[t].budget \in S
DuePosts == \A s \in Schedules : []<>(Settled(s) \/ Refusable(Budgets))

(* A refused schedule costs no other budget its run: scheduler.py says so   *)
(* of the loop over budgets. It does: see FailDue.                          *)
BudgetsApart ==
    \A s \in Schedules : []<>(Settled(s) \/ Refusable({schedules[s].budget}))
=============================================================================
