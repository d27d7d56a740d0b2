---------------------- MODULE ScheduledPostingProofs ----------------------
(***************************************************************************)
(* What ScheduledPosting promises of its schedules, proved for every        *)
(* calendar, set of schedules, of budgets and of requests under way.        *)
(***************************************************************************)
EXTENDS ScheduledPosting, Induction

-----------------------------------------------------------------------------
(* The calendar. *)

(* The least and the greatest of a set of numbers.                         *)
LEMMA MinIs ==
    ASSUME NEW S \in SUBSET Nat, S # {}
    PROVE  Min(S) \in S /\ \A y \in S : Min(S) <= y
BY LeastNatural DEF Min

(* What is known of the months.                                            *)
LEMMA Calendar ==
    /\ Len(Start) \in Nat /\ Len(Start) > 12 /\ Months = 1..(Len(Start) - 1)
    /\ \A n \in 1..Len(Start) : Start[n] \in Nat
    /\ Start[1] = 0
    /\ \A m \in Months : /\ Length(m) \in 28..31 /\ Start[m + 1] = Start[m] + Length(m)
                         /\ m \in Nat /\ Start[m] \in Nat /\ Start[m + 1] \in Nat
<1>1. /\ Start \in Seq(Nat) /\ Len(Start) > 12 /\ Start[1] = 0
      /\ \A m \in Months : Start[m + 1] - Start[m] \in 28..31
    BY ScheduleAssumption DEF Length
<1>2. Len(Start) \in Nat /\ Months = 1..(Len(Start) - 1) BY <1>1 DEF Months
<1>3. \A n \in 1..Len(Start) : Start[n] \in Nat BY <1>1
<1>4. ASSUME NEW m \in Months
      PROVE  /\ Length(m) \in 28..31 /\ Start[m + 1] = Start[m] + Length(m)
             /\ m \in Nat /\ Start[m] \in Nat /\ Start[m + 1] \in Nat
    <2>1. m \in Nat /\ m \in 1..Len(Start) /\ m + 1 \in 1..Len(Start) BY <1>2
    <2> QED BY <2>1, <1>1, <1>3 DEF Length
<1> QED BY <1>1, <1>2, <1>3, <1>4

(* A month begins 28 days after an earlier one, at least.                  *)
LEMMA StartGrows ==
    ASSUME NEW m \in 1..Len(Start), NEW k \in 1..Len(Start), m < k
    PROVE  Start[m] \in Nat /\ Start[k] \in Nat /\ Start[m] + 28 <= Start[k]
<1>1. /\ Len(Start) \in Nat /\ \A n \in 1..Len(Start) : Start[n] \in Nat
      /\ \A n \in 1..(Len(Start) - 1) : Start[n + 1] >= Start[n] + 28
    <2>1. Len(Start) \in Nat /\ \A n \in 1..Len(Start) : Start[n] \in Nat BY Calendar
    <2>2. ASSUME NEW n \in 1..(Len(Start) - 1) PROVE Start[n + 1] >= Start[n] + 28
        <3>1. n \in Months BY Calendar
        <3> DEFINE long == Length(n)
        <3>2. long \in 28..31 /\ Start[n + 1] = Start[n] + long /\ Start[n] \in Nat
            BY <3>1, Calendar
        <3> HIDE DEF long
        <3> QED BY <3>2
    <2> QED BY <2>1, <2>2
<1> DEFINE S == {n \in Nat : m + n + 1 <= Len(Start) => Start[m] + 28 <= Start[m + n + 1]}
<1>2. 0 \in S BY <1>1
<1>3. ASSUME NEW n \in Nat, n \in S PROVE n + 1 \in S
    <2> SUFFICES ASSUME m + (n + 1) + 1 <= Len(Start)
                 PROVE  Start[m] + 28 <= Start[m + (n + 1) + 1]
        OBVIOUS
    <2>1. Start[m] + 28 <= Start[m + n + 1] BY <1>1, <1>3
    <2>2. m + n + 1 \in 1..(Len(Start) - 1) /\ m + (n + 1) + 1 = (m + n + 1) + 1 BY <1>1
    <2>3. Start[(m + n + 1) + 1] >= Start[m + n + 1] + 28 BY <1>1, <2>2
    <2>4. Start[m] \in Nat /\ Start[m + n + 1] \in Nat /\ Start[(m + n + 1) + 1] \in Nat
        BY <1>1, <2>2
    <2> QED BY <2>1, <2>2, <2>3, <2>4
<1> HIDE DEF S
<1>4. Nat \subseteq S BY <1>2, <1>3, Induct
<1>5. k - m - 1 \in S BY <1>1, <1>4
<1>6. Start[m] + 28 <= Start[m + (k - m - 1) + 1] BY <1>1, <1>5 DEF S
<1>7. m + (k - m - 1) + 1 = k BY <1>1
<1> QED BY <1>1, <1>6, <1>7

\* Day d is in month m.
InMonth(d, m) == m \in Months /\ Start[m] <= d /\ d < Start[m + 1]

(* A day of the calendar is in one month.                                  *)
LEMMA OneMonth ==
    ASSUME NEW d \in Nat, NEW m, NEW k, InMonth(d, m), InMonth(d, k)
    PROVE  m = k
<1>1. m \in Nat /\ k \in Nat /\ m + 1 \in 1..Len(Start) /\ k + 1 \in 1..Len(Start)
      /\ m \in 1..Len(Start) /\ k \in 1..Len(Start)
    BY Calendar DEF InMonth
<1>2. ASSUME NEW a \in Nat, NEW b \in Nat, InMonth(d, a), InMonth(d, b), a < b PROVE FALSE
    <2>1. a + 1 \in 1..Len(Start) /\ b \in 1..Len(Start) BY <1>2, Calendar DEF InMonth
    <2>2. Start[a + 1] <= Start[b]
        <3>1. CASE a + 1 = b BY <3>1, <2>1, Calendar
        <3>2. CASE a + 1 < b BY <3>2, <2>1, StartGrows
        <3> QED BY <3>1, <3>2, <1>2
    <2> QED BY <1>2, <2>1, <2>2, Calendar DEF InMonth
<1> QED BY <1>1, <1>2

(* Every day of the calendar is in one.                                   *)
LEMMA SomeMonth ==
    ASSUME NEW d \in Days
    PROVE  \E m : InMonth(d, m)
<1> DEFINE T == {n \in Nat : n + 1 \in 1..Len(Start) /\ d < Start[n + 1]}
<1>1. Len(Start) - 1 \in T
    <2>1. (Len(Start) - 1) + 1 = Len(Start) /\ Len(Start) \in 1..Len(Start)
          /\ Len(Start) - 1 \in Nat
        BY Calendar
    <2>2. d < Start[Len(Start)] BY <2>1, Calendar DEF Days
    <2> QED BY <2>1, <2>2
<1>2. PICK m \in T : \A y \in T : m <= y BY <1>1, LeastNatural
<1>3. m # 0
    <2>1. Start[1] = 0 /\ d \in Nat BY Calendar DEF Days
    <2> QED BY <1>2, <2>1
<1>4. m - 1 \in Nat /\ m - 1 \notin T BY <1>2, <1>3
<1>5. (m - 1) + 1 = m /\ m \in Months /\ m \in 1..Len(Start) BY <1>2, <1>3, Calendar
<1>6. ~(d < Start[m]) BY <1>4, <1>5
<1>7. Start[m] <= d BY <1>5, <1>6, Calendar DEF Days
<1> QED BY <1>2, <1>5, <1>7 DEF InMonth

(* MonthOf and DayOf are the calendar's month and day.                     *)
LEMMA MonthIs ==
    ASSUME NEW d \in Days
    PROVE  /\ d \in Nat /\ InMonth(d, MonthOf[d])
           /\ \A m : InMonth(d, m) => MonthOf[d] = m
           /\ DayOf[d] = d - Start[MonthOf[d]] + 1 /\ DayOf[d] \in 1..31
<1>1. d \in Nat BY Calendar DEF Days
<1>2. MonthOf[d] = CHOOSE m \in Months : Start[m] <= d /\ d < Start[m + 1]
    BY <1>1 DEF MonthOf
<1>3. \E m \in Months : Start[m] <= d /\ d < Start[m + 1] BY SomeMonth DEF InMonth
<1>4. InMonth(d, MonthOf[d]) BY <1>2, <1>3 DEF InMonth
<1>5. DayOf[d] = d - Start[MonthOf[d]] + 1 BY <1>1 DEF DayOf
<1>6. DayOf[d] \in 1..31
    <2> DEFINE m == MonthOf[d]
    <2>1. m \in Months /\ Start[m] <= d /\ d < Start[m + 1] BY <1>4 DEF InMonth
    <2> HIDE DEF m
    <2>2. Length(m) \in 28..31 /\ Start[m + 1] = Start[m] + Length(m) /\ Start[m] \in Nat
        BY <2>1, Calendar
    <2>3. d - Start[m] + 1 \in 1..31 BY <1>1, <2>1, <2>2
    <2> QED BY <2>3, <1>5 DEF m
<1> QED BY <1>1, <1>4, <1>5, <1>6, OneMonth

(* A day of the month is in that month, the last one if it is too short.   *)
LEMMA DayInIs ==
    ASSUME NEW m \in Months, NEW n \in 1..31
    PROVE  /\ DayIn[m][n] = Start[m] + (IF n <= Length(m) THEN n ELSE Length(m)) - 1
           /\ DayIn[m][n] \in Days /\ InMonth(DayIn[m][n], m) /\ MonthOf[DayIn[m][n]] = m
<1> DEFINE S == {n, Length(m)}
<1> DEFINE d == DayIn[m][n]
<1>1. d = Start[m] + Min(S) - 1 BY DEF DayIn
<1>2. Min(S) \in S /\ \A y \in S : Min(S) <= y
    <2>1. S \in SUBSET Nat /\ S # {} BY Calendar
    <2> HIDE DEF S
    <2> QED BY <2>1, MinIs
<1> DEFINE least == Min(S)
<1>7. least \in {n, Length(m)} /\ least <= n /\ least <= Length(m) BY <1>2
<1> HIDE DEF least
<1>8. least = IF n <= Length(m) THEN n ELSE Length(m) BY <1>7, Calendar
<1>3. Min(S) = IF n <= Length(m) THEN n ELSE Length(m) BY <1>8 DEF least
<1> HIDE DEF S, d
<1>4. d = Start[m] + (IF n <= Length(m) THEN n ELSE Length(m)) - 1 BY <1>1, <1>3
<1>5. InMonth(d, m) /\ d \in Nat
    <2>1. Length(m) \in 28..31 /\ Start[m + 1] = Start[m] + Length(m) /\ Start[m] \in Nat
        BY Calendar
    <2> QED BY <2>1, <1>4 DEF InMonth
<1>6. d \in Days
    <2>1. Start[m + 1] <= Start[Len(Start)]
        <3>1. m + 1 \in 1..Len(Start) /\ Len(Start) \in 1..Len(Start) BY Calendar
        <3>2. CASE m + 1 = Len(Start) BY <3>1, <3>2, Calendar
        <3>3. CASE m + 1 < Len(Start) BY <3>1, <3>3, StartGrows
        <3> QED BY <3>1, <3>2, <3>3
    <2>2. Start[Len(Start)] \in Nat BY Calendar
    <2> QED BY <2>1, <2>2, <1>5, Calendar DEF InMonth, Days
<1> QED BY <1>4, <1>5, <1>6, MonthIs DEF d

(* The last night is one, and a year of the calendar follows it.           *)
LEMMA HorizonIs ==
    /\ Horizon \in Nights /\ Horizon \in Nat /\ \A night \in Nights : night <= Horizon
    /\ Horizon < Start[Len(Start) - 12]
    /\ \A d \in 0..Horizon : d \in Days /\ d + 14 \in Days /\ MonthOf[d] + 12 \in Months
<1> DEFINE top == Start[Len(Start) - 12]
<1> DEFINE T == {n \in Nat : \A night \in Nights : night <= n}
<1>1. top \in Nat /\ top \in T BY ScheduleAssumption, Calendar
<1>2. PICK n \in T : \A y \in T : n <= y BY <1>1, LeastNatural
<1>3. n \in Nights
    <2> SUFFICES ASSUME n \notin Nights PROVE FALSE OBVIOUS
    <2>1. Nights \subseteq Nat /\ Nights # {} BY ScheduleAssumption
    <2>2. \A night \in Nights : night < n BY <1>2, <2>1
    <2>3. PICK night \in Nights : TRUE BY <2>1
    <2>4. n \in Nat /\ night \in Nat /\ night < n BY <2>1, <2>2, <2>3, <1>2
    <2>5. n - 1 \in Nat BY <2>4
    <2>6. \A y \in Nights : y <= n - 1 BY <2>1, <2>2, <2>4
    <2> QED BY <2>5, <2>6, <1>2
<1>4. \E x \in Nights : \A y \in Nights : x >= y BY <1>2, <1>3, ScheduleAssumption
<1>5. Horizon \in Nights /\ \A y \in Nights : Horizon >= y
    BY <1>4 DEF Horizon, Max
<1>6. Horizon \in Nat /\ Horizon < top BY <1>5, ScheduleAssumption
<1>7. top + 28 <= Start[Len(Start)] /\ Start[Len(Start)] \in Nat
    <2>1. Len(Start) - 12 \in 1..Len(Start) /\ Len(Start) \in 1..Len(Start)
          /\ Len(Start) - 12 < Len(Start)
        BY Calendar
    <2> QED BY <2>1, StartGrows
<1>8. ASSUME NEW d \in 0..Horizon PROVE d \in Days /\ d + 14 \in Days /\ MonthOf[d] + 12 \in Months
    <2>1. d \in Days /\ d + 14 \in Days BY <1>1, <1>6, <1>7 DEF Days
    <2> DEFINE m == MonthOf[d]
    <2>2. InMonth(d, m) BY <2>1, MonthIs
    <2> HIDE DEF m
    <2>3. m \in Nat /\ m \in 1..Len(Start) /\ Len(Start) - 12 \in 1..Len(Start)
        BY <2>2, Calendar DEF InMonth
    <2>4. m < Len(Start) - 12
        <3> SUFFICES ASSUME Len(Start) - 12 <= m PROVE FALSE BY <2>3, Calendar
        <3>1. top <= Start[m]
            <4>1. CASE Len(Start) - 12 = m BY <4>1, <1>1
            <4>2. CASE Len(Start) - 12 < m BY <4>2, <2>3, <1>1, StartGrows
            <4> QED BY <4>1, <4>2, <2>3, Calendar
        <3>2. Start[m] \in Nat /\ Start[m] <= d BY <2>2, <2>3, Calendar DEF InMonth
        <3> QED BY <3>1, <3>2, <1>1, <1>6
    <2>5. m + 12 \in Months BY <2>3, <2>4, Calendar
    <2> QED BY <2>1, <2>5 DEF m
<1>9. \A night \in Nights : night <= Horizon BY <1>5, <1>6, ScheduleAssumption
<1> QED BY <1>5, <1>6, <1>8, <1>9

(* Days of an earlier month come before the days of a later one.           *)
LEMMA MonthsInOrder ==
    ASSUME NEW m \in Months, NEW k \in Months, NEW d \in Nat, NEW e \in Nat,
           InMonth(d, m), InMonth(e, k)
    PROVE  /\ m < k => d < e
           /\ d <= e => m <= k
<1>0. m \in Nat /\ k \in Nat BY Calendar
<1>1. ASSUME NEW a \in Months, NEW b \in Months, NEW x \in Nat, NEW y \in Nat,
             InMonth(x, a), InMonth(y, b), a < b
      PROVE  x < y
    <2>1. a + 1 \in 1..Len(Start) /\ b \in 1..Len(Start) /\ a \in Nat /\ b \in Nat BY Calendar
    <2>2. Start[a + 1] <= Start[b]
        <3>1. CASE a + 1 = b BY <3>1, <2>1, Calendar
        <3>2. CASE a + 1 < b BY <3>2, <2>1, StartGrows
        <3> QED BY <3>1, <3>2, <1>1, <2>1
    <2>3. Start[a + 1] \in Nat /\ Start[b] \in Nat BY Calendar
    <2> QED BY <1>1, <2>2, <2>3 DEF InMonth
<1>2. m < k => d < e BY <1>1
<1>3. k < m => e < d BY <1>1
<1> QED BY <1>0, <1>2, <1>3

(* What the proofs ask of a stored row: it is well formed and valid.       *)
Sound(s) == s \in Kept /\ Valid(s)

(* The days of the month a schedule falls on are days of a month.          *)
LEMMA SoundIs ==
    ASSUME NEW s, Sound(s)
    PROVE  /\ s.start \in Days /\ s.start \in Nat /\ s.frequency \in Frequencies
           /\ s.end \in Int \cup {None} /\ s.next \in Days /\ s.next \in Nat
           /\ MonthOf[s.start] \in Months /\ MonthOf[s.start] \in Nat
           /\ DayOf[s.start] \in 1..31
           /\ s.frequency = "twice_monthly" => s.second \in 1..31
<1>1. s \in Kept BY DEF Sound
<1>2. /\ s.start \in Days /\ s.frequency \in Frequencies /\ s.end \in Int \cup {None}
      /\ s.next \in Days
    BY <1>1 DEF Kept
<1>3. s.start \in Nat /\ MonthOf[s.start] \in Months /\ DayOf[s.start] \in 1..31
    BY <1>2, MonthIs DEF InMonth
<1>4. s.frequency = "twice_monthly" => s.second \in 1..31 BY DEF Sound, Valid
<1>5. s.next \in Nat /\ MonthOf[s.start] \in Nat BY <1>2, <1>3, MonthIs, Calendar
<1> QED BY <1>2, <1>3, <1>4, <1>5

\* The step of a schedule from d goes to e, and passes over none of its days.
StepsTo(s, d, e) ==
    /\ e \in Falls(s) /\ e \in Days /\ e \in Nat /\ d < e
    /\ \A x \in Falls(s) : x <= d \/ e <= x

\* The days that are a multiple of `days` after the start.
Every(s, days) == {s.start + days * k : k \in 0..(Max({Horizon - s.start, 0}) \div days + 4)}
\* The days that are the n-th of every so many months, from the month of the start.
OnDay(s, n, months) == {DayIn[m][n] : m \in {k \in Months : (k - MonthOf[s.start]) % months = 0}}

(* The days of a schedule, a frequency at a time.                          *)
LEMMA FallsAre ==
    ASSUME NEW s, Sound(s)
    PROVE  /\ s.frequency = "once" => Falls(s) = {d \in {s.start} : d >= s.start}
           /\ s.frequency = "daily" => Falls(s) = {d \in Every(s, 1) : d >= s.start}
           /\ s.frequency = "weekly" => Falls(s) = {d \in Every(s, 7) : d >= s.start}
           /\ s.frequency = "biweekly" => Falls(s) = {d \in Every(s, 14) : d >= s.start}
           /\ s.frequency = "monthly" =>
                 Falls(s) = {d \in OnDay(s, DayOf[s.start], 1) : d >= s.start}
           /\ s.frequency = "yearly" =>
                 Falls(s) = {d \in OnDay(s, DayOf[s.start], 12) : d >= s.start}
           /\ s.frequency = "twice_monthly" =>
                 Falls(s) = {d \in OnDay(s, DayOf[s.start], 1) \cup OnDay(s, s.second, 1) : d >= s.start}
<1>1. CASE s.frequency = "once" BY <1>1 DEF Falls
<1>2. CASE s.frequency = "daily" BY <1>2 DEF Falls, Every
<1>3. CASE s.frequency = "weekly" BY <1>3 DEF Falls, Every
<1>4. CASE s.frequency = "biweekly" BY <1>4 DEF Falls, Every
<1>5. CASE s.frequency = "monthly" BY <1>5 DEF Falls, OnDay
<1>6. CASE s.frequency = "yearly" BY <1>6 DEF Falls, OnDay
<1>7. CASE s.frequency = "twice_monthly" BY <1>7 DEF Falls, OnDay
<1> QED BY <1>1, <1>2, <1>3, <1>4, <1>5, <1>6, <1>7

(* The greatest of a bounded set of numbers.                               *)
LEMMA MaxIs ==
    ASSUME NEW S \in SUBSET Nat, S # {}, NEW bound \in Nat, \A y \in S : y <= bound
    PROVE  Max(S) \in S /\ \A y \in S : y <= Max(S)
<1> DEFINE T == {n \in Nat : \A y \in S : y <= n}
<1>1. PICK n \in T : \A y \in T : n <= y BY LeastNatural
<1>2. n \in S
    <2> SUFFICES ASSUME n \notin S PROVE FALSE OBVIOUS
    <2>1. PICK y \in S : TRUE OBVIOUS
    <2>2. n \in Nat /\ y \in Nat /\ y <= n /\ y # n BY <1>1, <2>1
    <2>3. n - 1 \in Nat BY <2>2
    <2>4. \A x \in S : x <= n - 1 BY <1>1
    <2> QED BY <2>3, <2>4, <1>1
<1>3. \E x \in S : \A y \in S : x >= y BY <1>1, <1>2
<1> HIDE DEF T
<1>4. Max(S) \in S /\ \A y \in S : Max(S) >= y BY <1>3 DEF Max
<1> QED BY <1>4

(* How far the days of a week or a fortnight are counted.                  *)
LEMMA CountIs ==
    ASSUME NEW a \in Int, NEW days \in {1, 7, 14}
    PROVE  LET n == Max({a, 0}) \div days IN n \in Nat /\ a <= days * n + days
<1> DEFINE S == {a, 0} \cap Nat
<1> DEFINE top == Max({a, 0})
<1>1. top \in Nat /\ top >= a
    <2>1. \E x \in {a, 0} : \A y \in {a, 0} : x >= y OBVIOUS
    <2>2. top \in {a, 0} /\ \A y \in {a, 0} : top >= y BY <2>1 DEF Max
    <2> HIDE DEF top
    <2>3. top >= a /\ top >= 0 BY <2>2
    <2>4. top = a \/ top = 0 BY <2>2
    <2> QED BY <2>3, <2>4
<1> HIDE DEF top
<1>2. CASE days = 1 BY <1>1, <1>2 DEF top
<1>3. CASE days = 7
    <2>1. top \div 7 \in Nat /\ top <= 7 * (top \div 7) + 7 BY <1>1
    <2> QED BY <1>1, <1>3, <2>1 DEF top
<1>4. CASE days = 14
    <2>1. top \div 14 \in Nat /\ top <= 14 * (top \div 14) + 14 BY <1>1
    <2> QED BY <1>1, <1>4, <2>1 DEF top
<1> QED BY <1>2, <1>3, <1>4

(* Daily, weekly and biweekly schedules.                                   *)
LEMMA EveryNext ==
    ASSUME NEW s, Sound(s), NEW days \in {1, 7, 14},
           Falls(s) = {d \in Every(s, days) : d >= s.start},
           NEW d \in Falls(s), d <= Horizon
    PROVE  StepsTo(s, d, d + days)
<1> DEFINE limit == Max({Horizon - s.start, 0}) \div days
<1>1. s.start \in Nat /\ Horizon \in Nat BY SoundIs, HorizonIs
<1>2. limit \in Nat /\ Horizon - s.start <= days * limit + days BY <1>1, CountIs
<1>3. Every(s, days) = {s.start + days * k : k \in 0..(limit + 4)} BY DEF Every
<1> HIDE DEF limit
<1>4. PICK k \in 0..(limit + 4) : d = s.start + days * k BY <1>3
<1>5. d \in Nat BY <1>1, <1>4
<1>6. k + 1 \in 0..(limit + 4) /\ d + days = s.start + days * (k + 1)
    <2>1. CASE days = 1 BY <2>1, <1>1, <1>2, <1>4
    <2>2. CASE days = 7 BY <2>2, <1>1, <1>2, <1>4
    <2>3. CASE days = 14 BY <2>3, <1>1, <1>2, <1>4
    <2> QED BY <2>1, <2>2, <2>3
<1>7. d + days \in Falls(s) BY <1>1, <1>3, <1>5, <1>6
<1>8. d + days \in Days
    <2>1. d \in 0..Horizon BY <1>1, <1>5
    <2>2. d \in Days /\ d + 14 \in Days BY <2>1, HorizonIs
    <2>3. Start[Len(Start)] \in Nat BY Calendar
    <2> QED BY <2>2, <2>3, <1>5 DEF Days
<1>9. ASSUME NEW x \in Falls(s) PROVE x <= d \/ d + days <= x
    <2>1. PICK n \in 0..(limit + 4) : x = s.start + days * n BY <1>3
    <2>2. CASE n <= k
        <3>1. CASE days = 1 BY <3>1, <2>1, <2>2, <1>1, <1>2, <1>4
        <3>2. CASE days = 7 BY <3>2, <2>1, <2>2, <1>1, <1>2, <1>4
        <3>3. CASE days = 14 BY <3>3, <2>1, <2>2, <1>1, <1>2, <1>4
        <3> QED BY <3>1, <3>2, <3>3
    <2>3. CASE k + 1 <= n
        <3>1. CASE days = 1 BY <3>1, <2>1, <2>3, <1>1, <1>2, <1>4
        <3>2. CASE days = 7 BY <3>2, <2>1, <2>3, <1>1, <1>2, <1>4
        <3>3. CASE days = 14 BY <3>3, <2>1, <2>3, <1>1, <1>2, <1>4
        <3> QED BY <3>1, <3>2, <3>3
    <2> QED BY <2>1, <2>2, <2>3, <1>2, <1>4
<1>10. d + days \in Nat /\ d < d + days BY <1>5
<1> QED BY <1>7, <1>8, <1>9, <1>10 DEF StepsTo

(* Monthly and yearly schedules.                                           *)
LEMMA MonthNext ==
    ASSUME NEW s, Sound(s), NEW months \in {1, 12}, NEW n \in 1..31,
           Falls(s) = {d \in OnDay(s, n, months) : d >= s.start},
           NEW d \in Falls(s), d <= Horizon
    PROVE  StepsTo(s, d, StepMonths(d, months, n))
<1> DEFINE first == MonthOf[s.start]
<1> DEFINE In == {k \in Months : (k - first) % months = 0}
<1>1. s.start \in Nat /\ first \in Nat /\ Horizon \in Nat BY SoundIs, HorizonIs
<1>2. OnDay(s, n, months) = {DayIn[m][n] : m \in In} BY DEF OnDay
<1> HIDE DEF first
<1>3. PICK m \in In : d = DayIn[m][n] BY <1>2
<1>4. m \in Months /\ m \in Nat /\ d \in Days /\ d \in Nat /\ InMonth(d, m) /\ MonthOf[d] = m
    <2>1. m \in Months OBVIOUS
    <2>2. d \in Days /\ InMonth(d, m) /\ MonthOf[d] = m BY <2>1, <1>3, DayInIs
    <2> QED BY <2>1, <2>2, Calendar, MonthIs
<1>5. m + months \in In
    <2>1. m + 12 \in Months BY <1>1, <1>4, HorizonIs
    <2>2. m + months \in Months BY <2>1, <1>4, Calendar
    <2>3. (m - first) % months = 0 OBVIOUS
    <2>4. ((m + months) - first) % months = 0
        <3>1. CASE months = 1 BY <3>1, <1>1, <1>4
        <3>2. CASE months = 12 BY <3>2, <2>3, <1>1, <1>4
        <3> QED BY <3>1, <3>2
    <2> QED BY <2>2, <2>4
<1> DEFINE e == DayIn[m + months][n]
<1>6. e = StepMonths(d, months, n) BY <1>4 DEF StepMonths
<1>7. e \in Days /\ e \in Nat /\ InMonth(e, m + months)
    <2>1. m + months \in Months BY <1>5
    <2> QED BY <2>1, DayInIs, MonthIs
<1>8. e \in OnDay(s, n, months) BY <1>2, <1>5
<1> HIDE DEF e
<1>9. d < e
    <2>1. m + months \in Months /\ m < m + months BY <1>4, <1>5
    <2> QED BY <2>1, <1>4, <1>7, MonthsInOrder
<1>10. e \in Falls(s) BY <1>1, <1>4, <1>7, <1>8, <1>9
<1>11. ASSUME NEW x \in Falls(s) PROVE x <= d \/ e <= x
    <2>1. PICK k \in In : x = DayIn[k][n] BY <1>2
    <2>2. k \in Months /\ k \in Nat /\ x \in Nat /\ InMonth(x, k)
        <3>1. k \in Months OBVIOUS
        <3>2. x \in Days /\ InMonth(x, k) BY <3>1, <2>1, DayInIs
        <3> QED BY <3>1, <3>2, Calendar, MonthIs
    <2>3. k <= m \/ m + months <= k
        <3>1. (k - first) % months = 0 /\ (m - first) % months = 0 OBVIOUS
        <3>2. CASE months = 1 BY <3>2, <2>2, <1>4
        <3>3. CASE months = 12 BY <3>1, <3>3, <2>2, <1>4, <1>1
        <3> QED BY <3>2, <3>3
    <2>4. CASE k < m BY <2>2, <2>4, <1>4, MonthsInOrder
    <2>5. CASE k = m BY <2>1, <2>5, <1>3, <1>4
    <2>6. CASE k = m + months BY <2>1, <2>6, <1>7 DEF e
    <2>7. CASE m + months < k
        <3>1. m + months \in Months BY <1>5
        <3>2. e < x BY <3>1, <2>2, <2>7, <1>7, MonthsInOrder
        <3> QED BY <3>2, <2>2, <1>7
    <2> QED BY <2>2, <2>3, <2>4, <2>5, <2>6, <2>7, <1>4
<1> QED BY <1>6, <1>7, <1>9, <1>10, <1>11 DEF StepsTo

(* Schedules of two days a month: the next of the two, in this month or    *)
(* the one after it.                                                       *)
LEMMA TwiceNext ==
    ASSUME NEW s, Sound(s), s.frequency = "twice_monthly", NEW d \in Falls(s), d <= Horizon
    PROVE  StepsTo(s, d, NextTwice(d, {DayOf[s.start], s.second}))
<1> DEFINE days == {DayOf[s.start], s.second}
<1> DEFINE first == MonthOf[s.start]
<1> DEFINE Both == {DayIn[k][n] : k \in Months, n \in days}
<1>1. s.start \in Nat /\ first \in Nat /\ Horizon \in Nat /\ days \subseteq 1..31 /\ days # {}
    BY SoundIs, HorizonIs
<1>2. Falls(s) = {x \in Both : x >= s.start}
    <2>1. {k \in Months : (k - first) % 1 = 0} = Months BY Calendar, <1>1
    <2>2. \A n : OnDay(s, n, 1) = {DayIn[k][n] : k \in Months} BY <2>1 DEF OnDay
    <2>3. Both = OnDay(s, DayOf[s.start], 1) \cup OnDay(s, s.second, 1)
        <3> DEFINE a == DayOf[s.start]
        <3> DEFINE b == s.second
        <3>1. Both = {DayIn[k][a] : k \in Months} \cup {DayIn[k][b] : k \in Months}
            <4> DEFINE A == {DayIn[k][a] : k \in Months}
            <4> DEFINE B == {DayIn[k][b] : k \in Months}
            <4>1. days = {a, b} BY DEF days
            <4> HIDE DEF a, b
            <4>2. ASSUME NEW x \in Both PROVE x \in A \cup B
                <5>1. PICK k \in Months, n \in days : x = DayIn[k][n] OBVIOUS
                <5>2. n = a \/ n = b BY <5>1, <4>1
                <5> QED BY <5>1, <5>2
            <4>3. ASSUME NEW x \in A \cup B PROVE x \in Both
                <5>1. PICK k \in Months : x = DayIn[k][a] \/ x = DayIn[k][b] OBVIOUS
                <5>2. a \in days /\ b \in days BY <4>1
                <5> QED BY <5>1, <5>2
            <4> HIDE DEF A, B, Both
            <4>4. Both = A \cup B BY <4>2, <4>3
            <4> QED BY <4>4 DEF A, B
        <3> QED BY <3>1, <2>2
    <2> QED BY <2>3, FallsAre
<1> HIDE DEF days, first
<1>3. ASSUME NEW k \in Months, NEW n \in days
      PROVE  /\ DayIn[k][n] \in Days /\ DayIn[k][n] \in Nat /\ InMonth(DayIn[k][n], k)
             /\ MonthOf[DayIn[k][n]] = k
    <2>1. n \in 1..31 BY <1>1
    <2>2. DayIn[k][n] \in Days /\ InMonth(DayIn[k][n], k) /\ MonthOf[DayIn[k][n]] = k
        BY <2>1, DayInIs
    <2> QED BY <2>2, MonthIs
<1>4. PICK m \in Months, j \in days : d = DayIn[m][j] BY <1>2
<1>5. m \in Nat /\ d \in Days /\ d \in Nat /\ InMonth(d, m) /\ MonthOf[d] = m
    BY <1>3, <1>4, Calendar
<1>6. m + 1 \in Months
    <2>1. m + 12 \in Months BY <1>1, <1>5, HorizonIs
    <2> QED BY <2>1, <1>5, Calendar
<1> DEFINE ahead == {x \in {DayIn[k][n] : k \in {m, m + 1}, n \in days} : x > d}
<1> DEFINE e == Min(ahead)
<1>7. NextTwice(d, days) = e BY <1>5 DEF NextTwice
<1>8. ahead \in SUBSET Nat /\ ahead # {}
    <2>1. PICK n \in days : TRUE BY <1>1
    <2>2. DayIn[m + 1][n] > d
        <3>1. DayIn[m + 1][n] \in Nat /\ InMonth(DayIn[m + 1][n], m + 1) BY <1>3, <1>6
        <3>2. m < m + 1 BY <1>5
        <3> QED BY <3>1, <3>2, <1>5, <1>6, MonthsInOrder
    <2>3. DayIn[m + 1][n] \in ahead BY <2>2
    <2>4. ahead \subseteq Nat BY <1>3, <1>6
    <2> QED BY <2>3, <2>4
<1>9. e \in ahead /\ \A x \in ahead : e <= x
    <2> HIDE DEF ahead
    <2> QED BY <1>8, MinIs
<1>10. e \in Both /\ e > d /\ e \in Nat /\ e \in Days BY <1>3, <1>6, <1>8, <1>9
<1> HIDE DEF e
<1>11. e \in Falls(s) BY <1>1, <1>2, <1>5, <1>10
<1>12. ASSUME NEW x \in Falls(s) PROVE x <= d \/ e <= x
    <2>1. PICK k \in Months, n \in days : x = DayIn[k][n] BY <1>2
    <2>2. k \in Nat /\ x \in Nat /\ InMonth(x, k) BY <1>3, <2>1, Calendar
    <2> SUFFICES ASSUME x > d, x < e PROVE FALSE BY <2>2, <1>5, <1>10
    <2>3. m <= k BY <2>2, <1>5, MonthsInOrder
    <2>4. k <= m + 1
        <3>1. PICK h \in {m, m + 1}, i \in days : e = DayIn[h][i] BY <1>9
        <3>2. h \in Months /\ h \in Nat /\ InMonth(e, h) BY <3>1, <1>3, <1>5, <1>6
        <3>3. k <= h BY <3>2, <2>2, <1>10, MonthsInOrder
        <3> QED BY <3>1, <3>3, <1>5, <2>2
    <2>5. k \in {m, m + 1} BY <2>2, <2>3, <2>4, <1>5
    <2>6. x \in ahead BY <2>1, <2>5
    <2>7. e <= x BY <2>6, <1>9
    <2> QED BY <2>7, <2>2, <1>10
<1>13. StepsTo(s, d, e) BY <1>5, <1>10, <1>11, <1>12 DEF StepsTo
<1> QED BY <1>7, <1>13 DEF days

(* From one of its days a schedule steps to the next of them.              *)
LEMMA StepsOn ==
    ASSUME NEW s, Sound(s), s.frequency # "once", NEW d \in Falls(s), d <= Horizon
    PROVE  StepsTo(s, d, Stepped(s, d))
<1>0. s.frequency \in Frequencies /\ DayOf[s.start] \in 1..31 BY SoundIs
<1>1. CASE s.frequency = "daily"
    <2>1. Stepped(s, d) = d + 1 BY <1>1 DEF Stepped
    <2>2. Falls(s) = {x \in Every(s, 1) : x >= s.start} BY <1>1, FallsAre
    <2> QED BY <2>1, <2>2, EveryNext
<1>2. CASE s.frequency = "weekly"
    <2>1. Stepped(s, d) = d + 7 BY <1>2 DEF Stepped
    <2>2. Falls(s) = {x \in Every(s, 7) : x >= s.start} BY <1>2, FallsAre
    <2> QED BY <2>1, <2>2, EveryNext
<1>3. CASE s.frequency = "biweekly"
    <2>1. Stepped(s, d) = d + 14 BY <1>3 DEF Stepped
    <2>2. Falls(s) = {x \in Every(s, 14) : x >= s.start} BY <1>3, FallsAre
    <2> QED BY <2>1, <2>2, EveryNext
<1>4. CASE s.frequency = "monthly"
    <2>1. Stepped(s, d) = StepMonths(d, 1, DayOf[s.start]) BY <1>4 DEF Stepped
    <2>2. Falls(s) = {x \in OnDay(s, DayOf[s.start], 1) : x >= s.start} BY <1>4, FallsAre
    <2> QED BY <2>1, <2>2, <1>0, MonthNext
<1>5. CASE s.frequency = "yearly"
    <2>1. Stepped(s, d) = StepMonths(d, 12, DayOf[s.start]) BY <1>5 DEF Stepped
    <2>2. Falls(s) = {x \in OnDay(s, DayOf[s.start], 12) : x >= s.start} BY <1>5, FallsAre
    <2> QED BY <2>1, <2>2, <1>0, MonthNext
<1>6. CASE s.frequency = "twice_monthly"
    <2>1. Stepped(s, d) = NextTwice(d, {DayOf[s.start], s.second}) BY <1>6 DEF Stepped
    <2> QED BY <2>1, <1>6, TwiceNext
<1> QED BY <1>0, <1>1, <1>2, <1>3, <1>4, <1>5, <1>6 DEF Frequencies

(* The days of a schedule are days of no less than its first.              *)
LEMMA FallsNat ==
    ASSUME NEW s, Sound(s)
    PROVE  /\ Falls(s) \subseteq Nat /\ \A d \in Falls(s) : d >= s.start
           /\ s.start \in Falls(s)
           /\ s.frequency = "once" => Falls(s) = {s.start}
<1>1. s.start \in Nat /\ s.frequency \in Frequencies BY SoundIs
<1>2. \A d \in Falls(s) : d >= s.start BY <1>1, FallsAre DEF Frequencies
<1>3. ASSUME NEW days \in {1, 7, 14}
      PROVE  s.start \in Every(s, days) /\ Every(s, days) \subseteq Int
    <2> DEFINE limit == Max({Horizon - s.start, 0}) \div days
    <2>1. limit \in Nat
        <3>1. Horizon - s.start \in Int BY <1>1, HorizonIs
        <3> QED BY <3>1, CountIs
    <2>2. Every(s, days) = {s.start + days * k : k \in 0..(limit + 4)} BY DEF Every
    <2> HIDE DEF limit
    <2>3. 0 \in 0..(limit + 4) /\ s.start = s.start + days * 0 BY <2>1, <1>1
    <2>4. \A k \in 0..(limit + 4) : s.start + days * k \in Int BY <2>1, <1>1
    <2> QED BY <2>2, <2>3, <2>4
<1>4. ASSUME NEW months \in {1, 12}, NEW n \in 1..31
      PROVE  OnDay(s, n, months) \subseteq Nat
    BY DayInIs, MonthIs DEF OnDay
<1>5. ASSUME NEW months \in {1, 12} PROVE s.start \in OnDay(s, DayOf[s.start], months)
    <2> DEFINE m == MonthOf[s.start]
    <2> DEFINE n == DayOf[s.start]
    <2>1. m \in Months /\ m \in Nat /\ n \in 1..31 /\ InMonth(s.start, m) /\ n = s.start - Start[m] + 1
        BY SoundIs, MonthIs
    <2> HIDE DEF m, n
    <2>2. Length(m) \in 28..31 /\ Start[m + 1] = Start[m] + Length(m) /\ Start[m] \in Nat
        BY <2>1, Calendar
    <2>3. n <= Length(m) BY <2>1, <2>2, <1>1 DEF InMonth
    <2>4. DayIn[m][n] = Start[m] + n - 1 BY <2>1, <2>2, <2>3, DayInIs
    <2>5. DayIn[m][n] = s.start BY <2>1, <2>2, <2>4, <1>1
    <2>6. (m - m) % months = 0 BY <2>1
    <2> QED BY <2>1, <2>5, <2>6 DEF OnDay, m, n
<1> DEFINE n == DayOf[s.start]
<1>6. n \in 1..31 BY SoundIs
<1> HIDE DEF n
<1>7. CASE s.frequency = "once" BY <1>1, <1>7, FallsAre
<1>8. CASE s.frequency \in {"daily", "weekly", "biweekly"} BY <1>1, <1>3, <1>8, FallsAre
<1>9. CASE s.frequency \in {"monthly", "yearly"}
    <2>1. s.start \in OnDay(s, n, 1) /\ s.start \in OnDay(s, n, 12) BY <1>5 DEF n
    <2>2. OnDay(s, n, 1) \subseteq Nat /\ OnDay(s, n, 12) \subseteq Nat BY <1>4, <1>6
    <2>3. \/ Falls(s) = {d \in OnDay(s, n, 1) : d >= s.start}
          \/ Falls(s) = {d \in OnDay(s, n, 12) : d >= s.start}
        BY <1>9, FallsAre DEF n
    <2> QED BY <2>1, <2>2, <2>3, <1>1, <1>2, <1>9
<1>10. CASE s.frequency = "twice_monthly"
    <2>1. s.start \in OnDay(s, n, 1) BY <1>5 DEF n
    <2>2. OnDay(s, n, 1) \subseteq Nat BY <1>4, <1>6
    <2>3. OnDay(s, s.second, 1) \subseteq Nat BY <1>4, <1>10, SoundIs
    <2>4. Falls(s) = {d \in OnDay(s, n, 1) \cup OnDay(s, s.second, 1) : d >= s.start}
        BY <1>10, FallsAre DEF n
    <2> QED BY <2>1, <2>2, <2>3, <2>4, <1>1, <1>2, <1>10
<1> QED BY <1>1, <1>7, <1>8, <1>9, <1>10 DEF Frequencies

(* Whatever the day, the step from it is a day of the calendar.            *)
LEMMA SteppedDay ==
    ASSUME NEW s, Sound(s), s.frequency # "once", NEW d \in 0..Horizon
    PROVE  Stepped(s, d) \in Days /\ Stepped(s, d) \in Nat
<1> DEFINE m == MonthOf[d]
<1>1. /\ d \in Nat /\ d \in Days /\ d + 14 \in Days /\ m + 12 \in Months
      /\ s.frequency \in Frequencies /\ DayOf[s.start] \in 1..31
      /\ s.frequency = "twice_monthly" => s.second \in 1..31
    BY HorizonIs, SoundIs
<1>2. m \in Months /\ m \in Nat /\ m + 1 \in Months /\ InMonth(d, m)
    <2>1. InMonth(d, m) BY <1>1, MonthIs
    <2> HIDE DEF m
    <2> QED BY <2>1, <1>1, Calendar DEF InMonth
<1>3. Stepped(s, d) \in Days
    <2>1. CASE s.frequency \in {"daily", "weekly", "biweekly"}
        <3>1. Stepped(s, d) \in {d + 1, d + 7, d + 14} BY <2>1 DEF Stepped
        <3>2. Start[Len(Start)] \in Nat BY Calendar
        <3> QED BY <3>1, <3>2, <1>1 DEF Days
    <2>2. CASE s.frequency \in {"monthly", "yearly"}
        <3>1. Stepped(s, d) \in {DayIn[m + 1][DayOf[s.start]], DayIn[m + 12][DayOf[s.start]]}
            BY <2>2 DEF Stepped, StepMonths
        <3> HIDE DEF m
        <3> QED BY <3>1, <1>1, <1>2, DayInIs
    <2>3. CASE s.frequency = "twice_monthly"
        <3> DEFINE days == {DayOf[s.start], s.second}
        <3> DEFINE ahead == {x \in {DayIn[k][n] : k \in {m, m + 1}, n \in days} : x > d}
        <3>1. Stepped(s, d) = Min(ahead) BY <2>3 DEF Stepped, NextTwice
        <3>2. days \subseteq 1..31 /\ DayOf[s.start] \in days BY <1>1, <2>3
        <3> HIDE DEF m
        <3>3. \A x \in ahead : x \in Days /\ x \in Nat
            <4> HIDE DEF days
            <4>1. \A k \in {m, m + 1}, n \in days : DayIn[k][n] \in Days BY <3>2, <1>2, DayInIs
            <4> QED BY <4>1, MonthIs
        <3>4. DayIn[m + 1][DayOf[s.start]] \in ahead
            <4> DEFINE e == DayIn[m + 1][DayOf[s.start]]
            <4>1. e \in Nat /\ InMonth(e, m + 1) BY <1>1, <1>2, DayInIs, MonthIs
            <4> HIDE DEF e
            <4>2. d < e BY <4>1, <1>1, <1>2, MonthsInOrder
            <4> HIDE DEF days
            <4> QED BY <4>1, <4>2, <3>2, <1>1 DEF e
        <3> HIDE DEF ahead
        <3>5. Min(ahead) \in ahead BY <3>3, <3>4, MinIs
        <3> QED BY <3>1, <3>3, <3>5
    <2> QED BY <2>1, <2>2, <2>3, <1>1 DEF Frequencies
<1> QED BY <1>3, MonthIs

\* One round of the reckoning of what comes after each day, by `next`.
Reckoned(f, next) ==
    [d \in Nat \cup {None} |->
        IF d = None THEN {} ELSE IF d > Horizon THEN {d} ELSE {d} \cup f[next[d]]]

(* What comes after each day can be reckoned: the days that every set      *)
(* closed under the steps has, if it has the first.                        *)
LEMMA Reckoning ==
    ASSUME NEW next \in [0..Horizon -> Nat \cup {None}]
    PROVE  \E f : f = Reckoned(f, next)
<1> DEFINE Closed == {C \in SUBSET Nat : \A x \in C : x <= Horizon /\ next[x] # None => next[x] \in C}
<1> DEFINE f == [d \in Nat \cup {None} |->
                    IF d = None THEN {} ELSE {e \in Nat : \A C \in Closed : d \in C => e \in C}]
<1>1. Horizon \in Nat /\ None \notin Nat BY HorizonIs, ScheduleAssumption
<1>2. f[None] = {} OBVIOUS
<1>3. ASSUME NEW d \in Nat
      PROVE  f[d] = IF d > Horizon THEN {d} ELSE {d} \cup f[next[d]]
    <2>0. d # None BY <1>1
    <2>1. f[d] = {e \in Nat : \A C \in Closed : d \in C => e \in C} BY <2>0
    <2>2. d \in f[d] BY <2>1
    <2>3. CASE d > Horizon
        <3>1. {d} \in Closed BY <2>3, <1>1
        <3>2. f[d] \subseteq {d} BY <2>1, <3>1
        <3> QED BY <3>2, <2>2, <2>3
    <2>4. CASE ~(d > Horizon) /\ next[d] = None
        <3>1. {d} \in Closed BY <2>4
        <3>2. f[d] \subseteq {d} BY <2>1, <3>1
        <3> QED BY <3>2, <2>2, <2>4, <1>2
    <2>5. CASE ~(d > Horizon) /\ next[d] # None
        <3> DEFINE n == next[d]
        <3>0. d \in 0..Horizon /\ d <= Horizon /\ n \in Nat /\ n # None BY <2>5, <1>1
        <3>1. f[n] = {e \in Nat : \A C \in Closed : n \in C => e \in C} BY <3>0
        <3>2. f[n] \subseteq f[d]
            <4>1. \A C \in Closed : d \in C => n \in C BY <3>0
            <4> QED BY <4>1, <3>1, <2>1
        <3>3. {d} \cup f[n] \in Closed
            <4>1. {d} \cup f[n] \in SUBSET Nat BY <3>1
            <4>2. n \in f[n] BY <3>0, <3>1
            <4>3. ASSUME NEW x \in f[n], x <= Horizon, next[x] # None PROVE next[x] \in f[n]
                <5>1. x \in Nat /\ \A C \in Closed : n \in C => x \in C BY <4>3, <3>1
                <5>2. x \in 0..Horizon BY <5>1, <4>3, <1>1
                <5>3. next[x] \in Nat BY <5>2, <4>3
                <5>4. \A C \in Closed : n \in C => next[x] \in C BY <5>1, <4>3
                <5> QED BY <5>3, <5>4, <3>1
            <4> HIDE DEF f
            <4> QED BY <4>1, <4>2, <4>3
        <3>4. f[d] \subseteq {d} \cup f[n]
            <4> DEFINE D == {d} \cup f[n]
            <4>1. D \in Closed /\ d \in D BY <3>3
            <4> HIDE DEF D
            <4>2. f[d] \subseteq D BY <4>1, <2>1
            <4> QED BY <4>2 DEF D
        <3> HIDE DEF f
        <3> QED BY <3>2, <3>4, <2>2, <2>5
    <2> QED BY <2>3, <2>4, <2>5
<1>4. f = [d \in Nat \cup {None} |-> f[d]] OBVIOUS
<1> HIDE DEF f
<1>5. \A d \in Nat \cup {None} :
          f[d] = IF d = None THEN {} ELSE IF d > Horizon THEN {d} ELSE {d} \cup f[next[d]]
    BY <1>1, <1>2, <1>3
<1>6. f = Reckoned(f, next) BY <1>4, <1>5 DEF Reckoned
<1> QED BY <1>6

\* The same round, the steps being those of a schedule.
Round(f, s) ==
    [d \in Nat \cup {None} |->
        IF d = None THEN {} ELSE IF d > Horizon THEN {d} ELSE {d} \cup f[NextOccurrence(s, d)]]

(* The occurrence after a day of the schedule: its next day, unless that   *)
(* is past its end; and a single occurrence has none.                      *)
LEMMA NextIs ==
    ASSUME NEW s, Sound(s), NEW d \in Falls(s), d <= Horizon
    PROVE  /\ NextOccurrence(s, d) # None =>
                 StepsTo(s, d, NextOccurrence(s, d)) /\ ~Past(s.end, NextOccurrence(s, d))
           /\ NextOccurrence(s, d) = None => \A x \in Falls(s) : x <= d \/ Past(s.end, x)
<1>1. CASE s.frequency = "once"
    <2>1. NextOccurrence(s, d) = None BY <1>1 DEF NextOccurrence
    <2>2. \A x \in Falls(s) : x <= d BY <1>1, FallsNat
    <2> QED BY <2>1, <2>2
<1>2. CASE s.frequency # "once"
    <2> DEFINE e == Stepped(s, d)
    <2>1. StepsTo(s, d, e) BY <1>2, StepsOn
    <2>2. NextOccurrence(s, d) = IF Past(s.end, e) THEN None ELSE e
        BY <1>2 DEF NextOccurrence
    <2> HIDE DEF e
    <2>3. e \in Nat /\ None \notin Nat /\ d \in Nat BY <2>1, FallsNat, ScheduleAssumption DEF StepsTo
    <2>4. CASE Past(s.end, e)
        <3>1. ASSUME NEW x \in Falls(s), ~(x <= d) PROVE Past(s.end, x)
            <4>1. e <= x /\ x \in Nat BY <3>1, <2>1, FallsNat DEF StepsTo
            <4>2. s.end # None /\ s.end \in Int BY <2>4, SoundIs DEF Past
            <4> QED BY <4>1, <4>2, <2>3, <2>4 DEF Past
        <3> QED BY <3>1, <2>2, <2>4
    <2>5. CASE ~Past(s.end, e) BY <2>1, <2>2, <2>3, <2>5
    <2> QED BY <2>4, <2>5
<1> QED BY <1>1, <1>2

(* What is reckoned to come after a day of the model satisfies the round.  *)
LEMMA UpcomingRound ==
    ASSUME NEW s, Sound(s)
    PROVE  \E f : f = Round(f, s) /\ Upcoming(s) = f[s.next]
<1> DEFINE next == [d \in 0..Horizon |-> NextOccurrence(s, d)]
<1> DEFINE f == CHOOSE g : g = Round(g, s)
<1>1. next \in [0..Horizon -> Nat \cup {None}]
    <2>1. \A d \in 0..Horizon : NextOccurrence(s, d) \in Nat \cup {None}
        BY SteppedDay DEF NextOccurrence
    <2> QED BY <2>1
<1>2. ASSUME NEW g PROVE Reckoned(g, next) = Round(g, s)
    <2>1. \A d \in Nat : ~(d > Horizon) => next[d] = NextOccurrence(s, d) BY HorizonIs
    <2> HIDE DEF next
    <2>2. None \notin Nat BY ScheduleAssumption
    <2> QED BY <2>1, <2>2 DEF Reckoned, Round
<1> HIDE DEF next
<1>3. \E g : g = Round(g, s)
    <2>1. PICK g : g = Reckoned(g, next) BY <1>1, Reckoning
    <2>2. g = Round(g, s) BY <2>1, <1>2
    <2> QED BY <2>2
<1>4. f = Round(f, s) BY <1>3
<1>5. Upcoming(s) = f[s.next] BY DEF Upcoming, Round
<1> HIDE DEF f
<1> QED BY <1>4, <1>5

\* The days of schedule s from d on that are not past its end, d itself in any case.
Ahead(s, d) == {d} \cup {x \in Falls(s) : d < x /\ ~Past(s.end, x)}

(* Up to the model's last night, what is reckoned to come after the stored *)
(* date is every later day of the schedule that is not past its end.       *)
LEMMA UpcomingIs ==
    ASSUME NEW s, Sound(s), s.next \in Falls(s), s.next <= Horizon
    PROVE  /\ Upcoming(s) \subseteq Nat
           /\ \A x \in Nat : x <= Horizon => (x \in Upcoming(s) <=> x \in Ahead(s, s.next))
<1>1. PICK f : f = Round(f, s) /\ Upcoming(s) = f[s.next] BY UpcomingRound
<1> DEFINE Right(d) == /\ f[d] \subseteq Nat
                       /\ \A x \in Nat : x <= Horizon => (x \in f[d] <=> x \in Ahead(s, d))
<1> DEFINE S == {n \in Nat : \A d \in Falls(s) : d <= Horizon /\ Horizon - d <= n => Right(d)}
<1>2. Horizon \in Nat /\ Falls(s) \subseteq Nat /\ None \notin Nat
    BY HorizonIs, FallsNat, ScheduleAssumption
<1>3. ASSUME NEW d \in Falls(s), d <= Horizon,
             \A e \in Falls(s) : d < e /\ e <= Horizon => Right(e)
      PROVE  Right(d)
    <2> DEFINE n == NextOccurrence(s, d)
    <2>0. d \in 0..Horizon /\ d \in Nat /\ d # None /\ ~(d > Horizon) BY <1>2, <1>3
    <2>1. f[d] = {d} \cup f[n] BY <1>1, <2>0 DEF Round
    <2>2. n # None => StepsTo(s, d, n) /\ ~Past(s.end, n) BY <1>3, NextIs
    <2>3. n = None => \A x \in Falls(s) : x <= d \/ Past(s.end, x) BY <1>3, NextIs
    <2> HIDE DEF n
    <2>4. CASE n = None
        <3>1. f[None] = {} BY <1>1 DEF Round
        <3>2. f[d] = {d} BY <2>1, <2>4, <3>1
        <3>3. Ahead(s, d) = {d} BY <2>3, <2>4, <1>2 DEF Ahead
        <3> QED BY <3>2, <3>3, <2>0
    <2>5. CASE n # None /\ n > Horizon
        <3>1. n \in Nat /\ \A x \in Falls(s) : x <= d \/ n <= x BY <2>2, <2>5 DEF StepsTo
        <3>2. f[n] = {n} BY <1>1, <2>5, <3>1 DEF Round
        <3>3. f[d] = {d, n} BY <2>1, <3>2
        <3>4. \A x \in Nat : x <= Horizon => (x \in {d, n} <=> x = d) BY <3>1, <2>5, <1>2
        <3>5. \A x \in Nat : x <= Horizon => (x \in Ahead(s, d) <=> x = d)
            BY <3>1, <2>5, <2>0, <1>2 DEF Ahead
        <3> QED BY <3>1, <3>3, <3>4, <3>5, <2>0
    <2>6. CASE n # None /\ ~(n > Horizon)
        <3>1. f[d] = {d} \cup f[n] BY <2>1
        <3>2. /\ n \in Nat /\ n \in Falls(s) /\ d < n /\ ~Past(s.end, n)
              /\ \A x \in Falls(s) : x <= d \/ n <= x
            BY <2>2, <2>6 DEF StepsTo
        <3>3. n <= Horizon BY <3>2, <2>6, <1>2
        <3>4. Right(n) BY <3>2, <3>3, <1>3
        <3>5. Ahead(s, d) = {d} \cup Ahead(s, n)
            <4>1. ASSUME NEW x \in Falls(s), ~Past(s.end, x) PROVE d < x <=> x = n \/ n < x
                BY <3>2, <1>2, <2>0
            <4> QED BY <4>1, <3>2 DEF Ahead
        <3>6. f[d] \subseteq Nat BY <3>1, <3>4, <2>0
        <3>7. ASSUME NEW x \in Nat, x <= Horizon PROVE x \in f[d] <=> x \in Ahead(s, d)
            BY <3>1, <3>4, <3>5, <3>7
        <3> QED BY <3>6, <3>7
    <2> QED BY <2>4, <2>5, <2>6
<1> HIDE DEF Right
<1>4. 0 \in S
    <2> SUFFICES ASSUME NEW d \in Falls(s), d <= Horizon, Horizon - d <= 0 PROVE Right(d)
        OBVIOUS
    <2>1. \A e \in Falls(s) : ~(d < e /\ e <= Horizon) BY <1>2
    <2> QED BY <2>1, <1>3
<1>5. ASSUME NEW n \in Nat, n \in S PROVE n + 1 \in S
    <2> SUFFICES ASSUME NEW d \in Falls(s), d <= Horizon, Horizon - d <= n + 1 PROVE Right(d)
        OBVIOUS
    <2>1. \A e \in Falls(s) : d < e /\ e <= Horizon => Right(e)
        <3> SUFFICES ASSUME NEW e \in Falls(s), d < e, e <= Horizon PROVE Right(e)
            OBVIOUS
        <3>1. Horizon - e <= n BY <1>2
        <3> QED BY <3>1, <1>5
    <2> QED BY <2>1, <1>3
<1>6. Nat \subseteq S
    <2> HIDE DEF S
    <2> QED BY <1>4, <1>5, Induct
<1>7. Horizon - s.next \in S BY <1>2, <1>6
<1>8. Horizon - s.next <= Horizon - s.next BY <1>2
<1>9. Right(s.next) BY <1>7, <1>8
<1> QED BY <1>1, <1>9 DEF Right

-----------------------------------------------------------------------------
(* A turn of a schedule: the days a step posts or passes over, and the     *)
(* date it leaves behind.                                                  *)

\* From the row `copy`: `days` leave out no day of the schedule before
\* `next`, or, if nothing follows, none that is not past its end.
Turn(copy, days, next) ==
    /\ days \subseteq Falls(copy) /\ days \subseteq Days /\ \A d \in days : copy.next <= d
    /\ next # None =>
          /\ next \in Falls(copy) /\ next \in Days
          /\ \A d \in days \cup {copy.next} : d < next
          /\ \A d \in Falls(copy) : d < copy.next \/ d \in days \/ next <= d
    /\ next = None => \A d \in Falls(copy) : d < copy.next \/ d \in days \/ Past(copy.end, d)

(* A person enters or passes over the date the schedule stands at.         *)
LEMMA TurnOfOne ==
    ASSUME NEW copy, Sound(copy), copy.next \in Falls(copy), copy.next <= Horizon
    PROVE  Turn(copy, {copy.next}, NextOccurrence(copy, copy.next))
<1> DEFINE d == copy.next
<1> DEFINE n == NextOccurrence(copy, d)
<1>1. /\ n # None => StepsTo(copy, d, n) /\ ~Past(copy.end, n)
      /\ n = None => \A x \in Falls(copy) : x <= d \/ Past(copy.end, x)
    BY NextIs
<1>2. Falls(copy) \subseteq Nat /\ d \in Nat /\ d \in Days BY FallsNat, SoundIs
<1> HIDE DEF n
<1>3. n # None => /\ n \in Falls(copy) /\ n \in Days /\ d < n
                  /\ \A x \in Falls(copy) : x < d \/ x \in {d} \/ n <= x
    BY <1>1, <1>2 DEF StepsTo
<1>4. n = None => \A x \in Falls(copy) : x < d \/ x \in {d} \/ Past(copy.end, x) BY <1>1, <1>2
<1> HIDE DEF d
<1>5. d \in Falls(copy) BY DEF d
<1>6. Turn(copy, {d}, n)
    <2>1. copy.next = d BY DEF d
    <2> QED BY <2>1, <1>2, <1>3, <1>4, <1>5 DEF Turn
<1> QED BY <1>6 DEF d, n

(* A run posts every date missed up to its day.                            *)
LEMMA TurnOfRun ==
    ASSUME NEW copy, Sound(copy), copy.next \in Falls(copy),
           NEW day \in Nat, day <= Horizon, copy.next <= day, NEW shut
    PROVE  LET owed == Owed(copy, day, shut)
           IN  /\ Turn(copy, owed.days, owed.next)
               /\ owed.next \in Days \cup {None} /\ owed.last \in owed.days \cup {None}
<1> DEFINE days == Missed(copy, day)
<1> DEFINE first == copy.next
<1> DEFINE next == IF days = {} THEN None ELSE NextOccurrence(copy, Max(days))
<1>1. /\ Owed(copy, day, shut).days = days /\ Owed(copy, day, shut).next = next
      /\ Owed(copy, day, shut).last = IF days = {} THEN None ELSE Max(days)
    BY DEF Owed
<1>2. Falls(copy) \subseteq Nat /\ first \in Nat /\ first \in Days /\ Horizon \in Nat
      /\ None \notin Nat
    BY FallsNat, SoundIs, HorizonIs, ScheduleAssumption
<1>3. Upcoming(copy) \subseteq Nat
      /\ \A x \in Nat : x <= Horizon => (x \in Upcoming(copy) <=> x \in Ahead(copy, first))
    BY <1>2, UpcomingIs
<1>4. CASE Past(copy.end, first)
    <2>1. days = {} BY <1>4 DEF Missed
    <2>2. \A d \in Falls(copy) : d < first \/ Past(copy.end, d)
        <3>1. copy.end # None /\ copy.end \in Int /\ first > copy.end BY <1>4, SoundIs DEF Past
        <3> QED BY <3>1, <1>2 DEF Past
    <2>3. Turn(copy, {}, None) BY <2>2 DEF Turn
    <2> QED BY <2>1, <2>3, <1>1
<1>5. CASE ~Past(copy.end, first)
    <2>1. days = {d \in Upcoming(copy) : d <= day} BY <1>5 DEF Missed
    <2>2. \A d \in days : d \in Nat /\ d <= day /\ d \in Ahead(copy, first)
        BY <2>1, <1>2, <1>3
    <2>3. \A d \in Nat : d <= day /\ d \in Ahead(copy, first) => d \in days
        BY <2>1, <1>2, <1>3
    <2>4. first \in days BY <2>3, <1>2 DEF Ahead
    <2> HIDE DEF days
    <2>5. Max(days) \in days /\ \A d \in days : d <= Max(days)
        <3>1. days \in SUBSET Nat /\ days # {} BY <2>2, <2>4
        <3>2. \A d \in days : d <= day BY <2>2
        <3> QED BY <3>1, <3>2, MaxIs
    <2> DEFINE m == Max(days)
    <2> HIDE DEF first
    <2>6. days \subseteq Falls(copy) /\ \A d \in days : first <= d
        <3>1. first \in Falls(copy) BY DEF first
        <3> QED BY <2>2, <3>1, <1>2 DEF Ahead
    <2>7. m \in Falls(copy) /\ m \in Nat /\ m <= day /\ m <= Horizon
        BY <2>2, <2>5, <2>6, <1>2
    <2>8. \A d \in Falls(copy) : d < first \/ d \in days \/ m < d
        <3> SUFFICES ASSUME NEW d \in Falls(copy), ~(d < first), ~(m < d) PROVE d \in days
            OBVIOUS
        <3>1. d \in Nat /\ first <= d /\ d <= m /\ d <= day BY <1>2, <2>7
        <3>2. CASE d = first BY <3>2, <2>4
        <3>3. CASE d # first
            <4>1. m # first BY <3>1, <3>3, <2>7, <1>2
            <4>2. ~Past(copy.end, m) BY <4>1, <2>2, <2>5 DEF Ahead
            <4>3. ~Past(copy.end, d)
                <5>1. copy.end \in Int \cup {None} BY SoundIs
                <5> QED BY <5>1, <4>2, <3>1, <2>7 DEF Past
            <4>4. d \in Ahead(copy, first) BY <4>3, <3>1, <3>3, <1>2 DEF Ahead
            <4> QED BY <4>4, <3>1, <2>3
        <3> QED BY <3>2, <3>3
    <2> DEFINE n == NextOccurrence(copy, m)
    <2>9. /\ n # None => StepsTo(copy, m, n) /\ ~Past(copy.end, n)
          /\ n = None => \A x \in Falls(copy) : x <= m \/ Past(copy.end, x)
        BY <2>7, NextIs
    <2>10. next = n BY <2>4
    <2> HIDE DEF n, next
    <2>11. days \subseteq Days
        <3>1. \A d \in days : d \in 0..Horizon BY <2>2, <1>2
        <3> QED BY <3>1, HorizonIs
    <2>12. ASSUME n # None
           PROVE  /\ n \in Falls(copy) /\ n \in Days /\ \A d \in days \cup {first} : d < n
                  /\ \A d \in Falls(copy) : d < first \/ d \in days \/ n <= d
        <3>1. /\ n \in Falls(copy) /\ n \in Days /\ n \in Nat /\ m < n
              /\ \A x \in Falls(copy) : x <= m \/ n <= x
            BY <2>9, <2>12 DEF StepsTo
        <3>2. \A d \in days : d \in Nat /\ d <= m BY <2>2, <2>5
        <3> HIDE DEF m
        <3>3. \A d \in days : d < n BY <3>1, <3>2, <2>7
        <3>4. \A d \in Falls(copy) : d < first \/ d \in days \/ n <= d
            BY <3>1, <2>7, <2>8, <1>2
        <3> QED BY <3>1, <3>3, <3>4, <2>4
    <2>13. ASSUME n = None
           PROVE  \A d \in Falls(copy) : d < first \/ d \in days \/ Past(copy.end, d)
        <3> HIDE DEF m
        <3> QED BY <2>8, <2>9, <2>7, <2>13, <1>2
    <2>14. Turn(copy, days, n)
        <3>1. copy.next = first BY DEF first
        <3> QED BY <3>1, <2>6, <2>11, <2>12, <2>13 DEF Turn
    <2>15. n \in Days \cup {None} BY <2>12
    <2> QED BY <2>4, <2>5, <2>10, <2>14, <2>15, <1>1
<1> QED BY <1>4, <1>5

-----------------------------------------------------------------------------
(* The invariant.                                                          *)

\* The days rows were posted on.
RowDays(rows) == {r.day : r \in rows}

\* Every day of the schedule before `next` is in `had`.
Covers(row, next, had) == \A d \in Falls(row) : d < next => d \in had

\* A row, with the days posted and passed over: it stands on one of its
\* days, and behind it, or behind its end once it is completed, none is left.
\* One never written from a changed row has each day once, and all of them
\* behind it.
Fine(row, rows, passed, lost) ==
    LET had == RowDays(rows) \cup passed
    IN  /\ Sound(row) /\ row.next \in Falls(row) /\ row.last \in RowDays(rows) \cup {None}
        /\ had \subseteq Falls(row) /\ Covers(row, row.next, had)
        /\ row.gone = "completed" /\ ~lost => \A d \in Falls(row) : d \in had \/ Past(row.end, d)
        /\ ~lost => /\ \A r \in rows : r.nth = 0
                    /\ RowDays(rows) \cap passed = {}
                    /\ row.gone # "completed" => \A d \in had : d < row.next

\* Nobody edits these parts of a row.
Akin(row, copy) ==
    /\ row # None /\ row.start = copy.start /\ row.second = copy.second
    /\ row.frequency = copy.frequency

\* `copy` was the row of a schedule once, when it was live: what lies behind
\* its date is had for good.
Kin(row, rows, passed, copy) ==
    /\ Akin(row, copy) /\ Sound(copy) /\ copy.gone = None /\ copy.next \in Falls(copy)
    /\ Covers(copy, copy.next, RowDays(rows) \cup passed)

\* The plans of a job for the schedules it has loaded.
Plan == [copy : Kept, shut : BOOLEAN, days : SUBSET Days, next : Days \cup {None}, last : Days \cup {None}]
Plans == {None} \cup UNION {[S -> Plan] : S \in SUBSET Schedules}
JobRecords == [state : {"off", "queued", "running"}, day : Nat, left : SUBSET Budgets, due : Plans]
Requests == [op : {"enter", "skip"}, schedule : Schedules, copy : Kept, shut : BOOLEAN]

Shaped ==
    /\ schedules \in [Schedules -> {None} \cup Kept]
    /\ posted = [s \in Schedules |-> posted[s]] /\ skipped = [s \in Schedules |-> skipped[s]]
    /\ job \in [Jobs -> JobRecords] /\ request \in [Clients -> {None} \cup Requests]
    /\ raced \subseteq Schedules /\ broken \subseteq Schedules /\ today \in Nights
    /\ \A j \in Jobs : /\ job[j].state # "off" => up
                       /\ job[j].state = "running" => job[j].day \in Nights
    /\ \A c \in Clients : request[c] # None => up

RowsFine ==
    \A s \in Schedules :
        /\ schedules[s] # None => Fine(schedules[s], posted[s], skipped[s], s \in raced)
        /\ schedules[s] = None => posted[s] = {} /\ skipped[s] = {}

PlanFine(row, rows, passed, plan) ==
    /\ Kin(row, rows, passed, plan.copy)
    /\ Turn(plan.copy, plan.days, plan.next) /\ plan.last \in plan.days \cup {None}
PlansFine ==
    \A j \in Jobs : job[j].due # None =>
        \A s \in DOMAIN job[j].due : PlanFine(schedules[s], posted[s], skipped[s], job[j].due[s])

RequestFine(row, rows, passed, copy) ==
    Kin(row, rows, passed, copy) /\ copy.next <= Horizon
RequestsFine ==
    \A c \in Clients : request[c] # None =>
        LET s == request[c].schedule
        IN  RequestFine(schedules[s], posted[s], skipped[s], request[c].copy)

Promise == Shaped /\ RowsFine /\ PlansFine /\ RequestsFine

(* Kin rows fall on the same days.                                         *)
LEMMA SameFalls ==
    ASSUME NEW row, NEW copy, Akin(row, copy)
    PROVE  Falls(row) = Falls(copy)
BY DEF Akin, Falls

\* A row with the dates of a turn written over it.
After(row, next, last) ==
    [row EXCEPT !.next = IF next # None THEN next ELSE @,
                !.last = IF last # None THEN last ELSE @,
                !.gone = IF next = None /\ @ = None THEN "completed" ELSE @]

(* Its parts.                                                              *)
LEMMA AfterIs ==
    ASSUME NEW row \in Kept, NEW next \in Days \cup {None}, NEW last \in Days \cup {None}
    PROVE  LET after == After(row, next, last)
           IN  /\ after \in Kept /\ Akin(after, row) /\ after.end = row.end
               /\ (Valid(row) => Valid(after))
               /\ after.next = IF next # None THEN next ELSE row.next
               /\ after.last = IF last # None THEN last ELSE row.last
               /\ after.gone = IF next = None /\ row.gone = None THEN "completed" ELSE row.gone
<1> DEFINE after == After(row, next, last)
<1>0. None \notin Days BY MonthIs, ScheduleAssumption
<1>1. /\ after.start = row.start /\ after.second = row.second /\ after.frequency = row.frequency
      /\ after.end = row.end /\ after.budget = row.budget
      /\ after.next = IF next # None THEN next ELSE row.next
      /\ after.last = IF last # None THEN last ELSE row.last
      /\ after.gone = IF next = None /\ row.gone = None THEN "completed" ELSE row.gone
    BY DEF Kept, After
<1>2. after \in Kept BY DEF Kept, After
<1>3. after # None BY <1>2, ScenariosAssumption
<1>4. Valid(row) => Valid(after)
    <2> HIDE DEF after
    <2> QED BY <1>1 DEF Valid
<1> HIDE DEF after
<1>5. Akin(after, row) BY <1>1, <1>3 DEF Akin
<1> QED BY <1>1, <1>2, <1>4, <1>5 DEF after

\* The rows of a schedule once `days` are posted.
Posting(rows, days, by) ==
    rows \cup {[day |-> d, by |-> by, nth |-> Cardinality({r \in rows : r.day = d})] : d \in days}

(* The days of its rows, and how often each has one.                       *)
LEMMA PostingIs ==
    ASSUME NEW rows, NEW days, NEW by
    PROVE  /\ rows \subseteq Posting(rows, days, by)
           /\ RowDays(Posting(rows, days, by)) = RowDays(rows) \cup days
           /\ (\A r \in rows : r.nth = 0) /\ RowDays(rows) \cap days = {} =>
                 \A r \in Posting(rows, days, by) : r.nth = 0
<1> DEFINE New(d) == [day |-> d, by |-> by, nth |-> Cardinality({r \in rows : r.day = d})]
<1> DEFINE more == {New(d) : d \in days}
<1>1. Posting(rows, days, by) = rows \cup more BY DEF Posting
<1>2. \A d : New(d).day = d /\ New(d).nth = Cardinality({r \in rows : r.day = d}) OBVIOUS
<1> HIDE DEF New
<1>3. RowDays(rows \cup more) = RowDays(rows) \cup days BY <1>2 DEF RowDays
<1>4. ASSUME \A r \in rows : r.nth = 0, RowDays(rows) \cap days = {}, NEW r \in rows \cup more
      PROVE  r.nth = 0
    <2>1. CASE r \in rows BY <2>1, <1>4
    <2>2. CASE r \in more
        <3>1. PICK d \in days : r = New(d) BY <2>2
        <3>2. {q \in rows : q.day = d} = {} BY <1>4 DEF RowDays
        <3> QED BY <3>1, <3>2, <1>2, FS_EmptySet
    <2> QED BY <2>1, <2>2
<1> QED BY <1>1, <1>3, <1>4
(* A turn of a schedule leaves its row fine, whoever takes it: from `copy`, *)
(* `days` are posted or passed over and the dates of the row written anew. *)
LEMMA TurnKeeps ==
    ASSUME NEW row \in Kept, NEW rows, NEW passed, NEW lost \in BOOLEAN,
           Fine(row, rows, passed, lost),
           NEW copy, Kin(row, rows, passed, copy),
           NEW days, NEW next \in Days \cup {None}, Turn(copy, days, next),
           NEW rows2, NEW passed2, NEW by,
           \/ rows2 = Posting(rows, days, by) /\ passed2 = passed
           \/ rows2 = rows /\ passed2 = passed \cup days,
           NEW last \in Days \cup {None}, last = None \/ last \in RowDays(rows2),
           NEW lost2 \in BOOLEAN, ~lost2 => ~lost /\ row = copy
    PROVE  /\ After(row, next, last) \in Kept /\ Akin(After(row, next, last), row)
           /\ Fine(After(row, next, last), rows2, passed2, lost2)
           /\ rows \subseteq rows2 /\ passed \subseteq passed2
<1> DEFINE row2 == After(row, next, last)
<1> DEFINE had == RowDays(rows) \cup passed
<1> DEFINE had2 == RowDays(rows2) \cup passed2
<1>1. /\ row2 \in Kept /\ Akin(row2, row) /\ row2.end = row.end /\ (Valid(row) => Valid(row2))
      /\ row2.next = IF next # None THEN next ELSE row.next
      /\ row2.last = IF last # None THEN last ELSE row.last
      /\ row2.gone = IF next = None /\ row.gone = None THEN "completed" ELSE row.gone
    BY AfterIs
<1>2. /\ rows \subseteq rows2 /\ passed \subseteq passed2 /\ had2 = had \cup days
      /\ RowDays(rows) \subseteq RowDays(rows2)
    <2>1. CASE rows2 = Posting(rows, days, by) /\ passed2 = passed BY <2>1, PostingIs
    <2>2. CASE rows2 = rows /\ passed2 = passed \cup days BY <2>2
    <2> QED BY <2>1, <2>2
<1>3. /\ Sound(row) /\ row.next \in Falls(row) /\ row.last \in RowDays(rows) \cup {None}
      /\ had \subseteq Falls(row) /\ Covers(row, row.next, had)
      /\ row.gone = "completed" /\ ~lost => \A d \in Falls(row) : d \in had \/ Past(row.end, d)
      /\ ~lost => /\ \A r \in rows : r.nth = 0
                  /\ RowDays(rows) \cap passed = {}
                  /\ row.gone # "completed" => \A d \in had : d < row.next
    BY DEF Fine
<1>4. /\ Sound(copy) /\ copy.gone = None /\ Akin(row, copy) /\ copy.next \in Falls(copy)
      /\ Covers(copy, copy.next, had)
    BY DEF Kin
<1>5. Falls(row2) = Falls(row) /\ Falls(copy) = Falls(row) /\ Falls(row) \subseteq Nat
      /\ copy.next \in Nat /\ row.next \in Nat
    BY <1>1, <1>3, <1>4, SameFalls, FallsNat
<1>6. /\ days \subseteq Falls(row) /\ days \subseteq Days /\ \A d \in days : copy.next <= d
      /\ next # None =>
            /\ next \in Falls(row) /\ next \in Days
            /\ \A d \in days \cup {copy.next} : d < next
            /\ \A d \in Falls(row) : d < copy.next \/ d \in days \/ next <= d
      /\ next = None => \A d \in Falls(row) : d < copy.next \/ d \in days \/ Past(copy.end, d)
    BY <1>5 DEF Turn
<1>7. None \notin {"deleted", "completed"} BY ScheduleAssumption
<1> HIDE DEF row2, had, had2
<1>8. Sound(row2) BY <1>1, <1>3 DEF Sound
<1>9. row2.next \in Falls(row2) BY <1>1, <1>3, <1>5, <1>6
<1>10. row2.last \in RowDays(rows2) \cup {None} BY <1>1, <1>2, <1>3
<1>11. had2 \subseteq Falls(row2) BY <1>2, <1>3, <1>5, <1>6
<1>12. Covers(row2, row2.next, had2)
    <2> SUFFICES ASSUME NEW d \in Falls(row), d < row2.next PROVE d \in had2
        BY <1>5 DEF Covers
    <2>0. d \in Nat BY <1>5
    <2>1. CASE next = None
        <3>1. d < row.next BY <1>1, <2>1
        <3> QED BY <3>1, <1>2, <1>3 DEF Covers
    <2>2. CASE next # None
        <3>1. d < next /\ next \in Nat BY <1>1, <1>5, <1>6, <2>2
        <3>2. d < copy.next \/ d \in days BY <3>1, <1>6, <2>0, <2>2
        <3>3. d < copy.next => d \in had BY <1>4, <1>5 DEF Covers
        <3> QED BY <3>2, <3>3, <1>2
    <2> QED BY <2>1, <2>2
<1>13. ASSUME row2.gone = "completed", ~lost2, NEW d \in Falls(row2)
       PROVE  d \in had2 \/ Past(row2.end, d)
    <2>1. row = copy /\ ~lost BY <1>13
    <2>2. row.gone = None /\ next = None BY <1>1, <1>4, <1>7, <1>13, <2>1
    <2>3. d \in Falls(row) BY <1>5
    <2>4. d < copy.next \/ d \in days \/ Past(row2.end, d) BY <2>1, <2>2, <2>3, <1>1, <1>6
    <2>5. d < copy.next => d \in had BY <2>3, <1>4, <1>5 DEF Covers
    <2> QED BY <2>4, <2>5, <1>2
<1>14. ASSUME ~lost2
       PROVE  /\ \A r \in rows2 : r.nth = 0
              /\ RowDays(rows2) \cap passed2 = {}
              /\ row2.gone # "completed" => \A d \in had2 : d < row2.next
    <2>1. row = copy /\ ~lost BY <1>14
    <2>2. row.gone # "completed" BY <1>4, <1>7, <2>1
    <2>3. \A d \in had : d < copy.next BY <1>3, <2>1, <2>2
    <2>4. \A d \in days : d \notin had
        <3> SUFFICES ASSUME NEW d \in days, d \in had PROVE FALSE OBVIOUS
        <3>1. d \in Nat /\ copy.next <= d /\ d < copy.next BY <1>5, <1>6, <2>3
        <3> QED BY <3>1, <1>5
    <2>5. RowDays(rows) \cap days = {} /\ passed \cap days = {} BY <2>4 DEF had
    <2>6. (\A r \in rows : r.nth = 0) /\ RowDays(rows) \cap passed = {} BY <1>3, <2>1
    <2>7. (\A r \in rows2 : r.nth = 0) /\ RowDays(rows2) \cap passed2 = {}
        <3>1. CASE rows2 = Posting(rows, days, by) /\ passed2 = passed
            BY <3>1, <2>5, <2>6, PostingIs
        <3>2. CASE rows2 = rows /\ passed2 = passed \cup days BY <3>2, <2>5, <2>6
        <3> QED BY <3>1, <3>2
    <2>8. ASSUME row2.gone # "completed", NEW d \in had2 PROVE d < row2.next
        <3>1. next # None BY <2>8, <1>1, <1>4, <2>1
        <3>2. row2.next = next /\ next \in Nat /\ copy.next < next BY <3>1, <1>1, <1>5, <1>6
        <3>3. CASE d \in had
            <4>1. d \in Nat /\ d < copy.next BY <3>3, <2>3, <1>3, <1>5
            <4> QED BY <4>1, <3>2, <1>5
        <3>4. CASE d \in days BY <3>1, <3>2, <3>4, <1>6
        <3> QED BY <3>3, <3>4, <1>2
    <2> QED BY <2>7, <2>8
<1>15. Fine(row2, rows2, passed2, lost2)
    BY <1>8, <1>9, <1>10, <1>11, <1>12, <1>13, <1>14 DEF Fine, had2
<1> QED BY <1>1, <1>2, <1>15 DEF row2

-----------------------------------------------------------------------------
(* Steps.                                                                  *)

\* What a step may do to the schedules and what they have behind them.
Grows ==
    \A s \in Schedules : schedules[s] # None =>
        /\ Akin(schedules'[s], schedules[s])
        /\ posted[s] \subseteq posted'[s] /\ skipped[s] \subseteq skipped'[s]

(* What was kin stays kin when nothing is taken away.                      *)
LEMMA KinStays ==
    ASSUME NEW row, NEW rows, NEW passed, NEW copy, Kin(row, rows, passed, copy),
           NEW row2, Akin(row2, row), NEW rows2, rows \subseteq rows2,
           NEW passed2, passed \subseteq passed2
    PROVE  Kin(row2, rows2, passed2, copy)
<1>1. RowDays(rows) \subseteq RowDays(rows2) BY DEF RowDays
<1> QED BY <1>1 DEF Kin, Akin, Covers

(* The plans of a job outlive a step that takes nothing away.              *)
LEMMA PlansKept ==
    ASSUME Shaped, PlansFine, Grows, job' \in [Jobs -> JobRecords],
           \A j \in Jobs : job'[j].due \in {None, job[j].due}
    PROVE  PlansFine'
<1> SUFFICES ASSUME NEW j \in Jobs, job'[j].due # None, NEW s \in DOMAIN job'[j].due
             PROVE  PlanFine(schedules'[s], posted'[s], skipped'[s], job'[j].due[s])
    BY DEF PlansFine
<1>1. job'[j].due = job[j].due /\ job[j].due # None OBVIOUS
<1> DEFINE plan == job[j].due[s]
<1>2. PlanFine(schedules[s], posted[s], skipped[s], plan) BY <1>1 DEF PlansFine
<1>3. s \in Schedules
    <2>1. job[j].due \in Plans BY DEF Shaped, JobRecords
    <2> QED BY <2>1, <1>1 DEF Plans
<1> HIDE DEF plan
<1>4. Kin(schedules[s], posted[s], skipped[s], plan.copy) BY <1>2 DEF PlanFine
<1>5. schedules[s] # None BY <1>4 DEF Kin, Akin
<1>6. Kin(schedules'[s], posted'[s], skipped'[s], plan.copy)
    BY <1>3, <1>4, <1>5, KinStays DEF Grows
<1>7. Turn(plan.copy, plan.days, plan.next) /\ plan.last \in plan.days \cup {None}
    BY <1>2 DEF PlanFine
<1>8. plan = job'[j].due[s] BY <1>1 DEF plan
<1> QED BY <1>6, <1>7, <1>8 DEF PlanFine

(* So do the transactions people have begun.                               *)
LEMMA RequestsKept ==
    ASSUME Shaped, RequestsFine, Grows,
           \A c \in Clients : request'[c] \in {None, request[c]}
    PROVE  RequestsFine'
<1> SUFFICES ASSUME NEW c \in Clients, request'[c] # None
             PROVE  LET s == request'[c].schedule
                    IN  RequestFine(schedules'[s], posted'[s], skipped'[s], request'[c].copy)
    BY DEF RequestsFine
<1>1. request'[c] = request[c] /\ request[c] # None OBVIOUS
<1> DEFINE s == request[c].schedule
<1> DEFINE copy == request[c].copy
<1>2. RequestFine(schedules[s], posted[s], skipped[s], copy) BY <1>1 DEF RequestsFine
<1>3. s \in Schedules BY <1>1 DEF Shaped, Requests
<1>4. request'[c].schedule = s /\ request'[c].copy = copy BY <1>1
<1> HIDE DEF s, copy
<1>5. Kin(schedules[s], posted[s], skipped[s], copy) /\ copy.next <= Horizon
    BY <1>2 DEF RequestFine
<1>6. schedules[s] # None BY <1>5 DEF Kin, Akin
<1>7. Kin(schedules'[s], posted'[s], skipped'[s], copy)
    BY <1>3, <1>5, <1>6, KinStays DEF Grows
<1>8. RequestFine(schedules'[s], posted'[s], skipped'[s], copy) BY <1>5, <1>7 DEF RequestFine
<1> QED BY <1>4, <1>8

(* A step that leaves the schedules alone takes nothing away.              *)
LEMMA SameGrows ==
    ASSUME UNCHANGED <<schedules, posted, skipped>>
    PROVE  Grows
BY DEF Grows, Akin

(* Nor does it harm their rows.                                            *)
LEMMA SameRows ==
    ASSUME RowsFine, UNCHANGED <<schedules, posted, skipped, raced>>
    PROVE  RowsFine'
BY DEF RowsFine

(* A live row is kin to itself.                                            *)
LEMMA LiveKin ==
    ASSUME RowsFine, NEW s \in Schedules, Live(s)
    PROVE  /\ Kin(schedules[s], posted[s], skipped[s], schedules[s])
           /\ Sound(schedules[s]) /\ schedules[s].next \in Falls(schedules[s])
BY DEF RowsFine, Fine, Kin, Akin, Live

(* A run begins with the day's budgets.                                    *)
LEMMA BeginRunKeeps ==
    ASSUME Promise, NEW j \in Jobs, BeginRun(j)
    PROVE  Promise'
<1> DEFINE new == [state |-> "running", day |-> today, left |-> Budgets, due |-> None]
<1>1. /\ job' = [job EXCEPT ![j] = new] /\ job[j].state = "queued"
      /\ UNCHANGED <<schedules, posted, skipped, broken, request, raced, up, today>> /\ up
    BY DEF BeginRun, Alive
<1>2. Shaped /\ RowsFine /\ PlansFine /\ RequestsFine BY DEF Promise
<1>3. new \in JobRecords /\ new.due = None /\ new.state = "running" /\ new.day = today
    <2>1. today \in Nat BY <1>2, ScheduleAssumption DEF Shaped
    <2> QED BY <2>1 DEF JobRecords, Plans
<1> HIDE DEF new
<1>4. job' \in [Jobs -> JobRecords] BY <1>1, <1>2, <1>3 DEF Shaped
<1>5. \A i \in Jobs : job'[i] = IF i = j THEN new ELSE job[i] BY <1>1, <1>2 DEF Shaped
<1>6. Shaped' BY <1>1, <1>2, <1>3, <1>4, <1>5 DEF Shaped
<1>7. Grows BY <1>1, SameGrows
<1>8. RowsFine' BY <1>1, <1>2, SameRows
<1>9. PlansFine' BY <1>2, <1>3, <1>4, <1>5, <1>7, PlansKept
<1>10. RequestsFine' BY <1>1, <1>2, <1>7, RequestsKept
<1> QED BY <1>6, <1>8, <1>9, <1>10 DEF Promise

(* Two parts of the record of a job written over.                          *)
LEMMA RecordIs ==
    ASSUME NEW r, NEW left, NEW due,
           r = [state |-> r.state, day |-> r.day, left |-> r.left, due |-> r.due]
    PROVE  [[r EXCEPT !.left = left] EXCEPT !.due = due]
             = [state |-> r.state, day |-> r.day, left |-> left, due |-> due]
<1> DEFINE q == [r EXCEPT !.left = left]
<1>1. q = [state |-> r.state, day |-> r.day, left |-> left, due |-> r.due]
    <2>1. DOMAIN r = {"state", "day", "left", "due"} OBVIOUS
    <2>2. DOMAIN q = {"state", "day", "left", "due"} BY <2>1
    <2>3. q.state = r.state /\ q.day = r.day /\ q.left = left /\ q.due = r.due BY <2>1
    <2>4. q = [x \in DOMAIN q |-> q[x]] OBVIOUS
    <2> HIDE DEF q
    <2> QED BY <2>2, <2>3, <2>4
<1> HIDE DEF q
<1>2. [q EXCEPT !.due = due] = [state |-> r.state, day |-> r.day, left |-> left, due |-> due]
    <2> DEFINE p == [q EXCEPT !.due = due]
    <2>1. DOMAIN q = {"state", "day", "left", "due"} BY <1>1
    <2>2. DOMAIN p = {"state", "day", "left", "due"} BY <2>1
    <2>3. p.state = r.state /\ p.day = r.day /\ p.left = left /\ p.due = due BY <2>1, <1>1
    <2>4. p = [x \in DOMAIN p |-> p[x]] OBVIOUS
    <2> HIDE DEF p
    <2>5. p = [state |-> r.state, day |-> r.day, left |-> left, due |-> due]
        BY <2>2, <2>3, <2>4
    <2> QED BY <2>5 DEF p
<1> QED BY <1>2 DEF q

(* A run loads the schedules of a budget that are due.                     *)
LEMMA LoadDueKeeps ==
    ASSUME Promise, NEW j \in Jobs, NEW b \in Budgets, LoadDue(j, b)
    PROVE  Promise'
<1> DEFINE due == [s \in Due(b, job[j].day) |-> Owed(schedules[s], job[j].day, s \in broken)]
<1> DEFINE day == job[j].day
<1>1. /\ job' = [job EXCEPT ![j].left = @ \ {b}, ![j].due = due]
      /\ job[j].state = "running" /\ job[j].due = None
      /\ UNCHANGED <<schedules, posted, skipped, broken, request, raced, up, today>> /\ up
    BY DEF LoadDue, Alive
<1>2. Shaped /\ RowsFine /\ PlansFine /\ RequestsFine BY DEF Promise
<1>3. day \in Nights /\ day \in Nat /\ day <= Horizon
    <2>1. day \in Nights BY <1>1, <1>2 DEF Shaped
    <2> HIDE DEF day
    <2> QED BY <2>1, HorizonIs, ScheduleAssumption
<1>4. ASSUME NEW s \in Due(b, day)
      PROVE  /\ Owed(schedules[s], day, s \in broken) \in Plan
             /\ PlanFine(schedules[s], posted[s], skipped[s], Owed(schedules[s], day, s \in broken))
    <2> DEFINE copy == schedules[s]
    <2> DEFINE shut == s \in broken
    <2> DEFINE owed == Owed(copy, day, shut)
    <2>1. s \in Schedules /\ Live(s) /\ copy.next <= day BY DEF Due
    <2>2. Kin(copy, posted[s], skipped[s], copy) /\ Sound(copy) /\ copy.next \in Falls(copy)
        BY <2>1, <1>2, LiveKin
    <2>3. owed.copy = copy /\ owed.shut = shut /\ shut \in BOOLEAN BY DEF Owed
    <2> HIDE DEF copy, day, shut
    <2>4. Turn(copy, owed.days, owed.next)
          /\ owed.next \in Days \cup {None} /\ owed.last \in owed.days \cup {None}
        BY <1>3, <2>1, <2>2, TurnOfRun
    <2>5. owed.days \subseteq Days BY <2>4 DEF Turn
    <2>6. owed = [copy |-> owed.copy, shut |-> owed.shut, days |-> owed.days,
                  next |-> owed.next, last |-> owed.last]
        BY DEF Owed
    <2>7. copy \in Kept BY <2>2 DEF Sound
    <2> HIDE DEF owed
    <2>8. owed.last \in Days \cup {None} BY <2>4, <2>5
    <2>9. owed \in Plan BY <2>3, <2>4, <2>5, <2>6, <2>7, <2>8 DEF Plan
    <2>10. PlanFine(copy, posted[s], skipped[s], owed) BY <2>2, <2>3, <2>4 DEF PlanFine
    <2> QED BY <2>9, <2>10 DEF owed, copy, shut
<1>5. due \in Plans
    <2>1. Due(b, day) \in SUBSET Schedules BY DEF Due
    <2>2. due \in [Due(b, day) -> Plan] BY <1>4
    <2> HIDE DEF due
    <2> QED BY <2>1, <2>2 DEF Plans
<1>6. DOMAIN due = Due(b, day) /\ \A s \in Due(b, day) : due[s] = Owed(schedules[s], day, s \in broken)
    OBVIOUS
<1> HIDE DEF due, day
<1> DEFINE new == [state |-> "running", day |-> day, left |-> job[j].left \ {b}, due |-> due]
<1>7. job[j] \in JobRecords BY <1>2 DEF Shaped
<1>8. job' = [job EXCEPT ![j] = new]
    <2>1. job[j] = [state |-> job[j].state, day |-> job[j].day, left |-> job[j].left,
                    due |-> job[j].due]
        BY <1>7 DEF JobRecords
    <2> DEFINE r == job[j]
    <2>2. r.state = "running" /\ r.day = day BY <1>1 DEF day
    <2>4. r = [state |-> r.state, day |-> r.day, left |-> r.left, due |-> r.due] BY <2>1
    <2> HIDE DEF r
    <2>5. [[r EXCEPT !.left = r.left \ {b}] EXCEPT !.due = due]
            = [state |-> r.state, day |-> r.day, left |-> r.left \ {b}, due |-> due]
        BY <2>4, RecordIs
    <2>3. job' = [job EXCEPT ![j] = [[job[j] EXCEPT !.left = job[j].left \ {b}] EXCEPT !.due = due]]
        BY <1>1, <1>2 DEF Shaped
    <2> QED BY <2>2, <2>3, <2>5 DEF r
<1>9. new \in JobRecords /\ new.due = due /\ new.state = "running" /\ new.day = day
    BY <1>3, <1>5, <1>7 DEF JobRecords
<1> HIDE DEF new
<1>10. job' \in [Jobs -> JobRecords] BY <1>2, <1>8, <1>9 DEF Shaped
<1>11. \A i \in Jobs : job'[i] = IF i = j THEN new ELSE job[i] BY <1>2, <1>8 DEF Shaped
<1>12. Shaped' BY <1>1, <1>2, <1>3, <1>9, <1>10, <1>11 DEF Shaped
<1>13. Grows BY <1>1, SameGrows
<1>14. RowsFine' BY <1>1, <1>2, SameRows
<1>15. PlansFine'
    <2> SUFFICES ASSUME NEW i \in Jobs, job'[i].due # None, NEW s \in DOMAIN job'[i].due
                 PROVE  PlanFine(schedules[s], posted[s], skipped[s], job'[i].due[s])
        BY <1>1 DEF PlansFine
    <2>2. CASE i = j
        <3>1. job'[i].due = due BY <2>2, <1>9, <1>11
        <3>2. s \in Due(b, day) /\ due[s] = Owed(schedules[s], day, s \in broken) BY <3>1, <1>6
        <3> QED BY <3>1, <3>2, <1>4
    <2>3. CASE i # j
        <3>1. job'[i].due = job[i].due BY <2>3, <1>11
        <3> QED BY <3>1, <1>2 DEF PlansFine
    <2> QED BY <2>2, <2>3
<1>16. RequestsFine' BY <1>1, <1>2, <1>13, RequestsKept
<1> QED BY <1>12, <1>14, <1>15, <1>16 DEF Promise

(* Nothing is under way in a job that is off.                              *)
LEMMA OffIs ==
    Off \in JobRecords /\ Off.state = "off" /\ Off.due = None
BY DEF Off, JobRecords, Plans

(* A job has done with a budget, or with its run.                          *)
LEMMA FinishedIs ==
    ASSUME Shaped, NEW j \in Jobs, up, Finished(j) \/ job' = [job EXCEPT ![j] = Off]
    PROVE  /\ job' \in [Jobs -> JobRecords]
           /\ \A i \in Jobs : /\ job'[i].due \in {None, job[i].due}
                              /\ job'[i].state = "running" => job'[i].day \in Nights
<1> DEFINE old == job[j]
<1> DEFINE kept == [old EXCEPT !.due = None]
<1> DEFINE new == IF job' = [job EXCEPT ![j] = Off] THEN Off
                  ELSE IF old.left = {} THEN Off ELSE kept
<1>1. old \in JobRecords /\ (old.state = "running" => old.day \in Nights) BY DEF Shaped
<1>2. job' = [job EXCEPT ![j] = new] BY DEF Finished
<1>3. kept \in JobRecords /\ kept.due = None /\ kept.state = old.state /\ kept.day = old.day
    <2> HIDE DEF old
    <2> QED BY <1>1 DEF JobRecords, Plans
<1> HIDE DEF old, kept
<1>4. new \in JobRecords /\ new.due = None /\ (new.state = "running" => new.day \in Nights)
    <2>1. CASE new = Off BY <2>1, OffIs
    <2>2. CASE new = kept BY <2>2, <1>1, <1>3
    <2> QED BY <2>1, <2>2
<1> HIDE DEF new
<1>5. job' \in [Jobs -> JobRecords] BY <1>2, <1>4 DEF Shaped
<1>6. \A i \in Jobs : job'[i] = IF i = j THEN new ELSE job[i] BY <1>2 DEF Shaped
<1>7. \A i \in Jobs : job'[i].due \in {None, job[i].due} BY <1>4, <1>6
<1>8. \A i \in Jobs : job'[i].state = "running" => job'[i].day \in Nights
    BY <1>4, <1>6 DEF Shaped
<1> QED BY <1>5, <1>7, <1>8

(* A run posts what it owes and moves the schedules on.                    *)
LEMMA CommitDueKeeps ==
    ASSUME Promise, NEW j \in Jobs, CommitDue(j)
    PROVE  Promise'
<1> DEFINE due == job[j].due
<1> DEFINE taken == {s \in DOMAIN due : Live(s)}
<1>1. /\ up /\ due # None /\ Finished(j)
      /\ UNCHANGED <<up, today, broken, skipped, request>>
      /\ schedules' = [s \in Schedules |->
                          IF s \in taken THEN After(schedules[s], due[s].next, due[s].last)
                          ELSE schedules[s]]
      /\ posted' = [s \in Schedules |->
                      IF s \in taken THEN Posting(posted[s], due[s].days, "run") ELSE posted[s]]
      /\ raced' = raced \cup {s \in taken : schedules[s] # due[s].copy}
    BY DEF CommitDue, Alive, Advanced, Entered, Stale, After, Posting
<1>2. Shaped /\ RowsFine /\ PlansFine /\ RequestsFine BY DEF Promise
<1>3. /\ DOMAIN due \subseteq Schedules
      /\ \A s \in DOMAIN due : /\ due[s] \in Plan
                               /\ PlanFine(schedules[s], posted[s], skipped[s], due[s])
    <2>1. due \in Plans BY <1>2 DEF Shaped, JobRecords
    <2>2. PICK S \in SUBSET Schedules : due \in [S -> Plan] BY <2>1, <1>1 DEF Plans
    <2>3. \A s \in DOMAIN due : PlanFine(schedules[s], posted[s], skipped[s], due[s])
        BY <1>1, <1>2 DEF PlansFine
    <2> HIDE DEF due
    <2> QED BY <2>2, <2>3
<1>4. taken \subseteq Schedules BY <1>3
<1>5. ASSUME NEW s \in taken
      PROVE  /\ schedules[s] \in Kept /\ schedules'[s] \in Kept
             /\ Akin(schedules'[s], schedules[s])
             /\ Fine(schedules'[s], posted'[s], skipped[s], s \in raced')
             /\ posted[s] \subseteq posted'[s]
    <2> DEFINE row == schedules[s]
    <2> DEFINE plan == due[s]
    <2> DEFINE rows == posted[s]
    <2> DEFINE passed == skipped[s]
    <2>1. s \in Schedules /\ s \in DOMAIN due /\ row # None /\ row.gone = None
        BY <1>4 DEF Live
    <2>2. plan \in Plan /\ PlanFine(row, rows, passed, plan) BY <2>1, <1>3
    <2>3. row \in Kept BY <2>1, <1>2 DEF Shaped
    <2>4. Fine(row, rows, passed, s \in raced) BY <2>1, <1>2 DEF RowsFine
    <2> DEFINE lost == s \in raced
    <2> DEFINE lost2 == s \in raced'
    <2>5. lost \in BOOLEAN /\ lost2 \in BOOLEAN /\ (~lost2 => ~lost /\ row = plan.copy)
        BY <1>1
    <2> DEFINE rows2 == Posting(rows, plan.days, "run")
    <2>6. schedules'[s] = After(row, plan.next, plan.last) /\ posted'[s] = rows2
        BY <1>1, <2>1
    <2>7. Fine(row, rows, passed, lost) BY <2>4
    <2> HIDE DEF row, plan, rows, passed, lost, lost2
    <2>8. /\ Kin(row, rows, passed, plan.copy) /\ Turn(plan.copy, plan.days, plan.next)
          /\ plan.last \in plan.days \cup {None}
        BY <2>2 DEF PlanFine
    <2>9. plan.next \in Days \cup {None} /\ plan.last \in Days \cup {None} BY <2>2 DEF Plan
    <2>10. plan.last = None \/ plan.last \in RowDays(rows2) BY <2>8, PostingIs
    <2>11. rows2 = Posting(rows, plan.days, "run") OBVIOUS
    <2> HIDE DEF rows2
    <2>12. /\ After(row, plan.next, plan.last) \in Kept
           /\ Akin(After(row, plan.next, plan.last), row)
           /\ Fine(After(row, plan.next, plan.last), rows2, passed, lost2)
           /\ rows \subseteq rows2
        BY <2>3, <2>5, <2>7, <2>8, <2>9, <2>10, <2>11, TurnKeeps
    <2> QED BY <2>3, <2>6, <2>12 DEF row, rows, passed, lost2
<1>6. ASSUME NEW s \in Schedules, s \notin taken
      PROVE  schedules'[s] = schedules[s] /\ posted'[s] = posted[s] /\ (s \in raced' <=> s \in raced)
    BY <1>1, <1>6
<1> HIDE DEF due, taken
<1>7. job' \in [Jobs -> JobRecords] /\ \A i \in Jobs : job'[i].due \in {None, job[i].due}
      /\ \A k \in Jobs : job'[k].state = "running" => job'[k].day \in Nights
    BY <1>1, <1>2, FinishedIs
<1>8. Shaped'
    <2>1. schedules' \in [Schedules -> {None} \cup Kept]
        <3>1. \A s \in Schedules : schedules'[s] \in {None} \cup Kept
            BY <1>2, <1>5, <1>6 DEF Shaped
        <3>2. schedules' = [s \in Schedules |-> schedules'[s]] BY <1>1
        <3> QED BY <3>1, <3>2
    <2>2. posted' = [s \in Schedules |-> posted'[s]] BY <1>1
    <2>3. raced' \subseteq Schedules BY <1>1, <1>2, <1>4 DEF Shaped
    <2> QED BY <2>1, <2>2, <2>3, <1>1, <1>2, <1>7 DEF Shaped
<1>9. Grows
    <2> SUFFICES ASSUME NEW s \in Schedules, schedules[s] # None
                 PROVE  /\ Akin(schedules'[s], schedules[s])
                        /\ posted[s] \subseteq posted'[s] /\ skipped[s] \subseteq skipped'[s]
        BY DEF Grows
    <2>1. skipped'[s] = skipped[s] BY <1>1
    <2>2. CASE s \in taken BY <2>1, <2>2, <1>5
    <2>3. CASE s \notin taken BY <2>1, <2>3, <1>6 DEF Akin
    <2> QED BY <2>2, <2>3
<1>10. RowsFine'
    <2> SUFFICES ASSUME NEW s \in Schedules
                 PROVE  /\ schedules'[s] # None =>
                              Fine(schedules'[s], posted'[s], skipped'[s], s \in raced')
                        /\ schedules'[s] = None => posted'[s] = {} /\ skipped'[s] = {}
        BY DEF RowsFine
    <2>1. skipped'[s] = skipped[s] BY <1>1
    <2>2. CASE s \in taken BY <2>1, <2>2, <1>5 DEF Akin
    <2>3. CASE s \notin taken
        <3>1. schedules[s] # None => Fine(schedules[s], posted[s], skipped[s], s \in raced)
            BY <1>2 DEF RowsFine
        <3>2. schedules[s] # None => Fine(schedules[s], posted[s], skipped[s], s \in raced')
            <4> DEFINE a == s \in raced
            <4> DEFINE b == s \in raced'
            <4>1. a = b BY <2>3, <1>6
            <4>2. schedules[s] # None => Fine(schedules[s], posted[s], skipped[s], a) BY <3>1
            <4> HIDE DEF a, b
            <4>3. schedules[s] # None => Fine(schedules[s], posted[s], skipped[s], b)
                BY <4>1, <4>2
            <4> QED BY <4>3 DEF b
        <3> QED BY <3>2, <2>1, <2>3, <1>2, <1>6 DEF RowsFine
    <2> QED BY <2>2, <2>3
<1>11. PlansFine' BY <1>2, <1>7, <1>9, PlansKept
<1>12. RequestsFine'
    <2>1. \A c \in Clients : request'[c] \in {None, request[c]} BY <1>1
    <2> QED BY <2>1, <1>2, <1>9, RequestsKept
<1> QED BY <1>8, <1>10, <1>11, <1>12 DEF Promise

(* A run that is refused writes nothing.                                   *)
LEMMA FailDueKeeps ==
    ASSUME Promise, NEW j \in Jobs, FailDue(j)
    PROVE  Promise'
<1>1. /\ job' = [job EXCEPT ![j] = Off] /\ up
      /\ UNCHANGED <<schedules, posted, skipped, broken, request, raced, up, today>>
    BY DEF FailDue, Alive
<1>2. Shaped /\ RowsFine /\ PlansFine /\ RequestsFine BY DEF Promise
<1>3. job' \in [Jobs -> JobRecords] /\ \A i \in Jobs : job'[i].due \in {None, job[i].due}
      /\ \A k \in Jobs : job'[k].state = "running" => job'[k].day \in Nights
    BY <1>1, <1>2, FinishedIs
<1>4. Shaped' BY <1>1, <1>2, <1>3 DEF Shaped
<1>5. Grows BY <1>1, SameGrows
<1>6. RowsFine' BY <1>1, <1>2, SameRows
<1>7. PlansFine' BY <1>2, <1>3, <1>5, PlansKept
<1>8. RequestsFine' BY <1>1, <1>2, <1>5, RequestsKept
<1> QED BY <1>4, <1>6, <1>7, <1>8 DEF Promise

(* A step that writes one schedule: what is said of it is said of all.     *)
LEMMA OneWritten ==
    ASSUME Shaped, RowsFine, NEW s \in Schedules, NEW row \in Kept, NEW rows, NEW passed,
           schedules' = [schedules EXCEPT ![s] = row],
           posted' = [posted EXCEPT ![s] = rows], skipped' = [skipped EXCEPT ![s] = passed],
           raced' \subseteq Schedules, raced' \ {s} = raced \ {s},
           schedules[s] # None =>
              Akin(row, schedules[s]) /\ posted[s] \subseteq rows /\ skipped[s] \subseteq passed,
           Fine(row, rows, passed, s \in raced')
    PROVE  /\ schedules' \in [Schedules -> {None} \cup Kept]
           /\ posted' = [t \in Schedules |-> posted'[t]]
           /\ skipped' = [t \in Schedules |-> skipped'[t]]
           /\ Grows /\ RowsFine'
<1>1. /\ schedules \in [Schedules -> {None} \cup Kept]
      /\ posted = [t \in Schedules |-> posted[t]] /\ skipped = [t \in Schedules |-> skipped[t]]
    BY DEF Shaped
<1>2. schedules' \in [Schedules -> {None} \cup Kept] BY <1>1
<1>3. DOMAIN posted = Schedules /\ DOMAIN skipped = Schedules BY <1>1
<1>4. posted' = [t \in Schedules |-> posted'[t]] BY <1>3
<1>5. skipped' = [t \in Schedules |-> skipped'[t]] BY <1>3
<1>6. schedules'[s] = row /\ posted'[s] = rows /\ skipped'[s] = passed BY <1>1, <1>3
<1>7. ASSUME NEW t \in Schedules, t # s
      PROVE  schedules'[t] = schedules[t] /\ posted'[t] = posted[t] /\ skipped'[t] = skipped[t]
    BY <1>1, <1>3, <1>7
<1>8. Grows
    <2> SUFFICES ASSUME NEW t \in Schedules, schedules[t] # None
                 PROVE  /\ Akin(schedules'[t], schedules[t])
                        /\ posted[t] \subseteq posted'[t] /\ skipped[t] \subseteq skipped'[t]
        BY DEF Grows
    <2>1. CASE t = s BY <2>1, <1>6
    <2>2. CASE t # s BY <2>2, <1>7 DEF Akin
    <2> QED BY <2>1, <2>2
<1>9. RowsFine'
    <2> SUFFICES ASSUME NEW t \in Schedules
                 PROVE  /\ schedules'[t] # None =>
                              Fine(schedules'[t], posted'[t], skipped'[t], t \in raced')
                        /\ schedules'[t] = None => posted'[t] = {} /\ skipped'[t] = {}
        BY DEF RowsFine
    <2>1. CASE t = s
        <3>1. row # None BY ScenariosAssumption
        <3> QED BY <3>1, <2>1, <1>6
    <2>2. CASE t # s
        <3> DEFINE a == t \in raced
        <3> DEFINE b == t \in raced'
        <3>1. a = b BY <2>2
        <3>2. schedules[t] # None => Fine(schedules[t], posted[t], skipped[t], a) BY DEF RowsFine
        <3> HIDE DEF a, b
        <3>3. schedules[t] # None => Fine(schedules[t], posted[t], skipped[t], b) BY <3>1, <3>2
        <3>4. schedules[t] = None => posted[t] = {} /\ skipped[t] = {} BY DEF RowsFine
        <3> QED BY <3>3, <3>4, <2>2, <1>7 DEF b
    <2> QED BY <2>1, <2>2
<1> QED BY <1>2, <1>4, <1>5, <1>8, <1>9

(* A transaction of a person begins: it reads the schedule.                *)
LEMMA BeginKeeps ==
    ASSUME Promise, NEW c \in Clients, NEW s \in Schedules, NEW op \in {"enter", "skip"},
           Begin(c, s, op)
    PROVE  Promise'
<1> DEFINE new == [op |-> op, schedule |-> s, copy |-> schedules[s], shut |-> s \in broken]
<1>1. /\ request' = [request EXCEPT ![c] = new] /\ Live(s) /\ schedules[s].next <= Horizon
      /\ UNCHANGED <<schedules, posted, skipped, broken, job, raced, up, today>> /\ up
    BY DEF Begin, Ask
<1>2. Shaped /\ RowsFine /\ PlansFine /\ RequestsFine BY DEF Promise
<1>3. new \in Requests /\ new.schedule = s /\ new.copy = schedules[s]
    BY <1>1, <1>2 DEF Requests, Live, Shaped
<1> HIDE DEF new
<1>4. request' \in [Clients -> {None} \cup Requests]
      /\ \A d \in Clients : request'[d] = IF d = c THEN new ELSE request[d]
    BY <1>1, <1>2, <1>3 DEF Shaped
<1>5. Shaped' BY <1>1, <1>2, <1>4 DEF Shaped
<1>6. Grows BY <1>1, SameGrows
<1>7. RowsFine' BY <1>1, <1>2, SameRows
<1>8. PlansFine'
    <2>1. job' \in [Jobs -> JobRecords] /\ \A i \in Jobs : job'[i].due \in {None, job[i].due}
        BY <1>1, <1>2 DEF Shaped
    <2> QED BY <2>1, <1>2, <1>6, PlansKept
<1>9. RequestsFine'
    <2>1. RequestFine(schedules[s], posted[s], skipped[s], schedules[s])
        <3>1. Kin(schedules[s], posted[s], skipped[s], schedules[s]) BY <1>1, <1>2, LiveKin
        <3> QED BY <3>1, <1>1 DEF RequestFine
    <2> SUFFICES ASSUME NEW d \in Clients, request'[d] # None
                 PROVE  LET t == request'[d].schedule
                        IN  RequestFine(schedules[t], posted[t], skipped[t], request'[d].copy)
        BY <1>1 DEF RequestsFine
    <2>2. CASE d = c BY <2>1, <2>2, <1>3, <1>4
    <2>3. CASE d # c BY <2>3, <1>2, <1>4 DEF RequestsFine
    <2> QED BY <2>2, <2>3
<1> QED BY <1>5, <1>7, <1>8, <1>9 DEF Promise

(* A transaction of a person commits: the schedule moves on from the date  *)
(* read, which is posted or passed over.                                   *)
LEMMA MoveKeeps ==
    ASSUME Promise, NEW c \in Clients, request[c] # None, up,
           request' = [request EXCEPT ![c] = None], UNCHANGED <<up, today, job, broken>>,
           NEW s, s = request[c].schedule, NEW copy, copy = request[c].copy,
           NEW last \in Days \cup {None},
           schedules' = [schedules EXCEPT
                            ![s] = After(schedules[s], NextOccurrence(copy, copy.next), last)],
           raced' = IF schedules[s] # copy THEN raced \cup {s} ELSE raced,
           NEW rows, NEW passed,
           posted' = [posted EXCEPT ![s] = rows], skipped' = [skipped EXCEPT ![s] = passed],
           \/ /\ rows = Posting(posted[s], {copy.next}, "person")
              /\ passed = skipped[s]
           \/ /\ rows = posted[s]
              /\ passed = skipped[s] \cup {copy.next},
           last = None \/ last \in RowDays(rows)
    PROVE  Promise'
<1> DEFINE row == schedules[s]
<1> DEFINE next == NextOccurrence(copy, copy.next)
<1> DEFINE lost == s \in raced
<1> DEFINE lost2 == s \in raced'
<1> DEFINE after == After(row, next, last)
<1>1. /\ request' = [request EXCEPT ![c] = None] /\ up
      /\ UNCHANGED <<up, today, broken, job>>
      /\ schedules' = [schedules EXCEPT ![s] = after]
      /\ raced' = IF row # copy THEN raced \cup {s} ELSE raced
    OBVIOUS
<1>2. Shaped /\ RowsFine /\ PlansFine /\ RequestsFine BY DEF Promise
<1>3. s \in Schedules BY <1>2 DEF Shaped, Requests
<1>4. Kin(row, posted[s], skipped[s], copy) /\ copy.next <= Horizon
    BY <1>2 DEF RequestsFine, RequestFine
<1>5. row \in Kept /\ row # None
    <2>1. row # None BY <1>4 DEF Kin, Akin
    <2> QED BY <2>1, <1>2, <1>3 DEF Shaped
<1>6. Fine(row, posted[s], skipped[s], lost) BY <1>2, <1>3, <1>5 DEF RowsFine
<1>7. lost \in BOOLEAN /\ lost2 \in BOOLEAN /\ (~lost2 => ~lost /\ row = copy) BY <1>1
<1>9. Sound(copy) /\ copy.next \in Falls(copy) BY <1>4 DEF Kin
<1>10. Turn(copy, {copy.next}, next) BY <1>4, <1>9, TurnOfOne
<1>11. next \in Days \cup {None} BY <1>10 DEF Turn
<1>12. raced' \subseteq Schedules /\ raced' \ {s} = raced \ {s} BY <1>1, <1>2, <1>3 DEF Shaped
<1> DEFINE rows0 == posted[s]
<1> DEFINE passed0 == skipped[s]
<1>13. /\ Fine(row, rows0, passed0, lost) /\ Kin(row, rows0, passed0, copy)
       /\ \/ rows = Posting(rows0, {copy.next}, "person") /\ passed = passed0
          \/ rows = rows0 /\ passed = passed0 \cup {copy.next}
    BY <1>4, <1>6
<1> HIDE DEF row, next, lost, lost2, rows0, passed0
<1>14. /\ after \in Kept /\ Akin(after, row) /\ Fine(after, rows, passed, lost2)
       /\ rows0 \subseteq rows /\ passed0 \subseteq passed
    BY <1>5, <1>7, <1>10, <1>11, <1>13, TurnKeeps
<1> HIDE DEF after
<1>8. Fine(after, rows, passed, s \in raced') BY <1>14 DEF lost2
<1>15. schedules[s] # None =>
          Akin(after, schedules[s]) /\ posted[s] \subseteq rows /\ skipped[s] \subseteq passed
    BY <1>14 DEF row, rows0, passed0
<1>16. /\ schedules' \in [Schedules -> {None} \cup Kept]
       /\ posted' = [t \in Schedules |-> posted'[t]]
       /\ skipped' = [t \in Schedules |-> skipped'[t]]
       /\ Grows /\ RowsFine'
    BY <1>1, <1>2, <1>3, <1>8, <1>12, <1>14, <1>15, OneWritten
<1>17. request' \in [Clients -> {None} \cup Requests]
       /\ \A d \in Clients : request'[d] \in {None, request[d]}
    BY <1>1, <1>2 DEF Shaped
<1>18. Shaped' BY <1>1, <1>2, <1>12, <1>16, <1>17 DEF Shaped
<1>19. PlansFine'
    <2>1. job' \in [Jobs -> JobRecords] /\ \A i \in Jobs : job'[i].due \in {None, job[i].due}
        BY <1>1, <1>2 DEF Shaped
    <2> QED BY <2>1, <1>2, <1>16, PlansKept
<1>20. RequestsFine' BY <1>2, <1>16, <1>17, RequestsKept
<1> QED BY <1>16, <1>18, <1>19, <1>20 DEF Promise

(* A person enters the occurrence the schedule stands at.                  *)
LEMMA CommitEnterKeeps ==
    ASSUME Promise, NEW c \in Clients, CommitEnter(c)
    PROVE  Promise'
<1> DEFINE s == request[c].schedule
<1> DEFINE copy == request[c].copy
<1> DEFINE rows == Posting(posted[s], {copy.next}, "person")
<1> DEFINE passed == skipped[s]
<1>1. /\ request[c] # None /\ up /\ request' = [request EXCEPT ![c] = None]
      /\ UNCHANGED <<up, today, job, broken>>
      /\ schedules' = [schedules EXCEPT
                          ![s] = After(schedules[s], NextOccurrence(copy, copy.next), copy.next)]
      /\ raced' = IF schedules[s] # copy THEN raced \cup {s} ELSE raced
      /\ posted' = [posted EXCEPT ![s] = rows] /\ skipped' = skipped
    BY DEF CommitEnter, Answer, Alive, Entered, Posting, Move, Advanced, After, Stale
<1>2. skipped' = [skipped EXCEPT ![s] = passed]
    <2>1. skipped = [t \in Schedules |-> skipped[t]] BY DEF Promise, Shaped
    <2> QED BY <2>1, <1>1
<1>3. copy.next \in Days
    <2>1. copy \in Kept BY <1>1 DEF Promise, Shaped, Requests
    <2> HIDE DEF copy
    <2> QED BY <2>1 DEF Kept
<1>4. copy.next \in RowDays(rows) BY PostingIs
<1>5. rows = Posting(posted[s], {copy.next}, "person") /\ passed = skipped[s] OBVIOUS
<1>6. s = request[c].schedule /\ copy = request[c].copy OBVIOUS
<1> HIDE DEF s, copy, rows, passed
\* Names for what was read, the same before the step and after it.
<1>7. PICK a, b, l, r, p : a = s /\ b = copy /\ l = copy.next /\ r = rows /\ p = passed OBVIOUS
<1>8. request[c] # None /\ up /\ request' = [request EXCEPT ![c] = None] BY <1>1
<1>9. UNCHANGED <<up, today, job, broken>> BY <1>1
<1>10. a = request[c].schedule /\ b = request[c].copy BY <1>7, <1>6
<1>11. l \in Days \cup {None} BY <1>7, <1>3
<1>12. schedules' = [schedules EXCEPT ![a] = After(schedules[a], NextOccurrence(b, b.next), l)]
    BY <1>1, <1>7
<1>13. raced' = IF schedules[a] # b THEN raced \cup {a} ELSE raced BY <1>1, <1>7
<1>14. posted' = [posted EXCEPT ![a] = r] /\ skipped' = [skipped EXCEPT ![a] = p] BY <1>1, <1>2, <1>7
<1>15. \/ r = Posting(posted[a], {b.next}, "person") /\ p = skipped[a]
       \/ r = posted[a] /\ p = skipped[a] \cup {b.next}
    BY <1>7, <1>5
<1>16. l = None \/ l \in RowDays(r) BY <1>7, <1>4
<1> QED BY <1>8, <1>9, <1>10, <1>11, <1>12, <1>13, <1>14, <1>15, <1>16, MoveKeeps

(* A person passes the occurrence over.                                    *)
LEMMA CommitSkipKeeps ==
    ASSUME Promise, NEW c \in Clients, CommitSkip(c)
    PROVE  Promise'
<1> DEFINE s == request[c].schedule
<1> DEFINE copy == request[c].copy
<1> DEFINE rows == posted[s]
<1> DEFINE passed == skipped[s] \cup {copy.next}
<1>1. /\ request[c] # None /\ up /\ request' = [request EXCEPT ![c] = None]
      /\ UNCHANGED <<up, today, job, broken>>
      /\ schedules' = [schedules EXCEPT
                          ![s] = After(schedules[s], NextOccurrence(copy, copy.next), None)]
      /\ raced' = IF schedules[s] # copy THEN raced \cup {s} ELSE raced
      /\ skipped' = [skipped EXCEPT ![s] = skipped[s] \cup {copy.next}] /\ posted' = posted
    BY DEF CommitSkip, Answer, Alive, Move, Advanced, After, Stale
<1>2. posted' = [posted EXCEPT ![s] = rows] /\ skipped' = [skipped EXCEPT ![s] = passed]
    <2>1. posted = [t \in Schedules |-> posted[t]] BY DEF Promise, Shaped
    <2> QED BY <2>1, <1>1
<1>3. rows = posted[s] /\ passed = skipped[s] \cup {copy.next} OBVIOUS
<1>4. s = request[c].schedule /\ copy = request[c].copy OBVIOUS
<1> HIDE DEF s, copy, rows, passed
\* Names for what was read, the same before the step and after it.
<1>7. PICK a, b, l, r, p : a = s /\ b = copy /\ l = None /\ r = rows /\ p = passed OBVIOUS
<1>8. request[c] # None /\ up /\ request' = [request EXCEPT ![c] = None] BY <1>1
<1>9. UNCHANGED <<up, today, job, broken>> BY <1>1
<1>10. a = request[c].schedule /\ b = request[c].copy BY <1>7, <1>4
<1>11. l \in Days \cup {None} BY <1>7, <1>3
<1>12. schedules' = [schedules EXCEPT ![a] = After(schedules[a], NextOccurrence(b, b.next), l)]
    BY <1>1, <1>7
<1>13. raced' = IF schedules[a] # b THEN raced \cup {a} ELSE raced BY <1>1, <1>7
<1>14. posted' = [posted EXCEPT ![a] = r] /\ skipped' = [skipped EXCEPT ![a] = p] BY <1>1, <1>2, <1>7
<1>15. \/ r = Posting(posted[a], {b.next}, "person") /\ p = skipped[a]
       \/ r = posted[a] /\ p = skipped[a] \cup {b.next}
    BY <1>7, <1>3
<1>16. l = None \/ l \in RowDays(r) BY <1>7, <1>4
<1> QED BY <1>8, <1>9, <1>10, <1>11, <1>12, <1>13, <1>14, <1>15, <1>16, MoveKeeps

(* The register refuses the row.                                           *)
LEMMA RefuseEnterKeeps ==
    ASSUME Promise, NEW c \in Clients, RefuseEnter(c)
    PROVE  Promise'
<1>1. /\ request' = [request EXCEPT ![c] = None] /\ up
      /\ UNCHANGED <<schedules, posted, skipped, broken, job, raced, up, today>>
    BY DEF RefuseEnter, Answer, Alive
<1>2. Shaped /\ RowsFine /\ PlansFine /\ RequestsFine BY DEF Promise
<1>3. request' \in [Clients -> {None} \cup Requests]
      /\ \A d \in Clients : request'[d] \in {None, request[d]}
    BY <1>1, <1>2 DEF Shaped
<1>4. Shaped' BY <1>1, <1>2, <1>3 DEF Shaped
<1>5. Grows BY <1>1, SameGrows
<1>6. RowsFine' BY <1>1, <1>2, SameRows
<1>7. job' \in [Jobs -> JobRecords] /\ \A i \in Jobs : job'[i].due \in {None, job[i].due}
    BY <1>1, <1>2 DEF Shaped
<1>8. PlansFine' BY <1>2, <1>5, <1>7, PlansKept
<1>9. RequestsFine' BY <1>2, <1>3, <1>5, RequestsKept
<1> QED BY <1>4, <1>6, <1>8, <1>9 DEF Promise

(* A person writes the row of a schedule, and nothing else.                *)
LEMMA WriteKeeps ==
    ASSUME Promise, NEW s \in Schedules, NEW row \in Kept,
           schedules' = [schedules EXCEPT ![s] = row],
           broken' \subseteq Schedules,
           UNCHANGED <<posted, skipped, job, request, raced, up, today>>,
           schedules[s] # None => Akin(row, schedules[s]),
           Fine(row, posted[s], skipped[s], s \in raced)
    PROVE  Promise'
<1>1. Shaped /\ RowsFine /\ PlansFine /\ RequestsFine BY DEF Promise
<1> DEFINE rows == posted[s]
<1> DEFINE passed == skipped[s]
<1>2. /\ posted' = [posted EXCEPT ![s] = rows] /\ skipped' = [skipped EXCEPT ![s] = passed]
    <2>1. posted = [t \in Schedules |-> posted[t]] /\ skipped = [t \in Schedules |-> skipped[t]]
        BY <1>1 DEF Shaped
    <2> QED BY <2>1
<1>3. raced' \subseteq Schedules /\ raced' \ {s} = raced \ {s} BY <1>1 DEF Shaped
<1>4. Fine(row, rows, passed, s \in raced')
    <2> DEFINE a == s \in raced
    <2> DEFINE b == s \in raced'
    <2>1. a = b OBVIOUS
    <2>2. Fine(row, rows, passed, a) OBVIOUS
    <2> HIDE DEF a, b
    <2>3. Fine(row, rows, passed, b) BY <2>1, <2>2
    <2> QED BY <2>3 DEF b
<1>5. schedules[s] # None =>
         Akin(row, schedules[s]) /\ posted[s] \subseteq rows /\ skipped[s] \subseteq passed
    OBVIOUS
<1> HIDE DEF rows, passed
<1>6. /\ schedules' \in [Schedules -> {None} \cup Kept]
      /\ posted' = [t \in Schedules |-> posted'[t]]
      /\ skipped' = [t \in Schedules |-> skipped'[t]]
      /\ Grows /\ RowsFine'
    BY <1>1, <1>2, <1>3, <1>4, <1>5, OneWritten
<1>7. Shaped' BY <1>1, <1>3, <1>6 DEF Shaped
<1>8. job' \in [Jobs -> JobRecords] /\ \A i \in Jobs : job'[i].due \in {None, job[i].due}
    BY <1>1 DEF Shaped
<1>9. PlansFine' BY <1>1, <1>6, <1>8, PlansKept
<1>10. RequestsFine'
    <2>1. \A d \in Clients : request'[d] \in {None, request[d]} OBVIOUS
    <2> QED BY <2>1, <1>1, <1>6, RequestsKept
<1> QED BY <1>6, <1>7, <1>9, <1>10 DEF Promise

(* A schedule that has just been set up is fine: it stands on its start.   *)
LEMMA NewFine ==
    ASSUME NEW row, Sound(row), row.next = row.start, row.last = None, row.gone = None,
           NEW lost \in BOOLEAN
    PROVE  Fine(row, {}, {}, lost)
<1>1. Falls(row) \subseteq Nat /\ (\A d \in Falls(row) : d >= row.start)
      /\ row.start \in Falls(row) /\ row.start \in Nat
    BY FallsNat, SoundIs
<1>2. RowDays({}) = {} BY DEF RowDays
<1>3. \A d \in Falls(row) : ~(d < row.next) BY <1>1
<1>4. Covers(row, row.next, {}) BY <1>3 DEF Covers
<1>5. row.gone # "completed" BY ScheduleAssumption
<1> QED BY <1>1, <1>2, <1>4, <1>5 DEF Fine

(* A schedule is created.                                                  *)
LEMMA CreateKeeps ==
    ASSUME Promise, NEW s \in Schedules, Create(s)
    PROVE  Promise'
<1>1. PICK shape \in Shapes : Valid(shape) /\ schedules' = [schedules EXCEPT ![s] = Stored(shape)]
    BY DEF Create, Writes
<1>2. /\ schedules[s] = None
      /\ broken' \in {broken, broken \cup {s}}
      /\ UNCHANGED <<posted, skipped, job, request, raced, up, today>>
    BY DEF Create, Writes, Ask
<1>11. broken' \subseteq Schedules BY <1>2 DEF Promise, Shaped
<1> DEFINE row == Stored(shape)
<1>3. shape \in Asked BY ScheduleAssumption
<1>4. /\ row.budget = shape.budget /\ row.frequency = shape.frequency /\ row.start = shape.start
      /\ row.second = shape.second /\ row.end = shape.end
      /\ row.next = row.start /\ row.last = None /\ row.gone = None
    BY DEF Stored
<1>5. row \in Kept BY <1>3 DEF Stored, Kept, Asked
<1> HIDE DEF row
<1>6. Sound(row)
    <2>1. Valid(row) BY <1>1, <1>4 DEF Valid
    <2> QED BY <2>1, <1>5 DEF Sound
<1>7. posted[s] = {} /\ skipped[s] = {} BY <1>2 DEF Promise, RowsFine
<1>8. Fine(row, {}, {}, s \in raced)
    <2> DEFINE a == s \in raced
    <2>1. a \in BOOLEAN OBVIOUS
    <2> HIDE DEF a
    <2>2. Fine(row, {}, {}, a) BY <2>1, <1>4, <1>6, NewFine
    <2> QED BY <2>2 DEF a
<1>9. schedules' = [schedules EXCEPT ![s] = row] BY <1>1 DEF row
<1>10. Fine(row, posted[s], skipped[s], s \in raced) BY <1>7, <1>8
<1> QED BY <1>2, <1>5, <1>9, <1>10, <1>11, WriteKeeps

(* A live row with other words in the parts that may be edited.            *)
LEMMA EditedFine ==
    ASSUME NEW row \in Kept, NEW rows, NEW passed, NEW lost \in BOOLEAN,
           Fine(row, rows, passed, lost), row.gone = None,
           NEW row2 \in Kept, Akin(row2, row), row2.next = row.next, row2.last = row.last,
           row2.gone \in {None, "deleted"}, Valid(row2)
    PROVE  Fine(row2, rows, passed, lost)
<1>1. Falls(row2) = Falls(row) BY SameFalls
<1>2. row2.gone # "completed" /\ row.gone # "completed" BY ScheduleAssumption
<1>3. Sound(row2) BY DEF Sound
<1>4. Covers(row, row.next, RowDays(rows) \cup passed) BY DEF Fine
<1>5. Covers(row2, row2.next, RowDays(rows) \cup passed) BY <1>1, <1>4 DEF Covers
<1> QED BY <1>1, <1>2, <1>3, <1>5 DEF Fine

(* A person sets the end of a schedule.                                    *)
LEMMA EditEndKeeps ==
    ASSUME Promise, NEW s \in Schedules, EditEnd(s)
    PROVE  Promise'
<1> DEFINE row == schedules[s]
<1>1. PICK end \in Ends : end >= row.start /\ schedules' = [schedules EXCEPT ![s].end = end]
    BY DEF EditEnd, Writes
<1>2. /\ row # None /\ row.gone = None
      /\ UNCHANGED <<posted, skipped, broken, job, request, raced, up, today>>
    BY DEF EditEnd, Writes, Ask, Live
<1> DEFINE row2 == [row EXCEPT !.end = end]
<1>3. schedules' = [schedules EXCEPT ![s] = row2] BY <1>1
<1>4. row \in Kept BY <1>2 DEF Promise, Shaped
<1>5. Fine(row, posted[s], skipped[s], s \in raced) BY <1>2 DEF Promise, RowsFine
<1>6. Valid(row) BY <1>5 DEF Fine, Sound
<1> HIDE DEF row
<1>7. /\ row2.start = row.start /\ row2.second = row.second /\ row2.frequency = row.frequency
      /\ row2.next = row.next /\ row2.last = row.last /\ row2.gone = row.gone /\ row2.end = end
    BY <1>4 DEF Kept
<1>8. row2 \in Kept
    <2>1. end \in Int \cup {None} BY ScheduleAssumption
    <2> QED BY <2>1, <1>4 DEF Kept
<1> HIDE DEF row2
<1>9. Valid(row2) BY <1>1, <1>6, <1>7 DEF Valid, row
<1>10. Akin(row2, row) BY <1>7, <1>8, ScenariosAssumption DEF Akin
<1>11. Fine(row2, posted[s], skipped[s], s \in raced)
    <2> DEFINE a == s \in raced
    <2>1. a \in BOOLEAN /\ Fine(row, posted[s], skipped[s], a) BY <1>5
    <2> HIDE DEF a
    <2>2. row.gone = None BY <1>2 DEF row
    <2>3. row2.gone \in {None, "deleted"} BY <2>2, <1>7
    <2>4. Fine(row2, posted[s], skipped[s], a)
        BY <2>1, <2>2, <2>3, <1>4, <1>7, <1>8, <1>9, <1>10, EditedFine
    <2> QED BY <2>4 DEF a
<1>12. schedules[s] # None => Akin(row2, schedules[s]) BY <1>10 DEF row
<1>13. broken' \subseteq Schedules BY <1>2 DEF Promise, Shaped
<1> QED BY <1>2, <1>3, <1>8, <1>11, <1>12, <1>13, WriteKeeps

(* A person deletes a schedule.                                            *)
LEMMA DeleteKeeps ==
    ASSUME Promise, NEW s \in Schedules, Delete(s)
    PROVE  Promise'
<1> DEFINE row == schedules[s]
<1> DEFINE row2 == [row EXCEPT !.gone = "deleted"]
<1>1. schedules' = [schedules EXCEPT ![s] = row2]
    BY DEF Delete, Writes
<1>2. /\ row # None /\ row.gone = None
      /\ UNCHANGED <<posted, skipped, broken, job, request, raced, up, today>>
    BY DEF Delete, Writes, Ask, Live
<1>4. row \in Kept BY <1>2 DEF Promise, Shaped
<1>5. Fine(row, posted[s], skipped[s], s \in raced) BY <1>2 DEF Promise, RowsFine
<1>6. Valid(row) BY <1>5 DEF Fine, Sound
<1> HIDE DEF row
<1>7. /\ row2.start = row.start /\ row2.second = row.second /\ row2.frequency = row.frequency
      /\ row2.next = row.next /\ row2.last = row.last /\ row2.gone = "deleted"
      /\ row2.end = row.end
    BY <1>4 DEF Kept
<1>8. row2 \in Kept BY <1>4 DEF Kept
<1> HIDE DEF row2
<1>9. Valid(row2) BY <1>6, <1>7 DEF Valid
<1>10. Akin(row2, row) BY <1>7, <1>8, ScenariosAssumption DEF Akin
<1>11. Fine(row2, posted[s], skipped[s], s \in raced)
    <2> DEFINE a == s \in raced
    <2>1. a \in BOOLEAN /\ Fine(row, posted[s], skipped[s], a) BY <1>5
    <2> HIDE DEF a
    <2>2. row.gone = None BY <1>2 DEF row
    <2>3. row2.gone \in {None, "deleted"} BY <1>7
    <2>4. Fine(row2, posted[s], skipped[s], a)
        BY <2>1, <2>2, <2>3, <1>4, <1>7, <1>8, <1>9, <1>10, EditedFine
    <2> QED BY <2>4 DEF a
<1>12. schedules[s] # None => Akin(row2, schedules[s]) BY <1>10 DEF row
<1>13. broken' \subseteq Schedules BY <1>2 DEF Promise, Shaped
<1> QED BY <1>1, <1>2, <1>8, <1>11, <1>12, <1>13, WriteKeeps

(* A step that leaves every row and every request, and starts no run.      *)
LEMMA QuietKeeps ==
    ASSUME Promise, UNCHANGED <<schedules, posted, skipped, raced>>,
           broken' \subseteq Schedules, today' \in Nights, job' \in [Jobs -> JobRecords],
           \A i \in Jobs : /\ job'[i].due \in {None, job[i].due}
                           /\ job'[i].state # "off" => up'
                           /\ job'[i].state = "running" => job'[i].day \in Nights,
           request' \in [Clients -> {None} \cup Requests],
           \A c \in Clients : /\ request'[c] \in {None, request[c]}
                              /\ request'[c] # None => up'
    PROVE  Promise'
<1>1. Shaped /\ RowsFine /\ PlansFine /\ RequestsFine BY DEF Promise
<1>2. Grows BY SameGrows
<1>3. Shaped' BY <1>1 DEF Shaped
<1>4. RowsFine' BY <1>1, SameRows
<1>5. PlansFine' BY <1>1, <1>2, PlansKept
<1>6. RequestsFine' BY <1>1, <1>2, RequestsKept
<1> QED BY <1>3, <1>4, <1>5, <1>6 DEF Promise

(* A schedule is filed to another envelope.                                *)
LEMMA RefileKeeps ==
    ASSUME Promise, NEW s \in Schedules, Refile(s)
    PROVE  Promise'
<1>1. UNCHANGED <<schedules, posted, skipped, job, request, raced, up, today>>
    BY DEF Refile, Writes, Ask
<1>2. Shaped BY DEF Promise
<1>3. broken' \subseteq Schedules BY <1>2 DEF Refile, Shaped
<1>4. today' \in Nights /\ job' \in [Jobs -> JobRecords]
      /\ request' \in [Clients -> {None} \cup Requests]
    BY <1>1, <1>2 DEF Shaped
<1>5. \A i \in Jobs : /\ job'[i].due \in {None, job[i].due}
                      /\ job'[i].state # "off" => up'
                      /\ job'[i].state = "running" => job'[i].day \in Nights
    BY <1>1, <1>2 DEF Shaped
<1>6. \A c \in Clients : request'[c] \in {None, request[c]} /\ (request'[c] # None => up')
    BY <1>1, <1>2 DEF Shaped
<1> QED BY <1>1, <1>3, <1>4, <1>5, <1>6, QuietKeeps

(* A job is queued.                                                        *)
LEMMA QueuedIs ==
    ASSUME Shaped, NEW j \in Jobs, job' = [job EXCEPT ![j].state = "queued"]
    PROVE  /\ job' \in [Jobs -> JobRecords]
           /\ \A i \in Jobs : /\ job'[i].due = job[i].due
                              /\ job'[i].state = "running" => job'[i].day \in Nights
<1> DEFINE old == job[j]
<1> DEFINE new == [old EXCEPT !.state = "queued"]
<1>1. job' = [job EXCEPT ![j] = new] OBVIOUS
<1>2. old \in JobRecords BY DEF Shaped
<1> HIDE DEF old
<1>3. new \in JobRecords /\ new.due = old.due /\ new.state = "queued" BY <1>2 DEF JobRecords
<1> HIDE DEF new
<1>4. job' \in [Jobs -> JobRecords] BY <1>1, <1>3 DEF Shaped
<1>5. \A i \in Jobs : job'[i] = IF i = j THEN new ELSE job[i] BY <1>1 DEF Shaped
<1>6. \A i \in Jobs : /\ job'[i].due = job[i].due
                      /\ job'[i].state = "running" => job'[i].day \in Nights
    BY <1>3, <1>5 DEF Shaped, old
<1> QED BY <1>4, <1>6

(* A midnight passes.                                                      *)
LEMMA MidnightKeeps ==
    ASSUME Promise, Midnight
    PROVE  Promise'
<1>1. UNCHANGED <<schedules, posted, skipped, broken, raced, request, up>>
    BY DEF Midnight, Register
<1>2. Shaped BY DEF Promise
<1>3. today' \in Nights
    <2> DEFINE later == {d \in Nights : d > today}
    <2>1. later \in SUBSET Nat BY ScheduleAssumption
    <2>2. today' = IF later # {} THEN Min(later) ELSE today BY DEF Midnight
    <2>3. later # {} => Min(later) \in later
        <3> HIDE DEF later
        <3> QED BY <2>1, MinIs
    <2> QED BY <2>2, <2>3, <1>2 DEF Shaped
<1>4. job' \in [Jobs -> JobRecords]
      /\ \A i \in Jobs : /\ job'[i].due \in {None, job[i].due}
                         /\ job'[i].state # "off" => up'
                         /\ job'[i].state = "running" => job'[i].day \in Nights
    <2>1. CASE up
        <3>1. job' = [job EXCEPT !["cron"].state = "queued"] /\ "cron" \in Jobs
            BY <2>1 DEF Midnight, Jobs
        <3> QED BY <3>1, <2>1, <1>1, <1>2, QueuedIs
    <2>2. CASE ~up
        <3>1. job' = job BY <2>2 DEF Midnight
        <3> QED BY <3>1, <1>1, <1>2 DEF Shaped
    <2> QED BY <2>1, <2>2
<1>5. broken' \subseteq Schedules /\ request' \in [Clients -> {None} \cup Requests]
    BY <1>1, <1>2 DEF Shaped
<1>6. \A c \in Clients : request'[c] \in {None, request[c]} /\ (request'[c] # None => up')
    BY <1>1, <1>2 DEF Shaped
<1> QED BY <1>1, <1>3, <1>4, <1>5, <1>6, QuietKeeps

(* The server stops: the jobs and the transactions under way are lost.     *)
LEMMA CrashKeeps ==
    ASSUME Promise, Crash
    PROVE  Promise'
<1>1. /\ UNCHANGED <<schedules, posted, skipped, broken, raced, today>>
      /\ job' = [j \in Jobs |-> Off] /\ request' = [c \in Clients |-> None]
    BY DEF Crash, Register
<1>2. Shaped BY DEF Promise
<1>3. job' \in [Jobs -> JobRecords]
      /\ \A i \in Jobs : /\ job'[i].due \in {None, job[i].due}
                         /\ job'[i].state # "off" => up'
                         /\ job'[i].state = "running" => job'[i].day \in Nights
    <2>1. \A i \in Jobs : job'[i] = Off BY <1>1
    <2> QED BY <2>1, <1>1, OffIs
<1>4. broken' \subseteq Schedules /\ today' \in Nights BY <1>1, <1>2 DEF Shaped
<1>5. request' \in [Clients -> {None} \cup Requests]
      /\ \A c \in Clients : request'[c] \in {None, request[c]} /\ (request'[c] # None => up')
    BY <1>1
<1> QED BY <1>1, <1>3, <1>4, <1>5, QuietKeeps

(* The server starts, and its catch-up with it.                            *)
LEMMA StartUpKeeps ==
    ASSUME Promise, StartUp
    PROVE  Promise'
<1>1. /\ UNCHANGED <<schedules, posted, skipped, broken, raced, today, request>> /\ up'
      /\ job' = [job EXCEPT !["startup"].state = "queued"] /\ "startup" \in Jobs
    BY DEF StartUp, Register, Jobs
<1>2. Shaped BY DEF Promise
<1>3. job' \in [Jobs -> JobRecords]
      /\ \A i \in Jobs : /\ job'[i].due = job[i].due
                         /\ job'[i].state = "running" => job'[i].day \in Nights
    BY <1>1, <1>2, QueuedIs
<1>4. broken' \subseteq Schedules /\ today' \in Nights
      /\ request' \in [Clients -> {None} \cup Requests]
    BY <1>1, <1>2 DEF Shaped
<1>5. \A c \in Clients : request'[c] \in {None, request[c]} /\ (request'[c] # None => up')
    BY <1>1
<1> QED BY <1>1, <1>3, <1>4, <1>5, QuietKeeps

-----------------------------------------------------------------------------
(* The invariant, and what follows from it.                                *)

(* The server starts from schedules that have just been set up.            *)
LEMMA InitKeeps ==
    ASSUME Init
    PROVE  Promise
<1>1. PICK c \in Scenarios :
        /\ schedules = c.stored /\ broken = {} /\ today = c.today
        /\ posted = [s \in Schedules |-> {}] /\ skipped = [s \in Schedules |-> {}]
        /\ job = [j \in Jobs |-> [Off EXCEPT !.state = IF j = "cron" THEN "queued" ELSE "off"]]
        /\ request = [place \in Clients |-> None] /\ raced = {} /\ up = TRUE
    BY DEF Init
<1>2. /\ today \in Nights /\ schedules \in [Schedules -> {None} \cup Kept]
      /\ \A s \in Schedules : schedules[s] # None =>
            /\ Valid(schedules[s]) /\ schedules[s].next = schedules[s].start
            /\ schedules[s].last = None /\ schedules[s].gone = None
    BY <1>1, ScenariosAssumption
<1>3. ASSUME NEW j \in Jobs
      PROVE  job[j] \in JobRecords /\ job[j].due = None /\ job[j].state # "running"
    <2> DEFINE state == IF j = "cron" THEN "queued" ELSE "off"
    <2>1. job[j] = [Off EXCEPT !.state = state] BY <1>1
    <2>2. state \in {"queued", "off"} OBVIOUS
    <2> HIDE DEF state
    <2> QED BY <2>1, <2>2 DEF Off, JobRecords, Plans
<1>4. job = [j \in Jobs |-> job[j]] BY <1>1
<1>5. job \in [Jobs -> JobRecords] BY <1>3, <1>4
<1>6. request \in [Clients -> {None} \cup Requests] /\ \A place \in Clients : request[place] = None
    BY <1>1
<1>7. posted = [s \in Schedules |-> posted[s]] /\ skipped = [s \in Schedules |-> skipped[s]]
    BY <1>1
<1>8. Shaped BY <1>1, <1>2, <1>3, <1>5, <1>6, <1>7 DEF Shaped
<1>9. RowsFine
    <2> SUFFICES ASSUME NEW s \in Schedules
                 PROVE  /\ schedules[s] # None => Fine(schedules[s], {}, {}, s \in raced)
                        /\ posted[s] = {} /\ skipped[s] = {}
        BY <1>1 DEF RowsFine
    <2>1. posted[s] = {} /\ skipped[s] = {} BY <1>1
    <2>2. ASSUME schedules[s] # None PROVE Fine(schedules[s], {}, {}, s \in raced)
        <3> DEFINE a == s \in raced
        <3> DEFINE row == schedules[s]
        <3>1. row \in Kept BY <2>2, <1>2
        <3>2. Sound(row) /\ row.next = row.start /\ row.last = None /\ row.gone = None
            BY <2>2, <3>1, <1>2 DEF Sound
        <3>3. a \in BOOLEAN OBVIOUS
        <3> HIDE DEF a, row
        <3>4. Fine(row, {}, {}, a) BY <3>2, <3>3, NewFine
        <3> QED BY <3>4 DEF a, row
    <2> QED BY <2>1, <2>2
<1>10. PlansFine BY <1>3 DEF PlansFine
<1>11. RequestsFine BY <1>6 DEF RequestsFine
<1> QED BY <1>8, <1>9, <1>10, <1>11 DEF Promise

(* Every step keeps the invariant.                                         *)
LEMMA NextKeeps ==
    ASSUME Promise, [Next]_vars
    PROVE  Promise'
<1>1. ASSUME NEW j \in Jobs, Run(j) PROVE Promise'
    <2>1. CASE BeginRun(j) BY <2>1, BeginRunKeeps
    <2>2. ASSUME NEW b \in Budgets, LoadDue(j, b) PROVE Promise' BY <2>2, LoadDueKeeps
    <2>3. CASE CommitDue(j) BY <2>3, CommitDueKeeps
    <2>4. CASE FailDue(j) BY <2>4, FailDueKeeps
    <2> QED BY <1>1, <2>1, <2>2, <2>3, <2>4 DEF Run
<1>2. ASSUME NEW c \in Clients, NEW s \in Schedules, BeginEnter(c, s) \/ BeginSkip(c, s)
      PROVE  Promise'
    <2>1. PICK op \in {"enter", "skip"} : Begin(c, s, op) BY <1>2 DEF BeginEnter, BeginSkip
    <2> QED BY <2>1, BeginKeeps
<1>3. ASSUME NEW c \in Clients, CommitEnter(c) \/ CommitSkip(c) \/ RefuseEnter(c)
      PROVE  Promise'
    <2>1. CASE CommitEnter(c) BY <2>1, CommitEnterKeeps
    <2>2. CASE CommitSkip(c) BY <2>2, CommitSkipKeeps
    <2>3. CASE RefuseEnter(c) BY <2>3, RefuseEnterKeeps
    <2> QED BY <1>3, <2>1, <2>2, <2>3
<1>4. ASSUME NEW s \in Schedules, Create(s) \/ EditEnd(s) \/ Delete(s) \/ Refile(s)
      PROVE  Promise'
    <2>1. CASE Create(s) BY <2>1, CreateKeeps
    <2>2. CASE EditEnd(s) BY <2>2, EditEndKeeps
    <2>3. CASE Delete(s) BY <2>3, DeleteKeeps
    <2>4. CASE Refile(s) BY <2>4, RefileKeeps
    <2> QED BY <1>4, <2>1, <2>2, <2>3, <2>4
<1>5. CASE Midnight BY <1>5, MidnightKeeps
<1>6. CASE Crash BY <1>6, CrashKeeps
<1>7. CASE StartUp BY <1>7, StartUpKeeps
<1>8. ASSUME UNCHANGED vars PROVE Promise'
    <2>1. UNCHANGED <<schedules, posted, skipped, broken, job, request, raced, up, today>>
        BY <1>8 DEF vars
    <2>2. Shaped BY DEF Promise
    <2>3. broken' \subseteq Schedules /\ today' \in Nights /\ job' \in [Jobs -> JobRecords]
          /\ request' \in [Clients -> {None} \cup Requests]
        BY <2>1, <2>2 DEF Shaped
    <2>4. \A i \in Jobs : /\ job'[i].due \in {None, job[i].due}
                          /\ job'[i].state # "off" => up'
                          /\ job'[i].state = "running" => job'[i].day \in Nights
        BY <2>1, <2>2 DEF Shaped
    <2>5. \A c \in Clients : request'[c] \in {None, request[c]} /\ (request'[c] # None => up')
        BY <2>1, <2>2 DEF Shaped
    <2> QED BY <2>1, <2>3, <2>4, <2>5, QuietKeeps
<1> QED BY <1>1, <1>2, <1>3, <1>4, <1>5, <1>6, <1>7, <1>8 DEF Next

(* The rows of every schedule, the plans of every run and the transactions *)
(* under way stay in step over every interleaving, crash and missed night. *)
THEOREM SchedulesKeepPromise == Spec => []Promise
<1>1. Init => Promise BY InitKeeps
<1>2. Promise /\ [Next]_vars => Promise' BY NextKeeps
<1> QED BY <1>1, <1>2, PTL DEF Spec

(* Whoever writes a schedule, its row is one validate_schedule accepts, and *)
(* a job or a transaction under way has a server to run on.                *)
THEOREM SchedulesTypeOK == Spec => []TypeOK
<1>1. ASSUME Promise PROVE TypeOK
    <2>1. Shaped /\ RowsFine BY <1>1 DEF Promise
    <2>2. ASSUME NEW s \in Schedules, schedules[s] # None
          PROVE  /\ Valid(schedules[s]) /\ schedules[s].frequency \in Frequencies
                 /\ schedules[s].gone \in {None, "deleted", "completed"}
                 /\ schedules[s].last \in Rows(s) \cup {None}
        <3>1. schedules[s] \in Kept BY <2>1, <2>2 DEF Shaped
        <3>2. Valid(schedules[s]) /\ schedules[s].last \in Rows(s) \cup {None}
            BY <2>1, <2>2 DEF RowsFine, Fine, Sound, Rows, RowDays
        <3> DEFINE row == schedules[s]
        <3>3. row \in Kept BY <3>1
        <3> HIDE DEF row
        <3>4. row.frequency \in Frequencies /\ row.gone \in {None, "deleted", "completed"}
            BY <3>3 DEF Kept
        <3> QED BY <3>2, <3>4 DEF row
    <2>3. ASSUME NEW j \in Jobs
          PROVE  job[j].state \in {"off", "queued", "running"} /\ (job[j].state # "off" => up)
        <3>1. job[j] \in JobRecords /\ (job[j].state # "off" => up) BY <2>1 DEF Shaped
        <3> QED BY <3>1 DEF JobRecords
    <2> QED BY <2>1, <2>2, <2>3 DEF TypeOK, Shaped
<1> QED BY <1>1, SchedulesKeepPromise, PTL

(* A schedule never leaves its days, over any catch-up, edit or race: what *)
(* is posted, what is passed over and what comes next fall on them.        *)
THEOREM SchedulesOnItsDays == Spec => []OnItsDays
<1>1. ASSUME Promise PROVE OnItsDays
    <2> SUFFICES ASSUME NEW s \in Schedules, schedules[s] # None
                 PROVE  Rows(s) \cup skipped[s] \cup {schedules[s].next} \subseteq Falls(schedules[s])
        BY DEF OnItsDays
    <2>1. Fine(schedules[s], posted[s], skipped[s], s \in raced) BY <1>1 DEF Promise, RowsFine
    <2> QED BY <2>1 DEF Fine, Rows, RowDays
<1> QED BY <1>1, SchedulesKeepPromise, PTL

(* No occurrence behind the next date of a schedule is lost, whatever      *)
(* nights the server missed and whoever wrote the row in between.          *)
THEOREM SchedulesNoneMissed == Spec => []NoneMissed
<1>1. ASSUME Promise PROVE NoneMissed
    <2> SUFFICES ASSUME NEW s \in Schedules, schedules[s] # None, NEW d \in Falls(schedules[s])
                 PROVE  \/ d \in Rows(s) \cup skipped[s]
                        \/ d >= schedules[s].next /\ schedules[s].gone # "completed"
                        \/ Past(schedules[s].end, d) /\ schedules[s].gone = "completed"
                        \/ s \in raced /\ schedules[s].gone = "completed"
        BY DEF NoneMissed
    <2> DEFINE row == schedules[s]
    <2>1. Fine(row, posted[s], skipped[s], s \in raced) BY <1>1 DEF Promise, RowsFine
    <2> HIDE DEF row
    <2>2. /\ Sound(row) /\ row.next \in Falls(row)
          /\ Covers(row, row.next, RowDays(posted[s]) \cup skipped[s])
          /\ row.gone = "completed" /\ s \notin raced =>
                \A e \in Falls(row) : e \in RowDays(posted[s]) \cup skipped[s] \/ Past(row.end, e)
        BY <2>1 DEF Fine
    <2>3. d \in Falls(row) BY DEF row
    <2>4. d \in Nat /\ row.next \in Nat BY <2>2, <2>3, FallsNat
    <2>5. d < row.next => d \in RowDays(posted[s]) \cup skipped[s] BY <2>2, <2>3 DEF Covers
    <2>6. RowDays(posted[s]) = Rows(s) BY DEF Rows, RowDays
    <2>7. \/ d \in Rows(s) \cup skipped[s]
          \/ d >= row.next /\ row.gone # "completed"
          \/ Past(row.end, d) /\ row.gone = "completed"
          \/ s \in raced /\ row.gone = "completed"
        BY <2>2, <2>3, <2>4, <2>5, <2>6
    <2> QED BY <2>7 DEF row
<1> QED BY <1>1, SchedulesKeepPromise, PTL

(* No occurrence is posted twice, or posted after it was passed over, but  *)
(* by a writer that worked from a row changed since.                       *)
THEOREM SchedulesPostedOnce == Spec => []PostedOnce
<1>1. ASSUME Promise PROVE PostedOnce
    <2> SUFFICES ASSUME NEW s \in Schedules \ raced
                 PROVE  (\A row \in posted[s] : row.nth = 0) /\ Rows(s) \cap skipped[s] = {}
        BY DEF PostedOnce
    <2>1. CASE schedules[s] = None
        <3>1. posted[s] = {} /\ skipped[s] = {} BY <1>1, <2>1 DEF Promise, RowsFine
        <3> QED BY <3>1
    <2>2. CASE schedules[s] # None
        <3>1. Fine(schedules[s], posted[s], skipped[s], s \in raced)
            BY <1>1, <2>2 DEF Promise, RowsFine
        <3> QED BY <3>1 DEF Fine, Rows, RowDays
    <2> QED BY <2>1, <2>2
<1> QED BY <1>1, SchedulesKeepPromise, PTL

(* What the cash projection books ahead is what the runs will post.        *)
THEOREM SchedulesForecastPosts == Spec => []ForecastPosts
<1>1. ASSUME Promise PROVE ForecastPosts
    <2> SUFFICES ASSUME NEW s \in Schedules, Live(s)
                 PROVE  Projected(schedules[s], Horizon) =
                            {Max({d, today}) : d \in {e \in Falls(schedules[s]) :
                                e >= schedules[s].next /\ e <= Horizon /\ ~Past(schedules[s].end, e)}}
        BY DEF ForecastPosts
    <2> DEFINE row == schedules[s]
    <2> DEFINE booked == {e \in Upcoming(row) : e <= Horizon /\ ~Past(row.end, e)}
    <2> DEFINE ahead == {e \in Falls(row) : e >= row.next /\ e <= Horizon /\ ~Past(row.end, e)}
    <2>1. Sound(row) /\ row.next \in Falls(row) BY <1>1, LiveKin DEF Promise
    <2> HIDE DEF row
    <2>2. Falls(row) \subseteq Nat /\ row.next \in Nat /\ Horizon \in Nat
        BY <2>1, FallsNat, HorizonIs
    <2>3. booked = ahead
        <3>1. CASE row.next <= Horizon
            <4>1. Upcoming(row) \subseteq Nat
                  /\ \A e \in Nat : e <= Horizon => (e \in Upcoming(row) <=> e \in Ahead(row, row.next))
                BY <2>1, <3>1, UpcomingIs
            <4>2. ASSUME NEW e \in Nat, e <= Horizon, ~Past(row.end, e)
                  PROVE  e \in Ahead(row, row.next) <=> e \in Falls(row) /\ e >= row.next
                BY <2>1, <2>2, <4>2 DEF Ahead
            <4> QED BY <4>1, <4>2, <2>2
        <3>2. CASE ~(row.next <= Horizon)
            <4>1. Upcoming(row) = {row.next}
                <5>1. PICK f : f = Round(f, row) /\ Upcoming(row) = f[row.next]
                    BY <2>1, UpcomingRound
                <5>2. row.next > Horizon /\ row.next # None BY <2>2, <3>2, ScheduleAssumption
                <5>3. f[row.next] = {row.next} BY <5>1, <5>2, <2>2 DEF Round
                <5> QED BY <5>1, <5>3
            <4>2. booked = {} BY <4>1, <3>2
            <4>3. ahead = {} BY <2>2, <3>2
            <4> QED BY <4>2, <4>3
        <3> QED BY <3>1, <3>2
    <2>4. Projected(row, Horizon) = {Max({d, today}) : d \in booked} BY DEF Projected
    <2> HIDE DEF booked, ahead
    <2>5. Projected(row, Horizon) = {Max({d, today}) : d \in ahead} BY <2>3, <2>4
    <2> QED BY <2>5 DEF ahead, row
<1> QED BY <1>1, SchedulesKeepPromise, PTL

=============================================================================
