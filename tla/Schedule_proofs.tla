---------------------------- MODULE Schedule_proofs ----------------------------
(***************************************************************************)
(* The arithmetic of review schedules, for every cap of ten days or more.  *)
(***************************************************************************)
EXTENDS SrsSchedule, TLAPS

-----------------------------------------------------------------------------
(***************************************************************************)
(* Pooling outcomes does not flip a grade, however many exercises refer to *)
(* an item and however long they are.                                      *)
(***************************************************************************)
\* A grade is at least g where the ratio reaches g's threshold, which is a linear
\* condition, so the pool of two outcomes cannot leave their grades.
LEMMA GradeType ==
  ASSUME NEW c \in Nat, NEW t \in Nat
  PROVE  GradePerformance(c, t) \in Grades
BY DEF GradePerformance, Grades, Again, Hard, Good, Easy

LEMMA PooledTwo ==
  ASSUME NEW c1 \in Nat, NEW t1 \in Nat \ {0}, c1 <= t1,
         NEW c2 \in Nat, NEW t2 \in Nat \ {0}, c2 <= t2,
         NEW low \in Grades, NEW high \in Grades,
         low <= GradePerformance(c1, t1), GradePerformance(c1, t1) <= high,
         low <= GradePerformance(c2, t2), GradePerformance(c2, t2) <= high
  PROVE  /\ low <= GradePerformance(c1 + c2, t1 + t2)
         /\ GradePerformance(c1 + c2, t1 + t2) <= high
BY DEF GradePerformance, Grades, Again, Hard, Good, Easy

\* The pool's grade lies between the extremes, and before the first exercise the pool
\* is empty.
PoolInv ==
  /\ PoolType
  /\ PooledGradeBetween
  /\ total = 0 => EmptyPool

LEMMA EmptyInv == EmptyPool => PoolInv
BY DEF EmptyPool, PoolInv, PoolType, PooledGradeBetween, Grades, Again, Hard, Good, Easy

LEMMA ClearInv == ClearPool => PoolInv'
BY DEF ClearPool, EmptyPool, PoolInv, PoolType, PooledGradeBetween, Grades, Again, Hard, Good, Easy

LEMMA AddInv ==
  ASSUME PoolInv, NEW t \in 1 .. MaxTotal, NEW c \in 0 .. t, AddPerformance(c, t)
  PROVE  PoolInv'
<1> DEFINE grade == GradePerformance(c, t)
<1>1. /\ t \in Nat \ {0} /\ c \in Nat /\ c <= t
      /\ total \in Nat /\ correct \in Nat /\ correct <= total
      /\ worst \in Grades /\ best \in Grades
  BY TotalAssumption DEF PoolInv, PoolType
<1>2. grade \in Grades
  BY <1>1, GradeType
<1>3. /\ total' = total + t /\ correct' = correct + c
      /\ worst' = IF grade < worst THEN grade ELSE worst
      /\ best' = IF grade > best THEN grade ELSE best
  BY DEF AddPerformance
<1> HIDE DEF grade
<1>4. /\ worst' \in Grades /\ best' \in Grades
      /\ worst' <= grade /\ worst' <= worst /\ grade <= best' /\ best <= best'
  BY <1>1, <1>2, <1>3 DEF Grades, Again, Easy
<1>5. total' \in Nat /\ total' > 0 /\ correct' \in 0 .. total'
  BY <1>1, <1>3
<1>6. worst' <= GradePerformance(correct', total') /\ GradePerformance(correct', total') <= best'
  <2>1. CASE total = 0
    <3>1. GradePerformance(correct', total') = grade
      BY <1>1, <1>3, <2>1 DEF PoolInv, EmptyPool, grade
    <3> QED BY <1>4, <3>1
  <2>2. CASE total # 0
    <3>1. GradePerformance(correct, total) \in Grades
      BY <1>1, GradeType
    <3>2. worst <= GradePerformance(correct, total) /\ GradePerformance(correct, total) <= best
      BY <1>1, <2>2 DEF PoolInv, PooledGradeBetween
    <3>3. worst' <= GradePerformance(correct, total) /\ GradePerformance(correct, total) <= best'
      BY <1>1, <1>4, <3>1, <3>2 DEF Grades, Again, Easy
    <3>4. /\ worst' <= GradePerformance(correct + c, total + t)
          /\ GradePerformance(correct + c, total + t) <= best'
      BY <1>1, <1>4, <2>2, <3>3, PooledTwo DEF grade
    <3> QED BY <1>3, <3>4
  <2> QED BY <2>1, <2>2
<1> QED BY <1>4, <1>5, <1>6 DEF PoolInv, PoolType, PooledGradeBetween

-----------------------------------------------------------------------------
LEMMA RoundedWhole ==
  ASSUME NEW x \in Nat, NEW d \in Nat \ {0}, NEW n \in Rounded(x, d)
  PROVE  n \in Nat /\ 2 * n * d <= 2 * x + d /\ 2 * x - d <= 2 * n * d
BY DEF Rounded

\* The floor of the ease outweighs the smallest multiplier: the rounded product is at
\* least the interval.
LEMMA ProductNotLess ==
  ASSUME NEW i \in Nat, NEW e \in MinEase .. MaxEase, NEW tenths \in 8 .. 13,
         NEW n \in Rounded(i * e * tenths, 200)
  PROVE  n >= i
<1>1. e >= 26 /\ e \in Nat /\ tenths >= 8 /\ tenths \in Nat
  BY DEF MinEase, MaxEase
<1>2. i * e \in Nat /\ i * e >= i * 26
  BY <1>1
<1>3. i * e * tenths \in Nat /\ (i * e) * tenths >= (i * e) * 8
  BY <1>1, <1>2
<1>4. i * e * tenths >= 208 * i
  BY <1>2, <1>3
<1>5. n \in Nat /\ 2 * (i * e * tenths) - 200 <= 2 * n * 200
  BY <1>3, RoundedWhole
<1> QED BY <1>4, <1>5
\* Good's product grows any interval of two days or more.
LEMMA GoodProductGrows ==
  ASSUME NEW i \in Nat, i >= 2, NEW e \in MinEase .. MaxEase,
         NEW n \in Rounded(i * e * 10, 200)
  PROVE  n > i
<1>1. e >= 26 /\ e \in Nat
  BY DEF MinEase, MaxEase
<1>2. i * e \in Nat /\ i * e >= i * 26
  BY <1>1
<1>3. i * e * 10 \in Nat /\ i * e * 10 >= 260 * i
  BY <1>2
<1>4. n \in Nat /\ 2 * (i * e * 10) - 200 <= 2 * n * 200
  BY <1>3, RoundedWhole
<1> QED BY <1>3, <1>4

LEMMA RoundedOrdered ==
  ASSUME NEW x \in Nat, NEW y \in Nat, x < y,
         NEW m \in Rounded(x, 200), NEW n \in Rounded(y, 200)
  PROVE  m <= n
<1>1. m \in Nat /\ 2 * m * 200 <= 2 * x + 200
  BY RoundedWhole
<1>2. n \in Nat /\ 2 * y - 200 <= 2 * n * 200
  BY RoundedWhole
<1> QED BY <1>1, <1>2

-----------------------------------------------------------------------------
(***************************************************************************)
(* The inductive invariant: an item that was recalled twice in a row is    *)
(* due in three days or more; and the pool of the lesson at hand is sound. *)
(***************************************************************************)
ItemInv == /\ ease \in MinEase .. MaxEase
           /\ interval \in 0 .. MaxIntervalDays
           /\ repetitions \in 0 .. ManyRepetitions
           /\ repetitions >= 2 => interval >= 3

IInv == ItemInv /\ PoolInv

\* What the intervals of a grade are before the second success, at it, and from the
\* third on.
LEMMA DaysOf ==
  ASSUME ItemInv, NEW first \in 1 .. 4, NEW second \in 3 .. 10, NEW tenths \in 8 .. 13,
         NEW days \in Days(NextInterval(Repeated, first, second, tenths))
  PROVE  /\ repetitions = 0 => days = first
         /\ repetitions = 1 => days = second
         /\ repetitions >= 2 =>
              \E n \in Rounded(interval * ease * tenths, 200) :
                 n \in Nat /\ n >= interval /\ days = Least(n, MaxIntervalDays)
<1>1. /\ repetitions \in 0 .. 3 /\ interval \in Nat /\ ease \in MinEase .. MaxEase
      /\ ease \in Nat
      /\ MaxIntervalDays \in Nat /\ MaxIntervalDays >= 10
      /\ repetitions >= 2 => interval >= 3
  BY IntervalAssumption DEF ItemInv, ManyRepetitions, MinEase, MaxEase
<1>2. PICK d \in NextInterval(Repeated, first, second, tenths) : days = Least(d, MaxIntervalDays)
  BY DEF Days
<1>3. CASE repetitions = 0
  <2>1. Repeated = 1
    BY <1>3 DEF Repeated, Least, ManyRepetitions
  <2>2. d = first
    BY <1>2, <2>1 DEF NextInterval
  <2> QED BY <1>1, <1>2, <1>3, <2>2 DEF Least
<1>4. CASE repetitions = 1
  <2>1. Repeated = 2
    BY <1>4 DEF Repeated, Least, ManyRepetitions
  <2>2. d = second
    BY <1>2, <2>1 DEF NextInterval
  <2> QED BY <1>1, <1>2, <1>4, <2>2 DEF Least
<1>5. CASE repetitions >= 2
  <2>1. Repeated = 3 /\ Greatest(1, interval) = interval
    BY <1>1, <1>5 DEF Repeated, Least, Greatest, ManyRepetitions
  <2>2. PICK n \in Rounded(interval * ease * tenths, 200) : d = Greatest(1, n)
    BY <1>2, <2>1 DEF NextInterval
  <2>3. n >= interval
    BY <1>1, ProductNotLess
  <2>4. interval * ease * tenths \in Nat
    BY <1>1
  <2>5. n \in Nat
    BY <2>4, RoundedWhole
  <2>6. d = n
    BY <1>1, <1>5, <2>2, <2>3, <2>5 DEF Greatest
  <2> QED BY <1>2, <1>5, <2>3, <2>5, <2>6
<1> QED BY <1>1, <1>3, <1>4, <1>5

LEMMA InitInv == Init => IInv
<1> SUFFICES ASSUME Init PROVE IInv
  OBVIOUS
<1>1. ItemInv
  BY IntervalAssumption DEF Init, ItemInv, MinEase, MaxEase, ManyRepetitions
<1> QED BY <1>1, EmptyInv DEF Init, IInv

\* A success keeps the invariant, whatever its multiplier.
LEMMA SuccessInv ==
  ASSUME ItemInv, NEW first \in 1 .. 4, NEW second \in 3 .. 10, NEW tenths \in 8 .. 13,
         interval' \in Days(NextInterval(Repeated, first, second, tenths)),
         repetitions' = Repeated, ease' \in MinEase .. MaxEase
  PROVE  ItemInv'
<1>1. /\ repetitions \in 0 .. 3 /\ interval \in 0 .. MaxIntervalDays
      /\ MaxIntervalDays \in Nat /\ MaxIntervalDays >= 10
      /\ repetitions >= 2 => interval >= 3
  BY IntervalAssumption DEF ItemInv, ManyRepetitions
<1>2. repetitions' = IF repetitions = 3 THEN 3 ELSE repetitions + 1
  BY <1>1 DEF Repeated, Least, ManyRepetitions
<1>3. interval' \in 0 .. MaxIntervalDays /\ (repetitions >= 1 => interval' >= 3)
  <2>1. CASE repetitions = 0
    BY <1>1, <2>1, DaysOf
  <2>2. CASE repetitions = 1
    BY <1>1, <2>2, DaysOf
  <2>3. CASE repetitions >= 2
    BY <1>1, <2>3, DaysOf DEF Least
  <2> QED BY <1>1, <2>1, <2>2, <2>3
<1> QED BY <1>1, <1>2, <1>3 DEF ItemInv, ManyRepetitions

LEMMA ScheduleInv == ASSUME ItemInv, NEW grade \in Grades, Schedule(grade) PROVE ItemInv'
<1>0. /\ ease \in Nat /\ ease \in MinEase .. MaxEase /\ MaxIntervalDays >= 10
      /\ MaxIntervalDays \in Nat
  BY IntervalAssumption DEF ItemInv, MinEase, MaxEase
<1>1. CASE ScheduleAgain
  BY <1>0, <1>1 DEF ScheduleAgain, AgainDays, Days, Least, Greatest, ItemInv, MinEase, MaxEase,
                    ManyRepetitions
<1>2. CASE ScheduleHard
  <2>1. ease' \in MinEase .. MaxEase
    BY <1>0, <1>2 DEF ScheduleHard, Greatest, MinEase, MaxEase
  <2> QED BY <1>2, <2>1, SuccessInv DEF ScheduleHard, HardDays
<1>3. CASE ScheduleGood
  BY <1>0, <1>3, SuccessInv DEF ScheduleGood, GoodDays
<1>4. CASE ScheduleEasy
  <2>1. ease' \in MinEase .. MaxEase
    BY <1>0, <1>4 DEF ScheduleEasy, Least, MinEase, MaxEase
  <2> QED BY <1>4, <2>1, SuccessInv DEF ScheduleEasy, EasyDays
<1> QED BY <1>1, <1>2, <1>3, <1>4 DEF Schedule

LEMMA StepInv == ASSUME IInv, [Next]_vars PROVE IInv'
<1>0. ItemInv /\ PoolInv
  BY DEF IInv
<1>1. ASSUME NEW grade \in Grades, Review(grade) PROVE IInv'
  <2>1. ItemInv'
    BY <1>0, <1>1, ScheduleInv DEF Review
  <2>2. PoolInv'
    BY <1>0, <1>1 DEF Review, pool, PoolInv, PoolType, PooledGradeBetween, EmptyPool
  <2> QED BY <2>1, <2>2 DEF IInv
<1>2. ASSUME NEW t \in 1 .. MaxTotal, NEW c \in 0 .. t, AddExercise(c, t) PROVE IInv'
  <2>1. PoolInv'
    BY <1>0, <1>2, AddInv DEF AddExercise
  <2>2. ItemInv'
    BY <1>0, <1>2 DEF AddExercise, item, ItemInv
  <2> QED BY <2>1, <2>2 DEF IInv
<1>3. CASE FinishLesson
  <2>1. GradePerformance(correct, total) \in Grades
    BY <1>0, GradeType DEF PoolInv, PoolType
  <2>2. ItemInv'
    BY <1>0, <1>3, <2>1, ScheduleInv DEF FinishLesson
  <2>3. PoolInv'
    BY <1>3, ClearInv DEF FinishLesson
  <2> QED BY <2>2, <2>3 DEF IInv
<1>4. CASE UNCHANGED vars
  BY <1>0, <1>4 DEF vars, item, pool, IInv, ItemInv, PoolInv, PoolType, PooledGradeBetween, EmptyPool
<1> QED BY <1>1, <1>2, <1>3, <1>4 DEF Next

LEMMA Invariant == Spec => []IInv
<1>1. IInv /\ [Next]_vars => IInv'
  BY StepInv
<1> QED BY <1>1, InitInv, PTL DEF Spec

-----------------------------------------------------------------------------
(***************************************************************************)
(* Theorems                                                                *)
(***************************************************************************)
\* Ease and interval stay within their bounds after any sequence of grades, so no
\* item is ever refused by NewItem or scheduled beyond the cap.
THEOREM ScheduleTypeCorrect == Spec => []TypeOK
<1>1. IInv => TypeOK
  BY DEF IInv, ItemInv, PoolInv, TypeOK
<1> QED BY <1>1, Invariant, PTL

\* From the third success in a row on, no success shortens an interval, and good
\* lengthens every interval below the cap.
THEOREM NeverShortens == Spec => []SuccessNeverShortens
<1>1. ASSUME ItemInv, repetitions >= 2, NEW tenths \in 8 .. 13,
             NEW first \in 1 .. 4, NEW second \in 3 .. 10,
             NEW days \in Days(NextInterval(Repeated, first, second, tenths))
      PROVE  days >= interval
  <2>1. interval \in 0 .. MaxIntervalDays /\ MaxIntervalDays \in Nat
    BY <1>1, IntervalAssumption DEF ItemInv
  <2>2. PICK n \in Nat : n >= interval /\ days = Least(n, MaxIntervalDays)
    BY <1>1, DaysOf
  <2> QED BY <2>1, <2>2 DEF Least
<1>2. ASSUME ItemInv, repetitions >= 2, interval < MaxIntervalDays, NEW days \in GoodDays
      PROVE  days > interval
  <2>1. /\ interval \in Nat /\ interval >= 2 /\ ease \in MinEase .. MaxEase
        /\ MaxIntervalDays \in Nat
    BY <1>2, IntervalAssumption DEF ItemInv
  <2>2. PICK n \in Rounded(interval * ease * 10, 200) :
           n \in Nat /\ days = Least(n, MaxIntervalDays)
    BY <1>2, DaysOf DEF GoodDays
  <2>3. n > interval
    BY <2>1, GoodProductGrows
  <2> QED BY <1>2, <2>1, <2>2, <2>3 DEF Least
<1>3. ASSUME ItemInv, repetitions >= 2
      PROVE  \A days \in HardDays \union GoodDays \union EasyDays : days >= interval
  BY <1>1, <1>3 DEF HardDays, GoodDays, EasyDays
<1>4. IInv => SuccessNeverShortens
  BY <1>2, <1>3 DEF IInv, SuccessNeverShortens
<1> QED BY <1>4, Invariant, PTL

\* A better grade never brings an item back sooner.
THEOREM BetterIsLater == Spec => []GradesAreOrdered
<1>1. ASSUME ItemInv, NEW again \in AgainDays, NEW hard \in HardDays,
             NEW good \in GoodDays, NEW easy \in EasyDays
      PROVE  again <= hard /\ hard <= good /\ good <= easy
  <2>0. /\ repetitions \in 0 .. 3 /\ interval \in Nat /\ ease \in Nat /\ ease >= 26
        /\ MaxIntervalDays \in Nat /\ MaxIntervalDays >= 10
        /\ repetitions >= 2 => interval >= 3
    BY <1>1, IntervalAssumption DEF ItemInv, ManyRepetitions, MinEase, MaxEase
  <2>1. again = 1
    BY <2>0 DEF AgainDays, Days, Least
  <2>2. CASE repetitions = 0
    BY <1>1, <2>1, <2>2, DaysOf DEF HardDays, GoodDays, EasyDays
  <2>3. CASE repetitions = 1
    BY <1>1, <2>1, <2>3, DaysOf DEF HardDays, GoodDays, EasyDays
  <2>4. CASE repetitions >= 2
    <3> DEFINE product == interval * ease
    <3>1. product \in Nat /\ product > 0
      BY <2>0, <2>4
    <3>2. PICK h \in Rounded(product * 8, 200) :
             h \in Nat /\ h >= interval /\ hard = Least(h, MaxIntervalDays)
      BY <1>1, <2>4, DaysOf DEF HardDays
    <3>3. PICK g \in Rounded(product * 10, 200) :
             g \in Nat /\ good = Least(g, MaxIntervalDays)
      BY <1>1, <2>4, DaysOf DEF GoodDays
    <3>4. PICK e \in Rounded(product * 13, 200) :
             e \in Nat /\ easy = Least(e, MaxIntervalDays)
      BY <1>1, <2>4, DaysOf DEF EasyDays
    <3> HIDE DEF product
    <3>5. h <= g /\ g <= e
      BY <3>1, <3>2, <3>3, <3>4, RoundedOrdered
    <3> QED BY <2>0, <2>1, <2>4, <3>2, <3>3, <3>4, <3>5 DEF Least
  <2> QED BY <2>0, <2>2, <2>3, <2>4
<1>2. IInv => GradesAreOrdered
  BY <1>1 DEF IInv, GradesAreOrdered
<1> QED BY <1>2, Invariant, PTL

\* For any exercises, the grade of an item's pool is between the grades they earn alone.
THEOREM PooledBetween == Spec => []PooledGradeBetween
<1>1. IInv => PooledGradeBetween
  BY DEF IInv, PoolInv
<1> QED BY <1>1, Invariant, PTL
=============================================================================
