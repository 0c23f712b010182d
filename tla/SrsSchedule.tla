----------------------------- MODULE SrsSchedule -----------------------------
(***************************************************************************)
(* progress.Schedule: what grades do to the schedule of one review item,   *)
(* over any sequence of reviews and of lessons, whose grade is that of the *)
(* item's pooled outcomes.                                                 *)
(*                                                                         *)
(* Numbers are exact: an ease factor is counted in twentieths (2.5 is 50;  *)
(* the code adds and subtracts 0.2, 0.15 and 0.1) and a multiplier in      *)
(* tenths.  The code computes the product of interval, ease and multiplier *)
(* in floats, so a product half-way between two days may round either way. *)
(***************************************************************************)
EXTENDS LessonPerformance

CONSTANT MaxIntervalDays

ASSUME IntervalAssumption == MaxIntervalDays \in Nat /\ MaxIntervalDays >= 10

VARIABLES
  ease,         \* EaseFactor, in twentieths
  interval,     \* IntervalDays; 0 until the item is first scheduled, and stored
  repetitions   \* Repetitions; from three on they are all alike

item == <<ease, interval, repetitions>>
vars == <<item, pool>>

\* Mutant of MinEase: a floor of 1.2.
LowEase == 24

MinEase == 26
MaxEase == 60
ManyRepetitions == 3   \* bound: what nextInterval tells apart

TypeOK ==
  /\ ease \in MinEase .. MaxEase
  /\ interval \in 0 .. MaxIntervalDays
  /\ repetitions \in 0 .. ManyRepetitions
  /\ PoolType

\* A new item: NewItem.
Init == ease = 50 /\ interval = 0 /\ repetitions = 0 /\ EmptyPool

Least(a, b)    == IF a <= b THEN a ELSE b
Greatest(a, b) == IF a >= b THEN a ELSE b

\* The whole numbers nearest to x / d: one, or two when x / d is half-way.
Rounded(x, d) == {n \in {x \div d, x \div d + 1} : 2 * n * d <= 2 * x + d /\ 2 * x - d <= 2 * n * d}

\* nextInterval: the days to the next review, after n successes in a row.
NextInterval(n, first, second, tenths) ==
  CASE n = 1 -> {first}
    [] n = 2 -> {second}
    [] OTHER -> {Greatest(1, days) : days \in Rounded(Greatest(1, interval) * ease * tenths, 200)}

Repeated == Least(repetitions + 1, ManyRepetitions)

\* Mutant of Days: no cap.
Uncapped(days) == days

\* The intervals each grade may give, capped.
Days(days) == {Least(d, MaxIntervalDays) : d \in days}
AgainDays  == Days({1})

\* Mutant of HardDays: hard's multiplier above good's.
HardAboveGood == Days(NextInterval(Repeated, 1, 3, 12))

HardDays   == Days(NextInterval(Repeated, 1, 3, 8))
GoodDays   == Days(NextInterval(Repeated, 1, 6, 10))
EasyDays   == Days(NextInterval(Repeated, 4, 10, 13))

\* The switch of Schedule.
ScheduleAgain == /\ repetitions' = 0
                 /\ interval' \in AgainDays
                 /\ ease' = Greatest(MinEase, ease - 4)

ScheduleHard == /\ repetitions' = Repeated
                /\ interval' \in HardDays
                /\ ease' = Greatest(MinEase, ease - 3)

ScheduleGood == /\ repetitions' = Repeated
                /\ interval' \in GoodDays
                /\ UNCHANGED ease

ScheduleEasy == /\ repetitions' = Repeated
                /\ interval' \in EasyDays
                /\ ease' = Least(ease + 2, MaxEase)

Schedule(grade) == \/ grade = Again /\ ScheduleAgain
                   \/ grade = Hard  /\ ScheduleHard
                   \/ grade = Good  /\ ScheduleGood
                   \/ grade = Easy  /\ ScheduleEasy

\* A review of an item that is stored.
Review(grade) == interval > 0 /\ Schedule(grade) /\ UNCHANGED pool

\* An exercise of a lesson refers to the item.
AddExercise(c, t) == AddPerformance(c, t) /\ UNCHANGED item

\* The lesson is recorded: scheduledLessonItems, which may create the item.
FinishLesson ==
  /\ total > 0
  /\ Schedule(GradePerformance(correct, total))
  /\ ClearPool

Next == \/ \E grade \in Grades : Review(grade)
        \/ \E t \in 1 .. MaxTotal : \E c \in 0 .. t : AddExercise(c, t)
        \/ FinishLesson

Spec == Init /\ [][Next]_vars

-----------------------------------------------------------------------------
\* Whatever the history of an item, a better grade never brings it back sooner than a
\* worse one would.
GradesAreOrdered ==
  \A again \in AgainDays, hard \in HardDays, good \in GoodDays, easy \in EasyDays :
     again <= hard /\ hard <= good /\ good <= easy

\* From the third success in a row on, recalling an item never shortens its interval,
\* however far its ease has sunk: the floor of 1.3 outweighs hard's multiplier of 0.8.
\* And an item that is recalled well does not get stuck: rounding never eats the growth
\* of a short interval, up to the cap.
SuccessNeverShortens ==
  repetitions >= 2 =>
    /\ \A days \in HardDays \union GoodDays \union EasyDays : days >= interval
    /\ interval < MaxIntervalDays => \A days \in GoodDays : days > interval
=============================================================================
