--------------------------- MODULE LessonPerformance ---------------------------
(***************************************************************************)
(* How a lesson's result becomes one grade of a review item.  The item may *)
(* be referenced by several exercises; lessonPerformances pools their      *)
(* outcomes, one exercise after the other, and GradePerformance grades the *)
(* pool.                                                                   *)
(***************************************************************************)
EXTENDS Integers

CONSTANT MaxTotal   \* bound: the answers an item's exercises may have in all

ASSUME TotalAssumption == MaxTotal \in Nat

VARIABLES
  correct,   \* the pool of the exercises seen so far
  total,
  worst,     \* history: the lowest grade one of these exercises earns by itself
  best       \* history: the highest

pool == <<correct, total, worst, best>>

\* The grades in the order of merit.
Again == 1
Hard  == 2
Good  == 3
Easy  == 4
Grades == Again .. Easy

\* The grade of c correct answers in t.  c / t < n / d is compared in floats by the
\* code; the thresholds 0.6, 0.8 and 0.95 are the floats nearest to these fractions.
GradePerformance(c, t) ==
  IF t <= 0 \/ c <= 0     THEN Again
  ELSE IF 5 * c < 3 * t   THEN Again
  ELSE IF 5 * c < 4 * t   THEN Hard
  ELSE IF 20 * c < 19 * t THEN Good
  ELSE Easy

PoolType ==
  /\ total \in Nat
  /\ correct \in 0 .. total
  /\ worst \in Grades /\ best \in Grades

EmptyPool ==
  /\ correct = 0 /\ total = 0
  /\ worst = Easy /\ best = Again

\* The next lesson pools from nothing.
ClearPool ==
  /\ correct' = 0 /\ total' = 0
  /\ worst' = Easy /\ best' = Again

\* Mutant of AddPerformance: the total is that of the last exercise.
AddCorrectOnly(c, t) ==
  /\ t > 0 /\ correct + c <= MaxTotal
  /\ correct' = correct + c
  /\ total' = t
  /\ LET grade == GradePerformance(c, t)
     IN  /\ worst' = IF grade < worst THEN grade ELSE worst
         /\ best' = IF grade > best THEN grade ELSE best

\* addPerformance of an exercise with c correct answers in t; an exercise that has
\* nothing to answer is passed over, and NewResult refuses c > t.
AddPerformance(c, t) ==
  /\ t > 0
  /\ total + t <= MaxTotal
  /\ correct' = correct + c
  /\ total' = total + t
  /\ LET grade == GradePerformance(c, t)
     IN  /\ worst' = IF grade < worst THEN grade ELSE worst
         /\ best' = IF grade > best THEN grade ELSE best

-----------------------------------------------------------------------------
\* The grade a lesson gives an item is no better than the item's best exercise and no
\* worse than its worst: pooling outcomes of different length does not flip a grade.
PooledGradeBetween ==
  total > 0 => /\ worst <= GradePerformance(correct, total)
               /\ GradePerformance(correct, total) <= best
=============================================================================
