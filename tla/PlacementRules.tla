---------------------------- MODULE PlacementRules ----------------------------
(***************************************************************************)
(* The placement test as domain/assessment computes it: stages of          *)
(* multiple-choice items, one per band from the easiest, scored one at a   *)
(* time.  Pure operators on session values, no storage.                    *)
(*                                                                         *)
(* A paper is the content of a stage (the prompts, options and correct     *)
(* indexes BuildStage assembled), a sheet the answers submitted to it.     *)
(***************************************************************************)
EXTENDS Integers, Sequences, FiniteSets

CONSTANTS
  Papers,    \* stage contents
  Sheets,    \* answer lists
  NoSheet,   \* the Answers of a stage not yet answered
  Size,      \* Size[p]: the items of paper p
  Correct,   \* Correct[p][s]: the items sheet s gets right on paper p
  Fits,      \* the pairs of a paper and a sheet of its length, options in range
  NBands     \* the bands of the language

ASSUME PaperAssumption ==
  /\ Size \in [Papers -> Nat \ {0}]
  /\ Correct \in [Papers -> [Sheets -> Nat]]
  /\ \A p \in Papers, s \in Sheets : Correct[p][s] <= Size[p]
  /\ NoSheet \notin Sheets
  /\ Fits \subseteq Papers \X Sheets
  /\ NBands \in Nat \ {0}

Confidences == {"high", "medium", "low", "none"}

Stage == [paper : Papers, answered : BOOLEAN, sheet : Sheets \union {NoSheet}, correct : Nat]

Session == [version : Nat, done : BOOLEAN, stages : Seq(Stage), level : Nat,
            floor : BOOLEAN, confidence : Confidences, completedAt : Nat]

Unanswered(p) == [paper |-> p, answered |-> FALSE, sheet |-> NoSheet, correct |-> 0]

NewSession(p) ==
  [version |-> 1, done |-> FALSE, stages |-> <<Unanswered(p)>>, level |-> 0,
   floor |-> FALSE, confidence |-> "none", completedAt |-> 0]

LastOf(session) == session.stages[Len(session.stages)]

\* a / b >= n / d, for the ratios the code compares as floats (they agree on
\* stages of up to ten items).
AtLeast(a, b, n, d) == a * d >= n * b

Passed(stage) == AtLeast(stage.correct, Size[stage.paper], 3, 4)

\* accuracy(upper) - accuracy(lower) >= n / d
MarginAtLeast(upper, lower, n, d) ==
  LET u == Size[upper.paper]
      l == Size[lower.paper]
  IN  (upper.correct * l - lower.correct * u) * d >= n * u * l

\* replayView: the stage was answered, with this very sheet.
Replays(session, i, sheet) ==
  /\ i \in 1 .. Len(session.stages)
  /\ session.stages[i].answered
  /\ session.stages[i].sheet = sheet

\* The checks of Answer.
Answerable(session, i, sheet) ==
  /\ ~ session.done
  /\ i = Len(session.stages)
  /\ i > 0
  /\ ~ session.stages[i].answered
  /\ <<session.stages[i].paper, sheet>> \in Fits

\* What Answer does to the stage and the version.
Marked(session, sheet) ==
  LET i == Len(session.stages)
      p == session.stages[i].paper
  IN  [session EXCEPT
         !.version = @ + 1,
         !.stages[i] = [paper |-> p, answered |-> TRUE, sheet |-> sheet,
                        correct |-> Correct[p][sheet]]]

Finishes(marked) == ~ Passed(LastOf(marked)) \/ Len(marked.stages) = NBands

FloorConfidence(last) ==
  LET size == Size[last.paper]
  IN  IF AtLeast(2 * size, 5 * last.correct, 1, 1) THEN "high"
      ELSE IF AtLeast(3 * size, 5 * last.correct, 1, 1) THEN "medium" ELSE "low"

MarginConfidence(upper, lower) ==
  IF MarginAtLeast(upper, lower, 7, 20) THEN "high"
  ELSE IF MarginAtLeast(upper, lower, 3, 20) THEN "medium" ELSE "low"

\* Mutant of Completed: a failed stage's own band is the estimate.
CompletedAtFailure(marked, now) ==
  LET n    == Len(marked.stages)
      last == LastOf(marked)
  IN  [marked EXCEPT !.done = TRUE, !.completedAt = now, !.level = n,
                     !.floor = n = 1 /\ ~ Passed(last),
                     !.confidence = IF Passed(last) THEN "medium" ELSE FloorConfidence(last)]

\* complete: the result of a marked session that finishes, at time now.
Completed(marked, now) ==
  LET n    == Len(marked.stages)
      last == LastOf(marked)
      result(level, floor, confidence) ==
        [marked EXCEPT !.done = TRUE, !.completedAt = now, !.level = level,
                       !.floor = floor, !.confidence = confidence]
  IN  IF Passed(last)
      THEN result(n, FALSE,
                  IF AtLeast(last.correct, Size[last.paper], 9, 10) THEN "high" ELSE "medium")
      ELSE IF n = 1 THEN result(1, TRUE, FloorConfidence(last))
      ELSE result(n - 1, FALSE, MarginConfidence(marked.stages[n - 1], last))

\* Answer and complete, or Answer and the next stage on paper p.
Graded(session, sheet, now, p) ==
  LET marked == Marked(session, sheet)
  IN  IF Finishes(marked) THEN Completed(marked, now)
      ELSE [marked EXCEPT !.stages = Append(@, Unanswered(p))]
=============================================================================
