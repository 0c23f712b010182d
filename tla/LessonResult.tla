------------------------------ MODULE LessonResult -----------------------------
(***************************************************************************)
(* What a completed lesson scores: domain/lesson.NewResult checks a result *)
(* the learner's client worked out against the lesson it is for.           *)
(***************************************************************************)
EXTENDS LessonDocument

\* points * correct / total, rounded half up.
ScoreFor(points, correct, total) ==
  IF total = 0 THEN 0 ELSE (2 * points * correct + total) \div (2 * total)

\* A question of a reading has an answer to be marked against.
Answered(q) == Trim(q.answer) # ""

\* How an exercise is graded, and out of how many.
Scale(e) ==
  LET p == e.payload
      Auto(n) == [grading |-> "auto", total |-> n]
      Self    == [grading |-> "self", total |-> 4]
  IN CASE e.type \in {"translation", "writing_prompt"} -> Self
       [] e.type = "script_practice" ->
            IF p # NoPayload /\ \E i \in DOMAIN p.items : p.items[i].kind # ""
            THEN Auto(Len(p.items)) ELSE Self
       [] OTHER -> IF p = NoPayload THEN Auto(0) ELSE Auto(
            CASE e.type = "cloze"           -> Len(p.blanks)
              [] e.type = "ordering"        -> Len(p.items)
              [] e.type = "matching"        -> Len(p.pairs)
              [] e.type = "multiple_choice" -> Len(p.questions)
              [] e.type = "reading"         ->
                   Cardinality({i \in DOMAIN p.questions : Answered(p.questions[i])}))

\* The outcome of exercise e with so many correct.
Outcome(e, correct) ==
  LET s == Scale(e)
  IN [exerciseId |-> e.exerciseId, type |-> e.type, grading |-> s.grading,
      score |-> ScoreFor(e.points, correct, s.total), maxScore |-> e.points,
      correct |-> correct, total |-> s.total]

\* What the outcomes so graded have together under a field.
Marks(outcomes, grading, field) ==
  Added(Each(outcomes, LAMBDA o : IF o.grading \in grading THEN o[field] ELSE 0))

Sums(outcomes) ==
  LET graded == {"auto", "self"}
  IN [score     |-> Marks(outcomes, graded, "score"),
      maxScore  |-> Marks(outcomes, graded, "maxScore"),
      autoScore |-> Marks(outcomes, {"auto"}, "score"),
      autoMax   |-> Marks(outcomes, {"auto"}, "maxScore"),
      selfScore |-> Marks(outcomes, {"self"}, "score"),
      selfMax   |-> Marks(outcomes, {"self"}, "maxScore")]

\* The exercise an id stands for: of two that share it, the last.
ById(l, id) == CHOOSE i \in DOMAIN l.exercises :
                 /\ l.exercises[i].exerciseId = id
                 /\ \A j \in DOMAIN l.exercises : l.exercises[j].exerciseId = id => j <= i

\* NewResult accepts result r for lesson l.
Accepts(r, l) ==
  LET ids == Each(r.exercises, LAMBDA o : o.exerciseId)
  IN /\ r.attemptId \in Uuids /\ r.lessonId = l.lessonId
     /\ 0 < r.startedAt /\ r.startedAt <= r.completedAt
     /\ Len(r.exercises) = Len(l.exercises)
     /\ IsInjective(ids)
     /\ Range(ids) \subseteq Range(Each(l.exercises, LAMBDA e : e.exerciseId))
     /\ All(r.exercises, LAMBDA o :
          /\ o.correct \in 0..o.total /\ o.score \in 0..o.maxScore
          /\ o = Outcome(l.exercises[ById(l, o.exerciseId)], o.correct))
     /\ r.sums = Sums(r.exercises)
=============================================================================
