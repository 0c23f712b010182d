----------------------------- MODULE LessonDocument ----------------------------
(***************************************************************************)
(* What an import accepts: domain/lesson.New over the eight exercise       *)
(* types, with the Burmese normalisation before it and the script hook of  *)
(* the lesson's language after it.                                         *)
(*                                                                         *)
(* New collects an issue for every rule a document breaks and refuses it   *)
(* if there is one, so a rule is here a predicate that holds when it adds  *)
(* no issue.  The rules read the document as trimmed, and so do these.     *)
(* Texts are opaque: the constants say what the rules ask of them.         *)
(***************************************************************************)
EXTENDS Integers, Sequences, FiniteSets, Functions

CONSTANTS
  Trimmed,       \* Trimmed[t]: t without white space around it, if it has any
  Normal,        \* Normal[t]: what burmese.Normalize makes of t, if it changes it
  Runes,         \* Runes[t]: the length of t where it matters; 2 elsewhere
  Markers,       \* Markers[t]: the numbers of t's {{n}} markers, if it has any
  Banned,        \* texts with control characters or markup
  Native,        \* Native[language]: the texts written in its script
  Misspelt,      \* texts burmese.ValidateOrthography reports
  Uuids, ExerciseIds, ReferenceIds,  \* the ids that match the patterns
  NoPayload      \* an exercise without a payload

Of(f, t, default) == IF t \in DOMAIN f THEN f[t] ELSE default
Trim(t)           == Of(Trimmed, t, t)
Normalize(t)      == Of(Normal, t, t)
Length(t)         == Of(Runes, t, 2)

\* What is trimmed or normalised stays so: Normalize reorders marks and composes letters,
\* and white space is neither.
ASSUME TextAssumption ==
  \A t \in DOMAIN Trimmed \union DOMAIN Normal :
    /\ Trim(Trim(t)) = Trim(t)
    /\ Normalize(Normalize(t)) = Normalize(t)
    /\ Normalize(Trim(Normalize(t))) = Trim(Normalize(t))

Each(s, F(_)) == [i \in DOMAIN s |-> F(s[i])]
All(s, P(_))  == \A i \in DOMAIN s : P(s[i])
Added(f)      == FoldFunction(+, 0, f)

Levels == LET cefr == {"A1", "A2", "B1", "B2", "C1", "C2"}
          IN [ja |-> {"N5", "N4", "N3", "N2", "N1"}, my |-> cefr, pl |-> cefr]

ExerciseTypes == {"cloze", "translation", "ordering", "matching", "multiple_choice",
                  "reading", "writing_prompt", "script_practice"}

-----------------------------------------------------------------------------
(***************************************************************************)
(* Normalising and trimming                                                *)
(***************************************************************************)
\* A text as New leaves it: normalised in a Burmese lesson, and trimmed where its
\* validator trims it.
Kept(language, t) == IF language = "my" THEN Normalize(t) ELSE t
Tidy(language, t) == Trim(Kept(language, t))

CleanBlank(language, b) ==
  [b EXCEPT !.answer = Tidy(language, @), !.hint = Kept(language, @),
            !.alternates = Each(@, LAMBDA t : Kept(language, t))]

\* A question of a reading: the answer of a short one is not trimmed.
CleanQuestion(language, q) ==
  LET G(t) == Tidy(language, t)
  IN [q EXCEPT !.question = G(@), !.options = Each(@, G), !.alternates = Each(@, G),
               !.answer = IF q.kind = "short_answer" THEN Kept(language, @) ELSE G(@)]

CleanItem(language, x) ==
  LET F(t) == Kept(language, t)
      G(t) == Tidy(language, t)
  IN [x EXCEPT !.glyph = G(@), !.kind = Trim(@), !.answer = G(@), !.options = Each(@, G),
               !.reading = F(@), !.meaning = F(@)]

CleanPayload(language, type, p) ==
  LET F(t) == Kept(language, t)
      G(t) == Tidy(language, t)
  IN CASE type = "cloze" ->
            [text |-> F(p.text), wordBank |-> Each(p.wordBank, G),
             blanks |-> Each(p.blanks, LAMBDA b : CleanBlank(language, b))]
       [] type = "translation" -> [source |-> G(p.source), reference |-> F(p.reference)]
       [] type = "ordering" ->
            [items |-> Each(p.items, G), translation |-> F(p.translation)]
       [] type = "matching" ->
            [pairs |-> Each(p.pairs, LAMBDA x : [left |-> G(x.left), right |-> G(x.right)])]
       [] type = "multiple_choice" ->
            [questions |-> Each(p.questions, LAMBDA q : [question |-> G(q.question),
               options |-> Each(q.options, G), answer |-> G(q.answer)])]
       [] type = "reading" ->
            [genre |-> p.genre, title |-> G(p.title), passage |-> G(p.passage),
             annotations |-> Each(p.annotations, LAMBDA a : Each(a, F)),
             questions |-> Each(p.questions, LAMBDA q : CleanQuestion(language, q))]
       [] type = "writing_prompt" -> Each(p, F)
       [] type = "script_practice" ->
            [items |-> Each(p.items, LAMBDA x : CleanItem(language, x))]

CleanExercise(language, e) ==
  [e EXCEPT !.prompt = Tidy(language, @),
            !.payload = IF @ = NoPayload \/ e.type \notin ExerciseTypes THEN @
                        ELSE CleanPayload(language, e.type, @)]

Clean(l) ==
  [l EXCEPT !.schemaVersion = Trim(@), !.sourceModel = Trim(@), !.tags = Each(@, Trim),
            !.title = Tidy(l.language, @), !.description = Tidy(l.language, @),
            !.topic = Tidy(l.language, @),
            !.exercises = Each(@, LAMBDA e : CleanExercise(l.language, e))]

-----------------------------------------------------------------------------
(***************************************************************************)
(* The rules of each exercise type                                         *)
(***************************************************************************)
Optional(t, max) == t = "" \/ (Length(t) <= max /\ t \notin Banned)
Required(t, max) == t # "" /\ Optional(t, max)

Between(s, low, high) == Len(s) \in low..high

ValidReferences(ids) == /\ Len(ids) <= 30
                        /\ Range(ids) \subseteq ReferenceIds
                        /\ IsInjective(ids)

\* Mutant of Offered: no word bank is asked for the answer.
AnyAnswer(answer, bank) == answer # ""

\* With a word bank the learner picks the answer from it.
Offered(answer, bank) == bank # <<>> => answer \in Range(bank)

ValidCloze(p) ==
  LET marks == Of(Markers, p.text, <<>>)
      index == Each(p.blanks, LAMBDA b : b.index)
  IN /\ Required(p.text, 3000)
     /\ Between(p.blanks, 1, 20)
     /\ Len(p.wordBank) <= 40 /\ IsInjective(p.wordBank)
     /\ All(p.wordBank, LAMBDA w : Required(w, 120))
     /\ IsInjective(index) /\ All(index, LAMBDA n : n >= 1)
     /\ Range(index) = Range(marks) /\ IsInjective(marks)
     /\ All(p.blanks, LAMBDA b :
          /\ Required(b.answer, 120)
          /\ Offered(b.answer, p.wordBank)
          /\ Len(b.alternates) <= 10
          /\ All(b.alternates, LAMBDA t : Required(t, 120))
          /\ Optional(b.hint, 200))

ValidTranslation(p) == Required(p.source, 1000) /\ Optional(p.reference, 1000)

ValidOrdering(p) == /\ Between(p.items, 2, 20)
                    /\ All(p.items, LAMBDA t : Required(t, 200))
                    /\ Optional(p.translation, 500)

ValidMatching(p) ==
  /\ Between(p.pairs, 2, 20)
  /\ All(p.pairs, LAMBDA x : Required(x.left, 120) /\ Required(x.right, 120))

\* One of two to six options, the answer among them.
ValidChoice(q) == /\ Between(q.options, 2, 6)
                  /\ All(q.options, LAMBDA t : Required(t, 200))
                  /\ q.answer # "" /\ q.answer \in Range(q.options)

ValidMultipleChoice(p) ==
  /\ Between(p.questions, 1, 10)
  /\ All(p.questions, LAMBDA q : Required(q.question, 300) /\ ValidChoice(q))

ValidQuestion(q) ==
  /\ Required(q.question, 300)
  /\ \/ q.kind = "multiple_choice" /\ ValidChoice(q) /\ q.alternates = <<>>
     \/ /\ q.kind = "short_answer" /\ q.options = <<>>
        /\ Optional(q.answer, 400)
        /\ Len(q.alternates) <= 10
        /\ q.alternates # <<>> => Trim(q.answer) # ""
        /\ All(q.alternates, LAMBDA t : Required(t, 400))

ValidReading(p) ==
  /\ p.genre = "short_story"
  /\ Required(p.title, 160) /\ Required(p.passage, 6000)
  /\ Len(p.annotations) <= 100
  /\ All(p.annotations, LAMBDA a :
       Required(a.surface, 60) /\ Optional(a.reading, 60) /\ Optional(a.gloss, 200))
  /\ Between(p.questions, 1, 10) /\ All(p.questions, ValidQuestion)

ValidWritingPrompt(p) == Optional(p.guidance, 1000) /\ Optional(p.modelAnswer, 2000)

\* A glyph to study, or with a kind a spelling to choose or to write down.
ValidScriptItem(x) ==
  /\ Optional(x.reading, 120) /\ Optional(x.meaning, 120)
  /\ \/ x.kind = "" /\ Required(x.glyph, 8) /\ x.answer = "" /\ x.options = <<>>
     \/ /\ Optional(x.glyph, 120) /\ Required(x.answer, 120)
        /\ \/ x.kind = "dictation" /\ x.options = <<>>
           \/ /\ x.kind = "choice"
              /\ Between(x.options, 2, 6) /\ IsInjective(x.options)
              /\ All(x.options, LAMBDA t : Required(t, 120))
              /\ x.answer \in Range(x.options)

ValidScriptPractice(p) == Between(p.items, 1, 30) /\ All(p.items, ValidScriptItem)

ValidPayload(type, p) ==
  CASE type = "cloze"           -> ValidCloze(p)
    [] type = "translation"     -> ValidTranslation(p)
    [] type = "ordering"        -> ValidOrdering(p)
    [] type = "matching"        -> ValidMatching(p)
    [] type = "multiple_choice" -> ValidMultipleChoice(p)
    [] type = "reading"         -> ValidReading(p)
    [] type = "writing_prompt"  -> ValidWritingPrompt(p)
    [] type = "script_practice" -> ValidScriptPractice(p)

ValidExercise(e) ==
  /\ e.exerciseId \in ExerciseIds
  /\ Optional(e.prompt, 500)
  /\ e.points \in 0..100
  /\ ValidReferences(e.referencedVocab) /\ ValidReferences(e.referencedGrammar)
  /\ e.type \in ExerciseTypes
  /\ e.type = "writing_prompt" => e.prompt # ""
  /\ IF e.payload = NoPayload THEN e.type = "writing_prompt"
                              ELSE ValidPayload(e.type, e.payload)

-----------------------------------------------------------------------------
(***************************************************************************)
(* The script hooks, which run whatever issues there already are           *)
(***************************************************************************)
InJapanese(e) ==
  LET p == e.payload
      Ja(t) == t = "" \/ t \in Native["ja"]
  IN p # NoPayload =>
     CASE e.type = "cloze"             -> Ja(p.text)
       [] e.type = "reading"           -> Ja(p.passage)
       [] e.type = "translation"       -> Ja(p.source)
       [] e.type = "ordering"          -> All(p.items, Ja)
       [] e.type = "script_practice"   -> All(p.items, LAMBDA x : Ja(x.glyph))
       [] OTHER                        -> TRUE

\* The hook of Burmese reads the payload of these types without asking if there is one.
Panics(e) == /\ e.payload = NoPayload
             /\ e.type \in {"cloze", "reading", "translation", "ordering", "matching",
                            "script_practice"}

InBurmese(e) ==
  LET p == e.payload
      Spelt(t) == t \notin Misspelt
      My(t)    == t = "" \/ (t \in Native["my"] /\ Spelt(t))
  IN CASE e.type = "cloze" ->
            /\ My(p.text) /\ All(p.wordBank, Spelt)
            /\ All(p.blanks, LAMBDA b : Spelt(b.answer))
       [] e.type = "reading" ->
            /\ My(p.title) /\ My(p.passage)
            /\ All(p.annotations, LAMBDA a : Spelt(a.surface))
       [] e.type = "translation" -> My(p.source)
       [] e.type = "ordering"    -> All(p.items, My)
       [] e.type = "matching"    -> All(p.pairs, LAMBDA x : My(x.left))
       [] e.type = "script_practice" ->
            All(p.items, LAMBDA x : /\ x.glyph \in Native["my"]
                                    /\ Length(x.glyph) > 1 => Spelt(x.glyph))
       [] OTHER -> TRUE

\* Polish script practice drills spelling: every item has a kind.
InPolish(e) == e.type = "script_practice" /\ e.payload # NoPayload =>
                 All(e.payload.items, LAMBDA x : x.kind # "")

InScript(language, e) == CASE language = "ja" -> InJapanese(e)
                           [] language = "my" -> InBurmese(e)
                           [] language = "pl" -> InPolish(e)

-----------------------------------------------------------------------------
(***************************************************************************)
(* The lesson                                                              *)
(***************************************************************************)
References(l) == [i \in DOMAIN l.exercises |->
                    Len(l.exercises[i].referencedVocab) + Len(l.exercises[i].referencedGrammar)]

OpensWithShortStory(l) ==
  /\ l.exercises # <<>>
  /\ LET e == l.exercises[1]
     IN /\ e.type = "reading" /\ e.payload # NoPayload
        /\ e.payload.genre = "short_story" /\ e.payload.questions # <<>>
        /\ Trim(e.payload.title) # "" /\ Trim(e.payload.passage) # ""

ValidEnvelope(l) ==
  /\ l.schemaVersion = "1.0" /\ l.lessonId \in Uuids
  /\ l.language \in DOMAIN Levels /\ l.level \in Levels[l.language]
  /\ Required(l.title, 160) /\ Optional(l.description, 1000) /\ Optional(l.topic, 120)
  /\ Len(l.tags) <= 10 /\ All(l.tags, LAMBDA t : Required(t, 40))
  /\ l.readingStage \in {"connected", "foundational"}
  /\ Optional(l.sourceModel, 80) /\ l.estimatedMinutes \in 0..240

\* Mutant of DistinctIds: exercises may share an id.
AnyIds(l) == TRUE

DistinctIds(l) == IsInjective(Each(l.exercises, LAMBDA e : e.exerciseId))

Valid(l) ==
  /\ ValidEnvelope(l)
  /\ Between(l.exercises, 1, 25)
  /\ All(l.exercises, ValidExercise)
  /\ DistinctIds(l)
  /\ Added(References(l)) <= 99
  /\ l.readingStage = "connected" => OpensWithShortStory(l)
  /\ All(l.exercises, LAMBDA e : InScript(l.language, e))

\* New: the clean lesson, or what came of it instead.
New(candidate) ==
  LET l == Clean(candidate)
  IN IF l.language = "my" /\ \E i \in DOMAIN l.exercises : Panics(l.exercises[i])
       THEN [reply |-> "panic", lesson |-> l]
       ELSE [reply |-> IF Valid(l) THEN "accepted" ELSE "rejected", lesson |-> l]
=============================================================================
