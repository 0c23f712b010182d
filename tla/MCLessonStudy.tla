----------------------------- MODULE MCLessonStudy -----------------------------
(***************************************************************************)
(* Documents of every exercise type and language, right and wrong in the   *)
(* ways the rules tell apart, and attempts at the lesson one of them       *)
(* makes.  An absent field is one the document leaves out.                 *)
(***************************************************************************)
EXTENDS LessonStudy, TLC

CONSTANTS a1, a2, d1, d2, d3

MCTrimmed  == "  " :> "" @@ " dom " :> "dom" @@ " choice " :> "choice" @@ " zaw " :> "zaw"
                @@ " mya " :> "mya"
MCNormal   == "zaw" :> "mya" @@ " zaw " :> " mya "
MCRunes    == "k" :> 1 @@ "word9" :> 9 @@ "long130" :> 130 @@ "{{1}} long" :> 3001
MCMarkers  == "x {{1}}" :> <<1>> @@ "x {{1}} {{2}}" :> <<1, 2>> @@ "{{2}} x {{1}}" :> <<2, 1>>
                @@ "{{1}} {{1}}" :> <<1, 1>> @@ "zaw {{1}}" :> <<1>> @@ "ji {{1}}" :> <<1>>
                @@ "my {{1}}" :> <<1>>
MCBanned   == {"<b>"}
MCNative   == [ja |-> {"ji", "ka", "ji {{1}}"},
               my |-> {"mya", "zaw", "zaw {{1}}", "my {{1}}", "bad", "k"}, pl |-> {}]
MCMisspelt == {"bad", "zaw"}
MCUuids    == {"L1", a1, a2}
MCRank     == "L0" :> 1 @@ "L1" :> 2 @@ "a0" :> 0 @@ a1 :> 1 @@ a2 :> 2
MCUpper    == "n5" :> "N5" @@ "a1" :> "A1"
MCExerciseIds  == {"e1", "e2"}
MCReferenceIds == {"A1#dom", "A1#kot", "N5#ji"}
MCAvailable == [ja |-> {"N5#ji"}, my |-> {}, pl |-> {"A1#dom"}]
MCAttemptOf   == d1 :> a1 @@ d2 :> a1 @@ d3 :> a2
MCCompletedAt == a1 :> 3 @@ a2 :> 2

\* A result to another lesson, and one to a lesson L1 of fewer points that was deleted:
\* it is later than no attempt at the new L1, and as late as one.
MCEarlier ==
  {[lessonId |-> "L0", completedAt |-> 4, attemptId |-> a1, score |-> 2, maxScore |-> 2],
   [lessonId |-> "L1", completedAt |-> 2, attemptId |-> "a0", score |-> 5, maxScore |-> 5]}

Lesson(language, level, exercises) ==
  [schemaVersion |-> "1.0", lessonId |-> "L1", language |-> language, level |-> level,
   title |-> "title", readingStage |-> "foundational", exercises |-> exercises]
Polish(exercises)  == Lesson("pl", "A1", exercises)
Exercise(type, payload) ==
  [exerciseId |-> "e1", type |-> type, points |-> 5, payload |-> payload]
Second(e) == [e EXCEPT !.exerciseId = "e2"]
Bare(type) == [exerciseId |-> "e1", type |-> type, points |-> 5]

Cloze(text, indexes, answers, bank) ==
  Exercise("cloze", [text |-> text, wordBank |-> bank,
    blanks |-> [i \in DOMAIN indexes |-> [index |-> indexes[i], answer |-> answers[i]]]])
Pick(options, answer) == [question |-> "which", options |-> options, answer |-> answer]
Choice(options, answer) == Exercise("multiple_choice", [questions |-> <<Pick(options, answer)>>])
Ordering(items) == Exercise("ordering", [items |-> items])
Matching(left)  == Exercise("matching", [pairs |-> <<[left |-> left, right |-> "house"],
                                                     [left |-> left, right |-> "cat"]>>])
Story(questions) ==
  Exercise("reading", [genre |-> "short_story", title |-> " dom ", passage |-> "dom",
                       annotations |-> <<[surface |-> "dom"]>>, questions |-> questions])
Short(answer, alternates) ==
  [question |-> "why", kind |-> "short_answer", answer |-> answer, alternates |-> alternates]
Script(glyph) == Exercise("script_practice", [items |-> <<glyph, glyph>>])
Write2 == [exerciseId |-> "e2", type |-> "writing_prompt", prompt |-> "write", points |-> 3]

ExampleStory == Story(<<Short("dom", <<" dom ">>), Short("  ", <<>>),
                 Pick(<<"dom", " dom ">>, " dom ") @@ [kind |-> "multiple_choice"]>>)

\* The lesson that is studied: a story, which opens a connected lesson, and writing.
Connected ==
  [Polish(<<ExampleStory, Write2>>) EXCEPT !.readingStage = "connected", !.level = "a1"]
MCStudied == {Connected}

Accepted ==
  {Polish(<<Choice(<<" dom ", "kot">>, "dom") @@ [referencedVocab |-> <<"A1#dom">>]>>),
   Polish(<<Cloze("{{2}} x {{1}}", <<1, 2>>, <<"kot", " dom ">>, <<"dom", "kot">>),
            Second(Ordering(<<"dom", "kot", "pies">>))>>),
   Polish(<<Matching("dom"), Second(Bare("writing_prompt")) @@ [prompt |-> "write"]>>),
   Polish(<<Exercise("translation", [source |-> " dom "])>>),
   Polish(<<Script([kind |-> " choice ", options |-> <<" dom ", "kot">>, answer |-> "dom"])>>),
   Polish(<<Script([kind |-> "dictation", answer |-> " dom "])>>),
   Polish(<<Exercise("writing_prompt", <<>>) @@ [prompt |-> "write"]>>),
   Polish(<<Story(<<Short("  ", <<>>)>>)>>),
   Polish(<<Exercise("ordering", [items |-> [i \in 1..20 |-> "dom"]])>>),
   Polish(<<Choice(<<"dom", "kot">>, "dom")>>) @@ [metadata |-> <<>>],
   Lesson("ja", "n5", <<Cloze("ji {{1}}", <<1>>, <<"dom">>, <<>>),
                        Second(Script([glyph |-> "ji"]))>>),
   Lesson("my", "A1", <<Choice(<<"zaw", "k">>, "mya")>>),
   Lesson("my", "A1", <<Cloze("my {{1}}", <<1>>, <<" zaw ">>, <<"mya", "k">>),
                        Second(Ordering(<<"zaw", "mya">>))>>),
   Lesson("my", "A1", <<Matching("zaw"), Second(Script([glyph |-> "k"]))>>)}

Rejected ==
  {Polish(<<>>),
   Polish(<<Choice(<<"dom", "kot">>, "pies")>>),
   Polish(<<Choice(<<"dom", "kot">>, "dom"), Choice(<<"dom", "kot">>, "kot")>>),
   Polish(<<Choice(<<"dom", "<b>">>, "dom")>>),
   Polish(<<Choice(<<"dom", "kot">>, "dom") @@ [referencedVocab |-> <<"A1#kot">>]>>),
   Polish(<<Choice(<<"dom", "kot">>, "dom")>>) @@ [createdAt |-> "now"],
   [Polish(<<Matching("dom"), Second(ExampleStory)>>) EXCEPT !.readingStage = "connected"],
   Polish(<<Cloze("x {{1}}", <<1>>, <<"dom">>, <<"kot", "pies">>)>>),
   Polish(<<Cloze("x {{1}}", <<1>>, <<"dom">>, <<"dom", " dom ">>)>>),
   Polish(<<Cloze("x {{1}} {{2}}", <<1>>, <<"dom">>, <<>>)>>),
   Polish(<<Cloze("{{1}} {{1}}", <<1>>, <<"dom">>, <<>>)>>),
   Polish(<<Cloze("x {{1}}", <<1>>, <<"long130">>, <<>>)>>),
   Polish(<<Story(<<Short("  ", <<"dom">>)>>)>>),
   Polish(<<Ordering([i \in 1..21 |-> "dom"])>>),
   Polish(<<Script([glyph |-> "k"])>>),
   Polish(<<Script([kind |-> "choice", options |-> <<"dom", " dom ">>, answer |-> "dom"])>>),
   Polish(<<Bare("cloze")>>),
   Polish(<<Bare("writing_prompt")>>),
   Polish(<<Exercise("essay", <<>>)>>),
   Lesson("ja", "A1", <<Matching("ji")>>),
   Lesson("ja", "N5", <<Ordering(<<"ji", "dom">>)>>),
   Lesson("ja", "N5", <<Script([glyph |-> "word9"])>>),
   Lesson("my", "A1", <<Matching("bad")>>),
   Lesson("my", "A1", <<Script([glyph |-> "mya", kind |-> "choice", answer |-> "zaw",
                               options |-> <<"zaw", "mya">>])>>)}

\* Burmese lessons in which an exercise that needs its payload has none.
Payloadless == {Lesson("my", "A1", <<Bare(type)>>) : type \in {"cloze", "reading", "ordering"}}

MCDrafts == MCStudied \union Accepted \union Rejected \union Payloadless
=============================================================================
