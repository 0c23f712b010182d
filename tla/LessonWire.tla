------------------------------- MODULE LessonWire ------------------------------
(***************************************************************************)
(* A lesson on the wire and in its table: the JSON documents of httpapi    *)
(* (lessonDocument and the payloads) and the items of dynamolessons.       *)
(*                                                                         *)
(* Both leave out a field marked omitempty when it has its zero value, and *)
(* read a field that is absent as its zero value.  A document is a record  *)
(* with the fields that are written; the request decoder refuses a field   *)
(* it does not know.                                                       *)
(***************************************************************************)
EXTENDS LessonDocument

CONSTANTS Upper   \* Upper[t]: t in upper case, where it differs

\* The records of a document: the zero value of each field, and the fields left
\* out when zero.  Every list of records names the kind of its elements.
Schema ==
  [lesson |->
     [zero |-> [schemaVersion |-> "", lessonId |-> "", language |-> "", level |-> "",
                title |-> "", description |-> "", topic |-> "", tags |-> <<>>,
                readingStage |-> "", sourceModel |-> "", estimatedMinutes |-> 0,
                exercises |-> <<>>],
      omit |-> {"description", "topic", "tags", "sourceModel", "estimatedMinutes"}],
   exercise |->
     [zero |-> [exerciseId |-> "", type |-> "", prompt |-> "", points |-> 0,
                referencedVocab |-> <<>>, referencedGrammar |-> <<>>,
                payload |-> NoPayload],
      omit |-> {"prompt", "points", "referencedVocab", "referencedGrammar", "payload"}],
   cloze |-> [zero |-> [text |-> "", blanks |-> <<>>, wordBank |-> <<>>],
              omit |-> {"wordBank"}, blanks |-> "blank"],
   blank |-> [zero |-> [index |-> 0, answer |-> "", alternates |-> <<>>, hint |-> ""],
              omit |-> {"alternates", "hint"}],
   translation |-> [zero |-> [source |-> "", reference |-> ""], omit |-> {"reference"}],
   ordering |-> [zero |-> [items |-> <<>>, translation |-> ""], omit |-> {"translation"}],
   matching |-> [zero |-> [pairs |-> <<>>], omit |-> {}, pairs |-> "pair"],
   pair |-> [zero |-> [left |-> "", right |-> ""], omit |-> {}],
   multiple_choice |-> [zero |-> [questions |-> <<>>], omit |-> {},
                        questions |-> "choice"],
   choice |-> [zero |-> [question |-> "", options |-> <<>>, answer |-> ""], omit |-> {}],
   reading |-> [zero |-> [genre |-> "", title |-> "", passage |-> "",
                          annotations |-> <<>>, questions |-> <<>>],
                omit |-> {"annotations"},
                annotations |-> "annotation", questions |-> "question"],
   annotation |-> [zero |-> [surface |-> "", reading |-> "", gloss |-> ""],
                   omit |-> {"reading", "gloss"}],
   question |-> [zero |-> [question |-> "", kind |-> "", options |-> <<>>, answer |-> "",
                           alternates |-> <<>>],
                 omit |-> {"options", "answer", "alternates"}],
   writing_prompt |-> [zero |-> [guidance |-> "", modelAnswer |-> ""],
                       omit |-> {"guidance", "modelAnswer"}],
   script_practice |-> [zero |-> [items |-> <<>>], omit |-> {}, items |-> "glyph"],
   glyph |-> [zero |-> [glyph |-> "", reading |-> "", meaning |-> "", kind |-> "",
                        answer |-> "", options |-> <<>>],
              omit |-> {"glyph", "reading", "meaning", "kind", "answer", "options"}]]

\* A record with the fields of r, and with those of s that r has not.
Over(r, s) == [f \in DOMAIN r \union DOMAIN s |-> IF f \in DOMAIN r THEN r[f] ELSE s[f]]

\* A record of some kind, as it is written and as it is read back.
Write(kind, r) == LET s == Schema[kind]
                  IN [f \in {f \in DOMAIN r : f \in s.omit => r[f] # s.zero[f]} |-> r[f]]
Read(kind, r)  == Over(r, Schema[kind].zero)
Known(kind, r) == DOMAIN r \subseteq DOMAIN Schema[kind].zero

\* The lists of records in a payload of a type.
Lists(type) == DOMAIN Schema[type] \ {"zero", "omit"}

InLists(type, p, F(_, _)) ==
  [f \in DOMAIN p |-> IF f \in Lists(type)
                      THEN Each(p[f], LAMBDA x : F(Schema[type][f], x)) ELSE p[f]]

WritePayload(type, p) == Write(type, InLists(type, p, Write))
ReadPayload(type, p)  == InLists(type, Read(type, p), Read)
KnownPayload(type, p) ==
  Known(type, p) /\ \A f \in Lists(type) \intersect DOMAIN p :
                      All(p[f], LAMBDA x : Known(Schema[type][f], x))

-----------------------------------------------------------------------------
(***************************************************************************)
(* httpapi: a document decoded, and a lesson shown                         *)
(***************************************************************************)
\* Only the type says what a payload is; that of an unknown type is not looked at.
DecodeExercise(doc) ==
  LET e == Read("exercise", doc)
  IN [e EXCEPT !.payload = IF e.type \notin ExerciseTypes \/ @ = NoPayload
                           THEN NoPayload ELSE ReadPayload(e.type, @)]

KnownExercise(doc) ==
  LET e == Read("exercise", doc)
  IN /\ Known("exercise", doc)
     /\ e.type \in ExerciseTypes /\ e.payload # NoPayload => KnownPayload(e.type, e.payload)

DecodeLesson(doc) ==
  [Read("lesson", [f \in DOMAIN doc \ {"metadata"} |-> doc[f]])
     EXCEPT !.level = Of(Upper, @, @), !.exercises = Each(@, DecodeExercise)]

\* decodeStrict finds nothing to object to; the metadata of a document is ignored.
Decodes(doc) == /\ DOMAIN doc \subseteq DOMAIN Schema["lesson"].zero \union {"metadata"}
                /\ All(Read("lesson", doc).exercises, KnownExercise)

\* Mutant of ShowExercise: a reading is shown without its alternates.
ShowExerciseBare(e) ==
  Write("exercise",
        [e EXCEPT !.payload =
           IF e.type = "reading" /\ @ # NoPayload
           THEN WritePayload(e.type, [@ EXCEPT !.questions =
                  Each(@, LAMBDA q : [q EXCEPT !.alternates = <<>>])])
           ELSE IF @ = NoPayload THEN @ ELSE WritePayload(e.type, @)])

ShowExercise(e) ==
  Write("exercise", [e EXCEPT !.payload = IF @ = NoPayload THEN @
                                          ELSE WritePayload(e.type, @)])

ShowDocument(l) == Write("lesson", [l EXCEPT !.exercises = Each(@, ShowExercise)])

\* The answer is the lesson's document and the time of its import, which is opaque here;
\* a client that sends the lesson anywhere takes the time out.
ShowLesson(l)   == Over([createdAt |-> "time"], ShowDocument(l))
AsDocument(doc) == [f \in DOMAIN doc \ {"createdAt"} |-> doc[f]]

Total(l) == Added(Each(l.exercises, LAMBDA e : e.points))

\* What the list of lessons says of a lesson.
Summary(l) ==
  [lessonId |-> l.lessonId, totalPoints |-> Total(l),
   exerciseTypes |-> Range(Each(l.exercises, LAMBDA e : e.type)),
   hasStory |-> \E i \in DOMAIN l.exercises :
                  /\ l.exercises[i].type = "reading" /\ l.exercises[i].payload # NoPayload
                  /\ l.exercises[i].payload.genre = "short_story"]

-----------------------------------------------------------------------------
(***************************************************************************)
(* dynamolessons: the item of a lesson; an exercise keeps its payload      *)
(* under the attribute of its type (the item's keys, time and hash are     *)
(* left out)                                                               *)
(***************************************************************************)
ToExerciseItem(e) ==
  Over(Write("exercise", [e EXCEPT !.payload = NoPayload]),
       [type \in IF e.payload = NoPayload THEN {} ELSE {e.type} |->
          WritePayload(type, e.payload)])

ToItem(l) == Write("lesson", [l EXCEPT !.exercises = Each(@, ToExerciseItem)])

ExerciseToDomain(item) ==
  LET kept == DOMAIN item \intersect ExerciseTypes
      e    == Read("exercise", [f \in DOMAIN item \ kept |-> item[f]])
  IN IF kept = {} THEN e
     ELSE LET type == CHOOSE type \in kept : TRUE
          IN [e EXCEPT !.payload = ReadPayload(type, item[type])]

ToDomain(item) == [Read("lesson", item) EXCEPT !.exercises = Each(@, ExerciseToDomain)]
=============================================================================
