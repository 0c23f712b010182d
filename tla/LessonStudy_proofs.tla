-------------------------- MODULE LessonStudy_proofs ---------------------------
(***************************************************************************)
(* Deliveries of results: for every set of attempts and deliveries, of any *)
(* lesson, what Record has answered and recorded hangs together.           *)
(***************************************************************************)
EXTENDS LessonStudy, Listing_proofs

-----------------------------------------------------------------------------
(***************************************************************************)
(* Records written and read back                                           *)
(***************************************************************************)
\* A record with exactly the fields of its kind.
HasFields(kind, r) == r = [f \in DOMAIN Schema[kind].zero |-> r[f]]

\* A list: whatever it is made of, it is its elements.
IsFunction(s) == s = [i \in DOMAIN s |-> s[i]]

\* A payload of a type: its lists are of records of their kinds.
IsPayload(type, p) ==
  /\ HasFields(type, p)
  /\ \A f \in Lists(type) :
       /\ f \in DOMAIN p /\ IsFunction(p[f])
       /\ \A i \in DOMAIN p[f] : HasFields(Schema[type][f], p[f][i])

IsExercise(e) ==
  /\ HasFields("exercise", e)
  /\ e.payload # NoPayload => e.type \in ExerciseTypes /\ IsPayload(e.type, e.payload)

IsLesson(l) ==
  /\ HasFields("lesson", l)
  /\ IsFunction(l.exercises)
  /\ \A i \in DOMAIN l.exercises : IsExercise(l.exercises[i])

\* What omitempty leaves out is what reading fills in.
LEMMA WrittenRecord ==
  ASSUME NEW kind, NEW r, HasFields(kind, r)
  PROVE  /\ Read(kind, Write(kind, r)) = r
         /\ DOMAIN Write(kind, r) \subseteq DOMAIN Schema[kind].zero
         /\ Known(kind, Write(kind, r))
<1> DEFINE z == Schema[kind].zero
           omit == Schema[kind].omit
           fields == {f \in DOMAIN r : f \in omit => r[f] # z[f]}
           w == [f \in fields |-> r[f]]
<1>1. Write(kind, r) = w /\ Read(kind, w) = Over(w, z) /\ DOMAIN w = fields
  BY DEF Write, Read
<1>2. DOMAIN r = DOMAIN z /\ r = [f \in DOMAIN z |-> r[f]]
  BY DEF HasFields
<1> HIDE DEF z, omit
<1>3. Over(w, z) = [f \in DOMAIN z |-> IF f \in fields THEN r[f] ELSE z[f]]
  BY <1>1, <1>2 DEF Over
<1>4. \A f \in DOMAIN z : f \notin fields => z[f] = r[f]
  BY <1>2
<1>5. Over(w, z) = r
  BY <1>2, <1>3, <1>4
<1> QED BY <1>1, <1>2, <1>5 DEF Known, z

LEMMA WrittenPayload ==
  ASSUME NEW type, NEW p, IsPayload(type, p)
  PROVE  /\ ReadPayload(type, WritePayload(type, p)) = p
         /\ KnownPayload(type, WritePayload(type, p))
<1> DEFINE q == InLists(type, p, Write)
           w == Write(type, q)
<1>1. q = [f \in DOMAIN p |-> IF f \in Lists(type)
                              THEN [i \in DOMAIN p[f] |-> Write(Schema[type][f], p[f][i])]
                              ELSE p[f]]
  BY DEF InLists, Each
<1>2. DOMAIN q = DOMAIN p /\ HasFields(type, q) /\ IsFunction(p)
  BY <1>1 DEF IsPayload, HasFields, IsFunction
<1>3. \A f \in Lists(type) : f \in DOMAIN q
        /\ q[f] = [i \in DOMAIN p[f] |-> Write(Schema[type][f], p[f][i])]
  BY <1>1 DEF IsPayload
<1>4. \A f \in DOMAIN p : f \notin Lists(type) => q[f] = p[f]
  BY <1>1
<1> HIDE DEF q
<1>5. Read(type, w) = q /\ Known(type, w) /\ DOMAIN w \subseteq DOMAIN Schema[type].zero
  BY <1>2, WrittenRecord
<1>6. \A f \in DOMAIN w : w[f] = q[f]
  BY DEF Write
<1>7. ReadPayload(type, w) = p
  <2>1. ReadPayload(type, w) =
          [f \in DOMAIN p |-> IF f \in Lists(type)
                              THEN [i \in DOMAIN q[f] |-> Read(Schema[type][f], q[f][i])] ELSE q[f]]
    BY <1>2, <1>5 DEF ReadPayload, InLists, Each
  <2>2. ASSUME NEW f \in Lists(type)
        PROVE  [i \in DOMAIN q[f] |-> Read(Schema[type][f], q[f][i])] = p[f]
    <3>1. /\ DOMAIN q[f] = DOMAIN p[f] /\ IsFunction(p[f])
          /\ \A i \in DOMAIN p[f] : q[f][i] = Write(Schema[type][f], p[f][i])
                                    /\ HasFields(Schema[type][f], p[f][i])
      BY <1>3, <2>2 DEF IsPayload
    <3>2. \A i \in DOMAIN p[f] : Read(Schema[type][f], q[f][i]) = p[f][i]
      BY <3>1, WrittenRecord
    <3> QED BY <3>1, <3>2 DEF IsFunction
  <2>3. ReadPayload(type, w) = [f \in DOMAIN p |-> p[f]]
    BY <1>4, <2>1, <2>2
  <2> QED BY <1>2, <2>3 DEF IsFunction
<1>8. KnownPayload(type, w)
  <2> SUFFICES ASSUME NEW f \in Lists(type) \intersect DOMAIN w, NEW i \in DOMAIN w[f]
               PROVE  Known(Schema[type][f], w[f][i])
    BY <1>5 DEF KnownPayload, All
  <2>1. i \in DOMAIN p[f] /\ w[f][i] = Write(Schema[type][f], p[f][i])
    <3>1. w[f] = [j \in DOMAIN p[f] |-> Write(Schema[type][f], p[f][j])]
      BY <1>3, <1>6
    <3> HIDE DEF w
    <3> QED BY <3>1
  <2>2. HasFields(Schema[type][f], p[f][i])
    BY <2>1 DEF IsPayload
  <2> QED BY <2>1, <2>2, WrittenRecord
<1> QED BY <1>7, <1>8 DEF WritePayload, q

LEMMA ExerciseFields ==
  /\ DOMAIN Schema["exercise"].zero = {"exerciseId", "type", "prompt", "points",
                                       "referencedVocab", "referencedGrammar", "payload"}
  /\ Schema["exercise"].zero.payload = NoPayload /\ "payload" \in Schema["exercise"].omit
BY DEF Schema

LEMMA LessonFields ==
  /\ DOMAIN Schema["lesson"].zero =
       {"schemaVersion", "lessonId", "language", "level", "title", "description", "topic",
        "tags", "readingStage", "sourceModel", "estimatedMinutes", "exercises"}
  /\ "exercises" \notin Schema["lesson"].omit /\ "lessonId" \notin Schema["lesson"].omit
BY DEF Schema

LEMMA PayloadFields ==
  /\ DOMAIN Schema["cloze"].zero = {"text", "blanks", "wordBank"}
  /\ Lists("cloze") = {"blanks"}
  /\ DOMAIN Schema["translation"].zero = {"source", "reference"}
  /\ Lists("translation") = {}
  /\ DOMAIN Schema["ordering"].zero = {"items", "translation"}
  /\ Lists("ordering") = {}
  /\ DOMAIN Schema["matching"].zero = {"pairs"}
  /\ Lists("matching") = {"pairs"}
  /\ DOMAIN Schema["multiple_choice"].zero = {"questions"}
  /\ Lists("multiple_choice") = {"questions"}
  /\ DOMAIN Schema["reading"].zero = {"genre", "title", "passage", "annotations", "questions"}
  /\ Lists("reading") = {"annotations", "questions"}
  /\ DOMAIN Schema["writing_prompt"].zero = {"guidance", "modelAnswer"}
  /\ Lists("writing_prompt") = {}
  /\ DOMAIN Schema["script_practice"].zero = {"items"}
  /\ Lists("script_practice") = {"items"}
<1>1. /\ DOMAIN Schema["cloze"].zero = {"text", "blanks", "wordBank"}
      /\ Lists("cloze") = {"blanks"}
  BY DEF Schema, Lists
<1>2. /\ DOMAIN Schema["translation"].zero = {"source", "reference"}
      /\ Lists("translation") = {}
  BY DEF Schema, Lists
<1>3. /\ DOMAIN Schema["ordering"].zero = {"items", "translation"}
      /\ Lists("ordering") = {}
  BY DEF Schema, Lists
<1>4. /\ DOMAIN Schema["matching"].zero = {"pairs"}
      /\ Lists("matching") = {"pairs"}
  BY DEF Schema, Lists
<1>5. /\ DOMAIN Schema["multiple_choice"].zero = {"questions"}
      /\ Lists("multiple_choice") = {"questions"}
  BY DEF Schema, Lists
<1>6. /\ DOMAIN Schema["reading"].zero = {"genre", "title", "passage", "annotations", "questions"}
      /\ Lists("reading") = {"annotations", "questions"}
  BY DEF Schema, Lists
<1>7. /\ DOMAIN Schema["writing_prompt"].zero = {"guidance", "modelAnswer"}
      /\ Lists("writing_prompt") = {}
  BY DEF Schema, Lists
<1>8. /\ DOMAIN Schema["script_practice"].zero = {"items"}
      /\ Lists("script_practice") = {"items"}
  BY DEF Schema, Lists
<1> QED BY <1>1, <1>2, <1>3, <1>4, <1>5, <1>6, <1>7, <1>8

LEMMA ListKinds ==
  /\ Schema["cloze"].blanks = "blank" /\ Schema["cloze"].zero.blanks = <<>>
  /\ Schema["matching"].pairs = "pair" /\ Schema["matching"].zero.pairs = <<>>
  /\ Schema["multiple_choice"].questions = "choice"
  /\ Schema["multiple_choice"].zero.questions = <<>>
  /\ Schema["reading"].annotations = "annotation" /\ Schema["reading"].zero.annotations = <<>>
  /\ Schema["reading"].questions = "question" /\ Schema["reading"].zero.questions = <<>>
  /\ Schema["script_practice"].items = "glyph" /\ Schema["script_practice"].zero.items = <<>>
<1>1. /\ Schema["cloze"].blanks = "blank" /\ Schema["cloze"].zero.blanks = <<>>
  BY DEF Schema
<1>2. /\ Schema["matching"].pairs = "pair" /\ Schema["matching"].zero.pairs = <<>>
  BY DEF Schema
<1>3. /\ Schema["multiple_choice"].questions = "choice"
      /\ Schema["multiple_choice"].zero.questions = <<>>
  BY DEF Schema
<1>4. /\ Schema["reading"].annotations = "annotation" /\ Schema["reading"].zero.annotations = <<>>
      /\ Schema["reading"].questions = "question" /\ Schema["reading"].zero.questions = <<>>
  BY DEF Schema
<1>5. /\ Schema["script_practice"].items = "glyph" /\ Schema["script_practice"].zero.items = <<>>
  BY DEF Schema
<1> QED BY <1>1, <1>2, <1>3, <1>4, <1>5

LEMMA RecordFields ==
  /\ DOMAIN Schema["blank"].zero = {"index", "answer", "alternates", "hint"}
  /\ DOMAIN Schema["pair"].zero = {"left", "right"}
  /\ DOMAIN Schema["choice"].zero = {"question", "options", "answer"}
  /\ DOMAIN Schema["annotation"].zero = {"surface", "reading", "gloss"}
  /\ DOMAIN Schema["question"].zero = {"question", "kind", "options", "answer", "alternates"}
  /\ DOMAIN Schema["glyph"].zero =
          {"glyph", "reading", "meaning", "kind", "answer", "options"}
BY DEF Schema

LEMMA ListFields ==
  ASSUME NEW type \in ExerciseTypes, NEW f \in Lists(type)
  PROVE  f \in DOMAIN Schema[type].zero /\ Schema[type].zero[f] = <<>>
BY PayloadFields, ListKinds DEF ExerciseTypes

LEMMA ShownExercise ==
  ASSUME NEW e, IsExercise(e),
         e.payload # NoPayload => WritePayload(e.type, e.payload) # NoPayload
  PROVE  DecodeExercise(ShowExercise(e)) = e /\ KnownExercise(ShowExercise(e))
<1> DEFINE p == IF e.payload = NoPayload THEN NoPayload ELSE WritePayload(e.type, e.payload)
           x == [e EXCEPT !.payload = p]
<1>1. e = [f \in DOMAIN e |-> e[f]] /\ DOMAIN e = DOMAIN Schema["exercise"].zero
  BY DEF IsExercise, HasFields
<1>2. ShowExercise(e) = Write("exercise", x)
  BY DEF ShowExercise
<1>3. /\ p = NoPayload <=> e.payload = NoPayload
      /\ e.payload # NoPayload => /\ e.type \in ExerciseTypes
                                  /\ ReadPayload(e.type, p) = e.payload
                                  /\ KnownPayload(e.type, p)
  BY WrittenPayload DEF IsExercise
<1> HIDE DEF p
<1>4. /\ DOMAIN x = DOMAIN e /\ x.payload = p /\ x.type = e.type
      /\ HasFields("exercise", x)
  BY <1>1, ExerciseFields DEF HasFields
<1>5. Read("exercise", Write("exercise", x)) = x /\ Known("exercise", Write("exercise", x))
  BY <1>4, WrittenRecord
<1>6. DecodeExercise(ShowExercise(e)) =
        [x EXCEPT !.payload = IF e.type \notin ExerciseTypes \/ p = NoPayload THEN NoPayload
                              ELSE ReadPayload(e.type, p)]
  BY <1>2, <1>4, <1>5 DEF DecodeExercise
<1>7. DecodeExercise(ShowExercise(e)) = [x EXCEPT !.payload = e.payload]
  BY <1>3, <1>6
<1>8. [x EXCEPT !.payload = e.payload] = e
  BY <1>1, ExerciseFields
<1>9. KnownExercise(ShowExercise(e))
  BY <1>2, <1>3, <1>4, <1>5 DEF KnownExercise
<1> QED BY <1>7, <1>8, <1>9

LEMMA StoredExercise ==
  ASSUME NEW e, IsExercise(e)
  PROVE  ExerciseToDomain(ToExerciseItem(e)) = e
<1> DEFINE x == [e EXCEPT !.payload = NoPayload]
           w == Write("exercise", x)
           types == IF e.payload = NoPayload THEN {} ELSE {e.type}
           item0 == ToExerciseItem(e)
<1>1. e = [f \in DOMAIN e |-> e[f]] /\ DOMAIN e = DOMAIN Schema["exercise"].zero
  BY DEF IsExercise, HasFields
<1>2. DOMAIN x = DOMAIN e /\ HasFields("exercise", x)
  BY <1>1, ExerciseFields DEF HasFields
<1>3. Read("exercise", w) = x /\ DOMAIN w \subseteq DOMAIN Schema["exercise"].zero
  BY <1>2, WrittenRecord
<1>4. w = [f \in DOMAIN w |-> w[f]]
  BY DEF Write
<1>5. types \subseteq ExerciseTypes /\ DOMAIN w \intersect ExerciseTypes = {}
  BY <1>3, ExerciseFields DEF IsExercise, ExerciseTypes
<1> HIDE DEF w, x
<1>6. item0 = [f \in DOMAIN w \union types |->
                 IF f \in DOMAIN w THEN w[f] ELSE WritePayload(f, e.payload)]
  BY DEF ToExerciseItem, Over, w, x
<1>7. DOMAIN item0 \intersect ExerciseTypes = types
  BY <1>5, <1>6
<1>8. [f \in DOMAIN item0 \ types |-> item0[f]] = w
  <2>1. DOMAIN item0 \ types = DOMAIN w
    BY <1>5, <1>6
  <2>2. \A f \in DOMAIN w : item0[f] = w[f]
    BY <1>6
  <2> HIDE DEF item0, types
  <2> QED BY <1>4, <2>1, <2>2
<1>9. CASE e.payload = NoPayload
  <2>1. types = {} /\ x = e
    BY <1>1, <1>9, ExerciseFields DEF x
  <2> QED BY <1>3, <1>7, <1>8, <2>1 DEF ExerciseToDomain
<1>10. CASE e.payload # NoPayload
  <2>1. types = {e.type} /\ e.type \notin DOMAIN w /\ e.type \in DOMAIN item0
    BY <1>5, <1>6, <1>10
  <2>2. item0[e.type] = WritePayload(e.type, e.payload)
    BY <1>6, <2>1
  <2>3. ReadPayload(e.type, item0[e.type]) = e.payload
    BY <1>10, <2>2, WrittenPayload DEF IsExercise
  <2>4. ExerciseToDomain(item0) = [x EXCEPT !.payload = e.payload]
    <3> HIDE DEF item0, types
    <3>1. types # {} /\ (CHOOSE type \in types : TRUE) = e.type
      BY <2>1
    <3> QED BY <1>3, <1>7, <1>8, <2>3, <3>1 DEF ExerciseToDomain
  <2>5. [x EXCEPT !.payload = e.payload] = e
    BY <1>1, ExerciseFields DEF x
  <2> QED BY <2>4, <2>5
<1> QED BY <1>9, <1>10

LEMMA StoredLesson ==
  ASSUME NEW l, IsLesson(l)
  PROVE  ToDomain(ToItem(l)) = l
<1> DEFINE items == [i \in DOMAIN l.exercises |-> ToExerciseItem(l.exercises[i])]
           x == [l EXCEPT !.exercises = items]
<1>1. l = [f \in DOMAIN l |-> l[f]] /\ DOMAIN l = DOMAIN Schema["lesson"].zero
  BY DEF IsLesson, HasFields
<1>2. ToItem(l) = Write("lesson", x)
  BY DEF ToItem, Each
<1>3. /\ DOMAIN items = DOMAIN l.exercises
      /\ \A i \in DOMAIN l.exercises : ExerciseToDomain(items[i]) = l.exercises[i]
  BY StoredExercise DEF IsLesson
<1> HIDE DEF items
<1>4. x.exercises = items /\ HasFields("lesson", x)
  BY <1>1, LessonFields DEF HasFields
<1>5. Read("lesson", Write("lesson", x)) = x
  BY <1>4, WrittenRecord
<1>6. [i \in DOMAIN items |-> ExerciseToDomain(items[i])] = l.exercises
  BY <1>3 DEF IsLesson, IsFunction
<1>7. ToDomain(ToItem(l)) = [x EXCEPT !.exercises = l.exercises]
  <2>1. Read("lesson", ToItem(l)) = x
    BY <1>2, <1>5
  <2>2. x.exercises = items
    BY <1>4
  <2> HIDE DEF x
  <2>3. ToDomain(ToItem(l))
          = [x EXCEPT !.exercises = [i \in DOMAIN items |-> ExerciseToDomain(items[i])]]
    BY <2>1, <2>2 DEF ToDomain, Each
  <2> QED BY <1>6, <2>3
<1>8. [x EXCEPT !.exercises = l.exercises] = l
  BY <1>1
<1> QED BY <1>7, <1>8

\* Every payload the lesson has is written as one.
Encodes(l) == \A i \in DOMAIN l.exercises :
                LET e == l.exercises[i]
                IN e.payload # NoPayload => WritePayload(e.type, e.payload) # NoPayload

LEMMA ShownDocument ==
  ASSUME NEW l, IsLesson(l), Encodes(l), Of(Upper, l.level, l.level) = l.level
  PROVE  DecodeLesson(ShowDocument(l)) = l /\ Decodes(ShowDocument(l))
<1> DEFINE docs == [i \in DOMAIN l.exercises |-> ShowExercise(l.exercises[i])]
           x == [l EXCEPT !.exercises = docs]
           w == Write("lesson", x)
<1>1. l = [f \in DOMAIN l |-> l[f]] /\ DOMAIN l = DOMAIN Schema["lesson"].zero
  BY DEF IsLesson, HasFields
<1>2. ShowDocument(l) = w
  BY DEF ShowDocument, Each
<1>3. /\ DOMAIN docs = DOMAIN l.exercises
      /\ \A i \in DOMAIN l.exercises : DecodeExercise(docs[i]) = l.exercises[i]
      /\ \A i \in DOMAIN l.exercises : KnownExercise(docs[i])
  BY ShownExercise DEF IsLesson, Encodes
<1> HIDE DEF docs
<1>4. x.exercises = docs /\ x.level = l.level /\ HasFields("lesson", x)
  BY <1>1, LessonFields DEF HasFields
<1>5. Read("lesson", w) = x /\ DOMAIN w \subseteq DOMAIN Schema["lesson"].zero
  BY <1>4, WrittenRecord
<1>6. [f \in DOMAIN w \ {"metadata"} |-> w[f]] = w
  <2>1. DOMAIN w \ {"metadata"} = DOMAIN w
    BY <1>5, LessonFields
  <2>2. w = [f \in DOMAIN w |-> w[f]]
    BY DEF Write
  <2> HIDE DEF w
  <2> QED BY <2>1, <2>2
<1> HIDE DEF w
<1>7. [i \in DOMAIN docs |-> DecodeExercise(docs[i])] = l.exercises
  BY <1>3 DEF IsLesson, IsFunction
<1>8. DecodeLesson(w) = [x EXCEPT !.level = l.level, !.exercises = l.exercises]
  <2>1. DecodeLesson(w) =
          [x EXCEPT !.level = Of(Upper, @, @), !.exercises = Each(@, DecodeExercise)]
    <3> DEFINE body == [f \in DOMAIN w \ {"metadata"} |-> w[f]]
    <3>1. DecodeLesson(w) =
            [Read("lesson", body) EXCEPT !.level = Of(Upper, @, @),
                                         !.exercises = Each(@, DecodeExercise)]
      BY DEF DecodeLesson
    <3>2. Read("lesson", body) = x
      BY <1>5, <1>6
    <3> HIDE DEF body, x
    <3> QED BY <3>1, <3>2
  <2>2. Each(x.exercises, DecodeExercise) = l.exercises /\ Of(Upper, x.level, x.level) = l.level
    BY <1>4, <1>7 DEF Each
  <2> HIDE DEF x
  <2> QED BY <2>1, <2>2
<1>9. [x EXCEPT !.level = l.level, !.exercises = l.exercises] = l
  BY <1>1, LessonFields
<1>10. Decodes(w)
  BY <1>3, <1>4, <1>5 DEF Decodes, All
<1> QED BY <1>2, <1>8, <1>9, <1>10

\* With the time the document is not one to import, and without it is what is shown of
\* the lesson.
LEMMA ShownLesson ==
  ASSUME NEW l, IsLesson(l)
  PROVE  /\ AsDocument(ShowLesson(l)) = ShowDocument(l)
         /\ ~Decodes(ShowLesson(l))
         /\ ShowLesson(l).lessonId = l.lessonId
<1> DEFINE x == [l EXCEPT !.exercises = Each(@, ShowExercise)]
           w == ShowDocument(l)
<1>1. /\ w = [f \in DOMAIN w |-> w[f]] /\ w.lessonId = l.lessonId
      /\ DOMAIN w \subseteq DOMAIN Schema["lesson"].zero /\ "lessonId" \in DOMAIN w
  <2>1. l = [f \in DOMAIN l |-> l[f]] /\ DOMAIN l = DOMAIN Schema["lesson"].zero
    BY DEF IsLesson, HasFields
  <2>2. DOMAIN x = DOMAIN l /\ x.lessonId = l.lessonId
    BY <2>1
  <2> HIDE DEF x
  <2>3. w = Write("lesson", x)
    BY DEF ShowDocument, x
  <2> QED BY <2>1, <2>2, <2>3, LessonFields DEF Write
<1>2. "createdAt" \notin DOMAIN Schema["lesson"].zero
  BY LessonFields
<1> HIDE DEF w
<1>3. /\ ShowLesson(l) = [f \in {"createdAt"} \union DOMAIN w |->
                            IF f = "createdAt" THEN "time" ELSE w[f]]
      /\ DOMAIN ShowLesson(l) = {"createdAt"} \union DOMAIN w
  BY DEF ShowLesson, Over, w
<1>4. AsDocument(ShowLesson(l)) = w
  BY <1>1, <1>2, <1>3 DEF AsDocument
<1>5. ~Decodes(ShowLesson(l))
  BY <1>2, <1>3 DEF Decodes
<1>6. ShowLesson(l).lessonId = l.lessonId
  BY <1>1, <1>3
<1> QED BY <1>4, <1>5, <1>6 DEF w

\* What the decoder returns has all its fields, and its lists are lists.
LEMMA DecodedLesson ==
  ASSUME NEW doc, Decodes(doc)
  PROVE  IsLesson(DecodeLesson(doc))
<1> DEFINE body == [f \in DOMAIN doc \ {"metadata"} |-> doc[f]]
           r == Read("lesson", body)
           l == DecodeLesson(doc)
<1> DEFINE z == Schema["lesson"].zero
<1>1. /\ DOMAIN r = DOMAIN Schema["lesson"].zero
      /\ r = [f \in DOMAIN Schema["lesson"].zero |-> r[f]]
  <2>1. DOMAIN body \subseteq DOMAIN z
    BY DEF Decodes
  <2> HIDE DEF body, z
  <2>2. Over(body, z) = [f \in DOMAIN z |-> IF f \in DOMAIN body THEN body[f] ELSE z[f]]
    BY <2>1 DEF Over
  <2> QED BY <2>2 DEF Read, z
<1>2. r.exercises = Read("lesson", doc).exercises
  BY LessonFields DEF Read, Over
<1> HIDE DEF body, r
<1>3. l = [r EXCEPT !.level = Of(Upper, @, @), !.exercises = Each(@, DecodeExercise)]
  BY DEF DecodeLesson, r, body
<1>4. /\ DOMAIN l = DOMAIN Schema["lesson"].zero /\ HasFields("lesson", l)
      /\ l.exercises = [i \in DOMAIN r.exercises |-> DecodeExercise(r.exercises[i])]
  BY <1>1, <1>3, LessonFields DEF HasFields, Each
<1>5. ASSUME NEW i \in DOMAIN r.exercises
      PROVE  IsExercise(DecodeExercise(r.exercises[i]))
  <2> DEFINE d == r.exercises[i]
             e == Read("exercise", d)
             p == IF e.type \notin ExerciseTypes \/ e.payload = NoPayload THEN NoPayload
                  ELSE ReadPayload(e.type, e.payload)
  <2>1. KnownExercise(d)
    BY <1>2, <1>5 DEF Decodes, All
  <2>2. DOMAIN e = DOMAIN Schema["exercise"].zero /\ e = [f \in DOMAIN e |-> e[f]]
    BY <2>1 DEF KnownExercise, Known, Read, Over
  <2>3. DecodeExercise(d) = [e EXCEPT !.payload = p]
    BY DEF DecodeExercise
  <2>4. ASSUME p # NoPayload
        PROVE  e.type \in ExerciseTypes /\ KnownPayload(e.type, e.payload)
                 /\ p = ReadPayload(e.type, e.payload)
    BY <2>1, <2>4 DEF KnownExercise
  <2> HIDE DEF e, p, d
  <2>5. /\ HasFields("exercise", [e EXCEPT !.payload = p])
        /\ [e EXCEPT !.payload = p].payload = p /\ [e EXCEPT !.payload = p].type = e.type
    BY <2>2, ExerciseFields DEF HasFields
  <2>6. ASSUME NEW type \in ExerciseTypes, NEW q, KnownPayload(type, q)
        PROVE  IsPayload(type, ReadPayload(type, q))
    <3> DEFINE x == Read(type, q)
               y == InLists(type, x, Read)
    <3>1. DOMAIN x = DOMAIN Schema[type].zero
      BY <2>6 DEF KnownPayload, Known, Read, Over
    <3>2. Lists(type) \subseteq DOMAIN Schema[type].zero
      BY ListFields
    <3>3. \A f \in Lists(type) : f \notin DOMAIN q => x[f] = <<>>
      BY ListFields DEF Read, Over
    <3>4. \A f \in DOMAIN q : x[f] = q[f]
      BY DEF Read, Over
    <3> HIDE DEF x
    <3>5. y = [f \in DOMAIN x |-> IF f \in Lists(type)
                                  THEN [j \in DOMAIN x[f] |-> Read(Schema[type][f], x[f][j])]
                                  ELSE x[f]]
      BY DEF InLists, Each
    <3>6. HasFields(type, y) /\ DOMAIN y = DOMAIN x
      BY <3>1, <3>5 DEF HasFields
    <3>7. ASSUME NEW f \in Lists(type)
          PROVE  /\ f \in DOMAIN y /\ IsFunction(y[f])
                 /\ \A j \in DOMAIN y[f] : HasFields(Schema[type][f], y[f][j])
      <4>1. f \in DOMAIN x /\ y[f] = [j \in DOMAIN x[f] |-> Read(Schema[type][f], x[f][j])]
        BY <3>1, <3>2, <3>5
      <4>2. ASSUME NEW j \in DOMAIN x[f]
            PROVE  HasFields(Schema[type][f], Read(Schema[type][f], x[f][j]))
        <5>1. f \in DOMAIN q
          BY <3>3, <4>2
        <5>2. Known(Schema[type][f], x[f][j])
          BY <2>6, <3>4, <4>2, <5>1 DEF KnownPayload, All
        <5> QED BY <5>2 DEF HasFields, Known, Read, Over
      <4> HIDE DEF y
      <4>3. IsFunction(y[f]) /\ DOMAIN y[f] = DOMAIN x[f]
        BY <4>1 DEF IsFunction
      <4> QED BY <3>6, <4>1, <4>2, <4>3
    <3> QED BY <3>6, <3>7 DEF IsPayload, ReadPayload, x
  <2>7. p # NoPayload => e.type \in ExerciseTypes /\ IsPayload(e.type, p)
    BY <2>4, <2>6
  <2> QED BY <2>3, <2>5, <2>7 DEF IsExercise, d
<1>6. IsFunction(l.exercises) /\ DOMAIN l.exercises = DOMAIN r.exercises
  BY <1>4 DEF IsFunction
<1> HIDE DEF l
<1>7. \A i \in DOMAIN l.exercises : IsExercise(l.exercises[i])
  BY <1>4, <1>5, <1>6
<1> QED BY <1>4, <1>6, <1>7 DEF IsLesson, l

-----------------------------------------------------------------------------
(***************************************************************************)
(* Normalising and trimming again changes nothing                          *)
(***************************************************************************)
KeptAll(language, s) == [i \in DOMAIN s |-> Kept(language, s[i])]
TidyAll(language, s) == [i \in DOMAIN s |-> Tidy(language, s[i])]

LEMMA TextsKept ==
  ASSUME NEW L, NEW t
  PROVE  /\ Trim(Trim(t)) = Trim(t)
         /\ Kept(L, Kept(L, t)) = Kept(L, t)
         /\ Tidy(L, Tidy(L, t)) = Tidy(L, t)
<1>1. \A u : /\ Trim(Trim(u)) = Trim(u) /\ Normalize(Normalize(u)) = Normalize(u)
             /\ Normalize(Trim(Normalize(u))) = Trim(Normalize(u))
  BY TextAssumption DEF Trim, Normalize, Of
<1> QED BY <1>1 DEF Kept, Tidy

LEMMA ListsKept ==
  ASSUME NEW L, NEW s
  PROVE  /\ KeptAll(L, KeptAll(L, s)) = KeptAll(L, s)
         /\ TidyAll(L, TidyAll(L, s)) = TidyAll(L, s)
<1>1. /\ DOMAIN KeptAll(L, s) = DOMAIN s /\ DOMAIN TidyAll(L, s) = DOMAIN s
      /\ \A i \in DOMAIN s : /\ KeptAll(L, s)[i] = Kept(L, s[i])
                             /\ TidyAll(L, s)[i] = Tidy(L, s[i])
  BY DEF KeptAll, TidyAll
<1>2. KeptAll(L, KeptAll(L, s)) = [i \in DOMAIN s |-> Kept(L, s[i])]
  BY <1>1, TextsKept DEF KeptAll
<1>3. TidyAll(L, TidyAll(L, s)) = [i \in DOMAIN s |-> Tidy(L, s[i])]
  BY <1>1, TextsKept DEF TidyAll
<1> QED BY <1>2, <1>3 DEF KeptAll, TidyAll

LEMMA BlankKept ==
  ASSUME NEW L, NEW b, HasFields("blank", b)
  PROVE  /\ HasFields("blank", CleanBlank(L, b))
         /\ CleanBlank(L, CleanBlank(L, b)) = CleanBlank(L, b)
<1> DEFINE c == CleanBlank(L, b)
<1>1. b = [f \in {"index", "answer", "alternates", "hint"} |-> b[f]]
  BY RecordFields DEF HasFields
<1>2. c = [b EXCEPT !.answer = Tidy(L, @), !.hint = Kept(L, @), !.alternates = KeptAll(L, @)]
  BY DEF CleanBlank, Each, KeptAll
<1>3. /\ c = [f \in {"index", "answer", "alternates", "hint"} |-> c[f]]
      /\ c.index = b.index /\ c.answer = Tidy(L, b.answer) /\ c.hint = Kept(L, b.hint)
      /\ c.alternates = KeptAll(L, b.alternates)
  BY <1>1, <1>2
<1>4. /\ Tidy(L, c.answer) = c.answer /\ Kept(L, c.hint) = c.hint
      /\ KeptAll(L, c.alternates) = c.alternates
  BY <1>3, TextsKept, ListsKept
<1> HIDE DEF c
<1>5. CleanBlank(L, c) = [c EXCEPT !.answer = c.answer, !.hint = c.hint,
                                   !.alternates = c.alternates]
  BY <1>4 DEF CleanBlank, Each, KeptAll
<1>6. CleanBlank(L, c) = c
  BY <1>3, <1>5
<1> QED BY <1>3, <1>6, RecordFields DEF HasFields, c

LEMMA QuestionKept ==
  ASSUME NEW L, NEW q, HasFields("question", q)
  PROVE  /\ HasFields("question", CleanQuestion(L, q))
         /\ CleanQuestion(L, CleanQuestion(L, q)) = CleanQuestion(L, q)
<1> DEFINE c == CleanQuestion(L, q)
           answer(x) == IF x.kind = "short_answer" THEN Kept(L, x.answer) ELSE Tidy(L, x.answer)
<1>1. q = [f \in {"question", "kind", "options", "answer", "alternates"} |-> q[f]]
  BY RecordFields DEF HasFields
<1>2. c = [q EXCEPT !.question = Tidy(L, @), !.options = TidyAll(L, @),
                    !.alternates = TidyAll(L, @), !.answer = answer(q)]
  BY <1>1 DEF CleanQuestion, Each, TidyAll
<1> HIDE DEF answer
<1>3. /\ c = [f \in {"question", "kind", "options", "answer", "alternates"} |-> c[f]]
      /\ c.kind = q.kind /\ c.question = Tidy(L, q.question) /\ c.answer = answer(q)
      /\ c.options = TidyAll(L, q.options) /\ c.alternates = TidyAll(L, q.alternates)
  BY <1>1, <1>2
<1> HIDE DEF c
<1>4. /\ Tidy(L, c.question) = c.question /\ answer(c) = c.answer
      /\ TidyAll(L, c.options) = c.options /\ TidyAll(L, c.alternates) = c.alternates
  BY <1>3, TextsKept, ListsKept DEF answer
<1>5. CleanQuestion(L, c) = [c EXCEPT !.question = c.question, !.options = c.options,
                                      !.alternates = c.alternates, !.answer = answer(c)]
  <2>1. CleanQuestion(L, c) = [c EXCEPT !.question = Tidy(L, @), !.options = TidyAll(L, @),
                    !.alternates = TidyAll(L, @), !.answer = answer(c)]
    BY <1>3 DEF CleanQuestion, Each, TidyAll, answer
  <2> QED BY <1>4, <2>1
<1>6. CleanQuestion(L, c) = c
  BY <1>3, <1>4, <1>5
<1> QED BY <1>3, <1>6, RecordFields DEF HasFields, c

LEMMA ItemKept ==
  ASSUME NEW L, NEW x, HasFields("glyph", x)
  PROVE  /\ HasFields("glyph", CleanItem(L, x))
         /\ CleanItem(L, CleanItem(L, x)) = CleanItem(L, x)
<1> DEFINE c == CleanItem(L, x)
<1>1. x = [f \in {"glyph", "reading", "meaning", "kind", "answer", "options"} |-> x[f]]
  BY RecordFields DEF HasFields
<1>2. c = [x EXCEPT !.glyph = Tidy(L, @), !.kind = Trim(@), !.answer = Tidy(L, @),
                    !.options = TidyAll(L, @), !.reading = Kept(L, @), !.meaning = Kept(L, @)]
  BY DEF CleanItem, Each, TidyAll
<1>3. /\ c = [f \in {"glyph", "reading", "meaning", "kind", "answer", "options"} |-> c[f]]
      /\ c.glyph = Tidy(L, x.glyph) /\ c.kind = Trim(x.kind) /\ c.answer = Tidy(L, x.answer)
      /\ c.options = TidyAll(L, x.options) /\ c.reading = Kept(L, x.reading)
      /\ c.meaning = Kept(L, x.meaning)
  BY <1>1, <1>2
<1> HIDE DEF c
<1>4. /\ Tidy(L, c.glyph) = c.glyph /\ Trim(c.kind) = c.kind /\ Tidy(L, c.answer) = c.answer
      /\ TidyAll(L, c.options) = c.options /\ Kept(L, c.reading) = c.reading
      /\ Kept(L, c.meaning) = c.meaning
  BY <1>3, TextsKept, ListsKept
<1>5. CleanItem(L, c) = [c EXCEPT !.glyph = c.glyph, !.kind = c.kind, !.answer = c.answer,
                           !.options = c.options, !.reading = c.reading, !.meaning = c.meaning]
  BY <1>4 DEF CleanItem, Each, TidyAll
<1>6. CleanItem(L, c) = c
  BY <1>3, <1>5
<1> QED BY <1>3, <1>6, RecordFields DEF HasFields, c

\* A payload cleaned is one that cleaning leaves alone.
PayloadKept(L, type, p) == /\ IsPayload(type, CleanPayload(L, type, p))
                           /\ CleanPayload(L, type, CleanPayload(L, type, p))
                                = CleanPayload(L, type, p)

LEMMA ClozeKept ==
  ASSUME NEW L, NEW p, IsPayload("cloze", p)
  PROVE  PayloadKept(L, "cloze", p)
<1> DEFINE c == CleanPayload(L, "cloze", p)
           blanks(x) == [i \in DOMAIN x.blanks |-> CleanBlank(L, x.blanks[i])]
<1>1. \A x : CleanPayload(L, "cloze", x) = [text |-> Kept(L, x.text),
               wordBank |-> TidyAll(L, x.wordBank), blanks |-> blanks(x)]
  BY DEF CleanPayload, Each, TidyAll
<1>2. c = [text |-> Kept(L, p.text), wordBank |-> TidyAll(L, p.wordBank), blanks |-> blanks(p)]
  BY <1>1
<1> HIDE DEF c
<1>3. \A i \in DOMAIN p.blanks : HasFields("blank", p.blanks[i])
  BY PayloadFields, ListKinds DEF IsPayload
<1>4. /\ DOMAIN blanks(p) = DOMAIN p.blanks /\ IsFunction(blanks(p))
      /\ \A i \in DOMAIN p.blanks : /\ HasFields("blank", blanks(p)[i])
                                    /\ CleanBlank(L, blanks(p)[i]) = blanks(p)[i]
  BY <1>3, BlankKept DEF IsFunction
<1> DEFINE bs == blanks(p)
<1> HIDE DEF bs
<1>5. c = [text |-> Kept(L, p.text), wordBank |-> TidyAll(L, p.wordBank), blanks |-> bs]
  BY <1>2 DEF bs
<1>6. blanks(c) = bs
  BY <1>4, <1>5 DEF bs, IsFunction
<1> HIDE DEF blanks
<1>7. CleanPayload(L, "cloze", c) = c
  BY <1>1, <1>5, <1>6, TextsKept, ListsKept
<1>8. IsPayload("cloze", c)
  <2>1. HasFields("cloze", c)
    BY <1>5, PayloadFields DEF HasFields
  <2> QED BY <1>4, <1>5, <2>1, PayloadFields, ListKinds DEF IsPayload, bs
<1> QED BY <1>7, <1>8 DEF PayloadKept, c

LEMMA TranslationKept ==
  ASSUME NEW L, NEW p, IsPayload("translation", p)
  PROVE  PayloadKept(L, "translation", p)
<1> DEFINE c == CleanPayload(L, "translation", p)
<1>1. \A x : CleanPayload(L, "translation", x)
               = [source |-> Tidy(L, x.source), reference |-> Kept(L, x.reference)]
  BY DEF CleanPayload
<1>2. CleanPayload(L, "translation", c) = c
  BY <1>1, TextsKept
<1>3. IsPayload("translation", c)
  BY <1>1, PayloadFields DEF HasFields, IsPayload
<1> QED BY <1>2, <1>3 DEF PayloadKept

LEMMA OrderingKept ==
  ASSUME NEW L, NEW p, IsPayload("ordering", p)
  PROVE  PayloadKept(L, "ordering", p)
<1> DEFINE c == CleanPayload(L, "ordering", p)
<1>1. \A x : CleanPayload(L, "ordering", x)
               = [items |-> TidyAll(L, x.items), translation |-> Kept(L, x.translation)]
  BY DEF CleanPayload, Each, TidyAll
<1>2. CleanPayload(L, "ordering", c) = c
  BY <1>1, TextsKept, ListsKept
<1>3. IsPayload("ordering", c)
  BY <1>1, PayloadFields DEF HasFields, IsPayload
<1> QED BY <1>2, <1>3 DEF PayloadKept

LEMMA MatchingKept ==
  ASSUME NEW L, NEW p, IsPayload("matching", p)
  PROVE  PayloadKept(L, "matching", p)
<1> DEFINE c == CleanPayload(L, "matching", p)
           pair(x) == [left |-> Tidy(L, x.left), right |-> Tidy(L, x.right)]
           pairs(x) == [i \in DOMAIN x.pairs |-> pair(x.pairs[i])]
<1>1. \A x : CleanPayload(L, "matching", x) = [pairs |-> pairs(x)]
  BY DEF CleanPayload, Each
<1>2. \A x : HasFields("pair", pair(x)) /\ pair(pair(x)) = pair(x)
  BY RecordFields, TextsKept DEF HasFields
<1> HIDE DEF pair
<1>3. /\ DOMAIN pairs(p) = DOMAIN p.pairs /\ IsFunction(pairs(p))
      /\ \A i \in DOMAIN p.pairs : /\ HasFields("pair", pairs(p)[i])
                                   /\ pair(pairs(p)[i]) = pairs(p)[i]
  BY <1>2 DEF IsFunction
<1> DEFINE ps == pairs(p)
<1>4. c = [pairs |-> ps]
  BY <1>1
<1> HIDE DEF c, ps
<1>5. pairs(c) = ps
  BY <1>3, <1>4 DEF ps, IsFunction
<1> HIDE DEF pairs
<1>6. CleanPayload(L, "matching", c) = c
  BY <1>1, <1>4, <1>5
<1>7. IsPayload("matching", c)
  <2>1. HasFields("matching", c)
    BY <1>4, PayloadFields DEF HasFields
  <2> QED BY <1>3, <1>4, <2>1, PayloadFields, ListKinds DEF IsPayload, ps
<1> QED BY <1>6, <1>7 DEF PayloadKept, c

LEMMA MultipleChoiceKept ==
  ASSUME NEW L, NEW p, IsPayload("multiple_choice", p)
  PROVE  PayloadKept(L, "multiple_choice", p)
<1> DEFINE c == CleanPayload(L, "multiple_choice", p)
           choice(x) == [question |-> Tidy(L, x.question), options |-> TidyAll(L, x.options),
                         answer |-> Tidy(L, x.answer)]
           questions(x) == [i \in DOMAIN x.questions |-> choice(x.questions[i])]
<1>1. \A x : CleanPayload(L, "multiple_choice", x) = [questions |-> questions(x)]
  BY DEF CleanPayload, Each, TidyAll
<1>2. \A x : HasFields("choice", choice(x)) /\ choice(choice(x)) = choice(x)
  BY RecordFields, TextsKept, ListsKept DEF HasFields
<1> HIDE DEF choice
<1>3. /\ DOMAIN questions(p) = DOMAIN p.questions /\ IsFunction(questions(p))
      /\ \A i \in DOMAIN p.questions : /\ HasFields("choice", questions(p)[i])
                                       /\ choice(questions(p)[i]) = questions(p)[i]
  BY <1>2 DEF IsFunction
<1> DEFINE qs == questions(p)
<1>4. c = [questions |-> qs]
  BY <1>1
<1> HIDE DEF c, qs
<1>5. questions(c) = qs
  BY <1>3, <1>4 DEF qs, IsFunction
<1> HIDE DEF questions
<1>6. CleanPayload(L, "multiple_choice", c) = c
  BY <1>1, <1>4, <1>5
<1>7. IsPayload("multiple_choice", c)
  <2>1. HasFields("multiple_choice", c)
    BY <1>4, PayloadFields DEF HasFields
  <2> QED BY <1>3, <1>4, <2>1, PayloadFields, ListKinds DEF IsPayload, qs
<1> QED BY <1>6, <1>7 DEF PayloadKept, c

LEMMA ReadingKept ==
  ASSUME NEW L, NEW p, IsPayload("reading", p)
  PROVE  PayloadKept(L, "reading", p)
<1> DEFINE c == CleanPayload(L, "reading", p)
           annotations(x) == [i \in DOMAIN x.annotations |-> KeptAll(L, x.annotations[i])]
           questions(x) == [i \in DOMAIN x.questions |-> CleanQuestion(L, x.questions[i])]
<1>1. \A x : CleanPayload(L, "reading", x) =
               [genre |-> x.genre, title |-> Tidy(L, x.title), passage |-> Tidy(L, x.passage),
                annotations |-> annotations(x), questions |-> questions(x)]
  BY DEF CleanPayload, Each, KeptAll
<1>2. /\ \A i \in DOMAIN p.annotations : HasFields("annotation", p.annotations[i])
      /\ \A i \in DOMAIN p.questions : HasFields("question", p.questions[i])
  BY PayloadFields, ListKinds DEF IsPayload
<1>3. \A x : HasFields("annotation", x) => HasFields("annotation", KeptAll(L, x))
  BY RecordFields DEF HasFields, KeptAll
<1>4. /\ DOMAIN annotations(p) = DOMAIN p.annotations /\ IsFunction(annotations(p))
      /\ \A i \in DOMAIN p.annotations :
           /\ HasFields("annotation", annotations(p)[i])
           /\ KeptAll(L, annotations(p)[i]) = annotations(p)[i]
  BY <1>2, <1>3, ListsKept DEF IsFunction
<1>5. /\ DOMAIN questions(p) = DOMAIN p.questions /\ IsFunction(questions(p))
      /\ \A i \in DOMAIN p.questions :
           /\ HasFields("question", questions(p)[i])
           /\ CleanQuestion(L, questions(p)[i]) = questions(p)[i]
  BY <1>2, QuestionKept DEF IsFunction
<1> DEFINE as == annotations(p)
           qs == questions(p)
<1>6. c = [genre |-> p.genre, title |-> Tidy(L, p.title), passage |-> Tidy(L, p.passage),
           annotations |-> as, questions |-> qs]
  BY <1>1
<1> HIDE DEF c, as, qs
<1>7. annotations(c) = as /\ questions(c) = qs
  BY <1>4, <1>5, <1>6 DEF as, qs, IsFunction
<1> HIDE DEF annotations, questions
<1>8. CleanPayload(L, "reading", c) = c
  BY <1>1, <1>6, <1>7, TextsKept
<1>9. IsPayload("reading", c)
  <2>1. HasFields("reading", c)
    BY <1>6, PayloadFields DEF HasFields
  <2> QED BY <1>4, <1>5, <1>6, <2>1, PayloadFields, ListKinds DEF IsPayload, as, qs
<1> QED BY <1>8, <1>9 DEF PayloadKept, c

LEMMA WritingPromptKept ==
  ASSUME NEW L, NEW p, IsPayload("writing_prompt", p)
  PROVE  PayloadKept(L, "writing_prompt", p)
<1>1. \A x : CleanPayload(L, "writing_prompt", x) = KeptAll(L, x)
  BY DEF CleanPayload, Each, KeptAll
<1>2. HasFields("writing_prompt", KeptAll(L, p))
  BY PayloadFields DEF IsPayload, HasFields, KeptAll
<1> QED BY <1>1, <1>2, ListsKept, PayloadFields DEF PayloadKept, IsPayload

LEMMA ScriptPracticeKept ==
  ASSUME NEW L, NEW p, IsPayload("script_practice", p)
  PROVE  PayloadKept(L, "script_practice", p)
<1> DEFINE c == CleanPayload(L, "script_practice", p)
           items(x) == [i \in DOMAIN x.items |-> CleanItem(L, x.items[i])]
<1>1. \A x : CleanPayload(L, "script_practice", x) = [items |-> items(x)]
  BY DEF CleanPayload, Each
<1>2. \A i \in DOMAIN p.items : HasFields("glyph", p.items[i])
  BY PayloadFields, ListKinds DEF IsPayload
<1>3. /\ DOMAIN items(p) = DOMAIN p.items /\ IsFunction(items(p))
      /\ \A i \in DOMAIN p.items : /\ HasFields("glyph", items(p)[i])
                                   /\ CleanItem(L, items(p)[i]) = items(p)[i]
  BY <1>2, ItemKept DEF IsFunction
<1> DEFINE xs == items(p)
<1>4. c = [items |-> xs]
  BY <1>1
<1> HIDE DEF c, xs
<1>5. items(c) = xs
  BY <1>3, <1>4 DEF xs, IsFunction
<1> HIDE DEF items
<1>6. CleanPayload(L, "script_practice", c) = c
  BY <1>1, <1>4, <1>5
<1>7. IsPayload("script_practice", c)
  <2>1. HasFields("script_practice", c)
    BY <1>4, PayloadFields DEF HasFields
  <2> QED BY <1>3, <1>4, <2>1, PayloadFields, ListKinds DEF IsPayload, xs
<1> QED BY <1>6, <1>7 DEF PayloadKept, c

LEMMA CleanedExercise ==
  ASSUME NEW L, NEW e, IsExercise(e)
  PROVE  /\ IsExercise(CleanExercise(L, e))
         /\ CleanExercise(L, CleanExercise(L, e)) = CleanExercise(L, e)
<1> DEFINE payload(x) == IF x.payload = NoPayload \/ x.type \notin ExerciseTypes THEN x.payload
                         ELSE CleanPayload(L, x.type, x.payload)
           c == CleanExercise(L, e)
           p == payload(e)
<1>1. e = [f \in DOMAIN e |-> e[f]] /\ DOMAIN e = DOMAIN Schema["exercise"].zero
  BY DEF IsExercise, HasFields
<1>2. \A x : x = [f \in DOMAIN Schema["exercise"].zero |-> x[f]] =>
        CleanExercise(L, x) = [x EXCEPT !.prompt = Tidy(L, @), !.payload = payload(x)]
  BY ExerciseFields DEF CleanExercise
<1>3. e.payload # NoPayload =>
        /\ e.type \in ExerciseTypes /\ IsPayload(e.type, p)
        /\ CleanPayload(L, e.type, p) = p
  BY ClozeKept, TranslationKept, OrderingKept, MatchingKept, MultipleChoiceKept, ReadingKept,
     WritingPromptKept, ScriptPracticeKept DEF IsExercise, ExerciseTypes, PayloadKept
<1>4. e.payload = NoPayload => p = NoPayload
  OBVIOUS
<1>5. c = [e EXCEPT !.prompt = Tidy(L, @), !.payload = p]
  BY <1>1, <1>2
<1> HIDE DEF c, p
<1>6. /\ c = [f \in DOMAIN e |-> c[f]] /\ DOMAIN c = DOMAIN e /\ HasFields("exercise", c)
      /\ c.type = e.type /\ c.payload = p /\ c.prompt = Tidy(L, e.prompt)
  BY <1>1, <1>5, ExerciseFields DEF HasFields
<1>7. payload(c) = c.payload /\ Tidy(L, c.prompt) = c.prompt
  BY <1>3, <1>4, <1>6, TextsKept
<1> HIDE DEF payload
<1>8. CleanExercise(L, c) = [c EXCEPT !.prompt = c.prompt, !.payload = c.payload]
  BY <1>1, <1>2, <1>6, <1>7
<1>9. CleanExercise(L, c) = c
  BY <1>6, <1>8
<1> QED BY <1>3, <1>4, <1>6, <1>9 DEF IsExercise, c

\* What New makes of a lesson has the fields of one, and New would leave it so.
LEMMA CleanedLesson ==
  ASSUME NEW l, IsLesson(l)
  PROVE  IsLesson(Clean(l)) /\ Clean(Clean(l)) = Clean(l)
<1> DEFINE L == l.language
           c == Clean(l)
           clean(s) == [i \in DOMAIN s |-> CleanExercise(L, s[i])]
           trim(s) == [i \in DOMAIN s |-> Trim(s[i])]
           es == clean(l.exercises)
           ts == trim(l.tags)
<1>1. l = [f \in DOMAIN l |-> l[f]] /\ DOMAIN l = DOMAIN Schema["lesson"].zero
  BY DEF IsLesson, HasFields
<1>2. \A x : x.language = L => Clean(x) =
        [x EXCEPT !.schemaVersion = Trim(@), !.sourceModel = Trim(@), !.tags = trim(@),
                  !.title = Tidy(L, @), !.description = Tidy(L, @), !.topic = Tidy(L, @),
                  !.exercises = clean(@)]
  BY DEF Clean, Each
<1>3. /\ DOMAIN es = DOMAIN l.exercises /\ IsFunction(es)
      /\ \A i \in DOMAIN es : IsExercise(es[i]) /\ CleanExercise(L, es[i]) = es[i]
  BY CleanedExercise DEF IsLesson, IsFunction
<1>4. DOMAIN ts = DOMAIN l.tags /\ IsFunction(ts) /\ \A i \in DOMAIN ts : Trim(ts[i]) = ts[i]
  BY TextsKept DEF IsFunction
<1> HIDE DEF es, ts
<1>5. clean(es) = es /\ trim(ts) = ts
  BY <1>3, <1>4 DEF IsFunction
<1>6. c = [l EXCEPT !.schemaVersion = Trim(@), !.sourceModel = Trim(@), !.tags = ts,
                  !.title = Tidy(L, @), !.description = Tidy(L, @), !.topic = Tidy(L, @),
                  !.exercises = es]
  BY <1>2 DEF es, ts
<1> HIDE DEF c, clean, trim
<1>7. /\ c = [f \in DOMAIN l |-> c[f]] /\ DOMAIN c = DOMAIN l /\ HasFields("lesson", c)
      /\ c.language = L /\ c.exercises = es /\ c.tags = ts
      /\ c.schemaVersion = Trim(l.schemaVersion) /\ c.sourceModel = Trim(l.sourceModel)
      /\ c.title = Tidy(L, l.title) /\ c.description = Tidy(L, l.description)
      /\ c.topic = Tidy(L, l.topic)
  BY <1>1, <1>6, LessonFields DEF HasFields
<1>8. /\ clean(c.exercises) = c.exercises /\ trim(c.tags) = c.tags
      /\ Trim(c.schemaVersion) = c.schemaVersion /\ Trim(c.sourceModel) = c.sourceModel
      /\ Tidy(L, c.title) = c.title /\ Tidy(L, c.description) = c.description
      /\ Tidy(L, c.topic) = c.topic
  <2>1. clean(c.exercises) = c.exercises /\ trim(c.tags) = c.tags
    BY <1>5, <1>7
  <2>2. Trim(c.schemaVersion) = c.schemaVersion /\ Trim(c.sourceModel) = c.sourceModel
    BY <1>7, TextsKept
  <2>3. Tidy(L, c.title) = c.title /\ Tidy(L, c.description) = c.description
        /\ Tidy(L, c.topic) = c.topic
    BY <1>7, TextsKept
  <2> QED BY <2>1, <2>2, <2>3
<1>9. Clean(c) = [c EXCEPT !.schemaVersion = c.schemaVersion, !.sourceModel = c.sourceModel,
                  !.tags = c.tags, !.title = c.title, !.description = c.description,
                  !.topic = c.topic, !.exercises = c.exercises]
  <2>1. Clean(c) =
        [c EXCEPT !.schemaVersion = Trim(c.schemaVersion), !.sourceModel = Trim(c.sourceModel),
                  !.tags = trim(c.tags), !.title = Tidy(L, c.title),
                  !.description = Tidy(L, c.description), !.topic = Tidy(L, c.topic),
                  !.exercises = clean(c.exercises)]
    BY <1>2, <1>7
  <2> QED BY <1>8, <2>1
<1>10. Clean(c) = c
  BY <1>7, <1>9
<1> QED BY <1>3, <1>7, <1>10 DEF IsLesson, c

-----------------------------------------------------------------------------
(***************************************************************************)
(* The lists of a lesson                                                   *)
(***************************************************************************)
HasLists(l) ==
  /\ IsList(l.exercises)
  /\ \A i \in DOMAIN l.exercises :
       LET e == l.exercises[i]
       IN e.payload # NoPayload => \A f \in ListsOf(e.type) : IsList(e.payload[f])

LEMMA ListIs ==
  ASSUME NEW s, IsList(s)
  PROVE  Len(s) \in Nat /\ DOMAIN s = 1..Len(s)
BY DEF IsList

LEMMA MappedList ==
  ASSUME NEW s, IsList(s), NEW r, IsFunction(r), DOMAIN r = DOMAIN s
  PROVE  IsList(r) /\ Len(r) = Len(s)
<1>1. Len(s) \in Nat /\ DOMAIN r = 1..Len(s)
  BY ListIs
<1>2. \A i \in 1..Len(s) : r[i] \in Range(r)
  BY <1>1 DEF Range
<1>3. r = [i \in 1..Len(s) |-> r[i]]
  BY <1>1 DEF IsFunction
<1>4. r \in Seq(Range(r))
  BY <1>1, <1>2, <1>3
<1> QED BY <1>1, <1>4 DEF IsList

LEMMA CleanedPayloadLists ==
  ASSUME NEW L, NEW p, NEW type \in ExerciseTypes, NEW f \in ListsOf(type)
  PROVE  /\ IsFunction(CleanPayload(L, type, p)[f])
         /\ DOMAIN CleanPayload(L, type, p)[f] = DOMAIN p[f]
<1> DEFINE Holds(s, g) == IsFunction(s[g]) /\ DOMAIN s[g] = DOMAIN p[g]
<1>1. CASE type = "cloze"
  <2> DEFINE c == CleanPayload(L, "cloze", p)
  <2>1. c.blanks = [i \in DOMAIN p.blanks |->
               CleanBlank(L, p.blanks[i])]
    BY DEF CleanPayload, Each, KeptAll, TidyAll
  <2> HIDE DEF c
  <2>2. Holds(c, "blanks")
    BY <2>1 DEF IsFunction
  <2> HIDE DEF Holds
  <2>3. f \in {"blanks"}
    BY <1>1, PayloadFields DEF ListsOf
  <2>4. Holds(c, f)
    BY <2>2, <2>3
  <2> QED BY <1>1, <2>4 DEF Holds, c
<1>2. CASE type = "ordering"
  <2> DEFINE c == CleanPayload(L, "ordering", p)
  <2>1. c.items = [i \in DOMAIN p.items |->
               Tidy(L, p.items[i])]
    BY DEF CleanPayload, Each, KeptAll, TidyAll
  <2> HIDE DEF c
  <2>2. Holds(c, "items")
    BY <2>1 DEF IsFunction
  <2> HIDE DEF Holds
  <2>3. f \in {"items"}
    BY <1>2, PayloadFields DEF ListsOf
  <2>4. Holds(c, f)
    BY <2>2, <2>3
  <2> QED BY <1>2, <2>4 DEF Holds, c
<1>3. CASE type = "matching"
  <2> DEFINE c == CleanPayload(L, "matching", p)
  <2>1. c.pairs = [i \in DOMAIN p.pairs |->
               [left |-> Tidy(L, p.pairs[i].left), right |-> Tidy(L, p.pairs[i].right)]]
    BY DEF CleanPayload, Each, KeptAll, TidyAll
  <2> HIDE DEF c
  <2>2. Holds(c, "pairs")
    BY <2>1 DEF IsFunction
  <2> HIDE DEF Holds
  <2>3. f \in {"pairs"}
    BY <1>3, PayloadFields DEF ListsOf
  <2>4. Holds(c, f)
    BY <2>2, <2>3
  <2> QED BY <1>3, <2>4 DEF Holds, c
<1>4. CASE type = "multiple_choice"
  <2> DEFINE c == CleanPayload(L, "multiple_choice", p)
  <2>1. c.questions = [i \in DOMAIN p.questions |->
               [question |-> Tidy(L, p.questions[i].question),
                options |-> TidyAll(L, p.questions[i].options),
                answer |-> Tidy(L, p.questions[i].answer)]]
    BY DEF CleanPayload, Each, KeptAll, TidyAll
  <2> HIDE DEF c
  <2>2. Holds(c, "questions")
    BY <2>1 DEF IsFunction
  <2> HIDE DEF Holds
  <2>3. f \in {"questions"}
    BY <1>4, PayloadFields DEF ListsOf
  <2>4. Holds(c, f)
    BY <2>2, <2>3
  <2> QED BY <1>4, <2>4 DEF Holds, c
<1>5. CASE type = "reading"
  <2> DEFINE c == CleanPayload(L, "reading", p)
  <2>1. c.annotations = [i \in DOMAIN p.annotations |->
               KeptAll(L, p.annotations[i])]
    BY DEF CleanPayload, Each, KeptAll, TidyAll
  <2>2. c.questions = [i \in DOMAIN p.questions |->
               CleanQuestion(L, p.questions[i])]
    BY DEF CleanPayload, Each, KeptAll, TidyAll
  <2> HIDE DEF c
  <2>3. Holds(c, "annotations")
    BY <2>1 DEF IsFunction
  <2>4. Holds(c, "questions")
    BY <2>2 DEF IsFunction
  <2> HIDE DEF Holds
  <2>5. f \in {"annotations", "questions"}
    BY <1>5, PayloadFields DEF ListsOf
  <2>6. Holds(c, f)
    BY <2>3, <2>4, <2>5
  <2> QED BY <1>5, <2>6 DEF Holds, c
<1>6. CASE type = "script_practice"
  <2> DEFINE c == CleanPayload(L, "script_practice", p)
  <2>1. c.items = [i \in DOMAIN p.items |->
               CleanItem(L, p.items[i])]
    BY DEF CleanPayload, Each, KeptAll, TidyAll
  <2> HIDE DEF c
  <2>2. Holds(c, "items")
    BY <2>1 DEF IsFunction
  <2> HIDE DEF Holds
  <2>3. f \in {"items"}
    BY <1>6, PayloadFields DEF ListsOf
  <2>4. Holds(c, f)
    BY <2>2, <2>3
  <2> QED BY <1>6, <2>4 DEF Holds, c
<1>7. type \notin {"translation", "writing_prompt"}
  BY PayloadFields DEF ListsOf
<1> QED BY <1>1, <1>2, <1>3, <1>4, <1>5, <1>6, <1>7 DEF ExerciseTypes

LEMMA CleanedLists ==
  ASSUME NEW l, IsLesson(l), HasLists(l)
  PROVE  HasLists(Clean(l))
<1> DEFINE L == l.language
           es == [i \in DOMAIN l.exercises |-> CleanExercise(L, l.exercises[i])]
<1>1. DOMAIN l = DOMAIN Schema["lesson"].zero
  BY DEF IsLesson, HasFields
<1>2. Clean(l).exercises = es
  BY <1>1, LessonFields DEF Clean, Each
<1>3. DOMAIN es = DOMAIN l.exercises /\ IsFunction(es)
  BY DEF IsFunction
<1>4. IsList(es)
  BY <1>3, MappedList DEF HasLists
<1>5. ASSUME NEW i \in DOMAIN l.exercises, es[i].payload # NoPayload,
             NEW f \in ListsOf(es[i].type)
      PROVE  IsList(es[i].payload[f])
  <2> DEFINE e == l.exercises[i]
             p == CleanPayload(L, e.type, e.payload)
  <2>1. IsExercise(e) /\ DOMAIN e = DOMAIN Schema["exercise"].zero
    BY DEF IsLesson, IsExercise, HasFields
  <2>2. es[i] = CleanExercise(L, e)
    OBVIOUS
  <2>3. /\ es[i].type = e.type
        /\ es[i].payload = IF e.payload = NoPayload \/ e.type \notin ExerciseTypes
                           THEN e.payload ELSE p
    BY <2>1, <2>2, ExerciseFields DEF CleanExercise
  <2>4. /\ e.payload # NoPayload /\ e.type \in ExerciseTypes /\ f \in ListsOf(e.type)
        /\ es[i].payload = p
    BY <1>5, <2>1, <2>3 DEF IsExercise
  <2>5. IsList(e.payload[f])
    BY <2>4 DEF HasLists
  <2>6. IsFunction(p[f]) /\ DOMAIN p[f] = DOMAIN e.payload[f]
    BY <2>4, CleanedPayloadLists
  <2> QED BY <2>4, <2>5, <2>6, MappedList
<1> HIDE DEF es
<1> QED BY <1>2, <1>3, <1>4, <1>5 DEF HasLists

-----------------------------------------------------------------------------
(***************************************************************************)
(* What an import makes, and what is made of it                            *)
(***************************************************************************)
\* An accepted lesson, read from its item, is the lesson New made: it has every field,
\* keeps the rules, and is what its own document would make.
LEMMA AcceptedLesson ==
  ASSUME NEW doc \in Drafts, Decodes(doc), New(DecodeLesson(doc)).reply = "accepted",
         NEW l, l = New(DecodeLesson(doc)).lesson
  PROVE  /\ IsLesson(l) /\ HasLists(l) /\ Valid(l) /\ ToDomain(ToItem(l)) = l
         /\ New(l) = [reply |-> "accepted", lesson |-> l]
         /\ ToItem(l) # NoDoc /\ ShowLesson(l) # NoDoc
         /\ DecodeLesson(AsDocument(ShowLesson(l))) = l /\ Decodes(AsDocument(ShowLesson(l)))
         /\ ~Decodes(ShowLesson(l)) /\ ShowLesson(l).lessonId = l.lessonId
<1> DEFINE c == DecodeLesson(doc)
<1>1. IsLesson(c) /\ HasLists(c)
  BY DecodedLesson, DocumentAssumption DEF HasLists
<1>2. Encodes(l) /\ ToItem(l) # NoDoc /\ ShowLesson(l) # NoDoc
  BY DocumentAssumption DEF Encodes
<1> HIDE DEF c
<1>3. /\ l = Clean(c) /\ Valid(l)
      /\ ~(l.language = "my" /\ \E i \in DOMAIN l.exercises : Panics(l.exercises[i]))
  BY DEF New, c
<1>4. IsLesson(l) /\ HasLists(l) /\ Clean(l) = l
  BY <1>1, <1>3, CleanedLesson, CleanedLists
<1>5. New(l) = [reply |-> "accepted", lesson |-> l]
  BY <1>3, <1>4 DEF New
<1>6. Of(Upper, l.level, l.level) = l.level
  BY <1>3, LevelAssumption DEF Valid, ValidEnvelope
<1>7. DecodeLesson(ShowDocument(l)) = l /\ Decodes(ShowDocument(l))
  BY <1>2, <1>4, <1>6, ShownDocument
<1>8. /\ AsDocument(ShowLesson(l)) = ShowDocument(l) /\ ~Decodes(ShowLesson(l))
      /\ ShowLesson(l).lessonId = l.lessonId
  BY <1>4, ShownLesson
<1> QED BY <1>2, <1>3, <1>4, <1>5, <1>7, <1>8, StoredLesson

-----------------------------------------------------------------------------
(***************************************************************************)
(* Results worked out from a lesson                                        *)
(***************************************************************************)
\* A score lies between nothing and the points of its exercise.
LEMMA ScoreBounds ==
  ASSUME NEW points \in Nat, NEW total \in Nat, NEW correct \in 0..total
  PROVE  ScoreFor(points, correct, total) \in 0..points
<1>1. CASE total = 0
  BY <1>1 DEF ScoreFor
<1>2. CASE total > 0
  <2> DEFINE n == 2 * points * correct + total
             d == 2 * total
             q == n \div d
  <2>1. points * correct \in Nat /\ points * total \in Nat
        /\ points * correct <= points * total
    OBVIOUS
  <2>2. n \in Nat /\ d \in Nat /\ d > 0 /\ n < d * points + d
    <3>1. 2 * points * correct = 2 * (points * correct) /\ d * points = 2 * (points * total)
      OBVIOUS
    <3> QED BY <1>2, <2>1, <3>1
  <2> HIDE DEF n, d
  <2>3. q \in Nat /\ d * q <= n
    BY <2>2
  <2> HIDE DEF q
  <2>4. q <= points
    <3> SUFFICES ASSUME q >= points + 1
                 PROVE  FALSE
      BY <2>3
    <3>1. d * q >= d * (points + 1)
      BY <2>2, <2>3
    <3>2. d * (points + 1) = d * points + d
      BY <2>2
    <3>3. d * points \in Nat /\ d * q \in Nat
      BY <2>2, <2>3
    <3> QED BY <2>2, <2>3, <3>1, <3>2, <3>3
  <2> QED BY <1>2, <2>3, <2>4 DEF ScoreFor, n, d, q
<1> QED BY <1>1, <1>2

LEMMA ScaleIsNat ==
  ASSUME NEW e, IsExercise(e), e.type \in ExerciseTypes,
         e.payload # NoPayload => \A f \in ListsOf(e.type) : IsList(e.payload[f])
  PROVE  Scale(e).total \in Nat
<1> DEFINE p == e.payload
<1>1. CASE e.type \in {"translation", "writing_prompt"}
  BY <1>1 DEF Scale
<1>2. CASE p = NoPayload
  BY <1>2 DEF Scale, ExerciseTypes
<1>3. CASE p # NoPayload /\ e.type \in {"cloze", "ordering", "matching", "multiple_choice",
                                        "script_practice"}
  <2>1. /\ e.type = "cloze" => Len(p.blanks) \in Nat
        /\ e.type = "ordering" => Len(p.items) \in Nat
        /\ e.type = "matching" => Len(p.pairs) \in Nat
        /\ e.type = "multiple_choice" => Len(p.questions) \in Nat
        /\ e.type = "script_practice" => Len(p.items) \in Nat
    BY <1>3, PayloadFields, ListIs DEF ListsOf
  <2> QED BY <1>3, <2>1 DEF Scale
<1>4. CASE p # NoPayload /\ e.type = "reading"
  <2> DEFINE answered == {i \in DOMAIN p.questions : Answered(p.questions[i])}
  <2>1. Len(p.questions) \in Nat /\ DOMAIN p.questions = 1..Len(p.questions)
    BY <1>4, PayloadFields, ListIs DEF ListsOf
  <2>2. IsFiniteSet(answered)
    <3>1. IsFiniteSet(1..Len(p.questions)) /\ answered \subseteq 1..Len(p.questions)
      BY <2>1, FS_Interval
    <3> QED BY <3>1, FS_Subset
  <2>3. Cardinality(answered) \in Nat
    BY <2>2, FS_CardinalityType
  <2> HIDE DEF answered
  <2>4. Scale(e).total = Cardinality(answered)
    BY <1>4 DEF Scale, answered
  <2> QED BY <2>3, <2>4
<1> QED BY <1>1, <1>2, <1>3, <1>4 DEF ExerciseTypes

\* The client's mutations of an honest attempt.
Distortions == LET o == Attempt(1)
               IN {Each(o, LAMBDA x : o[1]), [o EXCEPT ![1].score = @ + 1]}

LEMMA OutcomesOfAttempt ==
  ASSUME NEW l, IsLesson(l), HasLists(l), Valid(l), DecodeLesson(AsDocument(shown)) = l,
         NEW missed \in 0..1, NEW o, o = Attempt(missed)
  PROVE  /\ IsFunction(o) /\ DOMAIN o = 1..Len(l.exercises) /\ Len(o) = Len(l.exercises)
         /\ DOMAIN l.exercises = 1..Len(l.exercises) /\ Len(l.exercises) \in Nat \ {0}
         /\ \A i \in DOMAIN o :
              /\ o[i].exerciseId = l.exercises[i].exerciseId
              /\ o[i].correct \in 0..o[i].total /\ o[i].score \in 0..o[i].maxScore
              /\ o[i] = Outcome(l.exercises[i], o[i].correct)
<1> DEFINE right(total) == IF missed < total THEN total - missed ELSE 0
           made == [i \in DOMAIN l.exercises |->
                      Outcome(l.exercises[i], right(Scale(l.exercises[i]).total))]
<1>1. o = made
  BY DEF Attempt, Each
<1>2. DOMAIN o = DOMAIN l.exercises /\ IsFunction(o)
  BY <1>1 DEF IsFunction
<1>3. Len(o) = Len(l.exercises)
  BY <1>2, MappedList DEF HasLists
<1>4. DOMAIN l.exercises = 1..Len(l.exercises) /\ Len(l.exercises) \in Nat \ {0}
  <2> DEFINE n == Len(l.exercises)
  <2>1. n \in 1..25
    BY DEF Valid, Between
  <2>2. Len(l.exercises) \in Nat /\ DOMAIN l.exercises = 1..Len(l.exercises)
    <3>1. IsList(l.exercises)
      BY DEF HasLists
    <3> QED BY <3>1, ListIs
  <2> HIDE DEF n
  <2>3. n \in Nat \ {0}
    BY <2>1
  <2> QED BY <2>2, <2>3 DEF n
<1>5. ASSUME NEW i \in DOMAIN l.exercises
      PROVE  /\ o[i].exerciseId = l.exercises[i].exerciseId
             /\ o[i].correct \in 0..o[i].total /\ o[i].score \in 0..o[i].maxScore
             /\ o[i] = Outcome(l.exercises[i], o[i].correct)
  <2> DEFINE e == l.exercises[i]
             total == Scale(e).total
  <2>1. IsExercise(e) /\ ValidExercise(e)
    BY DEF IsLesson, Valid, All
  <2>2. total \in Nat /\ e.points \in Nat
    <3>1. e.payload # NoPayload => \A f \in ListsOf(e.type) : IsList(e.payload[f])
      BY DEF HasLists
    <3>2. e.type \in ExerciseTypes /\ e.points \in 0..100
      BY <2>1 DEF ValidExercise
    <3> HIDE DEF e
    <3> QED BY <2>1, <3>1, <3>2, ScaleIsNat
  <2>3. o[i] = Outcome(e, right(total))
    BY <1>1
  <2> HIDE DEF total, e
  <2>4. right(total) \in 0..total
    BY <2>2
  <2> HIDE DEF right
  <2>5. ScoreFor(e.points, right(total), total) \in 0..e.points
    BY <2>2, <2>4, ScoreBounds
  <2> QED BY <2>3, <2>4, <2>5 DEF Outcome, total, e
<1> QED BY <1>2, <1>3, <1>4, <1>5

LEMMA LastById ==
  ASSUME NEW l, Valid(l), Len(l.exercises) \in Nat, DOMAIN l.exercises = 1..Len(l.exercises),
         NEW i \in DOMAIN l.exercises
  PROVE  ById(l, l.exercises[i].exerciseId) = i
<1>1. \A j, k \in DOMAIN l.exercises :
        l.exercises[j].exerciseId = l.exercises[k].exerciseId => j = k
  BY DEF Valid, DistinctIds, IsInjective, Each
<1>2. \A j \in DOMAIN l.exercises : j <= j
  OBVIOUS
<1> QED BY <1>1, <1>2 DEF ById

\* What the client works out from the lesson it was shown is accepted.
LEMMA HonestIsAccepted ==
  ASSUME NEW l, IsLesson(l), HasLists(l), Valid(l), DecodeLesson(AsDocument(shown)) = l,
         shown.lessonId = l.lessonId, NEW a \in Attempts, NEW missed \in 0..1
  PROVE  Accepts(ResultOf(a, Attempt(missed)), l)
<1> DEFINE o == Attempt(missed)
           r == ResultOf(a, o)
           ids == [i \in DOMAIN o |-> o[i].exerciseId]
           theirs == [i \in DOMAIN l.exercises |-> l.exercises[i].exerciseId]
<1>1. /\ r.attemptId = a /\ r.lessonId = l.lessonId /\ r.startedAt = 1
      /\ r.completedAt = CompletedAt[a] /\ r.exercises = o /\ r.sums = Sums(o)
  BY DEF ResultOf
<1>2. a \in Uuids /\ CompletedAt[a] \in Nat \ {0}
  BY StudyAssumption
<1> HIDE DEF o, r
<1>3. /\ IsFunction(o) /\ DOMAIN o = DOMAIN l.exercises /\ Len(o) = Len(l.exercises)
      /\ Len(l.exercises) \in Nat /\ DOMAIN l.exercises = 1..Len(l.exercises)
      /\ \A i \in DOMAIN o :
              /\ o[i].exerciseId = l.exercises[i].exerciseId
              /\ o[i].correct \in 0..o[i].total /\ o[i].score \in 0..o[i].maxScore
              /\ o[i] = Outcome(l.exercises[i], o[i].correct)
  BY OutcomesOfAttempt DEF o
<1>4. ids = theirs
  BY <1>3
<1>5. IsInjective(ids) /\ Range(ids) \subseteq Range(theirs)
  BY <1>4 DEF Valid, DistinctIds, Each
<1>6. ASSUME NEW i \in DOMAIN o
      PROVE  o[i] = Outcome(l.exercises[ById(l, o[i].exerciseId)], o[i].correct)
  <2>1. i \in DOMAIN l.exercises /\ o[i].exerciseId = l.exercises[i].exerciseId
    BY <1>3
  <2>2. ById(l, o[i].exerciseId) = i
    BY <1>3, <2>1, LastById
  <2> QED BY <1>3, <2>2
<1>7. /\ IsInjective(Each(o, LAMBDA x : x.exerciseId))
      /\ Range(Each(o, LAMBDA x : x.exerciseId))
           \subseteq Range(Each(l.exercises, LAMBDA e : e.exerciseId))
  BY <1>5 DEF Each
<1>8. All(o, LAMBDA x : /\ x.correct \in 0..x.total /\ x.score \in 0..x.maxScore
                        /\ x = Outcome(l.exercises[ById(l, x.exerciseId)], x.correct))
  BY <1>3, <1>6 DEF All
<1>9. Accepts(r, l)
  BY <1>1, <1>2, <1>3, <1>7, <1>8 DEF Accepts
<1> QED BY <1>9 DEF r, o

\* What it reports without having earned it is not.
LEMMA DistortedIsRefused ==
  ASSUME NEW l, IsLesson(l), HasLists(l), Valid(l), DecodeLesson(AsDocument(shown)) = l,
         NEW a \in Attempts, NEW o \in Distortions, o # Attempt(1)
  PROVE  ~Accepts(ResultOf(a, o), l)
<1> DEFINE h == Attempt(1)
           r == ResultOf(a, o)
<1>1. r.exercises = o
  BY DEF ResultOf
<1> HIDE DEF h, r
<1>2. /\ IsFunction(h) /\ DOMAIN h = DOMAIN l.exercises
      /\ Len(l.exercises) \in Nat \ {0} /\ DOMAIN l.exercises = 1..Len(l.exercises)
      /\ \A i \in DOMAIN h :
              /\ h[i].exerciseId = l.exercises[i].exerciseId
              /\ h[i].score \in 0..h[i].maxScore
              /\ h[i] = Outcome(l.exercises[i], h[i].correct)
  BY OutcomesOfAttempt DEF h
<1>3. SUFFICES ASSUME Accepts(r, l)
               PROVE  FALSE
  BY DEF r
<1>4. CASE o = [i \in DOMAIN h |-> h[1]]
  <2>1. \A i, j \in DOMAIN o : i = j
    BY <1>1, <1>3, <1>4 DEF Accepts, IsInjective, Each
  <2>2. o = h
    BY <1>2, <1>4, <2>1 DEF IsFunction
  <2> QED BY <2>2 DEF h
<1>5. CASE o = [h EXCEPT ![1].score = @ + 1]
  <2>1. 1 \in DOMAIN h /\ DOMAIN o = DOMAIN h
    BY <1>2, <1>5
  <2>2. /\ h[1].exerciseId = l.exercises[1].exerciseId /\ h[1].score \in Int
        /\ h[1] = Outcome(l.exercises[1], h[1].correct)
    BY <1>2, <2>1
  <2>3. /\ o[1].exerciseId = l.exercises[1].exerciseId /\ o[1].correct = h[1].correct
        /\ o[1].score = h[1].score + 1
    <3>1. o[1] = [h[1] EXCEPT !.score = @ + 1]
      BY <1>5, <2>1
    <3>2. DOMAIN h[1] = {"exerciseId", "type", "grading", "score", "maxScore", "correct", "total"}
      <4>1. DOMAIN Outcome(l.exercises[1], h[1].correct) =
              {"exerciseId", "type", "grading", "score", "maxScore", "correct", "total"}
        BY DEF Outcome
      <4> QED BY <2>2, <4>1
    <3> QED BY <2>2, <3>1, <3>2
  <2>4. o[1] = Outcome(l.exercises[ById(l, o[1].exerciseId)], o[1].correct)
    BY <1>1, <1>3, <2>1 DEF Accepts, All
  <2>5. o[1] = Outcome(l.exercises[1], h[1].correct)
    <3>1. ById(l, l.exercises[1].exerciseId) = 1
      BY <1>2, LastById
    <3> QED BY <2>3, <2>4, <3>1
  <2> QED BY <2>2, <2>3, <2>5
<1> QED BY <1>4, <1>5 DEF Distortions, Each, h

-----------------------------------------------------------------------------
\* A delivery past its check carries a result, which the client no longer changes; past
\* its save that result has its row; and progress is only recorded behind a row.
DeliveryInv ==
  /\ pc \in [Deliveries -> {"idle", "save", "record"} \union Ends]
  /\ result = [a \in Attempts |-> result[a]]
  /\ \A d \in Deliveries :
       /\ pc[d] # "idle" => sent[AttemptOf[d]] # "nothing"
       /\ pc[d] \in {"record", "created"} => Stored(Result(d))
       /\ pc[d] = "created" => AttemptOf[d] \in progress
  /\ \A a \in progress : a \in Attempts /\ sent[a] # "nothing" /\ Stored(result[a])

-----------------------------------------------------------------------------
LEMMA PutStores ==
  ASSUME NEW d \in Deliveries, Put(d), UNCHANGED result
  PROVE  rows \subseteq rows' /\ Stored(Result(d))'
<1>1. rows \subseteq rows'
  BY DEF Put
<1>2. \E row \in rows' : Key(row) = Key(Row(Result(d)))
  <2>1. CASE Stored(Result(d))
    BY <1>1, <2>1 DEF Stored
  <2>2. CASE ~Stored(Result(d))
    BY <2>2 DEF Put
  <2> QED BY <2>1, <2>2
<1>3. Result(d)' = Result(d)
  BY DEF Result
<1> QED BY <1>1, <1>2, <1>3 DEF Stored, Key, Row

\* The client's steps: a result appears where there was none.
LEMMA ClientKeeps ==
  ASSUME DeliveryInv, UNCHANGED <<pc, progress>>, rows \subseteq rows',
         result' = [a \in Attempts |-> result'[a]],
         \A a \in Attempts : sent[a] # "nothing" => /\ result'[a] = result[a]
                                                   /\ sent'[a] # "nothing"
  PROVE  DeliveryInv'
<1>1. \A d \in Deliveries : AttemptOf[d] \in Attempts
  BY StudyAssumption
<1>2. ASSUME NEW d \in Deliveries, pc[d] # "idle"
      PROVE  Result(d)' = Result(d) /\ sent'[AttemptOf[d]] # "nothing"
  BY <1>1, <1>2 DEF DeliveryInv, Result
<1>3. ASSUME NEW r, Stored(r)
      PROVE  \E row \in rows' : Key(row) = Key(Row(r))
  BY <1>3 DEF Stored
<1>4. ASSUME NEW d \in Deliveries, pc[d] \in {"record", "created"}
      PROVE  Stored(Result(d))'
  <2>1. Stored(Result(d)) /\ Result(d)' = Result(d)
    BY <1>2, <1>4 DEF DeliveryInv
  <2> QED BY <1>3, <2>1 DEF Stored, Key, Row
<1>5. ASSUME NEW a \in progress
      PROVE  a \in Attempts /\ sent'[a] # "nothing" /\ Stored(result[a])'
  <2>1. a \in Attempts /\ Stored(result[a]) /\ sent'[a] # "nothing" /\ result'[a] = result[a]
    BY <1>5 DEF DeliveryInv
  <2> QED BY <1>3, <2>1 DEF Stored, Key, Row
<1> QED BY <1>2, <1>4, <1>5 DEF DeliveryInv

\* A delivery's step: its rows and progress grow, the others are as they were.
LEMMA DeliveryKeeps ==
  ASSUME DeliveryInv, NEW d \in Deliveries, Deliver(d)
  PROVE  DeliveryInv'
<1>1. /\ result' = result /\ sent' = sent /\ AttemptOf[d] \in Attempts
      /\ pc \in [Deliveries -> {"idle", "save", "record"} \union Ends]
      /\ \A q \in Deliveries : Result(q)' = Result(q)
  BY StudyAssumption DEF DeliveryInv, Deliver, Check, Save, RecordProgress, SaveUnheard,
     RecordProgressUnheard, Stop, client, Result
<1>2. /\ rows \subseteq rows' /\ progress \subseteq progress'
      /\ progress' # progress => pc[d] = "record" /\ progress' = progress \union {AttemptOf[d]}
  BY <1>1, PutStores DEF Deliver, Check, Save, RecordProgress, SaveUnheard,
     RecordProgressUnheard, Stop, table
<1>3. \A a : (\E row \in rows : Key(row) = Key(Row(result[a]))) => Stored(result[a])'
  BY <1>1, <1>2 DEF Stored, Key, Row
<1>4. \A q \in Deliveries : Stored(Result(q)) => Stored(Result(q))'
  BY <1>3 DEF Stored, Result
<1>5. pc' \in [Deliveries -> {"idle", "save", "record"} \union Ends]
        /\ \A q \in Deliveries \ {d} : pc'[q] = pc[q]
  BY <1>1 DEF Deliver, Check, Save, RecordProgress, SaveUnheard, RecordProgressUnheard, Stop,
     Goto, Ends
<1>6. /\ sent[AttemptOf[d]] # "nothing"
      /\ pc'[d] = "record" => Stored(Result(d))'
      /\ pc'[d] = "created" => pc[d] = "record" /\ AttemptOf[d] \in progress'
  BY <1>1, PutStores DEF DeliveryInv, Deliver, Check, Save, RecordProgress, SaveUnheard,
     RecordProgressUnheard, Stop, Goto
<1>7. ASSUME NEW q \in Deliveries
      PROVE  /\ pc'[q] # "idle" => sent'[AttemptOf[q]] # "nothing"
             /\ pc'[q] \in {"record", "created"} => Stored(Result(q))'
             /\ pc'[q] = "created" => AttemptOf[q] \in progress'
  BY <1>1, <1>2, <1>4, <1>5, <1>6 DEF DeliveryInv
<1>8. ASSUME NEW a \in progress'
      PROVE  a \in Attempts /\ sent'[a] # "nothing" /\ Stored(result[a])'
  <2>1. CASE a \in progress
    BY <1>1, <1>3, <2>1 DEF DeliveryInv, Stored
  <2>2. CASE a = AttemptOf[d] /\ pc[d] = "record"
    BY <1>1, <1>3, <1>6, <2>2 DEF DeliveryInv, Stored, Result
  <2> QED BY <1>2, <2>1, <2>2
<1> QED BY <1>1, <1>5, <1>7, <1>8 DEF DeliveryInv

LEMMA DeliveryInductive ==
  /\ Init => DeliveryInv
  /\ DeliveryInv /\ [Next]_vars => DeliveryInv'
<1>1. ASSUME Init
      PROVE  DeliveryInv
  BY <1>1 DEF Init, DeliveryInv
<1>2. ASSUME DeliveryInv, [Next]_vars
      PROVE  DeliveryInv'
  <2>1. result = [a \in Attempts |-> result[a]]
    BY <1>2 DEF DeliveryInv
  <2>2. CASE UNCHANGED <<result, sent, pc, rows, progress>>
    BY <1>2, <2>1, <2>2, ClientKeeps
  <2>3. ASSUME NEW a \in Attempts, Finish(a) \/ Distort(a)
        PROVE  DeliveryInv'
    <3>1. /\ \E r : result' = [result EXCEPT ![a] = r]
          /\ \E s : sent' = [sent EXCEPT ![a] = s]
      BY <2>3 DEF Finish, Distort
    <3>2. sent[a] = "nothing" /\ UNCHANGED <<pc, rows, progress>>
      BY <2>3 DEF Finish, Distort, table
    <3> QED BY <1>2, <2>1, <3>1, <3>2, ClientKeeps
  <2>4. ASSUME NEW d \in Deliveries, Deliver(d)
        PROVE  DeliveryInv'
    BY <1>2, <2>4, DeliveryKeeps
  <2>5. Import \/ Show \/ Delete \/ ListBegin \/ ListPage \/ (\E row \in rows : Settle(row))
          => UNCHANGED <<result, sent, pc, rows, progress>>
    BY DEF Import, Show, Delete, ListBegin, ListPage, Settle, client, table
  <2> QED BY <1>2, <2>2, <2>3, <2>4, <2>5 DEF Next, vars
<1> QED BY <1>1, <1>2

\* A result answered with 201 is in the table and in the learner's progress, whatever
\* became of its other deliveries, and a lesson deleted meanwhile (Service.Record).
THEOREM AcknowledgedAttempts == Spec => []AcknowledgedAttemptIsRecorded
<1>1. DeliveryInv => AcknowledgedAttemptIsRecorded
  BY DEF DeliveryInv, AcknowledgedAttemptIsRecorded
<1> QED BY <1>1, DeliveryInductive, PTL DEF Spec

\* Progress is recorded of an attempt only once it has a row (the order of Record's
\* SaveResult and RecordLesson), and the row is there for good.
THEOREM ProgressBehindResult == Spec => []ProgressHasResult
<1>1. DeliveryInv => ProgressHasResult
  BY DEF DeliveryInv, ProgressHasResult
<1> QED BY <1>1, DeliveryInductive, PTL DEF Spec

-----------------------------------------------------------------------------
(***************************************************************************)
(* The study: what is stored, shown, worked out and answered               *)
(***************************************************************************)
\* The item is the lesson New made of the draft, and the document the learner has is
\* that item's; until the import there is neither.
ShownInv ==
  /\ draft \in Drafts
  /\ reply = "created" => /\ Decodes(draft) /\ New(DecodeLesson(draft)).reply = "accepted"
                          /\ item = ToItem(New(DecodeLesson(draft)).lesson)
  /\ there \/ shown # NoDoc => reply = "created"
  /\ shown # NoDoc => shown = ShowLesson(ToDomain(item))

\* Every result was worked out, rightly or not, from the document that is still the one
\* shown; and a delivery is where the rules, applied to the item, sent it.
ResultInv ==
  /\ result = [a \in Attempts |-> result[a]]
  /\ sent \in [Attempts -> {"nothing", "honest", "distorted"}]
  /\ pc \in [Deliveries -> {"idle", "save", "record"} \union Ends]
  /\ \A a \in Attempts :
       /\ sent[a] # "nothing" => shown # NoDoc
       /\ sent[a] = "honest" =>
            \E missed \in 0..1 : result[a] = ResultOf(a, Attempt(missed))
       /\ sent[a] = "distorted" =>
            \E o \in Distortions : o # Attempt(1) /\ result[a] = ResultOf(a, o)
  /\ \A d \in Deliveries :
       /\ pc[d] # "idle" => sent[AttemptOf[d]] # "nothing"
       /\ pc[d] = "refused" => ~Accepts(Result(d), ToDomain(item))
       /\ pc[d] \in {"save", "record", "created"} => Accepts(Result(d), ToDomain(item))

\* The rest of the type invariant, with what it needs to be inductive.
TableInv ==
  /\ reply \in {"none", "created", "rejected", "panic"}
  /\ there \in BOOLEAN /\ (there => item # NoDoc)
  /\ settled \subseteq rows /\ Earlier \subseteq rows
  /\ progress \subseteq Attempts
  /\ list = [f \in {"at", "summary", "seen", "began"} |-> list[f]]
  /\ list.at \in {"idle", "paging", "done"}
  /\ faults \in 0..MaxFaults

\* The lesson of a created item.
LEMMA CreatedLesson ==
  ASSUME ShownInv, reply = "created", NEW l, l = ToDomain(item)
  PROVE  /\ IsLesson(l) /\ HasLists(l) /\ Valid(l)
         /\ New(l) = [reply |-> "accepted", lesson |-> l]
         /\ shown # NoDoc => /\ DecodeLesson(AsDocument(shown)) = l
                             /\ Decodes(AsDocument(shown)) /\ ~Decodes(shown)
                             /\ shown.lessonId = l.lessonId
<1> DEFINE made == New(DecodeLesson(draft)).lesson
<1>1. /\ draft \in Drafts /\ Decodes(draft) /\ New(DecodeLesson(draft)).reply = "accepted"
      /\ item = ToItem(made)
      /\ shown # NoDoc => shown = ShowLesson(ToDomain(item))
  BY DEF ShownInv
<1> HIDE DEF made
<1>2. l = made
  BY <1>1, AcceptedLesson DEF made
<1>3. shown # NoDoc => shown = ShowLesson(l)
  BY <1>1
<1> QED BY <1>1, <1>2, <1>3, AcceptedLesson DEF made

LEMMA ShownInductive ==
  /\ Init => ShownInv
  /\ ShownInv /\ [Next]_vars => ShownInv'
<1>1. ASSUME Init
      PROVE  ShownInv
  BY <1>1 DEF Init, ShownInv
<1>2. ASSUME ShownInv, [Next]_vars
      PROVE  ShownInv'
  <2>1. CASE UNCHANGED <<draft, reply, item, shown>> /\ (there' => there)
    BY <1>2, <2>1 DEF ShownInv
  <2>2. CASE Import
    <3>1. reply = "none" /\ draft' = draft /\ shown' = shown /\ shown = NoDoc
      BY <1>2, <2>2 DEF Import, client, ShownInv
    <3>2. CASE Imported.reply = "accepted"
      <4>1. /\ Decodes(draft) /\ New(DecodeLesson(draft)).reply = "accepted"
            /\ Imported.lesson = New(DecodeLesson(draft)).lesson
        BY <3>2 DEF Imported, New
      <4>2. item' = ToItem(New(DecodeLesson(draft)).lesson)
        BY <2>2, <3>2, <4>1 DEF Import
      <4>3. reply' = "created"
        BY <2>2, <3>2 DEF Import
      <4> QED BY <1>2, <3>1, <4>1, <4>2, <4>3 DEF ShownInv
    <3>3. CASE Imported.reply # "accepted"
      <4>1. reply' # "created" /\ there' = there /\ ~there
        BY <1>2, <2>2, <3>1, <3>3 DEF Import, Imported, New, ShownInv
      <4> QED BY <1>2, <3>1, <4>1 DEF ShownInv
    <3> QED BY <3>2, <3>3
  <2>3. CASE Show
    <3>1. /\ there /\ shown' = ShowLesson(ToDomain(item))
          /\ UNCHANGED <<draft, reply, item, there>>
      BY <2>3 DEF Show, lesson
    <3> QED BY <1>2, <3>1 DEF ShownInv
  <2>4. CASE Delete
    BY <1>2, <2>1, <2>4 DEF Delete, client
  <2>5. ASSUME NEW a \in Attempts, Finish(a) \/ Distort(a)
        PROVE  ShownInv'
    BY <1>2, <2>1, <2>5 DEF Finish, Distort, lesson
  <2>6. ASSUME NEW d \in Deliveries, Deliver(d)
        PROVE  ShownInv'
    BY <1>2, <2>1, <2>6 DEF Deliver, Check, Save, RecordProgress, SaveUnheard,
       RecordProgressUnheard, Stop, lesson, client
  <2>7. CASE ListBegin \/ ListPage \/ (\E row \in rows : Settle(row)) \/ UNCHANGED vars
    <3>1. UNCHANGED <<draft, reply, item, shown, there>>
      BY <2>7 DEF ListBegin, ListPage, Settle, vars, lesson, client
    <3> QED BY <1>2, <2>1, <3>1
  <2> QED BY <1>2, <2>2, <2>3, <2>4, <2>5, <2>6, <2>7 DEF Next
<1> QED BY <1>1, <1>2

LEMMA TableInductive ==
  /\ Init => TableInv
  /\ ShownInv /\ DeliveryInv /\ TableInv /\ [Next]_vars => TableInv'
<1>1. ASSUME Init
      PROVE  TableInv
  <2>1. list = [at |-> "idle", summary |-> NoDoc, seen |-> <<>>, began |-> {}]
    BY <1>1 DEF Init
  <2>2. /\ list.at = "idle"
        /\ list = [f \in {"at", "summary", "seen", "began"} |-> list[f]]
    BY <2>1
  <2>3. faults \in 0..MaxFaults
    <3>1. faults = 0 /\ MaxFaults \in Nat
      BY <1>1, StudyAssumption DEF Init
    <3> QED BY <3>1
  <2>4. /\ reply = "none" /\ there = FALSE /\ rows = Earlier /\ settled = Earlier
        /\ progress = {}
    BY <1>1 DEF Init
  <2> QED BY <2>2, <2>3, <2>4 DEF TableInv
<1>2. ASSUME ShownInv, DeliveryInv, TableInv, [Next]_vars
      PROVE  TableInv'
  <2>1. CASE /\ UNCHANGED <<reply, item, list>> /\ there' \in BOOLEAN /\ (there' => there)
             /\ settled' \subseteq rows' /\ rows \subseteq rows'
             /\ progress' \subseteq Attempts /\ faults' \in 0..MaxFaults
    BY <1>2, <2>1 DEF TableInv
  <2>2. CASE Import
    <3>1. Imported.reply \in {"accepted", "rejected", "panic"}
      BY DEF Imported, New
    <3>2. ASSUME Imported.reply = "accepted"
          PROVE  ToItem(Imported.lesson) # NoDoc
      <4>1. /\ Decodes(draft) /\ New(DecodeLesson(draft)).reply = "accepted"
            /\ Imported.lesson = New(DecodeLesson(draft)).lesson
        BY <3>2 DEF Imported, New
      <4> QED BY <1>2, <4>1, AcceptedLesson DEF ShownInv
    <3>3. reply' \in {"none", "created", "rejected", "panic"}
      BY <2>2, <3>1 DEF Import
    <3>4. there' \in BOOLEAN /\ (there' => item' # NoDoc)
      BY <1>2, <2>2, <3>1, <3>2 DEF Import, TableInv
    <3>5. UNCHANGED <<rows, settled, progress, list, faults>>
      BY <2>2 DEF Import, table
    <3> QED BY <1>2, <3>3, <3>4, <3>5 DEF TableInv
  <2>3. CASE Show \/ Delete
    <3>1. UNCHANGED <<reply, item, list, rows, settled, progress, faults>>
      BY <2>3 DEF Show, Delete, lesson, table
    <3>2. there' \in BOOLEAN /\ (there' => there)
      BY <1>2, <2>3 DEF Show, Delete, lesson, TableInv
    <3> QED BY <1>2, <2>1, <3>1, <3>2 DEF TableInv
  <2>4. ASSUME NEW a \in Attempts, Finish(a) \/ Distort(a)
        PROVE  TableInv'
    <3>1. UNCHANGED <<reply, item, there, list, rows, settled, progress, faults>>
      BY <2>4 DEF Finish, Distort, lesson, table
    <3> QED BY <1>2, <3>1 DEF TableInv
  <2>5. ASSUME NEW d \in Deliveries, Deliver(d)
        PROVE  TableInv'
    <3>1. /\ UNCHANGED <<reply, item, there, list, settled>>
          /\ faults' = faults \/ (faults < MaxFaults /\ faults' = faults + 1)
          /\ progress' = progress \/ progress' = progress \union {AttemptOf[d]}
      BY <2>5 DEF Deliver, Check, Save, RecordProgress, SaveUnheard, RecordProgressUnheard,
         Stop, lesson, table, Fault
    <3>2. rows \subseteq rows'
      BY <2>5 DEF Deliver, Check, Save, RecordProgress, SaveUnheard, RecordProgressUnheard,
         Stop, table, Put
    <3>3. AttemptOf[d] \in Attempts /\ MaxFaults \in Nat
      BY StudyAssumption
    <3>4. faults' \in 0..MaxFaults
      BY <1>2, <3>1, <3>3 DEF TableInv
    <3> QED BY <1>2, <2>1, <3>1, <3>2, <3>3, <3>4 DEF TableInv
  <2>6. ASSUME NEW row \in rows, Settle(row)
        PROVE  TableInv'
    <3>1. /\ UNCHANGED <<reply, item, there, list, rows, progress, faults>>
          /\ settled' = settled \union {row}
      BY <2>6 DEF Settle, lesson
    <3> QED BY <1>2, <3>1 DEF TableInv
  <2>7. CASE ListBegin
    <3>1. \E summary : list' = [list EXCEPT !.at = "paging", !.began = settled,
                                            !.summary = summary]
      BY <2>7 DEF ListBegin
    <3>2. UNCHANGED <<reply, item, there, rows, settled, progress, faults>>
      BY <2>7 DEF ListBegin, lesson, table
    <3> QED BY <1>2, <3>1, <3>2 DEF TableInv
  <2>8. CASE ListPage
    <3>1. \E seen, at : /\ at \in {"done", "paging"}
                        /\ list' = [list EXCEPT !.seen = seen, !.at = at]
      BY <2>8 DEF ListPage
    <3>2. UNCHANGED <<reply, item, there, rows, settled, progress, faults>>
      BY <2>8 DEF ListPage, lesson, table
    <3> QED BY <1>2, <3>1, <3>2 DEF TableInv
  <2>9. CASE UNCHANGED vars
    BY <1>2, <2>9 DEF vars, TableInv
  <2> QED BY <1>2, <2>2, <2>3, <2>4, <2>5, <2>6, <2>7, <2>8, <2>9 DEF Next
<1> QED BY <1>1, <1>2

\* What the client works out depends on nothing but the document it was shown.
LEMMA SameShown ==
  ASSUME shown' = shown
  PROVE  /\ \A a, o : ResultOf(a, o)' = ResultOf(a, o)
         /\ \A missed : Attempt(missed)' = Attempt(missed)
         /\ Distortions' = Distortions
<1>1. \A a, o : ResultOf(a, o)' = ResultOf(a, o)
  BY DEF ResultOf
<1>2. \A missed : Attempt(missed)' = Attempt(missed)
  BY DEF Attempt, Each
<1>3. Distortions' = Distortions
  BY <1>2 DEF Distortions, Each
<1> QED BY <1>1, <1>2, <1>3

LEMMA ResultInductive ==
  /\ Init => ResultInv
  /\ ShownInv /\ ResultInv /\ [Next]_vars => ResultInv'
<1>0. \A d \in Deliveries : AttemptOf[d] \in Attempts
  BY StudyAssumption
<1>1. ASSUME Init
      PROVE  ResultInv
  <2>1. pc = [d \in Deliveries |-> "idle"] /\ result = [a \in Attempts |-> NoDoc]
        /\ sent = [a \in Attempts |-> "nothing"]
    BY <1>1 DEF Init
  <2> QED BY <1>0, <2>1 DEF ResultInv
<1>2. ASSUME ShownInv, ResultInv, [Next]_vars
      PROVE  ResultInv'
  <2>1. CASE UNCHANGED <<result, sent, pc>>
             /\ ((\E a \in Attempts : sent[a] # "nothing") => UNCHANGED <<shown, item>>)
    <3>1. ASSUME NEW a \in Attempts, sent[a] # "nothing"
          PROVE  /\ shown' = shown
                 /\ \A o : ResultOf(a, o)' = ResultOf(a, o)
                 /\ \A missed : Attempt(missed)' = Attempt(missed)
                 /\ Distortions' = Distortions
      BY <2>1, <3>1, SameShown
    <3>2. ASSUME NEW d \in Deliveries, pc[d] # "idle"
          PROVE  item' = item /\ Result(d)' = Result(d)
      BY <1>0, <1>2, <2>1, <3>2 DEF ResultInv, Result
    <3> QED BY <1>2, <2>1, <3>1, <3>2 DEF ResultInv
  <2>2. CASE Import
    <3>1. UNCHANGED <<result, sent, pc, shown>> /\ shown = NoDoc
      BY <1>2, <2>2 DEF Import, client, ShownInv
    <3> QED BY <1>2, <2>1, <3>1 DEF ResultInv
  <2>3. CASE Show
    <3>1. UNCHANGED <<result, sent, pc, item>> /\ shown = NoDoc
      BY <2>3 DEF Show, lesson
    <3> QED BY <1>2, <2>1, <3>1 DEF ResultInv
  <2>4. CASE Delete \/ ListBegin \/ ListPage \/ (\E row \in rows : Settle(row))
                \/ UNCHANGED vars
    BY <2>1, <2>4 DEF Delete, ListBegin, ListPage, Settle, vars, lesson, client
  <2>5. ASSUME NEW a \in Attempts, Finish(a) \/ Distort(a)
        PROVE  ResultInv'
    <3>1. /\ shown # NoDoc /\ sent[a] = "nothing" /\ UNCHANGED <<shown, item, pc>>
          /\ \A b, o : ResultOf(b, o)' = ResultOf(b, o)
          /\ \A missed : Attempt(missed)' = Attempt(missed)
          /\ Distortions' = Distortions
      BY <2>5, SameShown DEF Finish, Distort, lesson
    <3>2. \/ /\ sent' = [sent EXCEPT ![a] = "honest"]
             /\ \E missed \in 0..1 :
                  result' = [result EXCEPT ![a] = ResultOf(a, Attempt(missed))]
          \/ /\ sent' = [sent EXCEPT ![a] = "distorted"]
             /\ \E o \in Distortions :
                  o # Attempt(1) /\ result' = [result EXCEPT ![a] = ResultOf(a, o)]
      BY <2>5 DEF Finish, Distort, Distortions
    <3>3. a \in DOMAIN sent /\ a \in DOMAIN result
      BY <1>2 DEF ResultInv
    <3>4. /\ result' = [b \in Attempts |-> result'[b]]
          /\ sent' \in [Attempts -> {"nothing", "honest", "distorted"}]
          /\ \A b \in Attempts \ {a} : result'[b] = result[b] /\ sent'[b] = sent[b]
      BY <1>2, <3>2 DEF ResultInv
    <3>5. ASSUME NEW b \in Attempts
          PROVE  /\ sent'[b] # "nothing" => shown' # NoDoc
                 /\ sent'[b] = "honest" =>
                      \E missed \in 0..1 : result'[b] = ResultOf(b, Attempt(missed))'
                 /\ sent'[b] = "distorted" =>
                      \E o \in Distortions' : o # Attempt(1)' /\ result'[b] = ResultOf(b, o)'
      <4>1. CASE b = a
        <5>1. \/ /\ sent'[a] = "honest"
                 /\ \E missed \in 0..1 : result'[a] = ResultOf(a, Attempt(missed))
              \/ /\ sent'[a] = "distorted"
                 /\ \E o \in Distortions : o # Attempt(1) /\ result'[a] = ResultOf(a, o)
          BY <3>2, <3>3
        <5> QED BY <3>1, <4>1, <5>1
      <4>2. CASE b # a
        BY <1>2, <3>1, <3>4, <4>2 DEF ResultInv
      <4> QED BY <4>1, <4>2
    <3>6. ASSUME NEW d \in Deliveries
          PROVE  /\ pc'[d] # "idle" => sent'[AttemptOf[d]] # "nothing"
                 /\ pc'[d] = "refused" => ~Accepts(Result(d), ToDomain(item))'
                 /\ pc'[d] \in {"save", "record", "created"} =>
                      Accepts(Result(d), ToDomain(item))'
      <4>1. CASE pc[d] = "idle"
        BY <3>1, <4>1
      <4>2. CASE pc[d] # "idle"
        <5>1. AttemptOf[d] \in Attempts \ {a}
          BY <1>0, <1>2, <3>1, <4>2 DEF ResultInv
        <5>2. Result(d)' = Result(d) /\ sent'[AttemptOf[d]] # "nothing"
          BY <1>2, <3>4, <4>2, <5>1 DEF ResultInv, Result
        <5> QED BY <1>2, <3>1, <5>2 DEF ResultInv
      <4> QED BY <4>1, <4>2
    <3> QED BY <1>2, <3>1, <3>4, <3>5, <3>6 DEF ResultInv
  <2>6. ASSUME NEW d \in Deliveries, Deliver(d)
        PROVE  ResultInv'
    <3>1. /\ UNCHANGED <<result, sent, shown, item>>
          /\ \A b, o : ResultOf(b, o)' = ResultOf(b, o)
          /\ \A missed : Attempt(missed)' = Attempt(missed)
          /\ Distortions' = Distortions
          /\ \A q \in Deliveries : Result(q)' = Result(q)
      <4>1. UNCHANGED <<result, sent, shown, item>>
        BY <2>6 DEF Deliver, Check, Save, RecordProgress, SaveUnheard, RecordProgressUnheard,
           Stop, lesson, client
      <4> QED BY <4>1, SameShown DEF Result
    <3>2. \E where \in {"save", "record"} \union Ends :
            /\ pc' = [pc EXCEPT ![d] = where]
            /\ sent[AttemptOf[d]] # "nothing"
            /\ where = "refused" => ~Accepts(Result(d), ToDomain(item))
            /\ where \in {"save", "record", "created"} => Accepts(Result(d), ToDomain(item))
      BY <1>2, <2>6 DEF Deliver, Check, Save, RecordProgress, SaveUnheard,
         RecordProgressUnheard, Stop, Goto, Ends, ResultInv
    <3>3. /\ pc' \in [Deliveries -> {"idle", "save", "record"} \union Ends]
          /\ \A q \in Deliveries :
               /\ pc'[q] # "idle" => sent[AttemptOf[q]] # "nothing"
               /\ pc'[q] = "refused" => ~Accepts(Result(q), ToDomain(item))
               /\ pc'[q] \in {"save", "record", "created"} =>
                    Accepts(Result(q), ToDomain(item))
      BY <1>2, <3>2 DEF ResultInv
    <3> QED BY <1>2, <3>1, <3>3 DEF ResultInv
  <2> QED BY <1>2, <2>2, <2>3, <2>4, <2>5, <2>6 DEF Next
<1> QED BY <1>1, <1>2

\* The types: an answered import, the earlier rows kept, a result under its
\* own attempt (the handlers of httpapi over lessons.Service).
THEOREM StudyTypeCorrect == Spec => []TypeOK
<1>1. ShownInv /\ ResultInv /\ TableInv => TypeOK
  BY DEF ShownInv, ResultInv, TableInv, TypeOK, ResultOf
<1> QED BY <1>1, ShownInductive, ResultInductive, TableInductive, DeliveryInductive, PTL DEF Spec

\* A shown lesson can be answered in full, whatever was trimmed, normalised and left out
\* on the way (the validators of domain/lesson, the items of dynamolessons).
THEOREM ShownIsAnswerable == Spec => []ShownLessonIsAnswerable
<1>1. ASSUME NEW e, ValidExercise(e)
      PROVE  Answerable(e)
  <2> DEFINE p == e.payload
  <2>1. /\ e.type \in ExerciseTypes
        /\ p = NoPayload => e.type = "writing_prompt"
        /\ p # NoPayload => ValidPayload(e.type, p)
    BY <1>1 DEF ValidExercise
  <2>2. CASE e.type = "cloze"
    <3>1. ValidCloze(p)
      BY <2>1, <2>2 DEF ValidPayload
    <3>2. \A i \in DOMAIN p.blanks :
            /\ p.blanks[i].index \in Range(Of(Markers, p.text, <<>>))
            /\ p.wordBank # <<>> => p.blanks[i].answer \in Range(p.wordBank)
      <4> DEFINE index == [i \in DOMAIN p.blanks |-> p.blanks[i].index]
      <4>1. Range(index) = Range(Of(Markers, p.text, <<>>))
        BY <3>1 DEF ValidCloze, Each
      <4>2. \A i \in DOMAIN p.blanks : p.blanks[i].index \in Range(index)
        BY DEF Range
      <4>3. \A i \in DOMAIN p.blanks :
              p.wordBank # <<>> => p.blanks[i].answer \in Range(p.wordBank)
        BY <3>1 DEF ValidCloze, Offered, All
      <4> QED BY <4>1, <4>2, <4>3
    <3>3. p.wordBank = <<>> => Range(p.wordBank) = {}
      BY DEF Range
    <3> QED BY <2>2, <3>2, <3>3 DEF Answerable
  <2>3. CASE e.type = "multiple_choice"
    <3>1. ValidMultipleChoice(p)
      BY <2>1, <2>3 DEF ValidPayload
    <3> QED BY <2>3, <3>1 DEF Answerable, ValidMultipleChoice, ValidChoice, All
  <2>4. CASE e.type = "reading"
    <3>1. ValidReading(p)
      BY <2>1, <2>4 DEF ValidPayload
    <3>2. \A i \in DOMAIN p.questions : ValidQuestion(p.questions[i])
      BY <3>1 DEF ValidReading, All
    <3>3. \A i \in DOMAIN p.questions : p.questions[i].kind = "multiple_choice" =>
            p.questions[i].answer \in Range(p.questions[i].options)
      BY <3>2 DEF ValidQuestion, ValidChoice
    <3> QED BY <2>4, <3>3 DEF Answerable, All
  <2>5. CASE e.type = "script_practice"
    <3>1. ValidScriptPractice(p)
      BY <2>1, <2>5 DEF ValidPayload
    <3> QED BY <2>5, <3>1 DEF Answerable, ValidScriptPractice, ValidScriptItem, All
  <2> QED BY <2>1, <2>2, <2>3, <2>4, <2>5 DEF Answerable, ExerciseTypes
<1>2. ShownInv => ShownLessonIsAnswerable
  <2> SUFFICES ASSUME ShownInv, shown # NoDoc
               PROVE  All(DecodeLesson(AsDocument(shown)).exercises, Answerable)
    BY DEF ShownLessonIsAnswerable
  <2>1. Valid(DecodeLesson(AsDocument(shown)))
    BY CreatedLesson DEF ShownInv
  <2> QED BY <1>1, <2>1 DEF Valid, All
<1> QED BY <1>2, ShownInductive, PTL DEF Spec

\* What is shown is a document the import refuses, for its createdAt: without it, it is
\* one the import takes, and of which it makes the same lesson (lesson.New,
\* toLessonDetail, decodeStrict, decodeLessonDocument, the items of dynamolessons).
THEOREM ShownImportsAgain == Spec => []ShownLessonImportsAgain
<1>1. ShownInv => ShownLessonImportsAgain
  BY CreatedLesson DEF ShownInv, ShownLessonImportsAgain
<1> QED BY <1>1, ShownInductive, PTL DEF Spec

\* The rules accept a result exactly if it was worked out from the document shown.
LEMMA AcceptedIsHonest ==
  ASSUME ShownInv, ResultInv, NEW d \in Deliveries, pc[d] # "idle"
  PROVE  Accepts(Result(d), ToDomain(item)) <=> sent[AttemptOf[d]] = "honest"
<1> DEFINE a == AttemptOf[d]
           l == ToDomain(item)
<1>1. /\ a \in Attempts /\ sent[a] \in {"honest", "distorted"} /\ shown # NoDoc
      /\ reply = "created" /\ Result(d) = result[a]
  BY StudyAssumption DEF ShownInv, ResultInv, Result
<1>2. /\ IsLesson(l) /\ HasLists(l) /\ Valid(l) /\ DecodeLesson(AsDocument(shown)) = l
      /\ shown.lessonId = l.lessonId
  BY <1>1, CreatedLesson
<1> HIDE DEF a, l
<1>3. CASE sent[a] = "honest"
  <2>1. Accepts(result[a], l)
    BY <1>1, <1>2, <1>3, HonestIsAccepted DEF ResultInv
  <2> QED BY <1>1, <1>3, <2>1 DEF a, l
<1>4. CASE sent[a] = "distorted"
  <2>1. ~Accepts(result[a], l)
    BY <1>1, <1>2, <1>4, DistortedIsRefused DEF ResultInv
  <2> QED BY <1>1, <1>4, <2>1 DEF a, l
<1> QED BY <1>1, <1>3, <1>4

\* A result is refused only if it was not worked out from the lesson as shown, and taken
\* only if it was (NewResult against the stored lesson).
THEOREM ResultsAreJudged == Spec => []ResultsAreJudgedByTheLesson
<1>1. ShownInv /\ ResultInv => ResultsAreJudgedByTheLesson
  <2> SUFFICES ASSUME ShownInv, ResultInv, NEW d \in Deliveries
               PROVE  /\ pc[d] = "refused" => sent[AttemptOf[d]] = "distorted"
                      /\ pc[d] \in {"save", "record", "created"} => sent[AttemptOf[d]] = "honest"
    BY DEF ResultsAreJudgedByTheLesson
  <2>1. pc[d] # "idle" => sent[AttemptOf[d]] \in {"honest", "distorted"}
    BY StudyAssumption DEF ResultInv
  <2> QED BY AcceptedIsHonest, <2>1 DEF ResultInv
<1> QED BY <1>1, ShownInductive, ResultInductive, PTL DEF Spec

-----------------------------------------------------------------------------
(***************************************************************************)
(* The listing: rows in the order of their keys, page by page              *)
(***************************************************************************)
\* The keys of the rows of S are of numbers, and no two rows have the same.
Keyed(S) ==
  /\ \A row \in S : Rank[row.lessonId] \in Int /\ row.completedAt \in Int
                    /\ Rank[row.attemptId] \in Int
  /\ \A row, other \in S : Key(row) = Key(other) => row = other

Ahead(S) == [row \in S |-> {other \in S : Before(Key(other), Key(row))}]

LEMMA BeforeTransitive ==
  ASSUME NEW S, Keyed(S), NEW x \in S, NEW y \in S, NEW z \in S,
         Before(Key(x), Key(y)), Before(Key(y), Key(z))
  PROVE  Before(Key(x), Key(z)) /\ x # y
BY DEF Keyed, Key, Before

LEMMA KeysOrder ==
  ASSUME NEW S, Keyed(S)
  PROVE  IsOrder(S, Ahead(S))
<1>1. \A x \in S : Ahead(S)[x] \subseteq S \ {x}
  BY DEF Ahead, Keyed, Key, Before
<1>2. \A x, y \in S : x # y => Before(Key(x), Key(y)) \/ Before(Key(y), Key(x))
  BY DEF Keyed, Key, Before
<1>3. \A x, y \in S : y \in Ahead(S)[x] => Ahead(S)[y] \subseteq Ahead(S)[x]
  BY BeforeTransitive DEF Ahead
<1> QED BY <1>1, <1>2, <1>3 DEF IsOrder, Ahead

\* A page has the first rows that are left, each behind those before it; and the rest is
\* behind the page.
LEMMA PageInOrder ==
  ASSUME NEW S, IsFiniteSet(S), Keyed(S), NEW page, page = FirstOf(InOrder(S), PageSize)
  PROVE  /\ page \in Seq(S) /\ Len(page) \in Nat
         /\ \A i, j \in 1 .. Len(page) : i < j => Before(Key(page[i]), Key(page[j]))
         /\ \A row \in S : \/ row \in Range(page)
                           \/ page # <<>> /\ Before(Key(page[Len(page)]), Key(row))
         /\ Len(InOrder(S)) <= PageSize => S \subseteq Range(page)
<1> DEFINE left == InOrder(S)
           N    == Cardinality(S)
<1>1. left = Listed(S, Ahead(S))
  BY DEF InOrder, Ahead
<1>2. /\ left \in Seq(S) /\ Len(left) = N /\ N \in Nat
      /\ \A n \in 1 .. N : left[n] \in S
      /\ \A x \in S : \E n \in 1 .. N : left[n] = x
      /\ \A m, n \in 1 .. N : m < n => left[m] \in Ahead(S)[left[n]]
  <2> DEFINE ahead == Ahead(S)
  <2>1. IsOrder(S, ahead)
    BY KeysOrder
  <2> HIDE DEF left, ahead
  <2>2. left = Listed(S, ahead)
    BY <1>1 DEF ahead
  <2> QED BY <2>1, <2>2, ListedInOrder DEF ahead
<1> HIDE DEF left, N
<1>3. ASSUME NEW m \in 1 .. N, NEW n \in 1 .. N, m < n
      PROVE  Before(Key(left[m]), Key(left[n]))
  <2>1. left[m] \in Ahead(S)[left[n]] /\ left[n] \in S
    BY <1>2, <1>3
  <2> QED BY <2>1 DEF Ahead
<1>4. PageSize \in Nat \ {0}
  BY StudyAssumption
<1>5. /\ page \in Seq(S) /\ Len(page) = IF Len(left) < PageSize THEN Len(left) ELSE PageSize
      /\ \A i \in 1 .. Len(page) : i <= Len(left) /\ page[i] = left[i]
  BY <1>2, <1>4, FirstOfSeq DEF left
<1>6. Len(page) \in Nat /\ Len(page) <= N
      /\ (Len(page) = N \/ (Len(page) = PageSize /\ PageSize < N))
  BY <1>2, <1>4, <1>5
<1>7. Range(page) = {page[i] : i \in 1 .. Len(page)}
  BY <1>5, RangeEquality
<1>8. ASSUME NEW i \in 1 .. Len(page), NEW j \in 1 .. Len(page), i < j
      PROVE  Before(Key(page[i]), Key(page[j]))
  <2>1. page[i] = left[i] /\ page[j] = left[j] /\ i \in 1 .. N /\ j \in 1 .. N
    BY <1>2, <1>5, <1>6
  <2> QED BY <1>3, <1>8, <2>1
<1>9. ASSUME NEW row \in S, row \notin Range(page)
      PROVE  Len(page) = PageSize /\ PageSize < N /\ Before(Key(page[Len(page)]), Key(row))
  <2> DEFINE k == Len(page)
  <2>1. PICK n \in 1 .. N : left[n] = row
    BY <1>2
  <2>2. ~(n <= k)
    BY <1>5, <1>7, <1>9, <2>1
  <2>3. k \in Nat /\ N \in Nat /\ k < n /\ n <= N /\ (k = N \/ (k = PageSize /\ PageSize < N))
    BY <1>2, <1>6, <2>2
  <2>4. page[k] = left[k] \/ k = 0
    BY <1>5, <2>3
  <2> HIDE DEF k
  <2>5. k = PageSize /\ PageSize < N /\ k \in 1 .. N
    BY <1>4, <2>3
  <2>6. Before(Key(left[k]), Key(row))
    BY <1>3, <2>1, <2>3, <2>5
  <2> QED BY <1>4, <2>4, <2>5, <2>6 DEF k
<1>10. ASSUME NEW row \in S, row \notin Range(page)
       PROVE  page # <<>>
  <2>1. Len(page) # 0
    BY <1>4, <1>9, <1>10
  <2> QED BY <2>1
<1>11. ASSUME Len(left) <= PageSize
       PROVE  S \subseteq Range(page)
  <2>1. N <= PageSize /\ N \in Nat
    BY <1>2, <1>11
  <2> QED BY <1>4, <1>9, <2>1
<1> QED BY <1>5, <1>6, <1>8, <1>9, <1>10, <1>11 DEF left

\* Some completion is the first of those than which none is later.
LEMMA SomeIsLatest ==
  ASSUME NEW T, \A row \in T : row.completedAt \in Int, NEW s \in Seq(T), s # <<>>
  PROVE  \E i \in 1 .. Len(s) : \A j \in 1 .. Len(s) :
            \/ s[j].completedAt < s[i].completedAt
            \/ s[j].completedAt = s[i].completedAt /\ i <= j
<1> DEFINE D == 1 .. Len(s)
           at == [i \in D |-> s[i].completedAt]
           later == [i \in D |-> {j \in D : at[i] < at[j] \/ (at[i] = at[j] /\ j < i)}]
<1>1. Len(s) \in Nat \ {0} /\ IsFiniteSet(D) /\ Cardinality(D) = Len(s)
  <2>1. Len(s) \in Nat /\ Len(s) # 0
    OBVIOUS
  <2> QED BY <2>1, FS_Interval
<1>2. at \in [D -> Int] /\ D \in SUBSET Int
  OBVIOUS
<1> HIDE DEF at, D
<1>3. IsOrder(D, later)
  <2>1. \A i \in D : later[i] \subseteq D \ {i}
    BY <1>2
  <2>2. \A i, j \in D : i # j => i \in later[j] \/ j \in later[i]
    BY <1>2
  <2>3. ASSUME NEW i \in D, NEW j \in D, j \in later[i], NEW k \in later[j]
        PROVE  k \in later[i]
    <3>1. /\ k \in D /\ at[i] \in Int /\ at[j] \in Int /\ at[k] \in Int
          /\ i \in Int /\ j \in Int /\ k \in Int
          /\ at[i] < at[j] \/ (at[i] = at[j] /\ j < i)
          /\ at[j] < at[k] \/ (at[j] = at[k] /\ k < j)
      BY <1>2, <2>3
    <3>2. at[i] < at[k] \/ (at[i] = at[k] /\ k < i)
      BY <3>1
    <3> QED BY <3>1, <3>2
  <2> QED BY <2>1, <2>2, <2>3 DEF IsOrder
<1>4. /\ \A i \in D : later[i] \in SUBSET D
      /\ \A i, j \in D : at[i] < at[j] \/ (at[i] = at[j] /\ j < i) => j \in later[i]
  OBVIOUS
<1> HIDE DEF later
<1>5. PICK i \in D : later[i] = {}
  <2>1. 1 \in 1 .. Cardinality(D)
    BY <1>1
  <2>2. PICK i \in D : Cardinality(later[i]) = 1 - 1
    BY <1>1, <1>3, <2>1, OneForEach
  <2>3. Cardinality(later[i]) = 0 /\ IsFiniteSet(later[i])
    BY <1>1, <1>4, <2>2, FS_Subset
  <2> QED BY <2>3, FS_EmptySet
<1>6. ASSUME NEW j \in D
      PROVE  at[j] < at[i] \/ (at[j] = at[i] /\ i <= j)
  <2>1. j \notin later[i]
    BY <1>5
  <2>2. ~(at[i] < at[j]) /\ ~(at[i] = at[j] /\ j < i)
    BY <1>4, <2>1
  <2>3. at[i] \in Int /\ at[j] \in Int /\ i \in Int /\ j \in Int
    BY <1>2
  <2> QED BY <2>2, <2>3
<1> QED BY <1>6 DEF at, D

\* Of a list without repetitions, each of the lesson's rows is counted once, and the one
\* shown is one of them and the latest.
LEMMA SummaryOfList ==
  ASSUME NEW T, \A row \in T : row.completedAt \in Int, NEW s \in Seq(T), IsInjective(s),
         NEW id, NEW ours, ours = {row \in Range(s) : row.lessonId = id},
         NEW shows, shows = Summarize(s, id)
  PROVE  /\ shows.count = Cardinality(ours)
         /\ \A row \in ours : row.completedAt <= shows.last.completedAt
         /\ ours # {} => shows.last \in ours
<1> DEFINE theirs == Among(s, ours)
           P      == Places(s, ours)
           Latest(i) == \A j \in DOMAIN theirs :
                          \/ theirs[j].completedAt < theirs[i].completedAt
                          \/ theirs[j].completedAt = theirs[i].completedAt /\ i <= j
<1>1. /\ shows.count = Len(theirs)
      /\ theirs # <<>> => shows.last = theirs[CHOOSE i \in DOMAIN theirs : Latest(i)]
  BY DEF Summarize
<1>2. /\ theirs \in Seq(T) /\ Len(theirs) = Cardinality(P) /\ IsFiniteSet(P)
      /\ Range(theirs) = Range(s) \intersect ours
  BY AmongInOrder, AmongRange
<1>3. Range(theirs) = ours
  BY <1>2
<1>4. Cardinality(P) = Cardinality(ours)
  <2> DEFINE f == [i \in P |-> s[i]]
  <2>1. /\ Range(s) = {s[i] : i \in 1 .. Len(s)} /\ DOMAIN s = 1 .. Len(s)
        /\ P = {i \in 1 .. Len(s) : s[i] \in ours}
    BY RangeEquality DEF Places
  <2> HIDE DEF P
  <2>2. f \in [P -> ours] /\ \A i, j \in P : f[i] = f[j] => i = j
    BY <2>1 DEF IsInjective
  <2>3. \A row \in ours : \E i \in P : f[i] = row
    BY <2>1
  <2>4. f \in Bijection(P, ours)
    BY <2>2, <2>3 DEF Bijection, Injection, Surjection, IsInjective
  <2>5. ExistsBijection(P, ours)
    BY <2>4 DEF ExistsBijection
  <2> QED BY <1>2, <2>5, FS_Bijection
<1> HIDE DEF theirs, P
<1>5. DOMAIN theirs = 1 .. Len(theirs) /\ Range(theirs) = {theirs[i] : i \in 1 .. Len(theirs)}
  BY <1>2, RangeEquality
<1>6. ASSUME NEW row \in ours
      PROVE  shows.last \in ours /\ row.completedAt <= shows.last.completedAt
  <2>1. PICK n \in 1 .. Len(theirs) : theirs[n] = row
    BY <1>3, <1>5
  <2>2. theirs # <<>>
    BY <1>2, <2>1
  <2>3. \E i \in DOMAIN theirs : Latest(i)
    BY <1>2, <1>5, <2>2, SomeIsLatest
  <2> DEFINE i == CHOOSE i \in DOMAIN theirs : Latest(i)
  <2>4. i \in 1 .. Len(theirs) /\ Latest(i) /\ shows.last = theirs[i]
    BY <1>1, <1>5, <2>2, <2>3
  <2> HIDE DEF i
  <2>5. theirs[i] \in ours /\ theirs[i] \in T /\ theirs[n] \in T
    BY <1>2, <1>3, <1>5, <2>4
  <2>6. theirs[n].completedAt <= theirs[i].completedAt
    BY <1>5, <2>1, <2>4, <2>5
  <2> QED BY <2>1, <2>4, <2>5, <2>6
<1> QED BY <1>1, <1>2, <1>4, <1>6

-----------------------------------------------------------------------------
\* Every exercise is graded, and what an attempt is worth is what the lesson is listed
\* with.
LEMMA MarksOfAttempt ==
  ASSUME NEW l, IsLesson(l), HasLists(l), Valid(l), DecodeLesson(AsDocument(shown)) = l,
         NEW missed \in 0..1
  PROVE  Sums(Attempt(missed)).maxScore = Total(l)
<1> DEFINE o == Attempt(missed)
<1>1. /\ DOMAIN o = DOMAIN l.exercises
      /\ \A i \in DOMAIN o : o[i] = Outcome(l.exercises[i], o[i].correct)
  BY OutcomesOfAttempt
<1> HIDE DEF o
<1>2. ASSUME NEW i \in DOMAIN o
      PROVE  o[i].grading \in {"auto", "self"} /\ o[i].maxScore = l.exercises[i].points
  <2> DEFINE e == l.exercises[i]
  <2>1. o[i] = Outcome(e, o[i].correct) /\ e.type \in ExerciseTypes
    BY <1>1 DEF Valid, All, ValidExercise
  <2> HIDE DEF e
  <2>2. Scale(e).grading \in {"auto", "self"}
    BY <2>1 DEF Scale, ExerciseTypes
  <2> QED BY <2>1, <2>2 DEF Outcome, e
<1>3. Sums(o).maxScore
        = Added([i \in DOMAIN o |-> IF o[i].grading \in {"auto", "self"}
                                    THEN o[i].maxScore ELSE 0])
  BY DEF Sums, Marks, Each
<1>4. [i \in DOMAIN o |-> IF o[i].grading \in {"auto", "self"} THEN o[i].maxScore ELSE 0]
        = [i \in DOMAIN l.exercises |-> l.exercises[i].points]
  BY <1>1, <1>2
<1>5. Total(l) = Added([i \in DOMAIN l.exercises |-> l.exercises[i].points])
  BY DEF Total, Each
<1> QED BY <1>3, <1>4, <1>5 DEF o

-----------------------------------------------------------------------------
\* A row was there before or is of an attempt worked out from the document shown, and
\* no two have one key.
RowsInv ==
  /\ IsFiniteSet(rows) /\ settled \subseteq rows
  /\ \A row \in rows : \/ row \in Earlier
                       \/ \E a \in Attempts : sent[a] = "honest" /\ row = Row(result[a])
  /\ \A row, other \in rows : Key(row) = Key(other) => row = other

\* The rows seen are in the order of their keys; what was settled when the listing began is
\* among them or still beyond them; and the summary is of the item.
ListInv ==
  /\ list = [f \in {"at", "summary", "seen", "began"} |-> list[f]]
  /\ list.began \subseteq settled
  /\ list.seen \in Seq(rows)
  /\ \A i, j \in 1 .. Len(list.seen) :
       i < j => Before(Key(list.seen[i]), Key(list.seen[j]))
  /\ \A row \in list.began : row \in Range(list.seen) \/ row \in Beyond(rows)
  /\ list.at = "idle" => list.seen = <<>>
  /\ list.at = "done" => list.began \subseteq Range(list.seen)
  /\ list.summary # NoDoc => shown # NoDoc /\ list.summary = Summary(ToDomain(item))

LEMMA RowsInductive ==
  /\ Init => RowsInv
  /\ ShownInv /\ ResultInv /\ RowsInv /\ [Next]_vars => RowsInv'
<1>1. ASSUME Init
      PROVE  RowsInv
  BY <1>1, RowAssumption DEF Init, RowsInv
<1>2. ASSUME ShownInv, ResultInv, RowsInv, [Next]_vars
      PROVE  RowsInv'
  <2>1. CASE UNCHANGED <<result, sent, rows>> /\ settled' \subseteq rows
    BY <1>2, <2>1 DEF RowsInv
  <2>2. CASE Import \/ Show \/ Delete \/ ListBegin \/ ListPage
             \/ (\E row \in rows : Settle(row)) \/ UNCHANGED vars
    <3>1. UNCHANGED <<result, sent, rows>> /\ settled' \subseteq rows
      BY <1>2, <2>2 DEF Import, Show, Delete, ListBegin, ListPage, Settle, vars, client,
         table, RowsInv
    <3> QED BY <2>1, <3>1
  <2>3. ASSUME NEW a \in Attempts, Finish(a) \/ Distort(a)
        PROVE  RowsInv'
    <3>1. /\ UNCHANGED <<rows, settled>> /\ sent[a] = "nothing"
          /\ \E r : result' = [result EXCEPT ![a] = r]
          /\ \E s : sent' = [sent EXCEPT ![a] = s]
      BY <2>3 DEF Finish, Distort, table
    <3>2. \A b \in Attempts : sent[b] = "honest" => sent'[b] = "honest" /\ result'[b] = result[b]
      BY <1>2, <3>1 DEF ResultInv
    <3> QED BY <1>2, <3>1, <3>2 DEF RowsInv, Row
  <2>4. ASSUME NEW d \in Deliveries, Deliver(d)
        PROVE  RowsInv'
    <3> DEFINE new == Row(Result(d))
    <3>1. /\ UNCHANGED <<result, sent, settled>>
          /\ \/ rows' = rows
             \/ /\ pc[d] = "save" /\ ~Stored(Result(d))
                /\ rows' = rows \union {new}
      BY <2>4 DEF Deliver, Check, Save, RecordProgress, SaveUnheard, RecordProgressUnheard,
         Stop, Put, client, table
    <3>2. CASE rows' = rows
      BY <1>2, <2>1, <3>1, <3>2 DEF RowsInv
    <3>3. CASE pc[d] = "save" /\ ~Stored(Result(d)) /\ rows' = rows \union {new}
      <4>1. /\ AttemptOf[d] \in Attempts /\ new = Row(result[AttemptOf[d]])
            /\ sent[AttemptOf[d]] = "honest"
        BY <1>2, <3>3, AcceptedIsHonest, StudyAssumption DEF ResultInv, Result
      <4>2. \A row \in rows : Key(row) # Key(new)
        BY <3>3 DEF Stored
      <4>3. IsFiniteSet(rows')
        BY <1>2, <3>3, FS_AddElement DEF RowsInv
      <4> HIDE DEF new
      <4>4. \A row \in rows' : \/ row \in Earlier
                               \/ \E a \in Attempts : sent[a] = "honest" /\ row = Row(result[a])
        BY <1>2, <3>3, <4>1 DEF RowsInv
      <4>5. \A row, other \in rows' : Key(row) = Key(other) => row = other
        BY <1>2, <3>3, <4>2 DEF RowsInv
      <4>6. settled' \subseteq rows'
        BY <1>2, <3>1, <3>3 DEF RowsInv
      <4>7. /\ \A r : Row(r)' = Row(r)
            /\ result' = result /\ sent' = sent
        BY <3>1 DEF Row
      <4> QED BY <4>3, <4>4, <4>5, <4>6, <4>7 DEF RowsInv, Key
    <3> QED BY <3>1, <3>2, <3>3
  <2> QED BY <1>2, <2>2, <2>3, <2>4 DEF Next
<1> QED BY <1>1, <1>2

\* What a row that was not there before says of the lesson.
LEMMA OurRows ==
  ASSUME ShownInv, ResultInv, RowsInv, NEW row \in rows, row \notin Earlier
  PROVE  /\ shown # NoDoc /\ shown.lessonId \in Uuids /\ row.lessonId = shown.lessonId
         /\ row.completedAt \in Int /\ row.attemptId \in Uuids
         /\ row.maxScore = Total(ToDomain(item))
<1> DEFINE l == ToDomain(item)
<1>1. PICK a \in Attempts : sent[a] = "honest" /\ row = Row(result[a])
  BY DEF RowsInv
<1>2. PICK missed \in 0..1 : result[a] = ResultOf(a, Attempt(missed))
  BY <1>1 DEF ResultInv
<1>3. shown # NoDoc /\ reply = "created"
  BY <1>1 DEF ResultInv, ShownInv
<1>4. /\ IsLesson(l) /\ HasLists(l) /\ Valid(l) /\ DecodeLesson(AsDocument(shown)) = l
      /\ shown.lessonId = l.lessonId
  BY <1>3, CreatedLesson
<1> HIDE DEF l
<1>5. Sums(Attempt(missed)).maxScore = Total(l)
  BY <1>4, MarksOfAttempt
<1>6. /\ row.lessonId = shown.lessonId /\ row.completedAt = CompletedAt[a]
      /\ row.attemptId = a /\ row.maxScore = Sums(Attempt(missed)).maxScore
  BY <1>1, <1>2 DEF Row, ResultOf
<1>7. a \in Uuids /\ CompletedAt[a] \in Int
  BY StudyAssumption
<1>8. l.lessonId \in Uuids
  BY <1>4 DEF Valid, ValidEnvelope
<1> QED BY <1>3, <1>4, <1>5, <1>6, <1>7, <1>8 DEF l

LEMMA RowsAreKeyed ==
  ASSUME ShownInv, ResultInv, RowsInv
  PROVE  Keyed(rows)
<1>1. ASSUME NEW row \in rows
      PROVE  Rank[row.lessonId] \in Int /\ row.completedAt \in Int /\ Rank[row.attemptId] \in Int
  BY OurRows, RowAssumption
<1> QED BY <1>1 DEF RowsInv, Keyed

\* The next page: all it has is behind what was seen, and what was settled is not passed.
LEMMA PageKeeps ==
  ASSUME ShownInv, ResultInv, RowsInv, ListInv, ListPage
  PROVE  ListInv'
<1>1. /\ list.at = "paging"
      /\ UNCHANGED <<item, shown, rows, settled>>
  BY DEF ListPage, lesson, client, table
<1>2. PICK unsettled \in SUBSET (rows \ settled) :
         LET left == InOrder(Beyond(settled \union unsettled))
         IN list' = [list EXCEPT
              !.seen = @ \o FirstOf(left, PageSize),
              !.at = IF Len(left) <= PageSize THEN "done" ELSE "paging"]
  BY DEF ListPage
<1> DEFINE S    == Beyond(settled \union unsettled)
           page == FirstOf(InOrder(S), PageSize)
           seen == list.seen
           N    == Len(seen)
           K    == Len(page)
<1>3. /\ list' = [f \in {"at", "summary", "seen", "began"} |-> list'[f]]
      /\ list'.seen = seen \o page /\ list'.began = list.began /\ list'.summary = list.summary
      /\ list'.at = IF Len(InOrder(S)) <= PageSize THEN "done" ELSE "paging"
  BY <1>2 DEF ListInv
<1>4. S \in SUBSET rows /\ IsFiniteSet(S) /\ Keyed(rows) /\ Keyed(S)
  <2>1. S \in SUBSET rows
    BY DEF RowsInv, Beyond
  <2>2. Keyed(rows) /\ IsFiniteSet(rows)
    BY RowsAreKeyed DEF RowsInv
  <2> HIDE DEF S
  <2>3. IsFiniteSet(S)
    BY <2>1, <2>2, FS_Subset
  <2>4. Keyed(S)
    BY <2>1, <2>2 DEF Keyed
  <2> QED BY <2>1, <2>2, <2>3, <2>4
<1>5. \A row \in S : seen = <<>> \/ Before(Key(seen[N]), Key(row))
  BY DEF Beyond, Last
<1>6. \A row \in list.began : row \in Range(seen) \/ row \in S
  BY DEF ListInv, RowsInv, Beyond
<1> HIDE DEF S
<1>7. /\ page \in Seq(S) /\ K \in Nat
      /\ \A i, j \in 1 .. K : i < j => Before(Key(page[i]), Key(page[j]))
      /\ \A row \in S : \/ row \in Range(page)
                        \/ page # <<>> /\ Before(Key(page[K]), Key(row))
      /\ Len(InOrder(S)) <= PageSize => S \subseteq Range(page)
  BY <1>4, PageInOrder
<1>8. /\ seen \in Seq(rows) /\ N \in Nat
      /\ \A i \in 1 .. N : seen[i] \in rows
      /\ \A i, j \in 1 .. N : i < j => Before(Key(seen[i]), Key(seen[j]))
  BY DEF ListInv
<1>9. page \in Seq(rows) /\ (\A i \in 1 .. K : page[i] \in S) /\ (page # <<>> => K # 0)
  BY <1>4, <1>7
<1> HIDE DEF page, seen
<1>10. /\ seen \o page \in Seq(rows) /\ Len(seen \o page) = N + K
       /\ \A i \in 1 .. N + K : (seen \o page)[i] = IF i <= N THEN seen[i] ELSE page[i - N]
       /\ Range(seen \o page) = Range(seen) \union Range(page)
  BY <1>8, <1>9, ConcatProperties, RangeConcatenation
<1>11. ASSUME NEW i \in 1 .. N, NEW row \in S
       PROVE  Before(Key(seen[i]), Key(row))
  <2>1. seen # <<>> /\ N \in 1 .. N
    BY <1>8, <1>11
  <2>2. Before(Key(seen[N]), Key(row))
    BY <1>5, <2>1
  <2>3. CASE i = N
    BY <2>2, <2>3
  <2>4. CASE i < N
    <3>1. Before(Key(seen[i]), Key(seen[N]))
      BY <1>8, <2>1, <2>4
    <3> QED BY <1>4, <1>8, <2>1, <2>2, <3>1, BeforeTransitive
  <2> QED BY <1>8, <1>11, <2>3, <2>4
<1> HIDE DEF N, K
<1>12. ASSUME NEW i \in 1 .. N + K, NEW j \in 1 .. N + K, i < j
       PROVE  Before(Key((seen \o page)[i]), Key((seen \o page)[j]))
  <2>1. N \in Nat /\ K \in Nat
    BY <1>7, <1>8
  <2>2. CASE j <= N
    <3>1. i \in 1 .. N /\ j \in 1 .. N /\ i <= N
      BY <1>12, <2>1, <2>2
    <3> QED BY <1>8, <1>10, <1>12, <2>2, <3>1
  <2>3. CASE i <= N /\ ~(j <= N)
    <3>1. i \in 1 .. N /\ j - N \in 1 .. K
      BY <1>12, <2>1, <2>3
    <3>2. page[j - N] \in S
      BY <1>9, <3>1
    <3> QED BY <1>10, <1>11, <2>3, <3>1, <3>2
  <2>4. CASE ~(i <= N) /\ ~(j <= N)
    <3>1. i - N \in 1 .. K /\ j - N \in 1 .. K /\ i - N < j - N
      BY <1>12, <2>1, <2>4
    <3> QED BY <1>7, <1>10, <2>4, <3>1
  <2> QED BY <1>12, <2>1, <2>2, <2>3, <2>4
<1>13. ASSUME NEW row \in list.began, row \notin Range(seen \o page)
       PROVE  /\ ~(Len(InOrder(S)) <= PageSize)
              /\ row \in rows /\ Before(Key(Last(seen \o page)), Key(row))
  <2>1. row \in S /\ row \notin Range(page)
    BY <1>6, <1>10, <1>13
  <2>2. page # <<>> /\ Before(Key(page[K]), Key(row)) /\ ~(Len(InOrder(S)) <= PageSize)
    BY <1>7, <2>1
  <2>3. N + K \in 1 .. N + K /\ ~(N + K <= N) /\ (N + K) - N = K
    BY <1>7, <1>8, <1>9, <2>2
  <2>4. Last(seen \o page) = page[K]
    BY <1>10, <2>3 DEF Last
  <2> QED BY <1>4, <2>1, <2>2, <2>4
<1>14. \A row \in list'.began : row \in Range(list'.seen) \/ row \in Beyond(rows)'
  BY <1>1, <1>3, <1>4, <1>13 DEF Beyond, Key
<1>15. list'.at = "done" => list'.began \subseteq Range(list'.seen)
  BY <1>3, <1>13
<1>16. list'.at # "idle" /\ list'.began \subseteq settled'
       /\ (list'.summary # NoDoc => shown' # NoDoc /\ list'.summary = Summary(ToDomain(item))')
  BY <1>1, <1>3 DEF ListInv
<1>17. list'.seen \in Seq(rows') /\ \A i, j \in 1 .. Len(list'.seen) :
          i < j => Before(Key(list'.seen[i]), Key(list'.seen[j]))
  BY <1>1, <1>3, <1>10, <1>12
<1> QED BY <1>3, <1>14, <1>15, <1>16, <1>17 DEF ListInv, Key, Before

LEMMA ListInductive ==
  /\ Init => ListInv
  /\ ShownInv /\ ResultInv /\ RowsInv /\ ListInv /\ [Next]_vars => ListInv'
<1>0. \A S : <<>> \in Seq(S) /\ \A i \in 1 .. Len(<<>>) : FALSE
  OBVIOUS
<1>1. ASSUME Init
      PROVE  ListInv
  <2>1. list = [at |-> "idle", summary |-> NoDoc, seen |-> <<>>, began |-> {}]
    BY <1>1 DEF Init
  <2>2. list = [f \in {"at", "summary", "seen", "began"} |-> list[f]]
    BY <2>1
  <2> QED BY <1>0, <2>1, <2>2 DEF ListInv
<1>2. ASSUME ShownInv, ResultInv, RowsInv, ListInv, [Next]_vars
      PROVE  ListInv'
  <2>1. CASE /\ list' = list /\ rows \subseteq rows' /\ settled \subseteq settled'
             /\ shown # NoDoc => UNCHANGED <<shown, item>>
    <3>1. list.seen \in Seq(rows')
      BY <1>2, <2>1 DEF ListInv
    <3>2. \A row \in list.began : row \in Range(list.seen) \/ row \in Beyond(rows)'
      BY <1>2, <2>1 DEF ListInv, Beyond, Key
    <3> QED BY <1>2, <2>1, <3>1, <3>2 DEF ListInv, Key, Before
  <2>2. CASE Import \/ Show
    <3>1. UNCHANGED <<list, rows, settled>> /\ shown = NoDoc
      BY <1>2, <2>2 DEF Import, Show, table, ShownInv
    <3> QED BY <2>1, <3>1
  <2>3. CASE Delete \/ UNCHANGED vars
    BY <2>1, <2>3 DEF Delete, vars, client, table
  <2>4. ASSUME NEW a \in Attempts, Finish(a) \/ Distort(a)
        PROVE  ListInv'
    BY <2>1, <2>4 DEF Finish, Distort, lesson, table
  <2>5. ASSUME NEW d \in Deliveries, Deliver(d)
        PROVE  ListInv'
    BY <2>1, <2>5 DEF Deliver, Check, Save, RecordProgress, SaveUnheard,
       RecordProgressUnheard, Stop, Put, lesson, client, table
  <2>6. ASSUME NEW row \in rows, Settle(row)
        PROVE  ListInv'
    BY <2>1, <2>6 DEF Settle, lesson, client
  <2>7. CASE ListBegin
    <3>1. /\ list.at = "idle" /\ shown # NoDoc /\ UNCHANGED <<item, shown, rows, settled>>
          /\ \E summary \in {Summary(ToDomain(item)), NoDoc} :
               list' = [list EXCEPT !.at = "paging", !.began = settled, !.summary = summary]
      BY <2>7 DEF ListBegin, lesson, client, table
    <3>2. /\ list' = [f \in {"at", "summary", "seen", "began"} |-> list'[f]]
          /\ list'.at = "paging" /\ list'.began = settled /\ list'.seen = <<>>
          /\ list'.summary # NoDoc => list'.summary = Summary(ToDomain(item))
      BY <1>2, <3>1 DEF ListInv
    <3>3. \A row \in settled : row \in Beyond(rows)'
      BY <1>2, <3>1, <3>2 DEF Beyond, RowsInv
    <3> QED BY <1>0, <3>1, <3>2, <3>3 DEF ListInv
  <2>8. CASE ListPage
    BY <1>2, <2>8, PageKeeps
  <2> QED BY <1>2, <2>2, <2>3, <2>4, <2>5, <2>6, <2>7, <2>8 DEF Next
<1> QED BY <1>1, <1>2

\* A listing has every completion that was settled when it began, and each once, whatever
\* is stored and settled between its pages; and the latest it shows is out of the points
\* the lesson has, if it is an attempt at this lesson and not at a deleted one of its id
\* (ListCompletions, summarizeCompletions, toLessonSummary, Service.Delete).
THEOREM ListingExact == Spec => []ListingIsExact
<1>1. ASSUME ShownInv, ResultInv, RowsInv, ListInv
      PROVE  ListingIsExact
  <2> DEFINE seen  == list.seen
             ours  == {row \in Range(seen) : row.lessonId = shown.lessonId}
             shows == Summarize(seen, shown.lessonId)
  <2>1. /\ seen \in Seq(rows) /\ Range(seen) \subseteq rows
        /\ \A i, j \in 1 .. Len(seen) : i < j => Before(Key(seen[i]), Key(seen[j]))
    BY <1>1, RangeOfSeq DEF ListInv
  <2>2. \A row \in rows : row.completedAt \in Int /\ ~Before(Key(row), Key(row))
    BY <1>1, RowsAreKeyed, BeforeTransitive DEF Keyed
  <2>3. IsInjective(seen)
    <3>1. DOMAIN seen = 1 .. Len(seen) /\ Len(seen) \in Nat
          /\ \A i \in 1 .. Len(seen) : seen[i] \in rows
      BY <2>1
    <3>2. ASSUME NEW i \in 1 .. Len(seen), NEW j \in 1 .. Len(seen), i # j
          PROVE  seen[i] # seen[j]
      <4>1. i < j \/ j < i
        BY <3>2
      <4> QED BY <2>1, <2>2, <3>1, <4>1
    <3> QED BY <3>1, <3>2 DEF IsInjective
  <2>4. /\ shows.count = Cardinality(ours)
        /\ \A row \in ours : row.completedAt <= shows.last.completedAt
        /\ ours # {} => shows.last \in ours
    <3> HIDE DEF seen
    <3> QED BY <2>1, <2>2, <2>3, SummaryOfList
  <2>5. ASSUME ours # {}, list.summary # NoDoc, shows.last \notin Earlier
        PROVE  shows.last.maxScore = list.summary.totalPoints
    <3>1. list.summary = Summary(ToDomain(item)) /\ shows.last \in rows
      BY <1>1, <2>1, <2>4, <2>5 DEF ListInv
    <3> QED BY <1>1, <2>5, <3>1, OurRows DEF Summary
  <2> HIDE DEF ours, shows
  <2>6. list.at = "done" => list.began \subseteq Range(seen)
    BY <1>1 DEF ListInv
  <2> QED BY <2>1, <2>3, <2>4, <2>5, <2>6 DEF ListingIsExact, ours, shows
<1> QED BY <1>1, ShownInductive, ResultInductive, RowsInductive, ListInductive, PTL DEF Spec
=============================================================================
