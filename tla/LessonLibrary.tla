----------------------------- MODULE LessonLibrary -----------------------------
(***************************************************************************)
(* One owner's lessons, import markers and glossary, and the requests that *)
(* change them: lessons.Service.Import and .Delete over dynamolessons and  *)
(* dynamoglossary.                                                         *)
(*                                                                         *)
(* An import writes the lesson and the marker of its Idempotency-Key in    *)
(* one transaction, and then adds the lesson to the glossary row of each   *)
(* of its words, one call per word.  A delete takes the lesson out of its  *)
(* words' rows, one by one, and removes the lesson last.  Nothing ties     *)
(* these calls together, and lessons are read eventually consistently.     *)
(***************************************************************************)
EXTENDS Integers, Sequences, FiniteSets

CONSTANTS
  Imports,    \* runs of Import
  Deletes,    \* runs of Delete
  Docs,       \* lesson documents; a document is also its contentHash
  NoDoc,      \* no lesson under an id
  Ids,        \* lesson ids
  Words,      \* the reference items that lessons name
  Keys,       \* idempotency keys
  NoKey,      \* an import of no key
  NoMarker,
  IdOf,       \* IdOf[d]: the lesson id in document d
  WordsOf,    \* WordsOf[d]: the words document d references, in order
  DocOf,      \* DocOf[r]: what import r submits
  KeyOf,      \* KeyOf[r]: under which key
  LessonOf,   \* LessonOf[r]: the lesson delete r removes
  MaxFaults   \* bound: failed calls and lost answers in a behaviour

Requests == Imports \union Deletes

ASSUME LibraryAssumption ==
  /\ Imports \intersect Deletes = {}
  /\ IdOf \in [Docs -> Ids]
  /\ DOMAIN WordsOf = Docs /\ \A d \in Docs : WordsOf[d] \in Seq(Words)
  /\ DocOf \in [Imports -> Docs]
  /\ KeyOf \in [Imports -> Keys \union {NoKey}]
  /\ LessonOf \in [Deletes -> Ids]
  /\ NoDoc \notin Docs /\ NoKey \notin Keys /\ NoMarker \notin [lesson : Ids, hash : Docs]
  /\ MaxFaults \in Nat

VARIABLES
  lessons,   \* lessons[id]: the stored document, or NoDoc
  past,      \* past[id]: all that the row has been, which a read may return
  markers,   \* markers[key]: the import marker, or NoMarker
  glossary,  \* glossary[w]: the row of word w: is it there, and its lessonIds
  pc,        \* where each request is, or what it answered
  target,    \* target[r]: the document whose words r adds or removes
  todo,      \* todo[r]: the words it has yet to see to
  existing,  \* existing[r]: the lesson import r answers with if it creates none
  fresh,     \* fresh[r]: whether import r created the lesson
  faults,
  raced,     \* history: lessons with an import and a delete at once, or a stale read
  removed    \* history: lessons some delete has begun to take out of the glossary

vars == <<lessons, past, markers, glossary, pc, target, todo, existing, fresh, faults,
          raced, removed>>
stored == <<lessons, past, markers, glossary>>
memory == <<target, todo, existing, fresh>>
ghosts == <<raced, removed>>

Busy     == {"save", "marker", "load", "add", "remove", "drop", "erase"}
Answers  == {"created", "existing", "deleted", "mismatch", "notFound", "storage"}
Finished == Answers \union {"crashed"}

TypeOK ==
  /\ lessons \in [Ids -> Docs \union {NoDoc}]
  /\ past \in [Ids -> SUBSET (Docs \union {NoDoc})]
  /\ markers \in [Keys -> [lesson : Ids, hash : Docs] \union {NoMarker}]
  /\ glossary \in [Words -> [there : BOOLEAN, lessonIds : SUBSET Ids]]
  /\ pc \in [Requests -> Busy \union Finished]
  /\ target \in [Requests -> Docs \union {NoDoc}]
  /\ todo \in [Requests -> Seq(Words)]
  /\ existing \in [Imports -> Ids]
  /\ fresh \in [Imports -> BOOLEAN]
  /\ faults \in Nat
  /\ raced \subseteq Ids /\ removed \subseteq Ids

Init ==
  /\ lessons = [id \in Ids |-> NoDoc]
  /\ past = [id \in Ids |-> {NoDoc}]
  /\ markers = [key \in Keys |-> NoMarker]
  /\ glossary = [w \in Words |-> [there |-> FALSE, lessonIds |-> {}]]
  /\ pc = [r \in Requests |-> IF r \in Imports THEN "save" ELSE "load"]
  /\ target = [r \in Requests |-> NoDoc]
  /\ todo = [r \in Requests |-> <<>>]
  /\ existing = [r \in Imports |-> IdOf[DocOf[r]]]
  /\ fresh = [r \in Imports |-> FALSE]
  /\ faults = 0
  /\ raced = {} /\ removed = {}

-----------------------------------------------------------------------------
Goto(r, where) == pc' = [pc EXCEPT ![r] = where]
Fault          == faults < MaxFaults /\ faults' = faults + 1
Id(r)          == IF r \in Deletes THEN LessonOf[r] ELSE IdOf[DocOf[r]]

\* The requests that are changing the glossary on behalf of lesson id.
Adding(id)   == \E r \in Imports : pc[r] = "add" /\ IdOf[target[r]] = id
Removing(id) == \E r \in Deletes : pc[r] \in {"remove", "drop", "erase"} /\ LessonOf[r] = id

SetLesson(id, d) ==
  /\ lessons' = [lessons EXCEPT ![id] = d]
  /\ past' = [past EXCEPT ![id] = @ \union {d}]

\* Import r goes on to add d's words; there may be none.
Add(r, d, created) ==
  /\ target' = [target EXCEPT ![r] = d]
  /\ todo' = [todo EXCEPT ![r] = WordsOf[d]]
  /\ fresh' = [fresh EXCEPT ![r] = created]
  /\ Goto(r, "add")

-----------------------------------------------------------------------------
(***************************************************************************)
(* Import: the save                                                        *)
(***************************************************************************)
\* Mutant of Vacant: the marker's condition is left out.
LessonVacant(r) == lessons[Id(r)] = NoDoc

\* attribute_not_exists on the lesson and, under a key, on its marker.
Vacant(r) == /\ lessons[Id(r)] = NoDoc
             /\ KeyOf[r] # NoKey => markers[KeyOf[r]] = NoMarker

\* Mutant of Create: the marker keeps the lesson's id for a hash.
CreateHashingId(r) ==
  /\ Vacant(r)
  /\ SetLesson(Id(r), DocOf[r])
  /\ markers' = [key \in Keys |-> IF key = KeyOf[r]
                                  THEN [lesson |-> Id(r), hash |-> Id(r)]
                                  ELSE markers[key]]
  /\ UNCHANGED glossary

Create(r) ==
  /\ Vacant(r)
  /\ SetLesson(Id(r), DocOf[r])
  /\ markers' = [key \in Keys |-> IF key = KeyOf[r]
                                  THEN [lesson |-> Id(r), hash |-> DocOf[r]]
                                  ELSE markers[key]]
  /\ UNCHANGED glossary

SaveCommits(r) ==
  /\ pc[r] = "save"
  /\ Create(r)
  /\ Add(r, DocOf[r], TRUE)
  /\ raced' = IF Removing(Id(r)) THEN raced \union {Id(r)} ELSE raced
  /\ UNCHANGED <<faults, existing, removed>>

\* The answer is lost: the client gives up, or it sends the write again, and the
\* plain put of an import without a key then meets its own effect.
SaveCommitsUnheard(r) ==
  /\ pc[r] = "save"
  /\ Create(r)
  /\ Fault
  /\ fresh' = [fresh EXCEPT ![r] = TRUE]
  /\ \/ Goto(r, "storage")
     \/ KeyOf[r] = NoKey /\ Goto(r, "load")
  /\ UNCHANGED <<target, todo, existing, ghosts>>

\* DynamoDB also cancels transactions that meet on the same rows.
Collides(r) == \E s \in Imports \ {r} :
                 pc[s] = "save" /\ (Id(s) = Id(r) \/ KeyOf[s] = KeyOf[r])

\* With a key the marker is looked at next, without one the lesson.
SaveRefused(r) ==
  /\ pc[r] = "save"
  /\ \/ ~ Vacant(r)
     \/ KeyOf[r] # NoKey /\ Collides(r)
  /\ Goto(r, IF KeyOf[r] = NoKey THEN "load" ELSE "marker")
  /\ UNCHANGED <<stored, memory, faults, ghosts>>

\* The consistent read of the marker.  Without one, or without a key, the lesson to
\* answer with is the one of the import's own id.
ReadMarker(r) ==
  /\ pc[r] = "marker"
  /\ LET marker == markers[KeyOf[r]]
     IN  IF marker = NoMarker THEN Goto(r, "load") /\ UNCHANGED existing
         ELSE IF marker.hash # DocOf[r] THEN Goto(r, "mismatch") /\ UNCHANGED existing
         ELSE Goto(r, "load") /\ existing' = [existing EXCEPT ![r] = marker.lesson]
  /\ UNCHANGED <<stored, target, todo, fresh, faults, ghosts>>

LoadExisting(r) ==
  /\ pc[r] = "load" /\ r \in Imports
  /\ LET id == existing[r]
     IN  \E d \in past[id] :
           /\ IF d = NoDoc THEN Goto(r, "notFound") /\ UNCHANGED <<target, todo, fresh>>
                           ELSE Add(r, d, FALSE)
           /\ raced' = IF d # NoDoc /\ (d # lessons[id] \/ Removing(id))
                       THEN raced \union {id} ELSE raced
  /\ UNCHANGED <<stored, existing, faults, removed>>

(***************************************************************************)
(* Import: AddLessonWords, one UpdateItem per word                         *)
(***************************************************************************)
AddTo(r, w) == glossary' = [glossary EXCEPT ![w] =
                  [there |-> TRUE, lessonIds |-> @.lessonIds \union {IdOf[target[r]]}]]

AddWord(r) ==
  /\ pc[r] = "add" /\ todo[r] # <<>>
  /\ AddTo(r, Head(todo[r]))
  /\ todo' = [todo EXCEPT ![r] = Tail(@)]
  /\ UNCHANGED <<lessons, past, markers, pc, target, existing, fresh, faults, ghosts>>

AddWordUnheard(r) ==
  /\ pc[r] = "add" /\ todo[r] # <<>>
  /\ AddTo(r, Head(todo[r]))
  /\ Fault
  /\ Goto(r, "storage")
  /\ UNCHANGED <<lessons, past, markers, memory, ghosts>>

FinishImport(r) ==
  /\ pc[r] = "add" /\ todo[r] = <<>>
  /\ Goto(r, IF fresh[r] THEN "created" ELSE "existing")
  /\ UNCHANGED <<stored, memory, faults, ghosts>>

-----------------------------------------------------------------------------
(***************************************************************************)
(* Delete                                                                  *)
(***************************************************************************)
\* Mutant of LoadDoomed: the lesson goes first, its words after it.
EraseDoomedFirst(r) ==
  /\ pc[r] = "load" /\ r \in Deletes
  /\ \E d \in past[LessonOf[r]] :
       IF d = NoDoc
       THEN Goto(r, "notFound") /\ UNCHANGED <<target, todo, ghosts, lessons, past>>
       ELSE /\ target' = [target EXCEPT ![r] = d]
            /\ todo' = [todo EXCEPT ![r] = WordsOf[d]]
            /\ Goto(r, "remove")
            /\ SetLesson(LessonOf[r], NoDoc)
            /\ raced' = IF d # lessons[LessonOf[r]] \/ Adding(LessonOf[r])
                        THEN raced \union {LessonOf[r]} ELSE raced
            /\ removed' = removed \union {LessonOf[r]}
  /\ UNCHANGED <<markers, glossary, existing, fresh, faults>>

LoadDoomed(r) ==
  /\ pc[r] = "load" /\ r \in Deletes
  /\ \E d \in past[LessonOf[r]] :
       IF d = NoDoc
       THEN /\ Goto(r, "notFound")
            /\ UNCHANGED <<target, todo, ghosts>>
       ELSE /\ target' = [target EXCEPT ![r] = d]
            /\ todo' = [todo EXCEPT ![r] = WordsOf[d]]
            /\ Goto(r, "remove")
            /\ raced' = IF d # lessons[LessonOf[r]] \/ Adding(LessonOf[r])
                        THEN raced \union {LessonOf[r]} ELSE raced
            /\ removed' = removed \union {LessonOf[r]}
  /\ UNCHANGED <<stored, existing, fresh, faults>>

\* RemoveLessonWords, first call: the lesson leaves the word's set, if there is a row.
RemoveFrom(r, w) == glossary' = [glossary EXCEPT ![w].lessonIds = @ \ {LessonOf[r]}]

RemoveWord(r) ==
  /\ pc[r] = "remove" /\ todo[r] # <<>>
  /\ LET w == Head(todo[r])
     IN  IF glossary[w].there /\ glossary[w].lessonIds \subseteq {LessonOf[r]}
         THEN Goto(r, "drop") /\ UNCHANGED todo
         ELSE todo' = [todo EXCEPT ![r] = Tail(@)] /\ UNCHANGED pc
  /\ RemoveFrom(r, Head(todo[r]))
  /\ UNCHANGED <<lessons, past, markers, target, existing, fresh, faults, ghosts>>

RemoveWordUnheard(r) ==
  /\ pc[r] = "remove" /\ todo[r] # <<>>
  /\ RemoveFrom(r, Head(todo[r]))
  /\ Fault
  /\ Goto(r, "storage")
  /\ UNCHANGED <<lessons, past, markers, memory, ghosts>>

\* Mutant of DropRow: the row is deleted, whatever lessons have joined it.
DropAnyRow(w) == glossary' = [glossary EXCEPT ![w] = [there |-> FALSE, lessonIds |-> {}]]

\* Second call: the row goes if it still has no lessons.
DropRow(w) ==
  glossary' = [glossary EXCEPT ![w].there = @ /\ glossary[w].lessonIds # {}]

DropWord(r) ==
  /\ pc[r] = "drop"
  /\ DropRow(Head(todo[r]))
  /\ todo' = [todo EXCEPT ![r] = Tail(@)]
  /\ Goto(r, "remove")
  /\ UNCHANGED <<lessons, past, markers, target, existing, fresh, faults, ghosts>>

\* The glossary is done with: on to the lesson itself.
FinishWords(r) ==
  /\ pc[r] = "remove" /\ todo[r] = <<>>
  /\ Goto(r, "erase")
  /\ UNCHANGED <<stored, memory, faults, ghosts>>

Erase(r) ==
  /\ pc[r] = "erase"
  /\ IF lessons[LessonOf[r]] = NoDoc
     THEN Goto(r, "notFound") /\ UNCHANGED <<lessons, past>>
     ELSE Goto(r, "deleted") /\ SetLesson(LessonOf[r], NoDoc)
  /\ UNCHANGED <<markers, glossary, memory, faults, ghosts>>

\* Likewise; a delete sent again finds nothing to delete.
EraseUnheard(r) ==
  /\ pc[r] = "erase"
  /\ SetLesson(LessonOf[r], NoDoc)
  /\ Fault
  /\ Goto(r, "storage") \/ Goto(r, "notFound")
  /\ UNCHANGED <<markers, glossary, memory, ghosts>>

-----------------------------------------------------------------------------
\* Any call may fail without effect, and ends its request.
CallFails(r) ==
  /\ pc[r] \in Busy
  /\ Fault
  /\ Goto(r, "storage")
  /\ UNCHANGED <<stored, memory, ghosts>>

\* The Lambda is stopped between two calls.
Crash(r) ==
  /\ pc[r] \in Busy
  /\ Goto(r, "crashed")
  /\ UNCHANGED <<stored, memory, faults, ghosts>>

ImportStep(r) == \/ SaveCommits(r)
                 \/ SaveCommitsUnheard(r)
                 \/ SaveRefused(r)
                 \/ ReadMarker(r)
                 \/ LoadExisting(r)
                 \/ AddWord(r)
                 \/ AddWordUnheard(r)
                 \/ FinishImport(r)

DeleteStep(r) == \/ LoadDoomed(r)
                 \/ RemoveWord(r)
                 \/ RemoveWordUnheard(r)
                 \/ DropWord(r)
                 \/ FinishWords(r)
                 \/ Erase(r)
                 \/ EraseUnheard(r)

Next == \/ \E r \in Imports : ImportStep(r)
        \/ \E r \in Deletes : DeleteStep(r)
        \/ \E r \in Requests : CallFails(r) \/ Crash(r)

Spec == Init /\ [][Next]_vars

-----------------------------------------------------------------------------
(***************************************************************************)
(* Properties                                                              *)
(***************************************************************************)
Succeeded(r)   == pc[r] \in {"created", "existing"}
WordSet(d)     == {WordsOf[d][n] : n \in 1 .. Len(WordsOf[d])}
References(id) == {w \in Words : id \in glossary[w].lessonIds}

\* An import that was acknowledged has its lesson in the glossary, also when it only
\* found what an import that died half-way had stored, and whatever deletes of other
\* lessons do to the words they share.
AcknowledgedImportIsInGlossary ==
  \A r \in Imports : Succeeded(r) /\ IdOf[target[r]] \notin removed =>
     /\ lessons[IdOf[target[r]]] = target[r]
     /\ WordSet(target[r]) \subseteq References(IdOf[target[r]])

\* The glossary counts no lesson that is not there: crashes, failures and lost answers
\* leave at most too few references, never one that no retry would remove.  Only an
\* import meeting a delete of the same lesson, or a stale read, can leave one.
\* And a word's row outlives its last lesson only in a delete's hands: one that is about
\* to drop it, or that ended before it could.
OrphansComeFromRaces ==
  /\ \A id \in Ids \ raced :
       References(id) \subseteq IF lessons[id] = NoDoc THEN {} ELSE WordSet(lessons[id])
  /\ \A w \in Words : glossary[w].there /\ glossary[w].lessonIds = {} =>
       \E r \in Deletes : /\ pc[r] \in {"drop", "storage", "crashed"}
                          /\ todo[r] # <<>> /\ Head(todo[r]) = w

\* A key creates at most one lesson ever, through deletes, retries and lost answers; and
\* an import that succeeds answers with the lesson its document names: the marker it
\* followed is that of the same content, and one it created is its own document.
KeyNamesOneLesson ==
  /\ \A r, s \in Imports :
       r # s /\ KeyOf[r] = KeyOf[s] /\ KeyOf[r] # NoKey => ~ (fresh[r] /\ fresh[s])
  /\ \A r \in Imports : Succeeded(r) =>
       /\ IdOf[target[r]] = Id(r)
       /\ fresh[r] => target[r] = DocOf[r]

\* "reusing it with different content returns 409" (docs/lessons.md): imports of
\* different documents do not both succeed under one key.
KeyReuseIsRefused ==
  \A r, s \in Imports :
     KeyOf[r] = KeyOf[s] /\ KeyOf[r] # NoKey /\ DocOf[r] # DocOf[s] =>
        ~ (Succeeded(r) /\ Succeeded(s))
=============================================================================
