-------------------------- MODULE LessonLibrary_proofs -------------------------
(***************************************************************************)
(* Safety of the lesson library for every set of imports, deletes, lessons *)
(* and words.                                                              *)
(***************************************************************************)
EXTENDS LessonLibrary, TLAPS

-----------------------------------------------------------------------------
(***************************************************************************)
(* Types, and whose lesson a request has in hand                           *)
(***************************************************************************)
HasLesson(r) == pc[r] \in {"add", "created", "existing"}

\* What is stored belongs to the id it is stored under.
StoreInv ==
  /\ \A key \in Keys : markers[key] # NoMarker =>
       markers[key].lesson = IdOf[markers[key].hash]
  /\ \A id \in Ids : /\ lessons[id] \in past[id]
                     /\ \A d \in past[id] : d # NoDoc => IdOf[d] = id

\* An import is about the lesson its document names, and has left its mark if it created it.
ImportInv(r) ==
  /\ existing[r] = IdOf[DocOf[r]]
  /\ pc[r] = "marker" => KeyOf[r] # NoKey
  /\ HasLesson(r) => /\ target[r] \in Docs
                     /\ IdOf[target[r]] = IdOf[DocOf[r]]
                     /\ fresh[r] => target[r] = DocOf[r]
  /\ fresh[r] /\ KeyOf[r] # NoKey => markers[KeyOf[r]] # NoMarker

OneEach == \A r, s \in Imports :
  r # s /\ KeyOf[r] = KeyOf[s] /\ KeyOf[r] # NoKey => ~ (fresh[r] /\ fresh[s])

Base ==
  /\ TypeOK /\ StoreInv /\ OneEach
  /\ \A r \in Imports : ImportInv(r)
  /\ \A r \in Deletes : pc[r] = "drop" => todo[r] # <<>>

LEMMA Constants ==
  /\ \A r \in Imports : /\ r \in Requests /\ r \notin Deletes /\ DocOf[r] \in Docs
                        /\ IdOf[DocOf[r]] \in Ids /\ Id(r) = IdOf[DocOf[r]]
                        /\ KeyOf[r] # NoKey => KeyOf[r] \in Keys
  /\ \A r \in Deletes : r \in Requests /\ LessonOf[r] \in Ids
  /\ \A d \in Docs : IdOf[d] \in Ids /\ WordsOf[d] \in Seq(Words) /\ d # NoDoc
BY LibraryAssumption DEF Requests, Id

-----------------------------------------------------------------------------
(***************************************************************************)
(* What the steps of a request leave alone                                 *)
(***************************************************************************)
RequestStep(r) ==
  \/ r \in Imports /\ ImportStep(r)
  \/ r \in Deletes /\ DeleteStep(r)
  \/ CallFails(r) \/ Crash(r)

LEMMA Steps ==
  ASSUME [Next]_vars
  PROVE  UNCHANGED vars \/ \E r \in Requests : RequestStep(r)
BY Constants DEF Next, RequestStep

LEMMA OthersRest ==
  ASSUME TypeOK, NEW r \in Requests, RequestStep(r)
  PROVE  /\ \A q \in Requests \ {r} : /\ pc'[q] = pc[q] /\ target'[q] = target[q]
                                       /\ todo'[q] = todo[q]
         /\ \A q \in Imports \ {r} : existing'[q] = existing[q] /\ fresh'[q] = fresh[q]
<1>1. \A q \in Requests \ {r} : pc'[q] = pc[q]
  BY DEF TypeOK, RequestStep, ImportStep, DeleteStep, SaveCommits, SaveCommitsUnheard, SaveRefused,
     ReadMarker, LoadExisting, AddWord, AddWordUnheard, FinishImport, LoadDoomed, RemoveWord,
     RemoveWordUnheard, DropWord, FinishWords, Erase, EraseUnheard, CallFails, Crash, Add, Goto
<1>2. \A q \in Requests \ {r} : target'[q] = target[q] /\ todo'[q] = todo[q]
  BY DEF TypeOK, RequestStep, ImportStep, DeleteStep, SaveCommits, SaveCommitsUnheard, SaveRefused,
     ReadMarker, LoadExisting, AddWord, AddWordUnheard, FinishImport, LoadDoomed, RemoveWord,
     RemoveWordUnheard, DropWord, FinishWords, Erase, EraseUnheard, CallFails, Crash, Add, memory
<1>3. \A q \in Imports \ {r} : existing'[q] = existing[q] /\ fresh'[q] = fresh[q]
  BY DEF TypeOK, RequestStep, ImportStep, DeleteStep, SaveCommits, SaveCommitsUnheard, SaveRefused,
     ReadMarker, LoadExisting, AddWord, AddWordUnheard, FinishImport, LoadDoomed, RemoveWord,
     RemoveWordUnheard, DropWord, FinishWords, Erase, EraseUnheard, CallFails, Crash, Add, memory
<1> QED BY <1>1, <1>2, <1>3

-----------------------------------------------------------------------------
(***************************************************************************)
(* Every variable keeps its type                                           *)
(***************************************************************************)
LEMMA MemoryTyped ==
  ASSUME Base, NEW r \in Requests, RequestStep(r)
  PROVE  /\ pc' \in [Requests -> Busy \union Finished]
         /\ faults' \in Nat
         /\ existing' = existing
         /\ fresh' \in [Imports -> BOOLEAN]
         /\ raced' \subseteq Ids /\ removed' \subseteq Ids
<1> USE DEF RequestStep, ImportStep, DeleteStep, SaveCommits, SaveCommitsUnheard, SaveRefused,
     ReadMarker, LoadExisting, AddWord, AddWordUnheard, FinishImport, LoadDoomed, RemoveWord,
     RemoveWordUnheard, DropWord, FinishWords, Erase, EraseUnheard, CallFails, Crash
<1>1. pc' \in [Requests -> Busy \union Finished]
  <2>1. \E a \in Busy \union Finished : pc' = [pc EXCEPT ![r] = a]
    BY DEF Base, TypeOK, Add, Goto, Busy, Finished, Answers
  <2> QED BY <2>1 DEF Base, TypeOK
<1>2. faults' \in Nat
  <2>1. Fault \/ faults' = faults
    OBVIOUS
  <2> HIDE DEF RequestStep
  <2> QED BY <2>1 DEF Base, TypeOK, Fault
<1>3. existing' = existing
  <2>1. CASE r \in Imports /\ ReadMarker(r)
    <3>1. pc[r] = "marker" /\ KeyOf[r] \in Keys /\ existing \in [Imports -> Ids]
      BY <2>1, Constants DEF Base, ImportInv, TypeOK
    <3>2. CASE markers[KeyOf[r]] # NoMarker /\ markers[KeyOf[r]].hash = DocOf[r]
      <4>1. existing[r] = markers[KeyOf[r]].lesson
        BY <2>1, <3>1, <3>2 DEF Base, StoreInv, ImportInv
      <4> QED BY <2>1, <3>1, <4>1
    <3> QED BY <2>1, <3>2
  <2>2. CASE ~ (r \in Imports /\ ReadMarker(r))
    BY <2>2 DEF memory
  <2> QED BY <2>1, <2>2
<1>4. fresh' \in [Imports -> BOOLEAN]
  BY DEF Base, TypeOK, memory, Add
<1>5. raced' \subseteq Ids /\ removed' \subseteq Ids
  <2>1. /\ r \in Imports => Id(r) \in Ids /\ existing[r] \in Ids
        /\ r \in Deletes => LessonOf[r] \in Ids
    BY Constants DEF Base, TypeOK
  <2>2. \/ raced' = raced
        \/ r \in Imports /\ (raced' = raced \union {Id(r)} \/ raced' = raced \union {existing[r]})
        \/ r \in Deletes /\ raced' = raced \union {LessonOf[r]}
    BY DEF ghosts
  <2>3. \/ removed' = removed
        \/ r \in Deletes /\ removed' = removed \union {LessonOf[r]}
    BY DEF ghosts
  <2>4. raced \subseteq Ids /\ removed \subseteq Ids
    BY DEF Base, TypeOK
  <2> HIDE DEF RequestStep
  <2> QED BY <2>1, <2>2, <2>3, <2>4
<1> QED BY <1>1, <1>2, <1>3, <1>4, <1>5

\* A request takes a lesson in hand with all its words, and works through them.
LEMMA HandsTyped ==
  ASSUME Base, NEW r \in Requests, RequestStep(r)
  PROVE  /\ \/ target' = target
            \/ \E d \in Docs : target' = [target EXCEPT ![r] = d]
         /\ target' \in [Requests -> Docs \union {NoDoc}]
         /\ todo' \in [Requests -> Seq(Words)]
<1> USE DEF RequestStep, ImportStep, DeleteStep, SaveCommits, SaveCommitsUnheard, SaveRefused,
     ReadMarker, LoadExisting, AddWord, AddWordUnheard, FinishImport, LoadDoomed, RemoveWord,
     RemoveWordUnheard, DropWord, FinishWords, Erase, EraseUnheard, CallFails, Crash
<1>1. \/ UNCHANGED <<target, todo>>
      \/ \E d \in Docs : /\ target' = [target EXCEPT ![r] = d]
                         /\ todo' = [todo EXCEPT ![r] = WordsOf[d]]
      \/ target' = target /\ todo[r] # <<>> /\ todo' = [todo EXCEPT ![r] = Tail(@)]
  <2>1. \A id \in Ids : past[id] \subseteq Docs \union {NoDoc}
    BY DEF Base, TypeOK
  <2>2. r \in Imports => existing[r] \in Ids /\ DocOf[r] \in Docs
    BY Constants DEF Base, TypeOK
  <2>3. r \in Deletes => LessonOf[r] \in Ids /\ (pc[r] = "drop" => todo[r] # <<>>)
    BY Constants DEF Base
  <2>4. r \in Imports /\ r \in Deletes => FALSE
    BY Constants
  <2> QED BY <2>1, <2>2, <2>3, <2>4 DEF memory, Add
<1> HIDE DEF RequestStep
<1>2. target \in [Requests -> Docs \union {NoDoc}] /\ todo \in [Requests -> Seq(Words)]
  BY DEF Base, TypeOK
<1>3. \A d \in Docs : WordsOf[d] \in Seq(Words)
  BY Constants
<1>4. todo[r] # <<>> => Tail(todo[r]) \in Seq(Words)
  BY <1>2
<1> QED BY <1>1, <1>2, <1>3, <1>4

\* What is stored changes in four ways.
LEMMA StoredBy ==
  ASSUME Base, NEW r \in Requests, RequestStep(r)
  PROVE  /\ \/ UNCHANGED <<lessons, past, markers>>
            \/ r \in Imports /\ Create(r)
            \/ /\ r \in Deletes /\ pc[r] = "erase" /\ SetLesson(LessonOf[r], NoDoc)
               /\ markers' = markers /\ glossary' = glossary
         /\ \/ glossary' = glossary
            \/ r \in Imports /\ pc[r] = "add" /\ todo[r] # <<>> /\ AddTo(r, Head(todo[r]))
            \/ r \in Deletes /\ pc[r] = "remove" /\ todo[r] # <<>> /\ RemoveFrom(r, Head(todo[r]))
            \/ r \in Deletes /\ pc[r] = "drop" /\ todo[r] # <<>> /\ DropRow(Head(todo[r]))
<1> USE DEF RequestStep, ImportStep, DeleteStep, SaveCommits, SaveCommitsUnheard, SaveRefused,
     ReadMarker, LoadExisting, AddWord, AddWordUnheard, FinishImport, LoadDoomed, RemoveWord,
     RemoveWordUnheard, DropWord, FinishWords, Erase, EraseUnheard, CallFails, Crash
<1>1. r \in Deletes => (pc[r] = "drop" => todo[r] # <<>>)
  BY DEF Base
<1>2. \/ UNCHANGED <<lessons, past, markers>>
      \/ r \in Imports /\ Create(r)
      \/ /\ r \in Deletes /\ pc[r] = "erase" /\ SetLesson(LessonOf[r], NoDoc)
         /\ markers' = markers /\ glossary' = glossary
  BY DEF stored
<1>3. \/ glossary' = glossary
      \/ r \in Imports /\ pc[r] = "add" /\ todo[r] # <<>> /\ AddTo(r, Head(todo[r]))
      \/ r \in Deletes /\ pc[r] = "remove" /\ todo[r] # <<>> /\ RemoveFrom(r, Head(todo[r]))
      \/ r \in Deletes /\ pc[r] = "drop" /\ todo[r] # <<>> /\ DropRow(Head(todo[r]))
  BY <1>1 DEF stored, Create
<1> QED BY <1>2, <1>3

\* What an import creates.
LEMMA Created ==
  ASSUME Base, NEW r \in Imports, Create(r)
  PROVE  /\ lessons[Id(r)] = NoDoc
         /\ lessons' = [lessons EXCEPT ![Id(r)] = DocOf[r]]
         /\ past' = [past EXCEPT ![Id(r)] = @ \union {DocOf[r]}]
         /\ \A key \in Keys : key # KeyOf[r] => markers'[key] = markers[key]
         /\ KeyOf[r] # NoKey =>
              /\ markers[KeyOf[r]] = NoMarker
              /\ markers'[KeyOf[r]] = [lesson |-> IdOf[DocOf[r]], hash |-> DocOf[r]]
              /\ markers'[KeyOf[r]] # NoMarker
         /\ markers' \in [Keys -> [lesson : Ids, hash : Docs] \union {NoMarker}]
<1> DEFINE marker == [lesson |-> IdOf[DocOf[r]], hash |-> DocOf[r]]
<1>1. /\ DocOf[r] \in Docs /\ IdOf[DocOf[r]] \in Ids /\ Id(r) = IdOf[DocOf[r]]
      /\ KeyOf[r] # NoKey => KeyOf[r] \in Keys
  BY Constants
<1>2. marker \in [lesson : Ids, hash : Docs] /\ marker # NoMarker
  BY <1>1, LibraryAssumption
<1>3. /\ lessons[Id(r)] = NoDoc
      /\ lessons' = [lessons EXCEPT ![Id(r)] = DocOf[r]]
      /\ past' = [past EXCEPT ![Id(r)] = @ \union {DocOf[r]}]
      /\ markers' = [key \in Keys |-> IF key = KeyOf[r] THEN marker ELSE markers[key]]
      /\ KeyOf[r] # NoKey => markers[KeyOf[r]] = NoMarker
  BY <1>1 DEF Create, SetLesson, Vacant
<1>4. markers \in [Keys -> [lesson : Ids, hash : Docs] \union {NoMarker}]
  BY DEF Base, TypeOK
<1>5. /\ \A key \in Keys : key # KeyOf[r] => markers'[key] = markers[key]
      /\ KeyOf[r] # NoKey => markers'[KeyOf[r]] = marker
      /\ markers' \in [Keys -> [lesson : Ids, hash : Docs] \union {NoMarker}]
  <2> HIDE DEF marker
  <2> QED BY <1>1, <1>2, <1>3, <1>4
<1> QED BY <1>2, <1>3, <1>5

LEMMA StoreKept ==
  ASSUME Base, NEW r \in Requests, RequestStep(r)
  PROVE  /\ lessons' \in [Ids -> Docs \union {NoDoc}]
         /\ past' \in [Ids -> SUBSET (Docs \union {NoDoc})]
         /\ markers' \in [Keys -> [lesson : Ids, hash : Docs] \union {NoMarker}]
         /\ \A key \in Keys : markers[key] # NoMarker => markers'[key] # NoMarker
         /\ StoreInv'
<1>1. /\ lessons \in [Ids -> Docs \union {NoDoc}]
      /\ past \in [Ids -> SUBSET (Docs \union {NoDoc})]
      /\ markers \in [Keys -> [lesson : Ids, hash : Docs] \union {NoMarker}]
  BY DEF Base, TypeOK
<1>2. CASE UNCHANGED <<lessons, past, markers>>
  BY <1>1, <1>2 DEF Base, StoreInv
<1>3. CASE r \in Imports /\ Create(r)
  <2>1. DocOf[r] \in Docs /\ IdOf[DocOf[r]] \in Ids /\ Id(r) = IdOf[DocOf[r]]
    BY <1>3, Constants
  <2>2. /\ lessons' = [lessons EXCEPT ![Id(r)] = DocOf[r]]
        /\ past' = [past EXCEPT ![Id(r)] = @ \union {DocOf[r]}]
    BY <1>3, Created
  <2>3. /\ lessons' \in [Ids -> Docs \union {NoDoc}]
        /\ past' \in [Ids -> SUBSET (Docs \union {NoDoc})]
        /\ \A id \in Ids : /\ lessons'[id] \in past'[id]
                           /\ \A d \in past'[id] : d # NoDoc => IdOf[d] = id
    BY <1>1, <2>1, <2>2 DEF Base, StoreInv
  <2>4. \A key \in Keys :
          /\ markers[key] # NoMarker => markers'[key] # NoMarker
          /\ markers'[key] # NoMarker => markers'[key].lesson = IdOf[markers'[key].hash]
    <3> DEFINE marker == [lesson |-> IdOf[DocOf[r]], hash |-> DocOf[r]]
    <3>1. /\ \A key \in Keys : key # KeyOf[r] => markers'[key] = markers[key]
          /\ KeyOf[r] # NoKey => /\ markers[KeyOf[r]] = NoMarker
                                /\ markers'[KeyOf[r]] = marker
      BY <1>3, Created
    <3>2. marker.lesson = IdOf[marker.hash]
      OBVIOUS
    <3>3. \A key \in Keys : markers[key] # NoMarker =>
            markers[key].lesson = IdOf[markers[key].hash]
      BY DEF Base, StoreInv
    <3> HIDE DEF marker
    <3> QED BY <3>1, <3>2, <3>3, LibraryAssumption
  <2> QED BY <1>3, <2>3, <2>4, Created DEF StoreInv
<1>4. CASE r \in Deletes /\ SetLesson(LessonOf[r], NoDoc) /\ markers' = markers
  <2>1. LessonOf[r] \in Ids
    BY <1>4, Constants
  <2>2. /\ lessons' = [lessons EXCEPT ![LessonOf[r]] = NoDoc]
        /\ past' = [past EXCEPT ![LessonOf[r]] = @ \union {NoDoc}]
    BY <1>4 DEF SetLesson
  <2> QED BY <1>1, <1>4, <2>1, <2>2 DEF Base, StoreInv
<1> QED BY <1>2, <1>3, <1>4, StoredBy

\* An import in the act of adding has a lesson in hand.
LEMMA GlossaryTyped ==
  ASSUME Base, NEW r \in Requests, RequestStep(r)
  PROVE  glossary' \in [Words -> [there : BOOLEAN, lessonIds : SUBSET Ids]]
<1>1. glossary \in [Words -> [there : BOOLEAN, lessonIds : SUBSET Ids]] /\ todo[r] \in Seq(Words)
  BY DEF Base, TypeOK
<1>2. todo[r] # <<>> => Head(todo[r]) \in Words
  BY <1>1
<1>3. CASE r \in Imports /\ pc[r] = "add" /\ todo[r] # <<>> /\ AddTo(r, Head(todo[r]))
  <2>1. IdOf[target[r]] \in Ids
    BY <1>3, Constants DEF Base, ImportInv, HasLesson
  <2> QED BY <1>1, <1>2, <1>3, <2>1 DEF AddTo
<1>4. CASE r \in Deletes /\ todo[r] # <<>> /\ RemoveFrom(r, Head(todo[r]))
  BY <1>1, <1>2, <1>4 DEF RemoveFrom
<1>5. CASE r \in Deletes /\ todo[r] # <<>> /\ DropRow(Head(todo[r]))
  BY <1>1, <1>2, <1>5 DEF DropRow
<1> QED BY <1>1, <1>3, <1>4, <1>5, StoredBy

-----------------------------------------------------------------------------
(***************************************************************************)
(* The base invariant is inductive                                         *)
(***************************************************************************)
\* How an import comes to its lesson: it creates it, or reads what there is.
LEMMA ImportHolds ==
  ASSUME Base, NEW r \in Imports, RequestStep(r)
  PROVE  /\ pc'[r] = "marker" => KeyOf[r] # NoKey
         /\ fresh'[r] => fresh[r] \/ Create(r)
         /\ HasLesson(r)' =>
              \/ HasLesson(r) /\ target'[r] = target[r] /\ fresh'[r] = fresh[r]
              \/ Create(r) /\ target'[r] = DocOf[r] /\ fresh'[r]
              \/ ~fresh'[r] /\ \E d \in past[existing[r]] : d # NoDoc /\ target'[r] = d
<1> USE DEF RequestStep, ImportStep, DeleteStep, SaveCommits, SaveCommitsUnheard, SaveRefused,
     ReadMarker, LoadExisting, AddWord, AddWordUnheard, FinishImport, LoadDoomed, RemoveWord,
     RemoveWordUnheard, DropWord, FinishWords, Erase, EraseUnheard, CallFails, Crash
<1>1. /\ r \in Requests /\ r \notin Deletes
      /\ pc \in [Requests -> Busy \union Finished]
      /\ target \in [Requests -> Docs \union {NoDoc}]
      /\ fresh \in [Imports -> BOOLEAN]
  BY Constants DEF Base, TypeOK
<1>2. pc'[r] = "marker" => KeyOf[r] # NoKey
  BY <1>1 DEF Base, ImportInv, Add, Goto
<1>3. fresh'[r] => fresh[r] \/ Create(r)
  BY <1>1 DEF memory, Add
<1>4. HasLesson(r)' =>
        \/ HasLesson(r) /\ target'[r] = target[r] /\ fresh'[r] = fresh[r]
        \/ Create(r) /\ target'[r] = DocOf[r] /\ fresh'[r]
        \/ ~fresh'[r] /\ \E d \in past[existing[r]] : d # NoDoc /\ target'[r] = d
  BY <1>1 DEF memory, Add, HasLesson, Goto
<1> QED BY <1>2, <1>3, <1>4

LEMMA ImportKept ==
  ASSUME Base, NEW r \in Requests, RequestStep(r), NEW q \in Imports
  PROVE  ImportInv(q)'
<1>1. ImportInv(q) /\ (KeyOf[q] # NoKey => KeyOf[q] \in Keys) /\ q \in Requests
  BY Constants DEF Base
<1>2. existing' = existing /\ \A key \in Keys : markers[key] # NoMarker => markers'[key] # NoMarker
  BY MemoryTyped, StoreKept
<1>3. CASE q # r
  <2>1. /\ pc'[q] = pc[q] /\ target'[q] = target[q]
        /\ fresh'[q] = fresh[q]
    BY <1>1, <1>3, OthersRest DEF Base
  <2> QED BY <1>1, <1>2, <2>1 DEF ImportInv, HasLesson
<1>4. CASE q = r
  <2>1. existing[q] = IdOf[DocOf[q]] /\ existing'[q] = IdOf[DocOf[q]]
    BY <1>1, <1>2 DEF ImportInv
  <2>2. \A d \in past[existing[q]] : d # NoDoc => d \in Docs /\ IdOf[d] = IdOf[DocOf[q]]
    BY <2>1, Constants DEF Base, TypeOK, StoreInv
  <2>3. DocOf[q] \in Docs
    BY Constants
  <2>4. HasLesson(q)' => /\ target'[q] \in Docs
                         /\ IdOf[target'[q]] = IdOf[DocOf[q]]
                         /\ fresh'[q] => target'[q] = DocOf[q]
    BY <1>1, <1>4, <2>2, <2>3, ImportHolds DEF ImportInv
  <2>5. fresh'[q] /\ KeyOf[q] # NoKey => markers'[KeyOf[q]] # NoMarker
    <3>1. Create(q) /\ KeyOf[q] # NoKey => markers'[KeyOf[q]] # NoMarker
      BY Created
    <3> QED BY <1>1, <1>2, <1>4, <3>1, ImportHolds DEF ImportInv
  <2>6. pc'[q] = "marker" => KeyOf[q] # NoKey
    BY <1>4, ImportHolds
  <2> QED BY <2>1, <2>4, <2>5, <2>6 DEF ImportInv
<1> QED BY <1>3, <1>4

\* Only an import that finds no marker of its key creates a lesson.
LEMMA OneEachKept ==
  ASSUME Base, NEW r \in Requests, RequestStep(r)
  PROVE  OneEach'
<1>1. ASSUME NEW q \in Imports, fresh'[q], ~fresh[q], KeyOf[q] # NoKey,
             NEW s \in Imports, s # q, KeyOf[s] = KeyOf[q]
      PROVE  ~fresh'[s]
  <2>1. q = r
    BY <1>1, OthersRest DEF Base
  <2>2. Create(q)
    BY <1>1, <2>1, ImportHolds
  <2>3. markers[KeyOf[q]] = NoMarker
    BY <1>1, <2>2, Created
  <2>4. ~fresh[s]
    BY <1>1, <2>3 DEF Base, ImportInv
  <2> QED BY <1>1, <2>1, <2>4, OthersRest DEF Base
<1>2. OneEach
  BY DEF Base
<1> QED BY <1>1, <1>2 DEF OneEach

LEMMA BaseKept ==
  ASSUME Base, [Next]_vars
  PROVE  Base'
<1>1. CASE UNCHANGED vars
  BY <1>1 DEF vars, Base, TypeOK, StoreInv, OneEach, ImportInv, HasLesson
<1>2. ASSUME NEW r \in Requests, RequestStep(r)
      PROVE  Base'
  <2>1. TypeOK'
    BY <1>2, MemoryTyped, HandsTyped, StoreKept, GlossaryTyped DEF Base, TypeOK
  <2>2. \A q \in Deletes : pc'[q] = "drop" => todo'[q] # <<>>
    <3>1. ASSUME r \in Deletes, pc'[r] = "drop"
          PROVE  todo'[r] # <<>>
      <4> USE DEF RequestStep, ImportStep, DeleteStep, SaveCommits, SaveCommitsUnheard, SaveRefused,
     ReadMarker, LoadExisting, AddWord, AddWordUnheard, FinishImport, LoadDoomed, RemoveWord,
     RemoveWordUnheard, DropWord, FinishWords, Erase, EraseUnheard, CallFails, Crash
      <4>1. r \notin Imports /\ pc \in [Requests -> Busy \union Finished]
        BY <3>1, Constants DEF Base, TypeOK
      <4>2. todo[r] # <<>> => (pc'[r] = "drop" => todo'[r] # <<>>)
        BY <1>2, <3>1, <4>1 DEF Goto, memory
      <4>3. todo[r] # <<>>
        BY <1>2, <3>1, <4>1 DEF Goto, memory, Base
      <4> QED BY <3>1, <4>2, <4>3
    <3>2. \A q \in Deletes : q \in Requests /\ (pc[q] = "drop" => todo[q] # <<>>)
      BY Constants DEF Base
    <3> QED BY <1>2, <3>1, <3>2, OthersRest DEF Base
  <2> QED BY <1>2, <2>1, <2>2, StoreKept, ImportKept, OneEachKept DEF Base
<1> QED BY <1>1, <1>2, Steps

LEMMA BaseInit ==
  ASSUME Init
  PROVE  Base
<1>1. TypeOK
  BY Constants DEF Init, TypeOK, Busy, Requests
<1>2. StoreInv /\ OneEach /\ \A r \in Imports : ImportInv(r)
  BY Constants DEF Init, StoreInv, OneEach, ImportInv, HasLesson
<1>3. \A r \in Deletes : pc[r] # "drop"
  BY Constants DEF Init
<1> QED BY <1>1, <1>2, <1>3 DEF Base

\* Types: requests, however many run at once, keep every row, marker and word in its form.
THEOREM LibraryTypeCorrect == Spec => []TypeOK
<1>1. Spec => []Base
  BY BaseInit, BaseKept, PTL DEF Spec
<1>2. Base => TypeOK
  BY DEF Base
<1> QED BY <1>1, <1>2, PTL

\* An Idempotency-Key names one lesson: at most one of any number of imports under it
\* creates one (dynamolessons Create's transaction and Service.Import's reading of the
\* marker), and an import that succeeds answers with the lesson its document names.
THEOREM KeysNameOneLesson == Spec => []KeyNamesOneLesson
<1>1. Spec => []Base
  BY BaseInit, BaseKept, PTL DEF Spec
<1>2. Base => KeyNamesOneLesson
  BY Constants DEF Base, OneEach, ImportInv, HasLesson, KeyNamesOneLesson, Succeeded
<1> QED BY <1>1, <1>2, PTL

-----------------------------------------------------------------------------
(***************************************************************************)
(* A lesson that is not being deleted has its words in the glossary        *)
(***************************************************************************)
ToDo(r) == {todo[r][n] : n \in 1 .. Len(todo[r])}

\* Until a delete takes the lesson in hand, an id has at most one document; and what an
\* import has in hand is that document, whose words are referenced or still to be added.
Kept(id) == past[id] \subseteq {NoDoc, lessons[id]}

Referenced(r) == HasLesson(r) =>
  /\ lessons[Id(r)] = target[r]
  /\ \A w \in WordSet(target[r]) : \/ w \in References(Id(r))
                                   \/ pc[r] = "add" /\ w \in ToDo(r)

Deleting(r) == pc[r] \in {"remove", "drop", "erase"}

GlossaryInv ==
  /\ \A r \in Deletes : Deleting(r) => LessonOf[r] \in removed
  /\ \A id \in Ids \ removed : Kept(id)
  /\ \A r \in Imports : Id(r) \notin removed => Referenced(r)

LEMMA Split ==
  ASSUME NEW s \in Seq(Words), s # <<>>
  PROVE  {s[n] : n \in 1 .. Len(s)} =
           {Head(s)} \union {Tail(s)[n] : n \in 1 .. Len(Tail(s))}
<1>1. /\ Len(s) \in Nat /\ Len(s) > 0 /\ Len(Tail(s)) = Len(s) - 1 /\ Head(s) = s[1]
      /\ \A n \in 1 .. Len(s) - 1 : Tail(s)[n] = s[n + 1]
  OBVIOUS
<1>2. ASSUME NEW n \in 1 .. Len(s)
      PROVE  s[n] \in {Head(s)} \union {Tail(s)[m] : m \in 1 .. Len(Tail(s))}
  <2>1. CASE n = 1
    BY <1>1, <2>1
  <2>2. CASE n # 1
    <3>1. n - 1 \in 1 .. Len(Tail(s)) /\ Tail(s)[n - 1] = s[n]
      BY <1>1, <2>2
    <3> QED BY <3>1
  <2> QED BY <2>1, <2>2
<1>3. ASSUME NEW n \in 1 .. Len(Tail(s))
      PROVE  Tail(s)[n] \in {s[m] : m \in 1 .. Len(s)}
  <2>1. n + 1 \in 1 .. Len(s) /\ Tail(s)[n] = s[n + 1]
    BY <1>1
  <2> QED BY <2>1
<1>4. Head(s) \in {s[m] : m \in 1 .. Len(s)}
  BY <1>1
<1> QED BY <1>2, <1>3, <1>4

\* A delete that takes words out has been counted among the removed.
LEMMA DeletingKept ==
  ASSUME Base, GlossaryInv, NEW r \in Requests, RequestStep(r)
  PROVE  /\ removed \subseteq removed'
         /\ \A q \in Deletes : Deleting(q)' => LessonOf[q] \in removed'
<1> USE DEF RequestStep, ImportStep, DeleteStep, SaveCommits, SaveCommitsUnheard, SaveRefused,
     ReadMarker, LoadExisting, AddWord, AddWordUnheard, FinishImport, LoadDoomed, RemoveWord,
     RemoveWordUnheard, DropWord, FinishWords, Erase, EraseUnheard, CallFails, Crash
<1>1. removed \subseteq removed'
  BY DEF ghosts
<1>2. ASSUME r \in Deletes, Deleting(r)'
      PROVE  LessonOf[r] \in removed'
  <2>1. r \notin Imports /\ pc \in [Requests -> Busy \union Finished]
    BY <1>2, Constants DEF Base, TypeOK
  <2>2. Deleting(r) \/ (LoadDoomed(r) /\ pc'[r] = "remove")
    BY <1>2, <2>1 DEF Deleting, Goto
  <2>3. LoadDoomed(r) /\ pc'[r] = "remove" => LessonOf[r] \in removed'
    BY <2>1 DEF Goto
  <2> QED BY <1>1, <1>2, <2>2, <2>3 DEF GlossaryInv
<1>3. ASSUME NEW q \in Deletes, q # r, Deleting(q)'
      PROVE  LessonOf[q] \in removed'
  <2> HIDE DEF RequestStep
  <2> QED BY <1>1, <1>3, OthersRest, Constants DEF Base, GlossaryInv, Deleting
<1> QED BY <1>1, <1>2, <1>3

\* What becomes of a lesson no delete has in hand: nothing, or its import creates it.
LEMMA LessonKept ==
  ASSUME Base, GlossaryInv, NEW r \in Requests, RequestStep(r), NEW id \in Ids \ removed'
  PROVE  /\ \/ lessons'[id] = lessons[id]
            \/ r \in Imports /\ Create(r) /\ id = Id(r)
         /\ Kept(id)'
         /\ References(id) \subseteq References(id)'
<1>1. id \notin removed
  BY DeletingKept
<1>2. /\ lessons \in [Ids -> Docs \union {NoDoc}]
      /\ past \in [Ids -> SUBSET (Docs \union {NoDoc})]
      /\ glossary \in [Words -> [there : BOOLEAN, lessonIds : SUBSET Ids]]
      /\ todo[r] \in Seq(Words)
  BY DEF Base, TypeOK
<1>3. Kept(id)
  BY <1>1 DEF GlossaryInv
<1>4. \/ lessons'[id] = lessons[id] /\ past'[id] = past[id]
      \/ r \in Imports /\ Create(r) /\ id = Id(r)
  <2>1. CASE UNCHANGED <<lessons, past, markers>>
    BY <2>1
  <2>2. CASE r \in Imports /\ Create(r)
    BY <1>2, <2>2, Created
  <2>3. CASE r \in Deletes /\ SetLesson(LessonOf[r], NoDoc) /\ pc[r] = "erase"
    BY <1>1, <1>2, <2>3 DEF SetLesson, GlossaryInv, Deleting
  <2> QED BY <2>1, <2>2, <2>3, StoredBy
<1>5. Kept(id)'
  <2>1. CASE r \in Imports /\ Create(r) /\ id = Id(r)
    <3>1. /\ lessons[id] = NoDoc /\ lessons' = [lessons EXCEPT ![id] = DocOf[r]]
          /\ past' = [past EXCEPT ![id] = @ \union {DocOf[r]}]
      BY <2>1, Created
    <3>2. lessons'[id] = DocOf[r] /\ past'[id] = past[id] \union {DocOf[r]}
      BY <1>2, <3>1
    <3> QED BY <1>3, <3>1, <3>2 DEF Kept
  <2> QED BY <1>3, <1>4, <2>1 DEF Kept
<1>6. References(id) \subseteq References(id)'
  <2>1. CASE r \in Imports /\ pc[r] = "add" /\ todo[r] # <<>> /\ AddTo(r, Head(todo[r]))
    BY <1>2, <2>1 DEF AddTo, References
  <2>2. CASE r \in Deletes /\ pc[r] = "remove" /\ todo[r] # <<>> /\ RemoveFrom(r, Head(todo[r]))
    <3>1. LessonOf[r] # id
      BY <1>1, <2>2 DEF GlossaryInv, Deleting
    <3> QED BY <1>2, <2>2, <3>1 DEF RemoveFrom, References
  <2>3. CASE r \in Deletes /\ pc[r] = "drop" /\ todo[r] # <<>> /\ DropRow(Head(todo[r]))
    BY <1>2, <2>3 DEF DropRow, References
  <2> QED BY <2>1, <2>2, <2>3, StoredBy DEF References
<1> QED BY <1>4, <1>5, <1>6

\* An import either goes on with the words it has, adds one, or takes its lesson in hand.
LEMMA ImportWorks ==
  ASSUME Base, NEW r \in Imports, RequestStep(r)
  PROVE  HasLesson(r)' =>
           \/ /\ HasLesson(r) /\ target'[r] = target[r]
              /\ \/ todo'[r] = todo[r] /\ pc'[r] = pc[r]
                 \/ todo[r] = <<>>
                 \/ /\ pc[r] = "add" /\ pc'[r] = "add" /\ todo[r] # <<>>
                    /\ todo'[r] = Tail(todo[r]) /\ AddTo(r, Head(todo[r]))
           \/ /\ pc'[r] = "add" /\ todo'[r] = WordsOf[target'[r]]
              /\ \/ Create(r) /\ target'[r] = DocOf[r]
                 \/ /\ target'[r] \in past[existing[r]] /\ target'[r] # NoDoc
                    /\ lessons' = lessons
<1> USE DEF RequestStep, ImportStep, DeleteStep, SaveCommits, SaveCommitsUnheard, SaveRefused,
     ReadMarker, LoadExisting, AddWord, AddWordUnheard, FinishImport, LoadDoomed, RemoveWord,
     RemoveWordUnheard, DropWord, FinishWords, Erase, EraseUnheard, CallFails, Crash
<1>1. /\ r \in Requests /\ r \notin Deletes
      /\ pc \in [Requests -> Busy \union Finished]
      /\ target \in [Requests -> Docs \union {NoDoc}]
      /\ todo \in [Requests -> Seq(Words)]
  BY Constants DEF Base, TypeOK
<1> QED BY <1>1 DEF memory, stored, Add, HasLesson, Goto

LEMMA ReferencedKept ==
  ASSUME Base, GlossaryInv, NEW r \in Requests, RequestStep(r),
         NEW q \in Imports, Id(q) \notin removed'
  PROVE  Referenced(q)'
<1>1. /\ q \in Requests /\ Id(q) = IdOf[DocOf[q]] /\ Id(q) \in Ids \ removed' /\ DocOf[q] \in Docs
      /\ Id(q)' = Id(q)
  BY Constants DEF Id
<1>2. Id(q) \notin removed /\ Referenced(q) /\ Kept(Id(q))
  BY <1>1, DeletingKept DEF GlossaryInv
<1>3. /\ \/ lessons'[Id(q)] = lessons[Id(q)]
         \/ r \in Imports /\ Create(r) /\ Id(q) = Id(r)
      /\ References(Id(q)) \subseteq References(Id(q))'
  BY <1>1, LessonKept
<1>4. lessons \in [Ids -> Docs \union {NoDoc}] /\ todo \in [Requests -> Seq(Words)]
      /\ glossary \in [Words -> [there : BOOLEAN, lessonIds : SUBSET Ids]]
  BY DEF Base, TypeOK
<1>5. HasLesson(q) => /\ target[q] \in Docs /\ lessons[Id(q)] = target[q]
                      /\ lessons'[Id(q)] = lessons[Id(q)]
  <2>1. HasLesson(q) => target[q] \in Docs /\ target[q] # NoDoc /\ lessons[Id(q)] = target[q]
    BY <1>2, Constants DEF Base, ImportInv, Referenced
  <2>2. r \in Imports /\ Create(r) => lessons[Id(r)] = NoDoc
    BY Created
  <2> QED BY <1>3, <2>1, <2>2
<1>6. CASE q # r
  <2>1. pc'[q] = pc[q] /\ target'[q] = target[q] /\ todo'[q] = todo[q]
    BY <1>1, <1>6, OthersRest DEF Base
  <2> QED BY <1>1, <1>2, <1>3, <1>5, <2>1 DEF Referenced, HasLesson, ToDo
<1>7. CASE q = r
  <2>1. ASSUME HasLesson(q), target'[q] = target[q], todo'[q] = todo[q], pc'[q] = pc[q]
        PROVE  Referenced(q)'
    BY <1>1, <1>2, <1>3, <1>5, <2>1 DEF Referenced, HasLesson, ToDo
  <2>2. ASSUME HasLesson(q), target'[q] = target[q], todo[q] = <<>>
        PROVE  Referenced(q)'
    <3>1. ToDo(q) = {}
      BY <2>2 DEF ToDo
    <3> QED BY <1>1, <1>2, <1>3, <1>5, <2>2, <3>1 DEF Referenced
  <2>3. ASSUME HasLesson(q), target'[q] = target[q], pc[q] = "add", pc'[q] = "add",
               todo[q] # <<>>, todo'[q] = Tail(todo[q]), AddTo(q, Head(todo[q]))
        PROVE  Referenced(q)'
    <3>1. todo[q] \in Seq(Words) /\ Head(todo[q]) \in Words
      BY <1>1, <1>4, <2>3
    <3>2. ToDo(q) = {Head(todo[q])} \union ToDo(q)'
      BY <2>3, <3>1, Split DEF ToDo
    <3>3. IdOf[target[q]] = Id(q)
      BY <1>1, <2>3 DEF Base, ImportInv
    <3>4. Head(todo[q]) \in References(Id(q))'
      BY <1>1, <1>4, <2>3, <3>1, <3>3 DEF AddTo, References
    <3> QED BY <1>1, <1>2, <1>3, <1>5, <2>3, <3>2, <3>4 DEF Referenced
  <2>4. ASSUME pc'[q] = "add", todo'[q] = WordsOf[target'[q]],
               \/ Create(q) /\ target'[q] = DocOf[q]
               \/ target'[q] \in past[existing[q]] /\ target'[q] # NoDoc /\ lessons' = lessons
        PROVE  Referenced(q)'
    <3>1. lessons'[Id(q)] = target'[q]
      <4>1. CASE Create(q) /\ target'[q] = DocOf[q]
        BY <1>1, <1>4, <4>1, Created
      <4>2. CASE target'[q] \in past[existing[q]] /\ target'[q] # NoDoc /\ lessons' = lessons
        BY <1>1, <1>2, <4>2 DEF Base, ImportInv, Kept
      <4> QED BY <2>4, <4>1, <4>2
    <3>2. ToDo(q)' = WordSet(target'[q])
      BY <2>4 DEF ToDo, WordSet
    <3> QED BY <1>1, <2>4, <3>1, <3>2 DEF Referenced, WordSet
  <2> QED BY <1>7, <2>1, <2>2, <2>3, <2>4, ImportWorks DEF Referenced
<1> QED BY <1>6, <1>7

\* An import that was acknowledged, or found what a dead import left, has its lesson in
\* the glossary for good, until a delete takes that lesson in hand (Import's
\* AddLessonWords against RemoveLessonWords of other lessons that share its words).
THEOREM AcknowledgedImports == Spec => []AcknowledgedImportIsInGlossary
<1>1. Init => Base /\ GlossaryInv
  <2>1. ASSUME Init
        PROVE  GlossaryInv
    BY <2>1, Constants DEF Init, GlossaryInv, Deleting, Kept, Referenced, HasLesson
  <2> QED BY <2>1, BaseInit
<1>2. Base /\ GlossaryInv /\ [Next]_vars => (Base /\ GlossaryInv)'
  <2>1. CASE UNCHANGED vars
    BY <2>1, BaseKept DEF vars, GlossaryInv, Deleting, Kept, Referenced, HasLesson, References,
       ToDo, Id
  <2>2. ASSUME Base, GlossaryInv, NEW r \in Requests, RequestStep(r)
        PROVE  GlossaryInv'
    <3>1. \A q \in Imports : Id(q)' = Id(q)
      BY DEF Id
    <3> QED BY <2>2, <3>1, DeletingKept, LessonKept, ReferencedKept DEF GlossaryInv
  <2> QED BY <2>1, <2>2, BaseKept, Steps
<1>3. Base /\ GlossaryInv => AcknowledgedImportIsInGlossary
  BY Constants DEF Base, ImportInv, GlossaryInv, Referenced, HasLesson, Succeeded,
     AcknowledgedImportIsInGlossary
<1> QED BY <1>1, <1>2, <1>3, PTL DEF Spec

-----------------------------------------------------------------------------
(***************************************************************************)
(* The glossary counts no lesson that is not there                         *)
(***************************************************************************)
Known(id) == IF lessons[id] = NoDoc THEN {} ELSE WordSet(lessons[id])

\* The words whose rows a delete may have yet to clear.
Left(r) == CASE pc[r] = "remove" -> ToDo(r)
             [] pc[r] = "drop"   -> {Tail(todo[r])[n] : n \in 1 .. Len(Tail(todo[r]))}
             [] OTHER            -> {}

\* An id whose imports and deletes have kept out of each other's way.
Orderly(id) ==
  /\ ~ (Adding(id) /\ Removing(id))
  /\ References(id) \subseteq Known(id)
  /\ \A r \in Imports : pc[r] = "add" /\ Id(r) = id =>
       lessons[id] = target[r] /\ ToDo(r) \subseteq WordSet(target[r])
  /\ \A r \in Deletes : Deleting(r) /\ LessonOf[r] = id => References(id) \subseteq Left(r)

\* Delete r has emptied the row of word w, and not dropped it yet.
Holding(r, w) == /\ pc[r] \in {"drop", "storage", "crashed"}
                 /\ todo[r] # <<>> /\ Head(todo[r]) = w

OrphanInv ==
  /\ \A id \in Ids \ raced : Orderly(id)
  /\ \A w \in Words : glossary[w].there /\ glossary[w].lessonIds = {} =>
       \E r \in Deletes : Holding(r, w)

\* How an import adds, and what counts as a race.
LEMMA ImportAdds ==
  ASSUME Base, NEW r \in Imports, RequestStep(r), pc'[r] = "add"
  PROVE  \/ /\ pc[r] = "add" /\ target'[r] = target[r] /\ todo[r] # <<>>
            /\ todo'[r] = Tail(todo[r]) /\ AddTo(r, Head(todo[r])) /\ lessons' = lessons
         \/ /\ Create(r) /\ target'[r] = DocOf[r] /\ todo'[r] = WordsOf[target'[r]]
            /\ Removing(Id(r)) => Id(r) \in raced'
         \/ /\ UNCHANGED <<lessons, glossary>> /\ todo'[r] = WordsOf[target'[r]]
            /\ target'[r] # NoDoc
            /\ target'[r] # lessons[existing[r]] \/ Removing(existing[r]) => existing[r] \in raced'
<1> USE DEF RequestStep, ImportStep, DeleteStep, SaveCommits, SaveCommitsUnheard, SaveRefused,
     ReadMarker, LoadExisting, AddWord, AddWordUnheard, FinishImport, LoadDoomed, RemoveWord,
     RemoveWordUnheard, DropWord, FinishWords, Erase, EraseUnheard, CallFails, Crash
<1>1. /\ r \in Requests /\ r \notin Deletes
      /\ pc \in [Requests -> Busy \union Finished]
      /\ target \in [Requests -> Docs \union {NoDoc}]
      /\ todo \in [Requests -> Seq(Words)]
  BY Constants DEF Base, TypeOK
<1> QED BY <1>1 DEF memory, stored, Add, Goto

\* How a delete works through the words of the lesson it read.
LEMMA DeleteWorks ==
  ASSUME Base, NEW r \in Deletes, RequestStep(r), Deleting(r)'
  PROVE  \/ /\ UNCHANGED <<lessons, glossary>> /\ pc'[r] = "remove" /\ ~Deleting(r)
            /\ \E d \in past[LessonOf[r]] :
                 /\ d # NoDoc /\ todo'[r] = WordsOf[d]
                 /\ d # lessons[LessonOf[r]] \/ Adding(LessonOf[r]) => LessonOf[r] \in raced'
         \/ /\ pc[r] = "remove" /\ todo[r] # <<>> /\ RemoveFrom(r, Head(todo[r]))
            /\ \/ pc'[r] = "drop" /\ todo'[r] = todo[r]
               \/ pc'[r] = "remove" /\ todo'[r] = Tail(todo[r])
         \/ pc[r] = "drop" /\ pc'[r] = "remove" /\ todo'[r] = Tail(todo[r])
         \/ pc[r] = "remove" /\ todo[r] = <<>> /\ pc'[r] = "erase" /\ glossary' = glossary
<1> USE DEF RequestStep, ImportStep, DeleteStep, SaveCommits, SaveCommitsUnheard, SaveRefused,
     ReadMarker, LoadExisting, AddWord, AddWordUnheard, FinishImport, LoadDoomed, RemoveWord,
     RemoveWordUnheard, DropWord, FinishWords, Erase, EraseUnheard, CallFails, Crash
<1>1. /\ r \in Requests /\ r \notin Imports
      /\ pc \in [Requests -> Busy \union Finished]
      /\ target \in [Requests -> Docs \union {NoDoc}]
      /\ todo \in [Requests -> Seq(Words)]
  BY Constants DEF Base, TypeOK
<1> QED BY <1>1 DEF memory, stored, Goto, Deleting

\* A lesson that is not there changes by a create, one that is by an erasing delete.
LEMMA LessonChanges ==
  ASSUME Base, NEW r \in Requests, RequestStep(r), NEW id \in Ids
  PROVE  \/ lessons'[id] = lessons[id]
         \/ /\ r \in Imports /\ Create(r) /\ id = Id(r) /\ lessons[id] = NoDoc
            /\ lessons'[id] = DocOf[r] /\ glossary' = glossary
         \/ /\ r \in Deletes /\ pc[r] = "erase" /\ LessonOf[r] = id /\ lessons'[id] = NoDoc
            /\ glossary' = glossary
<1>1. lessons \in [Ids -> Docs \union {NoDoc}]
  BY DEF Base, TypeOK
<1>2. CASE r \in Imports /\ Create(r)
  BY <1>1, <1>2, Created DEF Create
<1>3. CASE r \in Deletes /\ pc[r] = "erase" /\ SetLesson(LessonOf[r], NoDoc) /\ glossary' = glossary
  BY <1>1, <1>3 DEF SetLesson
<1> QED BY <1>2, <1>3, StoredBy

\* A lesson's references grow by an import that adds it, and only shrink otherwise.
LEMMA ReferencesChange ==
  ASSUME Base, NEW r \in Requests, RequestStep(r), NEW id \in Ids
  PROVE  \/ References(id)' \subseteq References(id)
         \/ /\ r \in Imports /\ pc[r] = "add" /\ Id(r) = id /\ todo[r] # <<>>
            /\ References(id)' \subseteq References(id) \union {Head(todo[r])}
<1>1. glossary \in [Words -> [there : BOOLEAN, lessonIds : SUBSET Ids]] /\ todo[r] \in Seq(Words)
  BY DEF Base, TypeOK
<1>2. todo[r] # <<>> => Head(todo[r]) \in Words
  BY <1>1
<1>3. CASE r \in Imports /\ pc[r] = "add" /\ todo[r] # <<>> /\ AddTo(r, Head(todo[r]))
  <2>1. IdOf[target[r]] = Id(r)
    BY <1>3, Constants DEF Base, ImportInv, HasLesson
  <2> QED BY <1>1, <1>2, <1>3, <2>1 DEF AddTo, References
<1>4. CASE r \in Deletes /\ todo[r] # <<>> /\ RemoveFrom(r, Head(todo[r]))
  BY <1>1, <1>2, <1>4 DEF RemoveFrom, References
<1>5. CASE r \in Deletes /\ todo[r] # <<>> /\ DropRow(Head(todo[r]))
  BY <1>1, <1>2, <1>5 DEF DropRow, References
<1> QED BY <1>3, <1>4, <1>5, StoredBy DEF References

LEMMA RacedGrows ==
  ASSUME NEW r \in Requests, RequestStep(r)
  PROVE  raced \subseteq raced'
BY DEF RequestStep, ImportStep, DeleteStep, SaveCommits, SaveCommitsUnheard, SaveRefused,
     ReadMarker, LoadExisting, AddWord, AddWordUnheard, FinishImport, LoadDoomed, RemoveWord,
     RemoveWordUnheard, DropWord, FinishWords, Erase, EraseUnheard, CallFails, Crash, ghosts

\* Who adds a lesson's words: an import of it.
LEMMA Adders ==
  ASSUME Base, NEW id
  PROVE  Adding(id) <=> \E r \in Imports : pc[r] = "add" /\ Id(r) = id
BY Constants DEF Base, ImportInv, HasLesson, Adding

LEMMA OrderlyKept ==
  ASSUME Base, Base', OrphanInv, NEW r \in Requests, RequestStep(r), NEW id \in Ids \ raced'
  PROVE  Orderly(id)'
<1>1. id \in Ids /\ id \notin raced /\ Orderly(id)
  BY RacedGrows DEF OrphanInv
<1>2. /\ lessons \in [Ids -> Docs \union {NoDoc}] /\ todo \in [Requests -> Seq(Words)]
      /\ glossary \in [Words -> [there : BOOLEAN, lessonIds : SUBSET Ids]]
      /\ \A d \in past[id] : d # NoDoc => d \in Docs
  BY <1>1 DEF Base, TypeOK
<1>3. /\ \A q \in Imports : q \in Requests /\ q \notin Deletes /\ Id(q) \in Ids /\ DocOf[q] \in Docs
      /\ \A q \in Deletes : q \in Requests /\ LessonOf[q] \in Ids
      /\ \A q \in Imports : Id(q)' = Id(q)
      /\ NoDoc \notin Docs
  BY Constants, LibraryAssumption DEF Id
<1>4. \A q \in Imports : existing[q] = Id(q)
  BY Constants DEF Base, ImportInv
<1>5. \A q \in Imports : pc[q] = "add" => target[q] \in Docs
  BY DEF Base, ImportInv, HasLesson
<1>6. \A q \in Requests \ {r} : pc'[q] = pc[q] /\ target'[q] = target[q] /\ todo'[q] = todo[q]
  BY OthersRest DEF Base
<1>7. ~ (Adding(id) /\ Removing(id))'
  <2>1. ASSUME r \in Imports, pc'[r] = "add", pc[r] # "add", Id(r) = id
        PROVE  ~Removing(id)
    BY <1>4, <2>1, ImportAdds
  <2>2. ASSUME r \in Deletes, Deleting(r)', ~Deleting(r), LessonOf[r] = id
        PROVE  ~Adding(id)
    BY <2>2, DeleteWorks DEF Deleting
  <2>3. Adding(id)' => Adding(id) \/ (r \in Imports /\ pc'[r] = "add" /\ pc[r] # "add" /\ Id(r) = id)
    <3>1. Adding(id)' => \E q \in Imports : pc'[q] = "add" /\ Id(q) = id
      BY <1>3, Constants DEF Base, ImportInv, HasLesson, Adding
    <3> QED BY <1>3, <1>6, <3>1, Adders
  <2>4. Removing(id)' => Removing(id) \/ (r \in Deletes /\ Deleting(r)' /\ ~Deleting(r) /\ LessonOf[r] = id)
    BY <1>3, <1>6 DEF Removing, Deleting
  <2>5. r \in Imports => (Removing(id)' => Removing(id))
    BY <1>3, <2>4
  <2>6. r \in Deletes => (Adding(id)' => Adding(id))
    BY <1>3, <2>3
  <2> QED BY <1>1, <2>1, <2>2, <2>3, <2>4, <2>5, <2>6 DEF Orderly
<1>8. (References(id) \subseteq Known(id))'
  <2>1. CASE lessons'[id] = lessons[id]
    <3>1. r \in Imports /\ pc[r] = "add" /\ Id(r) = id /\ todo[r] # <<>> =>
            Head(todo[r]) \in Known(id)
      <4>1. todo[r] # <<>> => Head(todo[r]) \in ToDo(r)
        <5>1. ASSUME todo[r] # <<>>
              PROVE  ToDo(r) = {Head(todo[r])}
                                 \union {Tail(todo[r])[n] : n \in 1 .. Len(Tail(todo[r]))}
          BY <1>2, <5>1, Split DEF ToDo
        <5> QED BY <5>1
      <4>2. ASSUME r \in Imports, pc[r] = "add", Id(r) = id
            PROVE  ToDo(r) \subseteq Known(id)
        <5>1. lessons[id] = target[r] /\ ToDo(r) \subseteq WordSet(target[r])
          BY <1>1, <4>2 DEF Orderly
        <5> QED BY <1>3, <1>5, <4>2, <5>1 DEF Known
      <4> QED BY <4>1, <4>2
    <3>2. Known(id)' = Known(id)
      BY <2>1 DEF Known
    <3> QED BY <1>1, <3>1, <3>2, ReferencesChange DEF Orderly
  <2>2. CASE lessons[id] = NoDoc /\ glossary' = glossary
    BY <1>1, <2>2 DEF Orderly, Known, References
  <2>3. CASE r \in Deletes /\ pc[r] = "erase" /\ LessonOf[r] = id /\ glossary' = glossary
    BY <1>1, <2>3 DEF Orderly, Deleting, Left, References
  <2> QED BY <1>1, <2>1, <2>2, <2>3, LessonChanges
<1>9. ASSUME NEW q \in Imports, pc'[q] = "add", Id(q) = id
      PROVE  lessons'[id] = target'[q] /\ ToDo(q)' \subseteq WordSet(target'[q])
  <2>1. ASSUME pc[q] = "add"
        PROVE  /\ lessons[id] = target[q] /\ target[q] # NoDoc /\ ToDo(q) \subseteq WordSet(target[q])
               /\ lessons'[id] = lessons[id]
    <3>1. lessons[id] = target[q] /\ target[q] # NoDoc /\ ToDo(q) \subseteq WordSet(target[q])
      BY <1>1, <1>3, <1>5, <1>9, <2>1 DEF Orderly
    <3>2. ~Removing(id)
      BY <1>1, <1>9, <2>1, Adders DEF Orderly
    <3> QED BY <1>1, <3>1, <3>2, LessonChanges DEF Removing
  <2>2. CASE q # r
    BY <1>3, <1>6, <1>9, <2>1, <2>2 DEF ToDo
  <2>3. CASE q = r
    <3>1. CASE pc[r] = "add" /\ target'[r] = target[r] /\ todo[r] # <<>> /\ todo'[r] = Tail(todo[r])
      <4>1. ToDo(q)' \subseteq ToDo(q)
        <5>1. todo[q] \in Seq(Words) /\ todo[q] # <<>> /\ todo'[q] = Tail(todo[q])
          BY <1>2, <1>3, <2>3, <3>1
        <5>2. ToDo(q) = {Head(todo[q])}
                          \union {Tail(todo[q])[n] : n \in 1 .. Len(Tail(todo[q]))}
          BY <5>1, Split DEF ToDo
        <5>3. ToDo(q)' = {Tail(todo[q])[n] : n \in 1 .. Len(Tail(todo[q]))}
          BY <5>1 DEF ToDo
        <5> QED BY <5>2, <5>3
      <4> QED BY <1>9, <2>1, <2>3, <3>1, <4>1
    <3>2. CASE Create(r) /\ target'[r] = DocOf[r] /\ todo'[r] = WordsOf[target'[r]]
      <4>1. lessons' = [lessons EXCEPT ![id] = DocOf[r]]
        BY <1>9, <2>3, <3>2, Created
      <4> QED BY <1>1, <1>2, <2>3, <3>2, <4>1 DEF ToDo, WordSet
    <3>3. CASE /\ UNCHANGED <<lessons, glossary>> /\ todo'[r] = WordsOf[target'[r]]
               /\ target'[r] # NoDoc
               /\ target'[r] # lessons[existing[r]] => existing[r] \in raced'
      BY <1>4, <1>9, <2>3, <3>3 DEF ToDo, WordSet
    <3> QED BY <1>9, <2>3, <3>1, <3>2, <3>3, ImportAdds
  <2> QED BY <2>2, <2>3
<1>10. ASSUME NEW q \in Deletes, Deleting(q)', LessonOf[q] = id
       PROVE  References(id)' \subseteq Left(q)'
  <2>1. ASSUME Deleting(q)
        PROVE  References(id) \subseteq Left(q) /\ References(id)' \subseteq References(id)
    <3>1. ~Adding(id)
      BY <1>1, <1>10, <2>1 DEF Orderly, Removing, Deleting
    <3> QED BY <1>1, <1>10, <2>1, <3>1, Adders, ReferencesChange DEF Orderly
  <2>2. CASE q # r
    BY <1>3, <1>6, <1>10, <2>1, <2>2 DEF Left, ToDo, Deleting
  <2>3. CASE q = r
    <3>1. CASE /\ UNCHANGED <<lessons, glossary>> /\ pc'[r] = "remove"
               /\ \E d \in past[LessonOf[r]] :
                    /\ d # NoDoc /\ todo'[r] = WordsOf[d]
                    /\ d # lessons[LessonOf[r]] => LessonOf[r] \in raced'
      <4>1. lessons[id] # NoDoc /\ todo'[r] = WordsOf[lessons[id]]
        BY <1>10, <2>3, <3>1
      <4> QED BY <1>1, <2>3, <3>1, <4>1 DEF Orderly, Known, References, Left, ToDo, WordSet
    <3>2. CASE /\ pc[r] = "remove" /\ todo[r] # <<>> /\ RemoveFrom(r, Head(todo[r]))
               /\ \/ pc'[r] = "drop" /\ todo'[r] = todo[r]
                  \/ pc'[r] = "remove" /\ todo'[r] = Tail(todo[r])
      <4>1. ToDo(r) = {Head(todo[r])} \union {Tail(todo[r])[n] : n \in 1 .. Len(Tail(todo[r]))}
        BY <1>2, <3>2, Split DEF ToDo
      <4>2. Head(todo[r]) \notin References(id)'
        <5>1. Head(todo[r]) \in Words
          BY <1>2, <3>2
        <5> QED BY <1>2, <1>10, <2>3, <3>2, <5>1 DEF RemoveFrom, References
      <4>3. References(id)' \subseteq ToDo(r)
        BY <2>1, <2>3, <3>2 DEF Left, Deleting
      <4>4. Left(r)' = {Tail(todo[r])[n] : n \in 1 .. Len(Tail(todo[r]))}
        BY <3>2 DEF Left, ToDo
      <4> QED BY <2>3, <4>1, <4>2, <4>3, <4>4
    <3>3. CASE pc[r] = "drop" /\ pc'[r] = "remove" /\ todo'[r] = Tail(todo[r])
      BY <2>1, <2>3, <3>3 DEF Left, ToDo, Deleting
    <3>4. CASE pc[r] = "remove" /\ todo[r] = <<>> /\ pc'[r] = "erase"
      <4>1. ToDo(r) = {}
        BY <3>4 DEF ToDo
      <4> QED BY <2>1, <2>3, <3>4, <4>1 DEF Left, Deleting
    <3> QED BY <1>10, <2>3, <3>1, <3>2, <3>3, <3>4, DeleteWorks
  <2> QED BY <2>2, <2>3
<1> QED BY <1>3, <1>7, <1>8, <1>9, <1>10 DEF Orderly, Deleting

\* An emptied row keeps its holder until that delete drops it.
LEMMA HoldingKept ==
  ASSUME Base, NEW r \in Requests, RequestStep(r), NEW q \in Deletes, NEW w \in Words, Holding(q, w)
  PROVE  Holding(q, w)' \/ DropRow(w)
<1>1. CASE q # r
  BY <1>1, OthersRest, Constants DEF Base, Holding
<1>2. CASE q = r
  <2> USE DEF RequestStep, DeleteStep, LoadDoomed, RemoveWord, RemoveWordUnheard, DropWord,
          FinishWords, Erase, EraseUnheard, CallFails, Crash
  <2>1. r \notin Imports /\ pc \in [Requests -> Busy \union Finished]
    BY <1>2, Constants DEF Base, TypeOK
  <2> QED BY <1>2, <2>1 DEF Holding, Goto, memory, Busy
<1> QED BY <1>1, <1>2

LEMMA RowsKept ==
  ASSUME Base, OrphanInv, NEW r \in Requests, RequestStep(r),
         NEW w \in Words, glossary'[w].there, glossary'[w].lessonIds = {}
  PROVE  \E q \in Deletes : Holding(q, w)'
<1>1. glossary \in [Words -> [there : BOOLEAN, lessonIds : SUBSET Ids]]
  BY DEF Base, TypeOK
<1>2. CASE glossary[w].there /\ glossary[w].lessonIds = {} /\ ~DropRow(w)
  <2>1. PICK q \in Deletes : Holding(q, w)
    BY <1>2 DEF OrphanInv
  <2> QED BY <1>2, <2>1, HoldingKept
<1>3. ~DropRow(w)
  BY <1>1 DEF DropRow
<1>4. ASSUME r \in Deletes, pc[r] = "remove", todo[r] # <<>>, RemoveFrom(r, Head(todo[r])),
             w = Head(todo[r]), glossary[w].lessonIds # {}
      PROVE  Holding(r, w)'
  <2>1. glossary[w].there /\ glossary[w].lessonIds \subseteq {LessonOf[r]}
    BY <1>1, <1>4 DEF RemoveFrom
  <2>2. pc \in [Requests -> Busy \union Finished] /\ r \notin Imports
    BY <1>4, Constants DEF Base, TypeOK
  <2>3. glossary' # glossary
    BY <1>1, <1>4
  <2>4. RemoveWord(r) \/ RemoveWordUnheard(r)
    BY <1>4, <2>2, <2>3 DEF RequestStep, DeleteStep, LoadDoomed, DropWord, FinishWords, Erase,
       EraseUnheard, CallFails, Crash, stored
  <2> QED BY <1>4, <2>1, <2>2, <2>4 DEF RemoveWord, RemoveWordUnheard, Goto, memory, Holding
<1>5. todo[r] # <<>> => Head(todo[r]) \in Words
  <2>1. todo[r] \in Seq(Words)
    BY DEF Base, TypeOK
  <2> QED BY <2>1
<1>6. \/ glossary'[w] = glossary[w]
      \/ /\ r \in Deletes /\ pc[r] = "remove" /\ todo[r] # <<>> /\ RemoveFrom(r, Head(todo[r]))
         /\ w = Head(todo[r]) /\ glossary[w].there
  <2>1. CASE r \in Imports /\ todo[r] # <<>> /\ AddTo(r, Head(todo[r]))
    BY <1>1, <1>5, <2>1 DEF AddTo
  <2>2. CASE r \in Deletes /\ todo[r] # <<>> /\ RemoveFrom(r, Head(todo[r]))
    <3>1. w # Head(todo[r]) => glossary'[w] = glossary[w]
      BY <1>1, <1>5, <2>2 DEF RemoveFrom
    <3>2. glossary'[w].there = glossary[w].there
      BY <1>1, <1>5, <2>2 DEF RemoveFrom
    <3>3. glossary' # glossary => pc[r] = "remove"
      <4>1. glossary' = [glossary EXCEPT ![Head(todo[r])].lessonIds = @ \ {LessonOf[r]}]
        BY <2>2 DEF RemoveFrom
      <4>2. CASE r \in Imports
        BY <2>2, <4>2, Constants
      <4>3. CASE pc[r] = "drop" /\ DropRow(Head(todo[r]))
        BY <1>1, <1>5, <2>2, <4>1, <4>3 DEF DropRow
      <4> QED BY <4>2, <4>3, StoredBy
    <3> QED BY <2>2, <3>1, <3>2, <3>3
  <2>3. CASE r \in Deletes /\ todo[r] # <<>> /\ DropRow(Head(todo[r]))
    BY <1>1, <1>5, <2>3 DEF DropRow
  <2> QED BY <2>1, <2>2, <2>3, StoredBy
<1> QED BY <1>2, <1>3, <1>4, <1>6

\* The glossary counts no lesson that is not there, whatever crashes, failures and lost
\* answers Import and Delete meet, unless they raced over that lesson or read it stale;
\* and a row without lessons is in the hands of the delete that emptied it
\* (RemoveLessonWords' two calls).
THEOREM OrphansOnlyFromRaces == Spec => []OrphansComeFromRaces
<1>1. Init => Base /\ OrphanInv
  <2>1. ASSUME Init
        PROVE  OrphanInv
    BY <2>1, Constants DEF Init, OrphanInv, Orderly, Adding, Deleting, References, Known
  <2> QED BY <2>1, BaseInit
<1>2. Base /\ OrphanInv /\ [Next]_vars => (Base /\ OrphanInv)'
  <2>1. CASE UNCHANGED vars
    <3>1. ASSUME OrphanInv, UNCHANGED vars
          PROVE  OrphanInv'
      <4>1. UNCHANGED vars
        BY <3>1
      <4>2. \A id \in Ids : Orderly(id)' <=> Orderly(id)
        BY <4>1 DEF vars, Orderly, Adding, Removing, Deleting, References, Known, ToDo, Left, Id
      <4>3. \A r \in Deletes, w \in Words : Holding(r, w)' <=> Holding(r, w)
        BY <4>1 DEF vars, Holding
      <4> QED BY <3>1, <4>2, <4>3 DEF vars, OrphanInv
    <3> QED BY <2>1, <3>1, BaseKept
  <2>2. ASSUME Base, OrphanInv, Base', NEW r \in Requests, RequestStep(r)
        PROVE  OrphanInv'
    BY <2>2, OrderlyKept, RowsKept DEF OrphanInv
  <2> QED BY <2>1, <2>2, BaseKept, Steps
<1>3. Base /\ OrphanInv => OrphansComeFromRaces
  BY DEF OrphanInv, Orderly, Known, Holding, OrphansComeFromRaces
<1> QED BY <1>1, <1>2, <1>3, PTL DEF Spec
=============================================================================
