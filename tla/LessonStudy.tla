------------------------------- MODULE LessonStudy -----------------------------
(***************************************************************************)
(* A lesson imported, studied and recorded: the handlers of httpapi for    *)
(* the import, the reading and the result of a lesson and for the list of  *)
(* lessons, over lessons.Service and dynamolessons.                        *)
(*                                                                         *)
(* The learner's client works an attempt out from the lesson it is shown,  *)
(* and sends it until it is answered.  Record checks it against the stored *)
(* lesson, puts the result's row and then records the progress in another  *)
(* table.  Reads are eventually consistent: one of the lesson may not see  *)
(* it yet or still see it, and a query need only see the settled rows.     *)
(***************************************************************************)
EXTENDS LessonWire, LessonResult, Listing, SequencesExt

CONSTANTS
  Drafts,       \* documents sent to the import
  Studied,      \* bound: the drafts whose lessons are studied
  Available,    \* Available[language]: the reference ids the lesson may name
  Attempts,     \* ids of attempts
  Deliveries,   \* requests that carry an attempt's result
  AttemptOf,    \* AttemptOf[d]: the attempt d carries
  CompletedAt,  \* CompletedAt[a]: when attempt a was completed, by the client's clock
  Earlier,      \* rows of results that the owner had before the import
  Rank,         \* Rank[id]: the place of a lesson or attempt id in the order of keys
  PageSize,     \* bound: the rows on a page of a query
  MaxFaults,    \* bound: failed calls, lost answers and crashes in a behaviour
  NoDoc         \* no document

ASSUME StudyAssumption ==
  /\ Studied \subseteq Drafts /\ NoDoc \notin Drafts
  /\ Attempts \subseteq Uuids
  /\ AttemptOf \in [Deliveries -> Attempts]
  /\ CompletedAt \in [Attempts -> Nat \ {0}]
  /\ PageSize \in Nat \ {0} /\ MaxFaults \in Nat

Key(row) == <<Rank[row.lessonId], row.completedAt, Rank[row.attemptId]>>

\* The keys of the rows are in order.  The earlier rows may be of other lessons, or of one
\* with the id of the draft's that was deleted, which left them there.
ASSUME RowAssumption ==
  /\ \A id \in Uuids : Rank[id] \in Int
  /\ IsFiniteSet(Earlier)
  /\ \A row \in Earlier :
       Rank[row.lessonId] \in Int /\ row.completedAt \in Int /\ Rank[row.attemptId] \in Int
  /\ \A row, other \in Earlier : Key(row) = Key(other) => row = other

\* Levels are written in upper case.
ASSUME LevelAssumption ==
  \A language \in DOMAIN Levels : \A level \in Levels[language] : Of(Upper, level, level) = level

\* The decoders make lists of what a document has, and what is written is something.
IsList(s) == s \in Seq(Range(s))
ListsOf(type) == Lists(type) \union IF type = "ordering" THEN {"items"} ELSE {}

ASSUME DocumentAssumption ==
  \A doc \in Drafts : Decodes(doc) =>
    LET l == DecodeLesson(doc)
    IN /\ IsList(l.exercises)
       /\ \A i \in DOMAIN l.exercises :
            LET e == l.exercises[i]
            IN e.payload # NoPayload => \A f \in ListsOf(e.type) : IsList(e.payload[f])
       /\ New(l).reply = "accepted" =>
            /\ NoDoc \notin {ToItem(New(l).lesson), ShowLesson(New(l).lesson)}
            /\ \A i \in DOMAIN New(l).lesson.exercises :
                 LET e == New(l).lesson.exercises[i]
                 IN e.payload # NoPayload => WritePayload(e.type, e.payload) # NoPayload

VARIABLES
  draft,     \* the document of the import
  reply,     \* what came of the import
  item,      \* the lesson's item, or NoDoc before it is put
  there,     \* whether the item is in the table
  shown,     \* the document the learner was last shown, or NoDoc
  result,    \* result[a]: the result the client sends for attempt a, or NoDoc
  sent,      \* sent[a]: whether that is nothing yet, what it should send, or something else
  pc,        \* where each delivery is, or what it was answered
  rows,      \* rows of results
  settled,   \* those every query sees
  progress,  \* attempts whose progress is recorded
  list,      \* a listing of the lessons: the lesson's summary, and its rows so far
  faults

vars == <<draft, reply, item, there, shown, result, sent, pc, rows, settled, progress,
          list, faults>>
lesson == <<draft, reply, item, there>>
client == <<shown, result, sent>>
table  == <<rows, settled>>

Ends == {"created", "refused", "notFound", "failed", "crashed"}

TypeOK ==
  /\ draft \in Drafts /\ reply \in {"none", "created", "rejected", "panic"}
  /\ there \in BOOLEAN /\ (there => item # NoDoc)
  /\ sent \in [Attempts -> {"nothing", "honest", "distorted"}]
  /\ \A a \in Attempts : sent[a] # "nothing" => result[a].attemptId = a
  /\ pc \in [Deliveries -> {"idle", "save", "record"} \union Ends]
  /\ settled \subseteq rows /\ Earlier \subseteq rows
  /\ progress \subseteq Attempts
  /\ list.at \in {"idle", "paging", "done"} /\ faults \in 0..MaxFaults

Init ==
  /\ draft \in Drafts /\ reply = "none" /\ item = NoDoc /\ there = FALSE
  /\ shown = NoDoc
  /\ result = [a \in Attempts |-> NoDoc] /\ sent = [a \in Attempts |-> "nothing"]
  /\ pc = [d \in Deliveries |-> "idle"]
  /\ rows = Earlier /\ settled = Earlier /\ progress = {}
  /\ list = [at |-> "idle", summary |-> NoDoc, seen |-> <<>>, began |-> {}]
  /\ faults = 0

Fault == draft \in Studied /\ faults < MaxFaults /\ faults' = faults + 1

\* The attempts at the lesson: all of them if it is studied, and any one if not.
Tried == IF draft \in Studied THEN Attempts ELSE {CHOOSE a \in Attempts : TRUE}

-----------------------------------------------------------------------------
(***************************************************************************)
(* The lesson: imported, shown, deleted                                    *)
(***************************************************************************)
\* Every id the lesson names is in the reference table.
ReferencesListed(l) ==
  All(l.exercises, LAMBDA e :
        Range(e.referencedVocab) \union Range(e.referencedGrammar) \subseteq
          Available[l.language])

Imported ==
  IF ~Decodes(draft) THEN [reply |-> "rejected", lesson |-> NoDoc]
  ELSE LET new == New(DecodeLesson(draft))
       IN IF new.reply = "accepted" /\ ~ReferencesListed(new.lesson)
          THEN [new EXCEPT !.reply = "rejected"] ELSE new

Import ==
  /\ reply = "none"
  /\ LET new == Imported
     IN IF new.reply = "accepted"
        THEN reply' = "created" /\ item' = ToItem(new.lesson) /\ there' = TRUE
        ELSE reply' = new.reply /\ UNCHANGED <<item, there>>
  /\ UNCHANGED <<draft, client, pc, table, progress, list, faults>>

Show ==
  /\ there /\ shown = NoDoc
  /\ shown' = ShowLesson(ToDomain(item))
  /\ UNCHANGED <<lesson, result, sent, pc, table, progress, list, faults>>

Delete ==
  /\ there /\ draft \in Studied
  /\ there' = FALSE
  /\ UNCHANGED <<draft, reply, item, client, pc, table, progress, list, faults>>

-----------------------------------------------------------------------------
(***************************************************************************)
(* The client: an attempt at the lesson as shown                           *)
(***************************************************************************)
ResultOf(a, outcomes) ==
  [attemptId |-> a, lessonId |-> shown.lessonId, startedAt |-> 1,
   completedAt |-> CompletedAt[a], exercises |-> outcomes, sums |-> Sums(outcomes)]

\* The learner misses so many of the marks of each exercise.
Attempt(missed) ==
  LET l == DecodeLesson(AsDocument(shown))
  IN Each(l.exercises, LAMBDA e : LET total == Scale(e).total
                                  IN Outcome(e, IF missed < total THEN total - missed ELSE 0))

Finish(a) ==
  /\ shown # NoDoc /\ a \in Tried /\ sent[a] = "nothing"
  /\ \E missed \in 0..1 : result' = [result EXCEPT ![a] = ResultOf(a, Attempt(missed))]
  /\ sent' = [sent EXCEPT ![a] = "honest"]
  /\ UNCHANGED <<lesson, shown, pc, table, progress, list, faults>>

\* A client that reports its first exercise twice, or one mark it did not earn; the
\* lessons that are studied leave it out.
Distort(a) ==
  /\ shown # NoDoc /\ a \in Tried /\ sent[a] = "nothing" /\ draft \notin Studied
  /\ \E outcomes \in LET o == Attempt(1)
                     IN {Each(o, LAMBDA x : o[1]), [o EXCEPT ![1].score = @ + 1]} :
       /\ outcomes # Attempt(1)
       /\ result' = [result EXCEPT ![a] = ResultOf(a, outcomes)]
  /\ sent' = [sent EXCEPT ![a] = "distorted"]
  /\ UNCHANGED <<lesson, shown, pc, table, progress, list, faults>>

-----------------------------------------------------------------------------
(***************************************************************************)
(* Record: a delivery of an attempt's result                               *)
(***************************************************************************)
Result(d)        == result[AttemptOf[d]]
Goto(d, where)   == pc' = [pc EXCEPT ![d] = where]
Row(r)           == [lessonId |-> r.lessonId, completedAt |-> r.completedAt,
                     attemptId |-> r.attemptId, score |-> r.sums.score,
                     maxScore |-> r.sums.maxScore]
Stored(r)        == \E row \in rows : Key(row) = Key(Row(r))

\* The stored lesson is read and the result checked against it.
Check(d) ==
  /\ pc[d] = "idle" /\ sent[AttemptOf[d]] # "nothing"
  /\ \/ Goto(d, IF Accepts(Result(d), ToDomain(item)) THEN "save" ELSE "refused")
     \/ Goto(d, "notFound")
  /\ UNCHANGED <<lesson, client, table, progress, list, faults>>

\* Mutant of Put: an attempt has one row, whatever lesson it was at.
PutByAttempt(d) ==
  rows' = {row \in rows : row.attemptId # AttemptOf[d]} \union {Row(Result(d))}

Put(d) == rows' = IF Stored(Result(d)) THEN rows ELSE rows \union {Row(Result(d))}

\* Mutant of Save: a result that is already there has nothing more to record.
SaveOnce(d) ==
  /\ pc[d] = "save" /\ Put(d)
  /\ Goto(d, IF Stored(Result(d)) THEN "created" ELSE "record")
  /\ UNCHANGED <<lesson, client, settled, progress, list, faults>>

\* A row that is there already is the attempt's own, from an earlier delivery, or from one
\* to a lesson of the same id that was deleted.
Save(d) ==
  /\ pc[d] = "save" /\ Put(d)
  /\ Goto(d, "record")
  /\ UNCHANGED <<lesson, client, settled, progress, list, faults>>

\* RecordLesson does nothing for an attempt it has recorded.
RecordProgress(d) ==
  /\ pc[d] = "record"
  /\ progress' = progress \union {AttemptOf[d]}
  /\ Goto(d, "created")
  /\ UNCHANGED <<lesson, client, table, list, faults>>

SaveUnheard(d) ==
  /\ pc[d] = "save" /\ Put(d) /\ Fault
  /\ Goto(d, "failed")
  /\ UNCHANGED <<lesson, client, settled, progress, list>>

RecordProgressUnheard(d) ==
  /\ pc[d] = "record" /\ Fault
  /\ progress' = progress \union {AttemptOf[d]}
  /\ Goto(d, "failed")
  /\ UNCHANGED <<lesson, client, table, list>>

\* Mutant of Stop: any error of the put passes for the row being there.
StopUnlessSaving(d) ==
  /\ pc[d] \in {"save", "record"} /\ Fault
  /\ IF pc[d] = "save" THEN Goto(d, "record") ELSE Goto(d, "failed")
  /\ UNCHANGED <<lesson, client, table, progress, list>>

\* A call fails, or the invocation ends before its next call.
Stop(d) ==
  /\ pc[d] \in {"save", "record"} /\ Fault
  /\ \E end \in {"failed", "crashed"} : Goto(d, end)
  /\ UNCHANGED <<lesson, client, table, progress, list>>

Settle(row) ==
  /\ row \in rows \ settled /\ draft \in Studied
  /\ settled' = settled \union {row}
  /\ UNCHANGED <<lesson, client, pc, rows, progress, list, faults>>

-----------------------------------------------------------------------------
(***************************************************************************)
(* The list of lessons: how often each was completed, and how it last went *)
(***************************************************************************)
Before(k, m) == \/ k[1] < m[1]
                \/ k[1] = m[1] /\ k[2] < m[2]
                \/ k[1] = m[1] /\ k[2] = m[2] /\ k[3] < m[3]

InOrder(S) == Listed(S, [row \in S |-> {other \in S : Before(Key(other), Key(row))}])

\* Mutant of Beyond: the page starts with the row the last one ended with.
BeyondAgain(S) ==
  {row \in S : list.seen = <<>> \/ ~Before(Key(row), Key(Last(list.seen)))}

\* The rows of S behind the last row listed.
Beyond(S) == {row \in S : list.seen = <<>> \/ Before(Key(Last(list.seen)), Key(row))}

ListBegin ==
  /\ list.at = "idle" /\ shown # NoDoc /\ draft \in Studied
  /\ \E summary \in {Summary(ToDomain(item)), NoDoc} :
       list' = [list EXCEPT !.at = "paging", !.began = settled, !.summary = summary]
  /\ UNCHANGED <<lesson, client, pc, table, progress, faults>>

ListPage ==
  /\ list.at = "paging"
  /\ \E unsettled \in SUBSET (rows \ settled) :
       LET left == InOrder(Beyond(settled \union unsettled))
       IN list' = [list EXCEPT
            !.seen = @ \o FirstOf(left, PageSize),
            !.at = IF Len(left) <= PageSize THEN "done" ELSE "paging"]
  /\ UNCHANGED <<lesson, client, pc, table, progress, faults>>

\* What a list of completions says of a lesson: how many are the lesson's, and the first
\* of them than which none is later.
Summarize(completions, id) ==
  LET theirs == Among(completions, {row \in Range(completions) : row.lessonId = id})
      none   == [completedAt |-> 0, score |-> 0, maxScore |-> 0]
      Latest(i) == \A j \in DOMAIN theirs :
                     \/ theirs[j].completedAt < theirs[i].completedAt
                     \/ theirs[j].completedAt = theirs[i].completedAt /\ i <= j
  IN [count |-> Len(theirs),
      last  |-> IF theirs = <<>> THEN none ELSE theirs[CHOOSE i \in DOMAIN theirs : Latest(i)]]

-----------------------------------------------------------------------------
Deliver(d) == \/ Check(d) \/ Save(d) \/ RecordProgress(d)
              \/ SaveUnheard(d) \/ RecordProgressUnheard(d) \/ Stop(d)

Next ==
  \/ Import \/ Show \/ Delete
  \/ \E a \in Attempts : Finish(a) \/ Distort(a)
  \/ \E d \in Deliveries : Deliver(d)
  \/ \E row \in rows : Settle(row)
  \/ ListBegin \/ ListPage

Spec == Init /\ [][Next]_vars

-----------------------------------------------------------------------------
(***************************************************************************)
(* Properties                                                              *)
(***************************************************************************)
\* A result is refused exactly if the client did not work it out from the lesson it
\* was shown: the rules of the import leave no lesson that cannot be completed, and
\* what is stored and shown keeps all that marks are counted from (NewResult,
\* lesson.New, toItem, toDomain, toLessonDetail).
ResultsAreJudgedByTheLesson ==
  \A d \in Deliveries :
    /\ pc[d] = "refused" => sent[AttemptOf[d]] = "distorted"
    /\ pc[d] \in {"save", "record", "created"} => sent[AttemptOf[d]] = "honest"

\* The learner can give every answer a shown exercise asks for.
Answerable(e) ==
  LET p == e.payload
      Chooses(q) == q.answer \in Range(q.options)
  IN CASE e.type = "cloze" ->
            LET bank == Range(p.wordBank)
            IN \A i \in DOMAIN p.blanks :
                 /\ p.blanks[i].index \in Range(Of(Markers, p.text, <<>>))
                 /\ bank # {} => p.blanks[i].answer \in bank
       [] e.type = "multiple_choice" -> All(p.questions, Chooses)
       [] e.type = "reading" ->
            All(p.questions, LAMBDA q : q.kind = "multiple_choice" => Chooses(q))
       [] e.type = "script_practice" ->
            All(p.items, LAMBDA x : x.kind = "choice" => Chooses(x))
       [] OTHER -> p = NoPayload => e.type = "writing_prompt"

\* Whatever the import trimmed, normalised or left out of the item, a shown lesson
\* can be answered in full (domain/lesson validators, dynamolessons items).
ShownLessonIsAnswerable ==
  shown # NoDoc => All(DecodeLesson(AsDocument(shown)).exercises, Answerable)

\* A lesson as it is shown is refused by the import, and for its createdAt alone:
\* without that it passes every rule again, wherever it is imported, and is stored as
\* it is here.  New leaves its own results alone, and neither encoding loses anything
\* (lesson.New, toLessonDetail, decodeStrict, decodeLessonDocument).
ShownLessonImportsAgain ==
  shown # NoDoc =>
    LET doc == AsDocument(shown)
    IN /\ ~Decodes(shown) /\ Decodes(doc)
       /\ New(DecodeLesson(doc)) = [reply |-> "accepted", lesson |-> ToDomain(item)]

\* A result answered with 201 is in the table and in the learner's progress,
\* whichever of its deliveries got how far before (Service.Record, and
\* docs/lessons.md:92-93; lines 155-156 there still say that results schedule nothing).
AcknowledgedAttemptIsRecorded ==
  \A d \in Deliveries :
    pc[d] = "created" => Stored(Result(d)) /\ AttemptOf[d] \in progress

\* No progress without a result to show for it: Record puts the row first.
ProgressHasResult == \A a \in progress : Stored(result[a])

\* A listing counts each completion once, and all those settled when it began, and
\* shows the latest.  That is out of the points the lesson is listed with, unless it
\* is left from a lesson of the same id that was deleted (ListCompletions,
\* summarizeCompletions, toLessonSummary, Service.Delete).
ListingIsExact ==
  /\ IsInjective(list.seen) /\ Range(list.seen) \subseteq rows
  /\ list.at = "done" =>
       LET ours  == {row \in Range(list.seen) : row.lessonId = shown.lessonId}
           shows == Summarize(list.seen, shown.lessonId)
       IN /\ list.began \subseteq Range(list.seen)
          /\ shows.count = Cardinality(ours)
          /\ \A row \in ours : row.completedAt <= shows.last.completedAt
          /\ ours # {} => shows.last \in ours
          /\ ours # {} /\ list.summary # NoDoc /\ shows.last \notin Earlier =>
               shows.last.maxScore = list.summary.totalPoints

\* docs/lessons.md: a document that fails is answered with all its issues.
EveryDocumentIsAnswered == reply # "panic"
=============================================================================
