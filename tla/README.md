# langler-backend in TLA+

langler-backend is the server of a language-learning application: a Go program
in a hexagonal layout (`internal/domain`, `internal/application`,
`internal/adapters`), run as AWS Lambda functions over one DynamoDB table, and a
Python ETL (`etl/`) that fills the table's reference rows.  No process keeps
state between requests.  What can go wrong goes wrong in the table: requests
interleave between their reads and their writes, reads may be stale, calls fail
or lose their answers, an invocation is stopped, clients send again.

This directory models those requests one DynamoDB call at a time, checks them
with TLC on small instances, and proves the central invariants with TLAPS for
every value of the constants.

## The system

| component | state (rows) | operations | what makes it correct |
|---|---|---|---|
| **Review progress** (`application/progress`, `dynamoprogress`) | one row per review item with its schedule and a `version`; one activity row per recorded lesson or review | `RecordLesson`, `Grade`; `Due`, `Summary` read | no schedule is lost, applied twice or set back, whatever is retried or delivered again |
| **Schedule** (`domain/progress`) | an item's ease, interval, repetitions | `Schedule`, `GradePerformance` | bounds; better grades come back later; success never shortens an interval |
| **Placement assessment** (`domain/assessment`, `application/assessments`, `dynamoassessments`) | a session row per assessment with a `version`; one profile-level row per language | `Start`, `Answer`; `Get`, `Levels` read | answers score the paper that was shown; scores are final; the profile level is a completed session's |
| **Lesson library** (`application/lessons`, `dynamolessons`, `dynamoglossary`) | lesson rows, import markers per Idempotency-Key, a glossary row per word with the set of lessons that use it | `Import`, `Delete`; `Get`, `List`, glossary reads | a repeated import repairs, a key creates one lesson, the glossary agrees with the lessons |
| **Lesson results** (`lessons.Service.Record`, `domain/lesson/result.go`) | a result row per attempt and completion time | `Record`: `SaveResult`, then `progress.RecordLesson`; completions read | a delivery that failed half-way is completed by the next; a result is judged by the lesson it is of |
| **Lesson documents** (`domain/lesson`, `httpapi/lessons.go`, `dynamolessons/items.go`) | none | `New`, validation of each exercise type; translation to and from JSON and table items | what is accepted can be answered and graded; nothing is lost on the way through table and API |
| **Prompts and topics** (`lessons/prompt.go`, `topics.go`, `glossary.go`) | none | select the words and grammar of a prompt, rank topics, write the prompt | new words come first; what is offered can be cited |
| **Agent tokens** (`agenttoken`, `agenttokens`, `dynamoagenttokens`, `machineauth`) | a token in two rows (by owner, by hash), a request counter per minute | `Create`, `Revoke`, `List`, `Authorize` | both rows agree; the counter bounds a minute; a revoked token is refused |
| **Reference data** (`application/reference`, `dynamoref`, `semanticref`) | reference rows, written by the ETL only; a cached vector index | paged reads with cursors, batch reads, similarity search | a reader that pages through sees every row that stays |
| **ETL** (`etl/langler_etl`) | files, then the reference rows | `build`, `load`, `prune` | a load can be repeated; stale topics go, other rows stay |
| **Burmese text** (`domain/burmese`), other **HTTP** handlers, **entry points** | none | pure conversions, wiring | |

How they interact: the HTTP handlers decode a request, call one service method
and encode its answer.  `Record` calls `progress.RecordLesson` after storing the
result; `Import` and `Delete` call the glossary; `Import`, `RecordLesson` and
the assessments and prompts read reference rows, which no request changes but a
load of the ETL does, at any time.  All other
sharing is through the rows named above, by concurrent requests of one owner
(two tabs, an agent and a browser, a client that sends again).

### Where it is hard

* **Interleaving.** Every handler is read, compute, write; nothing is locked.
  Versions and `attribute_not_exists` conditions are the only guards.
* **Stale reads.** `BatchGetItem` of review items and `GetItem` of lessons are
  eventually consistent and may return any earlier state of a row; so are the
  queries that list completions and page through reference data.  Sessions and
  import markers are read consistently.
* **Partial failure.** Item rows and the activity row, the session and the
  level, the lesson and the marker are written in one transaction each.  A
  lesson and its glossary rows, and a result and its progress, are not.
* **Lost answers and repeated deliveries.** The repositories look for the
  activity row, the marker or the session after an error, to tell "done
  already" from "lost a race".
* **Retries** are bounded (`saveAttempts = 4`), and lost races are errors.
* **Numbers.** Scheduling and scoring use floats, rounding and caps.

`PROJECT.json` lists each hazard at its line (`hazards`) with the properties
that would catch it going wrong.

## The modules

| module | models | abstraction of |
|---|---|---|
| `ReviewLedger` | what the progress store promises: an append-only history per item | |
| `ReviewProgress` | `Grade` and `RecordLesson` over `GetItems`, `SaveLesson`, `SaveReview` | refines `ReviewLedger` |
| `LessonPerformance` | `lessonPerformances`, `GradePerformance` | |
| `SrsSchedule` (extends `LessonPerformance`) | `Schedule`, `nextInterval` under any sequence of reviews and lessons | |
| `PlacementRules` | the pure rules: `NewSession`, `Answer`, `complete`, `replayView` | |
| `PlacementTest` (extends `PlacementRules`) | what an assessment promises: atomic opening and scoring | |
| `PlacementAssessment` (extends `PlacementRules`) | `Start` and `Answer` over `Create`, `Get`, `Save` | refines `PlacementTest` |
| `LessonLibrary` | `Import` and `Delete` over `SaveIdempotent`, `Get`, `Delete`, `AddLessonWords`, `RemoveLessonWords` | |
| `LessonDocument` | `lesson.New`: the rules of a lesson and of its eight types of exercise, and the scripts' hooks | |
| `LessonWire` (extends `LessonDocument`) | `lessonDocument` and its payloads, `lessonItem`, and the translations between them | |
| `LessonResult` (extends `LessonDocument`) | `NewResult`, `resultScale`, `scoreFor` | |
| `LessonStudy` (extends `LessonWire`, `LessonResult`) | a lesson's way from import to result: `Import`, `Get`, `Record`, `List` | |
| `Listing` | what a sort, an ordered query and a filtering loop return | |
| `PromptSlice` (extends `Listing`) | the selection of words and topics for a prompt | |
| `StageAssembly` | `BuildStage`: the items of a placement stage and their options | |
| `ReferenceData` (extends `PromptSlice`, `StageAssembly`) | loads of reference data, and every paged and batched read of them | |
| `AgentTokens` | `Create`, `Authorize`, `Revoke` over the two rows of a token and the request counters, and the time-to-live | |
| `MCReviewProgress`, `MCPlacement`, `MCLibrary`, `MCLessonStudy`, `MCReferenceData`, `MCAgentTokens` | the instances TLC checks | |
| `ReviewProgress_proofs` | proofs about `ReviewProgress` | |
| `Schedule_proofs` | proofs about `LessonPerformance` and `SrsSchedule` | |
| `PlacementAssessment_proofs` | proofs about `PlacementAssessment` | |
| `LessonLibrary_proofs` | proofs about `LessonLibrary` | |
| `Listing_proofs` | lemmas about `Listing` | |
| `LessonStudy_proofs`, `ReferenceData_proofs` (extend it) | proofs about `LessonStudy`; about `PromptSlice`, `StageAssembly` and `ReferenceData` | |
| `AgentTokens_proofs` | proofs about `AgentTokens` | |

Conventions.  A request is an element of a set of requests with a program
counter `pc[r]`, which holds the next DynamoDB call or, at the end, what the
request answered.  What a handler does between two calls is part of the action
of the first: it is invisible to others.  Operators keep the names of the
functions they model where they can.  An operator whose comment begins with
"Mutant of" is a broken variant of the definition that follows it; nothing uses
it, it is there to be put in that definition's place to see that a property
notices (`mutants` in `PROJECT.json`).  An action `...Unheard` is a call that
takes effect while its answer is lost.  The AWS client may send such a call
again: a transaction carries a token and is answered as before, but a plain
conditional write then fails on its own effect, and the caller believes it lost
a race (or that there was nothing to delete), and a counter counts twice.  Both
outcomes are modelled where they differ.

### ReviewProgress

`rows[k]` is the sequence of all rows item *k* has had, the stored one last: a
request remembers the number of the row it read, and a stale read is a smaller
number.  A row's `trail` is the sequence of activities its schedule is the
result of; that is all the properties need to know of a schedule.  `version`
and `attempt` are `version` and `LastLessonAttemptID` of the row.

| action | code |
|---|---|
| `ReadItems` | `GetItems` and what follows it before the save: `scheduledLessonItems` or `Schedule`, `ErrNotFound` for a review, `ErrInvalidItem` for a lesson's item without reference context |
| `ReadFails` | `LookupProgress` or `BatchGetItem` fails, or keys stay unprocessed |
| `SaveCommits`, `SaveCommitsUnheard`, `SaveFails` | `TransactWriteItems` of the due items under `version = old` or `attribute_not_exists`, and of the activity row |
| `SaveCanceled` | the transaction is cancelled, by a condition or (`Collides`) by meeting another one |
| `FindActivity`, `MissActivity`, `FindFails` | `activityExists` after any error, and the retry loop |
| `Crash` | the invocation is stopped |

A review's activity key contains the server's clock in nanoseconds, so no two
review requests share one; a lesson's key contains the attempt and its
completion time, so a result that is sent again has the same key
(`WorkAssumption`).

The refinement to `ReviewLedger` maps `trail` to the trails of the stored rows.
It says that a commit is one atomic recording of an activity that was not on
record: it counts on every item its attempt has not counted on, and on no item
whose last lesson was that attempt.  Between the two the code may do either:
when an attempt is submitted under two completion times with another attempt's
lesson in between, `LastLessonAttemptID` no longer names it, and the item is
scheduled again.

### LessonPerformance and SrsSchedule

Ease factors are exact in twentieths (2.5 is 50), multipliers in tenths.  The
code multiplies floats and rounds; a product exactly half-way between two days
may come out on either side, and `Rounded` is the set of both.  Repetitions
above three behave as three.  An item is reviewed in any way, and graded by
lessons whose exercises pool their outcomes (`AddExercise`, `FinishLesson`);
`worst` and `best` record what the exercises would have earned alone.

### PlacementAssessment

A *paper* is the content of a stage and a *sheet* the submitted answers;
`Correct[p][s]` is how many answers of the sheet are right.  `BuildStage` picks
its items at random from the reference data, so the next stage is any paper.
`Grade` is `Get`, `Answer` and `buildStage` in one step: the reference rows they
read do not change.  `Put` is `Save`: the session under `version = old`, and the
level row with it when the session is completed.  `Reget` is what `Answer` does
after a conflict.  Start chooses the first paper; ids are drawn at random and
not drawn twice.  A stopped invocation is a request that takes no more steps.

### LessonLibrary

A document stands for a lesson's content and for its hash.  `past[id]` is all
that a lesson row has been, which an eventually consistent `Get` may return.
`Create` is the transaction of `SaveIdempotent` (or the put of `Save`) with its
conditions `Vacant`.  `ReadMarker` and `LoadExisting` follow a cancelled
transaction.  `AddWord` is one `UpdateItem` of `AddLessonWords`; `RemoveWord`
and `DropWord` are the two calls `RemoveLessonWords` makes for a word.  The
history variables `raced` and `removed` name the lessons for which an import
and a delete were under way at once, or a read was stale, and those that a
delete has begun to take out: the conditions of the two properties that need
one.

### LessonDocument, LessonWire, LessonResult and LessonStudy

A document is a record with the fields that were written; a text is opaque, and
constants say what the rules ask of it: what it is trimmed and normalised to,
how long it is, which `{{n}}` markers it has, in which script it is.  `New` is
`lesson.New`: every rule is a predicate that holds when it adds no issue, so a
lesson is accepted when all hold.  Rules read texts as trimmed, because each
validator trims before it looks (`Clean` is what `New` leaves of a lesson: each
text normalised, in a Burmese one, and trimmed where its validator trims it; the
exceptions, such as the answer of a short question, are where the code has
them).  `Panics` names the Burmese exercises whose hook reads a payload that is
not there.

`Schema` lists, for the documents of the API and the items of the table, the
fields with their zero values and those that `omitempty` leaves out.  `Read`
fills in what is absent, as both decoders do.  `ToItem`, `ToDomain`,
`ShowExercise` follow the translations of `items.go` and `lessons.go`, so that
a field left out in one of them is lost in the model too.  What is shown
(`ShowLesson`) is the lesson's document (`ShowDocument`) and `createdAt`, for
which the request refuses it: `AsDocument` takes it out, as the learner's client
does to work out an attempt, and as anyone must to import the lesson elsewhere.

`LessonStudy` imports any draft, shows the stored lesson, and lets a client
finish attempts at it (`Finish`: he marks every exercise as the lesson he was
shown says; `Distort`: he miscounts; `sent` records which).  `Deliver` is one delivery of the result,
one call at a time: `Check` is `Get` and `NewResult`, `Save` the conditional put,
`RecordProgress` the call of `RecordLesson`, reduced to the attempt it records.
`ListBegin` and `ListPage` are `ListCompletions` beside it.  A behaviour imports
one document once.  What the owner had recorded before is `Earlier`: rows of
other lessons, and rows that a lesson of the same id has left, since `Delete`
keeps them and the id can be imported again.  Only the drafts in
`Studied` are attempted, the others are imported and shown: what follows an
import depends on a draft through its exercises' scales only.

### PromptSlice, StageAssembly and ReferenceData

`table[k]` is the version of reference row *k* and `old[k]` what it was when
the rows last settled; a read sees either, row by row (`Views`).  A load puts
its release's rows through a batch writer, which may reorder the `PutBuffer`
next ones, then pages through the topics and deletes the stale ones, then
publishes the embeddings.  It may stop anywhere; the next may be of another
release or of one kind of rows.  Loads are an operator's, one at a time, and
the next is begun when the last one's writes have settled.

Meanwhile one *job* runs: browsing a kind of rows, listing the topics of a
level, making a prompt, building a stage, importing a lesson that cites offered
ids, or looking up a learner's words.  `ReadPage` is one page of a query with
its cursor, `ReadBatch` one `BatchGetItem` which may leave keys unprocessed;
what is between the last read and the next is an action `Use...`.  Ranged
queries (grammar of Polish and Burmese, at a level or below it) go downwards.
`index` is the embedding index that a process fetches once and keeps
(`ColdStart` is another process).  Jobs do not write reference rows, so two of
them do not meet.  Import looks its ids up without a limit of tries (`missing`),
the others give up after `MaxTries`.

What is known of the learner settles (`SettleLearner`), and lessons are deleted
with what only they had in the glossary (`DeleteLessons`), between two jobs and not
during one: a job reads it when it begins and what it has read is `covered`.  The
answer to the last job is history by then, and the job is idle again.

`PromptSlice` has the pure rules of a prompt: `UncoveredFirst` is
`selectUncoveredFirst`, `MatchTopics` is `matchTopics` and `RankTopics` the order in
which `Topics` lists.  Sorting and filtering are `Listed` and `Among`: place *n* of a
listing is the element with *n - 1* before it, which is what a sort by an order
without ties returns.  They are defined without recursion, so that they can be
proved about; the pages of `ListCompletions` and the pools of `BuildStage` are made
of them too.
`StageAssembly` builds the items that `BuildStage` may build; the code's random
picks are sets of all outcomes, one representative per kind of item.  Stage
items are drawn from `Pool`s without duplicates (`Distinct`, which is `dedupe`: an
entry is kept unless its prompt or its answer was kept before), and distractors by
likeness, part of speech and structure, which constants stand for.

### AgentTokens

`owner[t]` and `lookup[t]` are the two rows of a token, reduced to what the
steps read: whether the row has a token's attributes at all (`Whole`; without
them `toDomain` fails), whether it is stamped as revoked, and whether it shows a
use.  `lookup` is indexed by the token a hash belongs to, and by `NoToken` for
the empty hash of a row without attributes.  `Find`, `Check`, `Consume` and
`Touch` are the steps of `Authorize`; the clock is read in `Check`, after the
row.  `RevokeGet` and `RevokeWrites` are the two calls of `Revoke`; its updates
have no condition, so an update of a row that is gone puts one back (`Stamped`).
The sweeps remove either row of a token once its `expiresAtUnix` has passed, and
a counter two minutes after the start of its window.

Time is in minutes.  `Tick` waits for requests that were checked in the minute
before and have not been counted: an authorizer is stopped long before it has
been at work for a minute, so none counts against a window whose counter may
have been swept.  `late` records the requests not yet looked up when their
token's revocation is written.  Owners are left out (a call reaches its owner's
rows only), and so are the times in the two stamps.

## What TLC checks

Every passing run also fires every action of its specification, and every
property it lists is violated when the mutant named for it replaces a
definition.  `CHECK_DEADLOCK FALSE` stands where requests may all be finished.

| run | instance | properties | shows |
|---|---|---|---|
| `ReviewDelivery` | a lesson on two items sent twice, a grade of one, a lesson naming an item without reference data, and one attempt under two completion times with another in between; 2 attempts, 2 faults | `TypeOK`, `AnswersTellWhatWasWritten`, `VersionsCountSchedules`, `RecordedIsScheduled`, `ScheduledOnce`, `ImplementsLedger` | answers tell what was written; no update is lost or doubled; the store is the ledger |
| `ReviewContention` | three grades and the lesson that creates the item, 4 attempts, fair | `ConflictHasCause`, `NoScheduleRegression`, `EveryRequestEnds` | every lost attempt is somebody's gain, a stale read or a collision; requests end |
| `SrsSchedule` | cap 365, lessons of up to 5 answers | `TypeOK`, `GradesAreOrdered`, `SuccessNeverShortens`, `PooledGradeBetween` | every reachable schedule |
| `Placement` | two sessions of two bands, five requests, two of them alike and one different, 1 fault | `TypeOK`, `AcknowledgedAnswerCounts`, `ScoresAreFinal`, `EstimateIsHighestPassed`, `ImplementsTest` | racing answers score one sheet per stage, on the paper shown |
| `PlacementLatest` | two sessions completing at once | `LatestCompletedOwnsLevel` (violated) | see Findings |
| `Library` | a lesson imported twice under a key, the key reused for another lesson that shares a word, a new version without a key, a delete; 1 fault | `TypeOK`, `AcknowledgedImportIsInGlossary`, `OrphansComeFromRaces`, `KeyNamesOneLesson` | repeats repair, and only races leave traces |
| `LibraryReuse` | a key first used for a lesson that is there, then for another | `KeyReuseIsRefused` (violated) | see Findings |
| `LessonStudy` | 15 documents to accept, 24 to refuse and 3 without payloads; two attempts at one lesson in three deliveries, a result of another lesson and one of a deleted lesson of the same id with fewer points in the table, pages of 2; 1 fault | `TypeOK`, `ResultsAreJudgedByTheLesson`, `ShownLessonIsAnswerable`, `ShownLessonImportsAgain`, `AcknowledgedAttemptIsRecorded`, `ProgressHasResult`, `ListingIsExact` | what is imported can be studied, shared and recorded, once per attempt |
| `LessonPanic` | the same | `EveryDocumentIsAnswered` (violated) | see Findings |
| `ReferenceData` | Japanese and Polish, 12 rows of 3 kinds and 2 levels in two releases; scenarios of up to two loads of any kind, of one load beside any one job, of a prompt and an import beside one, and of three prompts | `TypeOK`, `ReadsMissNothing`, `FinishedLoadIsTheRelease`, `OfferedIdsCanBeReferenced`, `NewWordsComeFirst`, `StageIsAnswerable` | reads beside loads are complete, loads repair, prompts lead through a level, stages have one right option |
| `AgentTokens` | a token for one scope, two requests where one a minute is allowed and one outside the scope, two revocations; expiry after 2 minutes, retention 1, 4 minutes in all; 1 fault | `TypeOK`, `RefusesUnentitled`, `MinuteIsBounded`, `CopiesAgree`, `UseIsShown` | authorization holds beside revocations and sweeps |
| `AgentTokensSweep` | the same | `RowsExpire` (violated) | see Findings |

**Bounds.**  The instances are the smallest in which the case each property is
about happens.  Losing an update takes two requests on one item, losing it to a
stale read a third row, so three or four requests on one to three items.  The
retry loop is checked at its real length in `ReviewContention`, where nothing
fails, and at two rounds where requests also fail.  `MaxFaults` bounds failed
and unheard calls in a behaviour; crashes are not bounded.  Two bands have all
branches of `complete`: failing the first, failing a later one, passing the
last.  A lesson with two words has a middle to stop in, and a second lesson with
one of them shares a row.  The schedule is checked with its real constants, and
proved for all caps; `MaxTotal` bounds the answers of a lesson's pool in TLC.

The documents of `LessonStudy` break or meet the rules one at a time, and go
through every type, hook and omitted field.  An attempt misses no answer of an
exercise or one of them.  Two results and two earlier ones make two pages, and the
earlier one of the lesson's id is sometimes the latest of them.  In
`ReferenceData` a query has up to seven rows on pages of two, so a cursor's row
can be deleted under it; slices of two or three of these rows stand for the
code's 20, 30, 40 and 8 (`VocabSlice`, `MatchedPool`, `FreePool`,
`GrammarSlice`), two tries for four, and no pool needs more than `MaxPages`.
`MaxLag` bounds the rows that have not settled at once; a row that is written
twice before it settles is seen as the last or as the settled one.  Interleaving
two loads, or a load and several jobs, multiplies states without a new meeting
of steps: the scenarios give each pairing its own initial state.

**Fairness.**  `FairSpec` of `ReviewProgress` has weak fairness of each
request's next step: the Lambda runtime goes on running a handler that waits for
nobody, until it stops it (`Crash`, which is not fair).  It does not assume that
conflicts cease; `EveryRequestEnds` rests on the loop's bound.

## What is proved

TLAPS proves the following for all requests, activities, items, bounds and caps
that satisfy the named assumptions of the modules (`WorkAssumption`,
`BoundAssumption`, `IntervalAssumption`, `TotalAssumption`, `PaperAssumption`,
`RequestAssumption`, `LibraryAssumption`, `StudyAssumption`, `TokenAssumption`,
`RowAssumption`, `TextAssumption`, `LevelAssumption`, `DocumentAssumption`,
`SliceAssumption`, `ReferenceAssumption`, `EntryAssumption`, `ReleaseAssumption`,
`ScenarioAssumption`).  Most say of a constant no more than its type.  The others:

* `ReleaseAssumption` is what `topic_records` of `etl/langler_etl/topics.py` makes
  sure of: a topic is made of the words of its own release that are tagged with it,
  so that it has one at least.  `EntryAssumption`: a row is stored under its own id.
* `TextAssumption`: what is trimmed or normalised stays so when it is again
  (`strings.TrimSpace`; `Normalize` of `domain/burmese` reorders marks and composes
  letters, and white space is neither).
* `LevelAssumption`: the levels of the languages are written in upper case.
* `DocumentAssumption`: the decoders make lists of a document's lists, and what is
  written or shown of a lesson is not nothing.
* `RowAssumption`: keys of rows are in an order, and no two of the owner's earlier
  rows share one.  They may be of the lesson's own id.

| theorem | statement |
|---|---|
| `TypeCorrect` | `ReviewProgress!Spec => []TypeOK` |
| `VersionsAreCounts` | `Spec => []VersionsCountSchedules` |
| `HistoryOnlyGrows` | `Spec => NoScheduleRegression` |
| `NothingLost` | `Spec => []RecordedIsScheduled` |
| `NothingTwice` | `Spec => []ScheduledOnce` |
| `StoreIsLedger` | `Spec => ImplementsLedger` |
| `AnswersAreTrue` | `Spec => []AnswersTellWhatWasWritten` |
| `ConflictsHaveCauses` | `Spec => []ConflictHasCause` |
| `ScheduleTypeCorrect`, `NeverShortens`, `BetterIsLater`, `PooledBetween` | the invariants of `SrsSchedule` |
| `PlacementTypeCorrect`, `AcknowledgedCounts`, `EstimateCorrect`, `ScoresStay` | `TypeOK`, `AcknowledgedAnswerCounts`, `EstimateIsHighestPassed` and `ScoresAreFinal` of `PlacementAssessment` |
| `StoreIsTest` | `PlacementAssessment!Spec => ImplementsTest` |
| `LibraryTypeCorrect`, `KeysNameOneLesson`, `AcknowledgedImports`, `OrphansOnlyFromRaces` | all invariants of `LessonLibrary` that the run `Library` checks |
| `AcknowledgedAttempts`, `ProgressBehindResult` | `AcknowledgedAttemptIsRecorded` and `ProgressHasResult` of `LessonStudy` |
| `StudyTypeCorrect`, `ShownIsAnswerable`, `ShownImportsAgain`, `ResultsAreJudged`, `ListingExact` | `TypeOK`, `ShownLessonIsAnswerable`, `ShownLessonImportsAgain`, `ResultsAreJudgedByTheLesson` and `ListingIsExact` of `LessonStudy` |
| `ReferenceTypeCorrect`, `LoadsAreExact`, `NoReadMissesARow`, `OffersCanBeReferenced`, `NewWordsFirst`, `StagesHaveOneAnswer` | `TypeOK`, `FinishedLoadIsTheRelease`, `ReadsMissNothing`, `OfferedIdsCanBeReferenced`, `NewWordsComeFirst` and `StageIsAnswerable` of `ReferenceData` |
| `TokenTypeCorrect`, `RowsAgree`, `NobodyUnentitled`, `UseStaysShown`, `LimitHolds` | the invariants of `AgentTokens` |

*Progress.*  The argument is about versions.  `IInv` says that row *n* of an
item carries version *n* and a history of *n* activities, and that no request
has seen a row that is not there.  So when a request's new row has a version one
above the stored row's, it was computed from the stored row: the condition
alone makes stale reads harmless, without any assumption on what they return.
From this, histories only grow.  `HInv` adds that a row's history is a prefix of
the next one's, that `LastLessonAttemptID` is the attempt of the last lesson in
it, and the two properties themselves.  An item that a lesson skips carries its
attempt's stamp, hence its attempt is in the history (`NothingLost`); an
activity that is in the history is on record, and an activity on record cannot
be written again (`NothingTwice`).  With these, a commit is a step of the ledger
and every other step leaves it alone (`StoreIsLedger`).

`AInv` is what answers rest on: a request that has committed does not run on to a
conflict, one that was told ok has its activity on record, a review's activity is its
own, so finding it means having written it, and the rows it computed for its commit are
rows the table has held (`CommitsHeld`).  `CInv` counts: a request about to save either
has read what the table still holds (`Fresh`), or has a rival or an excuse in hand for
one more loss (`Slack`); a commit that overtakes it turns the one into the other.

*Schedule.*  The invariant `IInv` of `Schedule_proofs` adds to the types that
two successes in a row mean an interval of three days or more, which is what
makes the growth survive rounding; the rest is linear arithmetic over products
(the smallest product of ease and multiplier, 1.3 * 0.8, is above 1).
`PooledBetween` rests on each grade being a linear condition on the pool
(`PooledTwo`).

*Placement.*  A request holds in its memory a session it read some time ago and has
worked on since.  `Saving` says that while the stored version is still the one it
read, the stored session is too, and that what the request is about to write follows
from it; so the version condition alone makes a save one step of the atomic test
(`StoreIsTest`), and no save can change an answered stage (`Grows`, `ScoresStay`).
`Formed` describes the sessions that can be stored: one stage per band, all but the
last passed, and done exactly when the last is answered.
Both branches of `complete` then name the highest passed band.  `Acknowledged` says
of a request told ok that the stored session has its sheet; sessions only grow, so
this stays.

*Library.*  `Base` has the types and what ties a request to its lesson: markers and
rows belong to the id they name, an import has its own lesson in hand, and one that
created its lesson has left the marker, which never goes away and without which no
other import of the key creates one.  `GlossaryInv` adds that until a delete takes
a lesson in hand its row has had one document (so a stale read returns it or
nothing), and that each of its words is referenced or in the list of words an import
has yet to add; deletes of other lessons only take out their own.  `OrphanInv` is
about lessons that have not raced: nobody adds and removes at once, an import in the
act of adding has the stored lesson in hand, and a delete's remaining words (`Left`)
cover all references there are, so there are none when it erases the lesson.  A row
without lessons is held by the delete that emptied it (`Holding`).

*Deliveries.*  `DeliveryInv` follows a delivery through its calls: past the save its
row is there, progress is recorded behind a row, and rows stay.  That another
delivery's answer was lost, or the lesson was deleted meanwhile, changes nothing.

*Documents.*  Every text, list and exercise of a document is followed on its own, so
the round trips need no induction over data: what an item or a shown document leaves
out is what reading it fills in again, for each field of each type of exercise, and
cleaning what is clean changes nothing.  `ShownInv` then says that the stored item is
that of the draft as `New` accepted it, and the shown document that of the item; so
what is shown is valid (`ShownIsAnswerable`), and `New` makes the same lesson of it
once `createdAt`, which no schema of the request has, is out (`ShownImportsAgain`).  `ResultInv` says of each result whether it was worked out from
that lesson, in any of the ways the client may, and that a delivery is where
`NewResult` sent it: an honest result meets each rule, a distorted one breaks one of
them, whatever scales the exercises have (`ResultsAreJudged`).

*Listing.*  `RowsInv` says that rows were there before or are of an honest result
and that no two have one key.  `ListInv` is the argument for cursors again: what has
been seen is in the order of the keys, and each row that was settled when the listing
began has been seen or is beyond the cursor.  The summary of a list in order is then
computed of exactly these (`ListingExact`).  A row of an honest result is out of the
lesson's points; of one that was there before, nothing is known, so the theorem says
nothing of its marks.

*Reference data.*  `TInv` adds to the types what a job and a load may hold at each
of their places.  `LInv` follows a load: what it has still to put and what it has put
make up its records, and before the last page of its scan every topic in the table
that the release lacks is in `stale` or beyond the cursor.  The scan's reads may be
stale, but only of rows this load has put: the rows of such topics had settled when it
began, and it has not touched them yet.
`RInv` is the argument for cursors: what has been seen goes strictly in the order of
the query, the cursor is at or behind the last of it, and each row of `base` has been
seen or is beyond the cursor.  A page takes the first rows beyond the cursor, whatever
the view, and a row of `base` is in every view; so it is on the page or beyond its
last row.  That the row under the cursor is deleted does not matter, as a cursor is a
place in the order.  `GInv` keeps what has been offered in the table: it was read from
it, and a load deletes topics only.  `NInv` says that a job's choice was made from its
candidates by what it had read of the learner, which lies between `learned` and
`known`.  That the first topic listed is the least covered, and that a choice without
something new has all that is new, are lemmas about `RankTopics` and `UncoveredFirst`,
which rest on counting what comes before an element (`Listing_proofs`).

*Stages.*  `StageIsAnswerable` follows from the types of a job and from lemmas about
`StageAssembly`.  `dedupe` goes on from what it kept before, so `Unlike` is a recursive
function, and that there is such a function at all has to be shown: were there a
length without one, there would be a least, and a function for one entry less could be
extended (`KeptExists`).  What is kept differs in prompt and answer (`UnlikeKeeps`), so
the three traps of an item and its own answer are four, wherever it is put
(`ItemsAnswerable`), and the counts of the three kinds add up to ten at most.

*Agent tokens.*  `Belong` says whose attributes a row or a copy in hand carries.
Each property then has an invariant of its own.  The rows agree because a
revocation that is about to write knows the hash until the retention ends
(`KnowsHash`): only a row that an update had put back lacks it.  For the same
reason a late request finds a stamped row, no row, or an expired token
(`LateRefused`), and stays refused.  A use stays shown because rows of a token
that was created are changed field by field and never made anew (`Created`).
For the limit, `CountsCover` says that while a counter cannot be swept it is at
least the number of requests that have passed it, and `Prompt` that no request
counts against a minute whose counter can.

Only model-checked: `EveryRequestEnds`, which is liveness under fairness and out of
the prover's reach.  Every other property of a passing run is a theorem.

## Findings

* `docs/agent-authoring.md:16-19` says that both rows of a token carry
  `expiresAtUnix` and are swept.  `Revoke` updates both without a condition: when
  one is already swept, it leaves a row of nothing but `revokedAt`, which stays
  for good; under the owner, such a row makes `List` fail (`AgentTokensSweep`).
* `docs/assessments.md:84-85` says that the latest completed assessment always
  owns the profile level.  `Save` puts the level row unconditionally, and the
  completion time is taken before it: of two assessments that complete at about
  the same time the one *saved* last owns it (`PlacementLatest`).
* `docs/lessons.md:72-73` says that reusing an Idempotency-Key with different
  content returns 409.  The marker is written only when the lesson is created:
  a key whose first import found its lesson already there is not remembered
  (`LibraryReuse`).

* `docs/lessons.md:79-81` says that a document that fails is answered with all
  its issues in one pass.  `New` collects the issue of a missing payload and goes
  on, and the hook of the Burmese script then reads that payload: such an import
  panics and is not answered (`LessonPanic`).  The hook of Japanese looks first.

Known limits that the properties state as conditions: a delete that meets an
import of the same lesson, or a read that is stale, can leave the glossary counting
a lesson that is gone (`OrphansComeFromRaces` allows it only then, and exempts such
lessons from what it says), against the plain reading of
`docs/lessons.md:151-152`; and an attempt submitted under two completion times
may schedule an item twice (`ReviewLedger!MayTake`).

Smaller things met while modelling, of which no run is made.
`docs/lessons.md:154-156` says of results that "no SRS schedule is created at this
stage"; `Record` hands every result to `RecordLesson`, which schedules its items
(`service.go:325`), as lines 92-93 of the same document say and
`AcknowledgedAttemptIsRecorded` requires.  A lesson as `GET /lessons/{id}` answers
it cannot be imported, for its `createdAt` (`httpapi/lessons.go:592-602,786-810`).
When a lesson is deleted and its id is imported again with other points, the list
shows the completions of both as one lesson's, and until the first new attempt, or
while an old one is later, the last result it shows is the old one, out of the old
points (`service.go:228-246,290-308`).
`docs/assessments.md:18-24` says that stages draw on the band's grammar; in
Polish and Burmese the pool takes in the levels below it too
(`dynamoref/repository.go:68`).  Of words with the same reading, one is kept as
an item; the other's gloss may still be a distractor where it would be right as
well.  A stage from thin pools may have fewer than ten items, and four at least.
`docs/lessons.md:134` counts as covered the words under review; the code counts
those of the glossary too.  If the lesson is deleted between a delivery that
stored its result and failed to record the progress, and the next, the progress
is never recorded: the next finds no lesson.

Two things the properties do not see.  The client of `LessonStudy` scores with the
operators of `LessonResult`, so a client whose rounding differs from `scoreFor`
would not be noticed.  And `OfferedIdsCanBeReferenced` and `NewWordsComeFirst` take
a learner's glossary as settled when a job begins, as said above: a delete during a
job is not among their interleavings.

## What is not modelled

Formatting, logging and HTTP status codes; table keys, except as identities and
for their order; owners and languages (every row belongs to one of each, and
the models are of one); the wording of prompts and the checks of their requests;
characters: trimming, Burmese normalisation and segmentation, and the shape of
ids are constants of `LessonDocument`; a second import of a lesson's id while
attempts at the first are under way; embeddings, of which only the order of
likeness counts; the times of results, except for their order.  In the ETL,
download and build turn dictionaries into files.  The read side of progress
(`Due`, `Summary`, streaks and history), `Get` and `Levels` of the assessments
and the listings of the glossary and of tokens change nothing and feed nothing
that does.  The readings and scripts of `dynamoref` are the same paged query
over other rows; a cursor handed to a query it is not of is refused before
anything is read.  Lambda entry points are wiring.

## Plan

1. Core (done): review progress with its ledger, schedule, placement, library,
   agent tokens; proofs about progress, schedule and agent tokens.
2. Lessons from document to result, and reference data from load to prompt and
   stage (done).
3. Proofs about the placement and its refinement, the library and the deliveries
   of results (done).
4. Proofs about the answers of the progress store and about reference data (done).
5. Proofs about the documents, results and listings of `LessonStudy` and about stages
   (done).
6. Next: the reads of progress (`Due`, `Summary`), and abstract specifications of the
   lesson library and of the token store, which their proofs would refine.

The runs stay few: each component has one passing run with all of its
properties, and a violation run only for a documented promise the code breaks.
