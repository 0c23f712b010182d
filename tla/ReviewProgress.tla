---------------------------- MODULE ReviewProgress ----------------------------
(***************************************************************************)
(* The spaced-repetition store of langler-backend: the requests that       *)
(* reschedule review items (progress.Service.Grade and .RecordLesson) and  *)
(* the DynamoDB rows they read and write (dynamoprogress.Repository).      *)
(*                                                                         *)
(* A request is one run of Grade or RecordLesson.  It reads the items it   *)
(* is about with an eventually consistent BatchGetItem, computes their     *)
(* next schedule in memory, and writes the new items and one activity row  *)
(* in a single conditional transaction.  A canceled transaction is retried *)
(* from the read, at most SaveAttempts times.                              *)
(*                                                                         *)
(* What a schedule is (ease, interval, repetitions) is the subject of      *)
(* SrsSchedule; here a row's schedule is the sequence of the activities    *)
(* it is the result of, its trail.                                         *)
(***************************************************************************)
EXTENDS Integers, Sequences, FiniteSets

CONSTANTS
  Requests,      \* runs of Grade and RecordLesson
  Activities,    \* keys of activity rows: what a request records, once
  Reviews,       \* the activities that are graded reviews; the rest are lessons
  Items,         \* the review items of one owner and language
  Described,     \* the items LookupProgress finds a reference context for
  ActivityOf,    \* the activity each request records
  ItemsOf,       \* the items each activity schedules
  AttemptOf,     \* the attempt id of each lesson activity
  NoAttempt,     \* LastLessonAttemptID of an item no lesson has scheduled
  SaveAttempts,  \* saveAttempts
  MaxFaults      \* bound: failed calls and lost answers in a behaviour

Lessons  == Activities \ Reviews
Attempts == {AttemptOf[a] : a \in Lessons}

(***************************************************************************)
(* A review names one item, and the server stamps it with its own clock,   *)
(* so two review requests never share an activity row.  A client that      *)
(* re-sends a lesson result re-sends the same activity.                    *)
(***************************************************************************)
ASSUME WorkAssumption ==
  /\ Reviews \subseteq Activities
  /\ Described \subseteq Items
  /\ ActivityOf \in [Requests -> Activities]
  /\ ItemsOf \in [Activities -> SUBSET Items]
  /\ \A a \in Reviews : \E k \in Items : ItemsOf[a] = {k}
  /\ \A r, s \in Requests :
        ActivityOf[r] = ActivityOf[s] /\ ActivityOf[r] \in Reviews => r = s
  /\ DOMAIN AttemptOf = Lessons
  /\ NoAttempt \notin Attempts

ASSUME BoundAssumption == SaveAttempts \in Nat \ {0} /\ MaxFaults \in Nat

VARIABLES
  rows,      \* rows[k]: the rows item k has had in the table, the stored one last
  recorded,  \* the activity rows in the table
  pc,        \* where each request is, or what it answered
  tries,     \* tries[r]: r's transactions that were canceled
  view,      \* view[r][k]: which row of k request r last read, 0 for none
  faults,    \* failures so far
  committed, \* history: the requests whose transaction committed
  excuses    \* history: stale reads, failures and collisions that hit each request

vars == <<rows, recorded, pc, tries, view, faults, committed, excuses>>

-----------------------------------------------------------------------------
(***************************************************************************)
(* Types                                                                   *)
(***************************************************************************)
Row == [version : Nat, attempt : Attempts \union {NoAttempt}, trail : Seq(Activities)]

Blank == [version |-> 0, attempt |-> NoAttempt, trail |-> <<>>]

Running  == {"read", "save", "canceled", "failed"}
Answers  == {"ok", "conflict", "storage", "notFound", "invalid"}
Finished == Answers \union {"crashed"}

TypeOK ==
  /\ rows \in [Items -> Seq(Row)]
  /\ recorded \subseteq Activities
  /\ pc \in [Requests -> Running \union Finished]
  /\ tries \in [Requests -> Nat]
  /\ view \in [Requests -> [Items -> Nat]]
  /\ faults \in Nat
  /\ committed \subseteq Requests
  /\ excuses \in [Requests -> Nat]

-----------------------------------------------------------------------------
(***************************************************************************)
(* Rows and the schedules computed from them.  rows[k] only grows, so a    *)
(* request's memory of what it read is the number of the row it read.      *)
(***************************************************************************)
IsReview(r) == ActivityOf[r] \in Reviews
Touched(r)  == ItemsOf[ActivityOf[r]]

RowAt(k, n) == IF n = 0 THEN Blank ELSE rows[k][n]
Stored(k)   == RowAt(k, Len(rows[k]))
Trail(k)    == Stored(k).trail

\* Mutant of Due: a lesson is counted again on the item it was the last to schedule.
DueRegardless(r) == Touched(r)

\* The items a request schedules: not those its own attempt was the last to schedule.
Due(r) == {k \in Touched(r) :
              IsReview(r) \/ RowAt(k, view[r][k]).attempt # AttemptOf[ActivityOf[r]]}

\* Mutant of Scheduled: a review stamps the item with its own key.
ScheduledStampingReviews(r, k) ==
  LET old == RowAt(k, view[r][k])
  IN  [version |-> old.version + 1,
       attempt |-> IF IsReview(r) THEN ActivityOf[r] ELSE AttemptOf[ActivityOf[r]],
       trail   |-> Append(old.trail, ActivityOf[r])]

\* Mutant of Scheduled: the version is that of the table, the schedule that of the read.
ScheduledOverStored(r, k) ==
  LET old == RowAt(k, view[r][k])
  IN  [version |-> Stored(k).version + 1,
       attempt |-> IF IsReview(r) THEN old.attempt ELSE AttemptOf[ActivityOf[r]],
       trail   |-> Append(old.trail, ActivityOf[r])]

\* Schedule, and the attempt id RecordLesson leaves on the item.
Scheduled(r, k) ==
  LET old == RowAt(k, view[r][k])
  IN  [version |-> old.version + 1,
       attempt |-> IF IsReview(r) THEN old.attempt ELSE AttemptOf[ActivityOf[r]],
       trail   |-> Append(old.trail, ActivityOf[r])]

\* Mutants of VersionHolds: a put without a condition, and one that compares with the
\* version it is about to write.
VersionUnchecked(k, row) == TRUE
VersionAhead(k, row)     == Stored(k).version = row.version

\* The condition of conditionalItemPut.
VersionHolds(k, row) == Stored(k).version = row.version - 1

\* Mutants of TransactionHolds: without the items' conditions, and without the
\* activity's.
TransactionOfActivity(r) == ActivityOf[r] \notin recorded
TransactionOfItems(r)    == \A k \in Due(r) : VersionHolds(k, Scheduled(r, k))

TransactionHolds(r) ==
  /\ \A k \in Due(r) : VersionHolds(k, Scheduled(r, k))
  /\ ActivityOf[r] \notin recorded

\* DynamoDB also cancels a transaction that meets another one on the same row.
Collides(r) == \E s \in Requests \ {r} :
                  /\ pc[s] = "save"
                  /\ Due(r) \intersect Due(s) # {} \/ ActivityOf[r] = ActivityOf[s]

-----------------------------------------------------------------------------
Init ==
  /\ rows = [k \in Items |-> <<>>]
  /\ recorded = {}
  /\ pc = [r \in Requests |-> "read"]
  /\ tries = [r \in Requests |-> 0]
  /\ view = [r \in Requests |-> [k \in Items |-> 0]]
  /\ faults = 0
  /\ committed = {}
  /\ excuses = [r \in Requests |-> 0]

Goto(r, where) == pc' = [pc EXCEPT ![r] = where]
Excuse(r)      == excuses' = [excuses EXCEPT ![r] = @ + 1]

Fault(r) ==
  /\ faults < MaxFaults
  /\ faults' = faults + 1
  /\ Excuse(r)

\* What GetItems may return: for each item any row the table has held, or none.
Depths   == UNION {0 .. Len(rows[k]) : k \in Items}
Views(r) == {seen \in [Items -> Depths] :
               \A k \in Items : IF k \in Touched(r) THEN seen[k] <= Len(rows[k])
                                                    ELSE seen[k] = 0}
Missing(r, seen) == {k \in Touched(r) : seen[k] = 0}

\* GetItems, then scheduledLessonItems or Schedule.
ReadItems(r) ==
  /\ pc[r] = "read"
  /\ \E seen \in Views(r) :
       /\ view' = [view EXCEPT ![r] = seen]
       /\ IF IsReview(r) /\ Missing(r, seen) # {} THEN Goto(r, "notFound")
          ELSE IF ~ Missing(r, seen) \subseteq Described THEN Goto(r, "invalid")
          ELSE Goto(r, "save")
       /\ IF \E k \in Touched(r) : seen[k] # Len(rows[k])
          THEN Excuse(r) ELSE UNCHANGED excuses
  /\ UNCHANGED <<rows, recorded, tries, faults, committed>>

\* LookupProgress or BatchGetItem fails, or keys stay unprocessed four times.
ReadFails(r) ==
  /\ pc[r] = "read"
  /\ Fault(r)
  /\ Goto(r, "storage")
  /\ UNCHANGED <<rows, recorded, tries, view, committed>>

Write(r) ==
  /\ TransactionHolds(r)
  /\ rows' = [k \in Items |-> IF k \in Due(r) THEN Append(rows[k], Scheduled(r, k))
                                              ELSE rows[k]]
  /\ recorded' = recorded \union {ActivityOf[r]}
  /\ committed' = committed \union {r}

\* TransactWriteItems succeeds.
SaveCommits(r) ==
  /\ pc[r] = "save"
  /\ Write(r)
  /\ Goto(r, "ok")
  /\ UNCHANGED <<tries, view, faults, excuses>>

\* It succeeds, but the answer never reaches the request.
SaveCommitsUnheard(r) ==
  /\ pc[r] = "save"
  /\ Write(r)
  /\ Fault(r)
  /\ Goto(r, "failed")
  /\ UNCHANGED <<tries, view>>

\* Mutant of SaveCanceled: the loop does not count its rounds.
SaveCanceledForever(r) ==
  /\ pc[r] = "save"
  /\ ~ TransactionHolds(r) \/ Collides(r)
  /\ Goto(r, "canceled")
  /\ UNCHANGED <<rows, recorded, view, tries, faults, committed, excuses>>

SaveCanceled(r) ==
  /\ pc[r] = "save"
  /\ \/ /\ ~ TransactionHolds(r)
        /\ UNCHANGED excuses
     \/ /\ TransactionHolds(r)
        /\ Collides(r)
        /\ Excuse(r)
  /\ Goto(r, "canceled")
  /\ tries' = [tries EXCEPT ![r] = @ + 1]
  /\ UNCHANGED <<rows, recorded, view, faults, committed>>

\* The call fails and nothing is written.
SaveFails(r) ==
  /\ pc[r] = "save"
  /\ Fault(r)
  /\ Goto(r, "failed")
  /\ UNCHANGED <<rows, recorded, tries, view, committed>>

\* activityExists finds the row: the save is taken as done.
FindActivity(r) ==
  /\ pc[r] \in {"canceled", "failed"}
  /\ ActivityOf[r] \in recorded
  /\ Goto(r, "ok")
  /\ UNCHANGED <<rows, recorded, tries, view, faults, committed, excuses>>

\* Mutant of GiveUpOrRetry: any error is retried, and a conflict at last.
RetryAnyError(r) ==
  Goto(r, IF pc[r] = "failed" \/ tries[r] < SaveAttempts THEN "read" ELSE "conflict")

\* What an error means when activityExists did not find the row.
GiveUpOrRetry(r) ==
  Goto(r, CASE pc[r] = "failed"                              -> "storage"
            [] pc[r] = "canceled" /\ tries[r] < SaveAttempts -> "read"
            [] OTHER                                         -> "conflict")

MissActivity(r) ==
  /\ pc[r] \in {"canceled", "failed"}
  /\ ActivityOf[r] \notin recorded
  /\ GiveUpOrRetry(r)
  /\ UNCHANGED <<rows, recorded, tries, view, faults, committed, excuses>>

FindFails(r) ==
  /\ pc[r] \in {"canceled", "failed"}
  /\ Fault(r)
  /\ GiveUpOrRetry(r)
  /\ UNCHANGED <<rows, recorded, tries, view, committed>>

\* The Lambda is stopped, or hits its time limit.
Crash(r) ==
  /\ pc[r] \in Running
  /\ Goto(r, "crashed")
  /\ UNCHANGED <<rows, recorded, tries, view, faults, committed, excuses>>

Step(r) == \/ ReadItems(r)
           \/ ReadFails(r)
           \/ SaveCommits(r)
           \/ SaveCommitsUnheard(r)
           \/ SaveCanceled(r)
           \/ SaveFails(r)
           \/ FindActivity(r)
           \/ MissActivity(r)
           \/ FindFails(r)

Next == \E r \in Requests : Step(r) \/ Crash(r)

Spec == Init /\ [][Next]_vars

\* A Lambda that is not stopped goes on running its handler.
FairSpec == Spec /\ \A r \in Requests : WF_vars(Step(r))

-----------------------------------------------------------------------------
(***************************************************************************)
(* Properties                                                              *)
(***************************************************************************)

\* A row's version counts the activities that made it, whatever stale rows the
\* requests computed from: the number conditionalItemPut compares is never reused.
VersionsCountSchedules ==
  \A k \in Items : \A n \in 1 .. Len(rows[k]) :
     rows[k][n].version = n /\ Len(rows[k][n].trail) = n

Credits(a, b) == a = b \/ (a \in Lessons /\ b \in Lessons /\ AttemptOf[a] = AttemptOf[b])

\* No update is lost: an activity row in the table has been applied to the schedule
\* of each of its items, by itself or by another submission of the same attempt.
RecordedIsScheduled ==
  \A a \in recorded : \A k \in ItemsOf[a] :
     \E n \in 1 .. Len(Trail(k)) : Credits(a, Trail(k)[n])

\* No update is counted twice, and none without its activity row: SaveReview and
\* SaveLesson write the items and the activity together, and retries do not repeat them.
ScheduledOnce ==
  \A k \in Items :
     /\ \A n \in 1 .. Len(Trail(k)) : Trail(k)[n] \in recorded /\ k \in ItemsOf[Trail(k)[n]]
     /\ \A m, n \in 1 .. Len(Trail(k)) : Trail(k)[m] = Trail(k)[n] => m = n

\* A stale read never sets a schedule back: a step leaves an item's history alone or
\* adds one activity at its end.
NoScheduleRegression ==
  [][\A k \in Items : \/ Trail(k)' = Trail(k)
                      \/ \E a \in Activities : Trail(k)' = Append(Trail(k), a)]_vars

\* Answers tell what was written.  The item Grade answers with is a row the table has
\* held, even when the answer to its transaction was lost and activityExists stood in
\* for it; and after ErrConflict nothing of the request was written, so that the client
\* may send it again.
AnswersTellWhatWasWritten ==
  /\ \A r \in Requests : IsReview(r) /\ pc[r] = "ok" =>
       \A k \in Touched(r) : \E n \in 1 .. Len(rows[k]) : rows[k][n] = Scheduled(r, k)
  /\ \A r \in Requests : pc[r] = "conflict" => r \notin committed

\* Retries are lost only to somebody: every canceled transaction of a request is
\* paid for by another request's commit on its rows, a stale read, a collision or a
\* failure, so SaveAttempts requests on one item cannot starve each other.
Rivals(r) == {s \in committed \ {r} :
                Touched(r) \intersect Touched(s) # {} \/ ActivityOf[r] = ActivityOf[s]}

ConflictHasCause == \A r \in Requests : tries[r] <= Cardinality(Rivals(r)) + excuses[r]

\* The retry loop ends: every request answers unless it is stopped.
EveryRequestEnds == \A r \in Requests : <>(pc[r] \in Finished)

-----------------------------------------------------------------------------
(***************************************************************************)
(* The store implements a ledger of activities.                            *)
(***************************************************************************)
Ledger == INSTANCE ReviewLedger WITH trail <- [k \in Items |-> Trail(k)]

\* However requests interleave, fail and retry, the table moves as the ledger does.
ImplementsLedger == Ledger!Spec
=============================================================================
