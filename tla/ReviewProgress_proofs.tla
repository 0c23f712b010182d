------------------------- MODULE ReviewProgress_proofs -------------------------
(***************************************************************************)
(* Safety of the progress store for every set of requests, activities and  *)
(* items, every SaveAttempts and any number of failures; and that it       *)
(* implements the ledger of ReviewLedger.                                  *)
(***************************************************************************)
EXTENDS ReviewProgress, SequenceTheorems, FiniteSetTheorems, TLAPS

-----------------------------------------------------------------------------
(***************************************************************************)
(* The inductive invariant                                                 *)
(***************************************************************************)
\* No request has read a row the table never held.
ViewsBehind == \A r \in Requests : \A k \in Items : view[r][k] <= Len(rows[k])

IInv ==
  /\ TypeOK
  /\ VersionsCountSchedules
  /\ ViewsBehind

-----------------------------------------------------------------------------
(***************************************************************************)
(* Rows read and rows computed                                             *)
(***************************************************************************)
LEMMA RowAtType ==
  ASSUME TypeOK, NEW k \in Items, NEW n \in 0 .. Len(rows[k])
  PROVE  RowAt(k, n) \in Row
<1>1. CASE n = 0
  BY <1>1 DEF RowAt, Blank, Row
<1>2. CASE n # 0
  BY <1>2 DEF TypeOK, RowAt
<1> QED BY <1>1, <1>2

LEMMA RowAtNumber ==
  ASSUME IInv, NEW k \in Items, NEW n \in 0 .. Len(rows[k])
  PROVE  RowAt(k, n).version = n /\ Len(RowAt(k, n).trail) = n
<1>1. rows[k] \in Seq(Row)
  BY DEF IInv, TypeOK
<1>2. CASE n = 0
  BY <1>2 DEF RowAt, Blank
<1>3. CASE n # 0
  BY <1>1, <1>3 DEF RowAt, IInv, VersionsCountSchedules
<1> QED BY <1>2, <1>3

LEMMA ViewType ==
  ASSUME IInv, NEW r \in Requests, NEW k \in Items
  PROVE  view[r][k] \in 0 .. Len(rows[k]) /\ Len(rows[k]) \in Nat
<1>1. rows[k] \in Seq(Row) /\ view[r][k] \in Nat
  BY DEF IInv, TypeOK
<1>2. view[r][k] <= Len(rows[k])
  BY DEF IInv, ViewsBehind
<1> QED BY <1>1, <1>2

LEMMA ScheduledType ==
  ASSUME IInv, NEW r \in Requests, NEW k \in Items
  PROVE  Scheduled(r, k) \in Row
<1> DEFINE old == RowAt(k, view[r][k])
<1>1. old \in Row
  BY ViewType, RowAtType DEF IInv
<1>2. ActivityOf[r] \in Activities
  BY WorkAssumption
<1>3. ~ IsReview(r) => AttemptOf[ActivityOf[r]] \in Attempts
  BY <1>2 DEF IsReview, Attempts, Lessons
<1>4. Append(old.trail, ActivityOf[r]) \in Seq(Activities)
  BY <1>1, <1>2 DEF Row
<1> QED BY <1>1, <1>3, <1>4 DEF Scheduled, Row

\* A put whose condition holds goes on top of the row the request read, which is the
\* stored one.
LEMMA CurrentView ==
  ASSUME IInv, NEW r \in Requests, NEW k \in Items, VersionHolds(k, Scheduled(r, k))
  PROVE  view[r][k] = Len(rows[k])
<1>1. RowAt(k, view[r][k]).version = view[r][k] /\ Stored(k).version = Len(rows[k])
  BY ViewType, RowAtNumber DEF Stored
<1>2. Scheduled(r, k).version = view[r][k] + 1
  BY <1>1 DEF Scheduled
<1> QED BY <1>1, <1>2, ViewType DEF VersionHolds

LEMMA DueItems == ASSUME NEW r \in Requests PROVE Due(r) \subseteq Items
BY WorkAssumption DEF Due, Touched

\* What a committed transaction does to the rows.
LEMMA WriteEffect ==
  ASSUME IInv, NEW r \in Requests, Write(r), NEW k \in Items
  PROVE  \/ k \notin Due(r) /\ rows'[k] = rows[k]
         \/ /\ k \in Due(r)
            /\ view[r][k] = Len(rows[k])
            /\ Scheduled(r, k) \in Row
            /\ Scheduled(r, k).version = Len(rows[k]) + 1
            /\ Scheduled(r, k).trail = Append(Trail(k), ActivityOf[r])
            /\ rows'[k] = Append(rows[k], Scheduled(r, k))
<1>1. CASE k \notin Due(r)
  BY <1>1 DEF Write
<1>2. CASE k \in Due(r)
  <2>1. VersionHolds(k, Scheduled(r, k)) /\ rows'[k] = Append(rows[k], Scheduled(r, k))
    BY <1>2 DEF Write, TransactionHolds
  <2>2. view[r][k] = Len(rows[k])
    BY <2>1, CurrentView
  <2>3. Scheduled(r, k).version = Len(rows[k]) + 1
    BY <2>2, ViewType, RowAtNumber DEF Scheduled
  <2>4. Scheduled(r, k).trail = Append(Trail(k), ActivityOf[r])
    BY <2>2 DEF Scheduled, Trail, Stored
  <2> QED BY <1>2, <2>1, <2>2, <2>3, <2>4, ScheduledType
<1> QED BY <1>1, <1>2

-----------------------------------------------------------------------------
(***************************************************************************)
(* The invariant is inductive                                              *)
(***************************************************************************)
LEMMA InitInv == Init => IInv
<1> SUFFICES ASSUME Init PROVE IInv
  OBVIOUS
<1>1. TypeOK
  BY DEF Init, TypeOK, Running
<1>2. VersionsCountSchedules /\ ViewsBehind
  BY DEF Init, VersionsCountSchedules, ViewsBehind
<1> QED BY <1>1, <1>2 DEF IInv

\* The steps that write nothing and read nothing.
LEMMA QuietInv ==
  ASSUME IInv, UNCHANGED <<rows, view, recorded, committed>>,
         pc' \in [Requests -> Running \union Finished],
         tries' \in [Requests -> Nat], faults' \in Nat, excuses' \in [Requests -> Nat]
  PROVE  IInv'
BY DEF IInv, TypeOK, VersionsCountSchedules, ViewsBehind

LEMMA ViewsType ==
  ASSUME IInv, NEW r \in Requests, NEW seen \in Views(r)
  PROVE  seen \in [Items -> Nat] /\ \A k \in Items : seen[k] <= Len(rows[k])
<1>1. \A k \in Items : Len(rows[k]) \in Nat
  BY DEF IInv, TypeOK
<1>2. Depths \subseteq Nat
  BY <1>1 DEF Depths
<1>3. seen \in [Items -> Depths]
      /\ \A k \in Items : IF k \in Touched(r) THEN seen[k] <= Len(rows[k]) ELSE seen[k] = 0
  BY DEF Views
<1>4. ASSUME NEW k \in Items PROVE seen[k] <= Len(rows[k])
  BY <1>1, <1>3
<1>5. seen \in [Items -> Nat]
  BY <1>2, <1>3
<1> QED BY <1>4, <1>5

LEMMA ReadInv == ASSUME IInv, NEW r \in Requests, ReadItems(r) PROVE IInv'
<1>1. PICK seen \in Views(r) : view' = [view EXCEPT ![r] = seen]
  BY DEF ReadItems
<1>2. UNCHANGED <<rows, recorded, tries, faults, committed>>
  BY DEF ReadItems
<1>3. view' \in [Requests -> [Items -> Nat]]
  BY <1>1, ViewsType DEF IInv, TypeOK
<1>4. ViewsBehind'
  <2> SUFFICES ASSUME NEW q \in Requests, NEW k \in Items
               PROVE  view'[q][k] <= Len(rows'[k])
    BY DEF ViewsBehind
  <2>1. CASE q = r
    BY <1>1, <1>2, <2>1, ViewsType DEF IInv, TypeOK
  <2>2. CASE q # r
    BY <1>1, <1>2, <2>2 DEF IInv, TypeOK, ViewsBehind
  <2> QED BY <2>1, <2>2
<1>5. pc' \in [Requests -> Running \union Finished] /\ excuses' \in [Requests -> Nat]
  <2>1. \E where \in {"notFound", "invalid", "save"} : Goto(r, where)
    BY DEF ReadItems
  <2>2. {"notFound", "invalid", "save"} \subseteq Running \union Finished
    BY DEF Running, Finished, Answers
  <2>3. pc' \in [Requests -> Running \union Finished]
    BY <2>1, <2>2 DEF Goto, IInv, TypeOK
  <2>4. Excuse(r) \/ UNCHANGED excuses
    BY DEF ReadItems
  <2>5. excuses \in [Requests -> Nat]
    BY DEF IInv, TypeOK
  <2>6. excuses' \in [Requests -> Nat]
    BY <2>4, <2>5 DEF Excuse
  <2> QED BY <2>3, <2>6
<1>6. TypeOK'
  BY <1>2, <1>3, <1>5 DEF IInv, TypeOK
<1>7. VersionsCountSchedules'
  BY <1>2 DEF IInv, VersionsCountSchedules
<1> QED BY <1>4, <1>6, <1>7 DEF IInv

LEMMA WriteInv ==
  ASSUME IInv, NEW r \in Requests, Write(r), UNCHANGED <<tries, view>>,
         pc' \in [Requests -> Running \union Finished],
         faults' \in Nat, excuses' \in [Requests -> Nat]
  PROVE  IInv'
<1>1. rows' \in [Items -> Seq(Row)]
  <2>1. rows' = [k \in Items |-> IF k \in Due(r) THEN Append(rows[k], Scheduled(r, k))
                                                 ELSE rows[k]]
    BY DEF Write
  <2>2. \A k \in Items : rows[k] \in Seq(Row) /\ Scheduled(r, k) \in Row
    BY ScheduledType DEF IInv, TypeOK
  <2> QED BY <2>1, <2>2
<1>2. recorded' \subseteq Activities /\ committed' \subseteq Requests
  BY WorkAssumption DEF Write, IInv, TypeOK
<1>3. TypeOK'
  BY <1>1, <1>2 DEF IInv, TypeOK
<1>4. VersionsCountSchedules' /\ ViewsBehind'
  <2> SUFFICES ASSUME NEW k \in Items
               PROVE  /\ \A n \in 1 .. Len(rows'[k]) :
                            rows'[k][n].version = n /\ Len(rows'[k][n].trail) = n
                      /\ \A q \in Requests : view'[q][k] <= Len(rows'[k])
    BY DEF VersionsCountSchedules, ViewsBehind
  <2>1. CASE k \notin Due(r)
    BY <2>1, WriteEffect DEF IInv, VersionsCountSchedules, ViewsBehind
  <2>2. CASE k \in Due(r)
    <3> DEFINE new == Scheduled(r, k)
    <3>1. /\ new.version = Len(rows[k]) + 1
          /\ new.trail = Append(Trail(k), ActivityOf[r])
          /\ new \in Row
          /\ rows'[k] = Append(rows[k], new)
      BY <2>2, WriteEffect
    <3>2. Trail(k) \in Seq(Activities) /\ Len(Trail(k)) = Len(rows[k])
      BY ViewType, RowAtNumber, RowAtType DEF Trail, Stored, IInv, Row
    <3>3. Len(new.trail) = Len(rows[k]) + 1
      BY <3>1, <3>2
    <3>4. rows[k] \in Seq(Row)
      BY DEF IInv, TypeOK
    <3>5. \A n \in 1 .. Len(rows'[k]) :
             rows'[k][n].version = n /\ Len(rows'[k][n].trail) = n
      BY <3>1, <3>3, <3>4 DEF IInv, VersionsCountSchedules
    <3>6. \A q \in Requests : view'[q][k] <= Len(rows'[k])
      BY <3>1, <3>4, ViewType DEF IInv
    <3> QED BY <3>5, <3>6
  <2> QED BY <2>1, <2>2
<1> QED BY <1>3, <1>4 DEF IInv
\* Fault and Goto keep the types of what they change.
LEMMA FaultType ==
  ASSUME IInv, NEW r \in Requests, Fault(r)
  PROVE  faults' \in Nat /\ excuses' \in [Requests -> Nat]
<1>1. faults \in Nat /\ excuses \in [Requests -> Nat]
  BY DEF IInv, TypeOK
<1> QED BY <1>1 DEF Fault, Excuse

LEMMA GotoType ==
  ASSUME IInv, NEW r \in Requests, NEW where \in Running \union Finished, Goto(r, where)
  PROVE  pc' \in [Requests -> Running \union Finished]
BY DEF IInv, TypeOK, Goto

LEMMA Labels ==
  {"read", "save", "canceled", "failed", "ok", "conflict", "storage", "notFound", "invalid",
   "crashed"} \subseteq Running \union Finished
BY DEF Running, Finished, Answers

LEMMA GiveUpType ==
  ASSUME IInv, NEW r \in Requests, GiveUpOrRetry(r)
  PROVE  pc' \in [Requests -> Running \union Finished]
<1>1. \E where \in {"storage", "read", "conflict"} : Goto(r, where)
  BY DEF GiveUpOrRetry
<1> QED BY <1>1, GotoType, Labels

\* A step keeps the invariant, and adds one row to the items of one request's write or
\* none to any.
LEMMA StepInv ==
  ASSUME IInv, [Next]_vars
  PROVE  IInv' /\ (UNCHANGED <<rows, recorded>> \/ \E r \in Requests : Write(r))
<1>0. /\ pc \in [Requests -> Running \union Finished] /\ tries \in [Requests -> Nat]
      /\ faults \in Nat /\ excuses \in [Requests -> Nat]
  BY DEF IInv, TypeOK
<1>1. CASE UNCHANGED vars
  BY <1>0, <1>1, QuietInv DEF vars
<1>2. ASSUME NEW r \in Requests, ReadItems(r)
      PROVE  IInv' /\ UNCHANGED <<rows, recorded>>
  BY <1>2, ReadInv DEF ReadItems
<1>3. ASSUME NEW r \in Requests, ReadFails(r)
      PROVE  IInv' /\ UNCHANGED <<rows, recorded>>
  <2>1. pc' \in [Requests -> Running \union Finished]
    BY <1>3, GotoType, Labels DEF ReadFails
  <2> QED BY <1>0, <1>3, <2>1, FaultType, QuietInv DEF ReadFails
<1>4. ASSUME NEW r \in Requests, SaveCommits(r)
      PROVE  IInv' /\ Write(r)
  <2>1. pc' \in [Requests -> Running \union Finished]
    BY <1>4, GotoType, Labels DEF SaveCommits
  <2> QED BY <1>0, <1>4, <2>1, WriteInv DEF SaveCommits
<1>5. ASSUME NEW r \in Requests, SaveCommitsUnheard(r)
      PROVE  IInv' /\ Write(r)
  <2>1. pc' \in [Requests -> Running \union Finished]
    BY <1>5, GotoType, Labels DEF SaveCommitsUnheard
  <2> QED BY <1>5, <2>1, FaultType, WriteInv DEF SaveCommitsUnheard
<1>6. ASSUME NEW r \in Requests, SaveCanceled(r)
      PROVE  IInv' /\ UNCHANGED <<rows, recorded>>
  <2>1. pc' \in [Requests -> Running \union Finished]
    BY <1>6, GotoType, Labels DEF SaveCanceled
  <2>2. tries' \in [Requests -> Nat]
    BY <1>0, <1>6 DEF SaveCanceled
  <2>3. excuses' \in [Requests -> Nat]
    BY <1>0, <1>6 DEF SaveCanceled, Excuse
  <2> QED BY <1>0, <1>6, <2>1, <2>2, <2>3, QuietInv DEF SaveCanceled
<1>7. ASSUME NEW r \in Requests, SaveFails(r)
      PROVE  IInv' /\ UNCHANGED <<rows, recorded>>
  <2>1. pc' \in [Requests -> Running \union Finished]
    BY <1>7, GotoType, Labels DEF SaveFails
  <2> QED BY <1>0, <1>7, <2>1, FaultType, QuietInv DEF SaveFails
<1>8. ASSUME NEW r \in Requests, FindActivity(r)
      PROVE  IInv' /\ UNCHANGED <<rows, recorded>>
  <2>1. pc' \in [Requests -> Running \union Finished]
    BY <1>8, GotoType, Labels DEF FindActivity
  <2> QED BY <1>0, <1>8, <2>1, QuietInv DEF FindActivity
<1>9. ASSUME NEW r \in Requests, MissActivity(r)
      PROVE  IInv' /\ UNCHANGED <<rows, recorded>>
  BY <1>0, <1>9, GiveUpType, QuietInv DEF MissActivity
<1>10. ASSUME NEW r \in Requests, FindFails(r)
       PROVE  IInv' /\ UNCHANGED <<rows, recorded>>
  BY <1>0, <1>10, GiveUpType, FaultType, QuietInv DEF FindFails
<1>11. ASSUME NEW r \in Requests, Crash(r)
       PROVE  IInv' /\ UNCHANGED <<rows, recorded>>
  <2>1. pc' \in [Requests -> Running \union Finished]
    BY <1>11, GotoType, Labels DEF Crash
  <2> QED BY <1>0, <1>11, <2>1, QuietInv DEF Crash
<1>12. CASE Next
  BY <1>2, <1>3, <1>4, <1>5, <1>6, <1>7, <1>8, <1>9, <1>10, <1>11, <1>12 DEF Next, Step
<1> QED BY <1>1, <1>12 DEF vars

-----------------------------------------------------------------------------
(***************************************************************************)
(* Theorems                                                                *)
(***************************************************************************)
LEMMA Invariant == Spec => []IInv
<1>1. IInv /\ [Next]_vars => IInv'
  BY StepInv
<1> QED BY <1>1, InitInv, PTL DEF Spec

\* Every variable keeps its type, for any requests, items and failures.
THEOREM TypeCorrect == Spec => []TypeOK
<1>1. IInv => TypeOK
  BY DEF IInv
<1> QED BY <1>1, Invariant, PTL

\* The version that conditionalItemPut compares numbers the rows of an item, so two
\* different schedules of an item never carry the same version.
THEOREM VersionsAreCounts == Spec => []VersionsCountSchedules
<1>1. IInv => VersionsCountSchedules
  BY DEF IInv
<1> QED BY <1>1, Invariant, PTL

\* A commit extends the histories of its items and touches no other.
LEMMA TrailEffect ==
  ASSUME IInv, NEW r \in Requests, Write(r), NEW k \in Items
  PROVE  Trail(k)' = IF k \in Due(r) THEN Append(Trail(k), ActivityOf[r]) ELSE Trail(k)
<1>1. CASE k \notin Due(r)
  BY <1>1, WriteEffect DEF Trail, Stored, RowAt
<1>2. CASE k \in Due(r)
  <2>1. /\ rows'[k] = Append(rows[k], Scheduled(r, k))
        /\ Scheduled(r, k).trail = Append(Trail(k), ActivityOf[r])
        /\ Scheduled(r, k) \in Row
    BY <1>2, WriteEffect
  <2>2. rows[k] \in Seq(Row)
    BY DEF IInv, TypeOK
  <2>3. Len(rows'[k]) = Len(rows[k]) + 1 /\ rows'[k][Len(rows[k]) + 1] = Scheduled(r, k)
    BY <2>1, <2>2
  <2>4. Trail(k)' = Scheduled(r, k).trail
    BY <2>2, <2>3 DEF Trail, Stored, RowAt
  <2> QED BY <1>2, <2>1, <2>4
<1> QED BY <1>1, <1>2

\* No step sets an item's history back, however stale the row it was computed from.
THEOREM HistoryOnlyGrows == Spec => NoScheduleRegression
<1>1. ASSUME IInv, [Next]_vars, NEW k \in Items
      PROVE  Trail(k)' = Trail(k) \/ \E a \in Activities : Trail(k)' = Append(Trail(k), a)
  <2>1. CASE UNCHANGED <<rows, recorded>>
    BY <2>1 DEF Trail, Stored, RowAt
  <2>2. CASE \E r \in Requests : Write(r)
    BY <1>1, <2>2, TrailEffect, WorkAssumption
  <2> QED BY <1>1, <2>1, <2>2, StepInv
<1>2. IInv /\ [Next]_vars =>
        [\A k \in Items : \/ Trail(k)' = Trail(k)
                          \/ \E a \in Activities : Trail(k)' = Append(Trail(k), a)]_vars
  BY <1>1
<1> QED BY <1>2, Invariant, PTL DEF Spec, NoScheduleRegression

-----------------------------------------------------------------------------
(***************************************************************************)
(* What the answers tell                                                   *)
(***************************************************************************)
\* Where a request can be once its transaction has committed.
Written == {"ok", "failed", "storage", "crashed"}

\* The row r computed for item k is one the table has held.
Held(r, k) == \E n \in 1 .. Len(rows[k]) : rows[k][n] = Scheduled(r, k)

CommitsAnswered == \A r \in committed : ActivityOf[r] \in recorded /\ pc[r] \in Written
ReviewsTheirOwn == \A r \in Requests : IsReview(r) /\ ActivityOf[r] \in recorded => r \in committed
OkIsRecorded    == \A r \in Requests : pc[r] = "ok" => ActivityOf[r] \in recorded
CommitsHeld     == \A r \in committed : IsReview(r) => \A k \in Touched(r) : Held(r, k)

AInv ==
  /\ IInv
  /\ CommitsAnswered
  /\ ReviewsTheirOwn
  /\ OkIsRecorded
  /\ CommitsHeld

LEMMA TouchedItems == ASSUME NEW r \in Requests PROVE Touched(r) \subseteq Items
BY WorkAssumption DEF Touched

\* A step that writes nothing keeps it, if it does not read again for a request that has
\* committed, nor answer ok for one whose activity is not on record.
LEMMA QuietAnswers ==
  ASSUME AInv, IInv', NEW r \in Requests, NEW where,
         pc' = [pc EXCEPT ![r] = where],
         UNCHANGED <<rows, recorded, committed>>,
         UNCHANGED view \/ (r \notin committed /\ \E seen : view' = [view EXCEPT ![r] = seen]),
         r \in committed => where \in Written,
         where = "ok" => ActivityOf[r] \in recorded
  PROVE  AInv'
<1>1. pc \in [Requests -> Running \union Finished] /\ committed \subseteq Requests
  BY DEF AInv, IInv, TypeOK
<1>2. \A q \in Requests : pc'[q] = IF q = r THEN where ELSE pc[q]
  BY <1>1
<1>3. CommitsAnswered'
  BY <1>1, <1>2 DEF AInv, CommitsAnswered
<1>4. ReviewsTheirOwn'
  BY DEF AInv, ReviewsTheirOwn, IsReview
<1>5. OkIsRecorded'
  BY <1>2 DEF AInv, OkIsRecorded
<1>6. CommitsHeld'
  <2> SUFFICES ASSUME NEW q \in committed, IsReview(q), NEW k \in Touched(q)
               PROVE  \E n \in 1 .. Len(rows'[k]) : rows'[k][n] = Scheduled(q, k)'
    BY DEF CommitsHeld, Held, IsReview, Touched
  <2>1. view'[q] = view[q]
    BY <1>1 DEF AInv, IInv, TypeOK
  <2>2. Scheduled(q, k)' = Scheduled(q, k)
    BY <2>1 DEF Scheduled, RowAt, IsReview
  <2> QED BY <2>2 DEF AInv, CommitsHeld, Held
<1> QED BY <1>3, <1>4, <1>5, <1>6 DEF AInv

\* A commit leaves its own rows in the table, and removes none.
LEMMA WriteHeld ==
  ASSUME AInv, NEW r \in Requests, Write(r), UNCHANGED view,
         NEW q \in committed \union {r}, q \in Requests, IsReview(q), NEW k \in Touched(q)
  PROVE  \E n \in 1 .. Len(rows'[k]) : rows'[k][n] = Scheduled(q, k)'
<1>0. IInv /\ k \in Items
  BY TouchedItems DEF AInv
<1>1. rows[k] \in Seq(Row) /\ view[q][k] \in 0 .. Len(rows[k])
  BY <1>0, ViewType DEF IInv, TypeOK
<1>2. CASE k \notin Due(r)
  <2>1. rows'[k] = rows[k]
    BY <1>0, <1>2, WriteEffect
  <2>2. Scheduled(q, k)' = Scheduled(q, k)
    BY <2>1 DEF Scheduled, RowAt, IsReview
  <2>3. q # r
    BY <1>2 DEF Due
  <2> QED BY <2>1, <2>2, <2>3 DEF AInv, CommitsHeld, Held
<1>3. CASE k \in Due(r)
  <2>1. rows'[k] = Append(rows[k], Scheduled(r, k)) /\ Scheduled(r, k) \in Row
    BY <1>0, <1>3, WriteEffect
  <2>2. /\ Len(rows'[k]) = Len(rows[k]) + 1
        /\ rows'[k][Len(rows[k]) + 1] = Scheduled(r, k)
        /\ \A n \in 1 .. Len(rows[k]) : rows'[k][n] = rows[k][n]
        /\ Len(rows[k]) \in Nat
    BY <1>1, <2>1
  <2>3. RowAt(k, view[q][k])' = RowAt(k, view[q][k])
    BY <1>1, <2>2 DEF RowAt
  <2>4. Scheduled(q, k)' = Scheduled(q, k)
    BY <2>3 DEF Scheduled, IsReview
  <2>5. CASE q = r
    BY <2>2, <2>4, <2>5
  <2>6. CASE q \in committed
    BY <2>2, <2>4, <2>6 DEF AInv, CommitsHeld, Held
  <2> QED BY <2>5, <2>6
<1> QED BY <1>2, <1>3

LEMMA WriteAnswers ==
  ASSUME AInv, IInv', NEW r \in Requests, Write(r), UNCHANGED view,
         NEW where \in {"ok", "failed"}, pc' = [pc EXCEPT ![r] = where]
  PROVE  AInv'
<1>1. /\ pc \in [Requests -> Running \union Finished] /\ committed \subseteq Requests
      /\ recorded' = recorded \union {ActivityOf[r]} /\ committed' = committed \union {r}
  BY DEF AInv, IInv, TypeOK, Write
<1>2. \A q \in Requests : pc'[q] = IF q = r THEN where ELSE pc[q]
  BY <1>1
<1>3. CommitsAnswered'
  BY <1>1, <1>2 DEF AInv, CommitsAnswered, Written
<1>4. ReviewsTheirOwn'
  <2> SUFFICES ASSUME NEW q \in Requests, IsReview(q), ActivityOf[q] \in recorded'
               PROVE  q \in committed'
    BY DEF ReviewsTheirOwn, IsReview
  <2>1. CASE ActivityOf[q] \in recorded
    BY <1>1, <2>1 DEF AInv, ReviewsTheirOwn
  <2>2. CASE ActivityOf[q] = ActivityOf[r]
    BY <1>1, <2>2, WorkAssumption DEF IsReview
  <2> QED BY <1>1, <2>1, <2>2
<1>5. OkIsRecorded'
  BY <1>1, <1>2 DEF AInv, OkIsRecorded
<1>6. CommitsHeld'
  BY <1>1, WriteHeld DEF CommitsHeld, Held, IsReview, Touched
<1> QED BY <1>3, <1>4, <1>5, <1>6 DEF AInv

LEMMA InitAnswers == Init => AInv
<1> SUFFICES ASSUME Init PROVE AInv
  OBVIOUS
<1>1. CommitsAnswered /\ ReviewsTheirOwn /\ OkIsRecorded /\ CommitsHeld
  BY DEF Init, CommitsAnswered, ReviewsTheirOwn, OkIsRecorded, CommitsHeld
<1> QED BY <1>1, InitInv DEF AInv

LEMMA StepAnswers == ASSUME AInv, [Next]_vars PROVE AInv'
<1>0. IInv /\ IInv' /\ \A r \in committed : pc[r] \in Written /\ ActivityOf[r] \in recorded
  BY StepInv DEF AInv, CommitsAnswered
<1>1. CASE UNCHANGED vars
  BY <1>0, <1>1, ZenonT(60) DEF vars, AInv, CommitsAnswered, ReviewsTheirOwn, OkIsRecorded, CommitsHeld, Held,
                    Scheduled, RowAt, IsReview, Touched
<1>2. ASSUME NEW r \in Requests, ReadItems(r) PROVE AInv'
  <2>1. PICK where \in {"notFound", "invalid", "save"} : pc' = [pc EXCEPT ![r] = where]
    BY <1>2 DEF ReadItems, Goto
  <2>2. r \notin committed
    BY <1>0, <1>2 DEF ReadItems, Written
  <2>3. \E seen : view' = [view EXCEPT ![r] = seen]
    BY <1>2 DEF ReadItems
  <2>4. UNCHANGED <<rows, recorded, committed>>
    BY <1>2 DEF ReadItems
  <2> QED BY <1>0, <2>1, <2>2, <2>3, <2>4, QuietAnswers
<1>3. ASSUME NEW r \in Requests, ReadFails(r) PROVE AInv'
  <2>1. pc' = [pc EXCEPT ![r] = "storage"] /\ UNCHANGED <<rows, recorded, committed, view>>
    BY <1>3 DEF ReadFails, Goto
  <2> QED BY <1>0, <2>1, QuietAnswers DEF Written
<1>4. ASSUME NEW r \in Requests, SaveCommits(r) PROVE AInv'
  BY <1>0, <1>4, WriteAnswers DEF SaveCommits, Goto
<1>5. ASSUME NEW r \in Requests, SaveCommitsUnheard(r) PROVE AInv'
  BY <1>0, <1>5, WriteAnswers DEF SaveCommitsUnheard, Goto
<1>6. ASSUME NEW r \in Requests, SaveCanceled(r) PROVE AInv'
  <2>1. pc' = [pc EXCEPT ![r] = "canceled"] /\ UNCHANGED <<rows, recorded, committed, view>>
    BY <1>6 DEF SaveCanceled, Goto
  <2>2. r \notin committed
    BY <1>0, <1>6 DEF SaveCanceled, Written
  <2> QED BY <1>0, <2>1, <2>2, QuietAnswers
<1>7. ASSUME NEW r \in Requests, SaveFails(r) PROVE AInv'
  <2>1. pc' = [pc EXCEPT ![r] = "failed"] /\ UNCHANGED <<rows, recorded, committed, view>>
    BY <1>7 DEF SaveFails, Goto
  <2> QED BY <1>0, <2>1, QuietAnswers DEF Written
<1>8. ASSUME NEW r \in Requests, FindActivity(r) PROVE AInv'
  <2>1. /\ pc' = [pc EXCEPT ![r] = "ok"] /\ UNCHANGED <<rows, recorded, committed, view>>
        /\ ActivityOf[r] \in recorded
    BY <1>8 DEF FindActivity, Goto
  <2> QED BY <1>0, <2>1, QuietAnswers DEF Written
<1>9. ASSUME NEW r \in Requests, MissActivity(r) PROVE AInv'
  <2>1. PICK where \in {"storage", "read", "conflict"} : pc' = [pc EXCEPT ![r] = where]
    BY <1>9 DEF MissActivity, GiveUpOrRetry, Goto
  <2>2. r \notin committed /\ UNCHANGED <<rows, recorded, committed, view>>
    BY <1>0, <1>9 DEF MissActivity
  <2> QED BY <1>0, <2>1, <2>2, QuietAnswers
<1>10. ASSUME NEW r \in Requests, FindFails(r) PROVE AInv'
  <2>1. UNCHANGED <<rows, recorded, committed, view>> /\ pc[r] \in {"canceled", "failed"}
    BY <1>10 DEF FindFails
  <2>2. CASE pc[r] = "failed"
    <3>1. pc' = [pc EXCEPT ![r] = "storage"]
      BY <1>10, <2>2 DEF FindFails, GiveUpOrRetry, Goto
    <3> QED BY <1>0, <2>1, <3>1, QuietAnswers DEF Written
  <2>3. CASE pc[r] = "canceled"
    <3>1. PICK where \in {"storage", "read", "conflict"} : pc' = [pc EXCEPT ![r] = where]
      BY <1>10 DEF FindFails, GiveUpOrRetry, Goto
    <3>2. r \notin committed
      BY <1>0, <2>3 DEF Written
    <3> QED BY <1>0, <2>1, <3>1, <3>2, QuietAnswers
  <2> QED BY <2>1, <2>2, <2>3
<1>11. ASSUME NEW r \in Requests, Crash(r) PROVE AInv'
  <2>1. pc' = [pc EXCEPT ![r] = "crashed"] /\ UNCHANGED <<rows, recorded, committed, view>>
    BY <1>11 DEF Crash, Goto
  <2> QED BY <1>0, <2>1, QuietAnswers DEF Written
<1>12. CASE Next
  BY <1>2, <1>3, <1>4, <1>5, <1>6, <1>7, <1>8, <1>9, <1>10, <1>11, <1>12 DEF Next, Step
<1> QED BY <1>1, <1>12 DEF vars

LEMMA Answered == Spec => []AInv
<1>1. AInv /\ [Next]_vars => AInv'
  BY StepAnswers
<1> QED BY <1>1, InitAnswers, PTL DEF Spec

\* A review answered ok has its row in the table, though it may have learned of it only
\* from its activity row, and a request answered ErrConflict has written nothing.
THEOREM AnswersAreTrue == Spec => []AnswersTellWhatWasWritten
<1>1. ASSUME AInv PROVE AnswersTellWhatWasWritten
  <2>1. ASSUME NEW r \in Requests, IsReview(r), pc[r] = "ok", NEW k \in Touched(r)
        PROVE  Held(r, k)
    <3>1. r \in committed
      BY <1>1, <2>1 DEF AInv, OkIsRecorded, ReviewsTheirOwn
    <3> QED BY <1>1, <2>1, <3>1 DEF AInv, CommitsHeld
  <2>2. ASSUME NEW r \in Requests, pc[r] = "conflict" PROVE r \notin committed
    BY <1>1, <2>2 DEF AInv, CommitsAnswered, Written
  <2> QED BY <2>1, <2>2 DEF AnswersTellWhatWasWritten, Held
<1> QED BY <1>1, Answered, PTL

-----------------------------------------------------------------------------
(***************************************************************************)
(* What canceled transactions are lost to                                  *)
(***************************************************************************)
\* r can lose one more transaction that is already paid for.
Slack(r) == tries[r] + 1 <= Cardinality(Rivals(r)) + excuses[r]

\* What r read is what the table holds.
Fresh(r) == ActivityOf[r] \notin recorded /\ \A k \in Touched(r) : view[r][k] = Len(rows[k])

CInv ==
  /\ AInv
  /\ IsFiniteSet(committed)
  /\ ConflictHasCause
  /\ \A r \in Requests : pc[r] = "read" /\ ActivityOf[r] \in recorded => Slack(r)
  /\ \A r \in Requests : pc[r] = "save" => Slack(r) \/ Fresh(r)

\* The requests r competes with.
Competes(r, s) == Touched(r) \intersect Touched(s) # {} \/ ActivityOf[r] = ActivityOf[s]

LEMMA RivalsFinite ==
  ASSUME IsFiniteSet(committed), NEW r
  PROVE  IsFiniteSet(Rivals(r)) /\ Cardinality(Rivals(r)) \in Nat
<1>1. Rivals(r) \in SUBSET committed
  BY DEF Rivals
<1> QED BY <1>1, FS_Subset, FS_CardinalityType

LEMMA RivalsGrow ==
  ASSUME IsFiniteSet(committed), NEW s \in Requests, s \notin committed,
         committed' = committed \union {s}, NEW r \in Requests
  PROVE  /\ Rivals(r)' = IF s # r /\ Competes(r, s) THEN Rivals(r) \union {s} ELSE Rivals(r)
         /\ Cardinality(Rivals(r)') =
               Cardinality(Rivals(r)) + (IF s # r /\ Competes(r, s) THEN 1 ELSE 0)
<1>1. Rivals(r)' = IF s # r /\ Competes(r, s) THEN Rivals(r) \union {s} ELSE Rivals(r)
  BY DEF Rivals, Competes, Touched
<1>2. s \notin Rivals(r) /\ IsFiniteSet(Rivals(r)) /\ Cardinality(Rivals(r)) \in Nat
  BY RivalsFinite DEF Rivals
<1>3. Cardinality(Rivals(r) \union {s}) = Cardinality(Rivals(r)) + 1
  BY <1>2, FS_AddElement
<1> QED BY <1>1, <1>2, <1>3

\* A request that read what the table holds is not canceled on its own account.
LEMMA FreshHolds ==
  ASSUME IInv, NEW r \in Requests, Fresh(r) PROVE TransactionHolds(r)
<1> SUFFICES ASSUME NEW k \in Due(r) PROVE VersionHolds(k, Scheduled(r, k))
  BY DEF TransactionHolds, Fresh
<1>1. k \in Items /\ view[r][k] = Len(rows[k])
  BY DueItems DEF Fresh, Due
<1>2. RowAt(k, view[r][k]).version = view[r][k] /\ view[r][k] \in Nat
  BY <1>1, ViewType, RowAtNumber
<1>3. Stored(k).version = view[r][k] /\ Scheduled(r, k).version = view[r][k] + 1
  BY <1>1, <1>2 DEF Stored, Scheduled
<1> QED BY <1>2, <1>3 DEF VersionHolds

LEMMA InitCauses == Init => CInv
<1> SUFFICES ASSUME Init PROVE CInv
  OBVIOUS
<1>1. IsFiniteSet(committed) /\ \A r \in Requests : Cardinality(Rivals(r)) \in Nat
  BY RivalsFinite, FS_EmptySet DEF Init
<1>2. ConflictHasCause
  BY <1>1 DEF Init, ConflictHasCause
<1> QED BY <1>1, <1>2, InitAnswers DEF Init, CInv

LEMMA CauseTypes ==
  ASSUME CInv, NEW q \in Requests
  PROVE  /\ tries[q] \in Nat /\ excuses[q] \in Nat /\ Cardinality(Rivals(q)) \in Nat
         /\ tries[q] <= Cardinality(Rivals(q)) + excuses[q]
BY RivalsFinite DEF CInv, AInv, IInv, TypeOK, ConflictHasCause

\* A step of r that writes nothing keeps it, if it keeps it for r.
LEMMA QuietCauses ==
  ASSUME CInv, AInv', NEW r \in Requests, NEW where, pc' = [pc EXCEPT ![r] = where],
         UNCHANGED <<rows, recorded, committed>>,
         \A q \in Requests \ {r} :
            tries'[q] = tries[q] /\ excuses'[q] = excuses[q] /\ view'[q] = view[q],
         tries'[r] <= Cardinality(Rivals(r)) + excuses'[r],
         where = "read" /\ ActivityOf[r] \in recorded =>
            tries'[r] + 1 <= Cardinality(Rivals(r)) + excuses'[r],
         where = "save" =>
            \/ tries'[r] + 1 <= Cardinality(Rivals(r)) + excuses'[r]
            \/ ActivityOf[r] \notin recorded /\ \A k \in Touched(r) : view'[r][k] = Len(rows[k])
  PROVE  CInv'
<1>1. pc \in [Requests -> Running \union Finished]
  BY DEF CInv, AInv, IInv, TypeOK
<1>2. \A q \in Requests : Rivals(q)' = Rivals(q)
  BY DEF Rivals, Touched
<1>3. ASSUME NEW q \in Requests
      PROVE  /\ tries'[q] <= Cardinality(Rivals(q)') + excuses'[q]
             /\ pc'[q] = "read" /\ ActivityOf[q] \in recorded' => Slack(q)'
             /\ pc'[q] = "save" => Slack(q)' \/ Fresh(q)'
  <2>1. CASE q = r
    <3>1. pc'[q] = where
      BY <1>1, <2>1
    <3> QED BY <1>2, <2>1, <3>1 DEF Slack, Fresh, Touched
  <2>2. CASE q # r
    <3>1. pc'[q] = pc[q] /\ tries'[q] = tries[q] /\ excuses'[q] = excuses[q] /\ view'[q] = view[q]
      BY <1>1, <2>2
    <3> QED BY <1>2, <3>1 DEF CInv, ConflictHasCause, Slack, Fresh, Touched
  <2> QED BY <2>1, <2>2
<1>4. ConflictHasCause' /\ IsFiniteSet(committed')
  BY <1>3 DEF ConflictHasCause, CInv
<1> QED BY <1>3, <1>4 DEF CInv

\* A commit pays for the cancellation of whoever it competes with.
LEMMA WriteCauses ==
  ASSUME CInv, AInv', NEW r \in Requests, pc[r] = "save", Write(r), UNCHANGED <<tries, view>>,
         NEW where \in {"ok", "failed"}, pc' = [pc EXCEPT ![r] = where],
         UNCHANGED excuses \/ Excuse(r)
  PROVE  CInv'
<1>0. IInv /\ r \notin committed /\ IsFiniteSet(committed)
      /\ committed' = committed \union {r} /\ recorded' = recorded \union {ActivityOf[r]}
  BY DEF CInv, AInv, CommitsAnswered, Written, Write
<1>1. pc \in [Requests -> Running \union Finished] /\ excuses \in [Requests -> Nat]
  BY <1>0 DEF IInv, TypeOK
<1>2. ASSUME NEW q \in Requests
      PROVE  /\ tries'[q] = tries[q] /\ view'[q] = view[q] /\ excuses'[q] >= excuses[q]
             /\ excuses'[q] \in Nat /\ pc'[q] = IF q = r THEN where ELSE pc[q]
  BY <1>1 DEF Excuse
<1>3. IsFiniteSet(committed')
  BY <1>0, FS_AddElement
<1>4. ASSUME NEW q \in Requests
      PROVE  /\ tries'[q] <= Cardinality(Rivals(q)') + excuses'[q]
             /\ pc'[q] = "read" /\ ActivityOf[q] \in recorded' => Slack(q)'
             /\ pc'[q] = "save" => Slack(q)' \/ Fresh(q)'
  <2>1. /\ tries[q] \in Nat /\ excuses[q] \in Nat /\ Cardinality(Rivals(q)) \in Nat
        /\ tries[q] <= Cardinality(Rivals(q)) + excuses[q]
    BY CauseTypes
  <2>2. Cardinality(Rivals(q)') =
          Cardinality(Rivals(q)) + (IF r # q /\ Competes(q, r) THEN 1 ELSE 0)
    BY <1>0, RivalsGrow
  <2>3. tries'[q] <= Cardinality(Rivals(q)') + excuses'[q]
    BY <1>2, <2>1, <2>2
  <2>4. CASE q = r
    BY <1>2, <2>3, <2>4
  <2>5. CASE q # r /\ Competes(q, r)
    BY <1>2, <2>1, <2>2, <2>3, <2>5 DEF Slack
  <2>6. CASE q # r /\ ~ Competes(q, r)
    <3>1. Slack(q) => Slack(q)'
      BY <1>2, <2>1, <2>2, <2>6 DEF Slack
    <3>2. ActivityOf[q] \in recorded' => ActivityOf[q] \in recorded
      BY <1>0, <2>6 DEF Competes
    <3>3. ASSUME NEW k \in Touched(q) PROVE rows'[k] = rows[k]
      <4>1. k \in Items /\ k \notin Due(r)
        BY <2>6, TouchedItems DEF Competes, Due
      <4> QED BY <1>0, <4>1, WriteEffect
    <3>4. Fresh(q) => Fresh(q)'
      BY <1>2, <3>2, <3>3 DEF Fresh, Touched
    <3> QED BY <1>2, <2>3, <2>6, <3>1, <3>2, <3>4 DEF CInv
  <2> QED BY <2>4, <2>5, <2>6
<1>5. ConflictHasCause'
  BY <1>4 DEF ConflictHasCause
<1> QED BY <1>3, <1>4, <1>5 DEF CInv

\* So does a step that leaves r neither reading nor saving.
LEMMA QuietEnds ==
  ASSUME CInv, AInv', NEW r \in Requests, NEW where, where \notin {"read", "save"},
         pc' = [pc EXCEPT ![r] = where],
         UNCHANGED <<rows, recorded, committed, tries, view>>, UNCHANGED excuses \/ Excuse(r)
  PROVE  CInv'
<1>1. tries[r] \in Nat /\ excuses[r] \in Nat /\ Cardinality(Rivals(r)) \in Nat
      /\ tries[r] <= Cardinality(Rivals(r)) + excuses[r]
  BY CauseTypes
<1>2. excuses \in [Requests -> Nat]
  BY DEF CInv, AInv, IInv, TypeOK
<1>3. /\ \A q \in Requests \ {r} : excuses'[q] = excuses[q]
      /\ excuses'[r] \in {excuses[r], excuses[r] + 1}
  BY <1>2 DEF Excuse
<1>4. tries'[r] <= Cardinality(Rivals(r)) + excuses'[r]
  BY <1>1, <1>3
<1> QED BY <1>3, <1>4, QuietCauses

LEMMA ReadCauses == ASSUME CInv, AInv', NEW r \in Requests, ReadItems(r) PROVE CInv'
<1>0. /\ tries[r] \in Nat /\ excuses[r] \in Nat /\ Cardinality(Rivals(r)) \in Nat
      /\ tries[r] <= Cardinality(Rivals(r)) + excuses[r]
      /\ view \in [Requests -> [Items -> Nat]] /\ excuses \in [Requests -> Nat]
  BY CauseTypes DEF CInv, AInv, IInv, TypeOK
<1>1. PICK seen \in Views(r) :
         /\ view' = [view EXCEPT ![r] = seen]
         /\ IF \E k \in Touched(r) : seen[k] # Len(rows[k]) THEN Excuse(r) ELSE UNCHANGED excuses
  BY DEF ReadItems
<1>2. PICK where \in {"notFound", "invalid", "save"} : pc' = [pc EXCEPT ![r] = where]
  BY DEF ReadItems, Goto
<1>3. pc[r] = "read" /\ UNCHANGED <<rows, recorded, tries, committed>>
  BY DEF ReadItems
<1>4. /\ \A q \in Requests \ {r} : excuses'[q] = excuses[q] /\ view'[q] = view[q]
      /\ excuses'[r] \in {excuses[r], excuses[r] + 1} /\ view'[r] = seen
  BY <1>0, <1>1 DEF Excuse
<1>5. tries'[r] <= Cardinality(Rivals(r)) + excuses'[r]
  BY <1>0, <1>3, <1>4
<1>6. \/ tries'[r] + 1 <= Cardinality(Rivals(r)) + excuses'[r]
      \/ ActivityOf[r] \notin recorded /\ \A k \in Touched(r) : view'[r][k] = Len(rows[k])
  <2>1. CASE \E k \in Touched(r) : seen[k] # Len(rows[k])
    <3>1. excuses'[r] = excuses[r] + 1
      BY <1>0, <1>1, <2>1 DEF Excuse
    <3> QED BY <1>0, <1>3, <3>1
  <2>2. CASE ActivityOf[r] \in recorded
    <3>1. Slack(r)
      BY <1>3, <2>2 DEF CInv
    <3> QED BY <1>0, <1>3, <1>4, <3>1 DEF Slack
  <2> QED BY <1>4, <2>1, <2>2
<1> QED BY <1>2, <1>3, <1>4, <1>5, <1>6, QuietCauses

LEMMA CancelCauses == ASSUME CInv, AInv', NEW r \in Requests, SaveCanceled(r) PROVE CInv'
<1>0. /\ tries[r] \in Nat /\ excuses[r] \in Nat /\ Cardinality(Rivals(r)) \in Nat
      /\ tries[r] <= Cardinality(Rivals(r)) + excuses[r]
      /\ tries \in [Requests -> Nat] /\ excuses \in [Requests -> Nat]
  BY CauseTypes DEF CInv, AInv, IInv, TypeOK
<1>1. /\ pc[r] = "save" /\ pc' = [pc EXCEPT ![r] = "canceled"]
      /\ tries' = [tries EXCEPT ![r] = @ + 1]
      /\ UNCHANGED <<rows, recorded, view, faults, committed>>
  BY DEF SaveCanceled, Goto
<1>2. /\ \A q \in Requests \ {r} : tries'[q] = tries[q] /\ excuses'[q] = excuses[q]
      /\ tries'[r] = tries[r] + 1
  BY <1>0, <1>1 DEF SaveCanceled, Excuse
<1>3. tries'[r] <= Cardinality(Rivals(r)) + excuses'[r]
  <2>1. CASE ~ TransactionHolds(r) /\ UNCHANGED excuses
    <3>1. Slack(r)
      BY <1>1, <2>1, FreshHolds DEF CInv, AInv
    <3> QED BY <1>0, <1>2, <2>1, <3>1 DEF Slack
  <2>2. CASE Excuse(r)
    <3>1. excuses'[r] = excuses[r] + 1
      BY <1>0, <2>2 DEF Excuse
    <3> QED BY <1>0, <1>2, <3>1
  <2> QED BY <2>1, <2>2 DEF SaveCanceled
<1> QED BY <1>1, <1>2, <1>3, QuietCauses

LEMMA FindFailsCauses == ASSUME CInv, AInv', NEW r \in Requests, FindFails(r) PROVE CInv'
<1>0. /\ tries[r] \in Nat /\ excuses[r] \in Nat /\ Cardinality(Rivals(r)) \in Nat
      /\ tries[r] <= Cardinality(Rivals(r)) + excuses[r]
      /\ excuses \in [Requests -> Nat]
  BY CauseTypes DEF CInv, AInv, IInv, TypeOK
<1>1. PICK where \in {"storage", "read", "conflict"} : pc' = [pc EXCEPT ![r] = where]
  BY DEF FindFails, GiveUpOrRetry, Goto
<1>2. UNCHANGED <<rows, recorded, tries, view, committed>> /\ Excuse(r)
  BY DEF FindFails, Fault
<1>3. /\ \A q \in Requests \ {r} : excuses'[q] = excuses[q]
      /\ excuses'[r] = excuses[r] + 1
  BY <1>0, <1>2 DEF Excuse
<1>4. tries'[r] + 1 <= Cardinality(Rivals(r)) + excuses'[r]
  BY <1>0, <1>2, <1>3
<1>5. tries'[r] <= Cardinality(Rivals(r)) + excuses'[r]
  BY <1>0, <1>2, <1>3
<1> QED BY <1>1, <1>2, <1>3, <1>4, <1>5, QuietCauses

LEMMA MissCauses == ASSUME CInv, AInv', NEW r \in Requests, MissActivity(r) PROVE CInv'
<1>1. PICK where \in {"storage", "read", "conflict"} : pc' = [pc EXCEPT ![r] = where]
  BY DEF MissActivity, GiveUpOrRetry, Goto
<1>2. UNCHANGED <<rows, recorded, tries, view, committed, excuses>> /\ ActivityOf[r] \notin recorded
  BY DEF MissActivity
<1>3. tries'[r] <= Cardinality(Rivals(r)) + excuses'[r]
  BY <1>2, CauseTypes
<1> QED BY <1>1, <1>2, <1>3, QuietCauses

LEMMA StepCauses == ASSUME CInv, [Next]_vars PROVE CInv'
<1>0. AInv'
  BY StepAnswers DEF CInv
<1>1. CASE UNCHANGED vars
  BY <1>0, <1>1 DEF vars, CInv, ConflictHasCause, Slack, Fresh, Rivals, Touched
<1>2. ASSUME NEW r \in Requests, ReadItems(r) PROVE CInv'
  BY <1>0, <1>2, ReadCauses
<1>3. ASSUME NEW r \in Requests, ReadFails(r) PROVE CInv'
  <2>1. pc' = [pc EXCEPT ![r] = "storage"] /\ UNCHANGED <<rows, recorded, committed, tries, view>>
    BY <1>3 DEF ReadFails, Goto
  <2>2. UNCHANGED excuses \/ Excuse(r)
    BY <1>3 DEF ReadFails, Fault
  <2> QED BY <1>0, <2>1, <2>2, QuietEnds
<1>4. ASSUME NEW r \in Requests, SaveCommits(r) PROVE CInv'
  BY <1>0, <1>4, WriteCauses DEF SaveCommits, Goto
<1>5. ASSUME NEW r \in Requests, SaveCommitsUnheard(r) PROVE CInv'
  BY <1>0, <1>5, WriteCauses DEF SaveCommitsUnheard, Fault, Goto
<1>6. ASSUME NEW r \in Requests, SaveCanceled(r) PROVE CInv'
  BY <1>0, <1>6, CancelCauses
<1>7. ASSUME NEW r \in Requests, SaveFails(r) PROVE CInv'
  <2>1. pc' = [pc EXCEPT ![r] = "failed"] /\ UNCHANGED <<rows, recorded, committed, tries, view>>
    BY <1>7 DEF SaveFails, Goto
  <2>2. UNCHANGED excuses \/ Excuse(r)
    BY <1>7 DEF SaveFails, Fault
  <2> QED BY <1>0, <2>1, <2>2, QuietEnds
<1>8. ASSUME NEW r \in Requests, FindActivity(r) PROVE CInv'
  <2>1. pc' = [pc EXCEPT ![r] = "ok"] /\ UNCHANGED <<rows, recorded, committed, tries, view>>
    BY <1>8 DEF FindActivity, Goto
  <2>2. UNCHANGED excuses \/ Excuse(r)
    BY <1>8 DEF FindActivity
  <2> QED BY <1>0, <2>1, <2>2, QuietEnds
<1>9. ASSUME NEW r \in Requests, MissActivity(r) PROVE CInv'
  BY <1>0, <1>9, MissCauses
<1>10. ASSUME NEW r \in Requests, FindFails(r) PROVE CInv'
  BY <1>0, <1>10, FindFailsCauses
<1>11. ASSUME NEW r \in Requests, Crash(r) PROVE CInv'
  <2>1. pc' = [pc EXCEPT ![r] = "crashed"] /\ UNCHANGED <<rows, recorded, committed, tries, view>>
    BY <1>11 DEF Crash, Goto
  <2>2. UNCHANGED excuses \/ Excuse(r)
    BY <1>11 DEF Crash
  <2> QED BY <1>0, <2>1, <2>2, QuietEnds
<1>12. CASE Next
  BY <1>2, <1>3, <1>4, <1>5, <1>6, <1>7, <1>8, <1>9, <1>10, <1>11, <1>12 DEF Next, Step
<1> QED BY <1>1, <1>12 DEF vars

LEMMA Causes == Spec => []CInv
<1>1. CInv /\ [Next]_vars => CInv'
  BY StepCauses
<1> QED BY <1>1, InitCauses, PTL DEF Spec

\* A request that runs out of its SaveAttempts lost each of them to a commit of another
\* request on its rows, a stale read, a collision or a failed call.
THEOREM ConflictsHaveCauses == Spec => []ConflictHasCause
<1>1. CInv => ConflictHasCause
  BY DEF CInv
<1> QED BY <1>1, Causes, PTL

-----------------------------------------------------------------------------
(***************************************************************************)
(* What the rows of an item remember                                       *)
(***************************************************************************)
\* Each row's history continues that of the rows before it.
TrailsGrow ==
  \A k \in Items : \A n \in 1 .. Len(rows[k]) : \A m \in 1 .. n : \A j \in 1 .. m :
     rows[k][n].trail[j] = rows[k][m].trail[j]

\* LastLessonAttemptID is the attempt of some lesson in the history ...
Stamped(row) ==
  row.attempt # NoAttempt =>
     \E m \in 1 .. Len(row.trail) :
        row.trail[m] \in Lessons /\ AttemptOf[row.trail[m]] = row.attempt

\* ... and of the last one.
StampedLast(row) ==
  \A m \in 1 .. Len(row.trail) :
     /\ row.trail[m] \in Lessons
     /\ \A j \in 1 .. Len(row.trail) : j > m => row.trail[j] \in Reviews
     => row.attempt = AttemptOf[row.trail[m]]

StampsHold ==
  \A k \in Items : \A n \in 1 .. Len(rows[k]) :
     Stamped(rows[k][n]) /\ StampedLast(rows[k][n])

HInv ==
  /\ IInv
  /\ TrailsGrow
  /\ StampsHold
  /\ RecordedIsScheduled
  /\ ScheduledOnce

-----------------------------------------------------------------------------
LEMMA TrailType ==
  ASSUME IInv, NEW k \in Items
  PROVE  Trail(k) \in Seq(Activities) /\ Len(Trail(k)) = Len(rows[k]) /\ Len(rows[k]) \in Nat
<1>1. rows[k] \in Seq(Row) /\ TypeOK
  BY DEF IInv, TypeOK
<1>2. Len(rows[k]) \in Nat /\ Len(rows[k]) \in 0 .. Len(rows[k])
  BY <1>1
<1>3. Stored(k) \in Row /\ Len(Stored(k).trail) = Len(rows[k])
  BY <1>1, <1>2, RowAtType, RowAtNumber DEF Stored
<1> QED BY <1>2, <1>3 DEF Trail, Row

LEMMA StampsOfRowAt ==
  ASSUME IInv, StampsHold, NEW k \in Items, NEW n \in 0 .. Len(rows[k])
  PROVE  Stamped(RowAt(k, n)) /\ StampedLast(RowAt(k, n))
<1>1. CASE n = 0
  <2>1. RowAt(k, n).attempt = NoAttempt /\ RowAt(k, n).trail = <<>>
    BY <1>1 DEF RowAt, Blank
  <2> QED BY <2>1 DEF Stamped, StampedLast
<1>2. CASE n # 0
  <2>1. n \in 1 .. Len(rows[k]) /\ RowAt(k, n) = rows[k][n]
    BY <1>2, ViewType DEF RowAt
  <2> QED BY <2>1 DEF StampsHold
<1> QED BY <1>1, <1>2

\* The stamp of a row that a request computes.
LEMMA StampsOfScheduled ==
  ASSUME IInv, StampsHold, NEW r \in Requests, NEW k \in Items
  PROVE  Stamped(Scheduled(r, k)) /\ StampedLast(Scheduled(r, k))
<1> DEFINE old == RowAt(k, view[r][k])
           a   == ActivityOf[r]
           new == Scheduled(r, k)
<1>1. a \in Activities /\ old \in Row /\ Stamped(old) /\ StampedLast(old)
  BY WorkAssumption, ViewType, RowAtType, StampsOfRowAt DEF IInv
<1>2. old.trail \in Seq(Activities) /\ new.trail = Append(old.trail, a)
  BY <1>1 DEF Row, Scheduled
<1>3. /\ Len(new.trail) = Len(old.trail) + 1
      /\ new.trail[Len(new.trail)] = a
      /\ \A j \in 1 .. Len(old.trail) : new.trail[j] = old.trail[j]
      /\ Len(old.trail) \in Nat
  BY <1>1, <1>2
<1> HIDE DEF new, old
<1>4. CASE IsReview(r)
  <2>1. new.attempt = old.attempt /\ a \in Reviews
    BY <1>4 DEF new, old, Scheduled, IsReview
  <2>2. Stamped(new)
    BY <1>1, <1>3, <2>1 DEF Stamped
  <2>3. StampedLast(new)
    <3> SUFFICES ASSUME NEW m \in 1 .. Len(new.trail), new.trail[m] \in Lessons,
                        \A j \in 1 .. Len(new.trail) : j > m => new.trail[j] \in Reviews
                 PROVE  new.attempt = AttemptOf[new.trail[m]]
      BY DEF StampedLast
    <3>1. m \in 1 .. Len(old.trail)
      BY <1>3, <2>1 DEF Lessons
    <3>2. \A j \in 1 .. Len(old.trail) : j > m => old.trail[j] \in Reviews
      BY <1>3
    <3> QED BY <1>1, <1>3, <2>1, <3>1, <3>2 DEF StampedLast
  <2> QED BY <2>2, <2>3 DEF new
<1>5. CASE ~ IsReview(r)
  <2>1. new.attempt = AttemptOf[a] /\ a \in Lessons
    BY <1>1, <1>5 DEF new, Scheduled, IsReview, Lessons
  <2>2. Stamped(new)
    BY <1>3, <2>1 DEF Stamped
  <2>3. StampedLast(new)
    BY <1>3, <2>1 DEF StampedLast, Lessons
  <2> QED BY <2>2, <2>3 DEF new
<1> QED BY <1>4, <1>5

\* An item that a request touches but does not schedule has already been credited with
\* an activity of the same attempt.
LEMMA PassedOverIsCredited ==
  ASSUME IInv, TrailsGrow, StampsHold, NEW r \in Requests,
         NEW k \in Touched(r), k \notin Due(r)
  PROVE  /\ ActivityOf[r] \in Lessons
         /\ \E j \in 1 .. Len(Trail(k)) : /\ Trail(k)[j] \in Lessons
                                          /\ AttemptOf[Trail(k)[j]] = AttemptOf[ActivityOf[r]]
<1> DEFINE n == view[r][k]
           a == ActivityOf[r]
<1>1. k \in Items /\ a \in Lessons /\ AttemptOf[a] \in Attempts /\ RowAt(k, n).attempt = AttemptOf[a]
  BY WorkAssumption DEF Touched, Due, IsReview, Lessons, Attempts
<1>2. AttemptOf[a] # NoAttempt
  BY <1>1, WorkAssumption
<1>3. n # 0
  BY <1>1, <1>2 DEF RowAt, Blank
<1>4. n \in 1 .. Len(rows[k]) /\ Len(rows[k]) \in Nat
  BY <1>1, <1>3, ViewType
<1>5. RowAt(k, n) = rows[k][n] /\ Stored(k) = rows[k][Len(rows[k])]
  BY <1>3, <1>4 DEF RowAt, Stored
<1>6. PICK j \in 1 .. Len(rows[k][n].trail) :
         rows[k][n].trail[j] \in Lessons /\ AttemptOf[rows[k][n].trail[j]] = AttemptOf[a]
  BY <1>1, <1>2, <1>4, <1>5, StampsOfRowAt DEF Stamped
<1>7. Len(rows[k][n].trail) = n
  BY <1>1, <1>4 DEF IInv, VersionsCountSchedules
<1>8. rows[k][Len(rows[k])].trail[j] = rows[k][n].trail[j]
  BY <1>1, <1>4, <1>6, <1>7 DEF TrailsGrow
<1>9. Trail(k)[j] = rows[k][n].trail[j] /\ j \in 1 .. Len(Trail(k))
  BY <1>1, <1>4, <1>5, <1>6, <1>7, <1>8, TrailType DEF Trail
<1> QED BY <1>1, <1>6, <1>9
-----------------------------------------------------------------------------
(***************************************************************************)
(* The invariant is inductive                                              *)
(***************************************************************************)
LEMMA InitHistory == Init => HInv
<1> SUFFICES ASSUME Init PROVE HInv
  OBVIOUS
<1>1. \A k \in Items : rows[k] = <<>> /\ Trail(k) = <<>>
  BY DEF Init, Trail, Stored, RowAt, Blank
<1>2. TrailsGrow /\ StampsHold /\ ScheduledOnce
  BY <1>1 DEF TrailsGrow, StampsHold, ScheduledOnce
<1>3. RecordedIsScheduled
  BY DEF Init, RecordedIsScheduled
<1> QED BY <1>2, <1>3, InitInv DEF HInv

LEMMA QuietHistory == ASSUME HInv, UNCHANGED <<rows, recorded>>, IInv' PROVE HInv'
<1>1. \A k \in Items : Trail(k)' = Trail(k)
  BY DEF Trail, Stored, RowAt
<1>2. TrailsGrow' /\ StampsHold'
  BY DEF HInv, TrailsGrow, StampsHold, Stamped, StampedLast
<1>3. \A a \in recorded : ItemsOf[a] \subseteq Items
  BY WorkAssumption DEF HInv, IInv, TypeOK
<1>4. RecordedIsScheduled'
  BY <1>1, <1>3 DEF HInv, RecordedIsScheduled, Credits
<1>5. ScheduledOnce'
  BY <1>1 DEF HInv, ScheduledOnce
<1> QED BY <1>2, <1>4, <1>5 DEF HInv

LEMMA WriteGrows ==
  ASSUME IInv, TrailsGrow, NEW r \in Requests, Write(r) PROVE TrailsGrow'
<1> SUFFICES ASSUME NEW k \in Items, NEW n \in 1 .. Len(rows'[k]),
                    NEW m \in 1 .. n, NEW j \in 1 .. m
             PROVE  rows'[k][n].trail[j] = rows'[k][m].trail[j]
  BY DEF TrailsGrow
<1>1. rows[k] \in Seq(Row) /\ Len(rows[k]) \in Nat
  BY DEF IInv, TypeOK
<1>2. CASE rows'[k] = rows[k]
  BY <1>2 DEF TrailsGrow
<1>3. CASE k \in Due(r)
  <2> DEFINE new == Scheduled(r, k)
  <2>1. /\ rows'[k] = Append(rows[k], new) /\ new \in Row
        /\ new.trail = Append(Trail(k), ActivityOf[r])
    BY <1>3, WriteEffect
  <2>2. /\ Len(rows'[k]) = Len(rows[k]) + 1
        /\ \A i \in 1 .. Len(rows[k]) : rows'[k][i] = rows[k][i]
        /\ rows'[k][Len(rows[k]) + 1] = new
    BY <1>1, <2>1
  <2>3. \A i \in 1 .. Len(rows[k]) : new.trail[i] = Trail(k)[i]
    BY <2>1, TrailType
  <2>4. CASE n \in 1 .. Len(rows[k])
    <3>1. m \in 1 .. Len(rows[k])
      BY <1>1, <2>4
    <3> QED BY <2>2, <2>4, <3>1 DEF TrailsGrow
  <2>5. CASE n = Len(rows[k]) + 1 /\ m # n
    <3>1. m \in 1 .. Len(rows[k]) /\ j \in 1 .. Len(rows[k])
      BY <1>1, <2>5
    <3>2. Trail(k) = rows[k][Len(rows[k])].trail /\ Len(rows[k]) \in 1 .. Len(rows[k])
      BY <1>1, <3>1 DEF Trail, Stored, RowAt
    <3>3. Trail(k)[j] = rows[k][m].trail[j]
      BY <1>1, <3>1, <3>2 DEF TrailsGrow
    <3> QED BY <2>2, <2>3, <2>5, <3>1, <3>3
  <2>6. CASE n = Len(rows[k]) + 1 /\ m = n
    BY <2>6
  <2> QED BY <1>1, <2>2, <2>4, <2>5, <2>6
<1> QED BY <1>2, <1>3, WriteEffect

LEMMA WriteStamps ==
  ASSUME IInv, StampsHold, NEW r \in Requests, Write(r) PROVE StampsHold'
<1> SUFFICES ASSUME NEW k \in Items, NEW n \in 1 .. Len(rows'[k])
             PROVE  Stamped(rows'[k][n]) /\ StampedLast(rows'[k][n])
  BY DEF StampsHold, Stamped, StampedLast
<1>1. rows[k] \in Seq(Row)
  BY DEF IInv, TypeOK
<1>2. CASE rows'[k] = rows[k]
  BY <1>2 DEF StampsHold
<1>3. CASE k \in Due(r)
  <2>1. rows'[k] = Append(rows[k], Scheduled(r, k)) /\ Scheduled(r, k) \in Row
    BY <1>3, WriteEffect
  <2>2. rows'[k][n] = Scheduled(r, k) \/ (n \in 1 .. Len(rows[k]) /\ rows'[k][n] = rows[k][n])
    BY <1>1, <2>1
  <2>3. Stamped(Scheduled(r, k)) /\ StampedLast(Scheduled(r, k))
    BY StampsOfScheduled
  <2>4. CASE rows'[k][n] = Scheduled(r, k)
    BY <2>3, <2>4
  <2>5. CASE n \in 1 .. Len(rows[k]) /\ rows'[k][n] = rows[k][n]
    BY <2>5 DEF StampsHold
  <2> QED BY <2>2, <2>4, <2>5
<1> QED BY <1>2, <1>3, WriteEffect

LEMMA WriteRecords ==
  ASSUME HInv, NEW r \in Requests, Write(r) PROVE RecordedIsScheduled'
<1> SUFFICES ASSUME NEW b \in recorded', NEW k \in ItemsOf[b]
             PROVE  \E n \in 1 .. Len(Trail(k)') : Credits(b, Trail(k)'[n])
  BY DEF RecordedIsScheduled, Credits
<1> DEFINE a == ActivityOf[r]
<1>0. IInv /\ TrailsGrow /\ StampsHold /\ recorded' = recorded \union {a}
  BY DEF HInv, Write
<1>1. b \in Activities /\ k \in Items
  BY <1>0, WorkAssumption DEF IInv, TypeOK
<1>2. Trail(k)' = IF k \in Due(r) THEN Append(Trail(k), a) ELSE Trail(k)
  BY <1>0, <1>1, TrailEffect
<1>3. Trail(k) \in Seq(Activities) /\ a \in Activities
  BY <1>0, <1>1, TrailType, WorkAssumption
<1>4. \A n \in 1 .. Len(Trail(k)) : n \in 1 .. Len(Trail(k)') /\ Trail(k)'[n] = Trail(k)[n]
  BY <1>2, <1>3
<1>5. CASE b \in recorded
  <2>1. PICK n \in 1 .. Len(Trail(k)) : Credits(b, Trail(k)[n])
    BY <1>5 DEF HInv, RecordedIsScheduled
  <2> QED BY <1>4, <2>1
<1>6. CASE b = a /\ k \in Due(r)
  <2>1. Len(Trail(k)') \in 1 .. Len(Trail(k)') /\ Trail(k)'[Len(Trail(k)')] = a
    BY <1>2, <1>3, <1>6
  <2> QED BY <1>6, <2>1 DEF Credits
<1>7. CASE b = a /\ k \notin Due(r)
  <2>1. k \in Touched(r)
    BY <1>7 DEF Touched
  <2>2. PICK n \in 1 .. Len(Trail(k)) :
           /\ a \in Lessons /\ Trail(k)[n] \in Lessons
           /\ AttemptOf[Trail(k)[n]] = AttemptOf[a]
    BY <1>0, <1>7, <2>1, PassedOverIsCredited
  <2> QED BY <1>4, <1>7, <2>2 DEF Credits
<1> QED BY <1>0, <1>5, <1>6, <1>7

LEMMA WriteOnce ==
  ASSUME HInv, NEW r \in Requests, Write(r) PROVE ScheduledOnce'
<1> SUFFICES ASSUME NEW k \in Items
             PROVE  /\ \A n \in 1 .. Len(Trail(k)') :
                         Trail(k)'[n] \in recorded' /\ k \in ItemsOf[Trail(k)'[n]]
                    /\ \A m, n \in 1 .. Len(Trail(k)') : Trail(k)'[m] = Trail(k)'[n] => m = n
  BY DEF ScheduledOnce
<1> DEFINE a   == ActivityOf[r]
           old == Trail(k)
<1>1. IInv /\ a \notin recorded /\ recorded' = recorded \union {a}
  BY DEF HInv, Write, TransactionHolds
<1>2. /\ \A n \in 1 .. Len(old) : old[n] \in recorded /\ k \in ItemsOf[old[n]]
      /\ \A m, n \in 1 .. Len(old) : old[m] = old[n] => m = n
  BY DEF HInv, ScheduledOnce
<1>3. CASE k \notin Due(r)
  <2>1. Trail(k)' = old
    BY <1>1, <1>3, TrailEffect
  <2> QED BY <1>1, <1>2, <2>1
<1>4. CASE k \in Due(r)
  <2>1. Trail(k)' = Append(old, a) /\ k \in ItemsOf[a]
    BY <1>1, <1>4, TrailEffect DEF Due, Touched
  <2>2. old \in Seq(Activities) /\ a \in Activities
    BY <1>1, TrailType, WorkAssumption
  <2>3. /\ Len(Trail(k)') = Len(old) + 1 /\ Len(old) \in Nat
        /\ Trail(k)'[Len(old) + 1] = a
        /\ \A n \in 1 .. Len(old) : Trail(k)'[n] = old[n]
    BY <2>1, <2>2
  <2>4. \A n \in 1 .. Len(Trail(k)') : n \in 1 .. Len(old) \/ n = Len(old) + 1
    BY <2>3
  <2> QED BY <1>1, <1>2, <2>1, <2>3, <2>4
<1> QED BY <1>3, <1>4

LEMMA StepHistory == ASSUME HInv, [Next]_vars PROVE HInv'
<1>1. IInv' /\ (UNCHANGED <<rows, recorded>> \/ \E r \in Requests : Write(r))
  BY StepInv DEF HInv
<1>2. CASE UNCHANGED <<rows, recorded>>
  BY <1>1, <1>2, QuietHistory
<1>3. ASSUME NEW r \in Requests, Write(r) PROVE HInv'
  BY <1>1, <1>3, WriteGrows, WriteStamps, WriteRecords, WriteOnce DEF HInv
<1> QED BY <1>1, <1>2, <1>3

LEMMA History == Spec => []HInv
<1>1. HInv /\ [Next]_vars => HInv'
  BY StepHistory
<1> QED BY <1>1, InitHistory, PTL DEF Spec
-----------------------------------------------------------------------------
(***************************************************************************)
(* Theorems                                                                *)
(***************************************************************************)
\* No update is lost: what is on record has been applied to the schedules of all its
\* items, whatever stale reads, failures and retries came before.
THEOREM NothingLost == Spec => []RecordedIsScheduled
<1>1. HInv => RecordedIsScheduled
  BY DEF HInv
<1> QED BY <1>1, History, PTL

\* No update is counted twice on an item, and none that is not on record.
THEOREM NothingTwice == Spec => []ScheduledOnce
<1>1. HInv => ScheduledOnce
  BY DEF HInv
<1> QED BY <1>1, History, PTL

\* A commit is a step of the ledger.
LEMMA WriteIsRecord ==
  ASSUME HInv, NEW r \in Requests, Write(r)
  PROVE  Ledger!Record(ActivityOf[r])
<1> DEFINE a == ActivityOf[r]
<1>1. /\ IInv /\ TrailsGrow /\ StampsHold
      /\ a \notin recorded /\ recorded' = recorded \union {a} /\ a \in Activities
  BY WorkAssumption DEF HInv, Write, TransactionHolds
<1>2. Due(r) \subseteq ItemsOf[a] /\ ItemsOf[a] \subseteq Items
  BY WorkAssumption DEF Due, Touched
<1>3. Due(r) \subseteq Ledger!MayTake(a)
  <2> SUFFICES ASSUME NEW k \in Due(r), NEW n \in Ledger!LastLesson(k),
                      Ledger!SameAttempt(a, Trail(k)[n])
               PROVE  FALSE
    BY <1>2 DEF Ledger!MayTake
  <2>1. k \in Items /\ n \in 1 .. Len(Trail(k)) /\ Trail(k)[n] \in Activities
    BY <1>1, <1>2, TrailType DEF Ledger!LastLesson
  <2>2. /\ Trail(k)[n] \in Lessons
        /\ \A j \in 1 .. Len(Trail(k)) : j > n => Trail(k)[j] \in Reviews
    BY <1>1, <1>2, <2>1, TrailType DEF Ledger!LastLesson, Lessons
  <2>3. StampedLast(Stored(k))
    BY <1>1, <2>1, ViewType, TrailType, StampsOfRowAt DEF Stored
  <2>4. Stored(k).attempt = AttemptOf[Trail(k)[n]]
    BY <2>1, <2>2, <2>3 DEF StampedLast, Trail
  <2>5. a \notin Reviews /\ AttemptOf[a] = AttemptOf[Trail(k)[n]]
    BY DEF Ledger!SameAttempt
  <2>6. view[r][k] = Len(rows[k])
    BY <1>1, <2>1, WriteEffect
  <2> QED BY <2>4, <2>5, <2>6 DEF Due, IsReview, Stored
<1>4. Ledger!MustTake(a) \subseteq Due(r)
  <2> SUFFICES ASSUME NEW k \in Ledger!MustTake(a), k \notin Due(r) PROVE FALSE
    OBVIOUS
  <2>1. k \in Touched(r) /\ k \in Items
    BY <1>2 DEF Ledger!MustTake, Touched
  <2>2. PICK n \in 1 .. Len(Trail(k)) :
           /\ a \in Lessons /\ Trail(k)[n] \in Lessons
           /\ AttemptOf[Trail(k)[n]] = AttemptOf[a]
    BY <1>1, <2>1, PassedOverIsCredited
  <2>3. n \in DOMAIN Trail(k)
    BY <1>1, <2>1, <2>2, TrailType
  <2>4. Ledger!SameAttempt(a, Trail(k)[n])
    BY <2>2 DEF Ledger!SameAttempt, Lessons
  <2> QED BY <2>1, <2>3, <2>4 DEF Ledger!MustTake
<1>5. [k \in Items |-> Trail(k)]' =
        [k \in Items |-> IF k \in Due(r) THEN Append(Trail(k), a) ELSE Trail(k)]
  BY <1>1, TrailEffect
<1>6. \A k \in Items : [i \in Items |-> Trail(i)][k] = Trail(k)
  OBVIOUS
<1> QED BY <1>1, <1>3, <1>4, <1>5, <1>6 DEF Ledger!Record

\* The store implements the ledger: each commit is one recording, and nothing else
\* moves the schedules or the record.
THEOREM StoreIsLedger == Spec => ImplementsLedger
<1>1. Init => Ledger!LedgerInit
  BY DEF Init, Ledger!LedgerInit, Trail, Stored, RowAt, Blank
<1>2. HInv /\ [Next]_vars => [Ledger!LedgerNext]_(Ledger!ledgerVars)
  <2> SUFFICES ASSUME HInv, [Next]_vars PROVE [Ledger!LedgerNext]_(Ledger!ledgerVars)
    OBVIOUS
  <2>1. CASE UNCHANGED <<rows, recorded>>
    BY <2>1 DEF Ledger!ledgerVars, Trail, Stored, RowAt
  <2>2. ASSUME NEW r \in Requests, Write(r) PROVE Ledger!LedgerNext
    BY <2>2, WriteIsRecord, WorkAssumption DEF Ledger!LedgerNext
  <2> QED BY <2>1, <2>2, StepInv DEF HInv
<1> QED BY <1>1, <1>2, History, PTL DEF Spec, ImplementsLedger, Ledger!Spec
=============================================================================
