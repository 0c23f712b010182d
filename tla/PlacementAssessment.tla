-------------------------- MODULE PlacementAssessment --------------------------
(***************************************************************************)
(* The requests behind the placement test (assessments.Service.Start and   *)
(* .Answer) and the rows they share in DynamoDB (dynamoassessments): one   *)
(* session row per assessment and one profile-level row, for one learner   *)
(* and language.                                                           *)
(*                                                                         *)
(* Answer reads the session (consistently), scores it in memory, builds    *)
(* the next stage at random, and puts the session if its version has not   *)
(* moved; a completing put carries the level row in the same transaction.  *)
(* On a conflict it reads again and answers with the stored session if     *)
(* that was answered with the same sheet.  A Lambda that is stopped is a   *)
(* request that takes no further step.                                     *)
(***************************************************************************)
EXTENDS PlacementRules

CONSTANTS
  Sessions,     \* assessment ids that Start may draw
  NoSession,
  NoLevel,
  Requests,     \* runs of Answer
  SessionOf,    \* the assessment each is about
  IndexOf,      \* the stage it answers, from 1 (stageIndex + 1)
  SheetOf,      \* the answers it submits
  Times,        \* bound: the readings of the clock
  MaxFaults     \* bound: failed calls and lost answers in a behaviour

ASSUME RequestAssumption ==
  /\ SessionOf \in [Requests -> Sessions]
  /\ IndexOf \in [Requests -> Nat]
  /\ SheetOf \in [Requests -> Sheets]
  /\ NoSession \notin Session
  /\ Times \subseteq Nat
  /\ MaxFaults \in Nat

VARIABLES
  sessions,   \* sessions[a]: the session row of assessment a
  level,      \* the profile level row
  pc,         \* where each Answer request is, or what it answered
  inHand,     \* the session a request has in memory: to be saved, or shown
  clock,      \* the service's clock
  faults

vars == <<sessions, level, pc, inHand, clock, faults>>

Running == {"get", "save", "reget"}
Answers == {"ok", "notFound", "invalid", "completed", "insufficient", "conflict", "storage"}

Level == [level : 1 .. NBands, assessment : Sessions, at : Nat]

TypeOK ==
  /\ sessions \in [Sessions -> Session \union {NoSession}]
  /\ level \in Level \union {NoLevel}
  /\ pc \in [Requests -> Running \union Answers]
  /\ inHand \in [Requests -> Session \union {NoSession}]
  /\ clock \in Nat
  /\ faults \in Nat

Init ==
  /\ sessions = [a \in Sessions |-> NoSession]
  /\ level = NoLevel
  /\ pc = [r \in Requests |-> "get"]
  /\ inHand = [r \in Requests |-> NoSession]
  /\ clock = 1
  /\ faults = 0

-----------------------------------------------------------------------------
Target(r)       == sessions[SessionOf[r]]
Goto(r, where)  == pc' = [pc EXCEPT ![r] = where]
Holding(r, s)   == inHand' = [inHand EXCEPT ![r] = s]
Fault           == faults < MaxFaults /\ faults' = faults + 1

\* Start: the first stage on a paper built for the lowest band.  A Start that
\* fails, to build it or to store it, leaves nothing behind.
Start(a) ==
  /\ sessions[a] = NoSession
  /\ \E p \in Papers : sessions' = [sessions EXCEPT ![a] = NewSession(p)]
  /\ UNCHANGED <<level, pc, inHand, clock, faults>>

-----------------------------------------------------------------------------
(***************************************************************************)
(* Answer, up to Save.  The reference data it reads to build a stage is    *)
(* shared with nobody, so Get, Answer and buildStage are one step.         *)
(***************************************************************************)
Refuse(r) ==
  /\ pc[r] = "get"
  /\ \/ Target(r) = NoSession /\ Goto(r, "notFound")
     \/ /\ Target(r) # NoSession
        /\ ~ Replays(Target(r), IndexOf[r], SheetOf[r])
        /\ ~ Answerable(Target(r), IndexOf[r], SheetOf[r])
        /\ Goto(r, IF Target(r).done THEN "completed" ELSE "invalid")
  /\ UNCHANGED <<sessions, level, inHand, clock, faults>>

Replay(r) ==
  /\ pc[r] = "get"
  /\ Target(r) # NoSession
  /\ Replays(Target(r), IndexOf[r], SheetOf[r])
  /\ Goto(r, "ok")
  /\ Holding(r, Target(r))
  /\ UNCHANGED <<sessions, level, clock, faults>>

\* Answer scores the stage at the time now, and a stage is built for the next band.
Grade(r) ==
  /\ pc[r] = "get"
  /\ Target(r) # NoSession
  /\ ~ Replays(Target(r), IndexOf[r], SheetOf[r])
  /\ Answerable(Target(r), IndexOf[r], SheetOf[r])
  /\ \E p \in Papers : Holding(r, Graded(Target(r), SheetOf[r], clock, p))
  /\ clock \in Times
  /\ clock' = IF Finishes(Marked(Target(r), SheetOf[r])) THEN clock + 1 ELSE clock
  /\ Goto(r, "save")
  /\ UNCHANGED <<sessions, level, faults>>

\* The next stage cannot be built: the reference data of the band is too thin, or
\* reading it fails.
BuildFails(r) ==
  /\ pc[r] = "get"
  /\ Target(r) # NoSession
  /\ ~ Replays(Target(r), IndexOf[r], SheetOf[r])
  /\ Answerable(Target(r), IndexOf[r], SheetOf[r])
  /\ ~ Finishes(Marked(Target(r), SheetOf[r]))
  /\ Fault
  /\ Goto(r, "insufficient")
  /\ UNCHANGED <<sessions, level, inHand, clock>>

GetFails(r) ==
  /\ pc[r] = "get"
  /\ Fault
  /\ Goto(r, "storage")
  /\ UNCHANGED <<sessions, level, inHand, clock>>

-----------------------------------------------------------------------------
(***************************************************************************)
(* Save: the session under its version, and with it the level row when the *)
(* session is completed, whatever the row held.                            *)
(***************************************************************************)
\* Mutants of VersionHolds: the row need only exist, or not be ahead.
RowExists(r)      == Target(r) # NoSession
VersionNotPast(r) == Target(r) # NoSession /\ Target(r).version <= inHand[r].version

VersionHolds(r) ==
  /\ Target(r) # NoSession
  /\ Target(r).version = inHand[r].version - 1

\* Mutant of LevelOf: the level is taken from the row as it was before the put.
LevelBefore(r) ==
  [level |-> Target(r).level, assessment |-> SessionOf[r], at |-> inHand[r].completedAt]

LevelOf(r) ==
  [level |-> inHand[r].level, assessment |-> SessionOf[r], at |-> inHand[r].completedAt]

Put(r) ==
  /\ VersionHolds(r)
  /\ sessions' = [sessions EXCEPT ![SessionOf[r]] = inHand[r]]
  /\ level' = IF inHand[r].done THEN LevelOf(r) ELSE level

SaveCommits(r) ==
  /\ pc[r] = "save"
  /\ Put(r)
  /\ Goto(r, "ok")
  /\ UNCHANGED <<inHand, clock, faults>>

\* The write succeeds but its answer is lost.  The client gives up, and the learner
\* sees a storage failure, or it sends the write again: a plain put then fails on
\* its own effect, while a transaction carries a token and is answered as before.
SaveCommitsUnheard(r) ==
  /\ pc[r] = "save"
  /\ Put(r)
  /\ Fault
  /\ \/ Goto(r, "storage")
     \/ ~ inHand[r].done /\ Goto(r, "reget")
  /\ UNCHANGED <<inHand, clock>>

\* A completing transaction also conflicts with another one on its rows.
Collides(r) ==
  /\ inHand[r].done
  /\ \E q \in Requests \ {r} :
       pc[q] = "save" /\ (inHand[q].done \/ SessionOf[q] = SessionOf[r])

SaveConflicts(r) ==
  /\ pc[r] = "save"
  /\ ~ VersionHolds(r) \/ Collides(r)
  /\ Goto(r, "reget")
  /\ UNCHANGED <<sessions, level, inHand, clock, faults>>

SaveFails(r) ==
  /\ pc[r] = "save"
  /\ Fault
  /\ Goto(r, "storage")
  /\ UNCHANGED <<sessions, level, inHand, clock>>

-----------------------------------------------------------------------------
\* Mutant of Reget: after a conflict the stored session is the answer, whoever's
\* answers it holds.
RegetAnyAnswers(r) ==
  /\ pc[r] = "reget"
  /\ Goto(r, "ok")
  /\ Holding(r, Target(r))
  /\ UNCHANGED <<sessions, level, clock, faults>>

\* After a conflict: the same answers are replayed, others are refused.
Reget(r) ==
  /\ pc[r] = "reget"
  /\ IF Replays(Target(r), IndexOf[r], SheetOf[r])
     THEN Goto(r, "ok") /\ Holding(r, Target(r))
     ELSE Goto(r, "conflict") /\ UNCHANGED inHand
  /\ UNCHANGED <<sessions, level, clock, faults>>

RegetFails(r) ==
  /\ pc[r] = "reget"
  /\ Fault
  /\ Goto(r, "conflict")
  /\ UNCHANGED <<sessions, level, inHand, clock>>

Step(r) == \/ Refuse(r)
           \/ Replay(r)
           \/ Grade(r)
           \/ BuildFails(r)
           \/ GetFails(r)
           \/ SaveCommits(r)
           \/ SaveCommitsUnheard(r)
           \/ SaveConflicts(r)
           \/ SaveFails(r)
           \/ Reget(r)
           \/ RegetFails(r)

Next == \/ \E a \in Sessions : Start(a)
        \/ \E r \in Requests : Step(r)

Spec == Init /\ [][Next]_vars

-----------------------------------------------------------------------------
(***************************************************************************)
(* Properties                                                              *)
(***************************************************************************)

\* What an answered request was told stays: no other request's randomly built paper takes
\* the place of one that was shown, so that the learner answers the questions he saw; and
\* the sheet that was acknowledged is the one that counts, so that of two requests that
\* answer a stage differently at most one is told ok.
AcknowledgedAnswerCounts ==
  \A r \in Requests : pc[r] = "ok" =>
     /\ Target(r) # NoSession
     /\ Replays(Target(r), IndexOf[r], SheetOf[r])
     /\ \A i \in 1 .. Len(inHand[r].stages) :
          /\ i <= Len(Target(r).stages)
          /\ Target(r).stages[i].paper = inHand[r].stages[i].paper

\* What was scored is final: no later request changes an answered stage, and a
\* completed session does not change at all.
ScoresAreFinal ==
  [][\A a \in Sessions : sessions[a] # NoSession =>
       /\ sessions[a]'.version >= sessions[a].version
       /\ sessions[a].done => sessions[a]' = sessions[a]
       /\ \A i \in 1 .. Len(sessions[a].stages) :
            sessions[a].stages[i].answered =>
               sessions[a]'.stages[i] = sessions[a].stages[i]]_vars

\* The estimate is the highest passed band, and the lowest band with the floor flag
\* when none was passed, whichever branch of complete computed it.
EstimateIsHighestPassed ==
  \A a \in Sessions :
     sessions[a] # NoSession /\ sessions[a].done =>
        LET s      == sessions[a]
            passed == {i \in 1 .. Len(s.stages) : Passed(s.stages[i])}
        IN  /\ s.floor = (passed = {})
            /\ s.level = IF passed = {} THEN 1
                         ELSE CHOOSE i \in passed : \A j \in passed : j <= i

\* "the latest completed assessment always owns the profile level"
\* (docs/assessments.md): the level row is that of the last completion time.
LatestCompletedOwnsLevel ==
  \A a \in Sessions :
     sessions[a] # NoSession /\ sessions[a].done => sessions[a].completedAt <= level.at

-----------------------------------------------------------------------------
\* The store implements the placement test, one atomic step per write.
Test == INSTANCE PlacementTest

\* However requests race, fail and repeat, sessions are scored one sheet at a time.
ImplementsTest == Test!Spec
=============================================================================
