----------------------------- MODULE PlacementTest -----------------------------
(***************************************************************************)
(* What the placement assessments of one learner and language promise:     *)
(* sessions that are opened and scored stage by stage, each step at once,  *)
(* and a profile level that a completed session sets as it completes.  No  *)
(* requests, versions to compare or failures.                              *)
(***************************************************************************)
EXTENDS PlacementRules

CONSTANTS
  Sessions,   \* assessment ids
  NoSession,  \* an id not yet used
  NoLevel,    \* no profile level yet
  Times       \* the completion times there may be

VARIABLES
  sessions,   \* the stored session of each id, or NoSession
  level       \* the profile level row, or NoLevel

testVars == <<sessions, level>>

TestInit ==
  /\ sessions = [a \in Sessions |-> NoSession]
  /\ level = NoLevel

Open(a, p) ==
  /\ sessions[a] = NoSession
  /\ sessions' = [sessions EXCEPT ![a] = NewSession(p)]
  /\ UNCHANGED level

LevelFrom(a, session) ==
  [level |-> session.level, assessment |-> a, at |-> session.completedAt]

\* One sheet scores the stage that is open, and the profile follows a completion.
Score(a, sheet) ==
  /\ sessions[a] # NoSession
  /\ Answerable(sessions[a], Len(sessions[a].stages), sheet)
  /\ \E now \in Times, p \in Papers :
       LET next == Graded(sessions[a], sheet, now, p)
       IN  /\ sessions' = [sessions EXCEPT ![a] = next]
           /\ level' = IF next.done THEN LevelFrom(a, next) ELSE level

TestNext ==
  \E a \in Sessions : \/ \E p \in Papers : Open(a, p)
                      \/ \E sheet \in Sheets : Score(a, sheet)

Spec == TestInit /\ [][TestNext]_testVars
=============================================================================
