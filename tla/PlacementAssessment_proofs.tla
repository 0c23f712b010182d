----------------------- MODULE PlacementAssessment_proofs ----------------------
(***************************************************************************)
(* Safety of the placement assessments for every set of sessions, requests *)
(* and papers, and every number of bands.                                  *)
(***************************************************************************)
EXTENDS PlacementAssessment, TLAPS

-----------------------------------------------------------------------------
(***************************************************************************)
(* Sessions: their shape, and what scoring a stage does to it              *)
(***************************************************************************)
\* The level and the floor flag of a completed session.
Estimated(s) ==
  LET n == Len(s.stages)
  IN IF Passed(LastOf(s)) THEN ~s.floor /\ s.level = n
     ELSE IF n = 1 THEN s.floor /\ s.level = 1
     ELSE ~s.floor /\ s.level = n - 1

\* One stage a band, each passed but the last, and the last open until the session
\* is done; the version counts the answers.
Formed(s) ==
  LET n == Len(s.stages)
  IN /\ n \in 1 .. NBands
     /\ \A i \in 1 .. n - 1 : s.stages[i].answered /\ Passed(s.stages[i])
     /\ s.done <=> s.stages[n].answered
     /\ s.done => Estimated(s)

\* Session t is s with its open stage answered by a sheet.
Follows(t, s, sheet) ==
  LET n == Len(s.stages)
  IN /\ t.version = s.version + 1
     /\ Len(t.stages) >= n
     /\ \A i \in 1 .. n - 1 : t.stages[i] = s.stages[i]
     /\ t.stages[n].paper = s.stages[n].paper
     /\ t.stages[n].answered
     /\ t.stages[n].sheet = sheet

LEMMA StageType ==
  ASSUME NEW s \in Session, NEW i \in 1 .. Len(s.stages)
  PROVE  s.stages[i] \in Stage
BY DEF Session

LEMMA NewSessionType ==
  ASSUME NEW p \in Papers
  PROVE  /\ NewSession(p) \in Session
         /\ Formed(NewSession(p))
<1>1. Unanswered(p) \in Stage /\ ~Unanswered(p).answered
  BY DEF Unanswered, Stage
<1>2. <<Unanswered(p)>> \in Seq(Stage) /\ Len(<<Unanswered(p)>>) = 1
      /\ <<Unanswered(p)>>[1] = Unanswered(p)
  BY <1>1
<1>3. NewSession(p) \in Session
  BY <1>2 DEF NewSession, Session, Confidences
<1> QED BY <1>1, <1>2, <1>3, PaperAssumption DEF NewSession, Formed

\* The marked session before it is completed or goes on.
LEMMA MarkedType ==
  ASSUME NEW s \in Session, NEW sheet \in Sheets, Formed(s), ~s.done
  PROVE  LET m == Marked(s, sheet)
             n == Len(s.stages)
         IN /\ m \in Session
            /\ Len(m.stages) = n
            /\ ~m.done
            /\ Follows(m, s, sheet)
<1> DEFINE n == Len(s.stages)
           p == s.stages[n].paper
           stage == [paper |-> p, answered |-> TRUE, sheet |-> sheet,
                     correct |-> Correct[p][sheet]]
           m == Marked(s, sheet)
<1>1. n \in Nat /\ n \in 1 .. n /\ s.stages \in Seq(Stage) /\ s.version \in Nat
  BY DEF Formed, Session
<1>2. s.stages[n] \in Stage
  BY <1>1, StageType
<1>3. stage \in Stage
  BY <1>2, PaperAssumption DEF Stage
<1>4. m = [s EXCEPT !.version = @ + 1, !.stages = [@ EXCEPT ![n] = stage]]
  BY DEF Marked
<1>5. [s.stages EXCEPT ![n] = stage] \in Seq(Stage) /\ Len([s.stages EXCEPT ![n] = stage]) = n
  BY <1>1, <1>3
<1>6. m \in Session
  <2> DEFINE stages == [s.stages EXCEPT ![n] = stage]
  <2>1. s.version + 1 \in Nat /\ stages \in Seq(Stage)
    BY <1>1, <1>5
  <2>2. m = [s EXCEPT !.version = s.version + 1, !.stages = stages]
    BY <1>4 DEF Session
  <2> HIDE DEF m, stages
  <2> QED BY <2>1, <2>2 DEF Session
<1>7. m.stages = [s.stages EXCEPT ![n] = stage] /\ m.version = s.version + 1 /\ m.done = s.done
  BY <1>4 DEF Session
<1>8. m.stages[n] = stage /\ \A i \in 1 .. n - 1 : m.stages[i] = s.stages[i]
  BY <1>7, <1>1
<1>9. stage.paper = s.stages[n].paper /\ stage.answered /\ stage.sheet = sheet
  OBVIOUS
<1> HIDE DEF m, stage
<1>10. Follows(m, s, sheet)
  BY <1>1, <1>5, <1>7, <1>8, <1>9 DEF Follows
<1>11. Len(m.stages) = n
  BY <1>5, <1>7
<1> QED BY <1>6, <1>7, <1>10, <1>11 DEF m

\* Completing a marked session fills in its result and leaves its stages alone.
LEMMA CompletedType ==
  ASSUME NEW m \in Session, NEW now \in Nat, Len(m.stages) \in 1 .. NBands
  PROVE  LET c == Completed(m, now)
         IN /\ c \in Session
            /\ c.done
            /\ c.stages = m.stages
            /\ c.version = m.version
            /\ c.completedAt = now
            /\ Estimated(c)
<1> DEFINE n == Len(m.stages)
           Ended(lvl, flr, conf) ==
             [m EXCEPT !.done = TRUE, !.completedAt = now, !.level = lvl,
                       !.floor = flr, !.confidence = conf]
           c == Completed(m, now)
<1>1. ASSUME NEW lvl \in Nat, NEW flr \in BOOLEAN, NEW conf \in Confidences,
             NEW e, e = Ended(lvl, flr, conf)
      PROVE  /\ e \in Session /\ e.done /\ e.stages = m.stages /\ e.version = m.version
             /\ e.completedAt = now /\ e.level = lvl /\ e.floor = flr
  BY <1>1 DEF Session
<1>2. n \in Nat /\ n >= 1 /\ n - 1 \in Nat
  BY PaperAssumption
<1>3. CASE Passed(LastOf(m))
  <2> DEFINE conf == IF AtLeast(LastOf(m).correct, Size[LastOf(m).paper], 9, 10)
                     THEN "high" ELSE "medium"
           flr == FALSE
  <2>1. conf \in Confidences /\ flr \in BOOLEAN /\ c = Ended(n, flr, conf)
    BY <1>3 DEF Completed, Confidences
  <2> HIDE DEF c, conf, flr, Ended
  <2>2. /\ c \in Session /\ c.done /\ c.stages = m.stages /\ c.version = m.version
        /\ c.completedAt = now /\ c.level = n /\ c.floor = flr
    BY <1>1, <1>2, <2>1
  <2>3. Passed(LastOf(c)) /\ Len(c.stages) = n
    BY <1>3, <2>2 DEF LastOf
  <2> QED BY <2>2, <2>3 DEF Estimated, c, flr
<1>4. CASE ~Passed(LastOf(m)) /\ n = 1
  <2> DEFINE conf == FloorConfidence(LastOf(m))
           flr == TRUE
  <2>1. conf \in Confidences /\ flr \in BOOLEAN /\ c = Ended(1, flr, conf)
    BY <1>4 DEF Completed, FloorConfidence, Confidences
  <2> HIDE DEF c, conf, flr, Ended
  <2>2. /\ c \in Session /\ c.done /\ c.stages = m.stages /\ c.version = m.version
        /\ c.completedAt = now /\ c.level = 1 /\ c.floor = flr
    BY <1>1, <2>1
  <2>3. ~Passed(LastOf(c)) /\ Len(c.stages) = 1
    BY <1>4, <2>2 DEF LastOf
  <2> QED BY <2>2, <2>3 DEF Estimated, c, flr
<1>5. CASE ~Passed(LastOf(m)) /\ n # 1
  <2> DEFINE conf == MarginConfidence(m.stages[n - 1], LastOf(m))
           flr == FALSE
  <2>1. conf \in Confidences /\ flr \in BOOLEAN /\ c = Ended(n - 1, flr, conf)
    BY <1>5 DEF Completed, MarginConfidence, Confidences
  <2> HIDE DEF c, conf, flr, Ended
  <2>2. /\ c \in Session /\ c.done /\ c.stages = m.stages /\ c.version = m.version
        /\ c.completedAt = now /\ c.level = n - 1 /\ c.floor = flr
    BY <1>1, <1>2, <2>1
  <2>3. ~Passed(LastOf(c)) /\ Len(c.stages) = n /\ n # 1
    BY <1>5, <2>2 DEF LastOf
  <2> QED BY <2>2, <2>3 DEF Estimated, c, flr
<1> QED BY <1>3, <1>4, <1>5

\* Scoring the open stage of a session.
LEMMA GradedType ==
  ASSUME NEW s \in Session, NEW sheet \in Sheets, NEW now \in Nat, NEW p \in Papers,
         Formed(s), ~s.done
  PROVE  LET g == Graded(s, sheet, now, p)
         IN g \in Session /\ Formed(g) /\ Follows(g, s, sheet)
<1> DEFINE n == Len(s.stages)
           m == Marked(s, sheet)
           g == Graded(s, sheet, now, p)
<1>1. m \in Session /\ Len(m.stages) = n /\ ~m.done /\ Follows(m, s, sheet)
  BY MarkedType
<1> HIDE DEF m
<1>2. n \in 1 .. NBands /\ n \in Nat /\ NBands \in Nat /\ m.stages \in Seq(Stage)
  BY <1>1, PaperAssumption DEF Formed, Session
<1>3. \A i \in 1 .. n - 1 : m.stages[i].answered /\ Passed(m.stages[i])
  BY <1>1, <1>2 DEF Formed, Follows
<1>4. CASE Finishes(m)
  <2>1. g = Completed(m, now)
    BY <1>4 DEF Graded, m
  <2> HIDE DEF g
  <2>2. /\ g \in Session /\ g.done /\ g.stages = m.stages /\ g.version = m.version
        /\ Estimated(g)
    BY <1>1, <1>2, <2>1, CompletedType
  <2>3. Follows(g, s, sheet)
    BY <1>1, <2>2 DEF Follows
  <2>4. Formed(g)
    BY <1>1, <1>2, <1>3, <2>2 DEF Formed, Follows
  <2> QED BY <2>2, <2>3, <2>4 DEF g
<1>5. CASE ~Finishes(m)
  <2> DEFINE stages == Append(m.stages, Unanswered(p))
  <2>1. g = [m EXCEPT !.stages = stages]
    BY <1>5 DEF Graded, m
  <2>2. Unanswered(p) \in Stage /\ ~Unanswered(p).answered
    BY DEF Unanswered, Stage
  <2>3. /\ stages \in Seq(Stage) /\ Len(stages) = n + 1 /\ stages[n + 1] = Unanswered(p)
        /\ \A i \in 1 .. n : stages[i] = m.stages[i]
    BY <1>1, <1>2, <2>2
  <2> HIDE DEF g, stages
  <2>4. g \in Session /\ g.stages = stages /\ g.version = m.version /\ g.done = FALSE
    BY <1>1, <2>1, <2>3 DEF Session
  <2>5. Passed(m.stages[n]) /\ n # NBands
    BY <1>1, <1>5 DEF Finishes, LastOf
  <2>6. Follows(g, s, sheet)
    <3>1. n \in 1 .. n /\ \A i \in 1 .. n - 1 : i \in 1 .. n
      BY <1>2
    <3>2. g.stages[n] = m.stages[n] /\ \A i \in 1 .. n - 1 : g.stages[i] = m.stages[i]
      BY <2>3, <2>4, <3>1
    <3>3. Len(g.stages) >= n
      BY <1>2, <2>3, <2>4
    <3> QED BY <1>1, <2>4, <3>2, <3>3 DEF Follows
  <2>7. Formed(g)
    <3>1. Len(g.stages) = n + 1 /\ n + 1 \in 1 .. NBands /\ n + 1 - 1 = n
      BY <1>2, <2>3, <2>4, <2>5
    <3>2. ASSUME NEW i \in 1 .. n
          PROVE  g.stages[i].answered /\ Passed(g.stages[i])
      <4>1. g.stages[i] = m.stages[i]
        BY <2>3, <2>4
      <4>2. CASE i = n
        BY <1>1, <2>5, <4>1, <4>2 DEF Follows
      <4>3. CASE i # n
        BY <1>2, <1>3, <4>1, <4>3
      <4> QED BY <4>2, <4>3
    <3>3. ~g.stages[n + 1].answered
      BY <2>2, <2>3, <2>4
    <3> QED BY <2>4, <3>1, <3>2, <3>3 DEF Formed
  <2> QED BY <2>4, <2>6, <2>7 DEF g
<1> QED BY <1>4, <1>5

-----------------------------------------------------------------------------
(***************************************************************************)
(* The inductive invariant                                                 *)
(***************************************************************************)
\* The session a request is about to put answers the stored one.
Fresh(r) ==
  /\ Answerable(Target(r), IndexOf[r], SheetOf[r])
  /\ \E now \in Times, p \in Papers : inHand[r] = Graded(Target(r), SheetOf[r], now, p)

\* A version that has not moved means a session that has not changed.
Saving(r) ==
  /\ Target(r) # NoSession
  /\ inHand[r] \in Session /\ Formed(inHand[r])
  /\ Target(r).version >= inHand[r].version - 1
  /\ Target(r).version = inHand[r].version - 1 => Fresh(r)

\* AcknowledgedAnswerCounts, of one request.
Acknowledged(r) ==
  /\ Target(r) # NoSession
  /\ inHand[r] \in Session
  /\ Replays(Target(r), IndexOf[r], SheetOf[r])
  /\ \A i \in 1 .. Len(inHand[r].stages) :
       /\ i <= Len(Target(r).stages)
       /\ Target(r).stages[i].paper = inHand[r].stages[i].paper

RequestInv(r) ==
  /\ pc[r] = "save" => Saving(r)
  /\ pc[r] = "reget" => Target(r) # NoSession
  /\ pc[r] = "ok" => Acknowledged(r)

IInv ==
  /\ TypeOK
  /\ \A a \in Sessions : sessions[a] # NoSession => Formed(sessions[a])
  /\ \A r \in Requests : RequestInv(r)

\* What a step may do to the sessions that are stored.
Grows ==
  \A a \in Sessions : sessions[a] # NoSession =>
    /\ sessions'[a] # NoSession
    /\ \/ sessions'[a] = sessions[a]
       \/ /\ ~sessions[a].done
          /\ \E sheet \in Sheets : Follows(sessions'[a], sessions[a], sheet)

LEMMA StoredType ==
  ASSUME IInv, NEW r \in Requests, Target(r) # NoSession
  PROVE  /\ Target(r) \in Session
         /\ Formed(Target(r))
         /\ SessionOf[r] \in Sessions /\ SheetOf[r] \in Sheets
BY RequestAssumption DEF IInv, TypeOK, Target

LEMMA PutEffect ==
  ASSUME IInv, NEW r \in Requests, pc[r] = "save", Put(r)
  PROVE  /\ Target(r) # NoSession
         /\ inHand[r] \in Session /\ Formed(inHand[r])
         /\ Fresh(r)
         /\ ~Target(r).done
         /\ IndexOf[r] = Len(Target(r).stages)
         /\ Follows(inHand[r], Target(r), SheetOf[r])
         /\ sessions' = [sessions EXCEPT ![SessionOf[r]] = inHand[r]]
         /\ Target(r)' = inHand[r]
<1>1. VersionHolds(r) /\ sessions' = [sessions EXCEPT ![SessionOf[r]] = inHand[r]]
  BY DEF Put
<1>2. Saving(r) /\ Fresh(r)
  BY <1>1 DEF IInv, RequestInv, Saving, VersionHolds
<1>3. Target(r) \in Session /\ Formed(Target(r)) /\ SessionOf[r] \in Sessions
      /\ SheetOf[r] \in Sheets
  BY <1>2, StoredType DEF Saving
<1>4. ~Target(r).done /\ IndexOf[r] = Len(Target(r).stages)
  BY <1>2 DEF Fresh, Answerable
<1>5. Follows(inHand[r], Target(r), SheetOf[r])
  <2>1. PICK now \in Times, p \in Papers : inHand[r] = Graded(Target(r), SheetOf[r], now, p)
    BY <1>2 DEF Fresh
  <2>2. now \in Nat
    BY RequestAssumption
  <2> QED BY <1>3, <1>4, <2>1, <2>2, GradedType
<1>6. Target(r)' = inHand[r]
  BY <1>1, <1>3 DEF Target, IInv, TypeOK
<1> QED BY <1>1, <1>2, <1>4, <1>5, <1>6 DEF Saving

LEMMA SessionsGrow ==
  ASSUME IInv, [Next]_vars
  PROVE  Grows
<1>1. CASE UNCHANGED sessions
  BY <1>1 DEF Grows
<1>2. ASSUME NEW a \in Sessions, Start(a)
      PROVE  Grows
  BY <1>2 DEF Start, Grows, IInv, TypeOK
<1>3. ASSUME NEW r \in Requests, pc[r] = "save", Put(r)
      PROVE  Grows
  <2>1. /\ inHand[r] # NoSession /\ ~Target(r).done
        /\ Follows(inHand[r], Target(r), SheetOf[r])
        /\ sessions' = [sessions EXCEPT ![SessionOf[r]] = inHand[r]]
    BY <1>3, PutEffect, RequestAssumption
  <2>2. SheetOf[r] \in Sheets /\ sessions \in [Sessions -> Session \union {NoSession}]
    BY RequestAssumption DEF IInv, TypeOK
  <2> QED BY <2>1, <2>2 DEF Grows, Target
<1>4. ASSUME NEW r \in Requests, Step(r)
      PROVE  UNCHANGED sessions \/ (pc[r] = "save" /\ Put(r))
  BY <1>4 DEF Step, Refuse, Replay, Grade, BuildFails, GetFails, SaveCommits,
     SaveCommitsUnheard, SaveConflicts, SaveFails, Reget, RegetFails
<1> QED BY <1>1, <1>2, <1>3, <1>4 DEF Next, vars

LEMMA NextType ==
  ASSUME IInv, [Next]_vars
  PROVE  /\ TypeOK'
         /\ \A a \in Sessions : sessions'[a] # NoSession => Formed(sessions'[a])
<1> DEFINE FormedNext == \A a \in Sessions : sessions'[a] # NoSession => Formed(sessions'[a])
<1> USE RequestAssumption
<1>1. CASE UNCHANGED vars
  BY <1>1 DEF IInv, TypeOK, vars
<1>2. ASSUME NEW a \in Sessions, Start(a)
      PROVE  TypeOK' /\ FormedNext
  <2>1. PICK p \in Papers : sessions' = [sessions EXCEPT ![a] = NewSession(p)]
    BY <1>2 DEF Start
  <2>2. NewSession(p) \in Session /\ Formed(NewSession(p))
    BY NewSessionType
  <2> QED BY <1>2, <2>1, <2>2 DEF Start, IInv, TypeOK
<1>3. ASSUME NEW r \in Requests, Step(r)
      PROVE  TypeOK' /\ FormedNext
  <2>1. faults' \in Nat /\ clock' \in Nat
    BY <1>3 DEF Step, Refuse, Replay, Grade, BuildFails, GetFails, SaveCommits,
       SaveCommitsUnheard, SaveConflicts, SaveFails, Reget, RegetFails, Fault, IInv, TypeOK
  <2>2. pc' \in [Requests -> Running \union Answers]
    BY <1>3 DEF Step, Refuse, Replay, Grade, BuildFails, GetFails, SaveCommits,
       SaveCommitsUnheard, SaveConflicts, SaveFails, Reget, RegetFails, Goto, IInv, TypeOK,
       Running, Answers
  <2>3. inHand' \in [Requests -> Session \union {NoSession}]
    <3>1. CASE UNCHANGED inHand
      BY <3>1 DEF IInv, TypeOK
    <3>2. CASE Replay(r) \/ Reget(r)
      BY <3>2 DEF Replay, Reget, Holding, IInv, TypeOK, Target
    <3>3. CASE Grade(r)
      <4>1. PICK p \in Papers : inHand' = [inHand EXCEPT ![r] = Graded(Target(r), SheetOf[r], clock, p)]
        BY <3>3 DEF Grade, Holding
      <4>2. /\ Target(r) \in Session /\ Formed(Target(r)) /\ ~Target(r).done
            /\ SheetOf[r] \in Sheets /\ clock \in Nat
        BY <3>3, StoredType DEF Grade, Answerable, IInv, TypeOK
      <4>3. Graded(Target(r), SheetOf[r], clock, p) \in Session
        BY <4>2, GradedType
      <4> QED BY <4>1, <4>3 DEF IInv, TypeOK
    <3> QED BY <1>3, <3>1, <3>2, <3>3 DEF Step, Refuse, BuildFails, GetFails, SaveCommits,
            SaveCommitsUnheard, SaveConflicts, SaveFails, RegetFails
  <2>4. CASE pc[r] = "save" /\ Put(r)
    <3>1. /\ inHand[r] \in Session /\ Formed(inHand[r])
          /\ sessions' = [sessions EXCEPT ![SessionOf[r]] = inHand[r]]
      BY <2>4, PutEffect
    <3>2. sessions' \in [Sessions -> Session \union {NoSession}] /\ FormedNext
      BY <3>1 DEF IInv, TypeOK
    <3>3. level' \in Level \union {NoLevel}
      <4>1. CASE ~inHand[r].done
        BY <2>4, <4>1 DEF Put, IInv, TypeOK
      <4>2. CASE inHand[r].done
        <5>1. level' = LevelOf(r)
          BY <2>4, <4>2 DEF Put
        <5>2. inHand[r].level \in 1 .. NBands
          <6> DEFINE n == Len(inHand[r].stages)
          <6>1. n \in 1 .. NBands /\ Estimated(inHand[r]) /\ NBands \in Nat
            BY <3>1, <4>2, PaperAssumption DEF Formed
          <6>2. inHand[r].level = n \/ (n = 1 /\ inHand[r].level = 1)
                \/ (n # 1 /\ inHand[r].level = n - 1)
            BY <6>1 DEF Estimated
          <6> HIDE DEF n
          <6> QED BY <6>1, <6>2
        <5>3. inHand[r].completedAt \in Nat /\ SessionOf[r] \in Sessions
          BY <3>1 DEF Session
        <5> QED BY <5>1, <5>2, <5>3 DEF LevelOf, Level
      <4> QED BY <4>1, <4>2
    <3> QED BY <2>1, <2>2, <2>3, <3>2, <3>3 DEF TypeOK
  <2>5. CASE UNCHANGED <<sessions, level>>
    BY <2>1, <2>2, <2>3, <2>5 DEF IInv, TypeOK
  <2> QED BY <1>3, <2>4, <2>5 DEF Step, Refuse, Replay, Grade, BuildFails, GetFails,
          SaveCommits, SaveCommitsUnheard, SaveConflicts, SaveFails, Reget, RegetFails
<1> QED BY <1>1, <1>2, <1>3 DEF Next

\* A request that does not move keeps what it knows, whatever the others do.
LEMMA Undisturbed ==
  ASSUME IInv, Grows, TypeOK', NEW q \in Requests, pc'[q] = pc[q], inHand'[q] = inHand[q]
  PROVE  RequestInv(q)'
<1> DEFINE s == Target(q)
           t == Target(q)'
<1>1. RequestInv(q) /\ SessionOf[q] \in Sessions
  BY RequestAssumption DEF IInv
<1>2. CASE s = NoSession
  BY <1>1, <1>2 DEF RequestInv, Saving, Acknowledged
<1>3. CASE s # NoSession
  <2>1. s \in Session /\ Formed(s) /\ t \in Session /\ t # NoSession
    BY <1>1, <1>3, StoredType DEF Grows, Target, TypeOK
  <2>2. CASE t = s
    BY <1>1, <2>2 DEF RequestInv, Saving, Acknowledged, Fresh, Target
  <2>3. ASSUME NEW sheet \in Sheets, Follows(t, s, sheet), ~s.done
        PROVE  RequestInv(q)'
    <3>1. /\ s.version \in Nat /\ t.version = s.version + 1
          /\ Len(s.stages) \in Nat /\ Len(t.stages) \in Nat
          /\ Len(t.stages) >= Len(s.stages)
      BY <2>1, <2>3 DEF Session, Follows
    <3>2. ASSUME NEW i \in 1 .. Len(s.stages)
          PROVE  /\ t.stages[i].paper = s.stages[i].paper
                 /\ s.stages[i].answered => t.stages[i] = s.stages[i]
      <4>1. CASE i = Len(s.stages)
        BY <2>1, <2>3, <4>1 DEF Follows, Formed
      <4>2. CASE i # Len(s.stages)
        <5>1. i \in 1 .. Len(s.stages) - 1
          BY <3>1, <4>2
        <5> QED BY <2>3, <5>1 DEF Follows
      <4> QED BY <4>1, <4>2
    <3>3. CASE pc[q] = "save"
      <4>1. Saving(q) /\ inHand[q].version \in Nat
        BY <1>1, <3>3 DEF RequestInv, Saving, Session
      <4>2. t.version >= inHand[q].version - 1 /\ t.version # inHand[q].version - 1
        BY <3>1, <4>1 DEF Saving
      <4>3. Saving(q)'
        BY <2>1, <4>1, <4>2 DEF Saving
      <4> QED BY <3>3, <4>3 DEF RequestInv
    <3>4. CASE pc[q] = "ok"
      <4>1. Acknowledged(q)
        BY <1>1, <3>4 DEF RequestInv
      <4>2. Replays(t, IndexOf[q], SheetOf[q])
        BY <3>1, <3>2, <4>1 DEF Acknowledged, Replays
      <4>3. Len(inHand[q].stages) \in Nat
        BY <4>1 DEF Acknowledged, Session
      <4>4. ASSUME NEW i \in 1 .. Len(inHand[q].stages)
            PROVE  i <= Len(t.stages) /\ t.stages[i].paper = inHand[q].stages[i].paper
        BY <3>1, <3>2, <4>1, <4>3 DEF Acknowledged
      <4>5. Acknowledged(q)'
        BY <2>1, <4>1, <4>2, <4>4 DEF Acknowledged
      <4> QED BY <3>4, <4>5 DEF RequestInv
    <3>5. CASE pc[q] \notin {"save", "ok"}
      BY <2>1, <3>5 DEF RequestInv
    <3> QED BY <3>3, <3>4, <3>5
  <2> QED BY <1>1, <1>3, <2>2, <2>3 DEF Grows, Target
<1> QED BY <1>2, <1>3

\* The request that moves.
LEMMA Moved ==
  ASSUME IInv, Grows, TypeOK', NEW r \in Requests, Step(r)
  PROVE  RequestInv(r)'
<1> USE RequestAssumption
<1>1. pc[r] \in Running /\ RequestInv(r) /\ Running \intersect Answers = {}
  BY DEF IInv, Step, Refuse, Replay, Grade, BuildFails, GetFails, SaveCommits,
     SaveCommitsUnheard, SaveConflicts, SaveFails, Reget, RegetFails, Running, Answers
<1>2. CASE pc'[r] \notin {"save", "reget", "ok"}
  BY <1>2 DEF RequestInv
<1>3. CASE Replay(r)
  <2>1. pc'[r] = "ok" /\ inHand'[r] = Target(r) /\ Target(r)' = Target(r)
        /\ Target(r) # NoSession /\ Replays(Target(r), IndexOf[r], SheetOf[r])
    BY <1>3 DEF Replay, Goto, Holding, IInv, TypeOK, Target
  <2>2. Target(r) \in Session
    BY <2>1, StoredType
  <2>3. Len(Target(r).stages) \in Nat
    BY <2>2 DEF Session
  <2>4. Acknowledged(r)'
    BY <2>1, <2>2, <2>3 DEF Acknowledged
  <2> QED BY <2>1, <2>4 DEF RequestInv
<1>4. CASE Grade(r)
  <2>1. PICK p \in Papers : inHand' = [inHand EXCEPT ![r] = Graded(Target(r), SheetOf[r], clock, p)]
    BY <1>4 DEF Grade, Holding
  <2> DEFINE g == Graded(Target(r), SheetOf[r], clock, p)
  <2>2. /\ pc'[r] = "save" /\ inHand'[r] = g /\ Target(r)' = Target(r)
        /\ Target(r) # NoSession /\ clock \in Times
        /\ Answerable(Target(r), IndexOf[r], SheetOf[r])
    BY <1>4, <2>1 DEF Grade, Goto, IInv, TypeOK, Target
  <2>3. Target(r) \in Session /\ Formed(Target(r)) /\ ~Target(r).done
        /\ SheetOf[r] \in Sheets /\ clock \in Nat
    BY <2>2, StoredType DEF Answerable
  <2>4. g \in Session /\ Formed(g) /\ Follows(g, Target(r), SheetOf[r])
    BY <2>3, GradedType
  <2>5. Fresh(r)'
    BY <2>2 DEF Fresh
  <2> HIDE DEF g
  <2>6. Target(r).version \in Nat /\ g.version = Target(r).version + 1
    BY <2>3, <2>4 DEF Session, Follows
  <2>7. Saving(r)'
    BY <2>2, <2>4, <2>5, <2>6 DEF Saving
  <2> QED BY <2>2, <2>7 DEF RequestInv
<1>5. CASE SaveCommits(r) \/ SaveCommitsUnheard(r)
  <2>1. pc[r] = "save" /\ Put(r) /\ inHand'[r] = inHand[r]
    BY <1>5 DEF SaveCommits, SaveCommitsUnheard
  <2>2. /\ Target(r) # NoSession /\ inHand[r] \in Session
        /\ IndexOf[r] = Len(Target(r).stages)
        /\ Follows(inHand[r], Target(r), SheetOf[r])
        /\ Target(r)' = inHand[r]
    BY <2>1, PutEffect
  <2>3. Target(r)' # NoSession
    BY <2>2
  <2>4. Target(r) \in Session /\ Formed(Target(r))
    BY <2>2, StoredType
  <2>5. /\ Len(Target(r).stages) \in 1 .. Len(inHand[r].stages)
        /\ Len(inHand[r].stages) \in Nat
    BY <2>2, <2>4, PaperAssumption DEF Session, Formed, Follows
  <2>6. Replays(inHand[r], IndexOf[r], SheetOf[r])
    BY <2>2, <2>5 DEF Replays, Follows
  <2>7. Acknowledged(r)'
    BY <2>1, <2>2, <2>3, <2>5, <2>6 DEF Acknowledged
  <2>8. pc'[r] # "save"
    BY <1>5 DEF SaveCommits, SaveCommitsUnheard, Goto, IInv, TypeOK
  <2> QED BY <2>3, <2>7, <2>8 DEF RequestInv
<1>6. CASE SaveConflicts(r)
  <2>1. pc[r] = "save" /\ pc'[r] = "reget" /\ Target(r)' = Target(r)
    BY <1>6 DEF SaveConflicts, Goto, IInv, TypeOK, Target
  <2> QED BY <1>1, <2>1 DEF RequestInv, Saving
<1>7. CASE Reget(r) /\ pc'[r] = "ok"
  <2>1. /\ Replays(Target(r), IndexOf[r], SheetOf[r]) /\ inHand'[r] = Target(r)
        /\ Target(r)' = Target(r) /\ Target(r) # NoSession
    BY <1>1, <1>7 DEF Reget, Goto, Holding, IInv, TypeOK, Target, RequestInv
  <2>2. Target(r) \in Session
    BY <2>1, StoredType
  <2>3. Len(Target(r).stages) \in Nat
    BY <2>2 DEF Session
  <2>4. Acknowledged(r)'
    BY <2>1, <2>2, <2>3 DEF Acknowledged
  <2> QED BY <1>7, <2>4 DEF RequestInv
<1>8. \/ pc'[r] \notin {"save", "reget", "ok"}
      \/ Replay(r) \/ Grade(r) \/ SaveCommits(r) \/ SaveCommitsUnheard(r)
      \/ SaveConflicts(r) \/ (Reget(r) /\ pc'[r] = "ok")
  BY DEF Step, Refuse, BuildFails, GetFails, SaveFails, Reget, RegetFails, Goto, IInv, TypeOK
<1> QED BY <1>2, <1>3, <1>4, <1>5, <1>6, <1>7, <1>8

LEMMA StepInv ==
  ASSUME IInv, [Next]_vars
  PROVE  IInv'
<1>1. Grows
  BY SessionsGrow
<1>2. TypeOK' /\ \A a \in Sessions : sessions'[a] # NoSession => Formed(sessions'[a])
  BY NextType
<1>3. ASSUME NEW q \in Requests
      PROVE  RequestInv(q)'
  <2>1. CASE pc'[q] = pc[q] /\ inHand'[q] = inHand[q]
    BY <1>1, <1>2, <2>1, Undisturbed
  <2>2. CASE Step(q)
    BY <1>1, <1>2, <2>2, Moved
  <2>3. CASE UNCHANGED vars \/ \E a \in Sessions : Start(a)
    BY <2>1, <2>3 DEF Start, vars
  <2>4. ASSUME NEW r \in Requests, Step(r), q # r
        PROVE  pc'[q] = pc[q] /\ inHand'[q] = inHand[q]
    BY <2>4 DEF Step, Refuse, Replay, Grade, BuildFails, GetFails, SaveCommits,
       SaveCommitsUnheard, SaveConflicts, SaveFails, Reget, RegetFails, Goto, Holding,
       IInv, TypeOK
  <2> QED BY <2>1, <2>2, <2>3, <2>4 DEF Next
<1> QED BY <1>2, <1>3 DEF IInv

LEMMA Invariant == Spec => []IInv
<1>1. Init => IInv
  BY DEF Init, IInv, TypeOK, RequestInv, Running
<1> QED BY <1>1, StepInv, PTL DEF Spec

-----------------------------------------------------------------------------
(***************************************************************************)
(* The theorems                                                            *)
(***************************************************************************)
\* Every row and every session in a request's memory is well formed: the level of the
\* profile is a band, and a session's stages are stages.
THEOREM PlacementTypeCorrect == Spec => []TypeOK
BY Invariant, PTL DEF IInv

\* A request that was told ok stays right: its stage is answered with its sheet and the
\* papers it was shown are those of the stored session, whatever other requests do.
THEOREM AcknowledgedCounts == Spec => []AcknowledgedAnswerCounts
<1>1. IInv => AcknowledgedAnswerCounts
  BY DEF IInv, RequestInv, Acknowledged, AcknowledgedAnswerCounts
<1> QED BY <1>1, Invariant, PTL

\* The level of a completed session is its highest passed band, or the first band with
\* the floor flag when it passed none.
THEOREM EstimateCorrect == Spec => []EstimateIsHighestPassed
<1>1. ASSUME IInv, NEW a \in Sessions, sessions[a] # NoSession, sessions[a].done
      PROVE  LET s      == sessions[a]
                 passed == {i \in 1 .. Len(s.stages) : Passed(s.stages[i])}
             IN  /\ s.floor = (passed = {})
                 /\ s.level = IF passed = {} THEN 1
                              ELSE CHOOSE i \in passed : \A j \in passed : j <= i
  <2> DEFINE s == sessions[a]
             n == Len(s.stages)
             passed == {i \in 1 .. n : Passed(s.stages[i])}
  <2>1. /\ s \in Session /\ n \in Nat /\ n >= 1
        /\ \A i \in 1 .. n - 1 : Passed(s.stages[i])
        /\ Estimated(s) /\ s.floor \in BOOLEAN
    BY <1>1, PaperAssumption DEF IInv, TypeOK, Formed, Session
  <2> DEFINE top == IF Passed(LastOf(s)) THEN n ELSE n - 1
  <2>2. top \in Nat /\ passed = 1 .. top
    <3>1. CASE Passed(LastOf(s))
      <4>1. \A i \in 1 .. n : Passed(s.stages[i])
        BY <2>1, <3>1 DEF LastOf
      <4> QED BY <2>1, <3>1, <4>1
    <3>2. CASE ~Passed(LastOf(s))
      <4>1. \A i \in 1 .. n : Passed(s.stages[i]) <=> i # n
        BY <2>1, <3>2 DEF LastOf
      <4>2. top = n - 1 /\ top \in Nat
        BY <2>1, <3>2
      <4> HIDE DEF s, top
      <4>3. passed = 1 .. n - 1
        BY <2>1, <4>1
      <4> QED BY <4>2, <4>3
    <3> QED BY <3>1, <3>2
  <2>3. CASE top = 0
    <3>1. ~Passed(LastOf(s)) /\ n = 1
      BY <2>1, <2>3
    <3>2. s.floor /\ s.level = 1 /\ passed = {}
      BY <2>1, <2>2, <2>3, <3>1 DEF Estimated
    <3> QED BY <2>1, <3>2
  <2>4. CASE top # 0
    <3>1. ~s.floor /\ s.level = top
      BY <2>1, <2>4 DEF Estimated
    <3> HIDE DEF top, passed, s
    <3>2. top \in passed /\ \A j \in passed : j <= top /\ j \in Nat
      BY <2>2, <2>4
    <3>3. \A i \in passed : (\A j \in passed : j <= i) => i = top
      BY <2>2, <3>2
    <3>4. top = CHOOSE i \in passed : \A j \in passed : j <= i
      BY <3>2, <3>3
    <3>5. passed # {}
      BY <3>2
    <3> QED BY <2>1, <3>1, <3>4, <3>5 DEF passed, s
  <2> QED BY <2>3, <2>4
<1>2. IInv => EstimateIsHighestPassed
  BY <1>1 DEF EstimateIsHighestPassed
<1> QED BY <1>2, Invariant, PTL

\* No step changes an answered stage, takes a version back or touches a session that is
\* done.
THEOREM ScoresStay == Spec => ScoresAreFinal
<1>1. ASSUME IInv, [Next]_vars, NEW a \in Sessions, sessions[a] # NoSession
      PROVE  /\ sessions[a]'.version >= sessions[a].version
             /\ sessions[a].done => sessions[a]' = sessions[a]
             /\ \A i \in 1 .. Len(sessions[a].stages) :
                  sessions[a].stages[i].answered =>
                    sessions[a]'.stages[i] = sessions[a].stages[i]
  <2> DEFINE s == sessions[a]
             t == sessions'[a]
  <2>1. s \in Session /\ Formed(s) /\ s.version \in Nat /\ Len(s.stages) \in Nat
    BY <1>1 DEF IInv, TypeOK, Session
  <2>2. CASE t = s
    BY <2>1, <2>2
  <2>3. ASSUME NEW sheet \in Sheets, Follows(t, s, sheet), ~s.done
        PROVE  /\ t.version >= s.version
               /\ \A i \in 1 .. Len(s.stages) :
                    s.stages[i].answered => t.stages[i] = s.stages[i]
    <3>1. t.version >= s.version
      BY <2>1, <2>3 DEF Follows
    <3>2. ASSUME NEW i \in 1 .. Len(s.stages), s.stages[i].answered
          PROVE  t.stages[i] = s.stages[i]
      <4>1. i # Len(s.stages)
        BY <2>1, <2>3, <3>2 DEF Formed
      <4>2. i \in 1 .. Len(s.stages) - 1
        BY <2>1, <4>1
      <4> QED BY <2>3, <4>2 DEF Follows
    <3> QED BY <3>1, <3>2
  <2> QED BY <1>1, <2>2, <2>3, SessionsGrow DEF Grows
<1>2. IInv /\ [Next]_vars =>
        [\A a \in Sessions : sessions[a] # NoSession =>
           /\ sessions[a]'.version >= sessions[a].version
           /\ sessions[a].done => sessions[a]' = sessions[a]
           /\ \A i \in 1 .. Len(sessions[a].stages) :
                sessions[a].stages[i].answered =>
                   sessions[a]'.stages[i] = sessions[a].stages[i]]_vars
  BY <1>1
<1> QED BY <1>2, Invariant, PTL DEF Spec, ScoresAreFinal

\* The rules of the abstract test are those of the store.
LEMMA SameRules ==
  /\ \A p : Test!NewSession(p) = NewSession(p)
  /\ \A s, i, sheet : Test!Answerable(s, i, sheet) <=> Answerable(s, i, sheet)
  /\ \A s, sheet, now, p : Test!Graded(s, sheet, now, p) = Graded(s, sheet, now, p)
<1>1. \A p : Test!Unanswered(p) = Unanswered(p)
  BY DEF Test!Unanswered, Unanswered
<1>2. \A s : Test!LastOf(s) = LastOf(s)
  BY DEF Test!LastOf, LastOf
<1>3. \A a, b, n, d : Test!AtLeast(a, b, n, d) <=> AtLeast(a, b, n, d)
  BY DEF Test!AtLeast, AtLeast
<1>4. \A s : Test!Passed(s) <=> Passed(s)
  BY <1>3 DEF Test!Passed, Passed
<1>5. \A u, l, n, d : Test!MarginAtLeast(u, l, n, d) <=> MarginAtLeast(u, l, n, d)
  BY DEF Test!MarginAtLeast, MarginAtLeast
<1>6. \A s, sheet : Test!Marked(s, sheet) = Marked(s, sheet)
  BY DEF Test!Marked, Marked
<1>7. \A m : Test!Finishes(m) <=> Finishes(m)
  BY <1>2, <1>4 DEF Test!Finishes, Finishes
<1>8. \A s : Test!FloorConfidence(s) = FloorConfidence(s)
  BY <1>3 DEF Test!FloorConfidence, FloorConfidence
<1>9. \A u, l : Test!MarginConfidence(u, l) = MarginConfidence(u, l)
  BY <1>5 DEF Test!MarginConfidence, MarginConfidence
<1>10. \A m, now : Test!Completed(m, now) = Completed(m, now)
  BY <1>2, <1>3, <1>4, <1>8, <1>9 DEF Test!Completed, Completed
<1> QED BY <1>1, <1>6, <1>7, <1>10 DEF Test!NewSession, NewSession, Test!Answerable, Answerable,
        Test!Graded, Graded

\* The requests, with their stale sessions in memory, retries and lost answers, do no more
\* than open sessions and score them one sheet at a time.
THEOREM StoreIsTest == Spec => ImplementsTest
<1>1. Init => Test!TestInit
  BY DEF Init, Test!TestInit
<1>2. ASSUME IInv, [Next]_vars
      PROVE  [Test!TestNext]_(Test!testVars)
  <2>1. CASE UNCHANGED <<sessions, level>>
    BY <2>1 DEF Test!testVars
  <2>2. ASSUME NEW a \in Sessions, Start(a)
        PROVE  Test!TestNext
    BY <2>2, SameRules DEF Start, Test!TestNext, Test!Open
  <2>3. ASSUME NEW r \in Requests, pc[r] = "save", Put(r)
        PROVE  Test!TestNext
    <3> DEFINE a == SessionOf[r]
               s == sessions[a]
               t == inHand[r]
    <3>1. /\ a \in Sessions /\ SheetOf[r] \in Sheets /\ s # NoSession
          /\ Answerable(s, Len(s.stages), SheetOf[r])
          /\ sessions' = [sessions EXCEPT ![a] = t]
      BY <1>2, <2>3, PutEffect, RequestAssumption DEF Fresh, Target
    <3>2. PICK now \in Times, p \in Papers : t = Test!Graded(s, SheetOf[r], now, p)
      BY <1>2, <2>3, PutEffect, SameRules DEF Fresh, Target
    <3>3. level' = IF t.done THEN Test!LevelFrom(a, t) ELSE level
      BY <2>3 DEF Put, LevelOf, Test!LevelFrom
    <3>4. Test!Answerable(s, Len(s.stages), SheetOf[r])
      BY <3>1, SameRules
    <3> HIDE DEF a, s, t
    <3>5. Test!Score(a, SheetOf[r])
      BY <3>1, <3>2, <3>3, <3>4 DEF Test!Score, s
    <3> QED BY <3>1, <3>5 DEF Test!TestNext
  <2>4. ASSUME NEW r \in Requests, Step(r)
        PROVE  UNCHANGED <<sessions, level>> \/ (pc[r] = "save" /\ Put(r))
    BY <2>4 DEF Step, Refuse, Replay, Grade, BuildFails, GetFails, SaveCommits,
       SaveCommitsUnheard, SaveConflicts, SaveFails, Reget, RegetFails
  <2> QED BY <1>2, <2>1, <2>2, <2>3, <2>4 DEF Next, vars
<1> QED BY <1>1, <1>2, Invariant, PTL DEF Spec, ImplementsTest, Test!Spec
=============================================================================
