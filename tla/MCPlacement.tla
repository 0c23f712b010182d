------------------------------ MODULE MCPlacement ------------------------------
(***************************************************************************)
(* Small instances of PlacementAssessment: two bands, stages of four and   *)
(* five items, a sheet of three right answers, which pass the shorter only,*)
(* and one of two, which does not fit the longer.                          *)
(***************************************************************************)
EXTENDS PlacementAssessment

MCPapers  == {"p", "q"}
MCSheets  == {"most", "few"}
MCSize    == [p \in MCPapers |-> IF p = "p" THEN 4 ELSE 5]
MCCorrect == [p \in MCPapers |-> [s \in MCSheets |-> CASE s = "most"             -> 3
                                                       [] s = "few" /\ p = "p" -> 2
                                                       [] OTHER                 -> 0]]
MCFits    == {<<"p", "most">>, <<"q", "most">>, <<"p", "few">>}
MCTimes   == 1 .. 4

(***************************************************************************)
(* Two assessments taken at once: both stages of a, the first answered by  *)
(* several requests with the same and with different sheets, and b in its  *)
(* first only.                                                             *)
(***************************************************************************)
MCSessions == {"a", "b"}
MCRequests == {"first", "again", "other", "next", "b1"}
MCSession  == [r \in MCRequests |-> IF r = "b1" THEN "b" ELSE "a"]
MCIndex    == [r \in MCRequests |-> IF r = "next" THEN 2 ELSE 1]
MCSheet    == [r \in MCRequests |-> CASE r \in {"first", "again", "next"} -> "most"
                                       [] r \in {"other", "b1"} -> "few"]

\* Latest: the requests of a and b that complete them.
LatestRequests == {"first", "other", "next", "b1"}
LatestSession  == [r \in LatestRequests |-> MCSession[r]]
LatestIndex    == [r \in LatestRequests |-> MCIndex[r]]
LatestSheet    == [r \in LatestRequests |-> MCSheet[r]]
=============================================================================
