--------------------------- MODULE MCReviewProgress ---------------------------
(***************************************************************************)
(* Small instances of ReviewProgress, one per question.                    *)
(***************************************************************************)
EXTENDS ReviewProgress, TLC

(***************************************************************************)
(* Deliveries: two scenarios of one instance.  In the first a lesson       *)
(* result on two items is sent twice while one of the items is graded, and *)
(* a lesson names an item the reference data lacks.  In the second,        *)
(* attempt A is sent twice under one completion time and once under        *)
(* another, with attempt B in between, and no call fails.                  *)
(***************************************************************************)
DeliveryActivityOf == ("send" :> "lesson" @@ "resend" :> "lesson" @@ "grade" :> "review"
                         @@ "sendUnknown" :> "unknown" @@ "sendA1" :> "A1"
                         @@ "resendA1" :> "A1" @@ "sendA2" :> "A2" @@ "sendB" :> "B")
DeliveryRequests   == DOMAIN DeliveryActivityOf
DeliveryActivities == {DeliveryActivityOf[r] : r \in DeliveryRequests}
DeliveryReviews    == {"review"}
DeliveryItems      == {"x", "y", "z"}
DeliveryDescribed  == {"x", "y"}
DeliveryItemsOf    == [a \in DeliveryActivities |-> CASE a = "lesson"  -> {"x", "y"}
                                                      [] a = "unknown" -> {"y", "z"}
                                                      [] OTHER         -> {"x"}]
DeliveryAttemptOf  == [a \in DeliveryActivities \ DeliveryReviews |->
                         CASE a = "unknown" -> "U" [] a = "B" -> "B" [] OTHER -> "A"]

\* The requests that arrive in each scenario; the others end before their first call.
FirstScenario  == {"send", "resend", "grade", "sendUnknown"}
SecondScenario == DeliveryRequests \ FirstScenario

DeliveryInit ==
  /\ rows = [k \in Items |-> <<>>] /\ recorded = {} /\ committed = {}
  /\ tries = [r \in Requests |-> 0] /\ excuses = [r \in Requests |-> 0]
  /\ view = [r \in Requests |-> [k \in Items |-> 0]]
  /\ \/ faults = 0 /\ pc = [r \in Requests |-> IF r \in FirstScenario THEN "read"
                                                                       ELSE "crashed"]
     \/ faults = MaxFaults /\ pc = [r \in Requests |-> IF r \in SecondScenario
                                                       THEN "read" ELSE "crashed"]

DeliverySpec == DeliveryInit /\ [][Next]_vars

(***************************************************************************)
(* Contention: three grades of the item a lesson creates.                  *)
(***************************************************************************)
ContentionActivities == {"lesson", "review1", "review2", "review3"}
ContentionReviews    == {"review1", "review2", "review3"}
ContentionItems      == {"x"}
ContentionActivityOf == [r \in ContentionActivities |-> r]
ContentionItemsOf    == [a \in ContentionActivities |-> {"x"}]
ContentionAttemptOf  == [a \in {"lesson"} |-> "A"]
=============================================================================
