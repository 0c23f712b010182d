----------------------------- MODULE ReviewLedger -----------------------------
(***************************************************************************)
(* What the progress store promises: an append-only history of activities  *)
(* per review item, each activity taken once and on all its items at once. *)
(* There are no requests, reads, versions or failures here.                *)
(***************************************************************************)
EXTENDS Integers, Sequences

CONSTANTS Activities, Reviews, Items, ItemsOf, AttemptOf

VARIABLES
  trail,     \* trail[k]: the activities item k's schedule is the result of
  recorded   \* the activities on record

ledgerVars == <<trail, recorded>>

LedgerInit ==
  /\ trail = [k \in Items |-> <<>>]
  /\ recorded = {}

SameAttempt(a, b) == /\ {a, b} \intersect Reviews = {}
                     /\ AttemptOf[a] = AttemptOf[b]

\* Whether an earlier submission of a's attempt was the last lesson on the item.
LastLesson(k) == {n \in DOMAIN trail[k] :
                    /\ trail[k][n] \notin Reviews
                    /\ \A m \in DOMAIN trail[k] : m > n => trail[k][m] \in Reviews}

MustTake(a) == {k \in ItemsOf[a] : \A n \in DOMAIN trail[k] : ~ SameAttempt(a, trail[k][n])}
MayTake(a)  == {k \in ItemsOf[a] : \A n \in LastLesson(k) : ~ SameAttempt(a, trail[k][n])}

\* An activity goes on record once.  It counts on every item its attempt has not
\* counted on, and never twice in a row.
Record(a) ==
  /\ a \notin recorded
  /\ recorded' = recorded \union {a}
  /\ \E taken \in SUBSET MayTake(a) :
       /\ MustTake(a) \subseteq taken
       /\ trail' = [k \in Items |-> IF k \in taken THEN Append(trail[k], a) ELSE trail[k]]

LedgerNext == \E a \in Activities : Record(a)

Spec == LedgerInit /\ [][LedgerNext]_ledgerVars
=============================================================================
