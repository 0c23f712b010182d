--------------------------------- MODULE Listing -------------------------------
(***************************************************************************)
(* Finite sets listed in an order, and the entries of a list that are in a *)
(* set: what the code's sorts, its ordered queries and its filtering loops *)
(* return.  An order is given by what comes before each element.           *)
(***************************************************************************)
EXTENDS Integers, Sequences, FiniteSets

\* The elements of S, each after those in before[x].
Listed(S, before) ==
  [n \in 1..Cardinality(S) |-> CHOOSE x \in S : Cardinality(before[x]) = n - 1]

\* The entries of a sequence at some of its places, in their order.
EntriesAt(s, places) ==
  LET order == Listed(places, [i \in places |-> {j \in places : j < i}])
  IN [n \in DOMAIN order |-> s[order[n]]]

\* The entries of a sequence that are in S, in their order.
Among(s, S) == EntriesAt(s, {i \in DOMAIN s : s[i] \in S})

\* As many of its first entries as the limit allows.
FirstOf(s, limit) == SubSeq(s, 1, IF Len(s) < limit THEN Len(s) ELSE limit)
=============================================================================
