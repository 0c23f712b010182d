----------------------------- MODULE Listing_proofs ----------------------------
(***************************************************************************)
(* What Listed, Among and FirstOf return, for every finite set, every      *)
(* strict total order and every sequence.                                  *)
(***************************************************************************)
EXTENDS Listing, FiniteSetTheorems, SequenceTheorems, TLAPS

\* before is a strict total order of S.
IsOrder(S, before) ==
  /\ \A x \in S : before[x] \subseteq S \ {x}
  /\ \A x, y \in S : x # y => x \in before[y] \/ y \in before[x]
  /\ \A x, y \in S : y \in before[x] => before[y] \subseteq before[x]

\* An element has fewer before it than one that comes later.
LEMMA FewerBefore ==
  ASSUME NEW S, IsFiniteSet(S), NEW before, IsOrder(S, before), NEW x \in S, NEW y \in S,
         y \in before[x]
  PROVE  Cardinality(before[y]) < Cardinality(before[x])
<1>1. before[y] \in SUBSET (before[x] \ {y}) /\ before[x] \in SUBSET S
  BY DEF IsOrder
<1>2. IsFiniteSet(before[x]) /\ IsFiniteSet(before[x] \ {y})
  BY <1>1, FS_Subset, FS_RemoveElement
<1>3. Cardinality(before[x] \ {y}) = Cardinality(before[x]) - 1
  BY <1>2, FS_RemoveElement
<1>4. Cardinality(before[y]) <= Cardinality(before[x] \ {y})
  BY <1>1, <1>2, FS_Subset
<1>5. Cardinality(before[x]) \in Nat /\ Cardinality(before[y]) \in Nat
  BY <1>1, <1>2, FS_Subset, FS_CardinalityType
<1> QED BY <1>3, <1>4, <1>5

LEMMA CountBefore ==
  ASSUME NEW S, IsFiniteSet(S), NEW before, IsOrder(S, before), NEW x \in S
  PROVE  /\ Cardinality(S) \in Nat /\ Cardinality(before[x]) \in Nat
         /\ Cardinality(before[x]) + 1 \in 1 .. Cardinality(S)
<1>1. before[x] \in SUBSET (S \ {x})
  BY DEF IsOrder
<1>2. /\ IsFiniteSet(S \ {x}) /\ Cardinality(S \ {x}) = Cardinality(S) - 1
      /\ Cardinality(S) \in Nat
  BY FS_RemoveElement, FS_CardinalityType
<1>3. Cardinality(before[x]) \in Nat /\ Cardinality(before[x]) <= Cardinality(S \ {x})
  BY <1>1, <1>2, FS_Subset, FS_CardinalityType
<1> QED BY <1>2, <1>3

\* There is one element for each number of elements before it.
LEMMA OneForEach ==
  ASSUME NEW S, IsFiniteSet(S), NEW before, IsOrder(S, before), NEW n \in 1 .. Cardinality(S)
  PROVE  \E x \in S : Cardinality(before[x]) = n - 1
<1> DEFINE N    == Cardinality(S)
           rank == [x \in S |-> Cardinality(before[x]) + 1]
<1>1. N \in Nat
  BY FS_CardinalityType
<1>2. IsFiniteSet(1 .. N) /\ Cardinality(1 .. N) = N
  BY <1>1, FS_Interval
<1>3. rank \in [S -> 1 .. N]
  BY CountBefore
<1>4. ASSUME NEW x \in S, NEW y \in S, x # y PROVE rank[x] # rank[y]
  <2>1. Cardinality(before[x]) \in Nat /\ Cardinality(before[y]) \in Nat
    BY CountBefore
  <2>2. CASE y \in before[x]
    BY <1>1, <2>1, <2>2, FewerBefore
  <2>3. CASE x \in before[y]
    BY <1>1, <2>1, <2>3, FewerBefore
  <2> QED BY <1>4, <2>2, <2>3 DEF IsOrder
<1>5. rank \in Injection(S, 1 .. N)
  BY <1>3, <1>4 DEF Injection, IsInjective
<1>6. rank \in Surjection(S, 1 .. N)
  BY <1>2, <1>5, FS_Injection
<1>7. PICK x \in S : rank[x] = n
  BY <1>6 DEF Surjection
<1>8. Cardinality(before[x]) + 1 = n /\ Cardinality(before[x]) \in Int
  BY <1>1, <1>7, CountBefore
<1> QED BY <1>8

\* Listed has every element once, each after those before it.
LEMMA ListedInOrder ==
  ASSUME NEW S, IsFiniteSet(S), NEW before, IsOrder(S, before)
  PROVE  /\ Listed(S, before) \in Seq(S)
         /\ Len(Listed(S, before)) = Cardinality(S) /\ Cardinality(S) \in Nat
         /\ \A n \in 1 .. Cardinality(S) : Listed(S, before)[n] \in S
         /\ \A x \in S : \E n \in 1 .. Cardinality(S) : Listed(S, before)[n] = x
         /\ \A m, n \in 1 .. Cardinality(S) :
               m < n => Listed(S, before)[m] \in before[Listed(S, before)[n]]
<1> DEFINE N == Cardinality(S)
           f == Listed(S, before)
<1>1. N \in Nat
  BY FS_CardinalityType
<1>2. ASSUME NEW n \in 1 .. N PROVE f[n] \in S /\ Cardinality(before[f[n]]) = n - 1
  BY <1>2, OneForEach DEF Listed
<1>3. f \in [1 .. N -> S]
  BY <1>2 DEF Listed
<1>4. f \in Seq(S) /\ Len(f) = N
  BY <1>1, <1>3
<1>5. ASSUME NEW x \in S PROVE \E n \in 1 .. N : f[n] = x
  <2> DEFINE n == Cardinality(before[x]) + 1
  <2>1. n \in 1 .. N /\ Cardinality(before[x]) \in Int
    BY <1>1, CountBefore
  <2>2. f[n] \in S /\ Cardinality(before[f[n]]) = Cardinality(before[x])
    BY <1>2, <2>1
  <2>3. f[n] = x
    <3> SUFFICES ASSUME f[n] # x PROVE FALSE
      OBVIOUS
    <3>1. x \in before[f[n]] \/ f[n] \in before[x]
      BY <2>2 DEF IsOrder
    <3>2. Cardinality(before[x]) < Cardinality(before[x])
      BY <2>2, <3>1, FewerBefore
    <3> QED BY <2>1, <3>2
  <2> QED BY <2>1, <2>3
<1>6. ASSUME NEW m \in 1 .. N, NEW n \in 1 .. N, m < n PROVE f[m] \in before[f[n]]
  <2>1. /\ f[m] \in S /\ Cardinality(before[f[m]]) = m - 1
        /\ f[n] \in S /\ Cardinality(before[f[n]]) = n - 1
    BY <1>2
  <2>2. f[m] # f[n]
    BY <1>1, <1>6, <2>1
  <2>3. ~ f[n] \in before[f[m]]
    BY <1>1, <1>6, <2>1, FewerBefore
  <2> QED BY <2>1, <2>2, <2>3 DEF IsOrder
<1> QED BY <1>1, <1>2, <1>4, <1>5, <1>6

-----------------------------------------------------------------------------
\* Numbers, and whatever is numbered, are ordered.
LEMMA NumbersOrder ==
  ASSUME NEW S, NEW number \in [S -> Int],
         \A x, y \in S : number[x] = number[y] => x = y
  PROVE  IsOrder(S, [x \in S |-> {y \in S : number[y] < number[x]}])
<1> DEFINE before == [x \in S |-> {y \in S : number[y] < number[x]}]
<1>1. \A x \in S : before[x] \subseteq S \ {x}
  OBVIOUS
<1>2. \A x, y \in S : x # y => x \in before[y] \/ y \in before[x]
  OBVIOUS
<1>3. \A x, y \in S : y \in before[x] => before[y] \subseteq before[x]
  OBVIOUS
<1> QED BY <1>1, <1>2, <1>3 DEF IsOrder

LEMMA PlacesOrder ==
  ASSUME NEW P \in SUBSET Int PROVE IsOrder(P, [i \in P |-> {j \in P : j < i}])
<1> DEFINE before == [i \in P |-> {j \in P : j < i}]
<1>1. \A x \in P : before[x] \subseteq P \ {x}
  OBVIOUS
<1>2. \A x, y \in P : x # y => x \in before[y] \/ y \in before[x]
  OBVIOUS
<1>3. ASSUME NEW x \in P, NEW y \in P, y \in before[x], NEW z \in before[y]
      PROVE  z \in before[x]
  <2>1. z \in P /\ z < y /\ y < x /\ x \in Int /\ y \in Int /\ z \in Int
    BY <1>3
  <2> QED BY <2>1
<1> QED BY <1>1, <1>2, <1>3 DEF IsOrder

AreOf(places, s) == places \in SUBSET (1 .. Len(s))

\* EntriesAt has the entries at the places, in their order.
LEMMA EntriesInOrder ==
  ASSUME NEW T, NEW s \in Seq(T), NEW places, AreOf(places, s)
  PROVE  /\ IsFiniteSet(places) /\ Cardinality(places) \in Nat
         /\ EntriesAt(s, places) \in Seq(T) /\ Len(EntriesAt(s, places)) = Cardinality(places)
         /\ \A n \in 1 .. Cardinality(places) : \E i \in places : EntriesAt(s, places)[n] = s[i]
         /\ \A i \in places : \E n \in 1 .. Cardinality(places) : EntriesAt(s, places)[n] = s[i]
         /\ \A m, n \in 1 .. Cardinality(places) : m < n =>
               \E i, j \in places :
                  i < j /\ EntriesAt(s, places)[m] = s[i] /\ EntriesAt(s, places)[n] = s[j]
<1> DEFINE f      == EntriesAt(s, places)
           N      == Cardinality(places)
           before == [i \in places |-> {j \in places : j < i}]
           order  == Listed(places, before)
<1>1. Len(s) \in Nat /\ \A i \in places : i \in 1 .. Len(s) /\ s[i] \in T
  BY DEF AreOf
<1>2. IsFiniteSet(places) /\ places \in SUBSET Int
  <2>1. IsFiniteSet(1 .. Len(s)) /\ places \in SUBSET (1 .. Len(s))
    BY <1>1, FS_Interval DEF AreOf
  <2>2. IsFiniteSet(places)
    BY <2>1, FS_Subset
  <2> QED BY <1>1, <2>2
<1>3. IsOrder(places, before)
  BY <1>2, PlacesOrder
<1>4. /\ order \in Seq(places) /\ Len(order) = N /\ N \in Nat
      /\ \A n \in 1 .. N : order[n] \in places
      /\ \A i \in places : \E n \in 1 .. N : order[n] = i
      /\ \A m, n \in 1 .. N : m < n => order[m] \in before[order[n]]
  <2> HIDE DEF before
  <2> QED BY <1>2, <1>3, ListedInOrder
<1>5. f = [n \in 1 .. N |-> s[order[n]]]
  BY <1>4 DEF EntriesAt
<1> HIDE DEF order, f
<1>6. \A n \in 1 .. N : f[n] = s[order[n]] /\ f[n] \in T
  BY <1>1, <1>4, <1>5
<1>7. f \in Seq(T) /\ Len(f) = N
  <2>1. f \in [1 .. N -> T] /\ N \in Nat
    BY <1>4, <1>5, <1>6
  <2> HIDE DEF N
  <2> QED BY <2>1
<1>8. \A m, n \in 1 .. N : m < n =>
         \E i, j \in places : i < j /\ f[m] = s[i] /\ f[n] = s[j]
  BY <1>4, <1>6
<1>9. ASSUME NEW i \in places PROVE \E n \in 1 .. N : f[n] = s[i]
  <2>1. PICK n \in 1 .. N : order[n] = i
    BY <1>4
  <2> QED BY <1>6, <2>1
<1>10. \A n \in 1 .. N : \E i \in places : f[n] = s[i]
  BY <1>4, <1>6
<1> QED BY <1>2, <1>4, <1>7, <1>8, <1>9, <1>10 DEF f

\* Of two entries, the earlier is of an earlier place.
LEMMA EntriesAscend ==
  ASSUME NEW T, NEW s \in Seq(T), NEW places, AreOf(places, s),
         NEW m \in 1 .. Len(EntriesAt(s, places)), NEW n \in 1 .. Len(EntriesAt(s, places)), m < n
  PROVE  \E i, j \in places :
            i < j /\ EntriesAt(s, places)[m] = s[i] /\ EntriesAt(s, places)[n] = s[j]
<1>1. Len(EntriesAt(s, places)) = Cardinality(places)
  BY EntriesInOrder
<1>2. \A k, l \in 1 .. Cardinality(places) : k < l =>
         \E i, j \in places :
            i < j /\ EntriesAt(s, places)[k] = s[i] /\ EntriesAt(s, places)[l] = s[j]
  BY EntriesInOrder
<1> QED BY <1>1, <1>2

Places(s, S) == {i \in 1 .. Len(s) : s[i] \in S}

\* Among has the entries that are in S, each as often as s has it, in the same order.
LEMMA AmongInOrder ==
  ASSUME NEW T, NEW s \in Seq(T), NEW S
  PROVE  /\ IsFiniteSet(Places(s, S)) /\ Cardinality(Places(s, S)) \in Nat
         /\ Among(s, S) \in Seq(T) /\ Len(Among(s, S)) = Cardinality(Places(s, S))
         /\ \A n \in 1 .. Len(Among(s, S)) : \E i \in Places(s, S) : Among(s, S)[n] = s[i]
         /\ \A i \in Places(s, S) : \E n \in 1 .. Len(Among(s, S)) : Among(s, S)[n] = s[i]
         /\ \A m, n \in 1 .. Len(Among(s, S)) : m < n =>
               \E i, j \in Places(s, S) :
                  i < j /\ Among(s, S)[m] = s[i] /\ Among(s, S)[n] = s[j]
<1>1. Among(s, S) = EntriesAt(s, Places(s, S)) /\ AreOf(Places(s, S), s)
  <2>1. Places(s, S) = {i \in DOMAIN s : s[i] \in S}
    BY DEF Places
  <2>2. Places(s, S) \in SUBSET (1 .. Len(s))
    BY DEF Places
  <2> QED BY <2>1, <2>2 DEF Among, AreOf
<1>2. /\ IsFiniteSet(Places(s, S)) /\ Cardinality(Places(s, S)) \in Nat
      /\ Among(s, S) \in Seq(T) /\ Len(Among(s, S)) = Cardinality(Places(s, S))
  BY <1>1, EntriesInOrder
<1>3. ASSUME NEW n \in 1 .. Len(Among(s, S))
      PROVE  \E i \in Places(s, S) : Among(s, S)[n] = s[i]
  BY <1>1, <1>2, EntriesInOrder
<1>4. \A i \in Places(s, S) : \E n \in 1 .. Len(Among(s, S)) : Among(s, S)[n] = s[i]
  BY <1>1, <1>2, EntriesInOrder
<1>5. ASSUME NEW m \in 1 .. Len(Among(s, S)), NEW n \in 1 .. Len(Among(s, S)), m < n
      PROVE  \E i, j \in Places(s, S) :
                i < j /\ Among(s, S)[m] = s[i] /\ Among(s, S)[n] = s[j]
  BY <1>1, <1>5, EntriesAscend
<1> QED BY <1>2, <1>3, <1>4, <1>5

-----------------------------------------------------------------------------
(***************************************************************************)
(* Slices                                                                  *)
(***************************************************************************)
LEMMA FirstOfSeq ==
  ASSUME NEW T, NEW s \in Seq(T), NEW limit \in Nat
  PROVE  /\ FirstOf(s, limit) \in Seq(T)
         /\ Len(FirstOf(s, limit)) = IF Len(s) < limit THEN Len(s) ELSE limit
         /\ \A i \in 1 .. Len(FirstOf(s, limit)) : i <= Len(s) /\ FirstOf(s, limit)[i] = s[i]
<1> DEFINE n == IF Len(s) < limit THEN Len(s) ELSE limit
<1>1. n \in Nat /\ n <= Len(s) /\ Len(s) \in Nat
  OBVIOUS
<1>2. \A i \in 1 .. n : s[i] \in T
  BY <1>1
<1>3. /\ SubSeq(s, 1, n) \in Seq(T) /\ Len(SubSeq(s, 1, n)) = n
      /\ \A i \in 1 .. n : SubSeq(s, 1, n)[i] = s[i]
  <2> HIDE DEF n
  <2> QED BY <1>1, <1>2, SubSeqProperties
<1> QED BY <1>1, <1>3 DEF FirstOf

LEMMA AmongRange ==
  ASSUME NEW T, NEW s \in Seq(T), NEW S
  PROVE  Among(s, S) \in Seq(T) /\ Range(Among(s, S)) = Range(s) \intersect S
<1> DEFINE f == Among(s, S)
<1>1. /\ f \in Seq(T)
      /\ \A n \in 1 .. Len(f) : \E i \in Places(s, S) : f[n] = s[i]
      /\ \A i \in Places(s, S) : \E n \in 1 .. Len(f) : f[n] = s[i]
  BY AmongInOrder
<1> HIDE DEF f
<1>2. Range(f) = {f[n] : n \in 1 .. Len(f)} /\ Range(s) = {s[i] : i \in 1 .. Len(s)}
  BY <1>1, RangeEquality
<1>3. Range(f) \subseteq Range(s) \intersect S
  BY <1>1, <1>2 DEF Places
<1>4. Range(s) \intersect S \subseteq Range(f)
  BY <1>1, <1>2 DEF Places
<1> QED BY <1>1, <1>3, <1>4 DEF f
================================================================================
