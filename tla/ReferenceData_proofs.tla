-------------------------- MODULE ReferenceData_proofs -------------------------
(***************************************************************************)
(* Loads and reads of the reference data, for every table, all releases,    *)
(* any number of loads and jobs, page sizes and limits.                    *)
(***************************************************************************)
EXTENDS ReferenceData, Listing_proofs

-----------------------------------------------------------------------------
(***************************************************************************)
(* Slices and rankings: which candidates UncoveredFirst chooses and which  *)
(* topic RankTopics puts first.                                            *)
(***************************************************************************)
\* The choice is made of the candidates, is as large as it may be, and has a covered
\* candidate only with all that are not.
LEMMA UncoveredFirstChooses ==
  ASSUME NEW T, NEW ids \in Seq(T), NEW covered, NEW limit \in Nat
  PROVE  LET chosen == UncoveredFirst(ids, covered, limit)
         IN  /\ chosen \in Seq(T) /\ Range(chosen) \subseteq Range(ids)
             /\ Len(chosen) = Len(FirstOf(ids, limit))
             /\ Range(chosen) \intersect covered # {} =>
                   Range(ids) \ covered \subseteq Range(chosen)
<1> DEFINE new    == Range(ids) \ covered
           a      == Among(ids, new)
           b      == Among(ids, covered)
           chosen == FirstOf(a \o b, limit)
<1>0. Range(ids) = {ids[i] : i \in 1 .. Len(ids)}
  BY RangeEquality
<1>1. /\ a \in Seq(T) /\ Range(a) = new
      /\ b \in Seq(T) /\ Range(b) = Range(ids) \intersect covered
  BY AmongRange
<1>2. /\ IsFiniteSet(Places(ids, new)) /\ Len(a) = Cardinality(Places(ids, new))
      /\ IsFiniteSet(Places(ids, covered)) /\ Len(b) = Cardinality(Places(ids, covered))
  BY AmongInOrder
<1>3. /\ Places(ids, new) \union Places(ids, covered) = 1 .. Len(ids)
      /\ Places(ids, new) \intersect Places(ids, covered) = {}
  BY <1>0 DEF Places
<1> HIDE DEF new, a, b
<1>5. Len(a) + Len(b) = Len(ids)
  <2>1. Cardinality(1 .. Len(ids)) = Len(a) + Len(b) - Cardinality({})
    <3> DEFINE A == Places(ids, new)
               B == Places(ids, covered)
    <3>0. IsFiniteSet(A) /\ IsFiniteSet(B)
      BY <1>2
    <3>1. A \union B = 1 .. Len(ids) /\ A \intersect B = {}
      BY <1>2, <1>3
    <3> HIDE DEF A, B
    <3>2. Cardinality(A \union B) = Cardinality(A) + Cardinality(B) - Cardinality(A \intersect B)
      BY <3>0, FS_Union, Zenon
    <3>3. Cardinality(A \union B) = Cardinality(1 .. Len(ids))
      BY <3>1, Zenon
    <3>4. Cardinality(A \intersect B) = Cardinality({})
      BY <3>1, Zenon
    <3>5. Len(a) = Cardinality(A) /\ Len(b) = Cardinality(B)
      BY <1>2 DEF A, B
    <3> QED BY <3>2, <3>3, <3>4, <3>5
  <2>2. Cardinality({}) = 0
    BY FS_EmptySet
  <2>3. Len(a) \in Nat /\ Len(b) \in Nat /\ Len(ids) \in Nat
    BY <1>1
  <2>4. Cardinality(1 .. Len(ids)) = Len(ids)
    <3> DEFINE n == Len(ids)
    <3> SUFFICES Cardinality(1 .. n) = n
      OBVIOUS
    <3>1. n \in Nat
      BY <2>3
    <3> HIDE DEF n
    <3>2. Cardinality(1 .. n) = IF 1 > n THEN 0 ELSE n - 1 + 1
      BY <3>1, FS_Interval
    <3> QED BY <3>1, <3>2
  <2> QED BY <2>1, <2>2, <2>3, <2>4
<1>6. /\ a \o b \in Seq(T) /\ Len(a \o b) = Len(ids)
      /\ \A i \in 1 .. Len(ids) : (a \o b)[i] = IF i <= Len(a) THEN a[i] ELSE b[i - Len(a)]
  BY <1>1, <1>5, ConcatProperties
<1>7. /\ chosen \in Seq(T) /\ Len(chosen) = IF Len(ids) < limit THEN Len(ids) ELSE limit
      /\ \A i \in 1 .. Len(chosen) : i <= Len(ids) /\ chosen[i] = (a \o b)[i]
  <2> DEFINE all == a \o b
  <2>1. all \in Seq(T) /\ Len(all) = Len(ids)
    BY <1>6
  <2> HIDE DEF all
  <2>2. /\ FirstOf(all, limit) \in Seq(T)
        /\ Len(FirstOf(all, limit)) = IF Len(ids) < limit THEN Len(ids) ELSE limit
        /\ \A i \in 1 .. Len(FirstOf(all, limit)) :
              i <= Len(ids) /\ FirstOf(all, limit)[i] = all[i]
    BY <2>1, FirstOfSeq
  <2> QED BY <2>2 DEF all
<1>8. Len(chosen) = Len(FirstOf(ids, limit))
  BY <1>7, FirstOfSeq
<1>9. Range(a \o b) = Range(ids)
  <2>1. Range(a \o b) = Range(a) \union Range(b)
    BY <1>1, RangeConcatenation
  <2> QED BY <1>1, <2>1 DEF new
<1> HIDE DEF chosen
<1>10. /\ Range(chosen) = {chosen[i] : i \in 1 .. Len(chosen)}
       /\ Range(a) = {a[i] : i \in 1 .. Len(a)}
       /\ Range(b) = {b[i] : i \in 1 .. Len(b)}
       /\ Range(a \o b) = {(a \o b)[i] : i \in 1 .. Len(a \o b)}
  BY <1>1, <1>6, <1>7, RangeEquality
<1>11. Range(chosen) \subseteq Range(ids)
  <2> SUFFICES ASSUME NEW i \in 1 .. Len(chosen) PROVE chosen[i] \in Range(ids)
    BY <1>10
  <2>1. i \in 1 .. Len(a \o b) /\ chosen[i] = (a \o b)[i]
    BY <1>6, <1>7
  <2> QED BY <1>9, <1>10, <2>1
<1>12. ASSUME Range(chosen) \intersect covered # {} PROVE new \subseteq Range(chosen)
  <2>1. PICK i \in 1 .. Len(chosen) : chosen[i] \in covered
    BY <1>10, <1>12
  <2>2. Len(a) \in Nat /\ Len(chosen) \in Nat /\ Len(ids) \in Nat /\ i \in Nat
    BY <1>0, <1>1, <1>7
  <2>3. ~ i <= Len(a)
    <3> SUFFICES ASSUME i <= Len(a) PROVE FALSE
      OBVIOUS
    <3>1. chosen[i] = a[i] /\ a[i] \in Range(a)
      BY <1>0, <1>6, <1>7, <1>10, <2>2
    <3> QED BY <1>1, <2>1, <3>1 DEF new
  <2>4. ASSUME NEW j \in 1 .. Len(a) PROVE a[j] \in Range(chosen)
    <3>1. j \in 1 .. Len(chosen) /\ j \in 1 .. Len(ids)
      BY <1>7, <2>1, <2>2, <2>3
    <3>2. chosen[j] = a[j]
      BY <1>6, <1>7, <3>1
    <3> QED BY <1>10, <3>1, <3>2
  <2> QED BY <1>1, <1>10, <2>4
<1> QED BY <1>7, <1>8, <1>11, <1>12 DEF UncoveredFirst, chosen, a, b, new

-----------------------------------------------------------------------------
(***************************************************************************)
(* Topics                                                                  *)
(***************************************************************************)
\* Shares of coverage are compared by cross products.
LEMMA Scaled ==
  ASSUME NEW a \in Nat, NEW b \in Nat, NEW n \in Nat
  PROVE  /\ a <= b => a * n <= b * n
         /\ a * n < b * n => a < b
OBVIOUS

ShareAtMost(a, s, b, t) == a * t <= b * s
ShareEquals(a, s, b, t) == a * t = b * s

LEMMA SharesCompose ==
  ASSUME NEW a \in Nat, NEW b \in Nat, NEW c \in Nat,
         NEW s \in Nat \ {0}, NEW t \in Nat \ {0}, NEW u \in Nat \ {0},
         ShareAtMost(a, s, b, t), ShareAtMost(b, t, c, u)
  PROVE  /\ ShareAtMost(a, s, c, u)
         /\ ShareEquals(a, s, c, u) => ShareEquals(a, s, b, t) /\ ShareEquals(b, t, c, u)
<1> DEFINE at == a * t   bs == b * s   bu == b * u   ct == c * t   au == a * u   cs == c * s
<1>0. at <= bs /\ bu <= ct
  BY DEF ShareAtMost
<1>1. at \in Nat /\ bs \in Nat /\ bu \in Nat /\ ct \in Nat /\ au \in Nat /\ cs \in Nat
  OBVIOUS
<1>2. at * u <= bs * u /\ (at # bs => at * u < bs * u)
  <2> HIDE DEF at, bs
  <2>1. at < bs \/ at = bs
    BY <1>0, <1>1 DEF at, bs
  <2>2. ASSUME at < bs PROVE at * u < bs * u
    <3>1. at + 1 <= bs /\ at + 1 \in Nat
      BY <1>1, <2>2
    <3>2. (at + 1) * u <= bs * u
      BY <1>1, <3>1, Scaled
    <3>3. (at + 1) * u = at * u + u /\ at * u \in Nat /\ bs * u \in Nat
      BY <1>1
    <3> QED BY <3>2, <3>3
  <2> QED BY <1>1, <2>1, <2>2
<1>3. bu * s <= ct * s /\ (bu # ct => bu * s < ct * s)
  <2> HIDE DEF bu, ct
  <2>1. bu < ct \/ bu = ct
    BY <1>0, <1>1 DEF bu, ct
  <2>2. ASSUME bu < ct PROVE bu * s < ct * s
    <3>1. bu + 1 <= ct /\ bu + 1 \in Nat
      BY <1>1, <2>2
    <3>2. (bu + 1) * s <= ct * s
      BY <1>1, <3>1, Scaled
    <3>3. (bu + 1) * s = bu * s + s /\ bu * s \in Nat /\ ct * s \in Nat
      BY <1>1
    <3> QED BY <3>2, <3>3
  <2> QED BY <1>1, <2>1, <2>2
<1>4. at * u = au * t /\ bs * u = bu * s /\ ct * s = cs * t
  OBVIOUS
<1>5. /\ at * u \in Nat /\ bs * u \in Nat /\ ct * s \in Nat /\ bu * s \in Nat
      /\ au * t \in Nat /\ cs * t \in Nat
  <2> HIDE DEF at, bs, bu, ct, au, cs
  <2> QED BY <1>1
<1> HIDE DEF at, bs, bu, ct, au, cs
<1>6. au * t <= cs * t
  BY <1>2, <1>3, <1>4, <1>5
<1>7. au <= cs
  <2> SUFFICES ASSUME cs < au PROVE FALSE
    BY <1>1
  <2>1. cs + 1 <= au /\ cs + 1 \in Nat
    BY <1>1
  <2>2. (cs + 1) * t <= au * t
    BY <1>1, <2>1, Scaled
  <2>3. (cs + 1) * t = cs * t + t
    BY <1>1
  <2> QED BY <1>5, <1>6, <2>2, <2>3
<1>8. ASSUME au = cs PROVE at = bs /\ bu = ct
  <2>1. at * u = ct * s
    BY <1>4, <1>8
  <2> QED BY <1>1, <1>2, <1>3, <1>4, <1>5, <2>1
<1> QED BY <1>7, <1>8 DEF ShareAtMost, ShareEquals, at, bs, bu, ct, au, cs

\* How much of a topic is covered: all of it exactly when every word is.
LEMMA KnownWords ==
  ASSUME NEW W, NEW topic, topic.words \in Seq(W), NEW covered
  PROVE  /\ Known(topic, covered) \in Nat /\ Size(topic) \in Nat \ {0}
         /\ topic.words # <<>> => Size(topic) = Len(topic.words)
         /\ Known(topic, covered) <= Len(topic.words)
         /\ Known(topic, covered) = Len(topic.words) <=> Range(topic.words) \subseteq covered
<1> DEFINE words == topic.words
           n == Len(words)
           hits == {i \in DOMAIN words : words[i] \in covered}
<1>1. words \in Seq(W) /\ n \in Nat /\ DOMAIN words = 1 .. n
  OBVIOUS
<1>2. Range(words) = {words[i] : i \in 1 .. n}
  BY RangeEquality
<1>3. words # <<>> => n # 0
  BY <1>1
<1>4. Size(topic) \in Nat \ {0} /\ (words # <<>> => Size(topic) = n)
  BY <1>1, <1>3 DEF Size
<1>5. hits \in SUBSET (1 .. n)
  BY <1>1
<1>6. IsFiniteSet(1 .. n) /\ Cardinality(1 .. n) = n
  <2> HIDE DEF n
  <2>1. IsFiniteSet(1 .. n) /\ Cardinality(1 .. n) = IF 1 > n THEN 0 ELSE n - 1 + 1
    BY <1>1, FS_Interval
  <2> QED BY <1>1, <2>1
<1>7. Known(topic, covered) = Cardinality(hits)
  BY DEF Known
<1>8. Range(words) \subseteq covered <=> hits = 1 .. n
  BY <1>1, <1>2
<1> HIDE DEF words, n, hits
<1>9. /\ IsFiniteSet(hits) /\ Cardinality(hits) <= n
      /\ n = Cardinality(hits) => hits = 1 .. n
  BY <1>5, <1>6, FS_Subset
<1>10. Cardinality(hits) \in Nat
  BY <1>9, FS_CardinalityType
<1>11. hits = 1 .. n => Cardinality(hits) = n
  BY <1>6
<1>12. Cardinality(hits) = n <=> Range(words) \subseteq covered
  BY <1>8, <1>9, <1>11
<1> QED BY <1>4, <1>7, <1>9, <1>10, <1>12 DEF words, n

LessCovered(topics, covered, i, j) ==
  LET l == Known(topics[i], covered) * Size(topics[j])
      r == Known(topics[j], covered) * Size(topics[i])
  IN l < r \/ (l = r /\ i < j)

LEMMA CoverageOrder ==
  ASSUME NEW W, NEW topics, NEW n \in Nat, \A i \in 1 .. n : topics[i].words \in Seq(W),
         NEW covered
  PROVE  IsOrder(1 .. n, [j \in 1 .. n |-> {i \in 1 .. n : LessCovered(topics, covered, i, j)}])
<1> DEFINE K(i) == Known(topics[i], covered)
           Z(i) == Size(topics[i])
           before == [j \in 1 .. n |-> {i \in 1 .. n : LessCovered(topics, covered, i, j)}]
<1>1. \A i \in 1 .. n : K(i) \in Nat /\ Z(i) \in Nat \ {0}
  BY KnownWords
<1>2. \A i, j \in 1 .. n : LessCovered(topics, covered, i, j) <=>
         K(i) * Z(j) < K(j) * Z(i) \/ (K(i) * Z(j) = K(j) * Z(i) /\ i < j)
  BY DEF LessCovered
<1>3. \A i, j \in 1 .. n : K(i) * Z(j) \in Nat
  BY <1>1
<1>4. \A x \in 1 .. n : before[x] \subseteq (1 .. n) \ {x}
  BY <1>2, <1>3
<1>5. \A x, y \in 1 .. n : x # y => x \in before[y] \/ y \in before[x]
  <2> SUFFICES ASSUME NEW x \in 1 .. n, NEW y \in 1 .. n, x # y
               PROVE  LessCovered(topics, covered, x, y) \/ LessCovered(topics, covered, y, x)
    OBVIOUS
  <2>1. K(x) * Z(y) \in Nat /\ K(y) * Z(x) \in Nat
    BY <1>3
  <2> HIDE DEF K, Z
  <2> QED BY <1>2, <2>1
<1>6. \A x, y \in 1 .. n : y \in before[x] => before[y] \subseteq before[x]
  <2> SUFFICES ASSUME NEW x \in 1 .. n, NEW y \in 1 .. n, NEW z \in 1 .. n,
                      LessCovered(topics, covered, y, x), LessCovered(topics, covered, z, y)
               PROVE  LessCovered(topics, covered, z, x)
    OBVIOUS
  <2>1. /\ K(x) \in Nat /\ K(y) \in Nat /\ K(z) \in Nat
        /\ Z(x) \in Nat \ {0} /\ Z(y) \in Nat \ {0} /\ Z(z) \in Nat \ {0}
    BY <1>1
  <2>2. /\ K(z) * Z(y) < K(y) * Z(z) \/ (K(z) * Z(y) = K(y) * Z(z) /\ z < y)
        /\ K(y) * Z(x) < K(x) * Z(y) \/ (K(y) * Z(x) = K(x) * Z(y) /\ y < x)
    BY <1>2
  <2>3. /\ K(z) * Z(y) \in Nat /\ K(y) * Z(z) \in Nat /\ K(y) * Z(x) \in Nat
        /\ K(x) * Z(y) \in Nat /\ K(z) * Z(x) \in Nat /\ K(x) * Z(z) \in Nat
    BY <1>3
  <2> HIDE DEF K, Z
  <2>4. K(z) * Z(y) <= K(y) * Z(z) /\ K(y) * Z(x) <= K(x) * Z(y)
    BY <2>2, <2>3
  <2>5. /\ K(z) * Z(x) <= K(x) * Z(z)
        /\ K(z) * Z(x) = K(x) * Z(z) =>
              K(z) * Z(y) = K(y) * Z(z) /\ K(y) * Z(x) = K(x) * Z(y)
    <3>1. ShareAtMost(K(z), Z(z), K(y), Z(y)) /\ ShareAtMost(K(y), Z(y), K(x), Z(x))
      BY <2>4 DEF ShareAtMost
    <3>2. /\ ShareAtMost(K(z), Z(z), K(x), Z(x))
          /\ ShareEquals(K(z), Z(z), K(x), Z(x)) =>
                ShareEquals(K(z), Z(z), K(y), Z(y)) /\ ShareEquals(K(y), Z(y), K(x), Z(x))
      BY <2>1, <3>1, SharesCompose
    <3> QED BY <3>2 DEF ShareAtMost, ShareEquals
  <2>6. K(z) * Z(x) < K(x) * Z(z) \/ (K(z) * Z(x) = K(x) * Z(z) /\ z < x)
    BY <2>2, <2>3, <2>5
  <2> QED BY <1>2, <2>6
<1> QED BY <1>4, <1>5, <1>6 DEF IsOrder

\* The ranking has the topics, and all words of all of them are covered when all of
\* its first one are.
LEMMA RankedTopics ==
  ASSUME NEW W, NEW T, \A t \in T : t.words \in Seq(W), NEW topics \in Seq(T), NEW covered
  PROVE  LET ranked == RankTopics(topics, covered)
         IN  /\ ranked \in Seq(T) /\ Len(ranked) = Len(topics)
             /\ \A i \in 1 .. Len(topics) : \E j \in 1 .. Len(topics) : ranked[i] = topics[j]
             /\ ranked # <<>> =>
                 (ranked[1].words # <<>> /\ Range(ranked[1].words) \subseteq covered =>
                    \A i \in 1 .. Len(topics) : Range(ranked[i].words) \subseteq covered)
<1> DEFINE n == Len(topics)
           before == [j \in 1 .. n |-> {i \in 1 .. n : LessCovered(topics, covered, i, j)}]
           order == Listed(1 .. n, before)
           ranked == RankTopics(topics, covered)
<1>1. /\ n \in Nat /\ DOMAIN topics = 1 .. n
      /\ \A i \in 1 .. n : topics[i] \in T /\ topics[i].words \in Seq(W)
  OBVIOUS
<1>2. ranked = [i \in 1 .. n |-> topics[order[i]]]
  BY <1>1 DEF RankTopics, LessCovered
<1> HIDE DEF n
<1>3. IsFiniteSet(1 .. n) /\ Cardinality(1 .. n) = n
  <2>1. IsFiniteSet(1 .. n) /\ Cardinality(1 .. n) = IF 1 > n THEN 0 ELSE n - 1 + 1
    BY <1>1, FS_Interval
  <2> QED BY <1>1, <2>1
<1>4. IsOrder(1 .. n, before)
  BY <1>1, CoverageOrder
<1>5. /\ \A i \in 1 .. n : order[i] \in 1 .. n
      /\ \A i, j \in 1 .. n : i < j => order[i] \in before[order[j]]
  <2> HIDE DEF before
  <2>1. /\ \A i \in 1 .. Cardinality(1 .. n) : order[i] \in 1 .. n
        /\ \A i, j \in 1 .. Cardinality(1 .. n) : i < j => order[i] \in before[order[j]]
    BY <1>3, <1>4, ListedInOrder
  <2> QED BY <1>3, <2>1
<1>6. \A i, j \in 1 .. n : i < j => LessCovered(topics, covered, order[i], order[j])
  BY <1>5
<1> HIDE DEF order, ranked
<1>7. \A i \in 1 .. n : ranked[i] = topics[order[i]] /\ ranked[i] \in T
  BY <1>1, <1>2, <1>5
<1>8. ranked \in Seq(T) /\ Len(ranked) = n
  <2>1. ranked \in [1 .. n -> T]
    BY <1>2, <1>7
  <2> QED BY <1>1, <2>1
<1>9. ASSUME ranked # <<>>, ranked[1].words # <<>>, Range(ranked[1].words) \subseteq covered,
             NEW i \in 1 .. n
      PROVE  Range(ranked[i].words) \subseteq covered
  <2> DEFINE K(t) == Known(t, covered)
  <2>1. 1 \in 1 .. n
    BY <1>1, <1>9
  <2>2. ranked[1].words \in Seq(W) /\ ranked[i].words \in Seq(W)
    BY <1>1, <1>5, <1>7, <2>1
  <2>3. /\ K(ranked[1]) \in Nat /\ Size(ranked[1]) \in Nat \ {0}
        /\ Size(ranked[1]) = Len(ranked[1].words) /\ K(ranked[1]) = Len(ranked[1].words)
    BY <1>9, <2>2, KnownWords
  <2>4. /\ K(ranked[i]) \in Nat /\ Size(ranked[i]) \in Nat \ {0}
        /\ ranked[i].words # <<>> => Size(ranked[i]) = Len(ranked[i].words)
        /\ K(ranked[i]) <= Len(ranked[i].words)
        /\ K(ranked[i]) = Len(ranked[i].words) => Range(ranked[i].words) \subseteq covered
    BY <2>2, KnownWords
  <2>5. CASE i = 1
    BY <1>9, <2>5
  <2>6. CASE i # 1
    <3>1. LessCovered(topics, covered, order[1], order[i])
      BY <1>1, <1>6, <2>1, <2>6
    <3>2. /\ K(ranked[1]) * Size(ranked[i]) \in Nat /\ K(ranked[i]) * Size(ranked[1]) \in Nat
      <4>1. \A p, q \in Nat : p * q \in Nat
        OBVIOUS
      <4>2. /\ K(ranked[1]) \in Nat /\ Size(ranked[1]) \in Nat
            /\ K(ranked[i]) \in Nat /\ Size(ranked[i]) \in Nat
        BY <2>3, <2>4
      <4> HIDE DEF K
      <4> QED BY <4>1, <4>2
    <3>3. K(ranked[1]) * Size(ranked[i]) <= K(ranked[i]) * Size(ranked[1])
      BY <1>7, <2>1, <3>1, <3>2 DEF LessCovered
    <3>4. Size(ranked[i]) <= K(ranked[i])
      <4> DEFINE a == Size(ranked[i])   k == K(ranked[i])   z == Size(ranked[1])
      <4>1. a \in Nat /\ k \in Nat /\ z \in Nat \ {0} /\ z * a <= k * z
        BY <2>3, <2>4, <3>3
      <4> HIDE DEF a, k, z
      <4>2. ~ k < a
        <5> SUFFICES ASSUME k < a PROVE FALSE
          OBVIOUS
        <5>1. k + 1 <= a /\ k + 1 \in Nat
          BY <4>1
        <5>2. (k + 1) * z <= a * z
          BY <4>1, <5>1, Scaled
        <5>3. (k + 1) * z = k * z + z /\ a * z = z * a /\ k * z \in Nat /\ z * a \in Nat
          BY <4>1
        <5> QED BY <4>1, <5>2, <5>3
      <4> QED BY <4>1, <4>2 DEF a, k
    <3>5. CASE ranked[i].words = <<>>
      <4>1. Range(ranked[i].words) = {}
        BY <3>5 DEF Range
      <4> QED BY <4>1
    <3>6. CASE ranked[i].words # <<>>
      <4>1. Len(ranked[i].words) \in Nat
        BY <2>2
      <4> QED BY <2>4, <3>4, <3>6, <4>1
    <3> QED BY <3>5, <3>6
  <2> QED BY <2>5, <2>6
<1> QED BY <1>5, <1>7, <1>8, <1>9 DEF n, ranked

\* Pairs of numbers are ordered by the first and then by the second.
PairBefore(p, q) == p[1] < q[1] \/ (p[1] = q[1] /\ p[2] < q[2])

LEMMA PairsOrder ==
  ASSUME NEW P \in SUBSET (Int \X Int)
  PROVE  IsOrder(P, [p \in P |-> {q \in P : PairBefore(q, p)}])
<1> DEFINE before == [p \in P |-> {q \in P : PairBefore(q, p)}]
<1>1. \A p \in P : p = <<p[1], p[2]>> /\ p[1] \in Int /\ p[2] \in Int
  OBVIOUS
<1>2. \A x \in P : before[x] \subseteq P \ {x}
  BY <1>1 DEF PairBefore
<1>3. ASSUME NEW x \in P, NEW y \in P, x # y PROVE x \in before[y] \/ y \in before[x]
  <2>1. x[1] # y[1] \/ x[2] # y[2]
    BY <1>1, <1>3
  <2>2. x[1] \in Int /\ y[1] \in Int /\ x[2] \in Int /\ y[2] \in Int
    BY <1>1
  <2> QED BY <2>1, <2>2 DEF PairBefore
<1>4. ASSUME NEW x \in P, NEW y \in P, y \in before[x], NEW z \in before[y]
      PROVE  z \in before[x]
  <2>1. z \in P /\ PairBefore(z, y) /\ PairBefore(y, x)
    BY <1>4
  <2>2. /\ x[1] \in Int /\ y[1] \in Int /\ z[1] \in Int
        /\ x[2] \in Int /\ y[2] \in Int /\ z[2] \in Int
    BY <1>1, <2>1
  <2>3. PairBefore(z, x)
    BY <2>1, <2>2 DEF PairBefore
  <2> QED BY <2>1, <2>3
<1> QED BY <1>2, <1>3, <1>4 DEF IsOrder

LEMMA TopicWordsType ==
  ASSUME NEW W, NEW T, \A t \in T : t.words \in Seq(W), NEW topics \in Seq(T)
  PROVE  TopicWords(topics) \in Seq(W)
<1> DEFINE D == DOMAIN topics
           Of(t) == {t} \X DOMAIN topics[t].words
           places == UNION {Of(t) : t \in D}
           word(p) == topics[p[1]].words[p[2]]
           first == {p \in places : \A q \in places : PairBefore(q, p) => word(q) # word(p)}
           order == Listed(first, [p \in first |-> {q \in first : PairBefore(q, p)}])
<1>1. D = 1 .. Len(topics) /\ Len(topics) \in Nat
  OBVIOUS
<1>2. \A t \in D : topics[t].words \in Seq(W)
  OBVIOUS
<1>3. \A t \in D : Of(t) = {t} \X (1 .. Len(topics[t].words)) /\ Len(topics[t].words) \in Nat
  BY <1>2
<1>4. \A t \in D : IsFiniteSet(Of(t))
  <2> SUFFICES ASSUME NEW t \in D PROVE IsFiniteSet({t} \X (1 .. Len(topics[t].words)))
    BY <1>3
  <2>1. IsFiniteSet({t})
    BY FS_Singleton
  <2>2. IsFiniteSet(1 .. Len(topics[t].words))
    <3> DEFINE n == Len(topics[t].words)
    <3>1. n \in Nat
      BY <1>3
    <3> HIDE DEF n
    <3> QED BY <3>1, FS_Interval
  <2> QED BY <2>1, <2>2, FS_Product
<1>5. IsFiniteSet(D)
  <2> DEFINE n == Len(topics)
  <2>1. n \in Nat /\ D = 1 .. n
    BY <1>1
  <2> HIDE DEF n, D
  <2> QED BY <2>1, FS_Interval
<1>6. IsFiniteSet(places)
  <2> DEFINE all == {Of(t) : t \in D}
             f   == [t \in D |-> Of(t)]
  <2>1. f \in Surjection(D, all)
    BY DEF Surjection
  <2>2. IsFiniteSet(all)
    <3> HIDE DEF f, all, D, Of
    <3> QED BY <1>5, <2>1, FS_Surjection
  <2>3. \A S \in all : IsFiniteSet(S)
    BY <1>4
  <2> HIDE DEF all
  <2> QED BY <2>2, <2>3, FS_UNION DEF all
<1>7. \A p \in places : p \in Int \X Int /\ word(p) \in W
  <2> SUFFICES ASSUME NEW t \in D, NEW p \in Of(t) PROVE p \in Int \X Int /\ word(p) \in W
    OBVIOUS
  <2>1. p[1] = t /\ p[2] \in 1 .. Len(topics[t].words) /\ p = <<p[1], p[2]>>
    BY <1>3
  <2>2. t \in Int /\ Len(topics[t].words) \in Nat
    BY <1>1, <1>3
  <2>3. word(p) \in W
    BY <1>2, <2>1
  <2> QED BY <2>1, <2>2, <2>3
<1>8. first \in SUBSET places
  OBVIOUS
<1> HIDE DEF places, first
<1>9. IsFiniteSet(first) /\ first \in SUBSET (Int \X Int)
  BY <1>6, <1>7, <1>8, FS_Subset
<1>10. /\ Cardinality(first) \in Nat /\ order \in Seq(first) /\ Len(order) = Cardinality(first)
       /\ \A n \in 1 .. Cardinality(first) : order[n] \in first
  <2> DEFINE before == [p \in first |-> {q \in first : PairBefore(q, p)}]
  <2>1. IsOrder(first, before)
    BY <1>9, PairsOrder
  <2> HIDE DEF before
  <2>2. /\ Cardinality(first) \in Nat /\ Listed(first, before) \in Seq(first)
        /\ Len(Listed(first, before)) = Cardinality(first)
        /\ \A n \in 1 .. Cardinality(first) : Listed(first, before)[n] \in first
    BY <1>9, <2>1, ListedInOrder
  <2> QED BY <2>2 DEF before
<1>11. TopicWords(topics) = [n \in DOMAIN order |-> word(order[n])]
  BY DEF TopicWords, PairBefore, places, first
<1>12. TopicWords(topics) \in [1 .. Cardinality(first) -> W] /\ Cardinality(first) \in Nat
  <2> HIDE DEF order, word
  <2>1. DOMAIN order = 1 .. Cardinality(first)
    BY <1>10
  <2>2. \A n \in 1 .. Cardinality(first) : word(order[n]) \in W
    BY <1>7, <1>8, <1>10
  <2> QED BY <1>10, <1>11, <2>1, <2>2
<1> HIDE DEF order
<1> QED BY <1>12

LEMMA MatchTopicsType ==
  ASSUME NEW T, NEW topics \in Seq(T), NEW U, NEW tokens \in Seq(U)
  PROVE  MatchTopics(tokens, topics) \in Seq(T)
<1> DEFINE S(i) == Score(tokens, topics[i])
           hits == {i \in DOMAIN topics : S(i) > 0}
           better(i, j) == S(i) > S(j) \/ (S(i) = S(j) /\ i < j)
           before == [j \in hits |-> {i \in hits : better(i, j)}]
           best == Listed(hits, before)
           matched == [n \in DOMAIN best |-> topics[best[n]]]
<1>1. DOMAIN topics = 1 .. Len(topics) /\ Len(topics) \in Nat
  OBVIOUS
<1>2. \A i \in DOMAIN topics : S(i) \in Nat
  <2> SUFFICES ASSUME NEW i \in DOMAIN topics PROVE Score(tokens, topics[i]) \in Nat
    OBVIOUS
  <2> DEFINE n == Len(tokens)
             met == {m \in DOMAIN tokens :
                       {tokens[m], Singular[tokens[m]]} \intersect topics[i].keywords # {}}
  <2>1. n \in Nat /\ met \in SUBSET (1 .. n)
    OBVIOUS
  <2> HIDE DEF n, met
  <2>2. IsFiniteSet(1 .. n)
    BY <2>1, FS_Interval
  <2>3. IsFiniteSet(met)
    BY <2>1, <2>2, FS_Subset
  <2> QED BY <2>3, FS_CardinalityType DEF Score, met
<1>3. IsFiniteSet(hits) /\ hits \in SUBSET Int
  <2> DEFINE n == Len(topics)
  <2>1. n \in Nat /\ hits \in SUBSET (1 .. n)
    BY <1>1
  <2> HIDE DEF n, hits
  <2>2. IsFiniteSet(1 .. n)
    BY <2>1, FS_Interval
  <2>3. hits \in SUBSET Int
    BY <2>1
  <2> QED BY <2>1, <2>2, <2>3, FS_Subset
<1>4. IsOrder(hits, before)
  <2>1. \A i \in hits : S(i) \in Nat /\ i \in Int
    BY <1>2, <1>3
  <2> HIDE DEF hits, S
  <2>2. \A x \in hits : before[x] \subseteq hits \ {x}
    BY <2>1
  <2>3. \A x, y \in hits : x # y => x \in before[y] \/ y \in before[x]
    BY <2>1
  <2>4. \A x, y \in hits : y \in before[x] => before[y] \subseteq before[x]
    BY <2>1
  <2> QED BY <2>2, <2>3, <2>4 DEF IsOrder
<1>5. /\ Cardinality(hits) \in Nat /\ DOMAIN best = 1 .. Cardinality(hits)
      /\ \A n \in 1 .. Cardinality(hits) : best[n] \in hits
  <2> HIDE DEF before, hits
  <2>1. /\ Cardinality(hits) \in Nat /\ best \in Seq(hits) /\ Len(best) = Cardinality(hits)
        /\ \A n \in 1 .. Cardinality(hits) : best[n] \in hits
    BY <1>3, <1>4, ListedInOrder
  <2> QED BY <2>1
<1>6. matched \in Seq(T)
  <2>1. \A i \in hits : topics[i] \in T
    OBVIOUS
  <2> HIDE DEF best, hits
  <2> QED BY <1>5, <2>1
<1>7. TopicLimit \in Nat
  BY SliceAssumption
<1>8. MatchTopics(tokens, topics) = FirstOf(matched, TopicLimit)
  BY DEF MatchTopics
<1> HIDE DEF matched
<1> QED BY <1>6, <1>7, <1>8, FirstOfSeq

-----------------------------------------------------------------------------
(***************************************************************************)
(* Keys and pages                                                          *)
(***************************************************************************)
LEMMA Ranks ==
  /\ IsFiniteSet(Keys) /\ Rank \in [Keys -> Int]
  /\ \A j, k \in Keys : Rank[j] = Rank[k] => j = k
<1>1. DOMAIN Order = 1 .. Len(Order) /\ Len(Order) \in Nat /\ Order \in Seq(Keys)
  BY ReferenceAssumption
<1>2. IsFiniteSet(Keys)
  <2> DEFINE n == Len(Order)
  <2>1. n \in Nat /\ DOMAIN Order = 1 .. n
    BY <1>1
  <2>2. Order \in Surjection(1 .. n, Keys)
    BY <1>1 DEF Surjection, Keys, Range
  <2> HIDE DEF n
  <2>3. IsFiniteSet(1 .. n)
    BY <2>1, FS_Interval
  <2> QED BY <2>2, <2>3, FS_Surjection
<1>3. \A k \in Keys : Rank[k] \in DOMAIN Order /\ Order[Rank[k]] = k
  BY DEF Rank, Keys, Range
<1>4. \A k \in Keys : Rank[k] \in Int
  BY <1>1, <1>3
<1>5. Rank \in [Keys -> Int]
  BY <1>4 DEF Rank
<1> QED BY <1>2, <1>3, <1>5

\* The keys of a set before one of them, upwards and downwards.
Up(S)   == [k \in S |-> {j \in S : Rank[j] < Rank[k]}]
Down(S) == [k \in S |-> {j \in S : Rank[k] < Rank[j]}]

\* A sequence has all of a set, each where before puts it.
InOrder(f, S, before) ==
  /\ f \in Seq(S)
  /\ \A k \in S : \E n \in 1 .. Len(f) : f[n] = k
  /\ \A m, n \in 1 .. Len(f) : m < n => f[m] \in before[f[n]]

LEMMA KeysUp ==
  ASSUME NEW S \in SUBSET Keys PROVE InOrder(KeyOrder(S), S, Up(S))
<1> DEFINE number == [k \in S |-> Rank[k]]
           f == Listed(S, Up(S))
<1>1. number \in [S -> Int] /\ \A x, y \in S : number[x] = number[y] => x = y
  BY Ranks
<1>2. Up(S) = [x \in S |-> {y \in S : number[y] < number[x]}]
  BY DEF Up
<1> HIDE DEF number
<1>3. IsOrder(S, Up(S))
  BY <1>1, <1>2, NumbersOrder
<1>4. IsFiniteSet(S)
  BY Ranks, FS_Subset
<1>5. /\ f \in Seq(S) /\ Len(f) = Cardinality(S)
      /\ \A x \in S : \E n \in 1 .. Cardinality(S) : f[n] = x
      /\ \A m, n \in 1 .. Cardinality(S) : m < n => f[m] \in Up(S)[f[n]]
  BY <1>3, <1>4, ListedInOrder
<1>6. KeyOrder(S) = f
  BY DEF KeyOrder, Up
<1> HIDE DEF f
<1> QED BY <1>5, <1>6 DEF InOrder

LEMMA KeysDown ==
  ASSUME NEW S \in SUBSET Keys PROVE InOrder(Reverse(KeyOrder(S)), S, Down(S))
<1> DEFINE f == KeyOrder(S)
           n == Len(f)
           g == Reverse(f)
<1>1. /\ f \in Seq(S) /\ n \in Nat
      /\ \A k \in S : \E i \in 1 .. n : f[i] = k
      /\ \A i, j \in 1 .. n : i < j => f[i] \in Up(S)[f[j]]
  BY KeysUp DEF InOrder
<1>2. g = [i \in 1 .. n |-> f[n - i + 1]]
  BY DEF Reverse
<1> HIDE DEF f, n, g
<1>3. \A i \in 1 .. n : n - i + 1 \in 1 .. n /\ n - (n - i + 1) + 1 = i
  BY <1>1
<1>4. \A i \in 1 .. n : f[i] \in S
  BY <1>1 DEF n
<1>5. g \in [1 .. n -> S]
  BY <1>2, <1>3, <1>4
<1>6. g \in Seq(S) /\ Len(g) = n
  BY <1>1, <1>5
<1>7. ASSUME NEW k \in S PROVE \E i \in 1 .. n : g[i] = k
  <2>1. PICK i \in 1 .. n : f[i] = k
    BY <1>1
  <2>2. n - i + 1 \in 1 .. n /\ g[n - i + 1] = f[i]
    BY <1>2, <1>3
  <2> QED BY <2>1, <2>2
<1>8. ASSUME NEW i \in 1 .. n, NEW j \in 1 .. n, i < j PROVE g[i] \in Down(S)[g[j]]
  <2>1. n - j + 1 \in 1 .. n /\ n - i + 1 \in 1 .. n /\ n - j + 1 < n - i + 1
    BY <1>1, <1>8
  <2>2. f[n - j + 1] \in Up(S)[f[n - i + 1]]
    BY <1>1, <2>1
  <2>3. g[i] = f[n - i + 1] /\ g[j] = f[n - j + 1] /\ g[i] \in S /\ g[j] \in S
    BY <1>2, <1>5
  <2> QED BY <2>2, <2>3 DEF Up, Down
<1> QED BY <1>6, <1>7, <1>8 DEF InOrder, f, g

\* A page is of the set, in the order; its cursor is its last key, beyond which is all of
\* the set that the page has not; without a cursor it has all of the set.
LEMMA PageOrder ==
  ASSUME NEW S \in SUBSET Keys, NEW f, NEW before, InOrder(f, S, before)
  PROVE  LET page == FirstOf(f, PageSize)
         IN  /\ page \in Seq(S)
             /\ \A i, j \in 1 .. Len(page) : i < j => page[i] \in before[page[j]]
             /\ Cursor(page) \in S \union {None}
             /\ Cursor(page) = None => S \subseteq Range(page)
             /\ Cursor(page) # None =>
                   /\ \A k \in S : k \in Range(page) \/ Cursor(page) \in before[k]
                   /\ \A i \in 1 .. Len(page) :
                         page[i] = Cursor(page) \/ page[i] \in before[Cursor(page)]
<1> DEFINE page == FirstOf(f, PageSize)
<1>1. /\ f \in Seq(S) /\ Len(f) \in Nat
      /\ \A k \in S : \E n \in 1 .. Len(f) : f[n] = k
      /\ \A m, n \in 1 .. Len(f) : m < n => f[m] \in before[f[n]]
  <2>1. f \in Seq(S)
    BY DEF InOrder
  <2>2. \A m, n \in 1 .. Len(f) : m < n => f[m] \in before[f[n]]
    BY DEF InOrder
  <2>3. \A k \in S : \E n \in 1 .. Len(f) : f[n] = k
    BY DEF InOrder
  <2>4. Len(f) \in Nat
    BY <2>1
  <2> QED BY <2>1, <2>2, <2>3, <2>4
<1>2. PageSize \in Nat \ {0} /\ None \notin Keys
  BY ReferenceAssumption
<1>3. /\ page \in Seq(S) /\ Len(page) = IF Len(f) < PageSize THEN Len(f) ELSE PageSize
      /\ \A i \in 1 .. Len(page) : i <= Len(f) /\ page[i] = f[i]
  BY <1>1, <1>2, FirstOfSeq
<1> HIDE DEF page
<1>4. Range(page) = {page[i] : i \in 1 .. Len(page)}
  BY <1>3, RangeEquality
<1>5. \A i \in 1 .. Len(page) : i \in 1 .. Len(f) /\ page[i] \in S
  BY <1>3
<1>6. \A i, j \in 1 .. Len(page) : i < j => page[i] \in before[page[j]]
  BY <1>1, <1>3, <1>5
<1>7. CASE Len(page) = PageSize
  <2>1. Cursor(page) = page[PageSize] /\ PageSize \in 1 .. Len(page)
    BY <1>2, <1>7 DEF Cursor
  <2>2. Cursor(page) \in S /\ Cursor(page) # None
    BY <1>2, <1>5, <2>1
  <2>3. ASSUME NEW k \in S PROVE k \in Range(page) \/ Cursor(page) \in before[k]
    <3>1. PICK n \in 1 .. Len(f) : f[n] = k
      BY <1>1
    <3>2. CASE n <= PageSize
      <4>1. n \in 1 .. Len(page) /\ page[n] = k
        BY <1>3, <1>7, <3>1, <3>2
      <4> QED BY <1>4, <4>1
    <3>3. CASE ~ n <= PageSize
      <4>1. PageSize \in 1 .. Len(f) /\ PageSize < n /\ Cursor(page) = f[PageSize]
        BY <1>2, <1>3, <1>5, <2>1, <3>1, <3>3
      <4> QED BY <1>1, <3>1, <4>1
    <3> QED BY <3>2, <3>3
  <2>4. ASSUME NEW i \in 1 .. Len(page)
        PROVE  page[i] = Cursor(page) \/ page[i] \in before[Cursor(page)]
    <3>1. i = PageSize \/ i < PageSize
      BY <1>2, <1>7
    <3> QED BY <1>6, <2>1, <3>1
  <2> QED BY <1>3, <1>6, <2>2, <2>3, <2>4 DEF page
<1>8. CASE Len(page) # PageSize
  <2>1. Cursor(page) = None
    BY <1>8 DEF Cursor
  <2>2. Len(page) = Len(f)
    BY <1>1, <1>2, <1>3, <1>8
  <2>3. S \subseteq Range(page)
    BY <1>1, <1>3, <1>4, <2>2
  <2> QED BY <1>3, <1>6, <2>1, <2>3 DEF page
<1> QED BY <1>7, <1>8

-----------------------------------------------------------------------------
(***************************************************************************)
(* The inductive invariants                                                *)
(***************************************************************************)
\* What a query reads, and the state it is read in.
AtQuery  == {"topics", "vocab", "grammar"}
KindOf   == [topics |-> "TOPIC", vocab |-> "VOCAB", grammar |-> "GRAMMAR"]

SeenKeys == {job.seen[i].key : i \in DOMAIN job.seen}

\* A load that was begun is one of a release; a job is where its task takes it, and what
\* it has seen is of the kind it asks for and in a version of a release.
LoadShape == load.at # "idle" => load.release \in Releases

Shape(j) ==
  /\ j.at = "search" => j.task.type = "prompt" /\ j.task.text # None
  /\ j.at = "topics" => j.task.type \in {"browse", "prompt", "topics"}
  /\ j.at \in {"vocab", "grammar"} => j.task.type \in {"browse", "prompt", "stage"}
  /\ j.at \in AtQuery =>
       /\ j.task.type = "browse" => j.task.query.kind = KindOf[j.at]
       /\ \A i \in DOMAIN j.seen :
            /\ Kind[j.seen[i].key] = KindOf[j.at]
            /\ j.seen[i].version \in Versions(j.seen[i].key)
  /\ j.at = "batch" => j.task.type \in {"prompt", "import", "look"}
  /\ j.more => j.pages < MaxPages

TInv == TypeOK /\ LoadShape /\ Shape(job)

\* What a load has put and what it still has to delete.
Recs == {k \in Built(load.release) : Holds(load.kind, k)}
Gone == Topics \ Built(load.release)

PutsDone ==
  /\ load.at = "put" =>
       /\ Range(load.todo) \subseteq Recs
       /\ \A k \in Recs \ Range(load.todo) : table[k] = Version[load.release][k]
  /\ load.at \in {"scan", "delete", "publish", "done"} =>
       \A k \in Recs : table[k] = Version[load.release][k]

DeletesDone ==
  /\ load.at \in {"put", "scan"} => \A k \in Gone : old[k] = table[k]
  /\ load.at = "put" => load.last = None
  /\ load.at = "scan" =>
       \A k \in Gone : table[k] # 0 =>
          k \in load.stale \/ load.last = None \/ Rank[load.last] < Rank[k]
  /\ load.at = "delete" => \A k \in Gone : table[k] # 0 => k \in load.stale
  /\ load.at \in {"publish", "done"} /\ load.kind \in {"all", "topics"}
        /\ BuiltTopics(load.release) # {} => \A k \in Gone : table[k] = 0

PublishDone ==
  /\ load.at = "publish" => load.kind = "all"
  /\ load.at = "done" /\ load.kind = "all" => published = load.release

LInv == TInv /\ PutsDone /\ DeletesDone /\ PublishDone

\* Where a query goes on: k comes after last.
Follows(q, last, k) == IF Ranged(q) THEN Rank[k] < Rank[last] ELSE Rank[last] < Rank[k]

QueryReads ==
  job.at \in AtQuery =>
    LET q == QueryOf(job)
    IN  /\ \A k \in job.base : InRange(q, k) /\ Tagged(q, k)
        /\ \A i, j \in DOMAIN job.seen :
             i < j => Follows(q, job.seen[i].key, job.seen[j].key)
        /\ job.last # None =>
             \A i \in DOMAIN job.seen :
                job.seen[i].key = job.last \/ Follows(q, job.seen[i].key, job.last)
        /\ job.last = None /\ job.more => job.seen = <<>>
        /\ \A k \in job.base :
             \/ k \in SeenKeys
             \/ job.last = None /\ job.more
             \/ job.last # None /\ Follows(q, job.last, k)

BatchReads ==
  job.at = "batch" => job.base \subseteq Sought(job) /\ job.base \subseteq job.pending \union job.got

RInv == TInv /\ job.base \subseteq Steady /\ QueryReads /\ BatchReads

\* Words and grammar in the table: no load takes one away.
Lasting == {k \in Keys \ Topics : table[k] # 0}

JobsLast ==
  /\ Range(job.kept) \subseteq Lasting /\ job.got \subseteq Lasting
  /\ job.at \in {"vocab", "grammar"} => SeenKeys \subseteq Lasting
  /\ job.at = "offer" => Range(job.chosen) \subseteq Lasting
  /\ job.at = "refused" /\ job.task.type = "import" => ~ (job.task.ids \subseteq job.base)

GInv ==
  /\ RInv
  /\ load.at = "put" => Range(load.todo) \subseteq Built(load.release)
  /\ \A k \in Keys \ Topics : old[k] # 0 => table[k] # 0
  /\ offered \subseteq Lasting /\ known \subseteq Lasting
  /\ JobsLast

\* A job that goes by what the learner knows knows what every read sees.
Informed ==
  /\ job.covered \subseteq known
  /\ job.task.type \in {"prompt", "topics"} /\ job.at \notin {"refused", "failed"} =>
       learned \subseteq job.covered
  /\ ~ (job.task.type \in {"prompt", "topics"} /\ job.at \notin {"refused", "failed"}) =>
       job.chosen = <<>> /\ job.at # "listed"

ChoiceHolds ==
  /\ Len(job.chosen) = Len(FirstOf(job.from, job.limit))
  /\ Range(job.chosen) \intersect job.covered # {} =>
       Range(job.from) \ job.covered \subseteq Range(job.chosen)

ListHolds ==
  job.at = "listed" /\ job.listed # <<>> /\ Range(job.listed[1].words) \subseteq job.covered =>
    \A i \in DOMAIN job.listed : Range(job.listed[i].words) \subseteq job.covered

NInv == TInv /\ Informed /\ ChoiceHolds /\ ListHolds

-----------------------------------------------------------------------------
(***************************************************************************)
(* Jobs as they are made                                                   *)
(***************************************************************************)
LEMMA TaskParts ==
  ASSUME NEW task \in Tasks
  PROVE  /\ task.type \in {"browse", "topics", "stage", "prompt"}
         /\ task.type = "browse" => task.query \in Queries
         /\ task.type # "browse" => task.level \in Nat
         /\ task.type = "prompt" =>
              /\ task.text \in DOMAIN Near \union {None}
              /\ task.tokens \in Seq(DOMAIN Singular)
BY DEF Tasks

LEMMA JobTask ==
  ASSUME NEW j \in Jobs, j.task.type \in {"browse", "topics", "stage", "prompt"}
  PROVE  j.task \in Tasks
BY DEF Jobs

LEMMA IdleType == IdleJob \in Jobs
<1>1. <<>> \in Seq(Keys) /\ <<>> \in Seq([key : Keys, version : Nat \ {0}]) /\ <<>> \in Seq(TopicRows)
  OBVIOUS
<1>2. MaxPages \in Nat \ {0} /\ MaxTries \in Nat \ {0}
  BY ReferenceAssumption
<1>3. 0 \in 0 .. MaxPages /\ 0 \in 0 .. MaxTries
  BY <1>2
<1> QED BY <1>1, <1>3 DEF IdleJob, Jobs

LEMMA OpenQueryMakes ==
  ASSUME NEW j \in Jobs, NEW at \in AtQuery
  PROVE  LET o == OpenQuery(j, at)
         IN  /\ o \in Jobs /\ o.task = j.task /\ o.at = at /\ o.covered = j.covered
             /\ o.seen = <<>> /\ o.last = None /\ o.more /\ o.pages = 0
             /\ o.from = j.from /\ o.chosen = j.chosen /\ o.limit = j.limit /\ o.kept = j.kept
             /\ o.got = j.got
             /\ o.base \subseteq Steady
             /\ \A k \in o.base : InRange(QueryOf(o), k) /\ Tagged(QueryOf(o), k)
<1> DEFINE new == [j EXCEPT !.at = at, !.seen = <<>>, !.last = None, !.more = TRUE, !.pages = 0]
           B == {k \in Steady : InRange(QueryOf(new), k) /\ Tagged(QueryOf(new), k)}
           o == [new EXCEPT !.base = B]
<1>1. <<>> \in Seq([key : Keys, version : Nat \ {0}]) /\ 0 \in 0 .. MaxPages
  BY ReferenceAssumption
<1>2. new \in Jobs /\ new.task = j.task /\ new.at = at
  BY <1>1 DEF Jobs, AtQuery
<1>3. B \subseteq Steady /\ B \subseteq Keys
  BY DEF Steady
<1>4. OpenQuery(j, at) = o
  BY DEF OpenQuery
<1>5. /\ o.task = j.task /\ o.at = at /\ o.covered = j.covered
      /\ o.seen = <<>> /\ o.last = None /\ o.more = TRUE /\ o.pages = 0
      /\ o.from = j.from /\ o.chosen = j.chosen /\ o.limit = j.limit /\ o.kept = j.kept
      /\ o.got = j.got /\ o.base = B
  <2>1. /\ new.covered = j.covered
        /\ new.seen = <<>> /\ new.last = None /\ new.more = TRUE /\ new.pages = 0
        /\ new.from = j.from /\ new.chosen = j.chosen /\ new.limit = j.limit
        /\ new.kept = j.kept /\ new.got = j.got
    BY DEF Jobs
  <2> HIDE DEF B, new
  <2> QED BY <1>2, <2>1 DEF Jobs
<1>6. o \in Jobs
  <2> HIDE DEF B, new
  <2> QED BY <1>2, <1>3 DEF Jobs
<1>7. QueryOf(o) = QueryOf(new)
  <2> HIDE DEF o, new
  <2> QED BY <1>2, <1>5 DEF QueryOf
<1>8. \A k \in o.base : InRange(QueryOf(o), k) /\ Tagged(QueryOf(o), k)
  <2> HIDE DEF o, new
  <2> QED BY <1>5, <1>7
<1> HIDE DEF o, B
<1> QED BY <1>3, <1>4, <1>5, <1>6, <1>8

LEMMA OpenBatchMakes ==
  ASSUME NEW j \in Jobs, NEW ids \in SUBSET Keys
  PROVE  LET o == OpenBatch(j, ids)
         IN  /\ o \in Jobs /\ o.task = j.task /\ o.at = "batch" /\ o.covered = j.covered
             /\ o.more = j.more /\ o.pages = j.pages
             /\ o.from = j.from /\ o.chosen = j.chosen /\ o.limit = j.limit /\ o.kept = j.kept
             /\ o.got = {} /\ o.pending = ids
             /\ o.base = ids \intersect Steady \intersect Sought(j) /\ Sought(o) = Sought(j)
<1> DEFINE B == ids \intersect Steady \intersect Sought(j)
<1>1. 0 \in 0 .. MaxTries
  BY ReferenceAssumption
<1>2. B \in SUBSET Keys
  OBVIOUS
<1>3. OpenBatch(j, ids) = [j EXCEPT !.at = "batch", !.pending = ids, !.got = {}, !.tries = 0, !.base = B]
  BY DEF OpenBatch
<1> HIDE DEF B
<1>4. OpenBatch(j, ids).task = j.task
  BY <1>3 DEF Jobs
<1>5. OpenBatch(j, ids) \in Jobs
  BY <1>1, <1>2, <1>3, ZenonT(60) DEF Jobs
<1>6. LET o == OpenBatch(j, ids)
      IN  /\ o.at = "batch" /\ o.covered = j.covered /\ o.more = j.more /\ o.pages = j.pages
          /\ o.from = j.from /\ o.chosen = j.chosen /\ o.limit = j.limit /\ o.kept = j.kept
          /\ o.got = {} /\ o.pending = ids /\ o.base = B
  BY <1>3 DEF Jobs
<1>7. Sought(OpenBatch(j, ids)) = Sought(j)
  BY <1>4 DEF Sought
<1> QED BY <1>4, <1>5, <1>6, <1>7 DEF B

LEMMA ChooseMakes ==
  ASSUME NEW j \in Jobs, NEW ids \in Seq(Keys), NEW limit \in Nat
  PROVE  LET o == Choose(j, ids, limit)
         IN  /\ o \in Jobs /\ o.task = j.task /\ o.at = j.at /\ o.covered = j.covered
             /\ o.seen = j.seen /\ o.more = j.more /\ o.pages = j.pages /\ o.base = j.base
             /\ o.from = ids /\ o.limit = limit
             /\ o.chosen = UncoveredFirst(ids, j.covered, limit) /\ o.chosen \in Seq(Keys)
             /\ Range(o.chosen) \subseteq Range(ids) /\ Range(o.chosen) \in SUBSET Keys
             /\ o.kept = j.kept /\ o.got = j.got
<1> DEFINE chosen == UncoveredFirst(ids, j.covered, limit)
<1>1. chosen \in Seq(Keys) /\ Range(chosen) \subseteq Range(ids)
  BY UncoveredFirstChooses
<1>2. Range(chosen) \in SUBSET Keys
  <2> HIDE DEF chosen
  <2> QED BY <1>1, RangeOfSeq
<1>3. Choose(j, ids, limit) = [j EXCEPT !.from = ids, !.limit = limit, !.chosen = chosen]
  BY DEF Choose
<1> HIDE DEF chosen
<1>4. Choose(j, ids, limit) \in Jobs
  BY <1>1, <1>3, ZenonT(60) DEF Jobs
<1>5. LET o == Choose(j, ids, limit)
      IN  /\ o.task = j.task /\ o.at = j.at /\ o.covered = j.covered
          /\ o.seen = j.seen /\ o.more = j.more /\ o.pages = j.pages /\ o.base = j.base
          /\ o.from = ids /\ o.limit = limit /\ o.chosen = chosen
          /\ o.kept = j.kept /\ o.got = j.got
  BY <1>3 DEF Jobs
<1> QED BY <1>1, <1>2, <1>4, <1>5 DEF chosen

LEMMA ViewRow ==
  ASSUME NEW view \in Views, NEW k \in Keys
  PROVE  /\ view[k] = table[k] \/ view[k] = old[k]
         /\ k \in Steady => view[k] # 0
BY DEF Views, Steady

LEMMA QueryKind ==
  ASSUME NEW j \in Jobs, Shape(j), j.at \in AtQuery
  PROVE  QueryOf(j).kind = KindOf[j.at]
<1>1. CASE j.task.type = "browse"
  BY <1>1 DEF Shape, QueryOf
<1>2. CASE j.task.type # "browse"
  BY <1>2 DEF QueryOf, AtQuery, KindOf
<1> QED BY <1>1, <1>2

\* Keys with the versions a view has of them.
RowsIn(S) == [key : S, version : Nat \ {0}]
RowsOf(keys, view) == [i \in DOMAIN keys |-> [key |-> keys[i], version |-> view[keys[i]]]]

LEMMA RowsType ==
  ASSUME NEW S, NEW keys \in Seq(S), NEW view, \A k \in S : view[k] \in Nat \ {0}
  PROVE  /\ RowsOf(keys, view) \in Seq(RowsIn(S))
         /\ Len(RowsOf(keys, view)) = Len(keys)
         /\ \A i \in 1 .. Len(keys) :
               /\ RowsOf(keys, view)[i].key = keys[i]
               /\ RowsOf(keys, view)[i].version = view[keys[i]]
<1> DEFINE read == RowsOf(keys, view)
           n == Len(keys)
           R == RowsIn(S)
<1>1. DOMAIN keys = 1 .. n /\ n \in Nat /\ \A i \in 1 .. n : keys[i] \in S
  OBVIOUS
<1>2. read = [i \in 1 .. n |-> [key |-> keys[i], version |-> view[keys[i]]]]
  BY <1>1 DEF RowsOf
<1>3. \A i \in 1 .. n : read[i].key = keys[i] /\ read[i].version = view[keys[i]]
  BY <1>2
<1>4. \A i \in 1 .. n : [key |-> keys[i], version |-> view[keys[i]]] \in R
  BY <1>1 DEF RowsIn
<1> HIDE DEF read, n, R
<1>5. read \in [1 .. n -> R]
  BY <1>2, <1>4
<1>6. read \in Seq(R) /\ Len(read) = n
  BY <1>1, <1>5
<1> QED BY <1>3, <1>6 DEF read, n, R

\* What a page adds to what a query has seen: the tagged rows of it, in the order, each
\* as it is or was; and what of the set it leaves is beyond its cursor.
PageAdds(q, S, page, added) ==
  /\ S \subseteq Keys /\ page \in Seq(S)
  /\ \A k \in S : InRange(q, k) /\ Beyond(q, job.last, k)
  /\ \A k \in Steady : InRange(q, k) /\ Beyond(q, job.last, k) => k \in S
  /\ Cursor(page) \in S \union {None}
  /\ \A k \in S : k \in Range(page) \/ (Cursor(page) # None /\ Follows(q, Cursor(page), k))
  /\ \A i \in 1 .. Len(page) : Cursor(page) # None =>
        page[i] = Cursor(page) \/ Follows(q, page[i], Cursor(page))
  /\ added \in Seq(RowsIn(S))
  /\ \A i \in 1 .. Len(added) :
        /\ \E n \in 1 .. Len(page) : added[i].key = page[n]
        /\ added[i].version \in {table[added[i].key], old[added[i].key]}
  /\ \A k \in Range(page) : Tagged(q, k) => \E i \in 1 .. Len(added) : added[i].key = k
  /\ \A i, j \in 1 .. Len(added) : i < j => Follows(q, added[i].key, added[j].key)

LEMMA PageRead ==
  ASSUME TInv, ReadPage
  PROVE  \E S, page, added :
           /\ PageAdds(QueryOf(job), S, page, added)
           /\ job' = [job EXCEPT
                        !.seen = @ \o added, !.last = Cursor(page),
                        !.pages = IF job.task.type = "stage" THEN @ + 1 ELSE 0,
                        !.more = /\ Cursor(page) # None
                                 /\ job.task.type = "stage" => job.pages + 1 < MaxPages]
<1> DEFINE q == QueryOf(job)
           S(view) == {k \in Keys : view[k] # 0 /\ InRange(q, k) /\ Beyond(q, job.last, k)}
           found(view) == IF Ranged(q) THEN Reverse(KeyOrder(S(view))) ELSE KeyOrder(S(view))
           pageOf(view) == FirstOf(found(view), PageSize)
           tagged == {k \in Keys : Tagged(q, k)}
           shownOf(view) == Among(pageOf(view), tagged)
           addedOf(view) == [i \in DOMAIN shownOf(view) |->
                               [key |-> shownOf(view)[i], version |-> view[shownOf(view)[i]]]]
<1>1. PICK view \in Views :
        job' = [job EXCEPT
                  !.seen = @ \o addedOf(view), !.last = Cursor(pageOf(view)),
                  !.pages = IF job.task.type = "stage" THEN @ + 1 ELSE 0,
                  !.more = /\ Cursor(pageOf(view)) # None
                           /\ job.task.type = "stage" => job.pages + 1 < MaxPages]
  BY Zenon DEF ReadPage
<1> DEFINE T == S(view)
           f == found(view)
           page == pageOf(view)
           shown == shownOf(view)
           added == addedOf(view)
           before == [k \in T |-> {j \in T : Follows(q, j, k)}]
<1>2. /\ T \in SUBSET Keys /\ \A k \in T : view[k] # 0 /\ InRange(q, k) /\ Beyond(q, job.last, k)
      /\ \A k \in Steady : InRange(q, k) /\ Beyond(q, job.last, k) => k \in T
  <2>1. \A k \in Steady : k \in Keys /\ view[k] # 0
    BY ViewRow DEF Steady
  <2> QED BY <2>1
<1> HIDE DEF T
<1>3. InOrder(f, T, before)
  <2>1. CASE Ranged(q)
    <3>1. InOrder(Reverse(KeyOrder(T)), T, Down(T))
      BY <1>2, KeysDown
    <3>2. before = Down(T)
      BY <2>1 DEF Down, Follows
    <3>3. f = Reverse(KeyOrder(T))
      BY <2>1 DEF T
    <3> HIDE DEF before, f
    <3> QED BY <3>1, <3>2, <3>3
  <2>2. CASE ~ Ranged(q)
    <3>1. InOrder(KeyOrder(T), T, Up(T))
      BY <1>2, KeysUp
    <3>2. before = Up(T)
      BY <2>2 DEF Up, Follows
    <3>3. f = KeyOrder(T)
      BY <2>2 DEF T
    <3> HIDE DEF before, f
    <3> QED BY <3>1, <3>2, <3>3
  <2> QED BY <2>1, <2>2
<1>4. page = FirstOf(f, PageSize)
  OBVIOUS
<1> HIDE DEF f, before, q
<1>5. /\ page \in Seq(T)
      /\ \A i, j \in 1 .. Len(page) : i < j => page[i] \in before[page[j]]
      /\ Cursor(page) \in T \union {None}
      /\ Cursor(page) = None => T \subseteq Range(page)
      /\ Cursor(page) # None =>
            /\ \A k \in T : k \in Range(page) \/ Cursor(page) \in before[k]
            /\ \A i \in 1 .. Len(page) :
                  page[i] = Cursor(page) \/ page[i] \in before[Cursor(page)]
  <2> HIDE DEF page
  <2> QED BY <1>2, <1>3, <1>4, PageOrder
<1>6. shown = Among(page, tagged)
  OBVIOUS
<1>12. added = RowsOf(shown, view)
  BY DEF RowsOf
<1> HIDE DEF page, shown, added
<1>7. \A k \in T : \A j \in before[k] : j \in T /\ Follows(q, j, k)
  BY DEF before
<1>8. \A i \in 1 .. Len(page) : page[i] \in T
  BY <1>5
<1>9. /\ shown \in Seq(T)
      /\ \A n \in 1 .. Len(shown) : \E i \in Places(page, tagged) : shown[n] = page[i]
      /\ \A i \in Places(page, tagged) : \E n \in 1 .. Len(shown) : shown[n] = page[i]
      /\ \A m, n \in 1 .. Len(shown) : m < n =>
            \E i, j \in Places(page, tagged) : i < j /\ shown[m] = page[i] /\ shown[n] = page[j]
  <2> HIDE DEF tagged
  <2> DEFINE a == Among(page, tagged)
             P == Places(page, tagged)
  <2>1. /\ a \in Seq(T)
        /\ \A n \in 1 .. Len(a) : \E i \in P : a[n] = page[i]
        /\ \A i \in P : \E n \in 1 .. Len(a) : a[n] = page[i]
        /\ \A m, n \in 1 .. Len(a) : m < n =>
              \E i, j \in P : i < j /\ a[m] = page[i] /\ a[n] = page[j]
    BY <1>5, AmongInOrder
  <2>2. shown = a
    BY <1>6
  <2> HIDE DEF a, P
  <2>3. /\ shown \in Seq(T)
        /\ \A n \in 1 .. Len(shown) : \E i \in P : shown[n] = page[i]
        /\ \A i \in P : \E n \in 1 .. Len(shown) : shown[n] = page[i]
        /\ \A m, n \in 1 .. Len(shown) : m < n =>
              \E i, j \in P : i < j /\ shown[m] = page[i] /\ shown[n] = page[j]
    BY <2>1, <2>2
  <2> QED BY <2>3 DEF P
<1>10. /\ DOMAIN shown = 1 .. Len(shown) /\ Len(shown) \in Nat
       /\ \A i \in 1 .. Len(shown) : shown[i] \in T
  BY <1>9
<1>11. \A k \in T : view[k] \in {table[k], old[k]} /\ view[k] \in Nat \ {0}
  <2> SUFFICES ASSUME NEW k \in T PROVE view[k] \in {table[k], old[k]} /\ view[k] \in Nat \ {0}
    OBVIOUS
  <2>1. k \in Keys /\ view[k] # 0
    BY <1>2
  <2>2. view[k] = table[k] \/ view[k] = old[k]
    BY <2>1, ViewRow
  <2>3. table[k] \in Nat /\ old[k] \in Nat
    BY <2>1 DEF TInv, TypeOK
  <2> QED BY <2>1, <2>2, <2>3
<1>13. /\ added \in Seq(RowsIn(T)) /\ Len(added) = Len(shown)
       /\ \A i \in 1 .. Len(shown) :
             added[i].key = shown[i] /\ added[i].version = view[shown[i]]
  <2>1. shown \in Seq(T) /\ \A k \in T : view[k] \in Nat \ {0}
    BY <1>9, <1>11
  <2> DEFINE rows1 == RowsOf(shown, view)
  <2>2. /\ rows1 \in Seq(RowsIn(T)) /\ Len(rows1) = Len(shown)
        /\ \A i \in 1 .. Len(shown) :
              rows1[i].key = shown[i] /\ rows1[i].version = view[shown[i]]
    BY <2>1, RowsType
  <2> HIDE DEF rows1
  <2>3. added = rows1
    BY <1>12 DEF rows1
  <2> QED BY <2>2, <2>3
<1>14. \A i \in 1 .. Len(added) :
          /\ \E n \in 1 .. Len(page) : added[i].key = page[n]
          /\ added[i].version \in {table[added[i].key], old[added[i].key]}
  <2> SUFFICES ASSUME NEW i \in 1 .. Len(added)
               PROVE  /\ \E n \in 1 .. Len(page) : added[i].key = page[n]
                      /\ added[i].version \in {table[added[i].key], old[added[i].key]}
    OBVIOUS
  <2>1. i \in 1 .. Len(shown) /\ shown[i] \in T
    BY <1>10, <1>13
  <2>2. added[i].key = shown[i] /\ added[i].version = view[shown[i]]
    BY <1>13, <2>1
  <2>3. \E n \in 1 .. Len(page) : shown[i] = page[n]
    BY <1>9, <2>1 DEF Places
  <2> QED BY <1>11, <2>1, <2>2, <2>3
<1>15. \A k \in Range(page) : Tagged(q, k) => \E i \in 1 .. Len(added) : added[i].key = k
  <2> SUFFICES ASSUME NEW k \in Range(page), Tagged(q, k)
               PROVE  \E i \in 1 .. Len(added) : added[i].key = k
    OBVIOUS
  <2>1. PICK n \in 1 .. Len(page) : page[n] = k
    BY <1>5, RangeEquality
  <2>2. n \in Places(page, tagged)
    BY <1>2, <1>8, <2>1 DEF Places
  <2>3. PICK i \in 1 .. Len(shown) : shown[i] = k
    BY <1>9, <2>1, <2>2
  <2>4. i \in 1 .. Len(added) /\ added[i].key = k
    BY <1>13, <2>3
  <2> QED BY <2>4
<1>16. \A i, j \in 1 .. Len(added) : i < j => Follows(q, added[i].key, added[j].key)
  <2> SUFFICES ASSUME NEW i \in 1 .. Len(added), NEW j \in 1 .. Len(added), i < j
               PROVE  Follows(q, added[i].key, added[j].key)
    OBVIOUS
  <2>1. /\ i \in 1 .. Len(shown) /\ added[i].key = shown[i]
        /\ j \in 1 .. Len(shown) /\ added[j].key = shown[j]
    BY <1>13
  <2>2. PICK m, n \in Places(page, tagged) : m < n /\ shown[i] = page[m] /\ shown[j] = page[n]
    BY <1>9, <2>1
  <2>3. m \in 1 .. Len(page) /\ n \in 1 .. Len(page)
    BY DEF Places
  <2>4. page[m] \in before[page[n]] /\ page[n] \in T
    BY <1>5, <1>8, <2>2, <2>3
  <2> QED BY <1>7, <2>1, <2>2, <2>4
<1>17. \A k \in T : k \in Range(page) \/ (Cursor(page) # None /\ Follows(q, Cursor(page), k))
  BY <1>5, <1>7
<1>18. \A i \in 1 .. Len(page) : Cursor(page) # None =>
          page[i] = Cursor(page) \/ Follows(q, page[i], Cursor(page))
  BY <1>5, <1>7
<1>19. PageAdds(q, T, page, added)
  BY <1>2, <1>5, <1>13, <1>14, <1>15, <1>16, <1>17, <1>18 DEF PageAdds
<1>20. job' = [job EXCEPT
                 !.seen = @ \o added, !.last = Cursor(page),
                 !.pages = IF job.task.type = "stage" THEN @ + 1 ELSE 0,
                 !.more = /\ Cursor(page) # None
                          /\ job.task.type = "stage" => job.pages + 1 < MaxPages]
  BY <1>1 DEF page, added
<1> QED BY <1>19, <1>20 DEF q

-----------------------------------------------------------------------------
(***************************************************************************)
(* Types of jobs                                                           *)
(***************************************************************************)
LEMMA JobFacts ==
  ASSUME TInv PROVE job \in Jobs /\ Shape(job) /\ budget.tasks \subseteq Tasks
BY DEF TInv, TypeOK, Budgets

LEMMA ShapeOpenQuery ==
  ASSUME NEW j \in Jobs, NEW at \in AtQuery,
         at = "topics" => j.task.type \in {"browse", "prompt", "topics"},
         at # "topics" => j.task.type \in {"browse", "prompt", "stage"},
         j.task.type = "browse" => j.task.query.kind = KindOf[at]
  PROVE  OpenQuery(j, at) \in Jobs /\ Shape(OpenQuery(j, at))
<1> DEFINE o == OpenQuery(j, at)
<1>1. /\ o \in Jobs /\ o.task = j.task /\ o.at = at /\ o.seen = <<>> /\ o.pages = 0
  BY OpenQueryMakes
<1> HIDE DEF o
<1>2. MaxPages \in Nat \ {0}
  BY ReferenceAssumption
<1>3. Shape(o)
  BY <1>1, <1>2 DEF Shape, AtQuery
<1> QED BY <1>1, <1>3 DEF o

LEMMA ShapeOpenBatch ==
  ASSUME NEW j \in Jobs, NEW ids \in SUBSET Keys,
         j.task.type \in {"prompt", "import", "look"}, j.more => j.pages < MaxPages
  PROVE  OpenBatch(j, ids) \in Jobs /\ Shape(OpenBatch(j, ids))
<1> DEFINE o == OpenBatch(j, ids)
<1>1. /\ o \in Jobs /\ o.task = j.task /\ o.at = "batch" /\ o.more = j.more /\ o.pages = j.pages
  BY OpenBatchMakes
<1> HIDE DEF o
<1>2. Shape(o)
  BY <1>1 DEF Shape, AtQuery
<1> QED BY <1>1, <1>2 DEF o

\* The job that asks for nothing, and one that is given a task.
LEMMA IdleShape ==
  /\ IdleJob \in Jobs /\ Shape(IdleJob)
  /\ \A task \in Tasks : \A covered \in SUBSET Keys :
       LET j == [IdleJob EXCEPT !.task = task, !.covered = covered]
       IN  /\ j \in Jobs /\ j.task = task /\ j.covered = covered /\ ~ j.more
           /\ [IdleJob EXCEPT !.task = task] \in Jobs /\ [IdleJob EXCEPT !.task = task].task = task
  /\ \A task \in [type : {"import", "look"}, ids : SUBSET Keys] :
       LET j == [IdleJob EXCEPT !.task = task]
       IN  j \in Jobs /\ j.task = task /\ ~ j.more
<1>1. IdleJob \in Jobs
  BY IdleType
<1>2. Shape(IdleJob)
  BY DEF IdleJob, Shape, AtQuery
<1>3. ~ IdleJob.more
  BY DEF IdleJob
<1>4. ASSUME NEW task \in Tasks, NEW covered \in SUBSET Keys
      PROVE  LET j == [IdleJob EXCEPT !.task = task, !.covered = covered]
             IN  /\ j \in Jobs /\ j.task = task /\ j.covered = covered /\ ~ j.more
                 /\ [IdleJob EXCEPT !.task = task] \in Jobs
                 /\ [IdleJob EXCEPT !.task = task].task = task
  BY <1>1, <1>3 DEF Jobs
<1>5. ASSUME NEW task \in [type : {"import", "look"}, ids : SUBSET Keys]
      PROVE  LET j == [IdleJob EXCEPT !.task = task]
             IN  j \in Jobs /\ j.task = task /\ ~ j.more
  BY <1>1, <1>3 DEF Jobs
<1> QED BY <1>1, <1>2, <1>4, <1>5

\* A job that ends without having been answered.
LEMMA EndShape ==
  ASSUME NEW j \in Jobs, NEW at \in {"refused", "failed"}
  PROVE  LET e == [IdleJob EXCEPT !.task = j.task, !.at = at] IN e \in Jobs /\ Shape(e)
<1> DEFINE e == [IdleJob EXCEPT !.task = j.task, !.at = at]
<1>1. e \in Jobs
  BY IdleType DEF Jobs
<1>2. e.at = at /\ ~ e.more
  BY DEF IdleJob
<1> HIDE DEF e
<1>3. Shape(e)
  BY <1>2 DEF Shape, AtQuery
<1> QED BY <1>1, <1>3 DEF e

LEMMA TypeBrowse ==
  ASSUME TInv, NEW task \in budget.tasks, Browse(task) PROVE job' \in Jobs /\ Shape(job')
<1> DEFINE j == [IdleJob EXCEPT !.task = task]
           at == CASE task.query.kind = "TOPIC" -> "topics" [] task.query.kind = "VOCAB" -> "vocab"
                   [] task.query.kind = "GRAMMAR" -> "grammar"
<1>1. task \in Tasks /\ task.type = "browse" /\ task.query \in Queries
  BY JobFacts, TaskParts DEF Browse
<1>2. j \in Jobs /\ j.task = task
  BY <1>1, IdleShape
<1>3. at \in AtQuery /\ KindOf[at] = task.query.kind
  BY <1>1 DEF Queries, Kinds, AtQuery, KindOf
<1>4. job' = OpenQuery(j, at)
  BY DEF Browse, Begin
<1>5. OpenQuery(j, at) \in Jobs /\ Shape(OpenQuery(j, at))
  <2> HIDE DEF j, at
  <2> QED BY <1>1, <1>2, <1>3, ShapeOpenQuery
<1> QED BY <1>4, <1>5

LEMMA CoverageType ==
  ASSUME TInv, NEW covered \in Coverage PROVE covered \in SUBSET Keys
BY DEF TInv, TypeOK, Coverage

LEMMA TypeListTopics ==
  ASSUME TInv, NEW task \in budget.tasks, ListTopics(task) PROVE job' \in Jobs /\ Shape(job')
<1>1. PICK covered \in Coverage :
        job' = OpenQuery([IdleJob EXCEPT !.task = task, !.covered = covered], "topics")
  BY DEF ListTopics, Begin
<1> DEFINE j == [IdleJob EXCEPT !.task = task, !.covered = covered]
<1>2. task \in Tasks /\ task.type = "topics" /\ covered \in SUBSET Keys
  BY JobFacts, CoverageType DEF ListTopics
<1>3. j \in Jobs /\ j.task = task
  BY <1>2, IdleShape
<1>4. OpenQuery(j, "topics") \in Jobs /\ Shape(OpenQuery(j, "topics"))
  <2> HIDE DEF j
  <2> QED BY <1>2, <1>3, ShapeOpenQuery DEF AtQuery
<1> QED BY <1>1, <1>4

LEMMA TypePrompt ==
  ASSUME TInv, NEW task \in budget.tasks, Prompt(task) PROVE job' \in Jobs /\ Shape(job')
<1>1. PICK covered \in Coverage :
        LET new == [IdleJob EXCEPT !.task = task, !.covered = covered]
        IN  job' = IF task.slug # None THEN OpenQuery(new, "topics")
                   ELSE IF task.text # None THEN [new EXCEPT !.at = "search"]
                   ELSE OpenQuery(new, "vocab")
  BY DEF Prompt, Begin
<1> DEFINE j == [IdleJob EXCEPT !.task = task, !.covered = covered]
<1>2. task \in Tasks /\ task.type = "prompt" /\ covered \in SUBSET Keys
  BY JobFacts, CoverageType DEF Prompt
<1>3. j \in Jobs /\ j.task = task /\ ~ j.more
  BY <1>2, IdleShape
<1>4. job' = IF task.slug # None THEN OpenQuery(j, "topics")
             ELSE IF task.text # None THEN [j EXCEPT !.at = "search"]
             ELSE OpenQuery(j, "vocab")
  BY <1>1
<1> HIDE DEF j
<1>5. /\ OpenQuery(j, "topics") \in Jobs /\ Shape(OpenQuery(j, "topics"))
      /\ OpenQuery(j, "vocab") \in Jobs /\ Shape(OpenQuery(j, "vocab"))
  BY <1>2, <1>3, ShapeOpenQuery DEF AtQuery
<1>6. ASSUME task.text # None
      PROVE  [j EXCEPT !.at = "search"] \in Jobs /\ Shape([j EXCEPT !.at = "search"])
  <2> DEFINE o == [j EXCEPT !.at = "search"]
  <2>1. o \in Jobs /\ o.at = "search" /\ o.task = task /\ ~ o.more
    BY <1>3 DEF Jobs
  <2> HIDE DEF o
  <2>2. Shape(o)
    BY <1>2, <1>6, <2>1 DEF Shape, AtQuery
  <2> QED BY <2>1, <2>2 DEF o
<1> QED BY <1>4, <1>5, <1>6

LEMMA TypeBuildStage ==
  ASSUME TInv, NEW task \in budget.tasks, BuildStage(task) PROVE job' \in Jobs /\ Shape(job')
<1> DEFINE j == [IdleJob EXCEPT !.task = task]
<1>1. task \in Tasks /\ task.type = "stage"
  BY JobFacts DEF BuildStage
<1>2. j \in Jobs /\ j.task = task
  BY <1>1, IdleShape
<1>3. job' = OpenQuery(j, "vocab")
  BY DEF BuildStage, Begin
<1> HIDE DEF j
<1> QED BY <1>1, <1>2, <1>3, ShapeOpenQuery DEF AtQuery

LEMMA TypeImport ==
  ASSUME TInv, NEW ids \in SUBSET offered, ImportLesson(ids) PROVE job' \in Jobs /\ Shape(job')
<1> DEFINE task == [type |-> "import", ids |-> ids]
           j == [IdleJob EXCEPT !.task = task]
<1>1. ids \in SUBSET Keys
  BY DEF TInv, TypeOK
<1>2. task \in [type : {"import", "look"}, ids : SUBSET Keys] /\ task.type = "import"
  BY <1>1
<1>3. j \in Jobs /\ j.task = task /\ ~ j.more
  <2> HIDE DEF task
  <2> QED BY <1>2, IdleShape
<1>4. job' = OpenBatch(j, ids)
  BY DEF ImportLesson, Begin
<1> HIDE DEF j, task
<1> QED BY <1>1, <1>2, <1>3, <1>4, ShapeOpenBatch

LEMMA TypeLookUp ==
  ASSUME TInv, LookUp PROVE job' \in Jobs /\ Shape(job')
<1> DEFINE task == [type |-> "look", ids |-> known]
           j == [IdleJob EXCEPT !.task = task]
<1>1. known \in SUBSET Keys
  BY DEF TInv, TypeOK
<1>2. task \in [type : {"import", "look"}, ids : SUBSET Keys] /\ task.type = "look"
  BY <1>1
<1>3. j \in Jobs /\ j.task = task /\ ~ j.more
  <2> HIDE DEF task
  <2> QED BY <1>2, IdleShape
<1>4. job' = OpenBatch(j, known)
  BY DEF LookUp, Begin
<1> HIDE DEF j, task
<1> QED BY <1>1, <1>2, <1>3, <1>4, ShapeOpenBatch

LEMMA TypeReadPage ==
  ASSUME TInv, ReadPage PROVE job' \in Jobs /\ Shape(job')
<1> DEFINE q == QueryOf(job)
<1>1. /\ job \in Jobs /\ Shape(job) /\ job.at \in AtQuery /\ job.more
      /\ q.kind = KindOf[job.at]
  BY JobFacts, QueryKind DEF ReadPage, AtQuery
<1>2. PICK S, page, added :
        /\ PageAdds(q, S, page, added)
        /\ job' = [job EXCEPT
                     !.seen = @ \o added, !.last = Cursor(page),
                     !.pages = IF job.task.type = "stage" THEN @ + 1 ELSE 0,
                     !.more = /\ Cursor(page) # None
                              /\ job.task.type = "stage" => job.pages + 1 < MaxPages]
  BY PageRead
<1> HIDE DEF q
<1>3. /\ S \subseteq Keys /\ added \in Seq(RowsIn(S)) /\ Cursor(page) \in Keys \union {None}
      /\ \A k \in S : Kind[k] = KindOf[job.at]
  BY <1>1, <1>2 DEF PageAdds, InRange
<1>4. \A i \in 1 .. Len(added) :
         /\ added[i] \in RowsIn(Keys) /\ added[i].key \in S
         /\ added[i].version \in Versions(added[i].key)
  <2> SUFFICES ASSUME NEW i \in 1 .. Len(added)
               PROVE  /\ added[i] \in RowsIn(Keys) /\ added[i].key \in S
                      /\ added[i].version \in Versions(added[i].key)
    OBVIOUS
  <2>1. added[i] \in RowsIn(S)
    BY <1>3
  <2>2. added[i] \in RowsIn(Keys) /\ added[i].key \in S /\ added[i].key \in Keys
    BY <1>3, <2>1 DEF RowsIn
  <2>3. added[i].version \in {table[added[i].key], old[added[i].key]}
    BY <1>2 DEF PageAdds
  <2> QED BY <2>2, <2>3 DEF TInv, TypeOK
<1>5. added \in Seq(RowsIn(Keys))
  <2>1. added \in [1 .. Len(added) -> RowsIn(Keys)] /\ Len(added) \in Nat
    <3>1. DOMAIN added = 1 .. Len(added) /\ Len(added) \in Nat
          /\ added = [i \in DOMAIN added |-> added[i]]
      BY <1>3
    <3> QED BY <1>4, <3>1
  <2> QED BY <2>1
<1> DEFINE seen == job.seen \o added
<1>6. job.seen \in Seq(RowsIn(Keys))
  BY <1>1 DEF Jobs, RowsIn
<1>7. /\ seen \in Seq(RowsIn(Keys)) /\ Len(seen) = Len(job.seen) + Len(added)
      /\ \A i \in 1 .. Len(job.seen) + Len(added) :
            seen[i] = IF i <= Len(job.seen) THEN job.seen[i] ELSE added[i - Len(job.seen)]
  BY <1>5, <1>6, ConcatProperties
<1>8. Len(job.seen) \in Nat /\ Len(added) \in Nat /\ DOMAIN job.seen = 1 .. Len(job.seen)
      /\ DOMAIN seen = 1 .. Len(seen)
  BY <1>3, <1>6, <1>7
<1> HIDE DEF seen
<1>9. /\ job'.seen = seen /\ job'.at = job.at /\ job'.task = job.task
      /\ job'.more => (job.task.type = "stage" => job.pages + 1 < MaxPages)
      /\ job'.pages = IF job.task.type = "stage" THEN job.pages + 1 ELSE 0
  BY <1>1, <1>2 DEF Jobs, seen
<1>10. job.pages \in 0 .. MaxPages /\ job.pages < MaxPages /\ MaxPages \in Nat \ {0}
  BY <1>1, ReferenceAssumption DEF Jobs, Shape
<1>11. job' \in Jobs
  <2>1. seen \in Seq([key : Keys, version : Nat \ {0}])
    BY <1>7 DEF RowsIn
  <2>2. (IF job.task.type = "stage" THEN job.pages + 1 ELSE 0) \in 0 .. MaxPages
    BY <1>10
  <2>3. (/\ Cursor(page) # None
         /\ job.task.type = "stage" => job.pages + 1 < MaxPages) \in BOOLEAN
    OBVIOUS
  <2> DEFINE pages == IF job.task.type = "stage" THEN job.pages + 1 ELSE 0
             more == /\ Cursor(page) # None
                     /\ job.task.type = "stage" => job.pages + 1 < MaxPages
  <2>4. job' = [job EXCEPT !.seen = seen, !.last = Cursor(page), !.pages = pages, !.more = more]
    BY <1>2 DEF seen
  <2> HIDE DEF pages, more
  <2>5. pages \in 0 .. MaxPages /\ more \in BOOLEAN
    BY <2>2, <2>3 DEF pages, more
  <2> QED BY <1>1, <1>3, <2>1, <2>4, <2>5 DEF Jobs
<1>12. \A i \in 1 .. Len(seen) :
          Kind[seen[i].key] = KindOf[job.at] /\ seen[i].version \in Versions(seen[i].key)
  <2> SUFFICES ASSUME NEW i \in 1 .. Len(seen)
               PROVE  Kind[seen[i].key] = KindOf[job.at] /\ seen[i].version \in Versions(seen[i].key)
    OBVIOUS
  <2>1. CASE i <= Len(job.seen)
    <3>1. i \in DOMAIN job.seen /\ seen[i] = job.seen[i]
      BY <1>7, <1>8, <2>1
    <3> QED BY <1>1, <3>1 DEF Shape
  <2>2. CASE ~ i <= Len(job.seen)
    <3>1. i - Len(job.seen) \in 1 .. Len(added) /\ seen[i] = added[i - Len(job.seen)]
      BY <1>7, <1>8, <2>2
    <3> QED BY <1>3, <1>4, <3>1
  <2> QED BY <2>1, <2>2
<1>13. job'.more => job'.pages < MaxPages
  BY <1>9, <1>10
<1>14. Shape(job')
  BY <1>1, <1>8, <1>9, <1>12, <1>13 DEF Shape, AtQuery
<1> QED BY <1>11, <1>14

LEMMA TypeReadBatch ==
  ASSUME TInv, ReadBatch PROVE job' \in Jobs /\ Shape(job')
<1>1. job \in Jobs /\ Shape(job) /\ job.at = "batch"
  BY JobFacts DEF ReadBatch
<1>2. PICK answered \in SUBSET job.pending, view \in Views :
        job' = [job EXCEPT !.pending = @ \ answered,
                           !.got = @ \union {k \in answered \intersect Sought(job) : view[k] # 0},
                           !.tries = IF job.task.type = "import" THEN 0 ELSE @ + 1]
  BY DEF ReadBatch
<1> DEFINE found == {k \in answered \intersect Sought(job) : view[k] # 0}
           tries == IF job.task.type = "import" THEN 0 ELSE job.tries + 1
<1>3. found \in SUBSET Keys /\ answered \in SUBSET Keys
  BY <1>1 DEF Jobs
<1>4. tries \in 0 .. MaxTries
  <2>1. job.tries \in 0 .. MaxTries /\ MaxTries \in Nat
    BY <1>1, ReferenceAssumption DEF Jobs
  <2>2. job.task.type # "import" => job.tries < MaxTries
    BY DEF ReadBatch
  <2> QED BY <2>1, <2>2
<1>5. job' = [job EXCEPT !.pending = @ \ answered, !.got = @ \union found, !.tries = tries]
  BY <1>2
<1> HIDE DEF found, tries
<1>6. job' \in Jobs
  BY <1>1, <1>3, <1>4, <1>5 DEF Jobs
<1>7. job'.at = "batch" /\ job'.task = job.task /\ job'.more = job.more /\ job'.pages = job.pages
  BY <1>1, <1>5 DEF Jobs
<1> QED BY <1>1, <1>6, <1>7 DEF Shape, AtQuery

LEMMA TypeGiveUp ==
  ASSUME TInv, GiveUp PROVE job' \in Jobs /\ Shape(job')
BY JobFacts, EndShape DEF GiveUp

\* What a query has read, as the job uses it.
LEMMA KeysReadType ==
  ASSUME TInv
  PROVE  /\ KeysRead \in Seq(Keys) /\ DOMAIN KeysRead = DOMAIN job.seen
         /\ \A i \in DOMAIN job.seen : KeysRead[i] = job.seen[i].key
         /\ Range(KeysRead) = SeenKeys
<1>1. job.seen \in Seq(RowsIn(Keys)) /\ DOMAIN job.seen = 1 .. Len(job.seen) /\ Len(job.seen) \in Nat
  BY JobFacts DEF Jobs, RowsIn
<1>2. \A i \in 1 .. Len(job.seen) : job.seen[i].key \in Keys
  <2>1. \A i \in 1 .. Len(job.seen) : job.seen[i] \in RowsIn(Keys)
    BY <1>1
  <2> QED BY <2>1 DEF RowsIn
<1>3. KeysRead \in [1 .. Len(job.seen) -> Keys]
  BY <1>1, <1>2 DEF KeysRead
<1>4. KeysRead \in Seq(Keys)
  BY <1>1, <1>3
<1> QED BY <1>1, <1>4 DEF KeysRead, SeenKeys, Range

\* A topic that is read has words, and they are words.
LEMMA TopicsReadType ==
  ASSUME TInv, job.at = "topics"
  PROVE  /\ TopicsRead \in Seq(TopicRows)
         /\ \A i \in 1 .. Len(TopicsRead) : TopicsRead[i].words # <<>>
<1>1. job.seen \in Seq(RowsIn(Keys)) /\ DOMAIN job.seen = 1 .. Len(job.seen) /\ Len(job.seen) \in Nat
  BY JobFacts DEF Jobs, RowsIn
<1>2. ASSUME NEW i \in 1 .. Len(job.seen)
      PROVE  /\ job.seen[i].key \in Topics
             /\ Words[job.seen[i].key][job.seen[i].version] \in Seq(Keys) \ {<<>>}
  <2> DEFINE k == job.seen[i].key
             v == job.seen[i].version
  <2>1. k \in Keys /\ v \in Nat \ {0}
    <3>1. job.seen[i] \in RowsIn(Keys)
      BY <1>1
    <3> QED BY <3>1 DEF RowsIn
  <2>2. Kind[k] = "TOPIC" /\ v \in Versions(k)
    BY <1>1, JobFacts DEF Shape, AtQuery, KindOf
  <2>3. k \in Topics
    BY <2>1, <2>2 DEF Topics, OfKind
  <2>4. PICK r \in Releases : v = Version[r][k]
    BY <2>1, <2>2 DEF Versions
  <2>5. k \in Topics \intersect Built(r)
    BY <2>1, <2>3, <2>4, ReferenceAssumption DEF Built
  <2>6. Words[k][v] \in Seq(OfKind(Built(r), "VOCAB")) \ {<<>>}
    BY <2>4, <2>5, ReleaseAssumption
  <2>7. OfKind(Built(r), "VOCAB") \subseteq Keys
    BY DEF OfKind, Built
  <2> HIDE DEF k, v
  <2>8. Words[k][v] \in Seq(Keys) \ {<<>>}
    BY <2>6, <2>7
  <2> QED BY <2>3, <2>8 DEF k, v
<1> DEFINE Row(i) == [slug |-> job.seen[i].key, keywords |-> Keywords[job.seen[i].key],
                      words |-> Words[job.seen[i].key][job.seen[i].version]]
<1>3. \A i \in 1 .. Len(job.seen) : Row(i) \in TopicRows /\ Row(i).words # <<>>
  BY <1>2 DEF TopicRows
<1>4. TopicsRead = [i \in 1 .. Len(job.seen) |-> Row(i)]
  BY <1>1 DEF TopicsRead
<1> HIDE DEF Row
<1>5. TopicsRead \in [1 .. Len(job.seen) -> TopicRows]
  BY <1>3, <1>4
<1>6. TopicsRead \in Seq(TopicRows) /\ Len(TopicsRead) = Len(job.seen)
  BY <1>1, <1>5
<1> QED BY <1>3, <1>4, <1>6

\* The words that are chosen are read by a prompt.
LEMMA ShapeGoRead ==
  ASSUME TInv, job.task.type = "prompt", NEW ids \in Seq(Keys), NEW limit \in Nat
  PROVE  LET j == Choose(job, ids, limit)
         IN  OpenBatch(j, Range(j.chosen)) \in Jobs /\ Shape(OpenBatch(j, Range(j.chosen)))
<1> DEFINE j == Choose(job, ids, limit)
<1>1. /\ j \in Jobs /\ j.task = job.task /\ j.more = job.more /\ j.pages = job.pages
      /\ Range(j.chosen) \in SUBSET Keys
  BY JobFacts, ChooseMakes
<1>2. job.more => job.pages < MaxPages
  BY JobFacts DEF Shape
<1> HIDE DEF j
<1>3. OpenBatch(j, Range(j.chosen)) \in Jobs /\ Shape(OpenBatch(j, Range(j.chosen)))
  BY <1>1, <1>2, ShapeOpenBatch
<1> QED BY <1>3 DEF j

LEMMA Limits ==
  /\ VocabSlice \in Nat /\ MatchedPool \in Nat /\ FreePool \in Nat /\ GrammarSlice \in Nat
  /\ TopicLimit \in Nat
BY SliceAssumption

LEMMA NearType ==
  ASSUME TInv, job.at = "search", NEW S
  PROVE  FirstOf(Among(Near[job.task.text], S), FreePool) \in Seq(Keys)
<1>1. job.task.type = "prompt" /\ job.task.text # None
  BY JobFacts DEF Shape
<1>2. job.task \in Tasks
  BY <1>1, JobFacts, JobTask
<1>3. job.task.text \in DOMAIN Near
  BY <1>1, <1>2, TaskParts
<1>4. Near[job.task.text] \in Seq(Keys)
  BY <1>3, ScenarioAssumption
<1>5. Among(Near[job.task.text], S) \in Seq(Keys)
  BY <1>4, AmongRange
<1> QED BY <1>5, Limits, FirstOfSeq

LEMMA TypeSearch ==
  ASSUME TInv, Search PROVE job' \in Jobs /\ Shape(job')
<1>1. job \in Jobs /\ Shape(job) /\ job.task.type = "prompt"
  BY JobFacts DEF Search, Shape
<1>2. OpenQuery(job, "topics") \in Jobs /\ Shape(OpenQuery(job, "topics"))
  BY <1>1, ShapeOpenQuery DEF AtQuery
<1>3. CASE Go(OpenQuery(job, "topics"))
  BY <1>2, <1>3 DEF Go
<1>4. CASE ~ Go(OpenQuery(job, "topics"))
  <2> DEFINE held == IF index # 0 THEN index ELSE published
             near == FirstOf(Among(Near[job.task.text],
                                  {k \in Built(held) : Level[k] = job.task.level}), FreePool)
             choice == Choose(job, near, MatchedPool)
  <2>1. job' = IF near = <<>> THEN OpenQuery(job, "topics")
               ELSE OpenBatch(choice, Range(choice.chosen))
    BY <1>4 DEF Search
  <2>2. near \in Seq(Keys)
    BY NearType DEF Search
  <2> HIDE DEF near
  <2>3. OpenBatch(choice, Range(choice.chosen)) \in Jobs /\ Shape(OpenBatch(choice, Range(choice.chosen)))
    BY <1>1, <2>2, Limits, ShapeGoRead
  <2> HIDE DEF choice
  <2> QED BY <1>2, <2>1, <2>3
<1> QED BY <1>3, <1>4

\* The topics of a prompt: the one that is asked for, or those that match.
LEMMA AskedType ==
  ASSUME TInv, job.at = "topics", NEW t \in Range(TopicsRead)
  PROVE  t \in TopicRows /\ t.words \in Seq(Keys)
<1>1. t \in TopicRows
  BY TopicsReadType, RangeOfSeq
<1> QED BY <1>1 DEF TopicRows

LEMMA MatchedType ==
  ASSUME TInv, job.at = "topics", job.task.type = "prompt"
  PROVE  TopicWords(MatchTopics(job.task.tokens, TopicsRead)) \in Seq(Keys)
<1>1. job.task \in Tasks
  BY JobFacts, JobTask
<1>2. job.task.tokens \in Seq(DOMAIN Singular)
  BY <1>1, TaskParts
<1> DEFINE matched == MatchTopics(job.task.tokens, TopicsRead)
<1>3. matched \in Seq(TopicRows)
  BY <1>2, TopicsReadType, MatchTopicsType
<1>4. \A t \in TopicRows : t.words \in Seq(Keys)
  BY DEF TopicRows
<1> HIDE DEF matched
<1>5. TopicWords(matched) \in Seq(Keys)
  BY <1>3, <1>4, TopicWordsType
<1> QED BY <1>5 DEF matched

LEMMA RankedType ==
  ASSUME TInv, job.at = "topics"
  PROVE  RankTopics(TopicsRead, job.covered) \in Seq(TopicRows)
<1>1. \A t \in TopicRows : t.words \in Seq(Keys)
  BY DEF TopicRows
<1> QED BY <1>1, TopicsReadType, RankedTopics

\* What UseTopics may make of a job.
LEMMA TopicsUsed ==
  ASSUME UseTopics
  PROVE  /\ job.at = "topics" /\ ~ job.more
         /\ \/ job' = IdleJob
            \/ /\ job.task.type = "topics"
               /\ job' = [job EXCEPT !.at = "listed", !.listed = RankTopics(TopicsRead, job.covered)]
            \/ /\ job.task.type = "prompt"
               /\ job' = [IdleJob EXCEPT !.task = job.task, !.at = "refused"]
            \/ /\ job.task.type = "prompt"
               /\ \E t \in Range(TopicsRead) :
                    job' = OpenBatch(Choose(job, t.words, VocabSlice),
                                     Range(Choose(job, t.words, VocabSlice).chosen))
            \/ job.task.type = "prompt" /\ job' = OpenQuery(job, "vocab")
            \/ /\ job.task.type = "prompt"
               /\ LET words == TopicWords(MatchTopics(job.task.tokens, TopicsRead))
                  IN  job' = OpenBatch(Choose(job, words, MatchedPool),
                                       Range(Choose(job, words, MatchedPool).chosen))
BY DEF UseTopics, Go, GoRead

LEMMA TypeUseTopics ==
  ASSUME TInv, UseTopics PROVE job' \in Jobs /\ Shape(job')
<1>1. job \in Jobs /\ Shape(job) /\ job.at = "topics" /\ ~ job.more
  BY JobFacts, TopicsUsed
<1>2. CASE job' = IdleJob
  BY <1>2, IdleShape
<1>3. CASE job' = [job EXCEPT !.at = "listed", !.listed = RankTopics(TopicsRead, job.covered)]
  <2> DEFINE listed == RankTopics(TopicsRead, job.covered)
  <2>1. listed \in Seq(TopicRows)
    BY <1>1, RankedType
  <2> HIDE DEF listed
  <2>2. job' = [job EXCEPT !.at = "listed", !.listed = listed]
    BY <1>3 DEF listed
  <2>3. job' \in Jobs /\ job'.at = "listed" /\ ~ job'.more
    BY <1>1, <2>1, <2>2 DEF Jobs
  <2> QED BY <2>3 DEF Shape, AtQuery
<1>4. CASE job' = [IdleJob EXCEPT !.task = job.task, !.at = "refused"]
  BY <1>1, <1>4, EndShape
<1>5. ASSUME job.task.type = "prompt", NEW t \in Range(TopicsRead),
             job' = OpenBatch(Choose(job, t.words, VocabSlice),
                              Range(Choose(job, t.words, VocabSlice).chosen))
      PROVE  job' \in Jobs /\ Shape(job')
  <2>1. t.words \in Seq(Keys)
    BY <1>1, AskedType
  <2> QED BY <1>5, <2>1, Limits, ShapeGoRead
<1>6. CASE job.task.type = "prompt" /\ job' = OpenQuery(job, "vocab")
  BY <1>1, <1>6, ShapeOpenQuery DEF AtQuery
<1>7. ASSUME job.task.type = "prompt"
      PROVE  LET words == TopicWords(MatchTopics(job.task.tokens, TopicsRead))
                 o == OpenBatch(Choose(job, words, MatchedPool),
                                Range(Choose(job, words, MatchedPool).chosen))
             IN  o \in Jobs /\ Shape(o)
  BY <1>1, <1>7, MatchedType, Limits, ShapeGoRead
<1> QED BY <1>2, <1>3, <1>4, <1>5, <1>6, <1>7, TopicsUsed

\* What UseVocab and UseGrammar may make of a job.
LEMMA VocabUsed ==
  ASSUME UseVocab
  PROVE  /\ job.at = "vocab" /\ ~ job.more
         /\ \/ job' = IdleJob
            \/ /\ job.task.type = "stage"
               /\ job' = OpenQuery([job EXCEPT !.kept = KeysRead], "grammar")
            \/ /\ job.task.type = "prompt"
               /\ \E limit \in {VocabSlice, FreePool} :
                    LET choice == Choose(job, KeysRead, limit)
                    IN  job' = OpenQuery([choice EXCEPT !.kept = choice.chosen], "grammar")
<1>1. CASE job.task.text = None
  BY <1>1 DEF UseVocab, Go
<1>2. CASE job.task.text # None
  BY <1>2 DEF UseVocab, Go
<1> QED BY <1>1, <1>2

LEMMA KeepMakes ==
  ASSUME NEW j \in Jobs, NEW kept \in Seq(Keys)
  PROVE  LET o == [j EXCEPT !.kept = kept]
         IN  /\ o \in Jobs /\ o.task = j.task /\ o.at = j.at /\ o.covered = j.covered
             /\ o.from = j.from /\ o.chosen = j.chosen /\ o.limit = j.limit /\ o.kept = kept
             /\ o.got = j.got /\ o.base = j.base
BY DEF Jobs

LEMMA ShapeKeep ==
  ASSUME NEW j \in Jobs, NEW kept \in Seq(Keys), j.task.type \in {"stage", "prompt"}
  PROVE  LET o == OpenQuery([j EXCEPT !.kept = kept], "grammar") IN o \in Jobs /\ Shape(o)
<1> DEFINE o == [j EXCEPT !.kept = kept]
<1>1. o \in Jobs /\ o.task = j.task
  BY KeepMakes
<1> HIDE DEF o
<1>2. OpenQuery(o, "grammar") \in Jobs /\ Shape(OpenQuery(o, "grammar"))
  BY <1>1, ShapeOpenQuery DEF AtQuery
<1> QED BY <1>2 DEF o

LEMMA TypeUseVocab ==
  ASSUME TInv, UseVocab PROVE job' \in Jobs /\ Shape(job')
<1>1. job \in Jobs /\ KeysRead \in Seq(Keys)
  BY JobFacts, KeysReadType
<1>2. CASE job' = IdleJob
  BY <1>2, IdleShape
<1>3. ASSUME job.task.type = "stage", job' = OpenQuery([job EXCEPT !.kept = KeysRead], "grammar")
      PROVE  job' \in Jobs /\ Shape(job')
  BY <1>1, <1>3, ShapeKeep
<1>4. ASSUME job.task.type = "prompt", NEW limit \in {VocabSlice, FreePool},
             LET choice == Choose(job, KeysRead, limit)
             IN  job' = OpenQuery([choice EXCEPT !.kept = choice.chosen], "grammar")
      PROVE  job' \in Jobs /\ Shape(job')
  <2> DEFINE choice == Choose(job, KeysRead, limit)
  <2>1. choice \in Jobs /\ choice.chosen \in Seq(Keys) /\ choice.task = job.task
    BY <1>1, <1>4, Limits, ChooseMakes
  <2>2. job' = OpenQuery([choice EXCEPT !.kept = choice.chosen], "grammar")
    BY <1>4
  <2> HIDE DEF choice
  <2> QED BY <1>4, <2>1, <2>2, ShapeKeep
<1> QED BY <1>2, <1>3, <1>4, VocabUsed

LEMMA GrammarUsed ==
  ASSUME UseGrammar
  PROVE  /\ job.at = "grammar" /\ ~ job.more
         /\ \/ job' = IdleJob
            \/ /\ job.task.type = "stage"
               /\ \E at \in {"refused", "staged"} : job' = [job EXCEPT !.at = at]
            \/ /\ job.task.type = "prompt"
               /\ job' = [Choose(job, KeysRead, GrammarSlice) EXCEPT !.at = "offer"]
<1>1. CASE StagesOf(job) = {}
  BY <1>1 DEF UseGrammar, Go
<1>2. CASE StagesOf(job) # {}
  BY <1>2 DEF UseGrammar, Go
<1> QED BY <1>1, <1>2

LEMMA TypeUseGrammar ==
  ASSUME TInv, UseGrammar PROVE job' \in Jobs /\ Shape(job')
<1>1. job \in Jobs /\ KeysRead \in Seq(Keys) /\ ~ job.more
  BY JobFacts, KeysReadType, GrammarUsed
<1>2. CASE job' = IdleJob
  BY <1>2, IdleShape
<1>3. ASSUME NEW j \in Jobs, ~ j.more, NEW at \in {"refused", "staged", "offer"}
      PROVE  [j EXCEPT !.at = at] \in Jobs /\ Shape([j EXCEPT !.at = at])
  <2> DEFINE o == [j EXCEPT !.at = at]
  <2>1. o \in Jobs /\ o.at = at /\ ~ o.more
    BY <1>3 DEF Jobs
  <2> HIDE DEF o
  <2>2. Shape(o)
    BY <1>3, <2>1 DEF Shape, AtQuery
  <2> QED BY <2>1, <2>2 DEF o
<1>4. Choose(job, KeysRead, GrammarSlice) \in Jobs /\ ~ Choose(job, KeysRead, GrammarSlice).more
  BY <1>1, Limits, ChooseMakes
<1> QED BY <1>1, <1>2, <1>3, <1>4, GrammarUsed

LEMMA TypeUseBatch ==
  ASSUME TInv, UseBatch PROVE job' \in Jobs /\ Shape(job')
<1>1. job \in Jobs /\ Shape(job) /\ job.at = "batch"
  BY JobFacts DEF UseBatch
<1>2. CASE job' = IdleJob
  BY <1>2, IdleShape
<1>3. ASSUME job.task.type = "prompt",
             job' = OpenQuery([job EXCEPT !.kept = Among(job.chosen, job.got)], "grammar")
      PROVE  job' \in Jobs /\ Shape(job')
  <2>1. job.chosen \in Seq(Keys)
    BY <1>1 DEF Jobs
  <2>2. Among(job.chosen, job.got) \in Seq(Keys)
    BY <2>1, AmongRange
  <2> QED BY <1>1, <1>3, <2>2, ShapeKeep
<1>4. CASE job' = [job EXCEPT !.at = "refused"]
  <2>1. /\ job' \in Jobs /\ job'.at = "refused" /\ job'.more = job.more
        /\ job'.pages = job.pages
    BY <1>1, <1>4 DEF Jobs
  <2> QED BY <1>1, <2>1 DEF Shape, AtQuery
<1> QED BY <1>2, <1>3, <1>4 DEF UseBatch, Go

-----------------------------------------------------------------------------
(***************************************************************************)
(* Type correctness                                                        *)
(***************************************************************************)
\* A job's step: it leaves the rows, the load and the embeddings as they are.
LEMMA JobStepType ==
  ASSUME TInv, UNCHANGED <<language, rows, load, published>>,
         job' \in Jobs, Shape(job'), budget' \in Budgets, index' \in {0} \union Releases,
         learned' \subseteq known', known' \subseteq Keys, offered' \subseteq Keys
  PROVE  TInv'
BY DEF TInv, TypeOK, LoadShape, Shape, rows

LEMMA BudgetSpent ==
  ASSUME TInv
  PROVE  /\ budget.jobs > 0 => [budget EXCEPT !.jobs = @ - 1] \in Budgets
         /\ budget.loads > 0 => [budget EXCEPT !.loads = @ - 1] \in Budgets
BY DEF TInv, TypeOK, Budgets

LEMMA BeginType ==
  ASSUME TInv, NEW j, Begin(j), job' \in Jobs, Shape(job') PROVE TInv'
<1>1. budget' \in Budgets
  BY BudgetSpent DEF Begin, Ready
<1>2. UNCHANGED <<language, rows, load, published, index, known, learned, offered>>
  BY DEF Begin, learner
<1> QED BY <1>1, <1>2, JobStepType DEF TInv, TypeOK

LEMMA AnswerType ==
  ASSUME TInv, UNCHANGED <<language, budget, rows, load, published, index, learner>>,
         job' \in Jobs, Shape(job')
  PROVE  TInv'
BY JobStepType DEF TInv, TypeOK, learner

\* A write: the row is in a version of a release, and a job may miss it.
LEMMA WriteType ==
  ASSUME TInv, NEW k \in Keys, NEW v \in Versions(k), Write(k, v)
  PROVE  /\ table' = [table EXCEPT ![k] = v] /\ old' = old
         /\ table' \in [Keys -> Nat] /\ \A x \in Keys : table'[x] \in Versions(x)
         /\ job' \in Jobs /\ Shape(job')
<1>1. table' = [table EXCEPT ![k] = v] /\ old' = old
  BY DEF Write
<1>2. v \in Nat
  BY ReferenceAssumption DEF Versions
<1>3. job' = job \/ job' = [job EXCEPT !.base = @ \ {k}]
  BY DEF Write
<1>4. job' \in Jobs /\ Shape(job')
  <2>1. CASE job' = job
    BY <2>1, JobFacts
  <2>2. CASE job' = [job EXCEPT !.base = @ \ {k}]
    <3>1. /\ job' \in Jobs /\ job'.at = job.at /\ job'.task = job.task /\ job'.seen = job.seen
          /\ job'.more = job.more /\ job'.pages = job.pages
      BY <2>2, JobFacts DEF Jobs
    <3> QED BY <3>1, JobFacts DEF Shape
  <2> QED BY <1>3, <2>1, <2>2
<1> QED BY <1>1, <1>2, <1>4 DEF TInv, TypeOK

\* A step of a load: it leaves the budget, the index and the learner as they are.
LEMMA LoadStepType ==
  ASSUME TInv, UNCHANGED <<language, index, learner>>, budget' \in Budgets,
         published' \in {0} \union Releases,
         table' \in [Keys -> Nat], old' \in [Keys -> Nat],
         \A k \in Keys : table'[k] \in Versions(k) /\ old'[k] \in Versions(k),
         load' \in Loads, load'.stale \subseteq Topics \ Built(load'.release),
         load'.at # "idle" => load'.release \in Releases,
         job' \in Jobs, Shape(job')
  PROVE  TInv'
BY DEF TInv, TypeOK, LoadShape, Shape, learner

LEMMA LoadFacts ==
  ASSUME TInv
  PROVE  /\ load \in Loads /\ load.stale \subseteq Topics \ Built(load.release)
         /\ load.at # "idle" => load.release \in Releases
         /\ load.todo \in Seq(Keys)
BY DEF TInv, TypeOK, LoadShape, Loads

LEMMA ReleaseVersion ==
  ASSUME NEW r \in Releases, NEW k \in Keys
  PROVE  /\ Version[r][k] \in Nat /\ Version[r][k] \in Versions(k) /\ 0 \in Versions(k)
         /\ k \in Built(r) <=> Version[r][k] # 0
BY ReferenceAssumption DEF Versions, Built

\* What is left of a list when one of its entries is taken.
LEMMA EntryTaken ==
  ASSUME NEW T, NEW s \in Seq(T), NEW i \in DOMAIN s
  PROVE  /\ RemoveAt(s, i) \in Seq(T) /\ Range(RemoveAt(s, i)) \subseteq Range(s)
         /\ \A k \in Range(s) : k = s[i] \/ k \in Range(RemoveAt(s, i))
<1> DEFINE n == Len(s)
           f == SubSeq(s, 1, i - 1)
           g == SubSeq(s, i + 1, n)
           r == RemoveAt(s, i)
<1>1. n \in Nat /\ i \in 1 .. n /\ \A x \in 1 .. n : s[x] \in T
  OBVIOUS
<1>2. Range(s) = {s[x] : x \in 1 .. n}
  BY RangeEquality
<1> HIDE DEF n
<1>3. /\ f \in Seq(T) /\ Len(f) = i - 1 /\ \A x \in 1 .. i - 1 : f[x] = s[x]
  BY <1>1, SubSeqProperties
<1>4. /\ g \in Seq(T) /\ Len(g) = n - i /\ \A x \in 1 .. n - i : g[x] = s[i + x]
  BY <1>1, SubSeqProperties
<1>5. r = f \o g
  BY DEF RemoveAt, n
<1> HIDE DEF f, g, r
<1>6. /\ r \in Seq(T) /\ Len(r) = n - 1
      /\ \A x \in 1 .. n - 1 : r[x] = IF x <= i - 1 THEN f[x] ELSE g[x - (i - 1)]
  <2>1. /\ r \in Seq(T) /\ Len(r) = Len(f) + Len(g)
        /\ \A x \in 1 .. Len(f) + Len(g) : r[x] = IF x <= Len(f) THEN f[x] ELSE g[x - Len(f)]
    BY <1>3, <1>4, <1>5, ConcatProperties
  <2>2. Len(f) = i - 1 /\ Len(f) + Len(g) = n - 1
    BY <1>1, <1>3, <1>4
  <2> QED BY <2>1, <2>2
<1>7. Range(r) = {r[x] : x \in 1 .. n - 1}
  BY <1>6, RangeEquality
<1>8. \A x \in 1 .. n - 1 : r[x] = IF x <= i - 1 THEN s[x] ELSE s[x + 1]
  <2> SUFFICES ASSUME NEW x \in 1 .. n - 1 PROVE r[x] = IF x <= i - 1 THEN s[x] ELSE s[x + 1]
    OBVIOUS
  <2>1. CASE x <= i - 1
    BY <1>1, <1>3, <1>6, <2>1
  <2>2. CASE ~ x <= i - 1
    <3>1. x - (i - 1) \in 1 .. n - i /\ i + (x - (i - 1)) = x + 1
      BY <1>1, <2>2
    <3> QED BY <1>4, <1>6, <2>2, <3>1
  <2> QED BY <2>1, <2>2
<1>9. Range(r) \subseteq Range(s)
  <2>1. \A x \in 1 .. n - 1 : x \in 1 .. n /\ x + 1 \in 1 .. n
    BY <1>1
  <2> QED BY <1>2, <1>7, <1>8, <2>1
<1>10. ASSUME NEW k \in Range(s) PROVE k = s[i] \/ k \in Range(r)
  <2>1. PICK x \in 1 .. n : s[x] = k
    BY <1>2
  <2>2. CASE x < i
    <3>1. x \in 1 .. n - 1 /\ x <= i - 1
      BY <1>1, <2>2
    <3> QED BY <1>7, <1>8, <2>1, <3>1
  <2>3. CASE x > i
    <3>1. x - 1 \in 1 .. n - 1 /\ ~ x - 1 <= i - 1 /\ (x - 1) + 1 = x
      BY <1>1, <2>3
    <3> QED BY <1>7, <1>8, <2>1, <3>1
  <2> QED BY <1>1, <2>1, <2>2, <2>3
<1> QED BY <1>6, <1>9, <1>10 DEF r

LEMMA RecordsListed ==
  ASSUME NEW r, NEW kind
  PROVE  /\ Records(r, kind) \in Seq(Keys)
         /\ Range(Records(r, kind)) = {k \in Built(r) : Holds(kind, k)}
<1> DEFINE S == {k \in Built(r) : Holds(kind, k)}
           f == Records(r, kind)
<1>1. S \in SUBSET Keys
  BY DEF Built
<1>2. f = KeyOrder(S)
  BY DEF Records
<1> HIDE DEF S, f
<1>3. f \in Seq(S) /\ \A k \in S : \E n \in 1 .. Len(f) : f[n] = k
  BY <1>1, <1>2, KeysUp DEF InOrder
<1>4. f \in Seq(Keys)
  BY <1>1, <1>3
<1>5. Range(f) \subseteq S /\ Range(f) = {f[x] : x \in 1 .. Len(f)}
  BY <1>3, RangeOfSeq, RangeEquality
<1>6. Range(f) = S
  BY <1>3, <1>5
<1> QED BY <1>4, <1>6 DEF S, f

\* A page of the topics, as a load scans them: they are topics, and those of the topics
\* it has not are beyond its cursor.
LEMMA ScanMakes ==
  ASSUME TInv, ScanPage
  PROVE  \E view \in Views : \E stale, last :
           /\ stale \subseteq Topics \ Built(load.release) /\ last \in Topics \union {None}
           /\ \A k \in Topics \ Built(load.release) :
                view[k] # 0 /\ (load.last # None => Rank[load.last] < Rank[k]) =>
                  k \in stale \/ (last # None /\ Rank[last] < Rank[k])
           /\ load' = [load EXCEPT !.stale = @ \union stale, !.last = last,
                                   !.at = IF last = None THEN "delete" ELSE @]
<1> DEFINE S(view) == {k \in Topics : view[k] # 0 /\ (load.last # None => Rank[load.last] < Rank[k])}
           pageOf(view) == FirstOf(KeyOrder(S(view)), PageSize)
<1>1. PICK view \in Views :
        load' = [load EXCEPT
                   !.stale = @ \union (Range(pageOf(view)) \ BuiltTopics(load.release)),
                   !.last = Cursor(pageOf(view)),
                   !.at = IF Cursor(pageOf(view)) = None THEN "delete" ELSE @]
  BY DEF ScanPage, Page
<1> DEFINE R == S(view)
           f == KeyOrder(R)
           page == FirstOf(f, PageSize)
<1>2. R \in SUBSET Topics /\ R \in SUBSET Keys /\ None \notin Keys
  BY ReferenceAssumption DEF Topics, OfKind
<1>3. \A k \in Topics : view[k] # 0 /\ (load.last # None => Rank[load.last] < Rank[k]) => k \in R
  OBVIOUS
<1>4. load' = [load EXCEPT !.stale = @ \union (Range(page) \ BuiltTopics(load.release)),
                           !.last = Cursor(page),
                           !.at = IF Cursor(page) = None THEN "delete" ELSE @]
  BY <1>1
<1> HIDE DEF R
<1>5. InOrder(f, R, Up(R))
  BY <1>2, KeysUp
<1> HIDE DEF f
<1>6. /\ page \in Seq(R) /\ Cursor(page) \in R \union {None}
      /\ Cursor(page) = None => R \subseteq Range(page)
      /\ Cursor(page) # None => \A k \in R : k \in Range(page) \/ Cursor(page) \in Up(R)[k]
  BY <1>2, <1>5, PageOrder
<1> HIDE DEF page
<1>7. Range(page) \in SUBSET R
  BY <1>6, RangeOfSeq
<1> DEFINE stale == Range(page) \ BuiltTopics(load.release)
<1>8. stale \subseteq Topics \ Built(load.release)
  BY <1>2, <1>7 DEF BuiltTopics
<1>9. \A k \in Topics \ Built(load.release) :
         view[k] # 0 /\ (load.last # None => Rank[load.last] < Rank[k]) =>
           k \in stale \/ (Cursor(page) # None /\ Rank[Cursor(page)] < Rank[k])
  BY <1>2, <1>3, <1>6 DEF Up, BuiltTopics
<1>10. Cursor(page) \in Topics \union {None}
  BY <1>2, <1>6
<1> HIDE DEF stale
<1> WITNESS view \in Views
<1> WITNESS stale, Cursor(page)
<1> QED BY <1>4, <1>8, <1>9, <1>10 DEF stale

LEMMA TypeBeginLoad ==
  ASSUME TInv, NEW r \in Releases, NEW kind \in LoadKinds, BeginLoad(r, kind) PROVE TInv'
<1> DEFINE todo == Records(r, kind)
<1>1. todo \in Seq(Keys)
  BY RecordsListed
<1>2. load' = [IdleLoad EXCEPT !.release = r, !.kind = kind, !.at = "put", !.todo = todo]
  BY DEF BeginLoad
<1> HIDE DEF todo
<1>3. load' \in Loads /\ load'.release = r /\ load'.stale = {}
  BY <1>1, <1>2 DEF IdleLoad, Loads
<1>4. budget' \in Budgets
  BY BudgetSpent DEF BeginLoad
<1>5. UNCHANGED <<language, table, old, published, index, known, learned, offered, job>>
  BY DEF BeginLoad, rows, learner
<1> QED BY <1>3, <1>4, <1>5, JobFacts, LoadStepType DEF TInv, TypeOK, learner

LEMMA TypePutRow ==
  ASSUME TInv, PutRow PROVE TInv'
<1>1. PICK i \in DOMAIN load.todo :
        /\ Write(load.todo[i], Version[load.release][load.todo[i]])
        /\ load' = [load EXCEPT !.todo = RemoveAt(@, i)]
  BY DEF PutRow
<1>2. load \in Loads /\ load.release \in Releases /\ load.todo \in Seq(Keys)
  BY LoadFacts DEF PutRow
<1>3. load.todo[i] \in Keys
  BY <1>2
<1>4. Version[load.release][load.todo[i]] \in Versions(load.todo[i])
  BY <1>2, <1>3, ReleaseVersion
<1>5. /\ old' = old /\ table' \in [Keys -> Nat] /\ \A x \in Keys : table'[x] \in Versions(x)
      /\ job' \in Jobs /\ Shape(job')
  BY <1>1, <1>3, <1>4, WriteType
<1>6. RemoveAt(load.todo, i) \in Seq(Keys)
  BY <1>2, EntryTaken
<1>7. load' \in Loads /\ load'.stale = load.stale /\ load'.release = load.release
  BY <1>1, <1>2, <1>6 DEF Loads
<1>8. UNCHANGED <<language, budget, published, index, learner>>
  BY DEF PutRow
<1> QED BY <1>2, <1>5, <1>7, <1>8, LoadFacts, LoadStepType DEF TInv, TypeOK

\* A load goes on and nothing else changes.
LEMMA LoadGoesOn ==
  ASSUME TInv, UNCHANGED <<language, budget, rows, index, learner, job>>,
         published' \in {0} \union Releases,
         load' \in Loads, load'.stale \subseteq Topics \ Built(load'.release),
         load'.at # "idle" => load'.release \in Releases
  PROVE  TInv'
<1>1. budget' \in Budgets /\ table' \in [Keys -> Nat] /\ old' \in [Keys -> Nat]
      /\ \A k \in Keys : table'[k] \in Versions(k) /\ old'[k] \in Versions(k)
  BY DEF TInv, TypeOK, rows
<1>2. job' \in Jobs /\ Shape(job')
  BY JobFacts
<1> QED BY <1>1, <1>2, LoadStepType

LEMMA TypeEndPuts ==
  ASSUME TInv, EndPuts PROVE TInv'
<1>1. PICK at \in {"scan", "publish", "done"} : load' = [load EXCEPT !.at = at]
  BY DEF EndPuts, AfterTopics
<1>2. load' \in Loads /\ load'.stale = load.stale /\ load'.release = load.release
  BY <1>1, LoadFacts DEF Loads
<1>3. load.release \in Releases /\ UNCHANGED <<language, budget, rows, index, learner, job>>
      /\ published' \in {0} \union Releases
  BY LoadFacts DEF EndPuts, TInv, TypeOK
<1> QED BY <1>2, <1>3, LoadFacts, LoadGoesOn

LEMMA TypeScanPage ==
  ASSUME TInv, ScanPage PROVE TInv'
<1>1. PICK stale, last :
        /\ stale \subseteq Topics \ Built(load.release) /\ last \in Topics \union {None}
        /\ load' = [load EXCEPT !.stale = @ \union stale, !.last = last,
                                !.at = IF last = None THEN "delete" ELSE @]
  BY ScanMakes
<1>2. Topics \subseteq Keys
  BY DEF Topics, OfKind
<1>3. load' \in Loads /\ load'.stale = load.stale \union stale /\ load'.release = load.release
  BY <1>1, <1>2, LoadFacts DEF Loads
<1>4. load.release \in Releases /\ UNCHANGED <<language, budget, rows, index, learner, job>>
      /\ published' \in {0} \union Releases
  BY LoadFacts DEF ScanPage, TInv, TypeOK
<1> QED BY <1>1, <1>3, <1>4, LoadFacts, LoadGoesOn

LEMMA TypeDeleteStale ==
  ASSUME TInv, DeleteStale PROVE TInv'
<1>1. PICK k \in load.stale : Write(k, 0) /\ load' = [load EXCEPT !.stale = @ \ {k}]
  BY DEF DeleteStale
<1>2. load \in Loads /\ load.release \in Releases /\ k \in Keys
  BY LoadFacts DEF DeleteStale, Topics, OfKind
<1>3. 0 \in Versions(k)
  BY DEF Versions
<1>4. /\ old' = old /\ table' \in [Keys -> Nat] /\ \A x \in Keys : table'[x] \in Versions(x)
      /\ job' \in Jobs /\ Shape(job')
  BY <1>1, <1>2, <1>3, WriteType
<1>5. load' \in Loads /\ load'.stale \subseteq load.stale /\ load'.release = load.release
  BY <1>1, <1>2 DEF Loads
<1>6. UNCHANGED <<language, budget, published, index, learner>>
  BY DEF DeleteStale
<1> QED BY <1>2, <1>4, <1>5, <1>6, LoadFacts, LoadStepType DEF TInv, TypeOK

LEMMA TypeEndDeletes ==
  ASSUME TInv, EndDeletes PROVE TInv'
<1>1. PICK at \in {"publish", "done"} : load' = [load EXCEPT !.at = at]
  BY DEF EndDeletes, AfterTopics
<1>2. load' \in Loads /\ load'.stale = load.stale /\ load'.release = load.release
  BY <1>1, LoadFacts DEF Loads
<1>3. load.release \in Releases /\ UNCHANGED <<language, budget, rows, index, learner, job>>
      /\ published' \in {0} \union Releases
  BY LoadFacts DEF EndDeletes, TInv, TypeOK
<1> QED BY <1>2, <1>3, LoadFacts, LoadGoesOn

LEMMA TypePublish ==
  ASSUME TInv, Publish PROVE TInv'
<1>1. load' \in Loads /\ load'.stale = load.stale /\ load'.release = load.release
  BY LoadFacts DEF Loads, Publish
<1>2. load.release \in Releases /\ UNCHANGED <<language, budget, rows, index, learner, job>>
      /\ published' \in {0} \union Releases
  BY LoadFacts DEF Publish
<1> QED BY <1>1, <1>2, LoadFacts, LoadGoesOn

LEMMA TypeStopLoad ==
  ASSUME TInv, StopLoad PROVE TInv'
<1>1. load \in Loads /\ load.release \in Releases
  BY LoadFacts DEF StopLoad
<1>2. load' = [IdleLoad EXCEPT !.release = load.release, !.kind = load.kind, !.at = "stopped"]
  BY DEF StopLoad
<1>3. load' \in Loads /\ load'.stale = {} /\ load'.release = load.release
  <2>1. <<>> \in Seq(Keys)
    OBVIOUS
  <2> QED BY <1>1, <1>2, <2>1 DEF Loads, IdleLoad
<1>4. UNCHANGED <<language, budget, rows, index, learner, job>>
      /\ published' \in {0} \union Releases
  BY DEF StopLoad, TInv, TypeOK
<1> QED BY <1>1, <1>3, <1>4, LoadGoesOn

LEMMA TypeSettleRows ==
  ASSUME TInv, SettleRows PROVE TInv'
<1>1. UNCHANGED <<language, budget, table, load, published, index, learner, job>> /\ old' = table
  BY DEF SettleRows
<1> QED BY <1>1, JobFacts, LoadFacts, LoadStepType DEF TInv, TypeOK

-----------------------------------------------------------------------------
LEMMA TypeColdStart ==
  ASSUME TInv, ColdStart PROVE TInv'
<1>1. UNCHANGED <<language, budget, rows, load, published, learner, job>> /\ index' = 0
  BY DEF ColdStart
<1> QED BY <1>1, JobFacts, JobStepType DEF TInv, TypeOK, learner

LEMMA TypeSettleLearner ==
  ASSUME TInv, SettleLearner PROVE TInv'
<1>1. /\ UNCHANGED <<language, budget, rows, load, published, index, known, offered>>
      /\ learned' = known /\ job' = IdleJob
  BY DEF SettleLearner
<1> QED BY <1>1, IdleShape, JobStepType DEF TInv, TypeOK

LEMMA TypeDeleteLessons ==
  ASSUME TInv, DeleteLessons PROVE TInv'
<1>1. PICK gone \in SUBSET known : known' = known \ gone /\ learned' = learned \ gone
  BY DEF DeleteLessons
<1>2. /\ UNCHANGED <<language, budget, rows, load, published, index, offered>>
      /\ job' = IdleJob
  BY DEF DeleteLessons
<1>3. learned' \subseteq known' /\ known' \subseteq Keys /\ offered' \subseteq Keys
  BY <1>1, <1>2 DEF TInv, TypeOK
<1> QED BY <1>2, <1>3, IdleShape, JobStepType DEF TInv, TypeOK

LEMMA TypeOffer ==
  ASSUME TInv, Offer PROVE TInv'
<1>1. /\ UNCHANGED <<language, budget, rows, load, published, index, known, learned>>
      /\ offered' = offered \union Range(job.kept) \union Range(job.chosen) /\ job' = IdleJob
  BY DEF Offer
<1>2. job.kept \in Seq(Keys) /\ job.chosen \in Seq(Keys)
  BY JobFacts DEF Jobs
<1>3. Range(job.kept) \in SUBSET Keys /\ Range(job.chosen) \in SUBSET Keys
  BY <1>2, RangeOfSeq
<1> QED BY <1>1, <1>3, IdleShape, JobStepType DEF TInv, TypeOK

LEMMA TypeAnswers ==
  ASSUME TInv, ReadPage \/ ReadBatch \/ GiveUp \/ UseTopics \/ UseVocab \/ UseGrammar
  PROVE  TInv'
<1>1. job' \in Jobs /\ Shape(job')
  BY TypeReadPage, TypeReadBatch, TypeGiveUp, TypeUseTopics, TypeUseVocab, TypeUseGrammar
<1>2. UNCHANGED <<language, budget, rows, load, published, index, learner>>
  BY DEF ReadPage, ReadBatch, GiveUp, UseTopics, UseVocab, UseGrammar, Go, GoRead
<1> QED BY <1>1, <1>2, AnswerType

LEMMA TypeSearched ==
  ASSUME TInv, Search PROVE TInv'
<1>1. job' \in Jobs /\ Shape(job')
  BY TypeSearch
<1>2. UNCHANGED <<language, budget, rows, load, published, learner>>
  BY DEF Search, Go
<1>3. index' \in {0} \union Releases
  <2>1. index' = index \/ index' = IF index # 0 THEN index ELSE published
    BY DEF Search, Go
  <2> QED BY <2>1 DEF TInv, TypeOK
<1> QED BY <1>1, <1>2, <1>3, JobStepType DEF TInv, TypeOK, learner

LEMMA TypeBatchUsed ==
  ASSUME TInv, UseBatch PROVE TInv'
<1>1. job' \in Jobs /\ Shape(job')
  BY TypeUseBatch
<1>2. UNCHANGED <<language, budget, rows, load, published, index, learned, offered>>
      /\ (known' = known \/ known' = known \union job.got)
  BY DEF UseBatch, Go, learner
<1>3. job.got \in SUBSET Keys
  BY JobFacts DEF Jobs
<1> QED BY <1>1, <1>2, <1>3, JobStepType DEF TInv, TypeOK

LEMMA TypeBegun ==
  ASSUME TInv, \/ \E task \in budget.tasks : Browse(task) \/ ListTopics(task) \/ Prompt(task)
                                              \/ BuildStage(task)
               \/ \E ids \in SUBSET offered : ImportLesson(ids)
               \/ LookUp
  PROVE  TInv' /\ UNCHANGED <<language, rows, load, published, index, learner>>
<1>1. job' \in Jobs /\ Shape(job')
  BY TypeBrowse, TypeListTopics, TypePrompt, TypeBuildStage, TypeImport, TypeLookUp
<1>2. \E j : Begin(j)
  BY DEF Browse, ListTopics, Prompt, BuildStage, ImportLesson, LookUp
<1>3. UNCHANGED <<language, rows, load, published, index, learner>>
  BY <1>2 DEF Begin
<1> QED BY <1>1, <1>2, <1>3, BeginType

LEMMA TypeInit == Init => TInv
<1> SUFFICES ASSUME Init PROVE TInv
  OBVIOUS
<1>1. budget \in Budgets /\ budget.first \in {0} \union Releases
  BY ScenarioAssumption DEF Init, Budgets
<1>2. \A k \in Keys : table[k] \in Nat /\ table[k] \in Versions(k) /\ old[k] = table[k]
  <2> SUFFICES ASSUME NEW k \in Keys
               PROVE  table[k] \in Nat /\ table[k] \in Versions(k) /\ old[k] = table[k]
    OBVIOUS
  <2>1. table[k] = (IF k \in Built(budget.first) THEN Version[budget.first][k] ELSE 0)
        /\ old[k] = table[k]
    BY DEF Init
  <2>2. CASE k \in Built(budget.first)
    <3>1. budget.first \in Releases
      BY <1>1, <2>2 DEF Built
    <3> QED BY <2>1, <2>2, <3>1, ReleaseVersion
  <2>3. CASE k \notin Built(budget.first)
    BY <2>1, <2>3 DEF Versions
  <2> QED BY <2>2, <2>3
<1>3. table \in [Keys -> Nat] /\ old \in [Keys -> Nat]
  <2> DEFINE first(k) == IF k \in Built(budget.first) THEN Version[budget.first][k] ELSE 0
  <2>1. table = [k \in Keys |-> first(k)] /\ old = table
    BY DEF Init
  <2>2. \A k \in Keys : first(k) \in Nat
    BY <1>2, <2>1
  <2> HIDE DEF first
  <2> QED BY <2>1, <2>2
<1>4. load \in Loads /\ load.stale = {} /\ load.at = "idle"
  <2>1. <<>> \in Seq(Keys)
    OBVIOUS
  <2> QED BY <2>1 DEF Init, IdleLoad, Loads, LoadKinds
<1>5. job = IdleJob
  BY DEF Init
<1> QED BY <1>1, <1>2, <1>3, <1>4, <1>5, IdleShape DEF Init, TInv, TypeOK, LoadShape

LEMMA TypeStep == TInv /\ [Next]_vars => TInv'
<1> SUFFICES ASSUME TInv, [Next]_vars PROVE TInv'
  OBVIOUS
<1>1. CASE \E r \in Releases, kind \in {"all", "grammar", "topics", "vocab"} : BeginLoad(r, kind)
  BY <1>1, TypeBeginLoad DEF LoadKinds
<1>2. CASE \/ PutRow \/ EndPuts \/ ScanPage \/ DeleteStale \/ EndDeletes \/ Publish \/ StopLoad
           \/ SettleRows
  BY <1>2, TypePutRow, TypeEndPuts, TypeScanPage, TypeDeleteStale, TypeEndDeletes, TypePublish,
     TypeStopLoad, TypeSettleRows
<1>3. CASE SettleLearner \/ DeleteLessons \/ ColdStart \/ Offer \/ Search \/ UseBatch
  BY <1>3, TypeSettleLearner, TypeDeleteLessons, TypeColdStart, TypeOffer, TypeSearched, TypeBatchUsed
<1>4. CASE \/ \E task \in budget.tasks : Browse(task) \/ ListTopics(task) \/ Prompt(task)
                                          \/ BuildStage(task)
           \/ \E ids \in SUBSET offered : ImportLesson(ids)
           \/ LookUp
  BY <1>4, TypeBegun
<1>5. CASE ReadPage \/ ReadBatch \/ GiveUp \/ UseTopics \/ UseVocab \/ UseGrammar
  BY <1>5, TypeAnswers
<1>6. CASE UNCHANGED vars
  <2>1. TInv' <=> TInv
    BY <1>6 DEF vars, TInv, TypeOK, LoadShape, Shape
  <2> QED BY <2>1
<1> QED BY <1>1, <1>2, <1>3, <1>4, <1>5, <1>6 DEF Next

\* The table, the load, the job and what the learner knows are always of their types: a
\* row is in a version that a release has of it, only topics are ever stale, a query's
\* pages are counted up to their limit, and no read is tried more often than it may be.
THEOREM ReferenceTypeCorrect == Spec => []TypeOK
<1>1. TInv => TypeOK
  BY DEF TInv
<1> QED BY TypeInit, TypeStep, <1>1, PTL DEF Spec

-----------------------------------------------------------------------------
(***************************************************************************)
(* What a load leaves                                                      *)
(***************************************************************************)
LEMMA LoadsKept ==
  ASSUME LInv, TInv', UNCHANGED <<rows, load, published>> PROVE LInv'
BY DEF LInv, PutsDone, DeletesDone, PublishDone, Recs, Gone, BuiltTopics, rows

LEMMA LoadBegun ==
  ASSUME LInv, NEW r \in Releases, NEW kind \in LoadKinds, BeginLoad(r, kind) PROVE LInv'
<1>1. TInv'
  BY TypeBeginLoad DEF LInv
<1> DEFINE todo == Records(r, kind)
<1>2. Range(todo) = {k \in Built(r) : Holds(kind, k)}
  BY RecordsListed
<1>3. load' = [IdleLoad EXCEPT !.release = r, !.kind = kind, !.at = "put", !.todo = todo]
  BY DEF BeginLoad
<1> HIDE DEF todo
<1>4. /\ load'.at = "put" /\ load'.release = r /\ load'.kind = kind /\ load'.todo = todo
      /\ load'.last = None
  BY <1>3 DEF IdleLoad
<1>5. UNCHANGED <<table, old>> /\ Lagging = {}
  BY DEF BeginLoad, rows
<1>6. \A k \in Keys : old'[k] = table'[k]
  BY <1>5 DEF Lagging
<1>7. PutsDone'
  BY <1>2, <1>4 DEF PutsDone, Recs
<1>8. DeletesDone'
  BY <1>4, <1>6 DEF DeletesDone, Gone, Topics, OfKind
<1> QED BY <1>1, <1>4, <1>7, <1>8 DEF LInv, PublishDone

LEMMA RowPut ==
  ASSUME LInv, PutRow PROVE LInv'
<1>1. TInv'
  BY TypePutRow DEF LInv
<1>2. PICK i \in DOMAIN load.todo :
        /\ Write(load.todo[i], Version[load.release][load.todo[i]])
        /\ load' = [load EXCEPT !.todo = RemoveAt(@, i)]
  BY DEF PutRow
<1> DEFINE k == load.todo[i]
           todo == RemoveAt(load.todo, i)
<1>3. load \in Loads /\ load.todo \in Seq(Keys) /\ load.at = "put" /\ load.release \in Releases
  BY LoadFacts DEF PutRow, LInv
<1>4. k \in Range(load.todo) /\ k \in Keys
  BY <1>3 DEF Range
<1>5. Range(todo) \subseteq Range(load.todo) /\ \A x \in Range(load.todo) : x = k \/ x \in Range(todo)
  BY <1>3, EntryTaken
<1>6. k \in Recs /\ k \notin Gone
  BY <1>3, <1>4 DEF LInv, PutsDone, Recs, Gone
<1>7. Version[load.release][k] \in Versions(k)
  BY <1>3, <1>4, ReleaseVersion
<1>8. table' = [table EXCEPT ![k] = Version[load.release][k]] /\ old' = old
  BY <1>2, <1>4, <1>7, WriteType DEF LInv
<1>9. /\ load'.at = "put" /\ load'.release = load.release /\ load'.kind = load.kind
      /\ load'.todo = todo /\ load'.last = load.last
  BY <1>2, <1>3 DEF Loads
<1> HIDE DEF k, todo
<1>10. /\ table'[k] = Version[load.release][k] /\ \A x \in Keys : x # k => table'[x] = table[x]
  BY <1>4, <1>8 DEF LInv, TInv, TypeOK
<1>11. Recs' = Recs /\ Gone' = Gone /\ Recs \subseteq Keys /\ Gone \subseteq Keys
  BY <1>9 DEF Recs, Gone, Built, Topics, OfKind
<1>12. PutsDone'
  BY <1>3, <1>5, <1>9, <1>10, <1>11 DEF LInv, PutsDone
<1>13. DeletesDone'
  BY <1>3, <1>6, <1>8, <1>9, <1>10, <1>11 DEF LInv, DeletesDone
<1> QED BY <1>1, <1>9, <1>12, <1>13 DEF LInv, PublishDone

LEMMA PutsEnded ==
  ASSUME LInv, EndPuts PROVE LInv'
<1>1. TInv'
  BY TypeEndPuts DEF LInv
<1> DEFINE at == IF load.kind \in {"all", "topics"} /\ BuiltTopics(load.release) # {} THEN "scan"
                 ELSE AfterTopics
<1>2. load \in Loads /\ load.at = "put" /\ load.todo = <<>> /\ load' = [load EXCEPT !.at = at]
  BY LoadFacts DEF EndPuts, LInv
<1>3. at \in {"scan", "publish", "done"} /\ (at = "publish" => load.kind = "all")
      /\ (at = "done" => load.kind # "all")
      /\ (at # "scan" => ~ (load.kind \in {"all", "topics"} /\ BuiltTopics(load.release) # {}))
  BY DEF AfterTopics
<1> HIDE DEF at
<1>4. /\ load'.at = at /\ load'.release = load.release /\ load'.kind = load.kind
      /\ load'.stale = load.stale /\ load'.last = load.last
  BY <1>2 DEF Loads
<1>5. UNCHANGED <<table, old, published>>
  BY DEF EndPuts, rows
<1>6. Range(load.todo) = {}
  BY <1>2 DEF Range
<1>7. Recs' = Recs /\ Gone' = Gone
  BY <1>4 DEF Recs, Gone
<1>8. PutsDone'
  BY <1>2, <1>3, <1>4, <1>5, <1>6, <1>7 DEF LInv, PutsDone
<1>9. DeletesDone'
  BY <1>2, <1>3, <1>4, <1>5, <1>7 DEF LInv, DeletesDone
<1>10. PublishDone'
  BY <1>3, <1>4 DEF PublishDone
<1> QED BY <1>1, <1>8, <1>9, <1>10 DEF LInv

LEMMA PageScanned ==
  ASSUME LInv, ScanPage PROVE LInv'
<1>1. TInv' /\ TInv
  BY TypeScanPage DEF LInv
<1>2. PICK view \in Views : \E stale, last :
        /\ stale \subseteq Topics \ Built(load.release) /\ last \in Topics \union {None}
        /\ \A k \in Topics \ Built(load.release) :
             view[k] # 0 /\ (load.last # None => Rank[load.last] < Rank[k]) =>
               k \in stale \/ (last # None /\ Rank[last] < Rank[k])
        /\ load' = [load EXCEPT !.stale = @ \union stale, !.last = last,
                                !.at = IF last = None THEN "delete" ELSE @]
  BY <1>1, ScanMakes
<1>3. PICK stale, last :
        /\ \A k \in Topics \ Built(load.release) :
             view[k] # 0 /\ (load.last # None => Rank[load.last] < Rank[k]) =>
               k \in stale \/ (last # None /\ Rank[last] < Rank[k])
        /\ load' = [load EXCEPT !.stale = @ \union stale, !.last = last,
                                !.at = IF last = None THEN "delete" ELSE @]
  BY <1>2
<1>4. load \in Loads /\ load.at = "scan" /\ UNCHANGED <<table, old, published>>
  BY <1>1, LoadFacts DEF ScanPage, rows
<1>5. /\ load'.at = IF last = None THEN "delete" ELSE "scan"
      /\ load'.release = load.release /\ load'.kind = load.kind
      /\ load'.stale = load.stale \union stale /\ load'.last = last
  BY <1>3, <1>4 DEF Loads
<1>6. Recs' = Recs /\ Gone' = Gone /\ Gone \subseteq Keys
  BY <1>5 DEF Recs, Gone, Topics, OfKind
<1>7. \A k \in Gone : old[k] = table[k]
  BY <1>4 DEF LInv, DeletesDone
<1>8. ASSUME NEW k \in Gone, table[k] # 0
      PROVE  k \in load.stale \union stale \/ (last # None /\ Rank[last] < Rank[k])
  <2>1. view[k] # 0
    BY <1>6, <1>7, <1>8, ViewRow
  <2>2. k \in load.stale \/ load.last = None \/ Rank[load.last] < Rank[k]
    BY <1>4, <1>8 DEF LInv, DeletesDone
  <2> QED BY <1>3, <2>1, <2>2 DEF Gone
<1>9. PutsDone'
  BY <1>4, <1>5, <1>6 DEF LInv, PutsDone
<1>10. DeletesDone'
  BY <1>4, <1>5, <1>6, <1>7, <1>8 DEF DeletesDone
<1>11. PublishDone'
  BY <1>5 DEF PublishDone
<1> QED BY <1>1, <1>9, <1>10, <1>11 DEF LInv

LEMMA StaleDeleted ==
  ASSUME LInv, DeleteStale PROVE LInv'
<1>1. TInv' /\ TInv
  BY TypeDeleteStale DEF LInv
<1>2. PICK k \in load.stale : Write(k, 0) /\ load' = [load EXCEPT !.stale = @ \ {k}]
  BY DEF DeleteStale
<1>3. load \in Loads /\ load.at = "delete" /\ k \in Gone /\ k \in Keys /\ k \notin Recs
  BY <1>1, LoadFacts DEF DeleteStale, Gone, Recs, Topics, OfKind
<1>4. table' = [table EXCEPT ![k] = 0] /\ old' = old
  BY <1>1, <1>2, <1>3, WriteType DEF Versions
<1>5. /\ load'.at = "delete" /\ load'.release = load.release /\ load'.kind = load.kind
      /\ load'.stale = load.stale \ {k}
  BY <1>2, <1>3 DEF Loads
<1>6. table'[k] = 0 /\ \A x \in Keys : x # k => table'[x] = table[x]
  BY <1>1, <1>3, <1>4 DEF TInv, TypeOK
<1>7. Recs' = Recs /\ Gone' = Gone /\ Gone \subseteq Keys /\ Recs \subseteq Keys
  BY <1>5 DEF Recs, Gone, Topics, OfKind, Built
<1>8. PutsDone'
  BY <1>3, <1>5, <1>6, <1>7 DEF LInv, PutsDone
<1>9. DeletesDone'
  BY <1>3, <1>5, <1>6, <1>7 DEF LInv, DeletesDone
<1> QED BY <1>1, <1>5, <1>8, <1>9 DEF LInv, PublishDone

LEMMA DeletesEnded ==
  ASSUME LInv, EndDeletes PROVE LInv'
<1>1. TInv' /\ TInv
  BY TypeEndDeletes DEF LInv
<1>2. load \in Loads /\ load.at = "delete" /\ load.stale = {} /\ load' = [load EXCEPT !.at = AfterTopics]
  BY <1>1, LoadFacts DEF EndDeletes
<1>3. UNCHANGED <<table, old, published>>
  BY DEF EndDeletes, rows
<1>4. /\ load'.at = AfterTopics /\ load'.release = load.release /\ load'.kind = load.kind
  BY <1>2 DEF Loads
<1>5. Recs' = Recs /\ Gone' = Gone
  BY <1>4 DEF Recs, Gone
<1>6. \A k \in Gone : table[k] = 0
  BY <1>2 DEF LInv, DeletesDone
<1>7. PutsDone' /\ DeletesDone'
  BY <1>2, <1>3, <1>4, <1>5, <1>6 DEF LInv, PutsDone, DeletesDone, AfterTopics
<1>8. PublishDone'
  BY <1>4 DEF PublishDone, AfterTopics
<1> QED BY <1>1, <1>7, <1>8 DEF LInv

LEMMA Published ==
  ASSUME LInv, Publish PROVE LInv'
<1>1. TInv' /\ TInv
  BY TypePublish DEF LInv
<1>2. /\ load \in Loads /\ load.at = "publish" /\ load' = [load EXCEPT !.at = "done"]
      /\ published' = load.release /\ UNCHANGED <<table, old>>
  BY <1>1, LoadFacts DEF Publish, rows
<1>3. load'.at = "done" /\ load'.release = load.release /\ load'.kind = load.kind
  BY <1>2 DEF Loads
<1>4. Recs' = Recs /\ Gone' = Gone
  BY <1>3 DEF Recs, Gone
<1>5. PutsDone' /\ DeletesDone' /\ PublishDone'
  BY <1>2, <1>3, <1>4 DEF LInv, PutsDone, DeletesDone, PublishDone
<1> QED BY <1>1, <1>5 DEF LInv

LEMMA LoadStopped ==
  ASSUME LInv, StopLoad PROVE LInv'
<1>1. TInv'
  BY TypeStopLoad DEF LInv
<1>2. load'.at = "stopped"
  BY DEF StopLoad, IdleLoad
<1> QED BY <1>1, <1>2 DEF LInv, PutsDone, DeletesDone, PublishDone

LEMMA RowsSettled ==
  ASSUME LInv, SettleRows PROVE LInv'
<1>1. TInv'
  BY TypeSettleRows DEF LInv
<1>2. UNCHANGED <<table, load, published>> /\ old' = table
  BY DEF SettleRows
<1>3. PutsDone' /\ PublishDone'
  BY <1>2 DEF LInv, PutsDone, PublishDone, Recs
<1>4. DeletesDone'
  BY <1>2 DEF LInv, DeletesDone, Gone, BuiltTopics
<1> QED BY <1>1, <1>3, <1>4 DEF LInv

\* What jobs do to what they share with the loads: nothing.
LEMMA JobsLeaveRows ==
  ASSUME TInv, \/ SettleLearner \/ DeleteLessons \/ ColdStart \/ Offer \/ Search \/ UseBatch
               \/ \E task \in budget.tasks : Browse(task) \/ ListTopics(task) \/ Prompt(task)
                                              \/ BuildStage(task)
               \/ \E ids \in SUBSET offered : ImportLesson(ids)
               \/ LookUp
               \/ ReadPage \/ ReadBatch \/ GiveUp \/ UseTopics \/ UseVocab \/ UseGrammar
  PROVE  UNCHANGED <<language, rows, load, published>>
<1>1. CASE SettleLearner \/ DeleteLessons \/ ColdStart \/ Offer \/ Search \/ UseBatch
  BY <1>1 DEF SettleLearner, DeleteLessons, ColdStart, Offer, Search, UseBatch, Go
<1>2. CASE \/ \E task \in budget.tasks : Browse(task) \/ ListTopics(task) \/ Prompt(task)
                                          \/ BuildStage(task)
           \/ \E ids \in SUBSET offered : ImportLesson(ids)
           \/ LookUp
  BY <1>2, TypeBegun
<1>3. CASE ReadPage \/ ReadBatch \/ GiveUp \/ UseTopics \/ UseVocab \/ UseGrammar
  BY <1>3 DEF ReadPage, ReadBatch, GiveUp, UseTopics, UseVocab, UseGrammar, Go, GoRead
<1> QED BY <1>1, <1>2, <1>3

LEMMA LoadStep == LInv /\ [Next]_vars => LInv'
<1> SUFFICES ASSUME LInv, [Next]_vars PROVE LInv'
  OBVIOUS
<1>1. TInv /\ TInv'
  BY TypeStep DEF LInv
<1>2. CASE \E r \in Releases, kind \in {"all", "grammar", "topics", "vocab"} : BeginLoad(r, kind)
  BY <1>2, LoadBegun DEF LoadKinds
<1>3. CASE \/ PutRow \/ EndPuts \/ ScanPage \/ DeleteStale \/ EndDeletes \/ Publish \/ StopLoad
           \/ SettleRows
  BY <1>3, RowPut, PutsEnded, PageScanned, StaleDeleted, DeletesEnded, Published, LoadStopped,
     RowsSettled
<1>4. CASE \/ SettleLearner \/ DeleteLessons \/ ColdStart \/ Offer \/ Search \/ UseBatch
           \/ \E task \in budget.tasks : Browse(task) \/ ListTopics(task) \/ Prompt(task)
                                          \/ BuildStage(task)
           \/ \E ids \in SUBSET offered : ImportLesson(ids)
           \/ LookUp
           \/ ReadPage \/ ReadBatch \/ GiveUp \/ UseTopics \/ UseVocab \/ UseGrammar
  BY <1>1, <1>4, JobsLeaveRows, LoadsKept
<1>5. CASE UNCHANGED vars
  BY <1>1, <1>5, LoadsKept DEF vars, rows
<1> QED BY <1>2, <1>3, <1>4, <1>5 DEF Next

LEMMA LoadInit == Init => LInv
<1> SUFFICES ASSUME Init PROVE LInv
  OBVIOUS
<1>1. load.at = "idle"
  BY DEF Init, IdleLoad
<1> QED BY <1>1, TypeInit DEF LInv, PutsDone, DeletesDone, PublishDone

LEMMA LoadDone == LInv => FinishedLoadIsTheRelease
<1> SUFFICES ASSUME LInv, load.at = "done"
             PROVE  /\ \A k \in Built(load.release) :
                         Holds(load.kind, k) => table[k] = Version[load.release][k]
                    /\ load.kind \in {"all", "topics"} /\ BuiltTopics(load.release) # {} =>
                         {k \in Topics : table[k] # 0} = BuiltTopics(load.release)
                    /\ load.kind = "all" =>
                         /\ published = load.release
                         /\ \A k \in BuiltTopics(load.release) :
                              \A w \in Range(Words[k][table[k]]) : table[w] # 0
  BY DEF FinishedLoadIsTheRelease
<1>1. load.release \in Releases
  BY LoadFacts DEF LInv
<1>2. \A k \in Built(load.release) :
         /\ Holds(load.kind, k) => table[k] = Version[load.release][k]
         /\ Version[load.release][k] # 0
  BY DEF LInv, PutsDone, Recs, Built
<1>3. ASSUME load.kind \in {"all", "topics"}, BuiltTopics(load.release) # {}
      PROVE  {k \in Topics : table[k] # 0} = BuiltTopics(load.release)
  <2>1. \A k \in BuiltTopics(load.release) : Holds(load.kind, k)
    BY <1>3 DEF BuiltTopics, Holds, Topics, OfKind
  <2>2. \A k \in Gone : table[k] = 0
    BY <1>3 DEF LInv, DeletesDone
  <2> QED BY <1>2, <2>1, <2>2 DEF BuiltTopics, Gone
<1>4. ASSUME load.kind = "all"
      PROVE  /\ published = load.release
             /\ \A k \in BuiltTopics(load.release) :
                  \A w \in Range(Words[k][table[k]]) : table[w] # 0
  <2>1. published = load.release
    BY <1>4 DEF LInv, PublishDone
  <2>2. ASSUME NEW k \in BuiltTopics(load.release), NEW w \in Range(Words[k][table[k]])
        PROVE  table[w] # 0
    <3>1. k \in Topics \intersect Built(load.release) /\ table[k] = Version[load.release][k]
      BY <1>2, <1>4 DEF BuiltTopics, Holds
    <3>2. Words[k][table[k]] \in Seq(OfKind(Built(load.release), "VOCAB"))
      BY <1>1, <3>1, ReleaseAssumption
    <3>3. w \in Built(load.release)
      <4>1. Range(Words[k][table[k]]) \in SUBSET OfKind(Built(load.release), "VOCAB")
        BY <3>2, RangeOfSeq
      <4> QED BY <4>1 DEF OfKind
    <3> QED BY <1>2, <1>4, <3>3 DEF Holds
  <2> QED BY <2>1, <2>2
<1> QED BY <1>2, <1>3, <1>4

\* A load that has ended left the table as its release has it, whatever the loads before
\* it left half done, however its scan of the topics was paged, and in whatever order its
\* rows were put: all of its rows, none of the topics that are gone, and after a whole
\* load every word that a topic names (load_table, stale_topic_keys, prune_topics).
THEOREM LoadsAreExact == Spec => []FinishedLoadIsTheRelease
BY LoadInit, LoadStep, LoadDone, PTL DEF Spec

-----------------------------------------------------------------------------
(***************************************************************************)
(* What a job reads                                                        *)
(***************************************************************************)
LEMMA ReadsKept ==
  ASSUME RInv, TInv', UNCHANGED <<language, job>>, Steady \subseteq Steady' PROVE RInv'
BY DEF RInv, QueryReads, BatchReads, SeenKeys, InRange, Tagged, Follows, Ranged

\* A write leaves the rows that a read must find, but for one that it deletes.
LEMMA WriteReads ==
  ASSUME RInv, NEW k \in Keys, NEW v \in Versions(k), Write(k, v), TInv',
         UNCHANGED language
  PROVE  RInv'
<1>1. TInv /\ job \in Jobs
  BY JobFacts DEF RInv
<1>2. table' = [table EXCEPT ![k] = v] /\ old' = old
  BY <1>1, WriteType
<1>3. /\ v = 0 => job' = [job EXCEPT !.base = @ \ {k}]
      /\ v # 0 => job' = job
  BY DEF Write
<1>4. table'[k] = v /\ \A x \in Keys : x # k => table'[x] = table[x]
  BY <1>1, <1>2 DEF TInv, TypeOK
<1>5. /\ job'.base \subseteq job.base /\ job'.at = job.at /\ job'.task = job.task
      /\ job'.seen = job.seen /\ job'.last = job.last /\ job'.more = job.more
      /\ job'.pending = job.pending /\ job'.got = job.got
      /\ v = 0 => k \notin job'.base
  BY <1>1, <1>3 DEF Jobs
<1>6. job'.base \subseteq Steady'
  <2> SUFFICES ASSUME NEW x \in job'.base PROVE x \in Steady'
    OBVIOUS
  <2>1. x \in Steady /\ x \in Keys
    BY <1>5 DEF RInv, Steady
  <2> QED BY <1>2, <1>4, <1>5, <2>1 DEF Steady
<1>7. QueryOf(job') = QueryOf(job) /\ Sought(job') = Sought(job)
  BY <1>5 DEF QueryOf, Sought
<1>8. QueryReads'
  BY <1>5, <1>7 DEF RInv, QueryReads, SeenKeys, InRange, Tagged, Follows, Ranged
<1>9. BatchReads'
  BY <1>5, <1>7 DEF RInv, BatchReads
<1> QED BY <1>6, <1>8, <1>9 DEF RInv

\* A job that reads nothing now.
LEMMA ReadsNothing ==
  ASSUME TInv', job'.at \notin AtQuery \union {"batch"}, job'.base \subseteq Steady'
  PROVE  RInv'
BY DEF RInv, QueryReads, BatchReads

\* A query or a batch that is begun has read nothing yet and has all before it.
LEMMA ReadsOpenQuery ==
  ASSUME TInv', UNCHANGED <<language, rows>>, NEW j \in Jobs, NEW at \in AtQuery,
         job' = OpenQuery(j, at)
  PROVE  RInv'
<1>1. /\ job'.at = at /\ job'.seen = <<>> /\ job'.last = None /\ job'.more
      /\ job'.base \subseteq Steady
      /\ \A k \in job'.base : InRange(QueryOf(job'), k) /\ Tagged(QueryOf(job'), k)
  BY OpenQueryMakes
<1>2. Steady' = Steady
  BY DEF Steady, rows
<1>3. QueryReads'
  BY <1>1 DEF QueryReads, InRange, Tagged, Ranged
<1>4. BatchReads'
  BY <1>1 DEF BatchReads, AtQuery
<1> QED BY <1>1, <1>2, <1>3, <1>4 DEF RInv

LEMMA ReadsOpenBatch ==
  ASSUME TInv', UNCHANGED rows, NEW j \in Jobs, NEW ids \in SUBSET Keys,
         job' = OpenBatch(j, ids)
  PROVE  RInv'
<1>1. /\ job'.at = "batch" /\ job'.pending = ids
      /\ job'.base = ids \intersect Steady \intersect Sought(j) /\ Sought(job') = Sought(j)
  BY OpenBatchMakes
<1>2. Steady' = Steady
  BY DEF Steady, rows
<1>3. QueryReads'
  BY <1>1 DEF QueryReads, AtQuery
<1>4. BatchReads'
  BY <1>1 DEF BatchReads
<1> QED BY <1>1, <1>2, <1>3, <1>4 DEF RInv

\* What a page changes of a job.
LEMMA PageTaken ==
  ASSUME TInv, ReadPage
  PROVE  \E S, page, added :
           /\ PageAdds(QueryOf(job), S, page, added)
           /\ job'.at = job.at /\ job'.task = job.task /\ job'.base = job.base
           /\ job'.covered = job.covered /\ job'.from = job.from /\ job'.chosen = job.chosen
           /\ job'.limit = job.limit /\ job'.kept = job.kept /\ job'.got = job.got
           /\ job'.last = Cursor(page) /\ (job'.more => Cursor(page) # None)
           /\ Len(job.seen) \in Nat /\ Len(added) \in Nat
           /\ DOMAIN job.seen = 1 .. Len(job.seen)
           /\ DOMAIN job'.seen = 1 .. Len(job.seen) + Len(added)
           /\ \A i \in 1 .. Len(job.seen) : job'.seen[i] = job.seen[i]
           /\ \A i \in 1 .. Len(added) : job'.seen[Len(job.seen) + i] = added[i]
<1>1. PICK S, page, added :
        /\ PageAdds(QueryOf(job), S, page, added)
        /\ job' = [job EXCEPT
                     !.seen = @ \o added, !.last = Cursor(page),
                     !.pages = IF job.task.type = "stage" THEN @ + 1 ELSE 0,
                     !.more = /\ Cursor(page) # None
                              /\ job.task.type = "stage" => job.pages + 1 < MaxPages]
  BY PageRead
<1>2. job \in Jobs /\ job.seen \in Seq(RowsIn(Keys))
  BY JobFacts DEF Jobs, RowsIn
<1>3. added \in Seq(RowsIn(Keys))
  <2>1. S \subseteq Keys /\ added \in Seq(RowsIn(S))
    BY <1>1 DEF PageAdds
  <2>2. RowsIn(S) \subseteq RowsIn(Keys)
    BY <2>1 DEF RowsIn
  <2> QED BY <2>1, <2>2
<1> DEFINE seen == job.seen \o added
<1>4. /\ job'.at = job.at /\ job'.task = job.task /\ job'.base = job.base
      /\ job'.covered = job.covered /\ job'.from = job.from /\ job'.chosen = job.chosen
      /\ job'.limit = job.limit /\ job'.kept = job.kept /\ job'.got = job.got
      /\ job'.last = Cursor(page) /\ (job'.more => Cursor(page) # None) /\ job'.seen = seen
  BY <1>1, <1>2 DEF Jobs
<1>5. /\ seen \in Seq(RowsIn(Keys)) /\ Len(seen) = Len(job.seen) + Len(added)
      /\ \A i \in 1 .. Len(job.seen) + Len(added) :
            seen[i] = IF i <= Len(job.seen) THEN job.seen[i] ELSE added[i - Len(job.seen)]
  BY <1>2, <1>3, ConcatProperties
<1>6. /\ Len(job.seen) \in Nat /\ Len(added) \in Nat /\ DOMAIN job.seen = 1 .. Len(job.seen)
      /\ DOMAIN seen = 1 .. Len(job.seen) + Len(added)
  BY <1>2, <1>3, <1>5
<1> HIDE DEF seen
<1>7. \A i \in 1 .. Len(job.seen) : seen[i] = job.seen[i]
  BY <1>5, <1>6
<1>8. \A i \in 1 .. Len(added) : seen[Len(job.seen) + i] = added[i]
  <2> SUFFICES ASSUME NEW i \in 1 .. Len(added) PROVE seen[Len(job.seen) + i] = added[i]
    OBVIOUS
  <2>1. /\ Len(job.seen) + i \in 1 .. Len(job.seen) + Len(added)
        /\ ~ Len(job.seen) + i <= Len(job.seen) /\ (Len(job.seen) + i) - Len(job.seen) = i
    BY <1>6
  <2> QED BY <1>5, <2>1
<1> WITNESS S, page, added
<1> QED BY <1>1, <1>4, <1>6, <1>7, <1>8

\* Where a query goes on is an order of the keys.
LEMMA FollowsOn ==
  ASSUME NEW q, NEW x \in Keys, NEW y \in Keys, NEW z \in Keys,
         x = y \/ Follows(q, x, y), Follows(q, y, z)
  PROVE  Follows(q, x, z)
<1>1. Rank[x] \in Int /\ Rank[y] \in Int /\ Rank[z] \in Int
  BY Ranks
<1> QED BY <1>1 DEF Follows

LEMMA ReadsPage ==
  ASSUME RInv, ReadPage PROVE RInv'
<1>1. TInv /\ TInv' /\ job \in Jobs /\ job.at \in AtQuery /\ job.more
  BY JobFacts, TypeAnswers DEF RInv, ReadPage, AtQuery
<1> DEFINE q == QueryOf(job)
           m == Len(job.seen)
<1>2. PICK S, page, added :
        /\ PageAdds(q, S, page, added)
        /\ job'.at = job.at /\ job'.task = job.task /\ job'.base = job.base
        /\ job'.last = Cursor(page) /\ (job'.more => Cursor(page) # None)
        /\ m \in Nat /\ Len(added) \in Nat /\ DOMAIN job.seen = 1 .. m
        /\ DOMAIN job'.seen = 1 .. m + Len(added)
        /\ \A i \in 1 .. m : job'.seen[i] = job.seen[i]
        /\ \A i \in 1 .. Len(added) : job'.seen[m + i] = added[i]
  BY <1>1, PageTaken
<1> DEFINE n == Len(added)
<1>3. QueryOf(job') = q
  BY <1>2 DEF QueryOf
<1>4. UNCHANGED <<language, rows>> /\ Steady' = Steady
  BY DEF ReadPage, Steady, rows
<1>5. /\ job.last \in Keys \union {None}
      /\ \A i \in 1 .. m : job.seen[i].key \in Keys
  <2>1. job.seen \in Seq(RowsIn(Keys)) /\ job.last \in Keys \union {None}
    BY <1>1 DEF Jobs, RowsIn
  <2>2. \A i \in 1 .. m : job.seen[i] \in RowsIn(Keys)
    BY <2>1
  <2> QED BY <2>1, <2>2 DEF RowsIn
<1>6. /\ \A k \in job.base : InRange(q, k) /\ Tagged(q, k) /\ k \in Steady
      /\ \A i, j \in 1 .. m : i < j => Follows(q, job.seen[i].key, job.seen[j].key)
      /\ job.last # None =>
           \A i \in 1 .. m : job.seen[i].key = job.last \/ Follows(q, job.seen[i].key, job.last)
      /\ job.last = None => m = 0
      /\ \A k \in job.base : \/ \E i \in 1 .. m : job.seen[i].key = k
                             \/ job.last = None
                             \/ job.last # None /\ Follows(q, job.last, k)
  BY <1>1, <1>2, ZenonT(60) DEF RInv, QueryReads, SeenKeys
<1> HIDE DEF q, m
<1>7. /\ S \subseteq Keys
      /\ \A k \in S : Beyond(q, job.last, k)
      /\ \A k \in Steady : InRange(q, k) /\ Beyond(q, job.last, k) => k \in S
      /\ Cursor(page) \in S \union {None}
      /\ \A k \in S : k \in Range(page) \/ (Cursor(page) # None /\ Follows(q, Cursor(page), k))
      /\ \A i \in 1 .. Len(page) : Cursor(page) # None =>
            page[i] = Cursor(page) \/ Follows(q, page[i], Cursor(page))
      /\ \A i \in 1 .. n : \E x \in 1 .. Len(page) : added[i].key = page[x]
      /\ \A k \in Range(page) : Tagged(q, k) => \E i \in 1 .. n : added[i].key = k
      /\ \A i, j \in 1 .. n : i < j => Follows(q, added[i].key, added[j].key)
  BY <1>2 DEF PageAdds
<1>8. \A i \in 1 .. n : added[i].key \in S
  <2>1. added \in Seq(RowsIn(S))
    BY <1>2 DEF PageAdds
  <2>2. \A i \in 1 .. n : added[i] \in RowsIn(S)
    BY <2>1
  <2> QED BY <2>2 DEF RowsIn
<1> HIDE DEF n
\* What is added comes after all that was seen.
<1>9. ASSUME NEW i \in 1 .. m, NEW k \in S PROVE Follows(q, job.seen[i].key, k)
  <2>1. job.last # None /\ job.last \in Keys
    BY <1>2, <1>5, <1>6
  <2>2. Follows(q, job.last, k)
    BY <1>7, <2>1 DEF Beyond, Follows
  <2>3. job.seen[i].key = job.last \/ Follows(q, job.seen[i].key, job.last)
    BY <1>6, <2>1
  <2> QED BY <1>5, <1>7, <2>1, <2>2, <2>3, FollowsOn
<1>10. \A i \in 1 .. m + n :
          \/ i \in 1 .. m /\ job'.seen[i] = job.seen[i]
          \/ i - m \in 1 .. n /\ job'.seen[i] = added[i - m] /\ ~ i <= m
  <2> SUFFICES ASSUME NEW i \in 1 .. m + n, ~ i <= m
               PROVE  i - m \in 1 .. n /\ job'.seen[i] = added[i - m]
    BY <1>2 DEF n
  <2>1. i - m \in 1 .. n /\ m + (i - m) = i
    BY <1>2 DEF n
  <2> QED BY <1>2, <2>1 DEF n
<1>11. ASSUME NEW i \in 1 .. m + n, NEW j \in 1 .. m + n, i < j
       PROVE  Follows(q, job'.seen[i].key, job'.seen[j].key)
  <2>1. CASE i \in 1 .. m /\ j \in 1 .. m
    BY <1>2, <1>6, <1>11, <2>1
  <2>2. CASE i \in 1 .. m /\ j \notin 1 .. m
    BY <1>2, <1>8, <1>9, <1>10, <2>2
  <2>3. CASE i \notin 1 .. m
    <3>1. i - m \in 1 .. n /\ job'.seen[i] = added[i - m] /\ j \notin 1 .. m
      BY <1>2, <1>10, <1>11, <2>3
    <3>2. j - m \in 1 .. n /\ job'.seen[j] = added[j - m] /\ i - m < j - m
      BY <1>2, <1>10, <1>11, <3>1
    <3> QED BY <1>7, <3>1, <3>2
  <2> QED BY <2>1, <2>2, <2>3
<1>12. ASSUME Cursor(page) # None, NEW i \in 1 .. m + n
       PROVE  job'.seen[i].key = Cursor(page) \/ Follows(q, job'.seen[i].key, Cursor(page))
  <2>1. CASE i \in 1 .. m /\ job'.seen[i] = job.seen[i]
    BY <1>7, <1>9, <1>12, <2>1
  <2>2. CASE i - m \in 1 .. n /\ job'.seen[i] = added[i - m]
    BY <1>7, <1>12, <2>2
  <2> QED BY <1>10, <2>1, <2>2
<1>13. ASSUME NEW k \in job.base
       PROVE  \/ \E i \in 1 .. m + n : job'.seen[i].key = k
              \/ Cursor(page) # None /\ Follows(q, Cursor(page), k)
  <2>1. CASE \E i \in 1 .. m : job.seen[i].key = k
    <3>1. PICK i \in 1 .. m : job.seen[i].key = k
      BY <2>1
    <3>2. i \in 1 .. m + n /\ job'.seen[i].key = k
      BY <1>2, <3>1 DEF n
    <3> QED BY <3>2
  <2>2. CASE ~ \E i \in 1 .. m : job.seen[i].key = k
    <3>1. Beyond(q, job.last, k)
      BY <1>6, <2>2 DEF Beyond, Follows
    <3>2. k \in S
      BY <1>6, <1>7, <3>1
    <3>3. CASE k \in Range(page)
      <4>1. PICK i \in 1 .. n : added[i].key = k
        BY <1>6, <1>7, <3>3
      <4>2. m + i \in 1 .. m + n /\ job'.seen[m + i] = added[i]
        <5>1. m \in Nat /\ n \in Nat /\ \A x \in 1 .. n : job'.seen[m + x] = added[x]
          BY <1>2 DEF n
        <5> QED BY <4>1, <5>1
      <4> QED BY <4>1, <4>2
    <3> QED BY <1>7, <3>2, <3>3
  <2> QED BY <2>1, <2>2
<1>14. DOMAIN job'.seen = 1 .. m + n
  BY <1>2 DEF n
<1>15. QueryReads'
  <2>1. /\ \A k \in job'.base : InRange(q, k) /\ Tagged(q, k)
        /\ \A k \in job'.base :
             k \in SeenKeys' \/ (job'.last # None /\ Follows(q, job'.last, k))
        /\ \A i, j \in DOMAIN job'.seen :
             i < j => Follows(q, job'.seen[i].key, job'.seen[j].key)
        /\ job'.last # None =>
             \A i \in DOMAIN job'.seen :
                job'.seen[i].key = job'.last \/ Follows(q, job'.seen[i].key, job'.last)
    BY <1>2, <1>6, <1>11, <1>12, <1>13, <1>14 DEF SeenKeys
  <2>2. job'.last = None => ~ job'.more
    BY <1>2
  <2> QED BY <1>3, <1>4, <2>1, <2>2 DEF QueryReads, InRange, Ranged, Tagged, Follows
<1>16. BatchReads'
  BY <1>1, <1>2 DEF BatchReads, AtQuery
<1>17. job'.base \subseteq Steady'
  BY <1>2, <1>4, <1>6
<1> QED BY <1>1, <1>15, <1>16, <1>17 DEF RInv

LEMMA ReadsBatch ==
  ASSUME RInv, ReadBatch PROVE RInv'
<1>1. TInv /\ TInv' /\ job \in Jobs /\ job.at = "batch"
  BY JobFacts, TypeAnswers DEF RInv, ReadBatch
<1>2. PICK answered \in SUBSET job.pending, view \in Views :
        job' = [job EXCEPT !.pending = @ \ answered,
                           !.got = @ \union {k \in answered \intersect Sought(job) : view[k] # 0},
                           !.tries = IF job.task.type = "import" THEN 0 ELSE @ + 1]
  BY DEF ReadBatch
<1> DEFINE found == {k \in answered \intersect Sought(job) : view[k] # 0}
<1>3. /\ job'.at = "batch" /\ job'.task = job.task /\ job'.base = job.base
      /\ job'.pending = job.pending \ answered /\ job'.got = job.got \union found
  BY <1>1, <1>2 DEF Jobs
<1>4. Sought(job') = Sought(job)
  BY <1>3 DEF Sought
<1>5. UNCHANGED rows /\ Steady' = Steady
  BY DEF ReadBatch, Steady, rows
<1>6. \A k \in job.base : k \in Sought(job) /\ k \in job.pending \union job.got /\ view[k] # 0
  BY <1>1, ViewRow DEF RInv, BatchReads, Steady
<1>7. BatchReads'
  BY <1>3, <1>4, <1>6 DEF BatchReads
<1>8. QueryReads'
  BY <1>3 DEF QueryReads, AtQuery
<1> QED BY <1>1, <1>3, <1>5, <1>7, <1>8 DEF RInv

\* A job that has been given its task and nothing else.
Fresh(j) ==
  /\ j \in Jobs /\ j.at = "idle" /\ j.base = {} /\ j.got = {}
  /\ j.from = <<>> /\ j.chosen = <<>> /\ j.limit = 0 /\ j.kept = <<>> /\ j.listed = <<>>

LEMMA FreshJobs ==
  /\ Fresh(IdleJob) /\ IdleJob.covered = {} /\ IdleJob.task.type = "none"
  /\ \A task \in Tasks \union [type : {"import", "look"}, ids : SUBSET Keys] :
       LET j == [IdleJob EXCEPT !.task = task]
       IN  Fresh(j) /\ j.task = task /\ j.covered = {}
  /\ \A task \in Tasks : \A covered \in SUBSET Keys :
       LET j == [IdleJob EXCEPT !.task = task, !.covered = covered]
       IN  Fresh(j) /\ j.task = task /\ j.covered = covered
<1>1. /\ IdleJob.covered = {} /\ IdleJob.task.type = "none"
      /\ IdleJob.at = "idle" /\ IdleJob.base = {} /\ IdleJob.got = {}
      /\ IdleJob.from = <<>> /\ IdleJob.chosen = <<>> /\ IdleJob.limit = 0
      /\ IdleJob.kept = <<>> /\ IdleJob.listed = <<>>
  BY DEF IdleJob
<1>2. ASSUME NEW task \in Tasks \union [type : {"import", "look"}, ids : SUBSET Keys]
      PROVE  LET j == [IdleJob EXCEPT !.task = task]
             IN  Fresh(j) /\ j.task = task /\ j.covered = {}
  BY <1>1, IdleType DEF Fresh, Jobs
<1>3. ASSUME NEW task \in Tasks, NEW covered \in SUBSET Keys
      PROVE  LET j == [IdleJob EXCEPT !.task = task, !.covered = covered]
             IN  Fresh(j) /\ j.task = task /\ j.covered = covered
  BY <1>1, IdleType, ZenonT(60) DEF Fresh, Jobs
<1> QED BY <1>1, <1>2, <1>3, IdleType DEF Fresh

\* What a job is when it has been begun.
BegunAs(j) ==
  /\ Fresh(j) /\ j.covered \subseteq known
  /\ j.task.type \in {"prompt", "topics"} => learned \subseteq j.covered
  /\ \/ \E at \in AtQuery : job' = OpenQuery(j, at)
     \/ j.task.type = "prompt" /\ job' = [j EXCEPT !.at = "search"]
     \/ j.task.type # "prompt" /\ \E ids \in SUBSET Keys : job' = OpenBatch(j, ids)

LEMMA BegunMakes ==
  ASSUME TInv, \/ \E task \in budget.tasks : Browse(task) \/ ListTopics(task) \/ Prompt(task)
                                              \/ BuildStage(task)
               \/ \E ids \in SUBSET offered : ImportLesson(ids)
               \/ LookUp
  PROVE  \E j : BegunAs(j)
<1>1. \A task \in budget.tasks : task \in Tasks
  BY JobFacts
<1>2. ASSUME NEW task \in budget.tasks, NEW covered \in Coverage
      PROVE  LET j == [IdleJob EXCEPT !.task = task, !.covered = covered]
             IN  Fresh(j) /\ j.task = task /\ j.covered \subseteq known /\ learned \subseteq j.covered
  <2>1. covered \in SUBSET Keys /\ covered \subseteq known /\ learned \subseteq covered
    BY CoverageType DEF Coverage
  <2> DEFINE j == [IdleJob EXCEPT !.task = task, !.covered = covered]
  <2>2. Fresh(j) /\ j.task = task /\ j.covered = covered
    BY <1>1, <2>1, FreshJobs
  <2> HIDE DEF j
  <2>3. Fresh(j) /\ j.task = task /\ j.covered \subseteq known /\ learned \subseteq j.covered
    BY <2>1, <2>2
  <2> QED BY <2>3 DEF j
<1>3. ASSUME NEW task \in budget.tasks, Browse(task) PROVE \E j : BegunAs(j)
  <2> DEFINE j == [IdleJob EXCEPT !.task = task]
             at == CASE task.query.kind = "TOPIC" -> "topics" [] task.query.kind = "VOCAB" -> "vocab"
                     [] task.query.kind = "GRAMMAR" -> "grammar"
  <2>1. Fresh(j) /\ j.task = task /\ j.covered = {}
    BY <1>1, FreshJobs
  <2>2. task.type = "browse" /\ task.query \in Queries /\ job' = OpenQuery(j, at)
    BY <1>1, <1>3, TaskParts DEF Browse, Begin
  <2>3. at \in AtQuery
    BY <2>2 DEF Queries, Kinds, AtQuery
  <2> HIDE DEF j, at
  <2>4. BegunAs(j)
    BY <2>1, <2>2, <2>3 DEF BegunAs
  <2> QED BY <2>4
<1>4. ASSUME NEW task \in budget.tasks, ListTopics(task) PROVE \E j : BegunAs(j)
  <2>1. PICK covered \in Coverage :
          job' = OpenQuery([IdleJob EXCEPT !.task = task, !.covered = covered], "topics")
    BY <1>4 DEF ListTopics, Begin
  <2> DEFINE j == [IdleJob EXCEPT !.task = task, !.covered = covered]
  <2>2. Fresh(j) /\ j.covered \subseteq known /\ learned \subseteq j.covered
    BY <1>2
  <2>3. job' = OpenQuery(j, "topics")
    BY <2>1
  <2> HIDE DEF j
  <2>4. BegunAs(j)
    BY <2>2, <2>3 DEF BegunAs, AtQuery
  <2> QED BY <2>4
<1>5. ASSUME NEW task \in budget.tasks, Prompt(task) PROVE \E j : BegunAs(j)
  <2>1. PICK covered \in Coverage :
          LET new == [IdleJob EXCEPT !.task = task, !.covered = covered]
          IN  job' = IF task.slug # None THEN OpenQuery(new, "topics")
                     ELSE IF task.text # None THEN [new EXCEPT !.at = "search"]
                     ELSE OpenQuery(new, "vocab")
    BY <1>5 DEF Prompt, Begin
  <2> DEFINE j == [IdleJob EXCEPT !.task = task, !.covered = covered]
  <2>2. Fresh(j) /\ j.task = task /\ j.covered \subseteq known /\ learned \subseteq j.covered
    BY <1>2
  <2>3. \/ job' = OpenQuery(j, "topics") \/ job' = [j EXCEPT !.at = "search"]
        \/ job' = OpenQuery(j, "vocab")
    BY <2>1
  <2>4. task.type = "prompt"
    BY <1>5 DEF Prompt
  <2> HIDE DEF j
  <2>5. BegunAs(j)
    BY <2>2, <2>3, <2>4 DEF BegunAs, AtQuery
  <2> QED BY <2>5
<1>6. ASSUME NEW task \in budget.tasks, BuildStage(task) PROVE \E j : BegunAs(j)
  <2> DEFINE j == [IdleJob EXCEPT !.task = task]
  <2>1. Fresh(j) /\ j.task = task /\ j.covered = {}
    BY <1>1, FreshJobs
  <2>2. task.type = "stage" /\ job' = OpenQuery(j, "vocab")
    BY <1>6 DEF BuildStage, Begin
  <2> HIDE DEF j
  <2>3. BegunAs(j)
    BY <2>1, <2>2 DEF BegunAs, AtQuery
  <2> QED BY <2>3
<1>7. ASSUME NEW type \in {"import", "look"}, NEW ids \in SUBSET Keys,
             job' = OpenBatch([IdleJob EXCEPT !.task = [type |-> type, ids |-> ids]], ids)
      PROVE  \E j : BegunAs(j)
  <2> DEFINE task == [type |-> type, ids |-> ids]
             j == [IdleJob EXCEPT !.task = task]
  <2>1. task \in [type : {"import", "look"}, ids : SUBSET Keys] /\ task.type \in {"import", "look"}
    OBVIOUS
  <2> HIDE DEF task
  <2>2. Fresh(j) /\ j.task = task /\ j.covered = {}
    BY <2>1, FreshJobs
  <2>3. job' = OpenBatch(j, ids)
    BY <1>7 DEF task
  <2> HIDE DEF j
  <2>4. BegunAs(j)
    BY <2>1, <2>2, <2>3 DEF BegunAs
  <2> QED BY <2>4
<1>8. ASSUME NEW ids \in SUBSET offered, ImportLesson(ids) PROVE \E j : BegunAs(j)
  <2>1. ids \in SUBSET Keys
    BY DEF TInv, TypeOK
  <2>2. job' = OpenBatch([IdleJob EXCEPT !.task = [type |-> "import", ids |-> ids]], ids)
    BY <1>8 DEF ImportLesson, Begin
  <2> QED BY <1>7, <2>1, <2>2
<1>9. ASSUME LookUp PROVE \E j : BegunAs(j)
  <2>1. known \in SUBSET Keys
    BY DEF TInv, TypeOK
  <2>2. job' = OpenBatch([IdleJob EXCEPT !.task = [type |-> "look", ids |-> known]], known)
    BY <1>9 DEF LookUp, Begin
  <2> QED BY <1>7, <2>1, <2>2
<1> QED BY <1>3, <1>4, <1>5, <1>6, <1>8, <1>9

\* A job that searches, opens a query or reads what it has chosen.
LEMMA SearchUsed ==
  ASSUME TInv, Search
  PROVE  /\ job.at = "search" /\ job.task.type = "prompt"
         /\ \/ job' = OpenQuery(job, "topics")
            \/ \E ids \in Seq(Keys) :
                 job' = OpenBatch(Choose(job, ids, MatchedPool),
                                  Range(Choose(job, ids, MatchedPool).chosen))
<1>1. job.at = "search" /\ job.task.type = "prompt"
  BY JobFacts DEF Search, Shape
<1> DEFINE held == IF index # 0 THEN index ELSE published
           near == FirstOf(Among(Near[job.task.text],
                                {k \in Built(held) : Level[k] = job.task.level}), FreePool)
<1>2. near \in Seq(Keys)
  BY <1>1, NearType
<1>3. \/ job' = OpenQuery(job, "topics")
      \/ job' = OpenBatch(Choose(job, near, MatchedPool),
                          Range(Choose(job, near, MatchedPool).chosen))
  BY DEF Search, Go
<1> HIDE DEF near
<1> QED BY <1>1, <1>2, <1>3

LEMMA BatchUsed ==
  ASSUME UseBatch
  PROVE  /\ job.at = "batch" /\ job.pending = {}
         /\ \/ job.task.type = "prompt" /\ known' = known
               /\ job' = OpenQuery([job EXCEPT !.kept = Among(job.chosen, job.got)], "grammar")
            \/ job' = IdleJob /\ known' = known
            \/ job.task.type = "import" /\ known' = known \union job.got /\ job' = IdleJob
            \/ /\ job.task.type = "import" /\ known' = known
               /\ ~ (job.task.ids \subseteq job.got) /\ job' = [job EXCEPT !.at = "refused"]
BY DEF UseBatch, Go, learner

LEMMA ReadsGo ==
  ASSUME TInv, TInv', UNCHANGED <<language, rows>>, NEW ids \in Seq(Keys), NEW limit \in Nat,
         job' = OpenBatch(Choose(job, ids, limit), Range(Choose(job, ids, limit).chosen))
  PROVE  RInv'
<1> DEFINE j == Choose(job, ids, limit)
<1>1. j \in Jobs /\ Range(j.chosen) \in SUBSET Keys
  BY JobFacts, ChooseMakes
<1>2. job' = OpenBatch(j, Range(j.chosen)) /\ UNCHANGED rows
  OBVIOUS
<1> HIDE DEF j
<1> QED BY <1>1, <1>2, ReadsOpenBatch

LEMMA ReadsKeep ==
  ASSUME TInv', UNCHANGED <<language, rows>>, NEW j \in Jobs, NEW kept \in Seq(Keys),
         job' = OpenQuery([j EXCEPT !.kept = kept], "grammar")
  PROVE  RInv'
<1> DEFINE o == [j EXCEPT !.kept = kept]
<1>1. o \in Jobs /\ job' = OpenQuery(o, "grammar")
  BY KeepMakes
<1> HIDE DEF o
<1> QED BY <1>1, ReadsOpenQuery DEF AtQuery

\* A job that ends, refused or not, or stays at what it has read.
LEMMA ReadsEnd ==
  ASSUME RInv, TInv', UNCHANGED <<language, rows>>,
         \/ job' = IdleJob
         \/ \E at \in {"refused", "failed"} : job' = [IdleJob EXCEPT !.task = job.task, !.at = at]
         \/ \E at \in {"refused", "staged"} : job' = [job EXCEPT !.at = at]
         \/ \E listed : job' = [job EXCEPT !.at = "listed", !.listed = listed]
         \/ \E ids \in Seq(Keys), limit \in Nat : job' = [Choose(job, ids, limit) EXCEPT !.at = "offer"]
  PROVE  RInv'
<1>1. job \in Jobs /\ job.base \subseteq Steady /\ Steady' = Steady
  BY JobFacts DEF RInv, Steady, rows
<1>2. CASE job' = IdleJob
  <2>1. job'.at = "idle" /\ job'.base = {}
    BY <1>2 DEF IdleJob
  <2> QED BY <2>1, ReadsNothing DEF AtQuery
<1>3. ASSUME NEW at \in {"refused", "failed"}, job' = [IdleJob EXCEPT !.task = job.task, !.at = at]
      PROVE  RInv'
  <2>1. job'.at = at /\ job'.base = {}
    BY <1>3 DEF IdleJob
  <2> QED BY <2>1, ReadsNothing DEF AtQuery
<1>4. ASSUME NEW at \in {"refused", "staged"}, job' = [job EXCEPT !.at = at]
      PROVE  RInv'
  <2>1. job'.at = at /\ job'.base = job.base
    BY <1>1, <1>4 DEF Jobs
  <2> QED BY <1>1, <2>1, ReadsNothing DEF AtQuery
<1>5. ASSUME NEW listed, job' = [job EXCEPT !.at = "listed", !.listed = listed]
      PROVE  RInv'
  <2>1. job'.at = "listed" /\ job'.base = job.base
    BY <1>1, <1>5 DEF Jobs
  <2> QED BY <1>1, <2>1, ReadsNothing DEF AtQuery
<1>6. ASSUME NEW ids \in Seq(Keys), NEW limit \in Nat,
             job' = [Choose(job, ids, limit) EXCEPT !.at = "offer"]
      PROVE  RInv'
  <2> DEFINE j == Choose(job, ids, limit)
  <2>1. j \in Jobs /\ j.base = job.base
    <3>1. job \in Jobs /\ ids \in Seq(Keys) /\ limit \in Nat
      BY <1>1
    <3> QED BY ONLY <3>1, ChooseMakes DEF j
  <2>2. job' = [j EXCEPT !.at = "offer"]
    BY <1>6
  <2> HIDE DEF j
  <2>3. job'.at = "offer" /\ job'.base = job.base
    BY <2>1, <2>2 DEF Jobs
  <2> QED BY <1>1, <2>3, ReadsNothing DEF AtQuery
<1> QED BY <1>2, <1>3, <1>4, <1>5, <1>6

LEMMA ReadsBegun ==
  ASSUME RInv, \/ \E task \in budget.tasks : Browse(task) \/ ListTopics(task) \/ Prompt(task)
                                              \/ BuildStage(task)
               \/ \E ids \in SUBSET offered : ImportLesson(ids)
               \/ LookUp
  PROVE  RInv'
<1>1. TInv' /\ UNCHANGED <<language, rows>>
  BY TypeBegun DEF RInv
<1>2. PICK j : BegunAs(j)
  BY BegunMakes DEF RInv
<1>3. j \in Jobs /\ j.base = {}
  BY <1>2 DEF BegunAs, Fresh
<1>4. CASE job' = [j EXCEPT !.at = "search"]
  <2>1. job'.at = "search" /\ job'.base = {}
    BY <1>3, <1>4 DEF Jobs
  <2> QED BY <1>1, <2>1, ReadsNothing DEF AtQuery
<1> QED BY <1>1, <1>2, <1>3, <1>4, ReadsOpenQuery, ReadsOpenBatch DEF BegunAs

LEMMA ReadsUsed ==
  ASSUME RInv, \/ Search \/ UseTopics \/ UseVocab \/ UseGrammar \/ UseBatch \/ GiveUp \/ Offer
               \/ SettleLearner \/ DeleteLessons
  PROVE  RInv'
<1>1. TInv /\ TInv' /\ UNCHANGED <<language, rows>> /\ job \in Jobs
  BY JobFacts, TypeSearched, TypeAnswers, TypeBatchUsed, TypeOffer, TypeSettleLearner,
     TypeDeleteLessons, JobsLeaveRows
  DEF RInv
<1>2. CASE Search
  BY <1>1, <1>2, SearchUsed, ReadsGo, ReadsOpenQuery, Limits DEF AtQuery
<1>3. CASE UseTopics
  <2>1. job.at = "topics"
    BY <1>3, TopicsUsed
  <2>2. \A t \in Range(TopicsRead) : t.words \in Seq(Keys)
    BY <1>1, <2>1, AskedType
  <2>3. job.task.type = "prompt" => TopicWords(MatchTopics(job.task.tokens, TopicsRead)) \in Seq(Keys)
    BY <1>1, <2>1, MatchedType
  <2>4. CASE job.task.type = "prompt" /\ \E t \in Range(TopicsRead) :
               job' = OpenBatch(Choose(job, t.words, VocabSlice),
                                Range(Choose(job, t.words, VocabSlice).chosen))
    BY <1>1, <2>2, <2>4, Limits, ReadsGo
  <2>5. CASE job.task.type = "prompt" /\ job' = OpenQuery(job, "vocab")
    BY <1>1, <2>5, ReadsOpenQuery DEF AtQuery
  <2>6. CASE /\ job.task.type = "prompt"
             /\ LET words == TopicWords(MatchTopics(job.task.tokens, TopicsRead))
                IN  job' = OpenBatch(Choose(job, words, MatchedPool),
                                     Range(Choose(job, words, MatchedPool).chosen))
    BY <1>1, <2>3, <2>6, Limits, ReadsGo
  <2> QED BY <1>1, <1>3, <2>4, <2>5, <2>6, TopicsUsed, ReadsEnd
<1>4. CASE UseVocab
  <2>1. KeysRead \in Seq(Keys)
    BY <1>1, KeysReadType
  <2>2. ASSUME NEW limit \in {VocabSlice, FreePool},
               LET choice == Choose(job, KeysRead, limit)
               IN  job' = OpenQuery([choice EXCEPT !.kept = choice.chosen], "grammar")
        PROVE  RInv'
    <3> DEFINE choice == Choose(job, KeysRead, limit)
    <3>1. choice \in Jobs /\ choice.chosen \in Seq(Keys)
      BY <1>1, <2>1, Limits, ChooseMakes
    <3>2. job' = OpenQuery([choice EXCEPT !.kept = choice.chosen], "grammar")
      BY <2>2
    <3> HIDE DEF choice
    <3> QED BY <1>1, <3>1, <3>2, ReadsKeep
  <2> QED BY <1>1, <1>4, <2>1, <2>2, VocabUsed, ReadsKeep, ReadsEnd
<1>5. CASE UseGrammar
  BY <1>1, <1>5, GrammarUsed, KeysReadType, Limits, ReadsEnd
<1>6. CASE UseBatch
  <2>1. Among(job.chosen, job.got) \in Seq(Keys)
    <3>1. job.chosen \in Seq(Keys)
      BY <1>1 DEF Jobs
    <3> QED BY <3>1, AmongRange
  <2> QED BY <1>1, <1>6, <2>1, BatchUsed, ReadsKeep, ReadsEnd
<1>7. CASE GiveUp \/ Offer \/ SettleLearner \/ DeleteLessons
  BY <1>1, <1>7, ReadsEnd DEF GiveUp, Offer, SettleLearner, DeleteLessons
<1> QED BY <1>2, <1>3, <1>4, <1>5, <1>6, <1>7

LEMMA ReadsStep == RInv /\ [Next]_vars => RInv'
<1> SUFFICES ASSUME RInv, [Next]_vars PROVE RInv'
  OBVIOUS
<1>1. TInv /\ TInv'
  BY TypeStep DEF RInv
<1>2. CASE PutRow
  <2>1. PICK i \in DOMAIN load.todo : Write(load.todo[i], Version[load.release][load.todo[i]])
    BY <1>2 DEF PutRow
  <2>2. load.release \in Releases /\ load.todo \in Seq(Keys) /\ UNCHANGED language
    BY <1>1, <1>2, LoadFacts DEF PutRow
  <2>3. load.todo[i] \in Keys
    BY <2>2
  <2>4. Version[load.release][load.todo[i]] \in Versions(load.todo[i])
    BY <2>2, <2>3, ReleaseVersion
  <2> QED BY <1>1, <2>1, <2>2, <2>3, <2>4, WriteReads
<1>3. CASE DeleteStale
  <2>1. PICK k \in load.stale : Write(k, 0)
    BY <1>3 DEF DeleteStale
  <2>2. k \in Keys /\ 0 \in Versions(k) /\ UNCHANGED language
    BY <1>1, <1>3, LoadFacts DEF DeleteStale, Topics, OfKind, Versions
  <2> QED BY <1>1, <2>1, <2>2, WriteReads
<1>4. CASE SettleRows
  <2>1. UNCHANGED <<language, job>> /\ Steady \subseteq Steady'
    BY <1>4 DEF SettleRows, Steady
  <2> QED BY <1>1, <2>1, ReadsKept
<1>5. CASE \/ \E r \in Releases, kind \in {"all", "grammar", "topics", "vocab"} : BeginLoad(r, kind)
           \/ EndPuts \/ ScanPage \/ EndDeletes \/ Publish \/ StopLoad \/ ColdStart \/ UNCHANGED vars
  <2>1. UNCHANGED <<language, rows, job>>
    BY <1>5 DEF BeginLoad, EndPuts, ScanPage, EndDeletes, Publish, StopLoad, ColdStart, vars, rows
  <2>2. Steady' = Steady
    BY <2>1 DEF Steady, rows
  <2> QED BY <1>1, <2>1, <2>2, ReadsKept
<1>6. CASE \/ \E task \in budget.tasks : Browse(task) \/ ListTopics(task) \/ Prompt(task)
                                          \/ BuildStage(task)
           \/ \E ids \in SUBSET offered : ImportLesson(ids)
           \/ LookUp
  BY <1>6, ReadsBegun
<1>7. CASE \/ ReadPage \/ ReadBatch \/ Search \/ UseTopics \/ UseVocab \/ UseGrammar \/ UseBatch
           \/ GiveUp \/ Offer \/ SettleLearner \/ DeleteLessons
  BY <1>7, ReadsPage, ReadsBatch, ReadsUsed
<1> QED BY <1>2, <1>3, <1>4, <1>5, <1>6, <1>7 DEF Next

LEMMA ReadsInit == Init => RInv
<1> SUFFICES ASSUME Init PROVE RInv
  OBVIOUS
<1>1. job.at = "idle" /\ job.base = {}
  BY DEF Init, IdleJob
<1> QED BY <1>1, TypeInit DEF RInv, QueryReads, BatchReads, AtQuery

LEMMA ReadsEnough == RInv => ReadsMissNothing
<1> SUFFICES ASSUME RInv PROVE ReadsMissNothing
  OBVIOUS
<1>1. ASSUME job.at \in AtQuery
      PROVE  /\ \A i, j \in DOMAIN job.seen :
                  i < j => IF Ranged(QueryOf(job)) THEN Rank[job.seen[j].key] < Rank[job.seen[i].key]
                           ELSE Rank[job.seen[i].key] < Rank[job.seen[j].key]
             /\ ~ job.more /\ job.last = None => job.base \subseteq SeenKeys
  BY <1>1 DEF RInv, QueryReads, Follows
<1>2. job.at = "batch" /\ job.pending = {} => job.base \subseteq job.got
  BY DEF RInv, BatchReads
<1> QED BY <1>1, <1>2 DEF ReadsMissNothing, AtQuery, SeenKeys

\* A query that is read to its end, page by page, upwards or downwards, while a load puts
\* and deletes rows and every read sees each row as it is or was, has each of its rows once,
\* in order, and all that were there throughout; so has a batch that is answered in parts
\* (query, queryRange, Topics, loadVocab, VocabByIDs, missing).
THEOREM NoReadMissesARow == Spec => []ReadsMissNothing
BY ReadsInit, ReadsStep, ReadsEnough, PTL DEF Spec

-----------------------------------------------------------------------------
(***************************************************************************)
(* What lasts                                                              *)
(***************************************************************************)
\* A step that leaves the rows and the load as they are.
LEMMA LastsKept ==
  ASSUME GInv, RInv', UNCHANGED <<rows, load>>,
         offered' \subseteq Lasting, known' \subseteq Lasting, JobsLast'
  PROVE  GInv'
BY DEF GInv, Lasting, rows

\* What a read sees of a word or of grammar lasts.
LEMMA SeenLasts ==
  ASSUME GInv, NEW k \in Keys \ Topics,
         table[k] # 0 \/ old[k] # 0 \/ \E view \in Views : view[k] # 0
  PROVE  k \in Lasting
BY ViewRow DEF GInv, Lasting

LEMMA WordsAreNoTopics ==
  /\ \A k \in Keys : Kind[k] \in {"VOCAB", "GRAMMAR"} => k \notin Topics
  /\ \A j : Sought(j) \subseteq Keys \ Topics
BY DEF Topics, OfKind, Sought

\* A step of a load that leaves the job, but for what it must find, and takes no word away.
LEMMA LoadLasts ==
  ASSUME GInv, RInv', UNCHANGED learner, Lasting \subseteq Lasting',
         \A k \in Keys \ Topics : old'[k] # 0 => table'[k] # 0,
         load'.at = "put" => Range(load'.todo) \subseteq Built(load'.release),
         job' = job \/ \E k : job' = [job EXCEPT !.base = @ \ {k}]
  PROVE  GInv'
<1>1. job \in Jobs
  BY JobFacts DEF GInv, RInv
<1>2. /\ job'.base \subseteq job.base /\ job'.at = job.at /\ job'.task = job.task
      /\ job'.seen = job.seen /\ job'.kept = job.kept /\ job'.got = job.got
      /\ job'.chosen = job.chosen
  BY <1>1 DEF Jobs
<1>3. JobsLast'
  BY <1>2 DEF GInv, JobsLast, SeenKeys
<1> QED BY <1>3 DEF GInv, learner

LEMMA LastsLoads ==
  ASSUME GInv, RInv',
         \/ \E r \in Releases, kind \in {"all", "grammar", "topics", "vocab"} : BeginLoad(r, kind)
         \/ PutRow \/ EndPuts \/ ScanPage \/ DeleteStale \/ EndDeletes \/ Publish \/ StopLoad
         \/ SettleRows
  PROVE  GInv'
<1>1. TInv /\ load \in Loads
  BY LoadFacts DEF GInv, RInv
<1>2. ASSUME NEW r \in Releases, NEW kind \in {"all", "grammar", "topics", "vocab"},
             BeginLoad(r, kind)
      PROVE  GInv'
  <2> DEFINE todo == Records(r, kind)
  <2>1. Range(todo) \subseteq Built(r)
    BY RecordsListed
  <2>2. load' = [IdleLoad EXCEPT !.release = r, !.kind = kind, !.at = "put", !.todo = todo]
    BY <1>2 DEF BeginLoad
  <2> HIDE DEF todo
  <2>3. load'.todo = todo /\ load'.release = r
    BY <2>2 DEF IdleLoad
  <2>4. UNCHANGED <<table, old, job, learner>>
    BY <1>2 DEF BeginLoad, rows
  <2> QED BY <2>1, <2>3, <2>4, LoadLasts DEF GInv, Lasting
<1>3. CASE PutRow
  <2>1. PICK i \in DOMAIN load.todo :
          /\ Write(load.todo[i], Version[load.release][load.todo[i]])
          /\ load' = [load EXCEPT !.todo = RemoveAt(@, i)]
    BY <1>3 DEF PutRow
  <2> DEFINE k == load.todo[i]
             todo == RemoveAt(load.todo, i)
  <2>2. load.release \in Releases /\ load.todo \in Seq(Keys) /\ load.at = "put" /\ UNCHANGED learner
    BY <1>1, <1>3, LoadFacts DEF PutRow
  <2>3. k \in Keys /\ k \in Range(load.todo)
    BY <2>2 DEF Range
  <2>4. Range(todo) \subseteq Range(load.todo)
    BY <2>2, EntryTaken
  <2>5. k \in Built(load.release) /\ Version[load.release][k] # 0
    BY <2>2, <2>3 DEF GInv, Built
  <2>6. Version[load.release][k] \in Versions(k)
    BY <2>2, <2>3, ReleaseVersion
  <2>7. table' = [table EXCEPT ![k] = Version[load.release][k]] /\ old' = old
    BY <1>1, <2>1, <2>3, <2>6, WriteType
  <2>8. job' = job
    BY <2>1, <2>5 DEF Write
  <2>9. load'.todo = todo /\ load'.release = load.release
    BY <1>1, <2>1 DEF Loads
  <2> HIDE DEF k, todo
  <2>10. \A x \in Keys : table'[x] = IF x = k THEN Version[load.release][k] ELSE table[x]
    BY <1>1, <2>3, <2>7 DEF TInv, TypeOK
  <2>11. Lasting \subseteq Lasting' /\ \A x \in Keys \ Topics : old'[x] # 0 => table'[x] # 0
    BY <2>5, <2>7, <2>10 DEF GInv, Lasting
  <2>12. Range(load'.todo) \subseteq Built(load'.release)
    BY <2>2, <2>4, <2>9 DEF GInv
  <2> QED BY <2>2, <2>8, <2>11, <2>12, LoadLasts
<1>4. CASE DeleteStale
  <2>1. PICK k \in load.stale : Write(k, 0) /\ load' = [load EXCEPT !.stale = @ \ {k}]
    BY <1>4 DEF DeleteStale
  <2>2. k \in Topics /\ k \in Keys /\ UNCHANGED learner /\ 0 \in Versions(k)
    BY <1>1, <1>4, LoadFacts DEF DeleteStale, Topics, OfKind, Versions
  <2>3. table' = [table EXCEPT ![k] = 0] /\ old' = old
    BY <1>1, <2>1, <2>2, WriteType
  <2>4. job' = [job EXCEPT !.base = @ \ {k}]
    BY <2>1 DEF Write
  <2>5. load'.at = "delete"
    BY <1>1, <1>4, <2>1 DEF DeleteStale, Loads
  <2>6. \A x \in Keys \ Topics : table'[x] = table[x]
    BY <1>1, <2>2, <2>3 DEF TInv, TypeOK
  <2>7. Lasting \subseteq Lasting' /\ \A x \in Keys \ Topics : old'[x] # 0 => table'[x] # 0
    BY <2>3, <2>6 DEF GInv, Lasting
  <2> QED BY <2>2, <2>4, <2>5, <2>7, LoadLasts
<1>5. CASE EndPuts \/ ScanPage \/ EndDeletes \/ Publish \/ StopLoad
  <2>1. UNCHANGED <<table, old, learner, job>>
    BY <1>5 DEF EndPuts, ScanPage, EndDeletes, Publish, StopLoad, rows
  <2>2. load'.at # "put"
    BY <1>1, <1>5 DEF EndPuts, AfterTopics, ScanPage, EndDeletes, Publish, StopLoad, IdleLoad, Loads
  <2> QED BY <2>1, <2>2, LoadLasts DEF GInv, Lasting
<1>6. CASE SettleRows
  <2>1. UNCHANGED <<table, load, learner, job>> /\ old' = table
    BY <1>6 DEF SettleRows
  <2> QED BY <2>1, LoadLasts DEF GInv, Lasting
<1> QED BY <1>2, <1>3, <1>4, <1>5, <1>6

\* Jobs as they are made from others.
LEMMA LastsOpenQuery ==
  ASSUME UNCHANGED rows, NEW j \in Jobs, NEW at \in AtQuery, job' = OpenQuery(j, at),
         Range(j.kept) \subseteq Lasting, j.got \subseteq Lasting
  PROVE  JobsLast'
<1>1. job'.at = at /\ job'.seen = <<>> /\ job'.kept = j.kept /\ job'.got = j.got
  BY OpenQueryMakes
<1>2. Lasting' = Lasting
  BY DEF Lasting, rows
<1>3. SeenKeys' = {}
  BY <1>1 DEF SeenKeys
<1> QED BY <1>1, <1>2, <1>3 DEF JobsLast, AtQuery

LEMMA LastsOpenBatch ==
  ASSUME UNCHANGED rows, NEW j \in Jobs, NEW ids \in SUBSET Keys, job' = OpenBatch(j, ids),
         Range(j.kept) \subseteq Lasting
  PROVE  JobsLast'
<1>1. job'.at = "batch" /\ job'.kept = j.kept /\ job'.got = {}
  BY OpenBatchMakes
<1>2. Lasting' = Lasting
  BY DEF Lasting, rows
<1> QED BY <1>1, <1>2 DEF JobsLast

LEMMA LastsGo ==
  ASSUME GInv, UNCHANGED rows, NEW ids \in Seq(Keys), NEW limit \in Nat,
         job' = OpenBatch(Choose(job, ids, limit), Range(Choose(job, ids, limit).chosen))
  PROVE  JobsLast'
<1> DEFINE j == Choose(job, ids, limit)
<1>1. job \in Jobs
  BY JobFacts DEF GInv, RInv
<1>2. j \in Jobs /\ Range(j.chosen) \in SUBSET Keys /\ j.kept = job.kept
  BY <1>1, ChooseMakes
<1>3. job' = OpenBatch(j, Range(j.chosen))
  OBVIOUS
<1> HIDE DEF j
<1> QED BY <1>2, <1>3, LastsOpenBatch DEF GInv, JobsLast

LEMMA LastsKeep ==
  ASSUME UNCHANGED rows, NEW j \in Jobs, NEW kept \in Seq(Keys),
         Range(kept) \subseteq Lasting, j.got \subseteq Lasting,
         job' = OpenQuery([j EXCEPT !.kept = kept], "grammar")
  PROVE  JobsLast'
<1> DEFINE o == [j EXCEPT !.kept = kept]
<1>1. o \in Jobs /\ o.kept = kept /\ o.got = j.got /\ job' = OpenQuery(o, "grammar")
  BY KeepMakes
<1> HIDE DEF o
<1> QED BY <1>1, LastsOpenQuery DEF AtQuery

LEMMA NothingInNone == Range(<<>>) = {}
<1> DEFINE s == <<>>
<1>1. s \in Seq({})
  OBVIOUS
<1> HIDE DEF s
<1>2. Range(s) \in SUBSET {}
  BY <1>1, RangeOfSeq
<1>3. Range(s) = {}
  BY <1>2
<1> QED BY <1>3 DEF s

LEMMA LastsIdle ==
  ASSUME \/ job' = IdleJob
         \/ \E at \in {"refused", "failed"} :
              /\ job' = [IdleJob EXCEPT !.task = job.task, !.at = at]
              /\ at = "refused" => job.task.type # "import"
  PROVE  JobsLast'
<1>1. CASE job' = IdleJob
  <2>1. job'.kept = <<>> /\ job'.got = {} /\ job'.at = "idle"
    BY <1>1 DEF IdleJob
  <2> QED BY <2>1, NothingInNone DEF JobsLast
<1>2. ASSUME NEW at \in {"refused", "failed"},
             job' = [IdleJob EXCEPT !.task = job.task, !.at = at],
             at = "refused" => job.task.type # "import"
      PROVE  JobsLast'
  <2>1. job'.kept = <<>> /\ job'.got = {} /\ job'.at = at /\ job'.task = job.task
    BY <1>2 DEF IdleJob
  <2> QED BY <1>2, <2>1, NothingInNone DEF JobsLast
<1> QED BY <1>1, <1>2

LEMMA LastsPage ==
  ASSUME GInv, ReadPage PROVE GInv'
<1>1. TInv /\ RInv /\ RInv' /\ job \in Jobs /\ Shape(job) /\ job.at \in AtQuery
  BY JobFacts, ReadsPage DEF GInv, RInv, ReadPage, AtQuery
<1> DEFINE q == QueryOf(job)
           m == Len(job.seen)
<1>2. PICK S, page, added :
        /\ PageAdds(q, S, page, added)
        /\ job'.at = job.at /\ job'.task = job.task
        /\ job'.kept = job.kept /\ job'.got = job.got
        /\ m \in Nat /\ Len(added) \in Nat /\ DOMAIN job.seen = 1 .. m
        /\ DOMAIN job'.seen = 1 .. m + Len(added)
        /\ \A i \in 1 .. m : job'.seen[i] = job.seen[i]
        /\ \A i \in 1 .. Len(added) : job'.seen[m + i] = added[i]
  BY <1>1, PageTaken
<1>3. q.kind = KindOf[job.at]
  BY <1>1, QueryKind
<1>4. UNCHANGED <<rows, load, known, offered>> /\ Lasting' = Lasting
  BY DEF ReadPage, learner, Lasting, rows
<1> HIDE DEF q
<1>5. ASSUME job.at \in {"vocab", "grammar"}, NEW i \in 1 .. Len(added)
      PROVE  added[i].key \in Lasting
  <2>1. added \in Seq(RowsIn(S)) /\ S \subseteq Keys
    BY <1>2 DEF PageAdds
  <2>2. added[i] \in RowsIn(S)
    BY <2>1
  <2>3. added[i].key \in S /\ added[i].key \in Keys /\ added[i].version # 0
    BY <2>1, <2>2 DEF RowsIn
  <2>4. Kind[added[i].key] \in {"VOCAB", "GRAMMAR"}
    BY <1>2, <1>3, <1>5, <2>3 DEF PageAdds, InRange, KindOf
  <2>5. added[i].version \in {table[added[i].key], old[added[i].key]}
    BY <1>2 DEF PageAdds
  <2> QED BY <2>3, <2>4, <2>5, WordsAreNoTopics, SeenLasts
<1>6. ASSUME job.at \in {"vocab", "grammar"}, NEW i \in DOMAIN job'.seen
      PROVE  job'.seen[i].key \in Lasting
  <2>1. CASE i \in 1 .. m
    BY <1>1, <1>2, <1>6, <2>1 DEF GInv, JobsLast, SeenKeys
  <2>2. CASE i \notin 1 .. m
    <3>1. m \in Nat /\ Len(added) \in Nat /\ i \in 1 .. m + Len(added)
      BY <1>2
    <3> HIDE DEF m
    <3>2. i - m \in 1 .. Len(added) /\ m + (i - m) = i
      BY <2>2, <3>1
    <3>3. job'.seen[i] = added[i - m]
      BY <1>2, <3>2
    <3> QED BY <1>5, <1>6, <3>2, <3>3
  <2> QED BY <2>1, <2>2
<1>7. JobsLast'
  BY <1>1, <1>2, <1>4, <1>6 DEF GInv, JobsLast, SeenKeys, AtQuery
<1> QED BY <1>1, <1>4, <1>7, LastsKept DEF GInv

LEMMA LastsBatch ==
  ASSUME GInv, ReadBatch PROVE GInv'
<1>1. TInv /\ RInv /\ RInv' /\ job \in Jobs /\ job.at = "batch"
  BY JobFacts, ReadsBatch DEF GInv, RInv, ReadBatch
<1>2. PICK answered \in SUBSET job.pending, view \in Views :
        job' = [job EXCEPT !.pending = @ \ answered,
                           !.got = @ \union {k \in answered \intersect Sought(job) : view[k] # 0},
                           !.tries = IF job.task.type = "import" THEN 0 ELSE @ + 1]
  BY DEF ReadBatch
<1> DEFINE found == {k \in answered \intersect Sought(job) : view[k] # 0}
<1>3. found \subseteq Lasting
  BY WordsAreNoTopics, SeenLasts
<1>4. /\ job'.at = "batch" /\ job'.kept = job.kept /\ job'.got = job.got \union found
  BY <1>1, <1>2 DEF Jobs
<1>5. UNCHANGED <<rows, load, known, offered>> /\ Lasting' = Lasting
  BY DEF ReadBatch, learner, Lasting, rows
<1> HIDE DEF found
<1>6. JobsLast'
  BY <1>3, <1>4, <1>5 DEF GInv, JobsLast
<1> QED BY <1>1, <1>5, <1>6, LastsKept DEF GInv

LEMMA LastsBegun ==
  ASSUME GInv, \/ \E task \in budget.tasks : Browse(task) \/ ListTopics(task) \/ Prompt(task)
                                              \/ BuildStage(task)
               \/ \E ids \in SUBSET offered : ImportLesson(ids)
               \/ LookUp
  PROVE  GInv'
<1>1. TInv /\ RInv'
  BY ReadsBegun DEF GInv, RInv
<1>2. UNCHANGED <<rows, load, known, offered>>
  BY <1>1, TypeBegun DEF learner
<1>3. PICK j : BegunAs(j)
  BY <1>1, BegunMakes
<1>4. j \in Jobs /\ j.kept = <<>> /\ j.got = {}
  BY <1>3 DEF BegunAs, Fresh
<1>5. Range(j.kept) \subseteq Lasting /\ j.got \subseteq Lasting
  BY <1>4, NothingInNone
<1>6. CASE job' = [j EXCEPT !.at = "search"]
  <2>1. job'.at = "search" /\ job'.kept = <<>> /\ job'.got = {}
    BY <1>4, <1>6 DEF Jobs
  <2> QED BY <1>1, <1>2, <2>1, NothingInNone, LastsKept DEF GInv, JobsLast
<1>7. JobsLast'
  BY <1>2, <1>3, <1>4, <1>5, <1>6, NothingInNone, LastsOpenQuery, LastsOpenBatch
  DEF BegunAs, GInv
<1> QED BY <1>1, <1>2, <1>7, LastsKept DEF GInv

LEMMA LastsUsed ==
  ASSUME GInv, \/ Search \/ UseTopics \/ UseVocab \/ UseGrammar \/ UseBatch \/ GiveUp \/ Offer
               \/ SettleLearner \/ DeleteLessons
  PROVE  GInv'
<1>1. /\ TInv /\ RInv /\ RInv' /\ job \in Jobs
      /\ UNCHANGED <<rows, load>> /\ Lasting' = Lasting
  <2>1. TInv /\ RInv /\ RInv' /\ job \in Jobs
    BY JobFacts, ReadsUsed DEF GInv, RInv
  <2>2. UNCHANGED <<rows, load>>
    BY <2>1, JobsLeaveRows
  <2> QED BY <2>1, <2>2 DEF Lasting, rows
<1>2. /\ Range(job.kept) \subseteq Lasting /\ job.got \subseteq Lasting
      /\ offered \subseteq Lasting /\ known \subseteq Lasting
  BY DEF GInv, JobsLast
<1>3. ASSUME JobsLast', UNCHANGED <<known, offered>> PROVE GInv'
  BY <1>1, <1>2, <1>3, LastsKept
<1>4. CASE Search
  <2>1. JobsLast'
    BY <1>1, <1>2, <1>4, SearchUsed, LastsGo, LastsOpenQuery, Limits DEF AtQuery
  <2>2. UNCHANGED <<known, offered>>
    BY <1>4 DEF Search, Go, learner
  <2> QED BY <1>3, <2>1, <2>2
<1>5. CASE UseTopics
  <2>1. job.at = "topics"
    BY <1>5, TopicsUsed
  <2>2. \A t \in Range(TopicsRead) : t.words \in Seq(Keys)
    BY <1>1, <2>1, AskedType
  <2>3. job.task.type = "prompt" => TopicWords(MatchTopics(job.task.tokens, TopicsRead)) \in Seq(Keys)
    BY <1>1, <2>1, MatchedType
  <2>4. ASSUME job.task.type = "prompt" /\ \E t \in Range(TopicsRead) :
                 job' = OpenBatch(Choose(job, t.words, VocabSlice),
                                  Range(Choose(job, t.words, VocabSlice).chosen))
        PROVE  JobsLast'
    BY <1>1, <2>2, <2>4, Limits, LastsGo
  <2>5. ASSUME job.task.type = "prompt" /\ job' = OpenQuery(job, "vocab")
        PROVE  JobsLast'
    BY <1>1, <1>2, <2>5, LastsOpenQuery DEF AtQuery
  <2>6. ASSUME /\ job.task.type = "prompt"
               /\ LET words == TopicWords(MatchTopics(job.task.tokens, TopicsRead))
                  IN  job' = OpenBatch(Choose(job, words, MatchedPool),
                                       Range(Choose(job, words, MatchedPool).chosen))
        PROVE  JobsLast'
    BY <1>1, <2>3, <2>6, Limits, LastsGo
  <2>7. ASSUME job' = [job EXCEPT !.at = "listed", !.listed = RankTopics(TopicsRead, job.covered)]
        PROVE  JobsLast'
    <3>1. job'.at = "listed" /\ job'.kept = job.kept /\ job'.got = job.got
      BY <1>1, <2>7 DEF Jobs
    <3> QED BY <1>1, <1>2, <3>1 DEF JobsLast
  <2>8. ASSUME \/ job' = IdleJob
               \/ /\ job.task.type = "prompt"
                  /\ job' = [IdleJob EXCEPT !.task = job.task, !.at = "refused"]
        PROVE  JobsLast'
    BY <2>8, LastsIdle
  <2>9. JobsLast'
    BY <1>5, <2>4, <2>5, <2>6, <2>7, <2>8, TopicsUsed
  <2>10. UNCHANGED <<known, offered>>
    BY <1>5 DEF UseTopics, Go, GoRead, learner
  <2> QED BY <1>3, <2>9, <2>10
<1>6. CASE UseVocab
  <2>1. KeysRead \in Seq(Keys) /\ Range(KeysRead) \subseteq Lasting
    BY <1>1, <1>6, KeysReadType, VocabUsed DEF GInv, JobsLast
  <2>2. ASSUME NEW limit \in {VocabSlice, FreePool},
               LET choice == Choose(job, KeysRead, limit)
               IN  job' = OpenQuery([choice EXCEPT !.kept = choice.chosen], "grammar")
        PROVE  JobsLast'
    <3> DEFINE choice == Choose(job, KeysRead, limit)
    <3>1. /\ choice \in Jobs /\ choice.chosen \in Seq(Keys) /\ choice.got = job.got
          /\ Range(choice.chosen) \subseteq Lasting
      BY <1>1, <2>1, Limits, ChooseMakes
    <3>2. job' = OpenQuery([choice EXCEPT !.kept = choice.chosen], "grammar")
      BY <2>2
    <3> HIDE DEF choice
    <3> QED BY <1>1, <1>2, <3>1, <3>2, LastsKeep
  <2>3. JobsLast'
    BY <1>1, <1>2, <1>6, <2>1, <2>2, VocabUsed, LastsKeep, LastsIdle
  <2>4. UNCHANGED <<known, offered>>
    BY <1>6 DEF UseVocab, Go, learner
  <2> QED BY <1>3, <2>3, <2>4
<1>7. CASE UseGrammar
  <2>1. KeysRead \in Seq(Keys) /\ Range(KeysRead) \subseteq Lasting
    BY <1>1, <1>7, KeysReadType, GrammarUsed DEF GInv, JobsLast
  <2>2. ASSUME job' = [Choose(job, KeysRead, GrammarSlice) EXCEPT !.at = "offer"]
        PROVE  JobsLast'
    <3> DEFINE choice == Choose(job, KeysRead, GrammarSlice)
    <3>1. /\ choice \in Jobs /\ choice.got = job.got /\ choice.kept = job.kept
          /\ Range(choice.chosen) \subseteq Lasting
      BY <1>1, <2>1, Limits, ChooseMakes
    <3>2. job' = [choice EXCEPT !.at = "offer"]
      BY <2>2
    <3> HIDE DEF choice
    <3>3. /\ job'.at = "offer" /\ job'.got = job.got /\ job'.kept = job.kept
          /\ Range(job'.chosen) \subseteq Lasting
      BY <3>1, <3>2 DEF Jobs
    <3> QED BY <1>1, <1>2, <3>3 DEF JobsLast
  <2>3. ASSUME job.task.type = "stage", NEW at \in {"refused", "staged"}, job' = [job EXCEPT !.at = at]
        PROVE  JobsLast'
    <3>1. /\ job'.at = at /\ job'.got = job.got /\ job'.kept = job.kept /\ job'.task = job.task
      BY <1>1, <2>3 DEF Jobs
    <3> QED BY <1>1, <1>2, <2>3, <3>1 DEF JobsLast
  <2>4. JobsLast'
    BY <1>7, <2>2, <2>3, GrammarUsed, LastsIdle
  <2>5. UNCHANGED <<known, offered>>
    BY <1>7 DEF UseGrammar, Go, learner
  <2> QED BY <1>3, <2>4, <2>5
<1>8. CASE UseBatch
  <2>1. Among(job.chosen, job.got) \in Seq(Keys) /\ Range(Among(job.chosen, job.got)) \subseteq job.got
    <3>1. job.chosen \in Seq(Keys)
      BY <1>1 DEF Jobs
    <3> QED BY <3>1, AmongRange
  <2>2. offered' = offered /\ known' \subseteq Lasting
    BY <1>2, <1>8, BatchUsed DEF UseBatch, Go, learner
  <2>3. ASSUME job' = OpenQuery([job EXCEPT !.kept = Among(job.chosen, job.got)], "grammar")
        PROVE  JobsLast'
    BY <1>1, <1>2, <2>1, <2>3, LastsKeep
\* A lesson that is refused cites an id that is missing, and what it must find was found.
  <2>4. ASSUME /\ job.task.type = "import" /\ ~ (job.task.ids \subseteq job.got)
               /\ job' = [job EXCEPT !.at = "refused"]
        PROVE  JobsLast'
    <3>1. /\ job'.at = "refused" /\ job'.got = job.got /\ job'.kept = job.kept
          /\ job'.task = job.task /\ job'.base = job.base
      BY <1>1, <2>4 DEF Jobs
    <3>2. job.base \subseteq job.got
      BY <1>1, <1>8, BatchUsed DEF RInv, BatchReads
    <3> QED BY <1>1, <1>2, <2>4, <3>1, <3>2 DEF JobsLast
  <2>5. JobsLast'
    BY <1>8, <2>3, <2>4, BatchUsed, LastsIdle
  <2> QED BY <1>1, <1>2, <2>2, <2>5, LastsKept
<1>9. CASE GiveUp \/ SettleLearner \/ DeleteLessons
  <2>1. JobsLast'
    BY <1>9, LastsIdle DEF GiveUp, SettleLearner, DeleteLessons
  <2>2. known' \subseteq known /\ offered' = offered
    BY <1>9 DEF GiveUp, SettleLearner, DeleteLessons, learner
  <2> QED BY <1>1, <1>2, <2>1, <2>2, LastsKept
<1>10. CASE Offer
  <2>1. JobsLast'
    BY <1>10, LastsIdle DEF Offer
  <2>2. known' = known /\ offered' = offered \union Range(job.kept) \union Range(job.chosen)
    BY <1>10 DEF Offer
  <2>3. Range(job.chosen) \subseteq Lasting
    BY <1>10 DEF Offer, GInv, JobsLast
  <2> QED BY <1>1, <1>2, <2>1, <2>2, <2>3, LastsKept
<1> QED BY <1>4, <1>5, <1>6, <1>7, <1>8, <1>9, <1>10

LEMMA LastsStep == GInv /\ [Next]_vars => GInv'
<1> SUFFICES ASSUME GInv, [Next]_vars PROVE GInv'
  OBVIOUS
<1>1. RInv /\ RInv'
  BY ReadsStep DEF GInv
<1>2. CASE \/ \E r \in Releases, kind \in {"all", "grammar", "topics", "vocab"} : BeginLoad(r, kind)
           \/ PutRow \/ EndPuts \/ ScanPage \/ DeleteStale \/ EndDeletes \/ Publish \/ StopLoad
           \/ SettleRows
  BY <1>1, <1>2, LastsLoads
<1>3. CASE ColdStart \/ UNCHANGED vars
  <2>1. UNCHANGED <<table, old, load, known, offered, job>>
    BY <1>3 DEF ColdStart, vars, rows, learner
  <2>2. JobsLast'
    BY <2>1 DEF GInv, JobsLast, SeenKeys, Lasting
  <2> QED BY <1>1, <2>1, <2>2, LastsKept DEF GInv, rows
<1>4. CASE \/ \E task \in budget.tasks : Browse(task) \/ ListTopics(task) \/ Prompt(task)
                                          \/ BuildStage(task)
           \/ \E ids \in SUBSET offered : ImportLesson(ids)
           \/ LookUp
  BY <1>4, LastsBegun
<1>5. CASE \/ ReadPage \/ ReadBatch \/ Search \/ UseTopics \/ UseVocab \/ UseGrammar \/ UseBatch
           \/ GiveUp \/ Offer \/ SettleLearner \/ DeleteLessons
  BY <1>5, LastsPage, LastsBatch, LastsUsed
<1> QED BY <1>2, <1>3, <1>4, <1>5 DEF Next

LEMMA LastsInit == Init => GInv
<1> SUFFICES ASSUME Init PROVE GInv
  OBVIOUS
<1>1. job = IdleJob /\ load.at = "idle" /\ old = table /\ offered = {} /\ known = {}
  BY DEF Init, IdleLoad
<1>2. job.at = "idle" /\ job.kept = <<>> /\ job.got = {}
  BY <1>1 DEF IdleJob
<1>3. JobsLast
  BY <1>2, NothingInNone DEF JobsLast
<1> QED BY <1>1, <1>3, ReadsInit DEF GInv

LEMMA OffersLast == GInv => OfferedIdsCanBeReferenced
BY DEF GInv, JobsLast, Lasting, OfferedIdsCanBeReferenced

\* The words and the grammar that a prompt has offered, and those of the glossary, stay in
\* the table whatever is loaded later, and a lesson that cites them is refused only while
\* the row of one of them is being put (prune_topics, checkReferences, missing).
THEOREM OffersCanBeReferenced == Spec => []OfferedIdsCanBeReferenced
BY LastsInit, LastsStep, OffersLast, PTL DEF Spec

-----------------------------------------------------------------------------
(***************************************************************************)
(* What is chosen                                                          *)
(***************************************************************************)
\* What a job has chosen and listed stays as it was chosen.
LEMMA ChoiceKept ==
  ASSUME NInv, TInv', known \subseteq known', learned' = learned,
         job'.covered = job.covered, job'.task = job.task, job'.chosen = job.chosen,
         job'.from = job.from, job'.limit = job.limit,
         \/ job'.at = job.at /\ job'.listed = job.listed
         \/ {job.at, job'.at} \intersect {"listed", "refused", "failed"} = {}
         \/ job.task.type \notin {"prompt", "topics"} /\ job'.at # "listed"
  PROVE  NInv'
<1>1. Informed'
  BY DEF NInv, Informed
<1>2. ChoiceHolds'
  BY DEF NInv, ChoiceHolds
<1>3. ListHolds'
  BY DEF NInv, ListHolds
<1> QED BY <1>1, <1>2, <1>3 DEF NInv

\* A job of a prompt chooses, by what it knows of the learner.
LEMMA ChoiceMade ==
  ASSUME NInv, TInv', UNCHANGED <<known, learned>>, NEW ids \in Seq(Keys), NEW limit \in Nat,
         job.task.type = "prompt", job.at \notin {"listed", "refused", "failed"},
         job'.covered = job.covered, job'.task = job.task, job'.from = ids, job'.limit = limit,
         job'.chosen = UncoveredFirst(ids, job.covered, limit),
         job'.at \notin {"listed", "refused", "failed"}
  PROVE  NInv'
<1> DEFINE chosen == UncoveredFirst(ids, job.covered, limit)
<1>1. /\ Len(chosen) = Len(FirstOf(ids, limit))
      /\ Range(chosen) \intersect job.covered # {} => Range(ids) \ job.covered \subseteq Range(chosen)
  BY UncoveredFirstChooses
<1>2. job'.chosen = chosen
  OBVIOUS
<1> HIDE DEF chosen
<1>3. ChoiceHolds'
  BY <1>1, <1>2 DEF ChoiceHolds
<1>4. Informed' /\ ListHolds'
  BY DEF NInv, Informed, ListHolds
<1> QED BY <1>3, <1>4 DEF NInv

\* A job that has chosen nothing.
LEMMA NoneOfNone == Len(FirstOf(<<>>, 0)) = 0
<1> DEFINE s == <<>>
<1>1. s \in Seq(Keys) /\ Len(s) = 0 /\ 0 \in Nat
  OBVIOUS
<1> HIDE DEF s
<1>2. Len(FirstOf(s, 0)) = 0
  BY <1>1, FirstOfSeq
<1> QED BY <1>2 DEF s

LEMMA NoChoice ==
  ASSUME TInv', job'.covered \subseteq known', job'.chosen = <<>>, job'.from = <<>>, job'.limit = 0,
         job'.at # "listed",
         job'.task.type \in {"prompt", "topics"} /\ job'.at \notin {"refused", "failed"} =>
           learned' \subseteq job'.covered
  PROVE  NInv'
<1> DEFINE s == <<>>
<1>1. s \in Seq(Keys) /\ Len(s) = 0
  OBVIOUS
<1>2. Range(s) = {}
  BY NothingInNone
<1>3. job'.chosen = s /\ job'.from = s
  OBVIOUS
<1>4. Informed' /\ ListHolds'
  BY DEF Informed, ListHolds
<1> HIDE DEF s
<1>5. Len(FirstOf(s, 0)) = 0
  BY NoneOfNone DEF s
<1>6. ChoiceHolds'
  BY <1>1, <1>2, <1>3, <1>5 DEF ChoiceHolds
<1> QED BY <1>4, <1>6 DEF NInv

LEMMA ChoiceEnds ==
  ASSUME TInv', job' = IdleJob \/ \E at \in {"refused", "failed"} :
                                    job' = [IdleJob EXCEPT !.task = job.task, !.at = at]
  PROVE  NInv'
<1>1. CASE job' = IdleJob
  <2>1. /\ job'.covered = {} /\ job'.chosen = <<>> /\ job'.from = <<>> /\ job'.limit = 0
        /\ job'.at = "idle" /\ job'.task.type = "none"
    BY <1>1 DEF IdleJob
  <2> QED BY <2>1, NoChoice
<1>2. ASSUME NEW at \in {"refused", "failed"}, job' = [IdleJob EXCEPT !.task = job.task, !.at = at]
      PROVE  NInv'
  <2>1. /\ job'.covered = {} /\ job'.chosen = <<>> /\ job'.from = <<>> /\ job'.limit = 0
        /\ job'.at = at
    BY <1>2 DEF IdleJob
  <2> QED BY <2>1, NoChoice
<1> QED BY <1>1, <1>2

LEMMA ChoiceGo ==
  ASSUME NInv, TInv', UNCHANGED <<known, learned>>, NEW ids \in Seq(Keys), NEW limit \in Nat,
         job.task.type = "prompt", job.at \notin {"listed", "refused", "failed"},
         job' = OpenBatch(Choose(job, ids, limit), Range(Choose(job, ids, limit).chosen))
  PROVE  NInv'
<1> DEFINE j == Choose(job, ids, limit)
<1>1. job \in Jobs
  BY JobFacts DEF NInv
<1>2. /\ j \in Jobs /\ Range(j.chosen) \in SUBSET Keys /\ j.task = job.task /\ j.covered = job.covered
      /\ j.from = ids /\ j.limit = limit /\ j.chosen = UncoveredFirst(ids, job.covered, limit)
  <2>1. ids \in Seq(Keys) /\ limit \in Nat
    OBVIOUS
  <2> QED BY ONLY <1>1, <2>1, ChooseMakes DEF j
<1>3. job' = OpenBatch(j, Range(j.chosen))
  OBVIOUS
<1> HIDE DEF j
<1>4. /\ job'.at = "batch" /\ job'.task = job.task /\ job'.covered = job.covered
      /\ job'.from = ids /\ job'.limit = limit
      /\ job'.chosen = UncoveredFirst(ids, job.covered, limit)
  BY <1>2, <1>3, OpenBatchMakes
<1> QED BY <1>4, ChoiceMade

LEMMA ChoiceKeep ==
  ASSUME NInv, TInv', UNCHANGED <<known, learned>>, NEW kept \in Seq(Keys),
         job.at \notin {"listed", "refused", "failed"},
         job' = OpenQuery([job EXCEPT !.kept = kept], "grammar")
  PROVE  NInv'
<1> DEFINE o == [job EXCEPT !.kept = kept]
<1>1. job \in Jobs
  BY JobFacts DEF NInv
<1>2. /\ o \in Jobs /\ o.task = job.task /\ o.covered = job.covered
      /\ o.from = job.from /\ o.chosen = job.chosen /\ o.limit = job.limit
  BY <1>1, KeepMakes
<1>3. job' = OpenQuery(o, "grammar")
  OBVIOUS
<1> HIDE DEF o
<1>4. /\ job'.at = "grammar" /\ job'.task = job.task /\ job'.covered = job.covered
      /\ job'.from = job.from /\ job'.chosen = job.chosen /\ job'.limit = job.limit
  BY <1>2, <1>3, OpenQueryMakes DEF AtQuery
<1> QED BY <1>4, ChoiceKept

LEMMA ChoiceOpen ==
  ASSUME NInv, TInv', UNCHANGED <<known, learned>>, NEW at \in AtQuery,
         job.at \notin {"listed", "refused", "failed"}, job' = OpenQuery(job, at)
  PROVE  NInv'
<1>1. job \in Jobs
  BY JobFacts DEF NInv
<1>2. /\ job'.at = at /\ job'.task = job.task /\ job'.covered = job.covered
      /\ job'.from = job.from /\ job'.chosen = job.chosen /\ job'.limit = job.limit
  BY <1>1, OpenQueryMakes
<1> QED BY <1>2, ChoiceKept DEF AtQuery

\* The first topic that is listed is the least covered.
LEMMA ListMade ==
  ASSUME NInv, TInv', UNCHANGED <<known, learned>>, job.at = "topics", job.task.type = "topics",
         job' = [job EXCEPT !.at = "listed", !.listed = RankTopics(TopicsRead, job.covered)]
  PROVE  NInv'
<1> DEFINE ranked == RankTopics(TopicsRead, job.covered)
<1>1. job \in Jobs /\ TInv
  BY JobFacts DEF NInv
<1>2. /\ TopicsRead \in Seq(TopicRows)
      /\ \A i \in 1 .. Len(TopicsRead) : TopicsRead[i].words # <<>>
      /\ \A t \in TopicRows : t.words \in Seq(Keys)
  BY <1>1, TopicsReadType DEF TopicRows
<1>3. /\ ranked \in Seq(TopicRows) /\ Len(ranked) = Len(TopicsRead)
      /\ \A i \in 1 .. Len(ranked) : \E j \in 1 .. Len(TopicsRead) : ranked[i] = TopicsRead[j]
      /\ ranked # <<>> /\ ranked[1].words # <<>> /\ Range(ranked[1].words) \subseteq job.covered =>
           \A i \in 1 .. Len(ranked) : Range(ranked[i].words) \subseteq job.covered
  BY <1>2, RankedTopics, SMTT(30)
<1>4. /\ job'.at = "listed" /\ job'.listed = ranked /\ job'.task = job.task
      /\ job'.covered = job.covered
      /\ job'.from = job.from /\ job'.chosen = job.chosen /\ job'.limit = job.limit
  BY <1>1 DEF Jobs
<1> HIDE DEF ranked
<1>5. ranked # <<>> => ranked[1].words # <<>> /\ DOMAIN ranked = 1 .. Len(ranked)
  <2> SUFFICES ASSUME ranked # <<>> PROVE ranked[1].words # <<>> /\ DOMAIN ranked = 1 .. Len(ranked)
    OBVIOUS
  <2>1. 1 \in 1 .. Len(ranked) /\ DOMAIN ranked = 1 .. Len(ranked)
    BY <1>3
  <2> QED BY <1>2, <1>3, <2>1
<1>6. ListHolds'
  BY <1>3, <1>4, <1>5 DEF ListHolds
<1>7. Informed' /\ ChoiceHolds'
  BY <1>4 DEF NInv, Informed, ChoiceHolds
<1> QED BY <1>6, <1>7 DEF NInv

LEMMA ChoiceBegun ==
  ASSUME NInv, \/ \E task \in budget.tasks : Browse(task) \/ ListTopics(task) \/ Prompt(task)
                                              \/ BuildStage(task)
               \/ \E ids \in SUBSET offered : ImportLesson(ids)
               \/ LookUp
  PROVE  NInv'
<1>1. TInv /\ TInv' /\ UNCHANGED <<known, learned>>
  BY TypeBegun DEF NInv, learner
<1>2. PICK j : BegunAs(j)
  BY <1>1, BegunMakes
<1>3. /\ j \in Jobs /\ j.from = <<>> /\ j.chosen = <<>> /\ j.limit = 0
      /\ j.covered \subseteq known
      /\ j.task.type \in {"prompt", "topics"} => learned \subseteq j.covered
  BY <1>2 DEF BegunAs, Fresh
<1>4. /\ job'.task = j.task /\ job'.covered = j.covered
      /\ job'.from = j.from /\ job'.chosen = j.chosen /\ job'.limit = j.limit
      /\ job'.at # "listed"
  <2>1. ASSUME NEW at \in AtQuery, job' = OpenQuery(j, at)
        PROVE  /\ job'.task = j.task /\ job'.covered = j.covered
               /\ job'.from = j.from /\ job'.chosen = j.chosen /\ job'.limit = j.limit
               /\ job'.at # "listed"
    BY <1>3, <2>1, OpenQueryMakes DEF AtQuery
  <2>2. ASSUME NEW ids \in SUBSET Keys, job' = OpenBatch(j, ids)
        PROVE  /\ job'.task = j.task /\ job'.covered = j.covered
               /\ job'.from = j.from /\ job'.chosen = j.chosen /\ job'.limit = j.limit
               /\ job'.at # "listed"
    BY <1>3, <2>2, OpenBatchMakes
  <2>3. ASSUME job' = [j EXCEPT !.at = "search"]
        PROVE  /\ job'.task = j.task /\ job'.covered = j.covered
               /\ job'.from = j.from /\ job'.chosen = j.chosen /\ job'.limit = j.limit
               /\ job'.at # "listed"
    BY <1>3, <2>3 DEF Jobs
  <2> QED BY <1>2, <2>1, <2>2, <2>3 DEF BegunAs
<1> QED BY <1>1, <1>3, <1>4, NoChoice

LEMMA ChoiceReads ==
  ASSUME NInv, ReadPage \/ ReadBatch PROVE NInv'
<1>1. TInv /\ TInv' /\ job \in Jobs
  BY JobFacts, TypeAnswers DEF NInv
<1>2. UNCHANGED <<known, learned>>
  BY DEF ReadPage, ReadBatch, learner
<1>3. CASE ReadPage
  <2>1. PICK S, page, added :
          /\ job'.at = job.at /\ job'.task = job.task
          /\ job'.covered = job.covered /\ job'.from = job.from /\ job'.chosen = job.chosen
          /\ job'.limit = job.limit
    BY <1>1, <1>3, PageTaken
  <2>2. {job.at, job'.at} \intersect {"listed", "refused", "failed"} = {}
    BY <1>3, <2>1 DEF ReadPage
  <2> QED BY <1>1, <1>2, <2>1, <2>2, ChoiceKept
<1>4. CASE ReadBatch
  <2>1. /\ job'.at = job.at /\ job'.task = job.task
        /\ job'.covered = job.covered /\ job'.from = job.from /\ job'.chosen = job.chosen
        /\ job'.limit = job.limit /\ job.at = "batch"
    BY <1>1, <1>4 DEF ReadBatch, Jobs
  <2>2. {job.at, job'.at} \intersect {"listed", "refused", "failed"} = {}
    BY <2>1
  <2> QED BY <1>1, <1>2, <2>1, <2>2, ChoiceKept
<1> QED BY <1>3, <1>4

LEMMA ChoiceUsed ==
  ASSUME NInv, \/ Search \/ UseTopics \/ UseVocab \/ UseGrammar \/ UseBatch \/ GiveUp \/ Offer
               \/ SettleLearner \/ DeleteLessons
  PROVE  NInv'
<1>1. TInv /\ TInv' /\ job \in Jobs
  BY JobFacts, TypeSearched, TypeAnswers, TypeBatchUsed, TypeOffer, TypeSettleLearner,
     TypeDeleteLessons DEF NInv
<1>2. CASE Search
  <2>1. UNCHANGED <<known, learned>>
    BY <1>2 DEF Search, Go, learner
  <2> QED BY <1>1, <1>2, <2>1, SearchUsed, ChoiceGo, ChoiceOpen, Limits DEF AtQuery
<1>3. CASE UseTopics
  <2>1. job.at = "topics" /\ UNCHANGED <<known, learned>>
    BY <1>3 DEF UseTopics, Go, GoRead, learner
  <2>2. \A t \in Range(TopicsRead) : t.words \in Seq(Keys)
    BY <1>1, <2>1, AskedType
  <2>3. job.task.type = "prompt" => TopicWords(MatchTopics(job.task.tokens, TopicsRead)) \in Seq(Keys)
    BY <1>1, <2>1, MatchedType
  <2>4. CASE job.task.type = "prompt" /\ \E t \in Range(TopicsRead) :
               job' = OpenBatch(Choose(job, t.words, VocabSlice),
                                Range(Choose(job, t.words, VocabSlice).chosen))
    BY <1>1, <2>1, <2>2, <2>4, Limits, ChoiceGo
  <2>5. CASE job.task.type = "prompt" /\ job' = OpenQuery(job, "vocab")
    BY <1>1, <2>1, <2>5, ChoiceOpen DEF AtQuery
  <2>6. CASE /\ job.task.type = "prompt"
             /\ LET words == TopicWords(MatchTopics(job.task.tokens, TopicsRead))
                IN  job' = OpenBatch(Choose(job, words, MatchedPool),
                                     Range(Choose(job, words, MatchedPool).chosen))
    BY <1>1, <2>1, <2>3, <2>6, Limits, ChoiceGo
  <2>7. CASE /\ job.task.type = "topics"
             /\ job' = [job EXCEPT !.at = "listed", !.listed = RankTopics(TopicsRead, job.covered)]
    BY <1>1, <2>1, <2>7, ListMade
  <2>8. CASE job' = IdleJob \/ job' = [IdleJob EXCEPT !.task = job.task, !.at = "refused"]
    BY <1>1, <2>8, ChoiceEnds
  <2> QED BY <1>3, <2>4, <2>5, <2>6, <2>7, <2>8, TopicsUsed
<1>4. CASE UseVocab
  <2>1. KeysRead \in Seq(Keys) /\ job.at = "vocab" /\ UNCHANGED <<known, learned>>
    BY <1>1, <1>4, KeysReadType DEF UseVocab, Go, learner
  <2>2. ASSUME job.task.type = "prompt", NEW limit \in {VocabSlice, FreePool},
               LET choice == Choose(job, KeysRead, limit)
               IN  job' = OpenQuery([choice EXCEPT !.kept = choice.chosen], "grammar")
        PROVE  NInv'
    <3> DEFINE choice == Choose(job, KeysRead, limit)
    <3>1. /\ choice \in Jobs /\ choice.chosen \in Seq(Keys) /\ choice.task = job.task
          /\ choice.covered = job.covered /\ choice.from = KeysRead /\ choice.limit = limit
          /\ choice.chosen = UncoveredFirst(KeysRead, job.covered, limit)
      <4>1. job \in Jobs /\ KeysRead \in Seq(Keys) /\ limit \in Nat
        BY <1>1, <2>1, Limits DEF TInv, TypeOK
      <4> QED BY ONLY <4>1, ChooseMakes DEF choice
    <3> DEFINE kept == choice.chosen
               o == [choice EXCEPT !.kept = kept]
    <3>2. job' = OpenQuery(o, "grammar") /\ kept \in Seq(Keys)
      BY <2>2, <3>1
    <3> HIDE DEF choice, kept
    <3>3. /\ o \in Jobs /\ o.task = job.task /\ o.covered = job.covered
          /\ o.from = KeysRead /\ o.limit = limit
          /\ o.chosen = UncoveredFirst(KeysRead, job.covered, limit)
      BY <3>1, <3>2, KeepMakes
    <3> HIDE DEF o
    <3>4. /\ job'.at = "grammar" /\ job'.task = job.task /\ job'.covered = job.covered
          /\ job'.from = KeysRead /\ job'.limit = limit
          /\ job'.chosen = UncoveredFirst(KeysRead, job.covered, limit)
      BY <3>2, <3>3, OpenQueryMakes DEF AtQuery
    <3> QED BY <1>1, <2>1, <2>2, <3>4, Limits, ChoiceMade
  <2>3. CASE job' = OpenQuery([job EXCEPT !.kept = KeysRead], "grammar")
    BY <1>1, <2>1, <2>3, ChoiceKeep
  <2>4. CASE job' = IdleJob
    BY <1>1, <2>4, ChoiceEnds
  <2> QED BY <1>4, <2>2, <2>3, <2>4, VocabUsed
<1>5. CASE UseGrammar
  <2>1. KeysRead \in Seq(Keys) /\ job.at = "grammar" /\ UNCHANGED <<known, learned>>
    BY <1>1, <1>5, KeysReadType DEF UseGrammar, Go, learner
  <2>2. CASE job.task.type = "prompt" /\ job' = [Choose(job, KeysRead, GrammarSlice) EXCEPT !.at = "offer"]
    <3> DEFINE choice == Choose(job, KeysRead, GrammarSlice)
    <3>1. /\ choice \in Jobs /\ choice.task = job.task
          /\ choice.covered = job.covered /\ choice.from = KeysRead /\ choice.limit = GrammarSlice
          /\ choice.chosen = UncoveredFirst(KeysRead, job.covered, GrammarSlice)
      BY <1>1, <2>1, Limits, ChooseMakes
    <3>2. job' = [choice EXCEPT !.at = "offer"]
      BY <2>2
    <3> HIDE DEF choice
    <3>3. /\ job'.at = "offer" /\ job'.task = job.task
          /\ job'.covered = job.covered /\ job'.from = KeysRead /\ job'.limit = GrammarSlice
          /\ job'.chosen = UncoveredFirst(KeysRead, job.covered, GrammarSlice)
      BY <3>1, <3>2 DEF Jobs
    <3> QED BY <1>1, <2>1, <2>2, <3>3, Limits, ChoiceMade
  <2>3. ASSUME job.task.type = "stage", NEW at \in {"refused", "staged"}, job' = [job EXCEPT !.at = at]
        PROVE  NInv'
    <3>1. /\ job'.at = at /\ job'.task = job.task /\ job'.covered = job.covered
          /\ job'.from = job.from /\ job'.chosen = job.chosen /\ job'.limit = job.limit
      BY <1>1, <2>3 DEF Jobs
    <3> QED BY <1>1, <2>1, <2>3, <3>1, ChoiceKept
  <2>4. CASE job' = IdleJob
    BY <1>1, <2>4, ChoiceEnds
  <2> QED BY <1>5, <2>2, <2>3, <2>4, GrammarUsed
<1>6. CASE UseBatch
  <2>1. job.at = "batch" /\ learned' = learned /\ known \subseteq known'
    BY <1>6 DEF UseBatch, Go, learner
  <2>2. Among(job.chosen, job.got) \in Seq(Keys)
    <3>1. job.chosen \in Seq(Keys)
      BY <1>1 DEF Jobs
    <3> QED BY <3>1, AmongRange
  <2>3. CASE /\ known' = known
             /\ job' = OpenQuery([job EXCEPT !.kept = Among(job.chosen, job.got)], "grammar")
    BY <1>1, <2>1, <2>2, <2>3, ChoiceKeep
  <2>4. CASE job.task.type = "import" /\ job' = [job EXCEPT !.at = "refused"]
    <3>1. /\ job'.at = "refused" /\ job'.task = job.task /\ job'.covered = job.covered
          /\ job'.from = job.from /\ job'.chosen = job.chosen /\ job'.limit = job.limit
      BY <1>1, <2>4 DEF Jobs
    <3> QED BY <1>1, <2>1, <2>4, <3>1, ChoiceKept
  <2>5. CASE job' = IdleJob
    BY <1>1, <2>5, ChoiceEnds
  <2> QED BY <1>6, <2>3, <2>4, <2>5, BatchUsed
<1>7. CASE GiveUp \/ Offer \/ SettleLearner \/ DeleteLessons
  BY <1>1, <1>7, ChoiceEnds DEF GiveUp, Offer, SettleLearner, DeleteLessons
<1> QED BY <1>2, <1>3, <1>4, <1>5, <1>6, <1>7

LEMMA ChoiceStep == NInv /\ [Next]_vars => NInv'
<1> SUFFICES ASSUME NInv, [Next]_vars PROVE NInv'
  OBVIOUS
<1>1. TInv /\ TInv' /\ job \in Jobs
  BY JobFacts, TypeStep DEF NInv
<1>2. CASE PutRow \/ DeleteStale
  <2>1. UNCHANGED learner /\ (job' = job \/ \E k : job' = [job EXCEPT !.base = @ \ {k}])
    BY <1>2 DEF PutRow, DeleteStale, Write
  <2>2. /\ job'.at = job.at /\ job'.task = job.task /\ job'.covered = job.covered
        /\ job'.from = job.from /\ job'.chosen = job.chosen /\ job'.limit = job.limit
        /\ job'.listed = job.listed
    BY <1>1, <2>1 DEF Jobs
  <2> QED BY <1>1, <2>1, <2>2, ChoiceKept DEF learner
<1>3. CASE \/ \E r \in Releases, kind \in {"all", "grammar", "topics", "vocab"} : BeginLoad(r, kind)
           \/ EndPuts \/ ScanPage \/ EndDeletes \/ Publish \/ StopLoad \/ SettleRows
           \/ ColdStart \/ UNCHANGED vars
  <2>1. UNCHANGED <<known, learned, job>>
    BY <1>3 DEF BeginLoad, EndPuts, ScanPage, EndDeletes, Publish, StopLoad, SettleRows, ColdStart,
                vars, learner
  <2> QED BY <1>1, <2>1, ChoiceKept
<1>4. CASE \/ \E task \in budget.tasks : Browse(task) \/ ListTopics(task) \/ Prompt(task)
                                          \/ BuildStage(task)
           \/ \E ids \in SUBSET offered : ImportLesson(ids)
           \/ LookUp
  BY <1>4, ChoiceBegun
<1>5. CASE \/ ReadPage \/ ReadBatch \/ Search \/ UseTopics \/ UseVocab \/ UseGrammar \/ UseBatch
           \/ GiveUp \/ Offer \/ SettleLearner \/ DeleteLessons
  BY <1>5, ChoiceReads, ChoiceUsed
<1> QED BY <1>2, <1>3, <1>4, <1>5 DEF Next

LEMMA ChoiceInit == Init => NInv
<1> SUFFICES ASSUME Init PROVE NInv
  OBVIOUS
<1> DEFINE s == <<>>
<1>1. s \in Seq(Keys) /\ Len(s) = 0
  OBVIOUS
<1>2. /\ job.at = "idle" /\ job.covered = {} /\ job.from = s /\ job.chosen = s /\ job.limit = 0
      /\ job.task.type = "none"
  BY DEF Init, IdleJob
<1>3. Range(s) = {}
  BY NothingInNone
<1>4. ChoiceHolds
  <2>1. Len(FirstOf(s, 0)) = 0
    BY NoneOfNone
  <2> HIDE DEF s
  <2> QED BY <1>1, <1>2, <1>3, <2>1 DEF ChoiceHolds
<1>5. Informed /\ ListHolds
  BY <1>2 DEF Informed, ListHolds, s
<1> QED BY <1>4, <1>5, TypeInit DEF NInv

LEMMA ChoicesAreFair == NInv => NewWordsComeFirst
<1> SUFFICES ASSUME NInv PROVE NewWordsComeFirst
  OBVIOUS
<1>1. job.covered \subseteq known /\ Len(job.chosen) = Len(FirstOf(job.from, job.limit))
  BY DEF NInv, Informed, ChoiceHolds
<1>2. ASSUME Range(job.chosen) \intersect learned # {}
      PROVE  Range(job.from) \ known \subseteq Range(job.chosen)
  <2>1. job.chosen # <<>>
    BY <1>2, NothingInNone
  <2>2. learned \subseteq job.covered
    BY <2>1 DEF NInv, Informed
  <2> QED BY <1>1, <1>2, <2>2 DEF NInv, ChoiceHolds
<1>3. ASSUME job.at = "listed", job.listed # <<>>, Range(job.listed[1].words) \subseteq learned
      PROVE  \A i \in DOMAIN job.listed : Range(job.listed[i].words) \subseteq known
  <2>1. learned \subseteq job.covered
    BY <1>3 DEF NInv, Informed
  <2> QED BY <1>1, <1>3, <2>1 DEF NInv, ListHolds
<1> QED BY <1>1, <1>2, <1>3 DEF NewWordsComeFirst

\* A prompt has a word or a piece of grammar the learner is sure to know only with every
\* candidate that is new to him, and as many as it may have; and the first topic he is
\* listed has a new word for him whenever one of them has, although what is known of him is
\* read before the topics and the words are, and may be behind (selectUncoveredFirst,
\* coveredIDs, Topics).
THEOREM NewWordsFirst == Spec => []NewWordsComeFirst
BY ChoiceInit, ChoiceStep, ChoicesAreFair, PTL DEF Spec

-----------------------------------------------------------------------------
(***************************************************************************)
(* What a stage asks                                                       *)
(***************************************************************************)
\* A finite set of numbers has a least one.
LEMMA LeastOf ==
  ASSUME NEW P \in SUBSET Int, IsFiniteSet(P), P # {}
  PROVE  \E i \in P : \A j \in P : i <= j
<1> DEFINE before == [i \in P |-> {j \in P : j < i}]
<1>1. IsOrder(P, before)
  BY PlacesOrder
<1>2. PICK i \in P : Listed(P, before)[1] = i /\ \A j \in P : j # i => i \in before[j]
  <2>1. /\ Cardinality(P) \in Nat
        /\ \A n \in 1 .. Cardinality(P) : Listed(P, before)[n] \in P
        /\ \A x \in P : \E n \in 1 .. Cardinality(P) : Listed(P, before)[n] = x
        /\ \A m, n \in 1 .. Cardinality(P) :
              m < n => Listed(P, before)[m] \in before[Listed(P, before)[n]]
    <3> HIDE DEF before
    <3> QED BY <1>1, ListedInOrder
  <2> DEFINE s == Listed(P, before)
             N == Cardinality(P)
  <2> HIDE DEF s, N, before
  <2>2. PICK x \in P : TRUE
    OBVIOUS
  <2>3. PICK n \in 1 .. N : s[n] = x
    BY <2>1 DEF s, N
  <2>4. 1 \in 1 .. N /\ N \in Nat
    BY <2>1, <2>3 DEF N
  <2>5. s[1] \in P
    BY <2>1, <2>4 DEF s, N
  <2>6. ASSUME NEW j \in P, j # s[1] PROVE s[1] \in before[j]
    <3>1. PICK m \in 1 .. N : s[m] = j
      BY <2>1 DEF s, N
    <3>2. 1 < m
      BY <2>4, <2>6, <3>1
    <3> QED BY <2>1, <2>4, <3>1, <3>2 DEF s, N
  <2> QED BY <2>5, <2>6 DEF s
<1> QED BY <1>2

\* Something is kept at i unless what is kept before bars it.
KeptBy(kept, m, bars) ==
  /\ kept \in [1 .. m -> BOOLEAN]
  /\ \A i \in 1 .. m : kept[i] = ~ \E j \in 1 .. (i - 1) : kept[j] /\ <<j, i>> \in bars

\* Whatever bars what, there is a way to keep.
LEMMA KeptExists ==
  ASSUME NEW n \in Nat, NEW bars PROVE \E kept : KeptBy(kept, n, bars)
<1> DEFINE Bad == {m \in 0 .. n : ~ \E kept : KeptBy(kept, m, bars)}
<1>1. SUFFICES ASSUME n \in Bad PROVE FALSE
  OBVIOUS
<1>2. Bad \in SUBSET Int /\ IsFiniteSet(Bad) /\ Bad # {}
  <2>1. IsFiniteSet(0 .. n) /\ Bad \in SUBSET (0 .. n)
    BY FS_Interval
  <2> QED BY <1>1, <2>1, FS_Subset
<1>3. PICK m \in Bad : \A l \in Bad : m <= l
  <2> HIDE DEF Bad
  <2> QED BY <1>2, LeastOf
<1>4. m \in 0 .. n
  OBVIOUS
<1>5. CASE m = 0
  <2>1. KeptBy([i \in 1 .. 0 |-> TRUE], 0, bars)
    BY DEF KeptBy
  <2> QED BY <1>5, <2>1
<1>6. CASE m # 0
  <2>1. m - 1 \in 0 .. n /\ ~ (m - 1 \in Bad)
    <3>1. m - 1 \in 0 .. n /\ ~ (m <= m - 1)
      BY <1>4, <1>6
    <3> HIDE DEF Bad
    <3> QED BY <1>3, <3>1
  <2>2. PICK kept : KeptBy(kept, m - 1, bars)
    BY <2>1
  <2> DEFINE Keep(i) == ~ \E j \in 1 .. (i - 1) : kept[j] /\ <<j, i>> \in bars
             more    == [i \in 1 .. m |-> IF i < m THEN kept[i] ELSE Keep(m)]
  <2>3. \A i \in 1 .. (m - 1) : kept[i] = Keep(i) /\ kept[i] \in BOOLEAN /\ more[i] = kept[i]
    <3>1. \A i \in 1 .. (m - 1) : kept[i] = Keep(i) /\ kept[i] \in BOOLEAN
      BY <2>2 DEF KeptBy
    <3>2. \A i \in 1 .. (m - 1) : i \in 1 .. m /\ i < m
      BY <1>4
    <3> HIDE DEF Keep, Bad
    <3> QED BY <3>1, <3>2
  <2>4. more \in [1 .. m -> BOOLEAN] /\ more[m] = Keep(m)
    <3>1. m \in 1 .. m /\ ~ (m < m) /\ \A i \in 1 .. m : i < m => i \in 1 .. (m - 1)
      BY <1>4, <1>6
    <3>2. \A i \in 1 .. m : (IF i < m THEN kept[i] ELSE Keep(m)) \in BOOLEAN
      BY <2>3, <3>1
    <3> HIDE DEF Keep, Bad
    <3> QED BY <3>1, <3>2
  <2>5. ASSUME NEW i \in 1 .. m
        PROVE  more[i] = ~ \E j \in 1 .. (i - 1) : more[j] /\ <<j, i>> \in bars
    <3>1. \A j \in 1 .. (i - 1) : j \in 1 .. (m - 1) /\ more[j] = kept[j]
      BY <1>4, <2>3
    <3>2. more[i] = Keep(i)
      <4>1. i = m \/ i \in 1 .. (m - 1)
        BY <1>4
      <4> QED BY <2>3, <2>4, <4>1
    <3> HIDE DEF more
    <3> QED BY <3>1, <3>2
  <2>6. KeptBy(more, m, bars)
    <3> HIDE DEF more
    <3> QED BY <2>4, <2>5 DEF KeptBy
  <2> QED BY <2>6
<1> QED BY <1>5, <1>6

\* Unlike keeps entries of the pool, no two of which have one of the fields in common.
LEMMA UnlikeKeeps ==
  ASSUME NEW T, NEW pool \in Seq(T), NEW fields
  PROVE  /\ Unlike(pool, fields) \in Seq(T)
         /\ \A n \in 1 .. Len(Unlike(pool, fields)) :
               \E i \in 1 .. Len(pool) : Unlike(pool, fields)[n] = pool[i]
         /\ \A m, n \in 1 .. Len(Unlike(pool, fields)) : m < n =>
               \A g \in fields : Unlike(pool, fields)[m][g] # Unlike(pool, fields)[n][g]
<1> DEFINE L == Len(pool)
           Rule(f) == [i \in DOMAIN pool |->
                         \A j \in DOMAIN pool :
                            j < i /\ f[j] => \A g \in fields : pool[j][g] # pool[i][g]]
<1>1. L \in Nat /\ DOMAIN pool = 1 .. L /\ \A i \in 1 .. L : pool[i] \in T
  OBVIOUS
<1>2. \E f : f = Rule(f)
  <2> DEFINE bars == {p \in (1 .. L) \X (1 .. L) : \E g \in fields : pool[p[1]][g] = pool[p[2]][g]}
  <2>1. PICK f : KeptBy(f, L, bars)
    <3> HIDE DEF bars, L
    <3> QED BY <1>1, KeptExists
  <2>2. \A i, j \in 1 .. L : <<j, i>> \in bars <=> \E g \in fields : pool[j][g] = pool[i][g]
    OBVIOUS
  <2>3. f \in [1 .. L -> BOOLEAN]
    BY <2>1 DEF KeptBy
  <2>4. ASSUME NEW i \in 1 .. L PROVE f[i] = Rule(f)[i]
    <3> HIDE DEF bars
    <3>1. f[i] = ~ \E j \in 1 .. (i - 1) : f[j] /\ <<j, i>> \in bars
      BY <2>1 DEF KeptBy
    <3> HIDE DEF L
    <3>2. \A j \in 1 .. L : j < i <=> j \in 1 .. (i - 1)
      BY <1>1
    <3>3. \A j \in 1 .. (i - 1) : j \in 1 .. L
      BY <1>1
    <3>4. f[i] = \A j \in 1 .. L : j < i /\ f[j] => \A g \in fields : pool[j][g] # pool[i][g]
      BY <2>2, <2>3, <3>1, <3>2, <3>3
    <3> QED BY <1>1, <3>4
  <2>5. f = [i \in 1 .. L |-> f[i]] /\ Rule(f) = [i \in 1 .. L |-> Rule(f)[i]]
    BY <1>1, <2>3
  <2> HIDE DEF Rule, L
  <2> QED BY <2>4, <2>5
<1> DEFINE kept == CHOOSE f : f = Rule(f)
           places == {i \in DOMAIN pool : kept[i]}
<1>3. kept = Rule(kept)
  <2> HIDE DEF Rule
  <2> QED BY <1>2
<1>4. Unlike(pool, fields) = EntriesAt(pool, places)
  BY DEF Unlike
<1> HIDE DEF kept
<1>5. \A i, j \in places : j < i => \A g \in fields : pool[j][g] # pool[i][g]
  BY <1>3
<1>6. AreOf(places, pool) /\ \A i \in places : i \in 1 .. L
  BY <1>1 DEF AreOf
<1> HIDE DEF places
<1> DEFINE u == EntriesAt(pool, places)
           N == Cardinality(places)
<1>7. N \in Nat /\ u \in Seq(T) /\ Len(u) = N
  BY <1>6, EntriesInOrder
<1>8. ASSUME NEW n \in 1 .. N PROVE \E i \in places : u[n] = pool[i]
  BY <1>6, EntriesInOrder
<1>9. \A m, n \in 1 .. N : m < n =>
         \E i, j \in places : i < j /\ u[m] = pool[i] /\ u[n] = pool[j]
  BY <1>6, EntriesInOrder
<1> HIDE DEF u, N
<1>10. \A n \in 1 .. N : \E i \in 1 .. L : u[n] = pool[i]
  BY <1>6, <1>8
<1>11. \A m, n \in 1 .. N : m < n => \A g \in fields : u[m][g] # u[n][g]
  <2> SUFFICES ASSUME NEW m \in 1 .. N, NEW n \in 1 .. N, m < n, NEW g \in fields
               PROVE  u[m][g] # u[n][g]
    OBVIOUS
  <2>1. PICK i \in places, j \in places : i < j /\ u[m] = pool[i] /\ u[n] = pool[j]
    BY <1>9
  <2> QED BY <1>5, <2>1
<1> QED BY <1>4, <1>7, <1>10, <1>11 DEF u

\* The numbers from 1 on, and what they index.
LEMMA OneToN ==
  ASSUME NEW n \in Nat PROVE IsFiniteSet(1 .. n) /\ Cardinality(1 .. n) = n
<1>1. 1 \in Int /\ n \in Int /\ (1 > n => n = 0)
  OBVIOUS
<1> QED BY <1>1, FS_Interval

LEMMA IsSeq ==
  ASSUME NEW T, NEW n \in Nat, NEW f \in [1 .. n -> T] PROVE f \in Seq(T) /\ Len(f) = n
OBVIOUS

\* SetToSeq lists three elements, each once.
LEMMA ThreeListed ==
  ASSUME NEW S, IsFiniteSet(S), Cardinality(S) = 3
  PROVE  SetToSeq(S) \in [1 .. 3 -> S] /\ IsInjective(SetToSeq(S))
<1>1. Cardinality(1 .. 3) = 3 /\ IsFiniteSet(1 .. 3)
  BY OneToN
<1>2. PICK f \in Bijection(1 .. 3, S) : TRUE
  BY <1>1, FS_SameCardinalityBij DEF ExistsBijection
<1>3. f \in [1 .. 3 -> S] /\ IsInjective(f)
  BY DEF Bijection, Injection
<1> QED BY <1>3 DEF SetToSeq

\* Four options are made of three by putting one more at a place.
LEMMA FourOptions ==
  ASSUME NEW T, NEW s \in [1 .. 3 -> T], NEW e, NEW place \in 1 .. 4
  PROVE  InsertAt(s, place, e)
           = [i \in 1 .. 4 |-> IF i < place THEN s[i] ELSE IF i = place THEN e ELSE s[i - 1]]
<1>1. s \in Seq(T) /\ Len(s) = 3
  BY IsSeq
<1>2. place = 1 \/ place = 2 \/ place = 3 \/ place = 4
  OBVIOUS
<1>3. CASE place = 1
  BY <1>1, <1>3 DEF InsertAt
<1>4. CASE place = 2
  BY <1>1, <1>4 DEF InsertAt
<1>5. CASE place = 3
  BY <1>1, <1>5 DEF InsertAt
<1>6. CASE place = 4
  BY <1>1, <1>6 DEF InsertAt
<1> QED BY <1>2, <1>3, <1>4, <1>5, <1>6

AnswersDiffer(pool) == \A m, n \in 1 .. Len(pool) : m < n => pool[m].answer # pool[n].answer

\* An item has four different options, and the marked one is the answer of its entry.
LEMMA ItemsAnswerable ==
  ASSUME NEW T, NEW pool \in Seq(T), AnswersDiffer(pool),
         NEW kind, NEW slack, NEW item \in ItemsFrom(kind, pool, slack)
  PROVE  \E n \in 1 .. Len(pool) :
            /\ item.kind = kind /\ item.id = pool[n].id
            /\ Cardinality(Range(item.options)) = OptionCount
            /\ \A i \in 1 .. OptionCount :
                  (i = item.correct) = (item.options[i] = pool[n].answer)
<1> DEFINE L == Len(pool)
<1>1. /\ L \in Nat /\ Range(pool) = {pool[i] : i \in 1 .. L}
      /\ \A i \in 1 .. L : pool[i] \in T
  BY RangeEquality
<1>2. \A c, d \in Range(pool) : c # d => c.answer # d.answer
  <2> SUFFICES ASSUME NEW c \in Range(pool), NEW d \in Range(pool), c # d
               PROVE  c.answer # d.answer
    OBVIOUS
  <2>1. PICK m \in 1 .. L, n \in 1 .. L : c = pool[m] /\ d = pool[n]
    BY <1>1
  <2>2. m < n \/ n < m
    BY <1>1, <2>1
  <2> QED BY <2>1, <2>2 DEF AnswersDiffer
<1>3. IsFiniteSet(Range(pool))
  <2>1. pool \in [1 .. L -> Range(pool)] /\ \A c \in Range(pool) : \E i \in 1 .. L : pool[i] = c
    BY <1>1
  <2>2. pool \in Surjection(1 .. L, Range(pool))
    BY <2>1 DEF Surjection
  <2>3. IsFiniteSet(1 .. L)
    BY <1>1, OneToN
  <2> QED BY <2>2, <2>3, FS_Surjection
<1>20. PICK c \in Range(pool) :
         \E S \in TrapSets(kind, c, pool, slack) : \E place \in 1 .. 4 :
         item = [kind |-> kind, id |-> c.id, prompt |-> c.prompt, correct |-> place,
                 options |-> InsertAt([i \in DOMAIN SetToSeq(S) |-> SetToSeq(S)[i].answer],
                                      place, c.answer)]
  BY DEF ItemsFrom, OptionCount
<1>4. PICK S \in TrapSets(kind, c, pool, slack), place \in 1 .. 4 :
         item = [kind |-> kind, id |-> c.id, prompt |-> c.prompt, correct |-> place,
                 options |-> InsertAt([i \in DOMAIN SetToSeq(S) |-> SetToSeq(S)[i].answer],
                                      place, c.answer)]
  BY <1>20
<1>5. S \in SUBSET (Range(pool) \ {c}) /\ Cardinality(S) = 3
  BY DEF TrapSets, kSubset, OptionCount
<1>6. SetToSeq(S) \in [1 .. 3 -> S] /\ IsInjective(SetToSeq(S))
  <2>1. IsFiniteSet(S)
    BY <1>3, <1>5, FS_Subset
  <2> QED BY <1>5, <2>1, ThreeListed
<1> DEFINE t == SetToSeq(S)
           a == [i \in 1 .. 3 |-> t[i].answer]
           o == item.options
           U == {d.answer : d \in Range(pool)}
<1>7. a \in [1 .. 3 -> U] /\ DOMAIN t = 1 .. 3
  BY <1>5, <1>6
<1>8. o = [i \in 1 .. 4 |-> IF i < place THEN a[i] ELSE IF i = place THEN c.answer ELSE a[i - 1]]
  <2>1. o = InsertAt(a, place, c.answer)
    BY <1>4, <1>7
  <2> HIDE DEF a, o, U
  <2> QED BY <1>7, <2>1, FourOptions
<1>9. \A i \in 1 .. 3 : a[i] # c.answer /\ \A j \in 1 .. 3 : i # j => a[i] # a[j]
  <2>1. \A i \in 1 .. 3 : t[i] \in Range(pool) /\ t[i] # c
    BY <1>5, <1>6
  <2>2. \A i, j \in 1 .. 3 : i # j => t[i] # t[j]
    BY <1>6 DEF IsInjective
  <2> HIDE DEF t
  <2> QED BY <1>2, <2>1, <2>2
<1> HIDE DEF a, o
<1>10. \A i \in 1 .. 4 : (i = place) = (o[i] = c.answer)
  BY <1>8, <1>9
<1>11. \A i, j \in 1 .. 4 : i # j => o[i] # o[j]
  BY <1>8, <1>9
<1>12. Cardinality(Range(o)) = 4
  <2>1. o \in Surjection(1 .. 4, Range(o)) /\ o \in Injection(1 .. 4, Range(o))
    BY <1>8, <1>11 DEF Surjection, Injection, IsInjective, Range
  <2>2. IsFiniteSet(1 .. 4) /\ Cardinality(1 .. 4) = 4
    BY OneToN
  <2> QED BY <2>1, <2>2, FS_Surjection
<1>13. item.kind = kind /\ item.id = c.id /\ item.correct = place
  BY <1>4
<1>14. PICK n \in 1 .. L : c = pool[n]
  BY <1>1
<1> QED BY <1>10, <1>12, <1>13, <1>14 DEF o, OptionCount

\* Item is made of an entry whose answer is that, as its only right option.
Asks(item, kind, id, answer) ==
  /\ item.kind = kind /\ item.id = id
  /\ Cardinality(Range(item.options)) = OptionCount
  /\ \A i \in 1 .. OptionCount : (i = item.correct) = (item.options[i] = answer)

\* Whatever is asked is one of the entries that may be.
LEMMA AsksAnEntry ==
  ASSUME NEW T, NEW asked \in Seq(T), NEW kind, NEW slack,
         NEW item \in ItemsFrom(kind, Distinct(Pool(asked)), slack)
  PROVE  \E n \in 1 .. Len(asked) : Asks(item, kind, asked[n].id, asked[n].answer)
<1> DEFINE pool == Pool(asked)
           distinct == Distinct(pool)
<1>1. pool \in Seq(T) /\ \A n \in 1 .. Len(pool) : \E i \in 1 .. Len(asked) : pool[n] = asked[i]
  <2> DEFINE S == {c \in Range(asked) : Askable(c)}
  <2>1. pool = Among(asked, S)
    BY DEF Pool
  <2> HIDE DEF pool, S
  <2>2. Places(asked, S) \subseteq 1 .. Len(asked)
    BY DEF Places
  <2>3. pool \in Seq(T)
    BY <2>1, AmongInOrder
  <2>4. ASSUME NEW n \in 1 .. Len(pool) PROVE \E i \in Places(asked, S) : pool[n] = asked[i]
    BY <2>1, AmongInOrder
  <2> QED BY <2>2, <2>3, <2>4
<1> HIDE DEF pool
<1>2. /\ distinct \in Seq(T)
      /\ \A n \in 1 .. Len(distinct) : \E i \in 1 .. Len(pool) : distinct[n] = pool[i]
      /\ AnswersDiffer(distinct)
  <2> DEFINE F == {"prompt", "answer"}
  <2>1. distinct = Unlike(pool, F) /\ "answer" \in F
    BY DEF Distinct
  <2> HIDE DEF F, distinct
  <2>2. distinct \in Seq(T)
    BY <1>1, <2>1, UnlikeKeeps
  <2>3. ASSUME NEW n \in 1 .. Len(distinct) PROVE \E i \in 1 .. Len(pool) : distinct[n] = pool[i]
    BY <1>1, <2>1, UnlikeKeeps
  <2>4. ASSUME NEW m \in 1 .. Len(distinct), NEW n \in 1 .. Len(distinct), m < n
        PROVE  distinct[m].answer # distinct[n].answer
    <3>1. \A g \in F : distinct[m][g] # distinct[n][g]
      BY <1>1, <2>1, <2>4, UnlikeKeeps
    <3> QED BY <2>1, <3>1
  <2> QED BY <2>2, <2>3, <2>4 DEF AnswersDiffer
<1> HIDE DEF distinct
<1>3. item \in ItemsFrom(kind, distinct, slack)
  BY DEF distinct, pool
<1>4. PICK n \in 1 .. Len(distinct) : Asks(item, kind, distinct[n].id, distinct[n].answer)
  <2>1. distinct \in Seq(T) /\ AnswersDiffer(distinct)
    BY <1>2
  <2>2. \E n \in 1 .. Len(distinct) :
           /\ item.kind = kind /\ item.id = distinct[n].id
           /\ Cardinality(Range(item.options)) = OptionCount
           /\ \A i \in 1 .. OptionCount :
                 (i = item.correct) = (item.options[i] = distinct[n].answer)
    BY <1>3, <2>1, ItemsAnswerable
  <2> QED BY <2>2 DEF Asks
<1>5. PICK m \in 1 .. Len(pool) : distinct[n] = pool[m]
  BY <1>2
<1>6. PICK i \in 1 .. Len(asked) : pool[m] = asked[i]
  BY <1>1
<1> QED BY <1>4, <1>5, <1>6

\* No more items of a kind than are wanted.
LEMMA CountBounds ==
  ASSUME NEW T, NEW asked \in Seq(T), NEW wanted \in Nat
  PROVE  Count(Distinct(Pool(asked)), wanted) \in 0 .. wanted
<1>1. Pool(asked) \in Seq(T)
  BY AmongInOrder DEF Pool
<1>2. Distinct(Pool(asked)) \in Seq(T)
  BY <1>1, UnlikeKeeps DEF Distinct
<1>3. Len(Distinct(Pool(asked))) \in Nat
  BY <1>2
<1> QED BY <1>3 DEF Count, AtMost, OptionCount

\* A stage has four to ten items; what it asks is an entry's text, and its translation is
\* the right option.
LEMMA StagesAsk ==
  ASSUME NEW T, NEW vocab \in Seq(T), NEW grammar \in Seq(T), NEW b, NEW n,
         NEW s \in Stages(vocab, grammar, b, n)
  PROVE  /\ s.size \in MinItems .. StageItems
         /\ \/ \E i \in 1 .. Len(vocab) : Asks(s.item, "vocab", vocab[i].id, vocab[i].gloss)
            \/ \E i \in 1 .. Len(vocab) : Asks(s.item, "reading", vocab[i].id, vocab[i].translation)
            \/ \E i \in 1 .. Len(grammar) : Asks(s.item, "grammar", grammar[i].id, grammar[i].translation)
<1> DEFINE gs == AsSentences(grammar)
           rs == AsSentences(vocab)
           ws == AsWords(vocab)
           sentences == Count(Distinct(Pool(gs)), 2) + Count(Distinct(Pool(rs)), 2)
           rest == Count(Distinct(Pool(ws)), StageItems - sentences)
           size == sentences + rest
<1> DEFINE G == {AsSentence(grammar[i]) : i \in 1 .. Len(grammar)}
           R == {AsSentence(vocab[i]) : i \in 1 .. Len(vocab)}
           W == {AsWord(vocab[i]) : i \in 1 .. Len(vocab)}
<1>1. /\ gs \in Seq(G) /\ Len(gs) = Len(grammar)
      /\ rs \in Seq(R) /\ Len(rs) = Len(vocab)
      /\ ws \in Seq(W) /\ Len(ws) = Len(vocab)
  <2>1. Len(grammar) \in Nat /\ Len(vocab) \in Nat
    OBVIOUS
  <2>2. /\ gs \in [1 .. Len(grammar) -> G] /\ rs \in [1 .. Len(vocab) -> R]
        /\ ws \in [1 .. Len(vocab) -> W]
    BY DEF AsSentences, AsWords
  <2> HIDE DEF gs, rs, ws, G, R, W
  <2>3. gs \in Seq(G) /\ Len(gs) = Len(grammar)
    BY <2>1, <2>2, IsSeq
  <2>4. rs \in Seq(R) /\ Len(rs) = Len(vocab)
    BY <2>1, <2>2, IsSeq
  <2>5. ws \in Seq(W) /\ Len(ws) = Len(vocab)
    BY <2>1, <2>2, IsSeq
  <2> QED BY <2>3, <2>4, <2>5
<1>2. /\ \A i \in 1 .. Len(grammar) :
            gs[i].id = grammar[i].id /\ gs[i].answer = grammar[i].translation
      /\ \A i \in 1 .. Len(vocab) :
            /\ rs[i].id = vocab[i].id /\ rs[i].answer = vocab[i].translation
            /\ ws[i].id = vocab[i].id /\ ws[i].answer = vocab[i].gloss
  BY DEF AsSentences, AsWords, AsSentence, AsWord
<1> HIDE DEF gs, rs, ws, G, R, W
<1>3. sentences \in 0 .. 4
  <2>1. Count(Distinct(Pool(gs)), 2) \in 0 .. 2 /\ Count(Distinct(Pool(rs)), 2) \in 0 .. 2
    BY <1>1, CountBounds
  <2> QED BY <2>1
<1>4. size \in 0 .. StageItems
  <2> HIDE DEF sentences
  <2>1. StageItems - sentences \in Nat
    BY <1>3 DEF StageItems
  <2>2. rest \in 0 .. (StageItems - sentences)
    BY <1>1, <2>1, CountBounds
  <2> HIDE DEF rest
  <2> QED BY <1>3, <2>2 DEF StageItems
<1>5. /\ s.size = size /\ ~ (size < MinItems)
      /\ \/ \E slack : s.item \in ItemsFrom("grammar", Distinct(Pool(gs)), slack)
         \/ \E slack : s.item \in ItemsFrom("reading", Distinct(Pool(rs)), slack)
         \/ \E slack : s.item \in ItemsFrom("vocab", Distinct(Pool(ws)), slack)
  BY DEF Stages, gs, rs, ws
<1>6. s.size \in MinItems .. StageItems
  BY <1>4, <1>5 DEF MinItems, StageItems
<1>7. CASE \E slack : s.item \in ItemsFrom("grammar", Distinct(Pool(gs)), slack)
  <2>1. \E i \in 1 .. Len(gs) : Asks(s.item, "grammar", gs[i].id, gs[i].answer)
    BY <1>1, <1>7, AsksAnEntry
  <2> QED BY <1>1, <1>2, <1>6, <2>1
<1>8. CASE \E slack : s.item \in ItemsFrom("reading", Distinct(Pool(rs)), slack)
  <2>1. \E i \in 1 .. Len(rs) : Asks(s.item, "reading", rs[i].id, rs[i].answer)
    BY <1>1, <1>8, AsksAnEntry
  <2> QED BY <1>1, <1>2, <1>6, <2>1
<1>9. CASE \E slack : s.item \in ItemsFrom("vocab", Distinct(Pool(ws)), slack)
  <2>1. \E i \in 1 .. Len(ws) : Asks(s.item, "vocab", ws[i].id, ws[i].answer)
    BY <1>1, <1>9, AsksAnEntry
  <2> QED BY <1>1, <1>2, <1>6, <2>1
<1> QED BY <1>5, <1>7, <1>8, <1>9

\* Rows are stored under their ids, so that an item is about the row it names.
LEMMA StageAnswers ==
  ASSUME job \in Jobs PROVE StageIsAnswerable
<1> DEFINE words   == Entries(job.kept)
           seen    == [i \in DOMAIN job.seen |-> job.seen[i].key]
           grammar == Entries(seen)
           E       == {Entry[k] : k \in Keys}
<1>1. /\ job.kept \in Seq(Keys) /\ job.seen \in Seq([key : Keys, version : Nat \ {0}])
      /\ Len(job.kept) \in Nat /\ Len(job.seen) \in Nat
  BY DEF Jobs
<1>2. seen \in [1 .. Len(job.seen) -> Keys]
  <2>1. \A i \in 1 .. Len(job.seen) : job.seen[i] \in [key : Keys, version : Nat \ {0}]
    <3> DEFINE R == [key : Keys, version : Nat \ {0}]
    <3>1. job.seen \in Seq(R)
      BY <1>1
    <3> HIDE DEF R
    <3>2. \A i \in 1 .. Len(job.seen) : job.seen[i] \in R
      BY <3>1
    <3> QED BY <3>2 DEF R
  <2>2. \A i \in 1 .. Len(job.seen) : job.seen[i].key \in Keys
    BY <2>1
  <2>3. DOMAIN job.seen = 1 .. Len(job.seen)
    BY <1>1
  <2> QED BY <2>2, <2>3
<1> HIDE DEF seen
<1>3. seen \in Seq(Keys) /\ Len(seen) = Len(job.seen)
  BY <1>1, <1>2, IsSeq
<1>4. words \in [1 .. Len(job.kept) -> E] /\ grammar \in [1 .. Len(seen) -> E]
  BY <1>1, <1>3 DEF Entries
<1>5. /\ \A i \in 1 .. Len(job.kept) : \E k \in Keys : words[i] = Entry[k]
      /\ \A i \in 1 .. Len(seen) : \E k \in Keys : grammar[i] = Entry[k]
  BY <1>4
<1> HIDE DEF words, grammar, E
<1>6. /\ words \in Seq(E) /\ Len(words) = Len(job.kept)
      /\ grammar \in Seq(E) /\ Len(grammar) = Len(seen)
  BY <1>1, <1>3, <1>4, IsSeq
<1>7. ASSUME NEW s \in StagesOf(job)
      PROVE  /\ s.size \in MinItems .. StageItems
             /\ Cardinality(Range(s.item.options)) = OptionCount
             /\ \A i \in 1 .. OptionCount :
                  (i = s.item.correct) =
                    (s.item.options[i] = IF s.item.kind = "vocab" THEN Entry[s.item.id].gloss
                                         ELSE Entry[s.item.id].translation)
  <2>1. s \in Stages(words, grammar, job.task.band, job.task.bands)
    BY DEF StagesOf, words, grammar, seen
  <2>2. s.size \in MinItems .. StageItems
    BY <1>6, <2>1, StagesAsk
  <2>3. PICK k \in Keys : \/ Asks(s.item, "vocab", Entry[k].id, Entry[k].gloss)
                          \/ Asks(s.item, "reading", Entry[k].id, Entry[k].translation)
                          \/ Asks(s.item, "grammar", Entry[k].id, Entry[k].translation)
    <3>1. \/ \E i \in 1 .. Len(words) : Asks(s.item, "vocab", words[i].id, words[i].gloss)
          \/ \E i \in 1 .. Len(words) : Asks(s.item, "reading", words[i].id, words[i].translation)
          \/ \E i \in 1 .. Len(grammar) : Asks(s.item, "grammar", grammar[i].id, grammar[i].translation)
      BY <1>6, <2>1, StagesAsk
    <3> QED BY <1>5, <1>6, <3>1
  <2>4. Entry[k].id = k
    BY EntryAssumption
  <2> QED BY <2>2, <2>3, <2>4 DEF Asks
<1> QED BY <1>7 DEF StageIsAnswerable

\* Whatever rows and releases there are, and however the trap scores rank the texts, a
\* stage that is built has between four and ten items, each with four different options
\* of which the marked one, and no other, is the answer of the row that is asked
\* (BuildStage, buildChoiceItems, rankedTraps, dedupe).
THEOREM StagesHaveOneAnswer == Spec => []StageIsAnswerable
<1>1. TInv => StageIsAnswerable
  BY JobFacts, StageAnswers
<1> QED BY TypeInit, TypeStep, <1>1, PTL DEF Spec
=============================================================================
