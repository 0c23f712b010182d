------------------------------- MODULE PromptSlice -----------------------------
(***************************************************************************)
(* Which words and topics are chosen for a generation prompt and in which  *)
(* order topics are listed (application/lessons/prompt.go, topics.go).  A  *)
(* topic is a record of its keywords and its words.                        *)
(***************************************************************************)
EXTENDS Integers, SequencesExt, Listing

CONSTANTS
  VocabSlice,    \* bound: words of a level or of a topic (20 in the code)
  MatchedPool,   \* bound: words to choose from that match a free text (30)
  FreePool,      \* bound: words to choose from that need not (40)
  GrammarSlice,  \* bound: grammar of a level (8)
  TopicLimit,    \* bound: topics that match a free text (2)
  Singular       \* Singular[token]: the token without a final s

ASSUME SliceAssumption ==
  /\ VocabSlice \in Nat \ {0} /\ MatchedPool \in Nat \ {0} /\ FreePool \in Nat \ {0}
  /\ GrammarSlice \in Nat \ {0} /\ TopicLimit \in Nat \ {0}

\* Mutant of UncoveredFirst: the first ones, covered or not.
TheFirst(ids, covered, limit) == FirstOf(ids, limit)

UncoveredFirst(ids, covered, limit) ==
  FirstOf(Among(ids, Range(ids) \ covered) \o Among(ids, covered), limit)

\* The words of several topics, each where it comes first.
TopicWords(topics) ==
  LET places == UNION {{t} \X DOMAIN topics[t].words : t \in DOMAIN topics}
      Word(p) == topics[p[1]].words[p[2]]
      Before(p, q) == p[1] < q[1] \/ (p[1] = q[1] /\ p[2] < q[2])
      first == {p \in places : \A q \in places : Before(q, p) => Word(q) # Word(p)}
      order == Listed(first, [p \in first |-> {q \in first : Before(q, p)}])
  IN [n \in DOMAIN order |-> Word(order[n])]

\* How many of a text's tokens are among the keywords of a topic.
Score(tokens, topic) ==
  Cardinality({i \in DOMAIN tokens :
                 {tokens[i], Singular[tokens[i]]} \intersect topic.keywords # {}})

\* The topics that a free text matches by its words, the best first; topics come in the
\* order of their slugs.
MatchTopics(tokens, topics) ==
  LET hits == {i \in DOMAIN topics : Score(tokens, topics[i]) > 0}
      Better(i, j) == \/ Score(tokens, topics[i]) > Score(tokens, topics[j])
                      \/ Score(tokens, topics[i]) = Score(tokens, topics[j]) /\ i < j
      best == Listed(hits, [j \in hits |-> {i \in hits : Better(i, j)}])
  IN FirstOf([n \in DOMAIN best |-> topics[best[n]]], TopicLimit)

Known(topic, covered) == Cardinality({i \in DOMAIN topic.words : topic.words[i] \in covered})
Size(topic)           == IF topic.words = <<>> THEN 1 ELSE Len(topic.words)

\* The topics of a level as they are listed: the least covered first.
RankTopics(topics, covered) ==
  LET Before(i, j) == LET l == Known(topics[i], covered) * Size(topics[j])
                          r == Known(topics[j], covered) * Size(topics[i])
                      IN l < r \/ (l = r /\ i < j)
      order == Listed(DOMAIN topics, [j \in DOMAIN topics |-> {i \in DOMAIN topics : Before(i, j)}])
  IN [n \in DOMAIN topics |-> topics[order[n]]]
=============================================================================
