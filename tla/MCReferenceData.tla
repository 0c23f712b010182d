----------------------------- MODULE MCReferenceData ---------------------------
(***************************************************************************)
(* A language of two levels: three rows of grammar, three topics and six   *)
(* words, of which two mean the same.  The second release has a topic and  *)
(* a word more and a topic, a word and a row of grammar less, and changes  *)
(* the words of a topic.                                                   *)
(***************************************************************************)
EXTENDS ReferenceData

MCOrder == <<"g0", "g1", "g2", "t1", "t2", "t3", "v0", "v1", "v2", "v3", "v4", "v5">>
MCKeys == Range(MCOrder)
MCKind == [k \in MCKeys |-> IF k \in {"g0", "g1", "g2"} THEN "GRAMMAR"
                            ELSE IF k \in {"t1", "t2", "t3"} THEN "TOPIC" ELSE "VOCAB"]
MCLevel == [k \in MCKeys |-> IF k \in {"g0", "v0"} THEN 1 ELSE 2]
MCTags == [k \in MCKeys |-> IF k \in {"v1", "v2", "v3"} THEN {"t1"}
                            ELSE IF k = "v4" THEN {"t2", "t3"} ELSE {}]
MCVersion ==
  <<[k \in MCKeys |-> IF k \in {"t2", "v5"} THEN 0 ELSE 1],
    [k \in MCKeys |-> IF k \in {"g2", "t3", "v2"} THEN 0 ELSE IF k \in {"g1", "t1"} THEN 2 ELSE 1]>>
MCWords == [t1 |-> <<<<"v1", "v2", "v3">>, <<"v5", "v1", "v3">>>>,
            t2 |-> <<<<"v4", "v5">>>>, t3 |-> <<<<"v2", "v4">>>>]
MCKeywords == [t1 |-> {"animal", "cat"}, t2 |-> {"house"}, t3 |-> {"house", "garden"}]
MCSingular == [cats |-> "cat", house |-> "house", star |-> "star"]
MCNear == [cats |-> <<"v3", "v0", "v2", "v5">>, star |-> <<>>]

Word(id, headword, gloss, reading, pos) ==
  [id |-> id, headword |-> headword, gloss |-> gloss, reading |-> reading, pos |-> pos,
   example |-> "s" \o id, translation |-> "S" \o id]
Sentence(id, example) ==
  [id |-> id, example |-> example, translation |-> IF example = "" THEN "" ELSE "S" \o id]
Asked ==
  [g0 |-> Sentence("g0", "sg0"), g1 |-> Sentence("g1", "sg1"), g2 |-> Sentence("g2", ""),
   v0 |-> Word("v0", "zero", "nil", "r0", {"n"}), v1 |-> Word("v1", "one", "to go", "r1", {"v"}),
   v2 |-> Word("v2", "two", "cat", "r2", {"n"}), v3 |-> Word("v3", "three", "to eat", "r3", {"v", "n"}),
   v4 |-> Word("v4", "four", "house", "r1", {"n"}),
   v5 |-> [Word("v5", "five", "to go", "r2", {"v"}) EXCEPT !.example = ""]]
MCEntry == [k \in MCKeys |-> IF k \in DOMAIN Asked THEN Asked[k] ELSE [id |-> k]]

Texts == UNION {{Asked[k].example, Asked[k].translation} : k \in DOMAIN Asked}
           \union UNION {{Asked[k].headword, Asked[k].gloss, Asked[k].reading} :
                           k \in {"v0", "v1", "v2", "v3", "v4", "v5"}}
MCHan       == [s \in Texts |-> IF s \in {"one", "three"} THEN {"han"} ELSE {}]
MCContent   == [s \in Texts |-> IF s \in {"Sv1", "Sv2"} THEN {"word"} ELSE {}]
MCStructure == [s \in Texts |-> IF s \in {"Sv2", "Sv3"} THEN {"not"} ELSE {}]
MCQuestions == {"Sv4"}
MCVerbs     == {"to go", "to eat"}
MCAlike     == [p \in {{s, u} : s, u \in Texts} |-> IF Cardinality(p) = 1 THEN 2 ELSE 0]

PromptFor(slug, text, tokens) ==
  [type |-> "prompt", level |-> 2, slug |-> slug, text |-> text, tokens |-> tokens]
BrowseFor(kind, level, tag) ==
  [type |-> "browse", query |-> [kind |-> kind, level |-> level, tag |-> tag]]
ByTopic == PromptFor("t1", None, <<>>)
Prompts == {ByTopic, PromptFor(None, None, <<>>), PromptFor(None, "cats", <<"cats", "house">>),
            PromptFor(None, "star", <<"star">>)}
Lists == {[type |-> "topics", level |-> 2]}
Reads == {PromptFor("t3", None, <<>>), BrowseFor("VOCAB", 2, "t2"), BrowseFor("VOCAB", 0, None),
          BrowseFor("GRAMMAR", 2, None), BrowseFor("TOPIC", 0, None)}
StageTasks == {[type |-> "stage", level |-> 2, band |-> b, bands |-> 2] : b \in {1, 2}}

Scenario(first, loads, builds, jobs, tasks) ==
  [first |-> first, loads |-> loads, builds |-> builds, jobs |-> jobs, tasks |-> tasks]
MCScenarios ==
  {Scenario(r, 2, {1, 2} \X {"all", "grammar", "topics", "vocab"}, 0, {}) : r \in 0..2}
    \union {Scenario(1, 1, {<<2, "all">>}, 1, Prompts \union Lists \union Reads \union StageTasks),
            Scenario(0, 1, {<<1, "all">>}, 1, StageTasks),
            Scenario(1, 1, {<<2, "all">>}, 2, {ByTopic}),
            Scenario(1, 0, {}, 3, Prompts \union Lists)}
=============================================================================
