------------------------------ MODULE StageAssembly ----------------------------
(***************************************************************************)
(* How a stage of a placement test is drawn from the reference data        *)
(* (domain/assessment.BuildStage).  A text stands for itself; what the     *)
(* trap scores look at in it is given by constants.  BuildStage is random  *)
(* in what it asks and in the order of ties and options: Stages is the     *)
(* set of what it may build, each with one of its items.                   *)
(***************************************************************************)
EXTENDS Integers, SequencesExt, Listing

CONSTANTS
  Han,        \* Han[t]: the Han characters of a text
  Content,    \* Content[t]: its content words
  Structure,  \* Structure[t]: its structure words, "not" for a contracted one
  Questions,  \* the texts with a question mark
  Verbs,      \* the glosses of verbs
  Alike       \* Alike[{s, t}]: how many characters two readings begin with, or two
              \* sentences end with, in common

OptionCount == 4
StageItems  == 10
MinItems    == 4

AtMost(n, max) == IF n < max THEN n ELSE max

-----------------------------------------------------------------------------
(***************************************************************************)
(* The pools: entries with a prompt and an answer                          *)
(***************************************************************************)
AsWord(e)     == [id |-> e.id, prompt |-> e.headword, answer |-> e.gloss,
                  reading |-> e.reading, pos |-> e.pos]
AsSentence(e) == [id |-> e.id, prompt |-> e.example, answer |-> e.translation]

AsWords(entries)     == [i \in DOMAIN entries |-> AsWord(entries[i])]
AsSentences(entries) == [i \in DOMAIN entries |-> AsSentence(entries[i])]

Askable(c) == c.prompt # "" /\ c.answer # ""
Pool(asked) == Among(asked, {c \in Range(asked) : Askable(c)})

\* The entries of a pool that have none of these fields in common with an entry that is
\* kept before.
Unlike(pool, fields) ==
  LET kept[i \in DOMAIN pool] ==
        \A j \in DOMAIN pool :
          j < i /\ kept[j] => \A f \in fields : pool[j][f] # pool[i][f]
  IN EntriesAt(pool, {i \in DOMAIN pool : kept[i]})

\* Mutant of Distinct: two prompts may have the same answer.
DistinctPrompts(pool) == Unlike(pool, {"prompt"})

Distinct(pool) == Unlike(pool, {"prompt", "answer"})

-----------------------------------------------------------------------------
(***************************************************************************)
(* How good a trap candidate d is for the correct entry c                  *)
(***************************************************************************)
Shared(S, T)  == Cardinality(S \intersect T)
Worth(p, n)   == IF p THEN n ELSE 0
Negated(t)    == Structure[t] \intersect {"not", "no", "never"} # {}

VocabTrapScore(c, d) ==
  4 * Shared(Han[c.prompt], Han[d.prompt])
    + Worth(c.pos \intersect d.pos # {}, 3)
    + Worth((c.answer \in Verbs) = (d.answer \in Verbs), 2)
    + AtMost(Alike[{c.reading, d.reading}], 2)

SentenceTrapScore(c, d) ==
  2 * Shared(Content[c.answer], Content[d.answer])
    + Shared(Han[c.prompt], Han[d.prompt])
    + 2 * AtMost(Shared(Structure[c.answer], Structure[d.answer]), 4)
    + AtMost(Alike[{c.prompt, d.prompt}], 6)
    - Worth(Negated(c.answer) # Negated(d.answer), 4)
    - Worth((c.answer \in Questions) # (d.answer \in Questions), 4)

TrapScore(kind, c, d) ==
  IF kind = "vocab" THEN VocabTrapScore(c, d) ELSE SentenceTrapScore(c, d)

-----------------------------------------------------------------------------
\* How far below the best three a sentence's traps may be drawn, in band b of n.
Slack(b, n) == IF n < 2 THEN 2 ELSE (4 * (n - b) + n - 1) \div (2 * (n - 1))

\* The traps drawn for c: three of the best three and slack more, ties in any order.
TrapSets(kind, c, pool, slack) ==
  LET others == Range(pool) \ {c}
      PassedOver(T) == {y \in others \ T :
                          \E x \in T : TrapScore(kind, c, y) > TrapScore(kind, c, x)}
  IN {T \in kSubset(OptionCount - 1, others) : Cardinality(PassedOver(T)) <= slack}

\* The options of an item: the traps' answers with the correct one put at a place.
ItemsFrom(kind, pool, slack) ==
  LET Item(c, traps, place) ==
        [kind |-> kind, id |-> c.id, prompt |-> c.prompt, correct |-> place,
         options |-> InsertAt([i \in DOMAIN traps |-> traps[i].answer], place, c.answer)]
  IN UNION {UNION {{Item(c, SetToSeq(T), place) : place \in 1..OptionCount} :
                     T \in TrapSets(kind, c, pool, slack)} : c \in Range(pool)}

\* How many items of a kind there are, of so many wanted.
Count(pool, wanted) == IF Len(pool) < OptionCount \/ wanted <= 0 THEN 0
                       ELSE AtMost(Len(pool), wanted)

\* The stages there may be: two sentences of either kind where they are to be had, and
\* words for the rest.  There is none from too little.
Stages(vocab, grammar, b, n) ==
  LET grammars == Distinct(Pool(AsSentences(grammar)))
      readings == Distinct(Pool(AsSentences(vocab)))
      words    == Distinct(Pool(AsWords(vocab)))
      sentences == Count(grammars, 2) + Count(readings, 2)
      size      == sentences + Count(words, StageItems - sentences)
      Some(kind, pool, wanted, slack) ==
        IF Count(pool, wanted) = 0 THEN {} ELSE ItemsFrom(kind, pool, slack)
  IN IF size < MinItems THEN {}
     ELSE {[size |-> size, item |-> item] :
             item \in Some("grammar", grammars, 2, Slack(b, n))
                        \union Some("reading", readings, 2, Slack(b, n))
                        \union Some("vocab", words, StageItems - sentences, 0)}
=============================================================================
