------------------------------ MODULE ReferenceData ----------------------------
(***************************************************************************)
(* The reference data of a language: the loads of its releases             *)
(* (etl/langler_etl/load.py) and the reads of the table (dynamoref), on    *)
(* behalf of browsing, topic lists, generation prompts, imports, reviews   *)
(* and placement stages.                                                   *)
(*                                                                         *)
(* A load puts the rows of a release one by one, then deletes the topics   *)
(* the release has no more, then publishes the embeddings; it may stop     *)
(* anywhere and be run again.  Meanwhile a job reads, page by page or in   *)
(* batches; its reads are eventually consistent: each sees a row as it is  *)
(* or as it was before the rows last settled.                              *)
(***************************************************************************)
EXTENDS PromptSlice, StageAssembly

CONSTANTS
  Languages,  \* languages that may be loaded
  Order,      \* the rows' keys in the order of their sort keys
  Kind,       \* Kind[k]: "GRAMMAR", "TOPIC" or "VOCAB"
  Level,      \* Level[k]: a number
  Tags,       \* Tags[k]: the topics a word's row is tagged with
  Keywords,   \* Keywords[t]: a topic's keywords
  Entry,      \* Entry[k]: the id of a row and, of a word or of grammar, its texts
  Releases,   \* numbers of releases
  Version,    \* Version[r][k]: the version of row k that release r has, 0 for none
  Words,      \* Words[k][v]: the words of topic k in version v of its row
  Near,       \* Near[text]: the ids whose embeddings are close to a text's, best first
  Scenarios,  \* bound: the release there is at first, how many loads of which releases
              \* and kinds there are then, and how many jobs of which tasks
  PageSize,   \* bound: rows on a page of a query
  PutBuffer,  \* bound: rows that a load's batch writer may put in any order
  MaxLag,     \* bound: rows that have not settled
  MaxTries,   \* batch reads before a service gives up (4 in the code)
  MaxPages,   \* pages that a placement pool is read from (25 in the code)
  None        \* no key

Keys == Range(Order)
Rank == [k \in Keys |-> CHOOSE i \in DOMAIN Order : Order[i] = k]

Kinds        == {"GRAMMAR", "TOPIC", "VOCAB"}
OfKind(S, kind) == {k \in S : Kind[k] = kind}
Topics       == OfKind(Keys, "TOPIC")
Built(r)     == {k \in Keys : r # 0 /\ Version[r][k] # 0}

ASSUME ReferenceAssumption ==
  /\ Kind \in [Keys -> Kinds] /\ Level \in [Keys -> Nat]
  /\ Order \in Seq(Keys) /\ IsInjective(Order)
  /\ Version \in [Releases -> [Keys -> Nat]]
  /\ Releases \subseteq Nat \ {0} /\ None \notin Keys
  /\ PageSize \in Nat \ {0} /\ PutBuffer \in Nat \ {0} /\ MaxLag \in Nat \ {0}
  /\ MaxTries \in Nat \ {0} /\ MaxPages \in Nat \ {0}

\* A row is stored under its own id.
ASSUME EntryAssumption == \A k \in Keys : Entry[k].id = k

(***************************************************************************)
(* topic_records makes a topic of the words of a release that are tagged   *)
(* with it, so that it has one at least and they are all in the release.   *)
(***************************************************************************)
ASSUME ReleaseAssumption ==
  \A r \in Releases : \A k \in Topics \intersect Built(r) :
     Words[k][Version[r][k]] \in Seq(OfKind(Built(r), "VOCAB")) \ {<<>>}

\* What is asked of a job, and what a scenario consists of.
Queries == [kind : Kinds, level : Nat, tag : Keys \union {None}]
Tasks ==
  [type : {"browse"}, query : Queries]
    \union [type : {"topics"}, level : Nat]
    \union [type : {"stage"}, level : Nat, band : Nat, bands : Nat]
    \union [type : {"prompt"}, level : Nat, slug : Keys \union {None},
            text : DOMAIN Near \union {None}, tokens : Seq(DOMAIN Singular)]
LoadKinds == {"all", "grammar", "topics", "vocab"}
Budgets   == [first : {0} \union Releases, loads : Nat, builds : SUBSET (Releases \X LoadKinds),
              jobs : Nat, tasks : SUBSET Tasks]

ASSUME ScenarioAssumption ==
  /\ Scenarios \subseteq Budgets
  /\ \A text \in DOMAIN Near : Near[text] \in Seq(Keys)

VARIABLES
  language,   \* the language
  budget,     \* the loads and jobs that are left of the scenario
  table,      \* table[k]: the version of row k, 0 for none
  old,        \* old[k]: as it was when the rows last settled
  load,       \* the load under way
  published,  \* the release whose embeddings are published, 0 for none
  index,      \* the release of the index this process holds, 0 for none
  known,      \* words and grammar the learner has an SRS record or a glossary entry for
  learned,    \* those that every read sees
  offered,    \* ids that prompts have offered
  job         \* the job under way

vars == <<language, budget, table, old, load, published, index, known, learned, offered, job>>
rows    == <<table, old>>
learner == <<known, learned, offered>>

KeyOrder(S) == Listed(S, [k \in S |-> {j \in S : Rank[j] < Rank[k]}])
Lagging     == {k \in Keys : table[k] # old[k]}
\* The rows that every read finds.
Steady      == {k \in Keys : table[k] # 0 /\ old[k] # 0}

Versions(k) == {0} \union {Version[r][k] : r \in Releases}
TopicRows   == [slug : Topics, keywords : {Keywords[t] : t \in Topics}, words : Seq(Keys)]

Loads == [release : {0} \union Releases, kind : LoadKinds,
          at : {"idle", "put", "scan", "delete", "publish", "done", "stopped"},
          todo : Seq(Keys), stale : SUBSET Keys, last : Keys \union {None}]

Jobs == [task : Tasks \union [type : {"import", "look"}, ids : SUBSET Keys] \union [type : {"none"}],
         at : {"idle", "search", "topics", "vocab", "grammar", "batch", "offer", "listed",
               "staged", "refused", "failed"},
         covered : SUBSET Keys, seen : Seq([key : Keys, version : Nat \ {0}]),
         last : Keys \union {None}, more : BOOLEAN, pages : 0..MaxPages, base : SUBSET Keys,
         from : Seq(Keys), chosen : Seq(Keys), limit : Nat, kept : Seq(Keys),
         listed : Seq(TopicRows), pending : SUBSET Keys, got : SUBSET Keys, tries : 0..MaxTries]

TypeOK ==
  /\ language \in Languages /\ budget \in Budgets
  /\ table \in [Keys -> Nat] /\ old \in [Keys -> Nat]
  /\ \A k \in Keys : table[k] \in Versions(k) /\ old[k] \in Versions(k)
  /\ load \in Loads /\ load.stale \subseteq Topics \ Built(load.release)
  /\ published \in {0} \union Releases /\ index \in {0} \union Releases
  /\ learned \subseteq known /\ known \subseteq Keys /\ offered \subseteq Keys
  /\ job \in Jobs

IdleLoad == [release |-> 0, kind |-> "all", at |-> "idle", todo |-> <<>>, stale |-> {},
             last |-> None]
IdleJob == [task |-> [type |-> "none"], at |-> "idle", covered |-> {},
            seen |-> <<>>, last |-> None, more |-> FALSE, pages |-> 0, base |-> {},
            from |-> <<>>, chosen |-> <<>>, limit |-> 0, kept |-> <<>>, listed |-> <<>>,
            pending |-> {}, got |-> {}, tries |-> 0]

Init ==
  /\ language \in Languages /\ budget \in Scenarios
  /\ published = budget.first
  /\ table = [k \in Keys |-> IF k \in Built(budget.first) THEN Version[budget.first][k] ELSE 0]
  /\ old = table /\ load = IdleLoad /\ index = 0
  /\ known = {} /\ learned = {} /\ offered = {} /\ job = IdleJob

-----------------------------------------------------------------------------
(***************************************************************************)
(* Loads                                                                   *)
(***************************************************************************)
Holds(kind, k) ==
  \/ kind = "all"
  \/ kind = "grammar" /\ Kind[k] = "GRAMMAR"
  \/ kind = "topics" /\ Kind[k] = "TOPIC"
  \/ kind = "vocab" /\ Kind[k] = "VOCAB"

\* The records of a build, file by file in the order of the files' names.
Records(r, kind) == KeyOrder({k \in Built(r) : Holds(kind, k)})

\* A write is accepted, and some reads see it.
Write(k, version) ==
  /\ k \in Lagging \/ table[k] = version \/ Cardinality(Lagging) < MaxLag
  /\ table' = [table EXCEPT ![k] = version]
  /\ job' = IF version = 0 THEN [job EXCEPT !.base = @ \ {k}] ELSE job
  /\ UNCHANGED old

\* A load is begun when the writes of the one before have settled.
BeginLoad(r, kind) ==
  /\ load.at \in {"idle", "done", "stopped"} /\ budget.loads > 0 /\ Lagging = {}
  /\ <<r, kind>> \in budget.builds /\ budget' = [budget EXCEPT !.loads = @ - 1]
  /\ load' = [IdleLoad EXCEPT !.release = r, !.kind = kind, !.at = "put",
                              !.todo = Records(r, kind)]
  /\ UNCHANGED <<language, rows, published, index, learner, job>>

PutRow ==
  /\ load.at = "put"
  /\ \E i \in DOMAIN load.todo :
       /\ i <= PutBuffer
       /\ Write(load.todo[i], Version[load.release][load.todo[i]])
       /\ load' = [load EXCEPT !.todo = RemoveAt(@, i)]
  /\ UNCHANGED <<language, budget, published, index, learner>>

BuiltTopics(r) == Topics \intersect Built(r)
AfterTopics == IF load.kind = "all" THEN "publish" ELSE "done"

\* All rows are put: the topics are pruned next, if the build has any.
EndPuts ==
  /\ load.at = "put" /\ load.todo = <<>>
  /\ load' = [load EXCEPT !.at =
       IF load.kind \in {"all", "topics"} /\ BuiltTopics(load.release) # {} THEN "scan"
       ELSE AfterTopics]
  /\ UNCHANGED <<language, budget, rows, published, index, learner, job>>

\* A page of the query for the keys with a prefix; a full page has a cursor.
Page(S) == LET keys == KeyOrder(S) IN FirstOf(keys, PageSize)
Cursor(page) == IF Len(page) = PageSize THEN page[PageSize] ELSE None

\* What a read may see: each row as it is or was.
Views == {[k \in Keys |-> IF k \in S THEN old[k] ELSE table[k]] : S \in SUBSET Lagging}

\* Mutant of ScanPage: one page of the topics is looked at.
ScanFirstPage ==
  /\ load.at = "scan"
  /\ \E view \in Views :
       LET page == Page({k \in Topics : view[k] # 0})
       IN load' = [load EXCEPT !.at = "delete",
                               !.stale = Range(page) \ BuiltTopics(load.release)]
  /\ UNCHANGED <<language, budget, rows, published, index, learner, job>>

\* Mutant of ScanPage: every row the release has no more is stale.
ScanEveryKind ==
  /\ load.at = "scan"
  /\ load' = [load EXCEPT !.at = "delete",
                          !.stale = {k \in Keys : table[k] # 0} \ Built(load.release)]
  /\ UNCHANGED <<language, budget, rows, published, index, learner, job>>

ScanPage ==
  /\ load.at = "scan"
  /\ \E view \in Views :
       LET page == Page({k \in Topics :
                           view[k] # 0 /\ (load.last # None => Rank[load.last] < Rank[k])})
       IN load' = [load EXCEPT
                     !.stale = @ \union (Range(page) \ BuiltTopics(load.release)),
                     !.last = Cursor(page),
                     !.at = IF Cursor(page) = None THEN "delete" ELSE @]
  /\ UNCHANGED <<language, budget, rows, published, index, learner, job>>

DeleteStale ==
  /\ load.at = "delete"
  /\ \E k \in load.stale :
       /\ Write(k, 0)
       /\ load' = [load EXCEPT !.stale = @ \ {k}]
  /\ UNCHANGED <<language, budget, published, index, learner>>

EndDeletes ==
  /\ load.at = "delete" /\ load.stale = {}
  /\ load' = [load EXCEPT !.at = AfterTopics]
  /\ UNCHANGED <<language, budget, rows, published, index, learner, job>>

\* The embeddings of the release's words are uploaded, after its rows.
Publish ==
  /\ load.at = "publish"
  /\ published' = load.release
  /\ load' = [load EXCEPT !.at = "done"]
  /\ UNCHANGED <<language, budget, rows, index, learner, job>>

StopLoad ==
  /\ load.at \in {"put", "scan", "delete", "publish"}
  /\ load' = [IdleLoad EXCEPT !.release = load.release, !.kind = load.kind, !.at = "stopped"]
  /\ UNCHANGED <<language, budget, rows, published, index, learner, job>>

\* Every replica has the rows.
SettleRows ==
  /\ Lagging # {} /\ old' = table
  /\ UNCHANGED <<language, budget, table, load, published, index, learner, job>>

-----------------------------------------------------------------------------
(***************************************************************************)
(* Reads.  job.base are the rows that a read must find: they are in the    *)
(* table, for every reader, from its beginning on.                         *)
(***************************************************************************)
QueryOf(j) ==
  IF j.task.type = "browse" THEN j.task.query
  ELSE [kind |-> CASE j.at = "topics" -> "TOPIC" [] j.at = "vocab" -> "VOCAB"
                   [] j.at = "grammar" -> "GRAMMAR",
        level |-> j.task.level, tag |-> None]

\* Grammar of a level takes in the levels below it in two languages, the highest first.
Ranged(q) == q.kind = "GRAMMAR" /\ q.level # 0 /\ language \in {"pl", "my"}

InRange(q, k) ==
  /\ Kind[k] = q.kind
  /\ \/ q.level = 0
     \/ IF Ranged(q) THEN Level[k] <= q.level ELSE Level[k] = q.level

Tagged(q, k) == q.tag = None \/ q.tag \in Tags[k]

\* Mutant of Beyond: every query goes on upwards.
BeyondUpwards(q, last, k) == last = None \/ Rank[last] < Rank[k]

Beyond(q, last, k) ==
  last = None \/ IF Ranged(q) THEN Rank[k] < Rank[last] ELSE Rank[last] < Rank[k]

OpenQuery(j, at) ==
  LET new == [j EXCEPT !.at = at, !.seen = <<>>, !.last = None, !.more = TRUE, !.pages = 0]
  IN [new EXCEPT !.base = {k \in Steady : InRange(QueryOf(new), k) /\ Tagged(QueryOf(new), k)}]

\* VocabByIDs looks ids up among the words; missing and LookupProgress, among the words
\* and the grammar.
Sought(j) == IF j.task.type = "prompt" THEN OfKind(Keys, "VOCAB") ELSE Keys \ Topics

OpenBatch(j, ids) ==
  [j EXCEPT !.at = "batch", !.pending = ids, !.got = {}, !.tries = 0,
            !.base = ids \intersect Steady \intersect Sought(j)]

Choose(j, ids, limit) ==
  [j EXCEPT !.from = ids, !.limit = limit, !.chosen = UncoveredFirst(ids, j.covered, limit)]

\* A page of a query: the filter drops rows of the page, and a placement pool is read
\* for so many pages only.
ReadPage ==
  /\ job.at \in {"topics", "vocab", "grammar"} /\ job.more
  /\ \E view \in Views :
       LET q     == QueryOf(job)
           found == KeyOrder({k \in Keys : view[k] # 0 /\ InRange(q, k) /\ Beyond(q, job.last, k)})
           page  == FirstOf(IF Ranged(q) THEN Reverse(found) ELSE found, PageSize)
           shown == Among(page, {k \in Keys : Tagged(q, k)})
       IN job' = [job EXCEPT
                    !.seen = @ \o [i \in DOMAIN shown |-> [key |-> shown[i], version |-> view[shown[i]]]],
                    !.last = Cursor(page),
                    !.pages = IF job.task.type = "stage" THEN @ + 1 ELSE 0,
                    !.more = /\ Cursor(page) # None
                             /\ job.task.type = "stage" => job.pages + 1 < MaxPages]
  /\ UNCHANGED <<language, budget, rows, load, published, index, learner>>

\* Mutant of ReadBatch: every reader asks until it is answered.
ReadBatchForever ==
  /\ job.at = "batch" /\ job.pending # {}
  /\ \E answered \in SUBSET job.pending, view \in Views :
       /\ answered # {}
       /\ job' = [job EXCEPT !.pending = @ \ answered,
                             !.got = @ \union {k \in answered \intersect Sought(job) : view[k] # 0},
                             !.tries = @ + 1]
  /\ UNCHANGED <<language, budget, rows, load, published, index, learner>>

\* A batch read answers for some of the keys it is asked for.
ReadBatch ==
  /\ job.at = "batch" /\ job.pending # {}
  /\ job.task.type # "import" => job.tries < MaxTries
  /\ \E answered \in SUBSET job.pending, view \in Views :
       /\ answered # {}
       /\ job' = [job EXCEPT !.pending = @ \ answered,
                             !.got = @ \union {k \in answered \intersect Sought(job) : view[k] # 0},
                             !.tries = IF job.task.type = "import" THEN 0 ELSE @ + 1]
  /\ UNCHANGED <<language, budget, rows, load, published, index, learner>>

GiveUp ==
  /\ job.at = "batch" /\ job.pending # {}
  /\ job.task.type # "import" /\ job.tries = MaxTries
  /\ job' = [IdleJob EXCEPT !.task = job.task, !.at = "failed"]
  /\ UNCHANGED <<language, budget, rows, load, published, index, learner>>

-----------------------------------------------------------------------------
(***************************************************************************)
(* Jobs                                                                    *)
(***************************************************************************)
Ready == job.at \in {"idle", "listed", "staged", "refused", "failed"} /\ budget.jobs > 0

Begin(j) ==
  /\ Ready /\ budget' = [budget EXCEPT !.jobs = @ - 1] /\ job' = j
  /\ UNCHANGED <<language, rows, load, published, index, learner>>

\* Reading the rows of one kind, or the topics of a level to list.
Browse(task) ==
  task.type = "browse" /\
  Begin(OpenQuery([IdleJob EXCEPT !.task = task],
                  CASE task.query.kind = "TOPIC" -> "topics" [] task.query.kind = "VOCAB" -> "vocab"
                    [] task.query.kind = "GRAMMAR" -> "grammar"))

\* What the learner knows is read first, eventually consistently.
Coverage == {S \in SUBSET known : learned \subseteq S}

ListTopics(task) ==
  /\ task.type = "topics"
  /\ \E covered \in Coverage :
       Begin(OpenQuery([IdleJob EXCEPT !.task = task, !.covered = covered], "topics"))

Prompt(task) ==
  /\ task.type = "prompt"
  /\ \E covered \in Coverage :
       LET new == [IdleJob EXCEPT !.task = task, !.covered = covered]
       IN Begin(IF task.slug # None THEN OpenQuery(new, "topics")
                ELSE IF task.text # None THEN [new EXCEPT !.at = "search"]
                ELSE OpenQuery(new, "vocab"))

BuildStage(task) ==
  task.type = "stage" /\ Begin(OpenQuery([IdleJob EXCEPT !.task = task], "vocab"))

\* A lesson that cites some of the ids it was offered is imported.
ImportLesson(ids) ==
  ids # {} /\ Begin(OpenBatch([IdleJob EXCEPT !.task = [type |-> "import", ids |-> ids]], ids))

\* The words of the learner's reviews or of his glossary are looked up.
LookUp ==
  known # {} /\ Begin(OpenBatch([IdleJob EXCEPT !.task = [type |-> "look", ids |-> known]], known))

-----------------------------------------------------------------------------
(***************************************************************************)
(* What a job does with what it has read                                   *)
(***************************************************************************)
Go(j) == job' = j /\ UNCHANGED <<language, budget, rows, load, published, index, learner>>

\* The words that are chosen are read.
GoRead(j) == Go(OpenBatch(j, Range(j.chosen)))

\* The words that are semantically near to a free text; the index is fetched once and
\* then kept.  Without it, or if none is near, topics are matched by their words.
Search ==
  /\ job.at = "search"
  /\ \/ Go(OpenQuery(job, "topics"))
     \/ LET held == IF index # 0 THEN index ELSE published
            near == FirstOf(Among(Near[job.task.text],
                                  {k \in Built(held) : Level[k] = job.task.level}), FreePool)
            choice == Choose(job, near, MatchedPool)
        IN /\ held # 0
           /\ index' = held
           /\ job' = IF near = <<>> THEN OpenQuery(job, "topics")
                     ELSE OpenBatch(choice, Range(choice.chosen))
           /\ UNCHANGED <<language, budget, rows, load, published, learner>>

TopicsRead ==
  [i \in DOMAIN job.seen |->
     [slug |-> job.seen[i].key, keywords |-> Keywords[job.seen[i].key],
      words |-> Words[job.seen[i].key][job.seen[i].version]]]
KeysRead == [i \in DOMAIN job.seen |-> job.seen[i].key]

\* The topic asked for, or those that match; the words of the level if none does.
UseTopics ==
  /\ job.at = "topics" /\ ~job.more
  /\ \/ job.task.type = "browse" /\ Go(IdleJob)
     \/ /\ job.task.type = "topics"
        /\ Go([job EXCEPT !.at = "listed", !.listed = RankTopics(TopicsRead, job.covered)])
     \/ /\ job.task.type = "prompt"
        /\ job.task.slug # None
        /\ LET asked == {t \in Range(TopicsRead) : t.slug = job.task.slug}
           IN \/ /\ asked = {}
                 /\ Go([IdleJob EXCEPT !.task = job.task, !.at = "refused"])
              \/ \E t \in asked : GoRead(Choose(job, t.words, VocabSlice))
     \/ /\ job.task.type = "prompt"
        /\ job.task.slug = None
        /\ LET matched == MatchTopics(job.task.tokens, TopicsRead)
           IN IF matched = <<>>
              THEN Go(OpenQuery(job, "vocab"))
              ELSE GoRead(Choose(job, TopicWords(matched), MatchedPool))

UseVocab ==
  /\ job.at = "vocab" /\ ~job.more
  /\ \/ job.task.type = "browse" /\ Go(IdleJob)
     \/ job.task.type = "stage" /\ Go(OpenQuery([job EXCEPT !.kept = KeysRead], "grammar"))
     \/ /\ job.task.type = "prompt"
        /\ LET choice == Choose(job, KeysRead,
                                IF job.task.text = None THEN VocabSlice ELSE FreePool)
           IN Go(OpenQuery([choice EXCEPT !.kept = choice.chosen], "grammar"))

Entries(keys) == [i \in DOMAIN keys |-> Entry[keys[i]]]
StagesOf(j) == Stages(Entries(j.kept), Entries([i \in DOMAIN j.seen |-> j.seen[i].key]),
                      j.task.band, j.task.bands)

UseGrammar ==
  /\ job.at = "grammar" /\ ~job.more
  /\ \/ job.task.type = "browse" /\ Go(IdleJob)
     \/ /\ job.task.type = "stage"
        /\ Go([job EXCEPT !.at = IF StagesOf(job) = {} THEN "refused" ELSE "staged"])
     \/ /\ job.task.type = "prompt"
        /\ Go([Choose(job, KeysRead, GrammarSlice) EXCEPT !.at = "offer"])

\* The prompt is answered with the words and the grammar that are chosen.
Offer ==
  /\ job.at = "offer"
  /\ offered' = offered \union Range(job.kept) \union Range(job.chosen)
  /\ job' = IdleJob
  /\ UNCHANGED <<language, budget, rows, load, published, index, known, learned>>

\* All of a batch is answered.  A lesson that cites what is missing is refused; one that
\* is imported adds what it cites to the glossary.
UseBatch ==
  /\ job.at = "batch" /\ job.pending = {}
  /\ \/ /\ job.task.type = "prompt"
        /\ Go(OpenQuery([job EXCEPT !.kept = Among(job.chosen, job.got)],
                        "grammar"))
     \/ job.task.type = "look" /\ Go(IdleJob)
     \/ /\ job.task.type = "import"
        /\ IF job.task.ids \subseteq job.got
           THEN known' = known \union job.got /\ job' = IdleJob
           ELSE known' = known /\ job' = [job EXCEPT !.at = "refused"]
        /\ UNCHANGED <<language, budget, rows, load, published, index, learned, offered>>

\* Another process answers the next job, with no index yet.
ColdStart ==
  /\ Ready /\ index # 0 /\ index' = 0
  /\ UNCHANGED <<language, budget, rows, load, published, learner, job>>

\* Every replica has what the learner knows.  What a job reads of it, it reads when it
\* begins, so that it need not happen during one; the answer to the last is history.
SettleLearner ==
  /\ Ready /\ learned # known /\ learned' = known /\ job' = IdleJob
  /\ UNCHANGED <<language, budget, rows, load, published, index, known, offered>>

\* Lessons are deleted, and what only they had cited leaves the glossary; between two
\* jobs, and seen by all replicas before the next.
DeleteLessons ==
  /\ Ready /\ job' = IdleJob
  /\ \E gone \in SUBSET known : /\ gone # {}
                               /\ known' = known \ gone /\ learned' = learned \ gone
  /\ UNCHANGED <<language, budget, rows, load, published, index, offered>>

Next ==
  \/ \E r \in Releases, kind \in {"all", "grammar", "topics", "vocab"} : BeginLoad(r, kind)
  \/ PutRow \/ EndPuts \/ ScanPage \/ DeleteStale \/ EndDeletes \/ Publish \/ StopLoad
  \/ SettleRows \/ SettleLearner \/ DeleteLessons \/ ColdStart
  \/ \E task \in budget.tasks : Browse(task) \/ ListTopics(task) \/ Prompt(task) \/ BuildStage(task)
  \/ \E ids \in SUBSET offered : ImportLesson(ids)
  \/ LookUp
  \/ ReadPage \/ ReadBatch \/ GiveUp \/ Search
  \/ UseTopics \/ UseVocab \/ UseGrammar \/ UseBatch \/ Offer

Spec == Init /\ [][Next]_vars

-----------------------------------------------------------------------------
(***************************************************************************)
(* Properties                                                              *)
(***************************************************************************)
\* A listing read to its end, page by page while a load rewrites and prunes the rows,
\* has every row once, in the order of the query, that was there throughout; and a batch
\* that is answered in several parts has too.  (dynamoref: query, queryRange, the
\* cursors, Topics, loadVocab, missing.)
ReadsMissNothing ==
  /\ job.at \in {"topics", "vocab", "grammar"} =>
       /\ \A i, j \in DOMAIN job.seen :
            i < j => IF Ranged(QueryOf(job)) THEN Rank[job.seen[j].key] < Rank[job.seen[i].key]
                     ELSE Rank[job.seen[i].key] < Rank[job.seen[j].key]
       /\ ~job.more /\ job.last = None =>
            job.base \subseteq {job.seen[i].key : i \in DOMAIN job.seen}
  /\ job.at = "batch" /\ job.pending = {} => job.base \subseteq job.got

\* A load that has ended left the table as its release has it: every row of the kind it
\* loaded, no topic the release has no more, and after a whole load no topic that names
\* a word that is not there - whatever was loaded before, and whether or not earlier
\* loads stopped half-way.  (load.py: load_table, stale_topic_keys, prune_topics.)
FinishedLoadIsTheRelease ==
  load.at = "done" =>
    /\ \A k \in Built(load.release) :
         Holds(load.kind, k) => table[k] = Version[load.release][k]
    /\ load.kind \in {"all", "topics"} /\ BuiltTopics(load.release) # {} =>
         {k \in Topics : table[k] # 0} = BuiltTopics(load.release)
    /\ load.kind = "all" =>
         /\ published = load.release
         /\ \A k \in BuiltTopics(load.release) :
              \A w \in Range(Words[k][table[k]]) : table[w] # 0

\* What a prompt once offered can be cited by the lesson generated from it, however late
\* it comes and whatever was loaded meanwhile: its row stays, and its import is refused
\* only while a row is being put.  (load.py: prune_topics; checkReferences, missing.)
OfferedIdsCanBeReferenced ==
  /\ \A k \in offered \union known : table[k] # 0
  /\ job.at = "refused" /\ job.task.type = "import" => ~(job.task.ids \subseteq job.base)

\* A word or topic of grammar that the learner is sure to know is chosen for a prompt
\* only with every candidate that is new to him, and the choice is as large as it may
\* be; and the first topic he is listed has a new word for him whenever one of them has:
\* following the prompts he walks the level.  (selectUncoveredFirst, coveredIDs, Topics.)
NewWordsComeFirst ==
  /\ Len(job.chosen) = Len(FirstOf(job.from, job.limit))
  /\ Range(job.chosen) \intersect learned # {} =>
       Range(job.from) \ known \subseteq Range(job.chosen)
  /\ job.at = "listed" /\ job.listed # <<>> /\ Range(job.listed[1].words) \subseteq learned =>
       \A i \in DOMAIN job.listed : Range(job.listed[i].words) \subseteq known

\* A stage that is built has between four and ten items, each with four different
\* options of which the marked one, and no other, answers it.  (BuildStage,
\* buildChoiceItems, dedupe.)
StageIsAnswerable ==
  job.at = "staged" =>
    \A s \in StagesOf(job) :
      /\ s.size \in MinItems..StageItems
      /\ Cardinality(Range(s.item.options)) = OptionCount
      /\ \A i \in 1..OptionCount :
           (i = s.item.correct) =
             (s.item.options[i] = IF s.item.kind = "vocab" THEN Entry[s.item.id].gloss
                                  ELSE Entry[s.item.id].translation)
=============================================================================
