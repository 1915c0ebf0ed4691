# MarkQL in TLA+

MarkQL runs SQL-like queries over HTML. A C++ core parses a document into a node
table and evaluates queries over it; a command line, a Python package, a browser
extension with a local agent, and a helper that lets a language model write queries
are built around it. This directory holds TLA+ modules translated from that code, the
configurations TLC checks them with, and proofs that TLAPS checks. Paths below are
relative to the root of the repository; `PROJECT.json` maps every definition
to the lines it stands for.

Contents

1. Inventory: the parts of the system, their state, and what makes them correct
2. The modules, and how they correspond to the code
3. The runs: what each asks, its bounds, and why they are enough
4. Fairness
5. What is proved, from which assumptions, along which argument
6. Where the code and its documents disagree
7. What is only model-checked, and what is not modelled
8. The plan
9. How to run it

## 1. Inventory

### Document model — `core/src/dom`

*State.* `doc.nodes`, a vector of nodes (tag, attributes, `parent_id`, text,
`inner_html`, `max_depth`, `doc_order`), and while parsing a stack of open elements.
*Operations.* `parse_html_naive` scans the text once; `compute_document_metadata` walks
the finished table twice, for `doc_order` and `max_depth`. With libxml2 another backend
fills the table. *Interactions.* Everything else reads the table: the filter's axes,
ORDER BY, joins, the agent's cache, the explorer. *Hard.* The scanner does no
recovery: a closing tag closes whatever is innermost, so a missing or superfluous tag
shifts everything after it; text, `inner_html` and scripts are filled by three
handlers at different times. *Correct when* the table is a tree in document order
whatever the text, contents nest as elements do, and the walks compute what they are
named for.

### Query engine — `core/src/runtime`

*State.* None between queries; within one, the relations of the FROM clause, a stack of
queries under evaluation and a cache of join indexes. *Operations.* Validation, selection
(`eval_expr`, one axis walk per comparison), ORDER BY, LIMIT, aggregates, PROJECT and FLATTEN,
table extraction, joins and CTEs, TF-IDF. *Hard.* Much is written twice: comparisons, for a
literal and for a computed right-hand side; functions, for SELECT and for PROJECT; axes, for
WHERE, for columns and for FLATTEN; the text of an element, by the parser and by a second scan of
`inner_html`; whole queries, by the executor and, once a WITH, a JOIN or a derived table
is in them, by the relation runtime. COUNT has a short way that bypasses every clause; rows are
left out before WHERE can see them; joins have three strategies and share an index cache. *Correct
when* the twins agree, rows are a sorted prefix of what is selected, counts add up, no cell of a
table is lost, and strategies are unobservable.

### Language — `core/src/lang` and the validation rules

*State.* The lexer's position; the parser's current token, one token of lookahead, the first error
and the CTE names that are in sight (`cte_names_`). *Operations.* `next` makes a token, a
recursive-descent production reads one construct, `validate_query_for_execution` decides
whether the tree may run. *Hard.* Comments, strings and names compete for characters; AND, OR,
EXISTS and parentheses go round through mutually recursive functions; `cte_names_` grows
during a WITH and is put back by subqueries; options come in any order but have rules between them;
validation stops at the first aggregate. *Correct when* each character belongs to one region, a
predicate is grouped as the grammar says, a name means the definition in sight, and neither parser nor
validation depends on an order that the language does not have.

### Browser agent — `browser_plugin/agent/src/main.cpp`

*State.* `SnapshotCache` (a map from a digest to a prepared document and an access
time, under a mutex), and one detached or joined worker thread per execution.
*Operations.* `POST /v1/query`: check the token, parse the message, `get_or_insert`,
execute with a timeout, map the result. *Interactions.* httplib runs handlers on a
pool; the extension posts snapshots. *Hard.* The cache is left and re-entered around the
parse; copies outlive evictions; the worker's answer races the timeout; a thread may
not start. *Correct when* each request is answered once, about its own snapshot and
query, the cache stays bounded and least-recently-used, and no reply leaves a thread
behind but a timeout.

### Extension panel — `browser_plugin/extension/popup`

*State.* The snapshot (text, scope, documents, selected id), result, error, query,
settings, tab, buttons; `chrome.storage` for sessions and settings. *Operations.*
Capture, run, one-shot, copy, export, select, settings, restore at opening. *Hard.*
Every operation awaits Chrome or the agent; `guarded` disables buttons but is no lock,
since the shortcut and the menus start actions beside it; the panel can be closed at any await and
reopened. *Correct when* the text that runs post is the selected document's, an error shows
no rows, buttons come back, and a run posts a document.

### Helper — `core/src/helper` and `python/markql/helper`

*State.* A `ControllerSnapshot` of what is known (artifact, pack, lint, execution,
analysis, model decision, repairs made). *Operations.* The orchestrator asks the core
`plan_next_step`, carries it out with tools or the model, and files the answer;
`analyze_result` judges rows. The core exists in C++ and, as a fallback, in Python.
*Hard.* The controller keeps no state: what happens next follows from which
summaries were filed or dropped; two guards share one repair counter kept by another
file; a step limit cuts anywhere. *Correct when* no summary is stale, repairs are bounded, a
recommendation was earned, both cores agree, and an attempt ends.

### Command line — `cli`

The REPL (a line editor with vim mode and history, completion, plugins loaded as
shared libraries, commands), a full-screen DOM explorer, a script runner, rendering and export.
*State.* The editor's buffer, cursor, history and undo; the plugin table, the command
registry and the tokenizer table. *Hard.* Plugins register functions that outlive the
library; the editor's cursor at its boundaries.

### Around them

The Python package (bindings, loading with size and redirect limits), the helper's
packs, prompts and model client, the panel's query editor, SHA-256, Khmer numbers,
editor extensions, plugins, benchmarks. `PROJECT.json` lists each with its files, and the `hazards` of
all of them at their lines.

### How they interact

```
 panel --POST /v1/query--> agent --thread--> engine --> node table <-- parser
 (chrome.storage)          (cache)             |
 helper orchestrator --tools--> lint, engine   +--> rows -> map_result -> panel
        |--core (C++ or Python)
        '--model
 REPL, scripts, explorer, Python package ---> language ---> engine
```

The agent's model takes the engine as a function of a document and a query (`Outcome`),
which the engine's own modules justify: `execute_query_from_document` keeps no
state. `Results` composes the parser, the filter, the row and table builders and the agent's
mapping into the one way from a page to a reply. The helper takes lint and execution by their summaries. The panel takes the
agent by its reply.

## 2. The modules

| Part | Modules | Code |
|---|---|---|
| Agent | `AgentProtocol`, `AgentService` (abstract), `Agent`, `AgentProperties`, `AgentProofs`, `MCAgent` | `agent/src/main.cpp` |
| Helper | `HelperContracts`, `HelperCore`, `HelperLocal`, `Helper`, `HelperAttempt` (abstract), `HelperProperties`, `HelperProofs`, `MCHelper` | `helper_controller.cpp`, `helper_policy.cpp`, `helper_result_analysis.cpp`, `orchestrator.py`, `local_core.py` |
| Panel | `Popup`, `PopupProofs`, `MCPopup` | `popup/runtime.js`, `app.js`, `background.js` |
| Engine | `HtmlDocument`, `Filter`, `Executor`, `EngineProperties`, `HtmlDocumentProofs`, `EngineProofs`, `DataLemmas`, `MCEngine` | `parser_naive.cpp`, `html_parser.cpp`, `filter*.cpp`, `executor.cpp`, `order.cpp`, `execute_dom.cpp` |
| Relations | `RelationJoin`, `RelationRuntime`, `RelationProperties`, `RelationProofs`, `MCRelations` | `execute_relation*.cpp` |
| Results | `Texts`, `TableResult`, `Projection`, `AgentMapping`, `Results`, `ResultProperties`, `ResultProofs`, `MCResults` | `execute_common.cpp`, `column_names.cpp`, `table_extract.cpp`, `execute_output.cpp`, `execute_dom_projection.cpp`, `execute_dom_descendants.cpp`, `result_builder.cpp`, `map_result` of the agent |
| Language | `Lexer`, `ParserExpr`, `ParserSelect`, `ParserQuery`, `QueryValidation`, `Language`, `LanguageProperties`, `MCLanguage` | `lang/parser/*.cpp`, `query_validation_rules.cpp`, `query_validation_entry.cpp` |

Definitions carry the source's names where TLA+ allows. Operators named
`<definition>_<how>`, such as `must_evict_late`, are mutated forms of the definition
after them: they are used by nothing and stand for a plausible slip in the code,
which the named property detects.

**Agent.** A handler is a thread; `pc[r]` is where it is. One action is what a handler
does between two points where another thread can run:

| Action | Code |
|---|---|
| `Arrive`, `Begin` | httplib queues a request; a pool thread takes it, `is_unauthorized` and `parse_request` run |
| `Lookup` | first critical section of `get_or_insert`: hit, or a miss |
| `Prepare` | the parse outside the mutex; it may fail |
| `Insert` | second critical section: look again, evict the oldest, insert |
| `Spawn` | `std::thread`, which throws at `ThreadLimit` |
| `Finish` | the worker's query ends |
| `WaitReady`, `WaitTimeout` | `wait_for`: join and reply, or detach and reply `TIMEOUT` |
| `Quiet` | no request is left: the system rests |

`clock` is the steady clock as read under the mutex: strictly increasing there, so stamps
never tie. `AgentService` is the promise without cache, threads and timer: `Ask` and `Answer`,
with the answers `Allowed` for a message.

**Helper.** One action per branch of the orchestrator's loop. Each is guarded by the step
that the loaded core (`native`) plans, and drops exactly the summaries that the Python
code pops. Tools and the model answer anything from `Lints`, `Executions`, `Decisions`, and
may raise. `about` is a history variable: the query each summary is about, and the
artifact the analysis was made with. `HelperCore` and `HelperLocal` are the two cores,
translated separately. `HelperAttempt` is the promise: a query is linted, then run, then
judged, replaced at most twice, and recommended only if judged good.

**Popup.** A step runs from one `await` to the next. A task is one call of `guarded`;
`tasks[t].pc` is the await it is at. `Begin` starts the user's operations, `Continue` is
an answer of Chrome or the agent, `Unanswered` its failure. `Type`, `TypeToken`, `ShowTab` and
`Reopen` are guarded by nothing, as in the code; the user may open another page at any time, so a
capture is of any page. `Restoring` is `restoreSettings`.
Chrome's storage serves calls in order, so writes take effect at the call.

**Engine.** `HtmlDocument` reads a text as a sequence of the pieces that the scanner
tells apart (an opening tag, a closing tag, a run of text, a comment); a position is an index in that
sequence and a string cut out of the text is the positions it was cut from, so properties
of nesting are statements about intervals. `Skip`, `OpenTag`, `OpenRaw`, `CloseTag`,
`TextRun` are the scanner; `ParseEnds`, `NumberNode`, `OrderEnds`, `MeasureNode`,
`DepthEnds` the two stack walks. `Filter` has the axes and both comparison
paths; `Executor` selection, ORDER BY, LIMIT, COUNT and SUMMARIZE, and `Execute`, which answers one query
from the finished table. Nodes count from 1, and 0 is "no parent".

**Relations.** `RelationJoin` has rows of several sources, the second evaluator
(`eval_relation_expr`), the plan that is read off an ON, and the three joins. In
`RelationRuntime` a query under evaluation is a frame: `frames` is the call stack of
`evaluate_query_relation`, `indexes` the cache of join indexes that outlives the frames. One action
is what the code does up to a call of itself: taking a CTE, a derived table or a document as source,
planning and executing one join, the tail (WHERE, ORDER BY, LIMIT, columns) that returns
a relation to the frame below. Every `throw` is an action that ends the statement with its error. A
subquery that needs no relations is handed to `Executor`, as in the code.

**Results.** `Texts` stands for the strings: a text is a sequence of words, each a letter or a
whole tag; a no-break space is two of them, its bytes, for `trim_ws` reads bytes and TO TABLE whole characters. `TableResult` is TO TABLE with trimming, shapes, headers and the names of columns;
`Projection` scans the string of an element a second time, as `table_extract.cpp` does, and makes the
columns of SELECT, PROJECT and FLATTEN with both function evaluators, each a recursive function of the expressions inside
of the one it is asked for (`Inside`, to the depth `Nesting`); `AgentMapping` is the reply. `Results` goes from the parser's last step through `Ask` (a query answered) to `Reply`
(its result mapped); `page.of` chooses what is asked of a page.

**Language.** A production is a function from tokens to `[ok, ast, rest, ...]`; the mutually recursive
productions are one recursive function, `Grammar`, of a symbol and the tokens. The lookahead is
the second token of `rest`. A production that can define or forget CTE names answers with them too (`names`), so
that `parse_subquery` puts them back as an assignment of its own. `Language` has one action, `Type`, which adds a piece of text to what was
typed and parses it again: the parser keeps nothing between texts, so every reachable state is a
text with what the parser answers. Words of the language are tokens; only the sessions
`comments` and `words` go character by character through `Lexer`.

## 3. The runs

A passing run explores its whole state space. Every property has a mutant in
`PROJECT.json`: a slip in a mapped definition under which TLC finds the property violated by the
same configuration.

| Run | Question | Properties |
|---|---|---|
| `agent_service` | Do racing handlers, evictions, timeouts and thread failures stay invisible to clients, and is each answered? | `AgentInv`, `ImplementsService`, `EveryRequestAnswered` |
| `agent_cache` | Is what outlives a request bounded; is the cache stable and LRU under interleaving? | `LeftoversBounded`, `NeverReplaced`, `LeastRecentlyUsed` |
| `helper_attempt` | Is nothing acted on that is stale; do the cores agree; is the promise kept? | `HelperInv`, `DoneIsEarned`, `CoresAgree`, `AnalyzerClimbsOneLevel`, `ImplementsAttempt` |
| `popup` | Do overlapping actions, closing and restoring keep the panel coherent, and does it come back? | `PanelInv`, `ButtonsComeBack` |
| `popup_all` | Do one-shots, copies, settings, edits and tabs ever leave rows beside an error? | `PanelInv` |
| `engine` | Is the table a tree whatever the tags; do the evaluations agree? | `DocInv`, `Nested`, `MetadataInv`, `AxesInverse`, `PathsAgree`, `FirstRows`, `CountsAddUp` |
| `relations` | Are join strategies, kept indexes, the early filter and the second runtime unobservable; do schemas cover the rows? | `SchemaInv`, `IndexInv`, `JoinComputesOn`, `PrefilterUnobservable`, `RuntimesAgree`, `LeftJoinKeeps` |
| `relations_index` | The same of two derived tables that are looked up on the same columns (violated) | `JoinComputesOn` |
| `results` | Is what is read or computed twice the same; does every cell arrive in the reply? | `ScansAgree`, `TablesKeepCells`, `NormalizedNamesDistinct`, `ScalarsAgree`, `ProjectReads`, `ColumnReadsWhatWhereReads`, `FlattenMeansWhere`, `ReplyInv` |
| `results_like` | Does LIKE match what a pattern means? (violated) | `LikeMatches` |
| `language` | Does every text mean what the grammar says, whatever the order it is written in? | `CommentsAndStrings`, `PredicatesReadBack`, `NamesMeanDefinitions`, `OptionsInAnyOrder`, `VerdictInAnyOrder` |
| `language_qualifiers` | Does validation reject every qualifier that names no source? (violated) | `QualifiersBound` |

Bounds, and why they are enough:

* `agent_service`: 3 requests, 3 snapshots of which one cannot be parsed, 2 queries of which one
  fails on one snapshot, a cache of 1, a pool of 2, 2 worker threads. Two handlers race for one
  snapshot while a third evicts it or waits for a thread of the pool, and a third worker cannot start.
  Messages have each kind of rejection. 260 thousand states; no symmetry, since liveness is checked.
* `agent_cache`: 4 requests, 3 snapshots, a cache of 2, a pool of 2: enough for a hit to
  restamp one entry while another handler chooses what to evict, and for a
  third document to come back. 301 thousand states; requests and snapshots are symmetric.
* `helper_attempt`: 2 queries (a current and another), every case of lint, execution and
  decision that the core tells apart, the code's limit of 12 steps. 127 thousand states.
* `popup`: 2 overlapping tasks over a page with two documents, all that captures, selects and
  runs, an empty session or one left by an earlier version of the extension. 391 thousand states. Tasks
  interact only through the panel's shared fields, and each hazard of the list is an overlap of two of
  them, or of one with the restore; a third was not tried.
* `popup_all`: 1 task beside everything that is not guarded, over a page with one document and a session
  of an earlier version. 1.87 million states. No property reads which page a document is from.
* `engine`: every text of at most 4 pieces out of nine (plain and void elements, a
  script, a self-closed script, attributes, two closing tags, text, a comment), and of at most 6 of one
  element and text, which reach three levels with missing and superfluous closing tags; ten queries
  that cover every axis, operator class, ORDER BY kind and aggregate of the model. 186 thousand states.
* `relations`: five documents, the empty one and nested lists with numerals, padded numerals, words and
  missing attributes, and one statement for each way that a query can go: each source, each
  strategy and join type, LATERAL, CTEs that shadow each other, derived tables that bring CTEs of
  their own, EXISTS left aside. What the statements leave out is the product of the ways; each
  property reads one step of one frame, so two ways meet only through `indexes` and `ctes`, which the
  statements with two joins or two definitions exercise. For `RuntimesAgree`, which compares the answers of two
  runtimes, plain queries come as a product: thirteen forms of WHERE and none, under nine orders with a LIMIT, counted
  with and without one, and of one tag. 6 thousand states.
* `relations_index`: one statement with three joins, the last two of derived tables.
* `results`: contents of up to three pieces of nine and five of four; nested rows, cells and tables
  closed in any order up to five pieces; tables of up to two rows of two cells (four rows for
  STOP_AFTER_EMPTY_ROWS), no-break spaces among their letters, under every option of TO TABLE, HEADER_NORMALIZE
  said to be on, off or not at all; two items in one or two elements for every
  selector, operand and FLATTEN depth; both evaluators of every function over texts up to three
  letters; names of up to three columns; replies of every result of at most two tables of two rows
  of two cells under every row limit. Calls go three deep (`Nesting`). A second row and cell is what an off-by-one needs, a
  third piece what nesting needs. 175 thousand states.
* `results_like`: patterns of up to three letters with wildcards.
* `language`: thirteen sessions (`MCLanguage`), each a place in the grammar with the pieces that can follow:
  predicates to 19 tokens, one comparison and calls piece by piece, SELECT lists, PROJECT, TFIDF,
  WITH to 24 tokens, FROM and joins, the clauses behind FROM, the options of TABLE, and characters,
  four at a time. A text that failed before its end is not continued, for the parser stops at the first
  error. `SignedMax`, `UnsignedMax` and `MaxLimit` stand for the limits of stoll, stoull and LIMIT. 407 thousand states.
* `language_qualifiers`: one comparison with qualifiers on either side.

CHECK_DEADLOCK is off only where a system really stops: after a helper's attempt, an answered query, a
reply, or a text as long as its session allows. The agent's `Quiet` step is allowed only when no request is left, so a deadlock of
handlers would be found; the panel is checked for deadlock too.

## 4. Fairness

* Agent: `WF_vars(Handler(r))` for each request, the scheduler running every thread that can run,
  and the timer firing. Nothing is assumed of workers: a query may never end.
* Panel: `WF_vars(Continue(t))` for each task and `WF_vars(Restoring)`: Chrome and the
  agent answer what they are asked, which the agent run shows of the agent. Nothing is assumed of the user.

## 5. What is proved

TLAPS checks the following for every value of the constants. Runs check some of these under a
common name, that of the inductive invariant they are a part of: `CapacityRespected` of `AgentInv`;
`RepairBudget` and `SummariesCurrent` of `HelperInv`; `DocTypeOK` and `ContentNested` of `DocInv`;
`MetadataOfTree` of `MetadataInv`; `SnapshotCoherent`, `NoRowsBesideAnError` and `RunsCarryADocument` of
`PanelInv`; `IndexesAreCurrent` of `IndexInv`; `SchemaCoversRows` of `SchemaInv`. So what is inductive is
model-checked first, by the run that its properties belong to, and then proved.

**Agent** (`AgentProofs`). `AgentInvariance`: `Spec => []AgentInv`. That a reply is about the request's own document is not inductive by
itself: the document passes through the handler's parse, the entry, the copy of the entry and the worker. `AgentInv` says of each of
them whose parse it holds (`OwnDocument`), how far the handler is that holds it (`Progress`), and
that no stamp is from the future (`StampsPast`, which makes a touched entry the newest). From it:
`CacheCapacity`, `CachedParseStays` (`NeverReplaced`), `EvictionIsLRU` (`LeastRecentlyUsed`), and
`AgentImplementsService`, the refinement: each step is an `Ask`, an `Answer` or a stutter; and
`LeftoversAreBounded`: threads, prepared documents and workers that outlive their request are no more than
the requests that timed out, by counting over the requests (`DataLemmas`).
*Assumed* (`AgentAssumption`): SHA-256 is injective on the snapshots posted; the cache, the pool and
the thread limit are not empty.

**Helper** (`HelperProofs`). `PlannersAgree`: the two planners plan the same step from every
snapshot that has not ended, reachable or not. `HelperInvariance`: `Spec => []HelperInv`; the invariant adds
to the properties that an attempt runs exactly while it has no outcome, and that a proposed query is
the current one at once, without which `SummariesCurrent` is not preserved by a lint. From it
`AtMostTwoRepairs`, `NothingStale`, `RecommendationsEarned`, `CoresStayInStep`, `EscalationsClimb`, and
`HelperImplementsAttempt`, the refinement of `HelperAttempt`. *Assumed*: the answers of tools and the
model have the types the adapters check (`AnswersAssumption`); the step limit is a number.

**Engine** (`HtmlDocumentProofs`, `EngineProofs`). `DocInvariance`: `DocSpec => []DocInv`, for every
text over every vocabulary. `Nested` and `ContentNested` speak of finished
elements; `DocInv` says what is true while some are open: the stack climbs (`StackClimbs`) and is a
lineage (`StackIsLineage`), all that came after an open element is inside of it (`OpenHoldsTheRest`), an open element has no
`inner_html` and text only after its tag (`OpenContent`), and its closed children were closed after
it opened (`ClosedInside`). The preservation proof has one lemma per
step of the parser (`OpenTagKeeps`, `OpenRawKeeps`, `CloseTagKeeps`, `TextRunKeeps`), and one
conjunct at a time under it. `EngineInvariance`, `TableIsATree`, `ContentsNest` and
`DocumentTypes` carry it to the whole engine.

`MetadataInvariance`: `Spec => []MetadataInv`, the two walks of `compute_document_metadata`. While numbers
are given, the stack is exactly the frontier of what is numbered (`Frontier`), so that the
order found is that of the text; while depths are measured, `LeftToMeasure` says which nodes are
still on the stack and that a node is measured after its children. `MetadataIsOfTree` is the consequence
for a finished document: `doc_order` is the node's number and `max_depth` the height of its subtree.

On the table so proved, what queries read: `AxesAreInverse` (a node is in another's ANCESTOR axis exactly if
that one is in its DESCENDANT axis, and descendants are a run of the table), `ComparisonsAgree`
(the filter for literals and the filter for computed values hold of the same nodes, NULLs
aside), `AnswersAreFirst` (an answer is the first rows, in the order asked for, of the nodes
that WHERE holds of: none is missing, repeated or out of order, and LIMIT cuts behind) and `CountsAreOfHits` (COUNT
and SUMMARIZE count those rows, and the counts of the tags add up to the whole). The sort's argument is that
`NodeBefore`, with ties broken by place, is a strict total order, so that a node's place is the
number of nodes before it. *Assumed* (`HtmlAssumption`, `RankAssumption`, `QueriesAssumption`): texts are
sequences of pieces, tags have a rank that is an integer, and queries have their type, with at most one LIMIT.

**Panel** (`PopupProofs`). `PanelInvariance`: `Spec => []PanelInv`. `PopupInv` adds to its properties what
a task that sleeps in an await still holds (`TasksHold`): whose button it disabled, and that what it
captured is complete before it is assigned at once. `DocumentsStay`, the second part, says that a panel that
has documents keeps having some, since nothing empties the snapshot: that is why a run, which checks for documents
long before it posts one, posts one. From it `PanelIsCoherent` (`SnapshotCoherent`), `RowsOrError`
(`NoRowsBesideAnError`), `RunsPostDocuments` and `DocumentsAlwaysStay`. *Assumed*
(`PopupAssumption`): pages and stored sessions have the types that the scripts write.

**Relations** (`RelationProofs`). Two inductive invariants of a stack of frames whose tops are pushed,
replaced and popped, and a third of the values in their rows.

`IndexInvariance`: `RelSpec => []IndexInv`. That an index kept under a CTE's key is that CTE's
(`IndexesAreCurrent`, proved as `IndexesStayCurrent`) is not inductive: CTEs of one name are
defined, shadowed and dropped while indexes stay. What makes it so is that a number is never given twice: every CTE in scope
has a number below the next (`KeysAreNumbered`), two CTEs of one key are the same one (`KeysTellApart`), and no
index has a key that is still to be given (`IndexesAreOld`). A CTE is joined under another alias; `RenamedIndex` shows
that its index is the same. The key of derived tables is excepted, as the run `relations_index` shows it has to be.

`SchemaInvariance`: `RelSpec => []SchemaInv`. Joins are planned, and the rows that a LEFT JOIN pads are made, from a
relation's schema; that the schema covers the rows (`SchemaCoversRows`, proved as `SchemasCover`) needs that of
everything rows come from: results are sequences of rows, a CTE and a source have one alias and a schema only if they have
a row (`OfOneAlias`), the half-made relation of a LATERAL join has the right side's alias exactly once it has a
row (`MadeFrom`), and a kept index, whichever relation it was made from, finds positions (so that a stale one
can be noticed as out of range, and a match is a row). There is one lemma for each way to make rows (`SourceIsSound`,
`OuterIsSound`, `JoinIsSound`, `MoreRowsAreSound`, `ThoseAre`, `ArrangedIs`, `ShortenedIs`, `ResultIsRows`) and one for each step.
It uses `IndexInv`, and `DocInv` for the table. On top of it `LeftJoinKeepsRows` (`LeftJoinKeeps`): the matches of a left row are some
places of the right relation in order or there is a padded row, so that the first row made for each left row can be named, and
merging or padding leaves the left columns alone.

`ValueInvariance`: `RelSpec => []ValueInv`. A field is NULL or one value (`IsCell`), and the value is `Known`: an attribute's, a literal's, a
number or a tag of a node, or one of these as a result keeps it. Rows come from nodes, results of frames and of the executor,
joins, padding and outer rows; there is one lemma for each (`NodeRecordKnown`, `ReplyKnown`, `LegacyKnown`, `JoinedKnown`, `PaddedKnown`,
`UnderOuterKnown`). The runs do not list it, for `Known` ranges over all integers; TLC checked it with the integers cut to
those of the instance.

`JoinsComputeOn`: `RelSpec => [](DerivedIsFresh => JoinComputesOn)`, the theorem that the join code is about: a hash join and a lookup, in
an index that was kept or one that is built, covering ON or a part of it, make the rows of the nested loop in its order. A hash key tells two values
apart exactly if `=` does (`KeyIsRead`), an ON of one equality is that equality (`EqualityMeans`), the comparisons that
a lookup covers are conjuncts of an ON (`AndsMean`), and a candidate that was not tried is one for which ON is not true. It
*assumes* `SpelledOneWay(Known)`: values of the same letters are the same number or none. The runtime
keeps strings and reads numbers off them, so this is so in the code; in the model it is a property of `Attributes` and of TLC's `ToString`, which
TLA+ does not define (TLC confirmed it on the instance). `DerivedIsFresh` excepts exactly what `relations_index` shows: an index kept under
the key of all derived tables that is of another one. Where ON throws for some pair, `JoinComputesOn` asks nothing, for a strategy that
tries fewer pairs may not throw.

`PrefilterIsUnobservable`: the equalities that `collect_source_prefilter_constraints` finds under the ANDs of WHERE are true of every row that WHERE
holds of (`EqualitiesHold`, by induction on the depth of expressions), their left side is read off the node's own record
(`AskedColumns`, `ReadOffItsRecord`), and their right side is on the row what it was before there was one (`SameWhenAskedEarly`). Two
conditions are needed and stated: no attribute is called `tag` or `parent_id`, and under an outer row the right side is qualified and the
source hides no alias of it (`ReadAhead`). Section 6 says what happens otherwise. On the instance they hold wherever the property is asked,
with and without an outer row.

*Assumed* (`StatementsAssumption`, `ExprsAssumption`, `ComparisonsAssumption`, `VisitsAssumption`): WITH, FROM, PROJECT and ORDER BY are sequences, WHERE, LIMIT,
an alias and a qualifier are at most one, scalars have operands of an axis, the queries of CTEs and derived tables, at any depth, are among `Subqueries`, expressions
are trees, and `=` has a right side: what the parser makes.

**Results** (`ResultProofs`). `NormalizedNamesSafe`: `ResultsSpec => []NormalizedNamesDistinct`, from
`NormalizedColumnsDiffer`, which is about `build_column_name_map` itself: for every sequence of names it can be given, the
normalised ones are all different, and normalising one again leaves it as it is. The argument is the shape of a normalised name
(`IsName`): words with one underscore between them, none in front, and one at the end only where it is there to tell a
keyword apart. Each step of `normalize_colname` has a lemma (`TrimmedIs`, `CollapsedIs`, `IdentifiedIs`, `BegunIs`, `ReservedIs`);
together they give the shape (`NormalizedIsName`), and every step leaves a text of that shape alone (`NameStays`). The suffix of a repeated
name has two underscores, so it is the own name of no column (`SuffixedNotApart`) and name and number can be read
from it (`SuffixedOnce`), and a value that is met for the n-th time has n of them up to there (`SeenTells`). It *assumes*
`NumeralsDiffer`: no two numbers have the same numeral, which is so of `std::to_string` and is said because TLA+ does not define TLC's `ToString`.

`ReplySafe`: `ResultsSpec => [](ResultTypeOK => ReplyInv)`, for every result, every number of tables, rows and cells, and every limit. The
inductive invariant `AnswerInv` (`Answered`) says what is answered and what is replied: nothing before the reply, and
then `map_result` of the result that the state holds. The rest is about `map_result`: a reply has the first rows, `max_rows` of them at most, and is
marked as cut exactly if there were more (`EmitIs`, `EmitCuts`); a row of a table is padded to the widest of all tables behind its
table's id (`WidthIs`, `RowOfTable`), so that a reply is rectangular; the rows of several tables are joined in
order, and so are those they are made from (`PairedFlattened`, `RowsOfAll`), so that row k of the reply is made from data row k and has its cells
in their places. That a result is made of sequences (`ResultTypeOK`) is a hypothesis: the run checks it. *Assumed*
(`ResultsAssumption`, `SmallAssumption`, `NamesAssumption`): a limit is an integer or NULL, which is none, names are texts, lower case has no capitals, and
an underscore and `col` have none.

**`DataLemmas`** has what these proofs share about finite sets, sequences, counting, the least number with a property, and folds.
Two limits of the prover shaped the modules. A lemma cannot take an operator, so induction is done by the
least counterexample, once for each recursive function that needs it; that works for functions over `0 .. N`, such as
`Descendants`, `lineage` and the axes, and over expressions, by their depth (`RecursionOnDepth`, `DepthInduction`). And it cannot expand an operator that is given a LAMBDA (SelectSeq, SetToSortSeq), which
is why rows that are filtered or sorted are written as the sequence whose k-th element has k - 1 elements of a set before it
(`Sorted`, `Ascending`).

## 6. Where the code and its documents disagree

Three disagreements have a run that shows them:

* `relations_index`: every derived table has the cache key `relation_result`, so an index that a join made of one
  is used for the next derived table joined on the same columns: wrong rows, or rows beyond its end.
* `results_like`: `like_match_ci` compares letters before it looks for a wildcard, so a `%` in the text
  consumes the `%` of the pattern; the guide says `%` is any sequence.
* `language_qualifiers`: only the left side of a comparison has its qualifier checked; `WHERE id = b.id` runs
  with `b.id` read from the row itself, where the validator's comment promises to throw.

Others were met, are followed by the model, and have no run:

*Language.* An unknown character reads as the end of the text, and what follows is dropped and the shorter query
executed (`lexer.cpp:97`; `parser.cpp:15` says parse must report trailing tokens). `TRIM(a.href) AS x` overwrites
the field it reads with the alias (`parser_select.cpp:436`, against the comment at `:786`); so do
`INNER_HTML(a) AS t` and `TRIM(TEXT(a)) AS t`. `set_error` is commented as keeping the earliest error, and overwrites.
HAS_DIRECT_TEXT on `self.tag` parses and is always rejected. A CTE's own name in its body is the document. `a--b`
is one identifier, not a comment.

*Engine.* ORDER BY `sibling_pos` is accepted and documented (`query_validation_rules.cpp:564`), but
`compare_nodes` has no case for it. `<`, `<=`, `>`, `>=` on an attribute with a literal compare for equality. `NULL <> x` is
true in a computed comparison and false with a literal; `PathsAgree` excepts NULL. "Keep NULLs last"
in `order.cpp` holds ascending only. COUNT and SUMMARIZE count what LIMIT left.

*Relations.* EXISTS is false of every row (`execute_relation_expr.cpp:459`), so adding a CTE to a query can empty it. `a.tag = b.tag`
in WHERE throws "Unknown identifier". In a LATERAL derived table the early filter can be seen when a right-hand side has
no qualifier: it is read off the outer row early and off the own row by WHERE. So can it where an attribute is called `tag` or `parent_id`,
which hides the node's own for WHERE alone. ORDER BY compares two numerals as numbers and other strings
by their letters (`execute_relation_expr.cpp:479`), which is no order of a column that mixes them: the model lets the sort leave
any arrangement. COALESCE passes over blanks here and keeps them in the executor. The ORDER BY of a
subquery is not validated, and unknown fields tie. A LEFT JOIN on an empty
derived table throws, for its schema has no columns. NULLs are ordered otherwise than by the executor, a class is compared
whole instead of by words, and an attribute "01" equals the literal 1, which the executor compares by letters.
COUNT(li) counts the rows of every tag in this runtime (`execute_relation_result.cpp:113`), so adding a CTE changes it, and
`SELECT li ... LIMIT 1` cuts before it picks out the tag. `RuntimesAgree` is checked over queries without these.

*Results.* Raw and unnormalised header names can repeat although suffixes are added ("h", "h", "h_2"). The agent's reply ignores
`sparse_wide_rows` and takes the first row of a long sparse table as its header. SELECT's COALESCE keeps
blank texts, PROJECT's passes over them. A column of descendants reads the last child first. `descendant.x <> v`,
IS NULL and the like in FLATTEN's WHERE match no descendant, silently. A cell outside of any row is lost; the rows of a
table directly within a table are read for both. A script that holds tags is cut by INNER_HTML like
elements, and "frame" is void for the parser only (`ReadAlike`). HEADER_NORMALIZE is documented
as on by default and is off; saying OFF still has an effect, for the table is then rebuilt with its ragged rows filled up.
`trim_ws` steps over one byte of a no-break space at a time (`string_util.cpp:179`, although the comment above
means the pair to go together): one that starts a text leaves its second byte behind, one that ends it its first, and a
cell of two is not empty for TRIM_EMPTY_ROWS.

*Helper.* The design allows "maximum one artifact escalation level at a time"; the controller
jumps to whatever level the model names, back down too, and can go in circles until the step limit. An attempt can need 30 turns to
end by itself; the limit is 12.

*Panel.* After a restore the panel labels its buttons and then switches the tab: a click on Errors in between
leaves the table under disabled export buttons. Answers are shown in the order they arrive, and a one-shot exports
the last result, whichever run it came from: no document says which should win. Formatting a query
(`query-editor.js:451`) rewrites keywords inside of string literals too.

*Command line.* With the cursor at 0 of a text that begins with a line break the line editor takes the second line for the
current one (`line_editor.cpp:218`).

## 7. Only model-checked, and not modelled

*Only model-checked.* Liveness (`EveryRequestAnswered`, `ButtonsComeBack`): the prover has no
ENABLED and no fairness. Of the relations, `RuntimesAgree` (over the queries that section 6 does not except), and
`JoinComputesOn` and `PrefilterUnobservable` beyond the conditions of their theorems, where they are false in general. Of the
results, `ScansAgree`, `TablesKeepCells`, `ScalarsAgree`, `ProjectReads`, `ColumnReadsWhatWhereReads` and `FlattenMeansWhere`: each compares two recursive
readings, of a string's tags, of a table or of an expression, of which one is a definition by recursion over data; and that what the
executor answers is of `ResultTypeOK`, which `ReplySafe` takes from the run. Of the language, everything: its subjects are recursive
functions of a text, whose induction is over token sequences and trees rather than over `0 .. N`, and `QueryValidation` and
`LanguageProperties` use RECURSIVE operators, in whose presence the prover loses its arithmetic; elsewhere recursion is
written as functions.

*Left out of modelled parts.* Of the engine: TF-IDF scores, sinks and EXPORT. Of the relations: files, URLs, RAW and PARSE as
sources, CASE and the functions but COALESCE, the operators that read letters, warnings and profiles. Of the results: REGEX_REPLACE,
minified `inner_html`, calls with a wrong number of arguments, an `inner_html` that ends inside of a tag, EXCLUDE of every
column. Of the language: the wording and positions of errors. Of the
panel: the collapsed flag, the keys of the former product name, menus, rendering. Of the helper: the wording of reasons,
packs and prompts. Of the agent: HTTP parsing, JSON, the digest's arithmetic.

*Not modelled.* Diagnostics, the libxml2 backend (its recovery is
another library's), TF-IDF, sources and metadata queries, Khmer numbers,
the command line, the REPL with its plugins and line editor, completion, the explorer, rendering and export, the
Python package, packs and model client, the query editor, SHA-256, editor extensions, plugins and benchmarks. `PROJECT.json` gives
the reason for each: planned, a conversion of text without state, or the code of another project.

## 8. The plan

Written: agent and mapping, helper, panel, engine, relations, results, language. Next, in this order:

1. Proofs: `TablesKeepCells`, now that names and replies are done; `ResultTypeOK` of what the executor answers; `RuntimesAgree`, which
   needs that the two sorts and the two filters agree of one document.
2. **Plugins** — load, unload, reload against the command registry and the tokenizers: no registered function belongs to a
   closed library (hazard at `plugin_manager.cpp:80`).
3. **LineEditor** — buffer, cursor, undo, history, pending counts of vim mode: the cursor stays in the text, undo undoes.
4. **Explorer**, the panel's formatter against `Lexer`, **Khmer** (round trip).
5. **PanelAndAgent** — `Popup` with `AgentService` in place of the free reply; the relation runtime over
   `Language`'s statements.

## 9. Running it

```
tlc -workers 2 -config agent_service.cfg MCAgent     # one run; PROJECT.json lists the others
tlapm AgentProofs.tla                                # one module's proofs
```
