-------------------------------- MODULE Results -------------------------------
(***************************************************************************)
(* From a page to the table that the browser shows: the page is parsed, a  *)
(* query is answered with rows computed from its nodes or with its tables, *)
(* and the agent maps the answer to its reply                              *)
(* (src/core/src/runtime/engine/execute_dom.cpp, result_builder.cpp and    *)
(* src/browser_plugin/agent/src/main.cpp).                                 *)
(***************************************************************************)
EXTENDS Projection, TableResult

CONSTANTS
    Pages,        \* the pages: [html, says, of], of being what is asked of them
    Questions,    \* the queries that are asked of each kind of page
    Limits,       \* the values of max_rows that come with them
    DefaultRows,  \* kDefaultMaxRows
    Null          \* JSON null

ASSUME ResultsAssumption ==
    /\ DefaultRows \in Nat /\ Null \notin Int
    /\ \A of \in {p.of : p \in Pages} :
          /\ Limits[of] \subseteq Int \cup {Null}
          /\ \A q \in Questions[of] : q.kind = "names" => q.raw \in Seq(Seq(STRING))

VARIABLES
    page,       \* the page
    result,     \* the QueryResult that the agent is handed
    requested,  \* the max_rows of the request
    payload     \* the table of the reply

resultVars == <<vars, says, page, result, requested, payload>>

\* build_columns: the names of the computed columns, or those of a node.
NodeColumns == <<"node_id", "tag", "attributes", "parent_id", "max_depth", "doc_order">>

build_columns(q) ==
    CASE q.kind = "flatten" -> q.aliases
      [] q.kind \in {"project", "select"} /\ q.columns # <<>> -> [k \in DOMAIN q.columns |-> q.columns[k].name]
      [] OTHER -> SelectSeq(NodeColumns, LAMBDA c : c \notin q.exclude)

\* TO TABLE: the tables that were selected, each read and put into its shape.
TableRows(q) ==
    LET found == execute_query(q)
    IN  [k \in DOMAIN found |->
            [node_id |-> found[k]] @@ TableOf(collect_rows(found[k]), q.options)]

\* execute_query_ast.  A result may be given as it is, and so may the names of
\* columns.
AnswerTo(q) ==
    CASE q.kind = "project" -> ProjectRows(q)
      [] q.kind = "flatten" -> FlattenRows(q)
      [] q.kind = "select" -> SelectRows(q)
      [] q.kind = "table" -> TableRows(q)
      [] q.kind = "given" -> q.result
      [] q.kind = "names" -> build_column_name_map(q.raw, q.mode, TRUE)

Shape == [to_table |-> FALSE, to_list |-> FALSE, table_has_header |-> FALSE,
          columns |-> <<>>, rows |-> <<>>, tables |-> <<>>]

\* The answer with what the query says of its form.
ResultOf(q, answer) ==
    CASE q.kind = "given" -> answer
      [] q.kind = "names" -> Shape
      [] q.kind = "table" -> [Shape EXCEPT !.to_table = TRUE, !.tables = answer,
                                           !.table_has_header = q.options.has_header]
      [] OTHER -> [Shape EXCEPT !.columns = build_columns(q), !.rows = answer]

Agent == INSTANCE AgentMapping
----------------------------------------------------------------------------
Ask(q) ==
    /\ phase = "parsed"
    /\ phase' = "answered"
    /\ query' = q
    /\ rows' = AnswerTo(q)
    /\ result' = ResultOf(q, rows')
    /\ requested' \in Limits[page.of]
    /\ UNCHANGED <<html, i, nodes, stack, doc_order, max_depth, walk, says, page, payload>>

\* The handler maps its result once and replies.
Reply ==
    /\ phase = "answered" /\ query.kind # "names"
    /\ phase' = "replied"
    /\ UNCHANGED <<html, i, nodes, stack, doc_order, max_depth, walk, query, rows, says, page>>
    /\ Agent!MapResult

ResultsInit ==
    /\ page \in Pages
    /\ html = page.html /\ says = page.says
    /\ DocInit
    /\ query = None /\ rows = <<>>
    /\ result = Shape /\ requested = Null /\ payload = Agent!Nothing

ResultsNext ==
    \/ DocNext /\ UNCHANGED <<query, rows, says, page, result, requested, payload>>
    \/ \E q \in Questions[page.of] : Ask(q)
    \/ Reply

ResultsSpec == ResultsInit /\ [][ResultsNext]_resultVars
=============================================================================
