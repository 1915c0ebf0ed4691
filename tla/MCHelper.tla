------------------------------- MODULE MCHelper -------------------------------
(***************************************************************************)
(* Instances of Helper for TLC: two queries, and for every answer of a tool *)
(* or of the model one representative of each case the core tells apart.    *)
(***************************************************************************)
EXTENDS HelperProperties

CONSTANTS q1, q2

MCQuery == {q1, q2}

MCLints ==
    {[ok |-> TRUE, category |-> "none"], [ok |-> TRUE, category |-> "semantic"],
     [ok |-> FALSE, category |-> "grammar"], [ok |-> FALSE, category |-> "semantic"]}

Rows(n, nulls, blanks, expected) ==
    [ok |-> TRUE, has_rows |-> n > 0, row_count |-> n, null_field_count |-> nulls,
     blank_field_count |-> blanks, expected_row_count |-> expected]

Empty == Rows(0, 0, 0, {})

\* What LocalToolAdapters.run_markql can answer.
LocalExecutions ==
    {Empty, Rows(2, 0, 0, {}), Rows(2, 1, 0, {}), Rows(2, 0, 1, {}), Rows(2, 1, 1, {})}

\* And what adapters that know the row count, or report a failed run, can.
MCExecutions ==
    LocalExecutions \cup {Rows(2, 0, 0, {3}), Rows(2, 0, 0, {2}), [Empty EXCEPT !.ok = FALSE]}

Decision(status, diagnosis, requested, query) ==
    [status |-> status, diagnosis |-> diagnosis, requested_artifact |-> requested, query |-> query]

\* A model that asks for the next artifact level, or for one it names.
ClimbingDecisions ==
    {Decision("query_ready", "row_scope", "", q) : q \in MCQuery \cup {NoQuery}}
    \cup {Decision("need_more_artifact", "artifact_too_lossy", "", NoQuery)}
    \cup {Decision("blocked", "unknown", "", q) : q \in {NoQuery, q1}}

MCDecisions ==
    ClimbingDecisions
    \cup {Decision("need_more_artifact", "artifact_too_lossy", kind, q) :
             kind \in {"compact_families", "families", "full_html"}, q \in {NoQuery, q1}}

\* suggest_query starts with no query, repair_query and explain_query with one.
Request(mode, constraints, query) ==
    [request |-> [mode |-> mode, constraints |-> constraints], query |-> query]

MCRequests ==
    {Request("start", c, NoQuery) : c \in {{}, {"project"}, {"project", "no project"}, Phrase}}
    \cup {Request("repair", c, q1) : c \in {{}, {"project", "use project"}}}
    \cup {Request("explain", {}, NoQuery)}
=============================================================================
