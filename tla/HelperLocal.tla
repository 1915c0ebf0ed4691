---------------------------- MODULE HelperLocal ----------------------------
(***************************************************************************)
(* python/markql/helper/local_core.py: the helper core written again in     *)
(* Python, used when the native module is not there.  Its functions keep    *)
(* their names, less a leading underscore, so that nothing here is shared   *)
(* with HelperCore but the records.                                         *)
(***************************************************************************)
EXTENDS HelperContracts

any_constraint(request, needle) == needle \in request.constraints

topic_for_diagnosis(s) ==
    [grammar            |-> "grammar",
     semantic           |-> "repair",
     row_scope          |-> IF s.current_query # NoQuery THEN "stabilization" ELSE "row_selection",
     field_scope        |-> IF any_constraint(s.request, "project") THEN "stable_extraction"
                            ELSE "null_and_scope",
     artifact_too_lossy |-> "exploration",
     mixed              |-> "repair"]

_choose_retrieval_topic(s) ==
    IF s.lint_summary # Absent /\ ~s.lint_summary.ok
      THEN IF s.lint_summary.category = "grammar" THEN "grammar" ELSE "repair"
    ELSE IF /\ s.result_analysis # Absent
            /\ s.result_analysis.diagnosis \in DOMAIN topic_for_diagnosis(s)
      THEN topic_for_diagnosis(s)[s.result_analysis.diagnosis]
    ELSE IF any_constraint(s.request, "no project") THEN "exploration"
    ELSE IF any_constraint(s.request, "use project") THEN "stable_extraction"
    ELSE IF s.current_query # NoQuery THEN "repair"
    ELSE "row_selection"

local_verdict(diagnosis, flag) ==
    [diagnosis |-> diagnosis, should_repair |-> flag = "should_repair",
     should_escalate |-> flag = "should_escalate", should_execute |-> flag = "should_execute",
     done |-> flag = "done"]

\* The tests of helper_analyze_result in their order; the first that holds
\* decides.
helper_analyze_result(artifact, lint_summary, execution) ==
    LET lossy == artifact.lossy /\ artifact.kind # "full_html"
    IN
    IF lint_summary # Absent /\ ~lint_summary.ok
      THEN local_verdict(IF lint_summary.category = "grammar" THEN "grammar" ELSE "semantic",
                   "should_repair")
    ELSE IF execution = Absent THEN local_verdict("none", "should_execute")
    ELSE IF ~execution.ok THEN local_verdict("semantic", "should_repair")
    ELSE IF lossy /\ ~execution.has_rows THEN local_verdict("artifact_too_lossy", "should_escalate")
    ELSE IF execution.expected_row_count \notin {{}, {execution.row_count}}
      THEN local_verdict("row_scope", "should_repair")
    ELSE IF ~execution.has_rows \/ execution.row_count = 0
      THEN local_verdict("row_scope", "should_repair")
    ELSE IF execution.null_field_count > 0 /\ execution.blank_field_count > 0
      THEN local_verdict("mixed", "should_repair")
    ELSE IF execution.null_field_count > 0 THEN local_verdict("field_scope", "should_repair")
    ELSE IF execution.blank_field_count > 0 /\ lossy
      THEN local_verdict("artifact_too_lossy", "should_escalate")
    ELSE local_verdict("none", "done")

_final_suggestion(s, status, diagnosis) ==
    [status |-> status,
     query |-> IF s.current_query # NoQuery THEN s.current_query
               ELSE IF s.model_decision # Absent THEN s.model_decision.query ELSE NoQuery,
     diagnosis |-> diagnosis,
     artifact_used |-> IF s.artifact = Absent THEN "" ELSE s.artifact.kind,
     retrieval_topic |-> IF s.retrieval_pack = Absent THEN _choose_retrieval_topic(s)
                         ELSE s.retrieval_pack]

\* Python fills the fields an action does not read differently from C++: the
\* pack in hand, and a draft of a final suggestion.
local_step(s, state, action) ==
    [state |-> state, action |-> action, requested_artifact |-> "",
     requested_pack |-> IF s.retrieval_pack = Absent THEN "row_selection" ELSE s.retrieval_pack,
     model_task |-> "none", diagnosis |-> "none", query |-> NoQuery,
     final_suggestion |-> _final_suggestion(s, "blocked", "unknown")]

local_end(s, state, action, status, diagnosis) ==
    [local_step(s, state, action) EXCEPT
        !.diagnosis = diagnosis, !.final_suggestion = _final_suggestion(s, status, diagnosis)]

local_next_kind(kind) ==
    [compact_families |-> "families", families |-> "skeleton", skeleton |-> "targeted_subtree",
     targeted_subtree |-> "full_html", full_html |-> "full_html"][kind]

\* The answer to a failure that calls for repair.
mend(s, diagnosis) ==
    LET desired_pack == _choose_retrieval_topic(s)
    IN
    IF s.retrieval_pack # desired_pack
      THEN [local_step(s, "RETRIEVE_PACK", "build_retrieval_pack") EXCEPT
               !.requested_pack = desired_pack, !.diagnosis = diagnosis]
    ELSE IF s.repair_loops >= 2 THEN local_end(s, "BLOCKED", "blocked", "blocked", diagnosis)
    ELSE [local_step(s, "MODEL_REPAIR", "call_model") EXCEPT
             !.model_task = "repair_from_summary", !.diagnosis = diagnosis]

\* The answer to a request for a richer artifact.
climb(s, kind, diagnosis) ==
    IF s.artifact.kind = "full_html"
    THEN local_end(s, "BLOCKED", "blocked", "blocked", "artifact_too_lossy")
    ELSE [local_step(s, "ESCALATE_ARTIFACT", "escalate_artifact") EXCEPT
             !.requested_artifact = kind, !.diagnosis = diagnosis]

lint_of(s, query, diagnosis) ==
    [local_step(s, "LINT_QUERY", "lint_query") EXCEPT !.query = query, !.diagnosis = diagnosis]

helper_plan_next(s) ==
    LET decision == s.model_decision
        deciding == decision # Absent /\ s.current_query = NoQuery
        result   == s.result_analysis
    IN
    IF s.artifact = Absent
      THEN [local_step(s, "INSPECT_COMPACT", "inspect_artifact") EXCEPT
               !.requested_artifact = "compact_families", !.requested_pack = "row_selection"]
    ELSE IF s.retrieval_pack = Absent
      THEN [local_step(s, "RETRIEVE_PACK", "build_retrieval_pack") EXCEPT
               !.requested_pack = _choose_retrieval_topic(s)]
    ELSE IF s.current_query = NoQuery /\ decision = Absent
      THEN [local_step(s, "MODEL_SUGGEST", "call_model") EXCEPT !.model_task = "interpret_and_suggest"]
    ELSE IF deciding /\ decision.status = "need_more_artifact"
      THEN climb(s, IF decision.requested_artifact = "" THEN local_next_kind(s.artifact.kind)
                    ELSE decision.requested_artifact, decision.diagnosis)
    ELSE IF deciding /\ decision.status = "blocked"
      THEN local_end(s, "BLOCKED", "blocked", "blocked", decision.diagnosis)
    ELSE IF deciding /\ decision.status = "query_ready" /\ decision.query # NoQuery
      THEN lint_of(s, decision.query, decision.diagnosis)
    ELSE IF s.current_query # NoQuery /\ s.lint_summary = Absent
      THEN lint_of(s, s.current_query, "none")
    ELSE IF s.lint_summary # Absent /\ ~s.lint_summary.ok THEN mend(s, s.lint_summary.category)
    ELSE IF s.lint_summary # Absent /\ s.lint_summary.ok /\ s.execution_summary = Absent
      THEN [local_step(s, "EXECUTE_QUERY", "execute_query") EXCEPT !.query = s.current_query]
    ELSE IF s.execution_summary # Absent /\ result = Absent
      THEN local_step(s, "ANALYZE_RESULT", "analyze_result")
    ELSE IF result # Absent /\ result.done
      THEN local_end(s, "DONE", "done", "done", result.diagnosis)
    ELSE IF result # Absent /\ result.should_escalate
      THEN climb(s, local_next_kind(s.artifact.kind), result.diagnosis)
    ELSE IF result # Absent /\ result.should_repair THEN mend(s, result.diagnosis)
    ELSE local_end(s, "BLOCKED", "blocked", "blocked", "unknown")
==========================================================================
