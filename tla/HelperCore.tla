---------------------------- MODULE HelperCore ----------------------------
(***************************************************************************)
(* The helper core in C++: the policy that picks retrieval packs and        *)
(* artifact levels (helper_policy.cpp), the classifier of execution results *)
(* (helper_result_analysis.cpp) and the controller that plans the next step *)
(* from a snapshot (helper_controller.cpp).  All three are pure functions.  *)
(***************************************************************************)
EXTENDS HelperContracts

next_artifact_kind_skipping ==
    [compact_families |-> "skeleton", families |-> "skeleton", skeleton |-> "targeted_subtree",
     targeted_subtree |-> "full_html", full_html |-> "full_html"]

next_artifact_kind ==
    [compact_families |-> "families",
     families         |-> "skeleton",
     skeleton         |-> "targeted_subtree",
     targeted_subtree |-> "full_html",
     full_html        |-> "full_html"]

can_escalate_artifact(kind) == kind # "full_html"

constraint_contains(request, needle) == needle \in request.constraints

lint_failed_to_parse(s) ==
    s.lint_summary # Absent /\ ~s.lint_summary.ok /\ s.lint_summary.category = "grammar"

lint_failed(s) == s.lint_summary # Absent /\ ~s.lint_summary.ok

\* The pack for a diagnosis, for those that call for one of their own.
topic_of(s) ==
    [grammar            |-> "grammar",
     semantic           |-> "repair",
     row_scope          |-> IF s.current_query = NoQuery THEN "row_selection" ELSE "stabilization",
     field_scope        |-> IF constraint_contains(s.request, "project")
                            THEN "stable_extraction" ELSE "null_and_scope",
     artifact_too_lossy |-> "exploration",
     mixed              |-> "repair"]

\* The two constraints asked for in the other order.
choose_retrieval_topic_swapped(s) ==
    IF lint_failed(s)
      THEN IF s.lint_summary.category = "grammar" THEN "grammar" ELSE "repair"
    ELSE IF s.result_analysis # Absent /\ s.result_analysis.diagnosis \notin {"none", "unknown"}
      THEN topic_of(s)[s.result_analysis.diagnosis]
    ELSE IF constraint_contains(s.request, "use project") THEN "stable_extraction"
    ELSE IF constraint_contains(s.request, "no project") THEN "exploration"
    ELSE IF s.current_query # NoQuery THEN "repair"
    ELSE "row_selection"

choose_retrieval_topic(s) ==
    IF lint_failed(s)
      THEN IF s.lint_summary.category = "grammar" THEN "grammar" ELSE "repair"
    ELSE IF s.result_analysis # Absent /\ s.result_analysis.diagnosis \notin {"none", "unknown"}
      THEN topic_of(s)[s.result_analysis.diagnosis]
    ELSE IF constraint_contains(s.request, "no project") THEN "exploration"
    ELSE IF constraint_contains(s.request, "use project") THEN "stable_extraction"
    ELSE IF s.current_query # NoQuery THEN "repair"
    ELSE "row_selection"

----------------------------------------------------------------------------
(* helper_result_analysis.cpp *)

analysis_of(diagnosis, next) ==
    [diagnosis |-> diagnosis, should_repair |-> next = "repair",
     should_escalate |-> next = "escalate", should_execute |-> next = "execute",
     done |-> next = "done"]

unreliable(artifact) == artifact.lossy /\ artifact.kind # "full_html"

analyze_result_rows_only(artifact, lint, execution) ==
    IF lint # Absent /\ ~lint.ok
      THEN analysis_of(IF lint.category = "grammar" THEN "grammar" ELSE "semantic", "repair")
    ELSE IF execution = Absent THEN analysis_of("none", "execute")
    ELSE IF ~execution.ok THEN analysis_of("semantic", "repair")
    ELSE IF unreliable(artifact) /\ ~execution.has_rows
      THEN analysis_of("artifact_too_lossy", "escalate")
    ELSE IF ~execution.has_rows THEN analysis_of("row_scope", "repair")
    ELSE analysis_of("none", "done")

analyze_result(artifact, lint, execution) ==
    IF lint # Absent /\ ~lint.ok
      THEN analysis_of(IF lint.category = "grammar" THEN "grammar" ELSE "semantic", "repair")
    ELSE IF execution = Absent THEN analysis_of("none", "execute")
    ELSE IF ~execution.ok THEN analysis_of("semantic", "repair")
    ELSE IF unreliable(artifact) /\ ~execution.has_rows
      THEN analysis_of("artifact_too_lossy", "escalate")
    ELSE IF execution.expected_row_count # {} /\ execution.row_count \notin execution.expected_row_count
      THEN analysis_of("row_scope", "repair")
    ELSE IF ~execution.has_rows \/ execution.row_count = 0 THEN analysis_of("row_scope", "repair")
    ELSE IF execution.null_field_count > 0
      THEN analysis_of(IF execution.blank_field_count > 0 THEN "mixed" ELSE "field_scope", "repair")
    ELSE IF execution.blank_field_count > 0 /\ unreliable(artifact)
      THEN analysis_of("artifact_too_lossy", "escalate")
    ELSE analysis_of("none", "done")

----------------------------------------------------------------------------
(* helper_controller.cpp *)

build_final_suggestion(s, status, diagnosis) ==
    [status |-> status,
     query |-> IF s.current_query = NoQuery /\ s.model_decision # Absent
               THEN s.model_decision.query ELSE s.current_query,
     diagnosis |-> diagnosis,
     artifact_used |-> IF s.artifact # Absent THEN s.artifact.kind ELSE "",
     retrieval_topic |-> IF s.retrieval_pack # Absent THEN s.retrieval_pack
                         ELSE choose_retrieval_topic(s)]

\* A step: what the controller asks for.  The fields an action does not read
\* keep their defaults; Absent stands for the final suggestion of a step that
\* does not end the attempt.
make_step(state, action) ==
    [state |-> state, action |-> action, requested_artifact |-> "",
     requested_pack |-> "row_selection", model_task |-> "none", diagnosis |-> "none",
     query |-> NoQuery, final_suggestion |-> Absent]

finish(s, state, status, action, diagnosis) ==
    [make_step(state, action) EXCEPT
        !.final_suggestion = build_final_suggestion(s, status, diagnosis)]

done_step(s, diagnosis) == finish(s, "DONE", "done", "done", diagnosis)

blocked_step(s, diagnosis) == finish(s, "BLOCKED", "blocked", "blocked", diagnosis)

retrieve_step(topic, diagnosis) ==
    [make_step("RETRIEVE_PACK", "build_retrieval_pack") EXCEPT
        !.requested_pack = topic, !.diagnosis = diagnosis]

escalate_step(s, kind, diagnosis) ==
    IF can_escalate_artifact(s.artifact.kind)
    THEN [make_step("ESCALATE_ARTIFACT", "escalate_artifact") EXCEPT
             !.requested_artifact = kind, !.diagnosis = diagnosis]
    ELSE blocked_step(s, "artifact_too_lossy")

lint_step(query, diagnosis) ==
    [make_step("LINT_QUERY", "lint_query") EXCEPT !.query = query, !.diagnosis = diagnosis]

\* A failure the model may repair: refresh the pack, give up, or ask it.
repair_step(s, diagnosis) ==
    IF s.retrieval_pack # choose_retrieval_topic(s)
      THEN retrieve_step(choose_retrieval_topic(s), diagnosis)
    ELSE IF s.repair_loops >= 2 THEN blocked_step(s, diagnosis)
    ELSE [make_step("MODEL_REPAIR", "call_model") EXCEPT
             !.model_task = "repair_from_summary", !.diagnosis = diagnosis]

plan_next_step(s) ==
    LET decided(status) == /\ s.current_query = NoQuery
                           /\ s.model_decision # Absent
                           /\ s.model_decision.status = status
    IN
    IF s.state = "DONE" THEN done_step(s, "none")
    ELSE IF s.state = "BLOCKED" THEN blocked_step(s, "unknown")
    ELSE IF s.artifact = Absent
      THEN [make_step("INSPECT_COMPACT", "inspect_artifact") EXCEPT
               !.requested_artifact = "compact_families"]
    ELSE IF s.retrieval_pack = Absent THEN retrieve_step(choose_retrieval_topic(s), "none")
    ELSE IF s.current_query = NoQuery /\ s.model_decision = Absent
      THEN [make_step("MODEL_SUGGEST", "call_model") EXCEPT !.model_task = "interpret_and_suggest"]
    ELSE IF decided("need_more_artifact")
      THEN escalate_step(s, IF s.model_decision.requested_artifact # ""
                       THEN s.model_decision.requested_artifact
                       ELSE next_artifact_kind[s.artifact.kind], "none")
    ELSE IF decided("blocked") THEN blocked_step(s, s.model_decision.diagnosis)
    ELSE IF decided("query_ready") /\ s.model_decision.query # NoQuery
      THEN lint_step(s.model_decision.query, s.model_decision.diagnosis)
    ELSE IF s.current_query # NoQuery /\ s.lint_summary = Absent THEN lint_step(s.current_query, "none")
    ELSE IF lint_failed(s) THEN repair_step(s, s.lint_summary.category)
    ELSE IF s.lint_summary # Absent /\ s.execution_summary = Absent
      THEN [make_step("EXECUTE_QUERY", "execute_query") EXCEPT !.query = s.current_query]
    ELSE IF s.execution_summary # Absent /\ s.result_analysis = Absent
      THEN make_step("ANALYZE_RESULT", "analyze_result")
    ELSE IF s.result_analysis # Absent /\ s.result_analysis.done
      THEN done_step(s, s.result_analysis.diagnosis)
    ELSE IF s.result_analysis # Absent /\ s.result_analysis.should_escalate
      THEN escalate_step(s, next_artifact_kind[s.artifact.kind], s.result_analysis.diagnosis)
    ELSE IF s.result_analysis # Absent /\ s.result_analysis.should_repair
      THEN repair_step(s, s.result_analysis.diagnosis)
    ELSE blocked_step(s, "unknown")
==========================================================================
