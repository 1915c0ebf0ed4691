----------------------------- MODULE HelperProofs -----------------------------
(***************************************************************************)
(* Proofs about an attempt of MarkQL Helper, for any queries, any answers   *)
(* of the tools and the model, and any step limit.                          *)
(***************************************************************************)
EXTENDS HelperProperties, TLAPS

----------------------------------------------------------------------------
(* The C++ core and the Python core compute the same functions. *)

\* Both cores choose the same retrieval topic, and it is a topic.
LEMMA TopicsAgree ==
    ASSUME NEW s \in ControllerSnapshot
    PROVE  /\ choose_retrieval_topic(s) = _choose_retrieval_topic(s)
           /\ choose_retrieval_topic(s) \in RetrievalTopic
<1>1. /\ s.request \in HelperRequest
      /\ s.lint_summary \in LintSummary \cup {Absent}
      /\ s.result_analysis \in ResultAnalysis \cup {Absent}
  BY DEF ControllerSnapshot
<1>2. s.result_analysis # Absent => s.result_analysis.diagnosis \in Diagnosis
  BY <1>1 DEF ResultAnalysis
<1>3. DOMAIN topic_for_diagnosis(s) = Diagnosis \ {"none", "unknown"}
  BY DEF topic_for_diagnosis, Diagnosis
<1>4. ASSUME NEW d \in Diagnosis \ {"none", "unknown"}
      PROVE  topic_of(s)[d] = topic_for_diagnosis(s)[d] /\ topic_of(s)[d] \in RetrievalTopic
  BY DEF topic_of, topic_for_diagnosis, Diagnosis, RetrievalTopic, constraint_contains, any_constraint
<1> QED
  BY <1>2, <1>3, <1>4
  DEF choose_retrieval_topic, _choose_retrieval_topic, lint_failed, constraint_contains,
      any_constraint, RetrievalTopic, Diagnosis

\* Both cores climb the same ladder of artifact levels.
LEMMA LevelsAgree ==
    ASSUME NEW kind \in ArtifactKind
    PROVE  /\ local_next_kind(kind) = next_artifact_kind[kind]
           /\ next_artifact_kind[kind] \in ArtifactKind
           /\ kind # "full_html" => LevelOf[next_artifact_kind[kind]] = LevelOf[kind] + 1
BY DEF ArtifactKind, local_next_kind, next_artifact_kind, LevelOf

\* Both classifiers give the same analysis of any summaries.
LEMMA AnalyzersAgree ==
    ASSUME NEW artifact \in ArtifactSummary,
           NEW lint \in LintSummary \cup {Absent},
           NEW execution \in ExecutionSummary \cup {Absent}
    PROVE  analyze_result(artifact, lint, execution) = helper_analyze_result(artifact, lint, execution)
<1>1. CASE lint # Absent /\ ~lint.ok
  BY <1>1 DEF analyze_result, helper_analyze_result, analysis_of, local_verdict
<1>2. CASE execution = Absent
  BY <1>1, <1>2 DEF analyze_result, helper_analyze_result, analysis_of, local_verdict
<1>3. CASE ~(lint # Absent /\ ~lint.ok) /\ execution # Absent
  <2>1. /\ execution.row_count \in Nat
        /\ execution.null_field_count \in Nat
        /\ execution.blank_field_count \in Nat
        /\ \A m, n \in execution.expected_row_count : m = n
    BY <1>3 DEF ExecutionSummary
  <2>2. (execution.expected_row_count # {} /\ execution.row_count \notin execution.expected_row_count)
        <=> execution.expected_row_count \notin {{}, {execution.row_count}}
    BY <2>1
  <2> QED
    BY <1>3, <2>1, <2>2
    DEF analyze_result, helper_analyze_result, analysis_of, local_verdict, unreliable
<1> QED
  BY <1>1, <1>2, <1>3

\* Both cores draft the same final suggestion.
LEMMA FinalsAgree ==
    ASSUME NEW s \in ControllerSnapshot, NEW status, NEW diagnosis
    PROVE  build_final_suggestion(s, status, diagnosis) = _final_suggestion(s, status, diagnosis)
<1>1. choose_retrieval_topic(s) = _choose_retrieval_topic(s)
  BY TopicsAgree
<1>2. s.current_query \in Query \cup {NoQuery}
  BY DEF ControllerSnapshot
<1> QED
  BY <1>1, <1>2 DEF build_final_suggestion, _final_suggestion

\* The steps both cores are made of say the same to the orchestrator.
LEMMA EndsAgree ==
    ASSUME NEW s \in ControllerSnapshot, NEW d
    PROVE  /\ Used(done_step(s, d)) = Used(local_end(s, "DONE", "done", "done", d))
           /\ Used(blocked_step(s, d)) = Used(local_end(s, "BLOCKED", "blocked", "blocked", d))
<1>1. \A status : build_final_suggestion(s, status, d) = _final_suggestion(s, status, d)
  BY FinalsAgree
<1> QED
  BY <1>1 DEF Used, done_step, blocked_step, finish, make_step, local_end, local_step

LEMMA LintStepsAgree ==
    ASSUME NEW s \in ControllerSnapshot, NEW q, NEW d
    PROVE  Used(lint_step(q, d)) = Used(lint_of(s, q, d))
BY DEF Used, lint_step, lint_of, make_step, local_step

\* What the orchestrator reads of a step is fixed by the fields it reads.
LEMMA UsedByFields ==
    ASSUME NEW a, NEW b,
           a.action = b.action, a.state = b.state,
           a.action \in {"inspect_artifact", "escalate_artifact"} =>
              a.requested_artifact = b.requested_artifact,
           a.action = "build_retrieval_pack" => a.requested_pack = b.requested_pack,
           a.action = "call_model" => a.model_task = b.model_task /\ a.diagnosis = b.diagnosis,
           a.action \in {"lint_query", "execute_query"} => a.query = b.query,
           a.action \in {"done", "blocked"} => a.final_suggestion = b.final_suggestion
    PROVE  Used(a) = Used(b)
BY DEF Used

LEMMA EscalationsAgree ==
    ASSUME NEW s \in ControllerSnapshot, NEW kind, NEW c, NEW d
    PROVE  Used(escalate_step(s, kind, c)) = Used(climb(s, kind, d))
<1>1. CASE s.artifact.kind = "full_html"
  BY <1>1, EndsAgree DEF escalate_step, climb, can_escalate_artifact
<1>2. CASE s.artifact.kind # "full_html"
  BY <1>2 DEF Used, escalate_step, climb, can_escalate_artifact, make_step, local_step
<1> QED
  BY <1>1, <1>2

LEMMA RepairsAgree ==
    ASSUME NEW s \in ControllerSnapshot, NEW d
    PROVE  Used(repair_step(s, d)) = Used(mend(s, d))
<1>1. choose_retrieval_topic(s) = _choose_retrieval_topic(s)
  BY TopicsAgree
<1>2. CASE s.retrieval_pack # choose_retrieval_topic(s)
  BY <1>1, <1>2 DEF Used, repair_step, retrieve_step, mend, make_step, local_step
<1>3. CASE s.retrieval_pack = choose_retrieval_topic(s) /\ s.repair_loops >= 2
  BY <1>1, <1>3, EndsAgree DEF repair_step, mend
<1>4. CASE s.retrieval_pack = choose_retrieval_topic(s) /\ ~(s.repair_loops >= 2)
  BY <1>1, <1>4, ZenonT(40) DEF Used, repair_step, mend, make_step, local_step
<1> QED
  BY <1>2, <1>3, <1>4

\* Both controllers plan the same step from any snapshot that has not ended:
\* not from those an attempt reaches only.
THEOREM PlannersAgree ==
    ASSUME NEW s \in ControllerSnapshot, s.state \notin {"DONE", "BLOCKED"}
    PROVE  Used(plan_next_step(s)) = Used(helper_plan_next(s))
<1> DEFINE decided(status) == /\ s.current_query = NoQuery
                              /\ s.model_decision # Absent
                              /\ s.model_decision.status = status
           deciding == s.model_decision # Absent /\ s.current_query = NoQuery
           analyzed == s.result_analysis # Absent
<1>0. /\ s.artifact \in ArtifactSummary \cup {Absent}
      /\ s.model_decision \in ModelDecision \cup {Absent}
      /\ s.lint_summary \in LintSummary \cup {Absent}
  BY DEF ControllerSnapshot
<1>1. CASE s.artifact = Absent
  <2>1. plan_next_step(s) = [make_step("INSPECT_COMPACT", "inspect_artifact") EXCEPT
                                !.requested_artifact = "compact_families"]
    BY <1>1 DEF plan_next_step
  <2>2. helper_plan_next(s) = [local_step(s, "INSPECT_COMPACT", "inspect_artifact") EXCEPT
                                  !.requested_artifact = "compact_families",
                                  !.requested_pack = "row_selection"]
    BY <1>1 DEF helper_plan_next
  <2>3. /\ plan_next_step(s).action = "inspect_artifact"
        /\ plan_next_step(s).state = "INSPECT_COMPACT"
        /\ plan_next_step(s).requested_artifact = "compact_families"
    BY <2>1 DEF make_step
  <2>4. /\ helper_plan_next(s).action = "inspect_artifact"
        /\ helper_plan_next(s).state = "INSPECT_COMPACT"
        /\ helper_plan_next(s).requested_artifact = "compact_families"
    BY <2>2 DEF local_step
  <2> QED
    BY <2>3, <2>4, UsedByFields
<1>2. CASE s.artifact # Absent /\ s.retrieval_pack = Absent
  <2>1. plan_next_step(s) = retrieve_step(choose_retrieval_topic(s), "none")
    BY <1>2 DEF plan_next_step
  <2>2. helper_plan_next(s) = [local_step(s, "RETRIEVE_PACK", "build_retrieval_pack") EXCEPT
                                  !.requested_pack = _choose_retrieval_topic(s)]
    BY <1>2 DEF helper_plan_next
  <2> QED
    <3>1. /\ plan_next_step(s).action = "build_retrieval_pack"
          /\ plan_next_step(s).state = "RETRIEVE_PACK"
          /\ plan_next_step(s).requested_pack = choose_retrieval_topic(s)
      BY <2>1 DEF retrieve_step, make_step
    <3>2. /\ helper_plan_next(s).action = "build_retrieval_pack"
          /\ helper_plan_next(s).state = "RETRIEVE_PACK"
          /\ helper_plan_next(s).requested_pack = _choose_retrieval_topic(s)
      BY <2>2 DEF local_step
    <3> QED
      BY <3>1, <3>2, TopicsAgree, UsedByFields
<1>3. CASE s.artifact # Absent /\ s.retrieval_pack # Absent
  <2>0. s.artifact.kind \in ArtifactKind
    BY <1>0, <1>3 DEF ArtifactSummary
  <2>a. local_next_kind(s.artifact.kind) = next_artifact_kind[s.artifact.kind]
    BY <2>0, LevelsAgree
  <2>1. CASE s.current_query = NoQuery /\ s.model_decision = Absent
    <3>1. plan_next_step(s) = [make_step("MODEL_SUGGEST", "call_model") EXCEPT
                                  !.model_task = "interpret_and_suggest"]
      BY <1>3, <2>1 DEF plan_next_step
    <3>2. helper_plan_next(s) = [local_step(s, "MODEL_SUGGEST", "call_model") EXCEPT
                                    !.model_task = "interpret_and_suggest"]
      BY <1>3, <2>1 DEF helper_plan_next
    <3>3. /\ plan_next_step(s).action = "call_model"
          /\ plan_next_step(s).state = "MODEL_SUGGEST"
          /\ plan_next_step(s).model_task = "interpret_and_suggest"
          /\ plan_next_step(s).diagnosis = "none"
      BY <3>1 DEF make_step
    <3>4. /\ helper_plan_next(s).action = "call_model"
          /\ helper_plan_next(s).state = "MODEL_SUGGEST"
          /\ helper_plan_next(s).model_task = "interpret_and_suggest"
          /\ helper_plan_next(s).diagnosis = "none"
      BY <3>2 DEF local_step
    <3> QED
      BY <3>3, <3>4, UsedByFields
  <2>2. CASE decided("need_more_artifact")
    <3> DEFINE kind == IF s.model_decision.requested_artifact # ""
                       THEN s.model_decision.requested_artifact
                       ELSE next_artifact_kind[s.artifact.kind]
    <3>1. plan_next_step(s) = escalate_step(s, kind, "none")
      BY <1>3, <2>2 DEF plan_next_step
    <3>2. helper_plan_next(s) = climb(s, kind, s.model_decision.diagnosis)
      BY <1>3, <2>2, <2>a DEF helper_plan_next
    <3> QED
      BY <3>1, <3>2, EscalationsAgree
  <2>3. CASE decided("blocked")
    BY <1>3, <2>3, EndsAgree DEF plan_next_step, helper_plan_next
  <2>4. CASE decided("query_ready") /\ s.model_decision.query # NoQuery
    BY <1>3, <2>4, LintStepsAgree DEF plan_next_step, helper_plan_next
  <2>5. CASE /\ ~(s.current_query = NoQuery /\ s.model_decision = Absent)
             /\ ~decided("need_more_artifact")
             /\ ~decided("blocked")
             /\ ~(decided("query_ready") /\ s.model_decision.query # NoQuery)
    <3>0. /\ ~(deciding /\ s.model_decision.status = "need_more_artifact")
          /\ ~(deciding /\ s.model_decision.status = "blocked")
          /\ ~(deciding /\ s.model_decision.status = "query_ready"
               /\ s.model_decision.query # NoQuery)
      BY <2>5
    <3>1. CASE s.current_query # NoQuery /\ s.lint_summary = Absent
      BY <1>3, <2>5, <3>0, <3>1, LintStepsAgree DEF plan_next_step, helper_plan_next
    <3>2. CASE ~(s.current_query # NoQuery /\ s.lint_summary = Absent) /\ lint_failed(s)
      BY <1>3, <2>5, <3>0, <3>2, RepairsAgree DEF plan_next_step, helper_plan_next, lint_failed
    <3>3. CASE /\ ~(s.current_query # NoQuery /\ s.lint_summary = Absent)
               /\ ~lint_failed(s)
               /\ s.lint_summary # Absent
               /\ s.execution_summary = Absent
      <4>0. s.lint_summary.ok
        BY <3>3 DEF lint_failed
      <4>1. plan_next_step(s) = [make_step("EXECUTE_QUERY", "execute_query")
                                    EXCEPT !.query = s.current_query]
        BY <1>3, <2>5, <3>3 DEF plan_next_step
      <4>2. helper_plan_next(s) = [local_step(s, "EXECUTE_QUERY", "execute_query")
                                      EXCEPT !.query = s.current_query]
        BY <1>3, <2>5, <3>0, <3>3, <4>0 DEF helper_plan_next
      <4>3. /\ plan_next_step(s).action = "execute_query"
            /\ plan_next_step(s).state = "EXECUTE_QUERY"
            /\ plan_next_step(s).query = s.current_query
        BY <4>1 DEF make_step
      <4>4. /\ helper_plan_next(s).action = "execute_query"
            /\ helper_plan_next(s).state = "EXECUTE_QUERY"
            /\ helper_plan_next(s).query = s.current_query
        BY <4>2 DEF local_step
      <4> QED
        BY <4>3, <4>4, UsedByFields
    <3>4. CASE /\ ~(s.current_query # NoQuery /\ s.lint_summary = Absent)
               /\ ~lint_failed(s)
               /\ ~(s.lint_summary # Absent /\ s.execution_summary = Absent)
      <4>0. ~(s.lint_summary # Absent /\ ~s.lint_summary.ok)
        BY <3>4 DEF lint_failed
      <4>1. CASE s.execution_summary # Absent /\ ~analyzed
        <5>1. /\ plan_next_step(s).action = "analyze_result"
              /\ plan_next_step(s).state = "ANALYZE_RESULT"
          BY <1>3, <2>5, <3>4, <4>1 DEF plan_next_step, make_step
        <5>2. /\ helper_plan_next(s).action = "analyze_result"
              /\ helper_plan_next(s).state = "ANALYZE_RESULT"
          BY <1>3, <2>5, <3>0, <3>4, <4>0, <4>1 DEF helper_plan_next, local_step
        <5> QED
          BY <5>1, <5>2, UsedByFields
      <4>2. CASE analyzed /\ s.result_analysis.done
        BY <1>3, <2>5, <3>0, <3>4, <4>0, <4>2, EndsAgree DEF plan_next_step, helper_plan_next
      <4>3. CASE analyzed /\ ~s.result_analysis.done /\ s.result_analysis.should_escalate
        <5> DEFINE kind == next_artifact_kind[s.artifact.kind]
        <5>1. plan_next_step(s) = escalate_step(s, kind, s.result_analysis.diagnosis)
          BY <1>3, <2>5, <3>4, <4>3 DEF plan_next_step
        <5>2. helper_plan_next(s) = climb(s, kind, s.result_analysis.diagnosis)
          BY <1>3, <2>a, <3>0, <3>4, <4>0, <4>3, <2>5 DEF helper_plan_next
        <5> QED
          BY <5>1, <5>2, EscalationsAgree
      <4>4. CASE /\ analyzed /\ ~s.result_analysis.done /\ ~s.result_analysis.should_escalate
                 /\ s.result_analysis.should_repair
        BY <1>3, <2>5, <3>0, <3>4, <4>0, <4>4, RepairsAgree DEF plan_next_step, helper_plan_next
      <4>5. CASE /\ ~(s.execution_summary # Absent /\ ~analyzed)
                 /\ ~(analyzed /\ s.result_analysis.done)
                 /\ ~(analyzed /\ s.result_analysis.should_escalate)
                 /\ ~(analyzed /\ s.result_analysis.should_repair)
        BY <1>3, <2>5, <3>0, <3>4, <4>0, <4>5, EndsAgree DEF plan_next_step, helper_plan_next
      <4> QED
        BY <4>1, <4>2, <4>3, <4>4, <4>5
    <3> QED
      BY <3>1, <3>2, <3>3, <3>4
  <2> QED
    BY <2>1, <2>2, <2>3, <2>4, <2>5
<1> QED
  BY <1>1, <1>2, <1>3

----------------------------------------------------------------------------
(* When the controller asks for what. *)

LEMMA PlanState ==
    ASSUME NEW s \in ControllerSnapshot, s.state \notin {"DONE", "BLOCKED"},
           plan_next_step(s).action \notin {"done", "blocked"}
    PROVE  plan_next_step(s).state \in ControllerState \ {"DONE", "BLOCKED"}
BY DEF plan_next_step, repair_step, escalate_step, done_step, blocked_step, finish, retrieve_step,
       lint_step, make_step, ControllerState

LEMMA PlanInspect ==
    ASSUME NEW s \in ControllerSnapshot, s.state \notin {"DONE", "BLOCKED"},
           plan_next_step(s).action = "inspect_artifact"
    PROVE  s.artifact = Absent /\ plan_next_step(s).requested_artifact = "compact_families"
BY DEF plan_next_step, repair_step, escalate_step, done_step, blocked_step, finish, retrieve_step,
       lint_step, make_step

LEMMA PlanPack ==
    ASSUME NEW s \in ControllerSnapshot, s.state \notin {"DONE", "BLOCKED"},
           plan_next_step(s).action = "build_retrieval_pack"
    PROVE  /\ s.artifact # Absent
           /\ plan_next_step(s).requested_pack = choose_retrieval_topic(s)
BY DEF plan_next_step, repair_step, escalate_step, done_step, blocked_step, finish, retrieve_step,
       lint_step, make_step

LEMMA PlanModel ==
    ASSUME NEW s \in ControllerSnapshot, s.state \notin {"DONE", "BLOCKED"},
           plan_next_step(s).action = "call_model"
    PROVE  /\ s.artifact # Absent
           /\ s.retrieval_pack # Absent
           /\ plan_next_step(s).model_task = "interpret_and_suggest" =>
                 s.current_query = NoQuery /\ s.model_decision = Absent
           /\ plan_next_step(s).model_task # "interpret_and_suggest" =>
                 /\ s.repair_loops < 2
                 /\ \/ lint_failed(s)
                    \/ /\ ~lint_failed(s)
                       /\ s.result_analysis # Absent
                       /\ ~s.result_analysis.done
                       /\ ~s.result_analysis.should_escalate
<1>1. s.repair_loops \in Nat
  BY DEF ControllerSnapshot
<1> QED
  BY <1>1 DEF plan_next_step, repair_step, escalate_step, done_step, blocked_step, finish,
              retrieve_step, lint_step, make_step

LEMMA PlanLint ==
    ASSUME NEW s \in ControllerSnapshot, s.state \notin {"DONE", "BLOCKED"},
           plan_next_step(s).action = "lint_query"
    PROVE  /\ s.artifact # Absent
           /\ plan_next_step(s).query # NoQuery
           /\ \/ /\ s.current_query = NoQuery
                 /\ s.model_decision # Absent
                 /\ s.model_decision.status = "query_ready"
                 /\ plan_next_step(s).query = s.model_decision.query
              \/ /\ s.lint_summary = Absent
                 /\ plan_next_step(s).query = s.current_query
BY DEF plan_next_step, repair_step, escalate_step, done_step, blocked_step, finish, retrieve_step,
       lint_step, make_step

LEMMA PlanExecute ==
    ASSUME NEW s \in ControllerSnapshot, s.state \notin {"DONE", "BLOCKED"},
           plan_next_step(s).action = "execute_query"
    PROVE  /\ plan_next_step(s).query = s.current_query
           /\ s.artifact # Absent
           /\ s.lint_summary # Absent
           /\ s.lint_summary.ok
           /\ s.execution_summary = Absent
BY DEF plan_next_step, repair_step, escalate_step, done_step, blocked_step, finish, retrieve_step,
       lint_step, make_step, lint_failed

LEMMA PlanAnalyze ==
    ASSUME NEW s \in ControllerSnapshot, s.state \notin {"DONE", "BLOCKED"},
           plan_next_step(s).action = "analyze_result"
    PROVE  /\ s.artifact # Absent
           /\ s.execution_summary # Absent
           /\ s.result_analysis = Absent
BY DEF plan_next_step, repair_step, escalate_step, done_step, blocked_step, finish, retrieve_step,
       lint_step, make_step

LEMMA PlanEscalate ==
    ASSUME NEW s \in ControllerSnapshot, s.state \notin {"DONE", "BLOCKED"},
           plan_next_step(s).action = "escalate_artifact"
    PROVE  /\ s.artifact # Absent
           /\ s.artifact.kind # "full_html"
           /\ \/ /\ s.current_query = NoQuery
                 /\ s.model_decision # Absent
                 /\ plan_next_step(s).requested_artifact =
                       IF s.model_decision.requested_artifact # ""
                       THEN s.model_decision.requested_artifact
                       ELSE next_artifact_kind[s.artifact.kind]
              \/ /\ s.result_analysis # Absent
                 /\ ~s.result_analysis.done
                 /\ s.result_analysis.should_escalate
                 /\ plan_next_step(s).requested_artifact = next_artifact_kind[s.artifact.kind]
BY ZenonT(40) DEF plan_next_step, repair_step, escalate_step, done_step, blocked_step, finish, retrieve_step,
       lint_step, make_step, can_escalate_artifact

LEMMA PlanEnd ==
    ASSUME NEW s \in ControllerSnapshot, s.state \notin {"DONE", "BLOCKED"},
           plan_next_step(s).action \in {"done", "blocked"}
    PROVE  \/ /\ s.result_analysis # Absent
              /\ s.result_analysis.done
              /\ \E d : plan_next_step(s).final_suggestion = build_final_suggestion(s, "done", d)
           \/ \E d : plan_next_step(s).final_suggestion = build_final_suggestion(s, "blocked", d)
BY DEF plan_next_step, repair_step, escalate_step, done_step, blocked_step, finish, retrieve_step,
       lint_step, make_step

----------------------------------------------------------------------------
(* Whichever core is loaded, the loop reads the same of its step. *)

LEMMA SameReading ==
    ASSUME NEW a, NEW b, Used(a) = Used(b)
    PROVE  /\ a.action = b.action
           /\ a.state = b.state
           /\ a.action \in {"inspect_artifact", "escalate_artifact"} =>
                 a.requested_artifact = b.requested_artifact
           /\ a.action = "build_retrieval_pack" => a.requested_pack = b.requested_pack
           /\ a.action = "call_model" => a.model_task = b.model_task
           /\ a.action \in {"lint_query", "execute_query"} => a.query = b.query
           /\ a.action \in {"done", "blocked"} => a.final_suggestion = b.final_suggestion
<1>1. a.action = b.action /\ a.state = b.state /\ Used(a).reads = Used(b).reads
  BY DEF Used
<1>2. CASE a.action \in {"inspect_artifact", "escalate_artifact"}
  <2>1. Used(a).reads = <<a.requested_artifact>> /\ Used(b).reads = <<b.requested_artifact>>
    BY <1>1, <1>2 DEF Used
  <2> QED
    BY <1>1, <1>2, <2>1
<1>3. CASE a.action = "build_retrieval_pack"
  <2>1. Used(a).reads = <<a.requested_pack>> /\ Used(b).reads = <<b.requested_pack>>
    BY <1>1, <1>3 DEF Used
  <2> QED
    BY <1>1, <1>3, <2>1
<1>4. CASE a.action = "call_model"
  <2>1. Used(a).reads[1] = a.model_task /\ Used(b).reads[1] = b.model_task
    BY <1>1, <1>4 DEF Used
  <2> QED
    BY <1>1, <1>4, <2>1
<1>5. CASE a.action \in {"lint_query", "execute_query"}
  <2>1. Used(a).reads = <<a.query>> /\ Used(b).reads = <<b.query>>
    BY <1>1, <1>5 DEF Used
  <2> QED
    BY <1>1, <1>5, <2>1
<1>6. CASE a.action \in {"done", "blocked"}
  <2>1. Used(a).reads = <<a.final_suggestion>> /\ Used(b).reads = <<b.final_suggestion>>
    BY <1>1, <1>6 DEF Used
  <2> QED
    BY <1>1, <1>6, <2>1
<1> QED
  BY <1>1, <1>2, <1>3, <1>4, <1>5, <1>6

LEMMA StepOfEitherCore ==
    ASSUME HelperInv
    PROVE  Used(step) = Used(plan_next_step(snapshot))
<1>1. snapshot \in ControllerSnapshot /\ snapshot.state \notin {"DONE", "BLOCKED"}
  BY DEF HelperInv, TypeOK
<1> QED
  BY <1>1, PlannersAgree DEF step

----------------------------------------------------------------------------
(* The invariant. *)

LEMMA AnalysisType ==
    ASSUME NEW artifact, NEW lint, NEW execution
    PROVE  analyze_result(artifact, lint, execution) \in ResultAnalysis
BY DEF analyze_result, analysis_of, ResultAnalysis, Diagnosis

\* An analysis that ends the attempt well is of a clean lint and of a run with
\* rows and no NULL.
LEMMA DoneAnalysis ==
    ASSUME NEW artifact, NEW lint, lint # Absent, lint.ok,
           NEW execution \in ExecutionSummary,
           analyze_result(artifact, lint, execution).done
    PROVE  /\ execution.ok
           /\ execution.has_rows
           /\ execution.null_field_count = 0
           /\ execution.blank_field_count > 0 => ~unreliable(artifact)
<1>1. execution.null_field_count \in Nat /\ execution # Absent
  BY AbsentAssumption DEF ExecutionSummary
<1>2. \A d : \A next \in {"repair", "escalate", "execute"} : ~analysis_of(d, next).done
  BY DEF analysis_of
<1> QED
  BY <1>1, <1>2 DEF analyze_result

LEMMA ArtifactType ==
    ASSUME NEW kind \in ArtifactKind
    PROVE  /\ inspect_with_requested_artifact(kind) \in ArtifactSummary
           /\ inspect_with_requested_artifact(kind) # Absent
<1>1. (kind \in {"compact_families", "families", "skeleton"}) \in BOOLEAN
  OBVIOUS
<1>2. inspect_with_requested_artifact(kind) \in ArtifactSummary
  BY <1>1, Zenon DEF inspect_with_requested_artifact, ArtifactSummary
<1> QED
  BY <1>2, AbsentAssumption

\* A turn leaves the attempt running and its state not at an end.
LEMMA TurnKeeps ==
    ASSUME HelperInv, NEW a, a \notin {"done", "blocked"}, Turn(a)
    PROVE  /\ phase' = "running"
           /\ outcome' = Absent
           /\ native' = native /\ native \in BOOLEAN
           /\ steps' \in 0..MaxSteps
           /\ plan_next_step(snapshot).action = a
           /\ step.state \in ControllerState \ {"DONE", "BLOCKED"}
           /\ snapshot \in ControllerSnapshot
           /\ snapshot.state \notin {"DONE", "BLOCKED"}
<1>1. snapshot \in ControllerSnapshot /\ snapshot.state \notin {"DONE", "BLOCKED"}
  BY DEF HelperInv, TypeOK
<1>2. step.action = plan_next_step(snapshot).action /\ step.state = plan_next_step(snapshot).state
  BY StepOfEitherCore, SameReading
<1>3. steps' \in 0..MaxSteps
  BY MaxStepsAssumption DEF Turn, HelperInv, TypeOK
<1> QED
  BY <1>1, <1>2, <1>3, PlanState DEF Turn, HelperInv, TypeOK

LEMMA InspectKeepsInv ==
    ASSUME HelperInv, Inspect
    PROVE  HelperInv'
<1>0. Turn("inspect_artifact")
  BY DEF Inspect
<1>1. snapshot.artifact = Absent /\ step.requested_artifact = "compact_families"
  BY <1>0, TurnKeeps, PlanInspect, StepOfEitherCore, SameReading
<1> DEFINE a == inspect_with_requested_artifact(step.requested_artifact)
<1>2. a \in ArtifactSummary /\ a # Absent
  BY <1>1, ArtifactType DEF ArtifactKind
<1>3. snapshot' = [snapshot EXCEPT !.artifact = a, !.state = step.state,
                                   !.retrieval_pack = Absent, !.model_decision = Absent]
      /\ about' = about
  BY DEF Inspect
<1>4. snapshot.result_analysis = Absent
  BY <1>1 DEF HelperInv, SummariesCurrent
<1>5. snapshot' \in ControllerSnapshot
  BY <1>0, <1>2, <1>3, TurnKeeps DEF ControllerSnapshot
<1> QED
  BY <1>0, <1>2, <1>3, <1>4, <1>5, TurnKeeps
  DEF HelperInv, TypeOK, RepairBudget, SummariesCurrent, DoneIsEarned, ControllerSnapshot

LEMMA BuildPackKeepsInv ==
    ASSUME HelperInv, BuildPack
    PROVE  HelperInv'
<1>0. Turn("build_retrieval_pack")
  BY DEF BuildPack
<1>1. step.requested_pack \in RetrievalTopic
  BY <1>0, TurnKeeps, PlanPack, TopicsAgree, StepOfEitherCore, SameReading
<1>2. snapshot' = [snapshot EXCEPT !.retrieval_pack = step.requested_pack, !.state = step.state]
      /\ about' = about
  BY DEF BuildPack
<1>3. snapshot' \in ControllerSnapshot
  BY <1>0, <1>1, <1>2, TurnKeeps DEF ControllerSnapshot
<1> QED
  BY <1>0, <1>2, <1>3, TurnKeeps
  DEF HelperInv, TypeOK, RepairBudget, SummariesCurrent, DoneIsEarned, ControllerSnapshot, analyze

\* What taking a decision of the model into the snapshot does to it.
LEMMA Adopted ==
    ASSUME NEW s \in ControllerSnapshot, NEW decision \in Decisions
    PROVE  /\ adopt(s, decision) \in ControllerSnapshot
           /\ adopt(s, decision).repair_loops = s.repair_loops
           /\ adopt(s, decision).artifact = s.artifact
           /\ adopt(s, decision).model_decision = decision
           /\ \/ /\ decision.query # NoQuery
                 /\ adopt(s, decision).current_query = decision.query
                 /\ adopt(s, decision).lint_summary = Absent
                 /\ adopt(s, decision).execution_summary = Absent
                 /\ adopt(s, decision).result_analysis = Absent
              \/ /\ ~(decision.status = "query_ready" /\ decision.query # NoQuery)
                 /\ adopt(s, decision).current_query = s.current_query
                 /\ adopt(s, decision).lint_summary = s.lint_summary
                 /\ adopt(s, decision).execution_summary = s.execution_summary
                 /\ adopt(s, decision).result_analysis = s.result_analysis
<1>1. decision \in ModelDecision
  BY AnswersAssumption
<1>2. decision.query \in Query \cup {NoQuery}
  BY <1>1 DEF ModelDecision
<1>3. CASE decision.status = "query_ready" /\ decision.query # NoQuery
  BY <1>1, <1>2, <1>3 DEF adopt, ControllerSnapshot
<1>4. CASE ~(decision.status = "query_ready" /\ decision.query # NoQuery)
  BY <1>1, <1>4 DEF adopt, ControllerSnapshot
<1> QED
  BY <1>3, <1>4

LEMMA InterpretKeepsInv ==
    ASSUME HelperInv, Interpret
    PROVE  HelperInv'
<1>0. Turn("call_model") /\ about' = about
  BY DEF Interpret
<1>1. PICK decision \in Decisions :
          snapshot' = [adopt(snapshot, decision) EXCEPT !.state = step.state]
  BY DEF Interpret
<1> DEFINE s == adopt(snapshot, decision)
<1>2. s \in ControllerSnapshot /\ s.repair_loops = snapshot.repair_loops
  BY <1>0, TurnKeeps, Adopted
<1>3. /\ snapshot' \in ControllerSnapshot
      /\ snapshot'.state = step.state
      /\ snapshot'.repair_loops = s.repair_loops /\ snapshot'.artifact = s.artifact
      /\ snapshot'.model_decision = s.model_decision /\ snapshot'.current_query = s.current_query
      /\ snapshot'.lint_summary = s.lint_summary
      /\ snapshot'.execution_summary = s.execution_summary
      /\ snapshot'.result_analysis = s.result_analysis
  BY <1>0, <1>1, <1>2, TurnKeeps DEF ControllerSnapshot
<1> QED
  BY <1>0, <1>2, <1>3, TurnKeeps, Adopted
  DEF HelperInv, TypeOK, RepairBudget, SummariesCurrent, DoneIsEarned, analyze

LEMMA RepairKeepsInv ==
    ASSUME HelperInv, Repair
    PROVE  HelperInv'
<1>0. Turn("call_model") /\ about' = about
  BY DEF Repair
<1>1. PICK decision \in Decisions :
          snapshot' = [adopt(snapshot, decision) EXCEPT !.state = step.state,
                                                        !.repair_loops = @ + 1]
  BY DEF Repair
<1>a. snapshot.repair_loops \in Nat /\ snapshot.repair_loops < 2
  <2>1. step.model_task # "interpret_and_suggest"
    BY DEF Repair
  <2>2. plan_next_step(snapshot).model_task # "interpret_and_suggest"
    BY <1>0, <2>1, TurnKeeps, StepOfEitherCore, SameReading
  <2> QED
    BY <1>0, <2>2, TurnKeeps, PlanModel DEF ControllerSnapshot
<1> DEFINE s == adopt(snapshot, decision)
<1>2. s \in ControllerSnapshot /\ s.repair_loops = snapshot.repair_loops
  BY <1>0, TurnKeeps, Adopted
<1>b. s.repair_loops + 1 \in Nat
  BY <1>2, <1>a
<1>c. snapshot' = [s EXCEPT !.state = step.state, !.repair_loops = s.repair_loops + 1]
  BY <1>1
<1> HIDE DEF s
<1>3. /\ snapshot' \in ControllerSnapshot
      /\ snapshot'.state = step.state
      /\ snapshot'.repair_loops = s.repair_loops + 1 /\ snapshot'.artifact = s.artifact
      /\ snapshot'.model_decision = s.model_decision /\ snapshot'.current_query = s.current_query
      /\ snapshot'.lint_summary = s.lint_summary
      /\ snapshot'.execution_summary = s.execution_summary
      /\ snapshot'.result_analysis = s.result_analysis
  BY <1>0, <1>2, <1>b, <1>c, TurnKeeps DEF ControllerSnapshot
<1> USE DEF s
<1> QED
  BY <1>0, <1>2, <1>3, <1>a, TurnKeeps, Adopted
  DEF HelperInv, TypeOK, RepairBudget, SummariesCurrent, DoneIsEarned, analyze

\* The query a lint step carries is the current one: the model's proposal is
\* adopted before the controller sees it.
LEMMA LintsCurrentQuery ==
    ASSUME HelperInv, Lint
    PROVE  /\ query_text = snapshot.current_query
           /\ snapshot.current_query \in Query
           /\ snapshot.lint_summary = Absent
           /\ snapshot.artifact # Absent
<1>1. Turn("lint_query")
  BY DEF Lint
<1>2. snapshot.lint_summary = Absent /\ step.query = snapshot.current_query /\ step.query # NoQuery
      /\ snapshot.artifact # Absent
  BY <1>1, TurnKeeps, PlanLint, StepOfEitherCore, SameReading DEF HelperInv
<1>3. snapshot.current_query \in Query \cup {NoQuery}
  BY <1>1, TurnKeeps DEF ControllerSnapshot
<1> QED
  BY <1>2, <1>3 DEF query_text

LEMMA LintKeepsInv ==
    ASSUME HelperInv, Lint
    PROVE  HelperInv'
<1>0. Turn("lint_query") /\ about' = [about EXCEPT !.lint = query_text]
  BY DEF Lint
<1>1. PICK l \in Lints :
          snapshot' = [snapshot EXCEPT !.current_query = query_text, !.lint_summary = l,
                                       !.state = step.state, !.execution_summary = Absent,
                                       !.result_analysis = Absent, !.model_decision = Absent]
  BY DEF Lint
<1>2. l \in LintSummary
  BY AnswersAssumption
<1>3. query_text \in Query /\ query_text # NoQuery
  BY LintsCurrentQuery, NoQueryAssumption
<1>4. snapshot' \in ControllerSnapshot
  BY <1>0, <1>1, <1>2, <1>3, TurnKeeps DEF ControllerSnapshot
<1>5. /\ snapshot'.current_query = query_text /\ snapshot'.state = step.state
      /\ snapshot'.execution_summary = Absent /\ snapshot'.result_analysis = Absent
      /\ snapshot'.model_decision = Absent /\ snapshot'.repair_loops = snapshot.repair_loops
  BY <1>0, <1>1, TurnKeeps DEF ControllerSnapshot
<1>6. about'.lint = query_text
      /\ about' \in [lint : Query \cup {NoQuery}, execution : Query \cup {NoQuery},
                     analysis : (Query \cup {NoQuery}) \X (ArtifactSummary \cup {Absent})]
  BY <1>0, <1>3 DEF HelperInv, TypeOK
<1> QED
  BY <1>0, <1>3, <1>4, <1>5, <1>6, TurnKeeps
  DEF HelperInv, TypeOK, RepairBudget, SummariesCurrent, DoneIsEarned

LEMMA ExecutesCurrentQuery ==
    ASSUME HelperInv, Execute
    PROVE  /\ query_text = snapshot.current_query
           /\ snapshot.lint_summary # Absent /\ snapshot.lint_summary.ok
           /\ snapshot.execution_summary = Absent
<1>1. Turn("execute_query")
  BY DEF Execute
<1> QED
  BY <1>1, TurnKeeps, PlanExecute, StepOfEitherCore, SameReading DEF query_text

LEMMA ExecuteKeepsInv ==
    ASSUME HelperInv, Execute
    PROVE  HelperInv'
<1>0. Turn("execute_query") /\ about' = [about EXCEPT !.execution = query_text]
  BY DEF Execute
<1>1. PICK e \in Executions :
          snapshot' = [snapshot EXCEPT !.execution_summary = e, !.state = step.state,
                                       !.result_analysis = Absent]
  BY DEF Execute
<1>2. e \in ExecutionSummary
  BY AnswersAssumption
<1>3. snapshot' \in ControllerSnapshot
  BY <1>0, <1>1, <1>2, TurnKeeps DEF ControllerSnapshot
<1>4. /\ snapshot'.current_query = snapshot.current_query /\ snapshot'.state = step.state
      /\ snapshot'.lint_summary = snapshot.lint_summary /\ snapshot'.result_analysis = Absent
      /\ snapshot'.model_decision = snapshot.model_decision
      /\ snapshot'.repair_loops = snapshot.repair_loops
  BY <1>0, <1>1, TurnKeeps DEF ControllerSnapshot
<1>5. about'.execution = query_text /\ about'.lint = about.lint
      /\ about' \in [lint : Query \cup {NoQuery}, execution : Query \cup {NoQuery},
                     analysis : (Query \cup {NoQuery}) \X (ArtifactSummary \cup {Absent})]
  BY <1>0, ExecutesCurrentQuery, TurnKeeps DEF HelperInv, TypeOK, ControllerSnapshot
<1> QED
  BY <1>0, <1>3, <1>4, <1>5, ExecutesCurrentQuery, TurnKeeps
  DEF HelperInv, TypeOK, RepairBudget, SummariesCurrent, DoneIsEarned

LEMMA AnalyzeIsOfEitherCore ==
    ASSUME NEW artifact \in ArtifactSummary,
           NEW lint \in LintSummary \cup {Absent},
           NEW execution \in ExecutionSummary \cup {Absent}
    PROVE  /\ analyze(artifact, lint, execution) = analyze_result(artifact, lint, execution)
           /\ analyze(artifact, lint, execution) \in ResultAnalysis
<1>1. analyze_result(artifact, lint, execution) = helper_analyze_result(artifact, lint, execution)
  BY AnalyzersAgree
<1>2. analyze_result(artifact, lint, execution) \in ResultAnalysis
  BY AnalysisType
<1> QED
  BY <1>1, <1>2 DEF analyze

LEMMA AnalyzeKeepsInv ==
    ASSUME HelperInv, Analyze
    PROVE  HelperInv'
<1> DEFINE r == analyze(snapshot.artifact, snapshot.lint_summary, snapshot.execution_summary)
<1>0. /\ Turn("analyze_result")
      /\ snapshot' = [snapshot EXCEPT !.result_analysis = r, !.state = step.state]
      /\ about' = [about EXCEPT !.analysis = <<snapshot.current_query, snapshot.artifact>>]
  BY DEF Analyze
<1>1. snapshot.artifact # Absent /\ snapshot.execution_summary # Absent
  BY <1>0, TurnKeeps, PlanAnalyze, StepOfEitherCore, SameReading
<1>2. r \in ResultAnalysis
  <2>1. /\ snapshot.artifact \in ArtifactSummary
        /\ snapshot.lint_summary \in LintSummary \cup {Absent}
        /\ snapshot.execution_summary \in ExecutionSummary \cup {Absent}
    BY <1>0, <1>1, TurnKeeps DEF ControllerSnapshot
  <2> QED
    BY <2>1, AnalyzeIsOfEitherCore
<1>3. snapshot' \in ControllerSnapshot
  BY <1>0, <1>2, TurnKeeps DEF ControllerSnapshot
<1>4. /\ snapshot'.current_query = snapshot.current_query /\ snapshot'.state = step.state
      /\ snapshot'.lint_summary = snapshot.lint_summary
      /\ snapshot'.execution_summary = snapshot.execution_summary
      /\ snapshot'.artifact = snapshot.artifact /\ snapshot'.result_analysis = r
      /\ snapshot'.model_decision = snapshot.model_decision
      /\ snapshot'.repair_loops = snapshot.repair_loops
  BY <1>0, TurnKeeps DEF ControllerSnapshot
<1>5. /\ about'.execution = about.execution /\ about'.lint = about.lint
      /\ about'.analysis = <<snapshot.current_query, snapshot.artifact>>
      /\ about' \in [lint : Query \cup {NoQuery}, execution : Query \cup {NoQuery},
                     analysis : (Query \cup {NoQuery}) \X (ArtifactSummary \cup {Absent})]
  BY <1>0, TurnKeeps DEF HelperInv, TypeOK, ControllerSnapshot
<1>6. r = analyze(snapshot.artifact, snapshot.lint_summary, snapshot.execution_summary)'
  BY <1>0, <1>4, TurnKeeps DEF analyze
<1> HIDE DEF r
<1> QED
  BY <1>0, <1>1, <1>3, <1>4, <1>5, <1>6, TurnKeeps
  DEF HelperInv, TypeOK, RepairBudget, SummariesCurrent, DoneIsEarned

\* What an escalation fetches, and what it follows from.
LEMMA EscalatesFrom ==
    ASSUME HelperInv, Escalate
    PROVE  /\ snapshot.artifact # Absent
           /\ snapshot.artifact \in ArtifactSummary
           /\ snapshot.artifact.kind # "full_html"
           /\ step.requested_artifact \in ArtifactKind
           /\ \/ snapshot.result_analysis = Absent
              \/ /\ ~snapshot.result_analysis.done
                 /\ snapshot.result_analysis.should_escalate
                 /\ step.requested_artifact = next_artifact_kind[snapshot.artifact.kind]
<1>1. Turn("escalate_artifact")
  BY DEF Escalate
<1> DEFINE p == plan_next_step(snapshot)
<1>2. p.action = "escalate_artifact" /\ step.requested_artifact = p.requested_artifact
  BY <1>1, TurnKeeps, StepOfEitherCore, SameReading
<1>3. snapshot \in ControllerSnapshot /\ snapshot.state \notin {"DONE", "BLOCKED"}
  BY <1>1, TurnKeeps
<1>4. snapshot.artifact # Absent /\ snapshot.artifact.kind # "full_html"
  BY <1>2, <1>3, PlanEscalate
<1>5. snapshot.artifact \in ArtifactSummary /\ snapshot.artifact.kind \in ArtifactKind
  BY <1>3, <1>4 DEF ControllerSnapshot, ArtifactSummary
<1>6. next_artifact_kind[snapshot.artifact.kind] \in ArtifactKind
  BY <1>5, LevelsAgree
<1>7. CASE /\ snapshot.current_query = NoQuery
           /\ snapshot.model_decision # Absent
           /\ p.requested_artifact = IF snapshot.model_decision.requested_artifact # ""
                                     THEN snapshot.model_decision.requested_artifact
                                     ELSE next_artifact_kind[snapshot.artifact.kind]
  <2>1. snapshot.model_decision.requested_artifact \in ArtifactKind \cup {""}
    BY <1>3, <1>7 DEF ControllerSnapshot, ModelDecision
  <2>2. snapshot.result_analysis = Absent
    BY <1>7 DEF HelperInv, SummariesCurrent
  <2> QED
    BY <1>2, <1>4, <1>5, <1>6, <1>7, <2>1, <2>2
<1>8. CASE /\ snapshot.result_analysis # Absent
           /\ ~snapshot.result_analysis.done
           /\ snapshot.result_analysis.should_escalate
           /\ p.requested_artifact = next_artifact_kind[snapshot.artifact.kind]
  BY <1>2, <1>4, <1>5, <1>6, <1>8
<1> QED
  BY <1>2, <1>3, <1>7, <1>8, PlanEscalate

LEMMA EscalateKeepsInv ==
    ASSUME HelperInv, Escalate
    PROVE  HelperInv'
<1> DEFINE a == inspect_with_requested_artifact(step.requested_artifact)
<1>0. Turn("escalate_artifact") /\ about' = about
  BY DEF Escalate
<1>1. snapshot' = [snapshot EXCEPT !.artifact = a, !.state = step.state,
                                   !.retrieval_pack = Absent, !.result_analysis = Absent,
                                   !.model_decision = Absent]
  BY DEF Escalate
<1>2. a \in ArtifactSummary /\ a # Absent
  BY EscalatesFrom, ArtifactType
<1>3. snapshot' \in ControllerSnapshot
  BY <1>0, <1>1, <1>2, TurnKeeps DEF ControllerSnapshot
<1>4. /\ snapshot'.current_query = snapshot.current_query /\ snapshot'.state = step.state
      /\ snapshot'.lint_summary = snapshot.lint_summary
      /\ snapshot'.execution_summary = snapshot.execution_summary
      /\ snapshot'.result_analysis = Absent /\ snapshot'.model_decision = Absent
      /\ snapshot'.repair_loops = snapshot.repair_loops
  BY <1>0, <1>1, TurnKeeps DEF ControllerSnapshot
<1> QED
  BY <1>0, <1>3, <1>4, TurnKeeps
  DEF HelperInv, TypeOK, RepairBudget, SummariesCurrent, DoneIsEarned

LEMMA FinalSuggestion ==
    ASSUME NEW s, NEW status, NEW d, NEW q
    PROVE  /\ [build_final_suggestion(s, status, d) EXCEPT !.query = q].status = status
           /\ [build_final_suggestion(s, status, d) EXCEPT !.query = q].query = q
           /\ s.current_query # NoQuery =>
                 build_final_suggestion(s, status, d).query = s.current_query
BY DEF build_final_suggestion

LEMMA ReturnKeepsInv ==
    ASSUME HelperInv, Return
    PROVE  HelperInv' /\ (outcome'.status = "done" => snapshot.result_analysis # Absent
                                                       /\ snapshot.result_analysis.done)
<1> DEFINE p == plan_next_step(snapshot)
<1>1. /\ snapshot \in ControllerSnapshot /\ snapshot.state \notin {"DONE", "BLOCKED"}
      /\ native \in BOOLEAN /\ steps' \in 0..MaxSteps /\ phase' = "returned"
      /\ UNCHANGED <<native, snapshot, about>>
  BY MaxStepsAssumption DEF HelperInv, TypeOK, Return
<1>2. /\ p.action \in {"done", "blocked"}
      /\ outcome' = [p.final_suggestion EXCEPT
                        !.query = IF @ = NoQuery THEN snapshot.current_query ELSE @]
  BY StepOfEitherCore, SameReading DEF Return
<1>3. HelperInv' <=> DoneIsEarned'
  <2>1. TypeOK' /\ RepairBudget'
    BY <1>1 DEF HelperInv, TypeOK, RepairBudget
  <2>2. SummariesCurrent'
    <3>1. SummariesCurrent
      BY DEF HelperInv
    <3>2. UNCHANGED <<native, snapshot, about>>
      BY <1>1
    <3> QED
      BY <3>1, <3>2 DEF SummariesCurrent, analyze
  <2> QED
    BY <1>1, <2>1, <2>2 DEF HelperInv
<1>4. CASE \E d : p.final_suggestion = build_final_suggestion(snapshot, "blocked", d)
  <2>1. outcome'.status = "blocked"
    <3>1. PICK d : p.final_suggestion = build_final_suggestion(snapshot, "blocked", d)
      BY <1>4
    <3>2. PICK q : outcome' = [build_final_suggestion(snapshot, "blocked", d) EXCEPT !.query = q]
      BY <1>2, <3>1
    <3> QED
      BY <3>2, FinalSuggestion
  <2>2. DoneIsEarned'
    BY <2>1 DEF DoneIsEarned
  <2> HIDE DEF p
  <2> QED
    BY <1>3, <2>1, <2>2
<1>5. CASE /\ snapshot.result_analysis # Absent
           /\ snapshot.result_analysis.done
           /\ \E d : p.final_suggestion = build_final_suggestion(snapshot, "done", d)
  <2>1. /\ snapshot.artifact # Absent /\ snapshot.execution_summary # Absent
        /\ about.execution = snapshot.current_query
        /\ snapshot.lint_summary # Absent /\ snapshot.lint_summary.ok
        /\ about.lint = snapshot.current_query /\ snapshot.current_query # NoQuery
        /\ snapshot.result_analysis = analyze(snapshot.artifact, snapshot.lint_summary,
                                              snapshot.execution_summary)
    BY <1>5 DEF HelperInv, SummariesCurrent
  <2>2. /\ snapshot.artifact \in ArtifactSummary
        /\ snapshot.lint_summary \in LintSummary \cup {Absent}
        /\ snapshot.execution_summary \in ExecutionSummary
        /\ snapshot.current_query \in Query
    BY <1>1, <2>1 DEF ControllerSnapshot
  <2>3. analyze_result(snapshot.artifact, snapshot.lint_summary, snapshot.execution_summary).done
    BY <1>5, <2>1, <2>2, AnalyzeIsOfEitherCore
  <2>4. /\ snapshot.execution_summary.ok
        /\ snapshot.execution_summary.has_rows
        /\ snapshot.execution_summary.null_field_count = 0
        /\ snapshot.execution_summary.blank_field_count > 0 => ~unreliable(snapshot.artifact)
    BY <2>1, <2>2, <2>3, DoneAnalysis
  <2>5. outcome'.query = snapshot.current_query
    <3>1. PICK d : p.final_suggestion = build_final_suggestion(snapshot, "done", d)
      BY <1>5
    <3>2. p.final_suggestion.query = snapshot.current_query
      BY <2>1, <3>1, FinalSuggestion
    <3>3. outcome' = [build_final_suggestion(snapshot, "done", d)
                         EXCEPT !.query = snapshot.current_query]
      BY <1>2, <2>1, <3>1, <3>2
    <3> QED
      BY <3>3, FinalSuggestion
  <2>6. DoneIsEarned'
    BY <1>1, <2>1, <2>2, <2>4, <2>5 DEF DoneIsEarned, unreliable
  <2> QED
    BY <1>3, <1>5, <2>6
<1> QED
  BY <1>1, <1>2, <1>4, <1>5, PlanEnd

LEMMA EndsKeepInv ==
    ASSUME HelperInv, Exhaust \/ Raise
    PROVE  HelperInv' /\ ~(outcome' # Absent /\ outcome'.status = "done")
<1>1. UNCHANGED <<native, snapshot, steps, about>> /\ phase' \in {"exhausted", "raised"}
      /\ (outcome' = outcome \/ outcome'.status = "blocked") /\ phase = "running"
  <2>1. CASE Exhaust
    <3>1. outcome'.status = "blocked"
      BY <2>1 DEF Exhaust
    <3> QED
      BY <2>1, <3>1 DEF Exhaust
  <2>2. CASE Raise
    BY <2>2 DEF Raise
  <2> QED
    BY <2>1, <2>2
<1>2. outcome = Absent
  BY <1>1 DEF HelperInv
<1> QED
  BY <1>1, <1>2
  DEF HelperInv, TypeOK, RepairBudget, SummariesCurrent, DoneIsEarned, analyze

LEMMA InitInv == Init => HelperInv
<1> SUFFICES ASSUME Init PROVE HelperInv
  OBVIOUS
<1>1. PICK r \in Requests :
          snapshot = [request |-> r.request, state |-> "START", current_query |-> r.query,
                      repair_loops |-> 0, artifact |-> Absent, retrieval_pack |-> Absent,
                      lint_summary |-> Absent, execution_summary |-> Absent,
                      result_analysis |-> Absent, model_decision |-> Absent]
  BY DEF Init
<1>2. r.request \in HelperRequest /\ r.query \in Query \cup {NoQuery}
  BY AnswersAssumption
<1>3. snapshot \in ControllerSnapshot
  BY <1>1, <1>2 DEF ControllerSnapshot, ControllerState
<1> QED
  BY <1>1, <1>3, MaxStepsAssumption
  DEF Init, HelperInv, TypeOK, RepairBudget, SummariesCurrent, DoneIsEarned

LEMMA StutterKeepsInv == HelperInv /\ UNCHANGED vars => HelperInv'
BY DEF vars, HelperInv, TypeOK, RepairBudget, SummariesCurrent, DoneIsEarned, analyze

LEMMA NextKeepsInv == HelperInv /\ [Next]_vars => HelperInv'
<1> SUFFICES ASSUME HelperInv, [Next]_vars PROVE HelperInv'
  OBVIOUS
<1> QED
  BY InspectKeepsInv, BuildPackKeepsInv, InterpretKeepsInv, RepairKeepsInv, LintKeepsInv,
     ExecuteKeepsInv, AnalyzeKeepsInv, EscalateKeepsInv, ReturnKeepsInv, EndsKeepInv,
     StutterKeepsInv
  DEF Next

\* The invariant, and with it that repairs stay within two, that no summary is
\* stale and that a recommended query earned it, hold of every attempt.
THEOREM HelperInvariance == Spec => []HelperInv
<1>1. Init => HelperInv
  BY InitInv
<1>2. HelperInv /\ [Next]_vars => HelperInv'
  BY NextKeepsInv
<1> QED
  BY <1>1, <1>2, PTL DEF Spec

\* An attempt never makes a third repair call.
THEOREM AtMostTwoRepairs == Spec => []RepairBudget
<1>1. HelperInv => RepairBudget
  BY DEF HelperInv
<1> QED
  BY <1>1, HelperInvariance, PTL

\* Every summary on file is about the current query and the current artifact.
THEOREM NothingStale == Spec => []SummariesCurrent
<1>1. HelperInv => SummariesCurrent
  BY DEF HelperInv
<1> QED
  BY <1>1, HelperInvariance, PTL

\* A recommended query passed lint and ran to rows without NULL fields.
THEOREM RecommendationsEarned == Spec => []DoneIsEarned
<1>1. HelperInv => DoneIsEarned
  BY DEF HelperInv
<1> QED
  BY <1>1, HelperInvariance, PTL

\* The two cores agree in every state of every attempt.
THEOREM CoresStayInStep == Spec => []CoresAgree
<1>1. HelperInv => CoresAgree
  <2> SUFFICES ASSUME HelperInv PROVE CoresAgree
    OBVIOUS
  <2>1. snapshot \in ControllerSnapshot /\ snapshot.state \notin {"DONE", "BLOCKED"}
    BY DEF HelperInv, TypeOK
  <2>2. Used(plan_next_step(snapshot)) = Used(helper_plan_next(snapshot))
    BY <2>1, PlannersAgree
  <2>3. ASSUME snapshot.artifact # Absent
        PROVE  analyze_result(snapshot.artifact, snapshot.lint_summary, snapshot.execution_summary)
               = helper_analyze_result(snapshot.artifact, snapshot.lint_summary,
                                       snapshot.execution_summary)
    <3>1. /\ snapshot.artifact \in ArtifactSummary
          /\ snapshot.lint_summary \in LintSummary \cup {Absent}
          /\ snapshot.execution_summary \in ExecutionSummary \cup {Absent}
      BY <2>1, <2>3 DEF ControllerSnapshot
    <3> QED
      BY <3>1, AnalyzersAgree
  <2> QED
    BY <2>2, <2>3 DEF CoresAgree
<1> QED
  BY <1>1, HelperInvariance, PTL

----------------------------------------------------------------------------
(* Escalations, and the refinement of HelperAttempt. *)

LEMMA EscalateClimbs ==
    ASSUME HelperInv, Escalate, snapshot.result_analysis # Absent
    PROVE  LevelOf[snapshot'.artifact.kind] = LevelOf[snapshot.artifact.kind] + 1
<1>1. snapshot'.artifact = inspect_with_requested_artifact(step.requested_artifact)
  BY TurnKeeps DEF Escalate, ControllerSnapshot
<1>2. snapshot'.artifact.kind = next_artifact_kind[snapshot.artifact.kind]
  BY <1>1, EscalatesFrom DEF inspect_with_requested_artifact
<1>3. snapshot.artifact.kind \in ArtifactKind /\ snapshot.artifact.kind # "full_html"
  BY EscalatesFrom DEF ArtifactSummary
<1> QED
  BY <1>2, <1>3, LevelsAgree

\* Only an inspection, before there is an artifact, and an escalation change it.
LEMMA ArtifactKept ==
    ASSUME HelperInv, [Next]_vars, snapshot.artifact # Absent,
           snapshot'.artifact # snapshot.artifact
    PROVE  Escalate
<1>1. snapshot \in ControllerSnapshot
  BY DEF HelperInv, TypeOK
<1>2. ~Inspect
  BY TurnKeeps, PlanInspect, StepOfEitherCore, SameReading DEF Inspect
<1>3. ~BuildPack
  BY <1>1 DEF BuildPack, ControllerSnapshot
<1>4. ~Interpret /\ ~Repair
  <2>1. ASSUME NEW decision \in Decisions,
               \/ snapshot' = [adopt(snapshot, decision) EXCEPT !.state = step.state]
               \/ snapshot' = [adopt(snapshot, decision) EXCEPT !.state = step.state,
                                                                !.repair_loops = @ + 1]
        PROVE  FALSE
    <3> DEFINE t == adopt(snapshot, decision)
    <3>1. t \in ControllerSnapshot /\ t.artifact = snapshot.artifact
      BY <1>1, Adopted
    <3>2. snapshot'.artifact # t.artifact
      BY <3>1
    <3>3. \/ snapshot' = [t EXCEPT !.state = step.state]
          \/ snapshot' = [t EXCEPT !.state = step.state, !.repair_loops = @ + 1]
      BY <2>1
    <3> HIDE DEF t
    <3> QED
      BY <3>1, <3>2, <3>3 DEF ControllerSnapshot
  <2> QED
    BY <2>1 DEF Interpret, Repair
<1>5. ~Lint /\ ~Execute /\ ~Analyze
  BY <1>1, ZenonT(40) DEF Lint, Execute, Analyze, ControllerSnapshot
<1>6. ~Return /\ ~Exhaust /\ ~Raise /\ ~UNCHANGED vars
  BY DEF Return, Exhaust, Raise, vars
<1> QED
  BY <1>2, <1>3, <1>4, <1>5, <1>6 DEF Next

\* The analyzer's escalations rise one level at a time.
THEOREM EscalationsClimb == Spec => AnalyzerClimbsOneLevel
<1>1. HelperInv /\ [Next]_vars =>
        [ /\ snapshot.artifact # Absent
          /\ snapshot'.artifact # snapshot.artifact
          /\ snapshot.result_analysis # Absent
          => LevelOf[snapshot'.artifact.kind] = LevelOf[snapshot.artifact.kind] + 1 ]_vars
  BY ArtifactKept, EscalateClimbs
<1> QED
  BY <1>1, HelperInvariance, PTL DEF Spec, AnalyzerClimbsOneLevel

\* Before an answer, the abstract answer is "none", and a step that leaves the
\* attempt running leaves it so.
LEMMA StillNoAnswer ==
    ASSUME HelperInv, NEW a, a \notin {"done", "blocked"}, Turn(a)
    PROVE  answer_now = "none" /\ answer_now' = "none"
<1>1. phase = "running" /\ phase' = "running"
  BY TurnKeeps DEF Turn
<1> QED
  BY <1>1 DEF answer_now

\* A step that leaves the query and its summaries alone is not seen.
LEMMA SameVerdict ==
    ASSUME HelperInv, NEW a, a \notin {"done", "blocked"}, Turn(a),
           snapshot'.current_query = snapshot.current_query,
           snapshot'.repair_loops = snapshot.repair_loops,
           snapshot'.lint_summary = snapshot.lint_summary,
           snapshot'.execution_summary = snapshot.execution_summary,
           snapshot'.result_analysis = snapshot.result_analysis
    PROVE  UNCHANGED Attempt!avars
<1>1. verdict_now' = verdict_now
  BY DEF verdict_now
<1> QED
  BY <1>1, StillNoAnswer DEF Attempt!avars

LEMMA BookkeepingUnseen ==
    ASSUME HelperInv, Inspect \/ BuildPack
    PROVE  UNCHANGED Attempt!avars
<1>1. snapshot \in ControllerSnapshot
  BY DEF HelperInv, TypeOK
<1>2. CASE Inspect
  <2>1. Turn("inspect_artifact")
    BY <1>2 DEF Inspect
  <2> QED
    BY <1>1, <1>2, <2>1, SameVerdict DEF Inspect, ControllerSnapshot
<1>3. CASE BuildPack
  <2>1. Turn("build_retrieval_pack")
    BY <1>3 DEF BuildPack
  <2> QED
    BY <1>1, <1>3, <2>1, SameVerdict DEF BuildPack, ControllerSnapshot
<1> QED
  BY <1>2, <1>3

LEMMA InterpretSuggests ==
    ASSUME HelperInv, Interpret
    PROVE  Attempt!ANext \/ UNCHANGED Attempt!avars
<1>0. Turn("call_model")
  BY DEF Interpret
<1>1. snapshot \in ControllerSnapshot /\ snapshot.current_query = NoQuery
  BY <1>0, TurnKeeps, PlanModel, StepOfEitherCore, SameReading DEF Interpret
<1>2. /\ snapshot.lint_summary = Absent
      /\ snapshot.execution_summary = Absent
      /\ snapshot.result_analysis = Absent
  BY <1>1 DEF HelperInv, SummariesCurrent
<1>3. PICK decision \in Decisions :
          snapshot' = [adopt(snapshot, decision) EXCEPT !.state = step.state]
  BY DEF Interpret
<1> DEFINE t == adopt(snapshot, decision)
<1>4. t \in ControllerSnapshot /\ t.repair_loops = snapshot.repair_loops
  BY <1>1, Adopted
<1>5. snapshot' = [t EXCEPT !.state = step.state]
  BY <1>3
<1>6. /\ t.lint_summary = Absent
      /\ t.execution_summary = Absent
      /\ t.result_analysis = Absent
      /\ t.current_query \in Query \cup {NoQuery}
  BY <1>1, <1>2, <1>4, Adopted DEF ControllerSnapshot
<1> HIDE DEF t
<1>7. /\ snapshot'.current_query = t.current_query
      /\ snapshot'.repair_loops = snapshot.repair_loops
      /\ snapshot'.lint_summary = Absent
      /\ snapshot'.execution_summary = Absent
      /\ snapshot'.result_analysis = Absent
  BY <1>4, <1>5, <1>6 DEF ControllerSnapshot
<1>8. CASE t.current_query = NoQuery
  BY <1>0, <1>1, <1>2, <1>7, <1>8, SameVerdict
<1>9. CASE t.current_query \in Query
  <2>1. verdict_now' = verdict_now
    BY <1>2, <1>7 DEF verdict_now
  <2> QED
    BY <1>0, <1>1, <1>7, <1>9, <2>1, StillNoAnswer DEF Attempt!ANext, Attempt!Suggest
<1> QED
  BY <1>6, <1>8, <1>9

LEMMA RepairRepairs ==
    ASSUME HelperInv, Repair
    PROVE  Attempt!ANext \/ UNCHANGED Attempt!avars
<1>0. Turn("call_model")
  BY DEF Repair
<1>1. snapshot \in ControllerSnapshot /\ snapshot.state \notin {"DONE", "BLOCKED"}
  BY <1>0, TurnKeeps
<1>2. /\ snapshot.repair_loops < 2
      /\ \/ lint_failed(snapshot)
         \/ /\ ~lint_failed(snapshot)
            /\ snapshot.result_analysis # Absent
            /\ ~snapshot.result_analysis.done
            /\ ~snapshot.result_analysis.should_escalate
  <2>1. plan_next_step(snapshot).model_task # "interpret_and_suggest"
    BY <1>0, TurnKeeps, StepOfEitherCore, SameReading DEF Repair
  <2> QED
    BY <1>0, <1>1, <2>1, TurnKeeps, PlanModel
<1>3. /\ snapshot.current_query # NoQuery
      /\ verdict_now \in {"rejected", "bad"}
  <2>1. CASE lint_failed(snapshot)
    <3>1. snapshot.execution_summary = Absent /\ snapshot.result_analysis = Absent
      BY <2>1 DEF lint_failed, HelperInv, SummariesCurrent
    <3> QED
      BY <2>1, <3>1 DEF lint_failed, HelperInv, SummariesCurrent, verdict_now
  <2>2. CASE /\ snapshot.result_analysis # Absent
             /\ ~snapshot.result_analysis.done
             /\ ~snapshot.result_analysis.should_escalate
    BY <2>2 DEF HelperInv, SummariesCurrent, verdict_now
  <2> QED
    BY <1>2, <2>1, <2>2
<1>4. PICK decision \in Decisions :
          snapshot' = [adopt(snapshot, decision) EXCEPT !.state = step.state,
                                                        !.repair_loops = @ + 1]
  BY DEF Repair
<1> DEFINE t == adopt(snapshot, decision)
<1>5. t \in ControllerSnapshot /\ t.repair_loops = snapshot.repair_loops
  BY <1>1, Adopted
<1>6. snapshot' = [t EXCEPT !.state = step.state, !.repair_loops = t.repair_loops + 1]
  BY <1>4
<1>7. \/ /\ t.current_query # NoQuery
         /\ t.lint_summary = Absent
         /\ t.execution_summary = Absent
         /\ t.result_analysis = Absent
      \/ /\ t.current_query = snapshot.current_query
         /\ t.lint_summary = snapshot.lint_summary
         /\ t.execution_summary = snapshot.execution_summary
         /\ t.result_analysis = snapshot.result_analysis
  BY <1>1, Adopted
<1> HIDE DEF t
<1>8. /\ snapshot'.current_query = t.current_query
      /\ snapshot'.repair_loops = snapshot.repair_loops + 1
      /\ snapshot'.lint_summary = t.lint_summary
      /\ snapshot'.execution_summary = t.execution_summary
      /\ snapshot'.result_analysis = t.result_analysis
      /\ t.current_query \in Query \cup {NoQuery}
  BY <1>5, <1>6 DEF ControllerSnapshot
<1>9. \/ t.current_query \in Query /\ verdict_now' = "unchecked"
      \/ t.current_query = snapshot.current_query /\ verdict_now' = verdict_now
  BY <1>7, <1>8 DEF verdict_now
<1> QED
  BY <1>0, <1>2, <1>3, <1>8, <1>9, StillNoAnswer DEF Attempt!ANext, Attempt!ARepair

LEMMA LintLints ==
    ASSUME HelperInv, Lint
    PROVE  Attempt!ANext \/ UNCHANGED Attempt!avars
<1>0. Turn("lint_query") /\ snapshot \in ControllerSnapshot
  BY TurnKeeps DEF Lint
<1>1. PICK l \in Lints :
          snapshot' = [snapshot EXCEPT !.current_query = query_text, !.lint_summary = l,
                                       !.state = step.state, !.execution_summary = Absent,
                                       !.result_analysis = Absent, !.model_decision = Absent]
  BY DEF Lint
<1>2. l # Absent
  BY AnswersAssumption, AbsentAssumption
<1>3. /\ snapshot'.current_query = snapshot.current_query
      /\ snapshot'.repair_loops = snapshot.repair_loops
      /\ snapshot'.lint_summary = l
      /\ snapshot'.execution_summary = Absent
      /\ snapshot'.result_analysis = Absent
  BY <1>0, <1>1, LintsCurrentQuery DEF ControllerSnapshot
<1>4. verdict_now' \in {"clean", "rejected"}
  BY <1>2, <1>3 DEF verdict_now
<1>5. snapshot.current_query # NoQuery /\ verdict_now = "unchecked"
  BY LintsCurrentQuery, NoQueryAssumption DEF HelperInv, SummariesCurrent, verdict_now
<1> QED
  BY <1>0, <1>3, <1>4, <1>5, StillNoAnswer DEF Attempt!ANext, Attempt!ALint

LEMMA ExecuteRuns ==
    ASSUME HelperInv, Execute
    PROVE  Attempt!ANext \/ UNCHANGED Attempt!avars
<1>0. Turn("execute_query") /\ snapshot \in ControllerSnapshot
  BY TurnKeeps DEF Execute
<1>1. PICK e \in Executions :
          snapshot' = [snapshot EXCEPT !.execution_summary = e, !.state = step.state,
                                       !.result_analysis = Absent]
  BY DEF Execute
<1>2. e # Absent
  BY AnswersAssumption, AbsentAssumption
<1>3. /\ snapshot'.current_query = snapshot.current_query
      /\ snapshot'.repair_loops = snapshot.repair_loops
      /\ snapshot'.execution_summary = e
      /\ snapshot'.result_analysis = Absent
  BY <1>0, <1>1 DEF ControllerSnapshot
<1>4. verdict_now' = "ran"
  BY <1>2, <1>3 DEF verdict_now
<1>5. verdict_now = "clean"
  BY ExecutesCurrentQuery DEF HelperInv, SummariesCurrent, verdict_now
<1> QED
  BY <1>0, <1>3, <1>4, <1>5, StillNoAnswer DEF Attempt!ANext, Attempt!Run

LEMMA AnalyzeJudges ==
    ASSUME HelperInv, Analyze
    PROVE  Attempt!ANext \/ UNCHANGED Attempt!avars
<1> DEFINE r == analyze(snapshot.artifact, snapshot.lint_summary, snapshot.execution_summary)
<1>0. /\ Turn("analyze_result")
      /\ snapshot \in ControllerSnapshot
      /\ snapshot' = [snapshot EXCEPT !.result_analysis = r, !.state = step.state]
  BY TurnKeeps DEF Analyze
<1>1. /\ snapshot.artifact # Absent
      /\ snapshot.execution_summary # Absent
      /\ snapshot.result_analysis = Absent
  BY <1>0, TurnKeeps, PlanAnalyze, StepOfEitherCore, SameReading
<1>2. r # Absent
  <2>1. /\ snapshot.artifact \in ArtifactSummary
        /\ snapshot.lint_summary \in LintSummary \cup {Absent}
        /\ snapshot.execution_summary \in ExecutionSummary \cup {Absent}
    BY <1>0, <1>1 DEF ControllerSnapshot
  <2> QED
    BY <2>1, AnalyzeIsOfEitherCore, AbsentAssumption
<1> HIDE DEF r
<1>3. /\ snapshot'.current_query = snapshot.current_query
      /\ snapshot'.repair_loops = snapshot.repair_loops
      /\ snapshot'.result_analysis = r
  BY <1>0 DEF ControllerSnapshot
<1>4. verdict_now' \in {"good", "bad", "unclear"}
  BY <1>2, <1>3 DEF verdict_now
<1>5. verdict_now = "ran"
  BY <1>1 DEF verdict_now
<1> QED
  BY <1>0, <1>3, <1>4, <1>5, StillNoAnswer DEF Attempt!ANext, Attempt!Judge

LEMMA EscalateLooksCloser ==
    ASSUME HelperInv, Escalate
    PROVE  Attempt!ANext \/ UNCHANGED Attempt!avars
<1>0. Turn("escalate_artifact") /\ snapshot \in ControllerSnapshot
  BY TurnKeeps DEF Escalate
<1>1. /\ snapshot'.current_query = snapshot.current_query
      /\ snapshot'.repair_loops = snapshot.repair_loops
      /\ snapshot'.lint_summary = snapshot.lint_summary
      /\ snapshot'.execution_summary = snapshot.execution_summary
      /\ snapshot'.result_analysis = Absent
  BY <1>0 DEF Escalate, ControllerSnapshot
<1>2. CASE snapshot.result_analysis = Absent
  BY <1>0, <1>1, <1>2, SameVerdict
<1>3. CASE snapshot.result_analysis # Absent
  <2>1. verdict_now = "unclear"
    BY <1>3, EscalatesFrom DEF verdict_now
  <2>2. verdict_now' = "ran"
    BY <1>1, <1>3 DEF verdict_now, HelperInv, SummariesCurrent
  <2> QED
    BY <1>0, <1>1, <2>1, <2>2, StillNoAnswer DEF Attempt!ANext, Attempt!LookCloser
<1> QED
  BY <1>2, <1>3

LEMMA EndAnswers ==
    ASSUME HelperInv, Return \/ Exhaust \/ Raise
    PROVE  Attempt!ANext \/ UNCHANGED Attempt!avars
<1>1. phase = "running" /\ phase' # "running" /\ snapshot' = snapshot
  BY DEF Return, Exhaust, Raise
<1>2. answer_now = "none" /\ verdict_now' = verdict_now
  BY <1>1 DEF answer_now, verdict_now
<1>3. CASE answer_now' = "recommended"
  <2>1. outcome' # Absent /\ outcome'.status = "done"
    BY <1>1, <1>3 DEF answer_now
  <2>2. snapshot.result_analysis # Absent /\ snapshot.result_analysis.done
    BY <2>1, ReturnKeepsInv, EndsKeepInv
  <2>3. verdict_now = "good"
    BY <2>2 DEF verdict_now
  <2> QED
    BY <1>1, <1>2, <1>3, <2>3 DEF Attempt!ANext, Attempt!Recommend
<1>4. CASE answer_now' = "gave up"
  BY <1>1, <1>2, <1>4 DEF Attempt!ANext, Attempt!GiveUp
<1>5. answer_now' \in {"recommended", "gave up"}
  BY <1>1 DEF answer_now
<1> QED
  BY <1>3, <1>4, <1>5

\* Every attempt of the helper is an attempt as HelperAttempt promises it.
THEOREM HelperImplementsAttempt == Spec => ImplementsAttempt
<1>1. Init => Attempt!AInit
  <2> SUFFICES ASSUME Init PROVE Attempt!AInit
    OBVIOUS
  <2>1. PICK r \in Requests :
            snapshot = [request |-> r.request, state |-> "START", current_query |-> r.query,
                        repair_loops |-> 0, artifact |-> Absent, retrieval_pack |-> Absent,
                        lint_summary |-> Absent, execution_summary |-> Absent,
                        result_analysis |-> Absent, model_decision |-> Absent]
    BY DEF Init
  <2>2. r.query \in Query \cup {NoQuery}
    BY AnswersAssumption
  <2> QED
    BY <2>1, <2>2 DEF Init, Attempt!AInit, verdict_now, answer_now
<1>2. HelperInv /\ [Next]_vars => [Attempt!ANext]_(Attempt!avars)
  <2> SUFFICES ASSUME HelperInv, [Next]_vars
               PROVE  Attempt!ANext \/ UNCHANGED Attempt!avars
    OBVIOUS
  <2>1. CASE UNCHANGED vars
    BY <2>1 DEF vars, Attempt!avars, verdict_now, answer_now
  <2> QED
    BY <2>1, BookkeepingUnseen, InterpretSuggests, RepairRepairs, LintLints, ExecuteRuns,
       AnalyzeJudges, EscalateLooksCloser, EndAnswers
    DEF Next
<1> QED
  BY <1>1, <1>2, HelperInvariance, PTL DEF Spec, ImplementsAttempt, Attempt!AttemptSpec
===============================================================================
