--------------------------- MODULE HelperProperties ---------------------------
(***************************************************************************)
(* What an attempt of MarkQL Helper must keep to, as the runs check it and  *)
(* HelperProofs proves it.                                                  *)
(***************************************************************************)
EXTENDS Helper

\* The types of the orchestrator's state (schemas.py, helper_types.h).
TypeOK ==
    /\ native \in BOOLEAN
    /\ snapshot \in ControllerSnapshot
    /\ steps \in 0..MaxSteps
    /\ phase \in {"running", "returned", "exhausted", "raised"}
    /\ about \in [lint : Query \cup {NoQuery}, execution : Query \cup {NoQuery},
                  analysis : (Query \cup {NoQuery}) \X (ArtifactSummary \cup {Absent})]

\* An attempt makes at most two repair calls (docs/markql-helper-design.md,
\* "maximum two repair loops per attempt"), whichever of the two failures,
\* lint or result, each of them answers, and whatever the model replies.
RepairBudget == snapshot.repair_loops <= 2

\* No summary outlives what it is about: the lint summary is of the current
\* query; the execution summary is of a run of that query and the lint it
\* passed is still the one on file; the analysis is the one the current
\* artifact and summaries give.  (The pops after each step of the loop.)
SummariesCurrent ==
    /\ snapshot.lint_summary # Absent =>
          about.lint = snapshot.current_query /\ snapshot.current_query # NoQuery
    /\ snapshot.execution_summary # Absent =>
          /\ about.execution = snapshot.current_query
          /\ snapshot.lint_summary # Absent
          /\ snapshot.lint_summary.ok
    /\ snapshot.result_analysis # Absent =>
          /\ about.analysis = <<snapshot.current_query, snapshot.artifact>>
          /\ snapshot.artifact # Absent
          /\ snapshot.execution_summary # Absent
          /\ snapshot.result_analysis = analyze(snapshot.artifact, snapshot.lint_summary,
                                                snapshot.execution_summary)

\* A query is recommended only if that very query passed lint and, when run,
\* gave rows with no NULL field, and no blank one the artifact could not
\* explain (orchestrator.py's "done", the end of every helper surface).
DoneIsEarned ==
    outcome # Absent /\ outcome.status = "done" =>
        /\ outcome.query \in Query
        /\ about.lint = outcome.query /\ snapshot.lint_summary.ok
        /\ about.execution = outcome.query
        /\ snapshot.execution_summary.ok
        /\ snapshot.execution_summary.has_rows
        /\ snapshot.execution_summary.null_field_count = 0
        /\ snapshot.execution_summary.blank_field_count > 0 => ~unreliable(snapshot.artifact)

\* The inductive invariant the proofs rest on: the properties above, and that
\* the attempt goes on exactly while it has no outcome and its state is not an
\* end, and that a query the model proposed is the current one at once (so
\* that the controller's branch for linting a proposed query is never taken).
HelperInv ==
    /\ TypeOK
    /\ RepairBudget
    /\ SummariesCurrent
    /\ DoneIsEarned
    /\ phase = "running" => outcome = Absent
    /\ snapshot.state \notin {"DONE", "BLOCKED"}
    /\ /\ snapshot.model_decision # Absent
       /\ snapshot.model_decision.status = "query_ready"
       /\ snapshot.model_decision.query # NoQuery
       => snapshot.current_query # NoQuery

\* What the orchestrator reads of a step, by its action.
Used(s) ==
    [action |-> s.action, state |-> s.state,
     reads |-> CASE s.action \in {"inspect_artifact", "escalate_artifact"} -> <<s.requested_artifact>>
                 [] s.action = "build_retrieval_pack" -> <<s.requested_pack>>
                 [] s.action = "call_model" ->
                        <<s.model_task, IF s.model_task = "repair_from_summary"
                                        THEN s.diagnosis ELSE "none">>
                 [] s.action \in {"lint_query", "execute_query"} -> <<s.query>>
                 [] s.action \in {"done", "blocked"} -> <<s.final_suggestion>>
                 [] OTHER -> <<>>]

\* The controller and the classifier give the same answers in C++ and in
\* Python on every snapshot an attempt can reach, in all the orchestrator
\* reads of them (helper_controller.cpp and local_core.py, kept in step by hand).
CoresAgree ==
    /\ phase = "running" => Used(plan_next_step(snapshot)) = Used(helper_plan_next(snapshot))
    /\ snapshot.artifact # Absent =>
          analyze_result(snapshot.artifact, snapshot.lint_summary, snapshot.execution_summary)
          = helper_analyze_result(snapshot.artifact, snapshot.lint_summary,
                                  snapshot.execution_summary)

LevelOf == [compact_families |-> 1, families |-> 2, skeleton |-> 3, targeted_subtree |-> 4,
            full_html |-> 5]

\* An escalation asked for by the analyzer rises one level and never starts
\* over (next_artifact_kind; docs/markql-helper-design.md, "Artifact Policy").
AnalyzerClimbsOneLevel ==
    [][ /\ snapshot.artifact # Absent
        /\ snapshot'.artifact # snapshot.artifact
        /\ snapshot.result_analysis # Absent
        => LevelOf[snapshot'.artifact.kind] = LevelOf[snapshot.artifact.kind] + 1 ]_vars

\* The abstract attempt this one carries out: its verdict on the current query.
verdict_now ==
    IF snapshot.result_analysis # Absent
      THEN IF snapshot.result_analysis.done THEN "good"
           ELSE IF snapshot.result_analysis.should_escalate THEN "unclear" ELSE "bad"
    ELSE IF snapshot.execution_summary # Absent THEN "ran"
    ELSE IF snapshot.lint_summary = Absent THEN "unchecked"
    ELSE IF snapshot.lint_summary.ok THEN "clean" ELSE "rejected"

answer_now ==
    IF phase = "running" THEN "none"
    ELSE IF outcome # Absent /\ outcome.status = "done" THEN "recommended"
    ELSE "gave up"

Attempt == INSTANCE HelperAttempt WITH
    Repairs <- 2, query <- snapshot.current_query, verdict <- verdict_now,
    repairs <- snapshot.repair_loops, answer <- answer_now

\* The loop carries out an attempt as HelperAttempt promises it: lint before
\* run, run before judgement, judgement before repair or recommendation, at
\* most two repairs, and nothing recommended that was not judged good.
ImplementsAttempt == Attempt!AttemptSpec
=============================================================================
