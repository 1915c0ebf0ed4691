------------------------------- MODULE Helper -------------------------------
(***************************************************************************)
(* One attempt of MarkQL Helper: HelperOrchestrator.run of                  *)
(* python/markql/helper/orchestrator.py.  Each turn of its loop asks the    *)
(* core for a step, carries it out with the tool adapters or the model, and *)
(* files the answer in the snapshot, dropping what the answer makes stale.  *)
(* The tools and the model are outside: what they may answer is a constant, *)
(* every answer is possible at every call, and any call may raise.          *)
(***************************************************************************)
EXTENDS HelperCore, HelperLocal

CONSTANTS
    Lints,        \* answers of lint_markql
    Executions,   \* answers of run_markql
    Decisions,    \* answers of the model, for both of its tasks
    Requests,     \* requests an attempt may start from: [request, query]
    MaxSteps      \* max_steps, 12 unless the caller says otherwise

ASSUME AnswersAssumption ==
    /\ Lints \subseteq LintSummary
    /\ Executions \subseteq ExecutionSummary
    /\ Decisions \subseteq ModelDecision
    /\ Requests \subseteq [request : HelperRequest, query : Query \cup {NoQuery}]

ASSUME MaxStepsAssumption == MaxSteps \in Nat

VARIABLES
    native,      \* whether the native core is loaded
    snapshot,    \* the ControllerSnapshot
    steps,       \* turns of the loop taken
    phase,       \* "running", "returned", "exhausted" (out of steps) or "raised"
    outcome,     \* the suggestion handed back, Absent until there is one
    about        \* history: the query each summary is about, and the artifact
                 \* the analysis was made with

vars == <<native, snapshot, steps, phase, outcome, about>>

Init ==
    /\ native \in BOOLEAN
    /\ \E r \in Requests :
          snapshot = [request |-> r.request, state |-> "START", current_query |-> r.query,
                      repair_loops |-> 0, artifact |-> Absent, retrieval_pack |-> Absent,
                      lint_summary |-> Absent, execution_summary |-> Absent,
                      result_analysis |-> Absent, model_decision |-> Absent]
    /\ steps = 0
    /\ phase = "running"
    /\ outcome = Absent
    /\ about = [lint |-> NoQuery, execution |-> NoQuery, analysis |-> <<NoQuery, Absent>>]

step == IF native THEN plan_next_step(snapshot) ELSE helper_plan_next(snapshot)

\* A turn of the loop on which the core asks for `action` and the loop goes on.
Turn(action) ==
    /\ phase = "running"
    /\ steps < MaxSteps
    /\ step.action = action
    /\ steps' = steps + 1
    /\ UNCHANGED <<native, phase, outcome>>

\* The local adapters: the three outlines leave detail out, a slice of the
\* page and the page itself do not.
inspect_with_requested_artifact(kind) ==
    [kind |-> kind, lossy |-> kind \in {"compact_families", "families", "skeleton"}]

Inspect ==
    /\ Turn("inspect_artifact")
    /\ snapshot' = [snapshot EXCEPT
                       !.artifact = inspect_with_requested_artifact(step.requested_artifact),
                       !.state = step.state,
                       !.retrieval_pack = Absent,
                       !.model_decision = Absent]
    /\ UNCHANGED about

BuildPack ==
    /\ Turn("build_retrieval_pack")
    /\ snapshot' = [snapshot EXCEPT !.retrieval_pack = step.requested_pack, !.state = step.state]
    /\ UNCHANGED about

\* A new query makes every summary stale.
adopt(s, decision) ==
    IF decision.status = "query_ready" /\ decision.query # NoQuery
    THEN [s EXCEPT !.model_decision = decision, !.current_query = decision.query,
                   !.lint_summary = Absent, !.execution_summary = Absent,
                   !.result_analysis = Absent]
    ELSE [s EXCEPT !.model_decision = decision]

Interpret ==
    /\ Turn("call_model")
    /\ step.model_task = "interpret_and_suggest"
    /\ \E decision \in Decisions :
          snapshot' = [adopt(snapshot, decision) EXCEPT !.state = step.state]
    /\ UNCHANGED about

Repair ==
    /\ Turn("call_model")
    /\ step.model_task # "interpret_and_suggest"
    /\ \E decision \in Decisions :
          snapshot' = [adopt(snapshot, decision) EXCEPT !.state = step.state,
                                                        !.repair_loops = @ + 1]
    /\ UNCHANGED about

query_text == IF step.query # NoQuery THEN step.query ELSE snapshot.current_query

Lint ==
    /\ Turn("lint_query")
    /\ \E l \in Lints :
          snapshot' = [snapshot EXCEPT !.current_query = query_text,
                                       !.lint_summary = l,
                                       !.state = step.state,
                                       !.execution_summary = Absent,
                                       !.result_analysis = Absent,
                                       !.model_decision = Absent]
    /\ about' = [about EXCEPT !.lint = query_text]

Execute ==
    /\ Turn("execute_query")
    /\ \E e \in Executions :
          snapshot' = [snapshot EXCEPT !.execution_summary = e,
                                       !.state = step.state,
                                       !.result_analysis = Absent]
    /\ about' = [about EXCEPT !.execution = query_text]

analyze(artifact, lint, execution) ==
    IF native THEN analyze_result(artifact, lint, execution)
    ELSE helper_analyze_result(artifact, lint, execution)

Analyze ==
    /\ Turn("analyze_result")
    /\ snapshot' = [snapshot EXCEPT
                       !.result_analysis = analyze(snapshot.artifact, snapshot.lint_summary,
                                                   snapshot.execution_summary),
                       !.state = step.state]
    /\ about' = [about EXCEPT !.analysis = <<snapshot.current_query, snapshot.artifact>>]

Escalate_keeping_analysis ==
    /\ Turn("escalate_artifact")
    /\ snapshot' = [snapshot EXCEPT
                       !.artifact = inspect_with_requested_artifact(step.requested_artifact),
                       !.state = step.state,
                       !.retrieval_pack = Absent,
                       !.model_decision = Absent]
    /\ UNCHANGED about

\* A richer artifact: the lint and execution summaries are kept, the analysis
\* they were given with the poorer one is not.
Escalate ==
    /\ Turn("escalate_artifact")
    /\ snapshot' = [snapshot EXCEPT
                       !.artifact = inspect_with_requested_artifact(step.requested_artifact),
                       !.state = step.state,
                       !.retrieval_pack = Absent,
                       !.result_analysis = Absent,
                       !.model_decision = Absent]
    /\ UNCHANGED about

\* done or blocked: hand the suggestion back.
Return ==
    /\ phase = "running"
    /\ steps < MaxSteps
    /\ step.action \in {"done", "blocked"}
    /\ outcome' = [step.final_suggestion EXCEPT
                      !.query = IF @ = NoQuery THEN snapshot.current_query ELSE @]
    /\ phase' = "returned"
    /\ steps' = steps + 1
    /\ UNCHANGED <<native, snapshot, about>>

\* The loop ran max_steps times without returning.
Exhaust ==
    /\ phase = "running"
    /\ steps = MaxSteps
    /\ outcome' = [status |-> "blocked", query |-> snapshot.current_query,
                   diagnosis |-> "unknown",
                   artifact_used |-> IF snapshot.artifact = Absent THEN ""
                                     ELSE snapshot.artifact.kind,
                   retrieval_topic |-> IF snapshot.retrieval_pack = Absent THEN "row_selection"
                                       ELSE snapshot.retrieval_pack]
    /\ phase' = "exhausted"
    /\ UNCHANGED <<native, snapshot, steps, about>>

\* An inspector, the linter, the engine or the model raises; nothing catches it.
Raise ==
    /\ phase = "running"
    /\ steps < MaxSteps
    /\ step.action \in {"inspect_artifact", "call_model", "lint_query", "execute_query",
                        "escalate_artifact"}
    /\ phase' = "raised"
    /\ UNCHANGED <<native, snapshot, steps, outcome, about>>

Next ==
    \/ Inspect \/ BuildPack \/ Interpret \/ Repair \/ Lint \/ Execute \/ Analyze \/ Escalate
    \/ Return \/ Exhaust \/ Raise

Spec == Init /\ [][Next]_vars

FairSpec == Spec /\ WF_vars(Next)
=============================================================================
