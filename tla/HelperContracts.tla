------------------------- MODULE HelperContracts -------------------------
(***************************************************************************)
(* The records that the two halves of MarkQL Helper exchange: the C++       *)
(* helper core (core/src/helper) and the Python orchestrator                *)
(* (python/markql/helper).  Reasons, headlines, sample rows and the text of *)
(* artifacts and packs are left out: no decision of either half reads them. *)
(***************************************************************************)
EXTENDS Naturals

CONSTANTS
    Query,      \* the non-empty query texts that can come up in an attempt
    NoQuery,    \* the empty query text
    Absent      \* what a snapshot holds for a summary nobody has produced

HelperMode == {"start", "repair", "explain"}

ArtifactKind == {"compact_families", "families", "skeleton", "targeted_subtree", "full_html"}

Diagnosis == {"none", "row_scope", "field_scope", "grammar", "semantic",
              "artifact_too_lossy", "mixed", "unknown"}

RetrievalTopic == {"row_selection", "exploration", "stabilization", "stable_extraction",
                   "repair", "grammar", "null_and_scope"}

ControllerState == {"START", "INSPECT_COMPACT", "RETRIEVE_PACK", "MODEL_SUGGEST", "LINT_QUERY",
                    "EXECUTE_QUERY", "ANALYZE_RESULT", "MODEL_REPAIR", "ESCALATE_ARTIFACT",
                    "DONE", "BLOCKED"}

\* Whether some constraint of the request contains each of these phrases is
\* all that is asked of the constraints; the last two contain the first.
Phrase == {"project", "no project", "use project"}

HelperRequest ==
    [mode : HelperMode,
     constraints : {c \in SUBSET Phrase : c # {} => "project" \in c}]

ArtifactSummary == [kind : ArtifactKind, lossy : BOOLEAN]

LintSummary == [ok : BOOLEAN, category : Diagnosis]

\* expected_row_count is a set of at most one number: it is optional.
ExecutionSummary ==
    [ok : BOOLEAN, has_rows : BOOLEAN, row_count : Nat, null_field_count : Nat,
     blank_field_count : Nat, expected_row_count : {x \in SUBSET Nat : \A m, n \in x : m = n}]

ResultAnalysis ==
    [diagnosis : Diagnosis, should_repair : BOOLEAN, should_escalate : BOOLEAN,
     should_execute : BOOLEAN, done : BOOLEAN]

\* requested_artifact is "" when the model names none.
ModelDecision ==
    [status : {"query_ready", "need_more_artifact", "blocked", "none"}, diagnosis : Diagnosis,
     requested_artifact : ArtifactKind \cup {""}, query : Query \cup {NoQuery}]

ControllerSnapshot ==
    [request : HelperRequest,
     state : ControllerState,
     current_query : Query \cup {NoQuery},
     repair_loops : Nat,
     artifact : ArtifactSummary \cup {Absent},
     retrieval_pack : RetrievalTopic \cup {Absent},
     lint_summary : LintSummary \cup {Absent},
     execution_summary : ExecutionSummary \cup {Absent},
     result_analysis : ResultAnalysis \cup {Absent},
     model_decision : ModelDecision \cup {Absent}]

ASSUME NoQueryAssumption == NoQuery \notin Query

ASSUME AbsentAssumption ==
    /\ Absent \notin ArtifactSummary
    /\ Absent \notin RetrievalTopic
    /\ Absent \notin LintSummary
    /\ Absent \notin ExecutionSummary
    /\ Absent \notin ResultAnalysis
    /\ Absent \notin ModelDecision
==========================================================================
