\* Every answer of the tools and the model, the step limit of the code.
CONSTANTS
    NoQuery = NoQuery
    Absent = Absent
    q1 = q1
    q2 = q2
    Query <- MCQuery
    Lints <- MCLints
    Executions <- MCExecutions
    Decisions <- MCDecisions
    Requests <- MCRequests
    MaxSteps = 12
SPECIFICATION Spec
INVARIANTS HelperInv DoneIsEarned CoresAgree
PROPERTIES AnalyzerClimbsOneLevel ImplementsAttempt
CHECK_DEADLOCK FALSE
