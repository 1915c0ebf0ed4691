\* Two actions that overlap, over a page with two documents; Chrome and the agent answer.
CONSTANTS
    NoHtml = NoHtml
    NoId = NoId
    NoQuery = NoQuery
    NoResult = NoResult
    good = good
    Page <- OnePage
    Html <- MCHtml
    Captured <- MCCaptured
    Query = {good}
    LintErrors = {}
    Found <- LeftOpen
    Settings <- Remembered
    Task = {t1, t2}
    Offered = {"capture", "run", "select"}
SPECIFICATION FairSpec
INVARIANT PanelInv
PROPERTY ButtonsComeBack
