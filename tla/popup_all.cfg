\* All but captures and selections, one guarded action at a time beside what is not guarded.
CONSTANTS
    NoHtml = NoHtml
    NoId = NoId
    NoQuery = NoQuery
    NoResult = NoResult
    good = good
    Page <- PlainPage
    Html <- MCHtml
    Captured <- MCCaptured
    Query = {good}
    LintErrors = {}
    Found <- OnlyText
    Settings <- FirstUse
    Task = {t1}
    Offered = {"run", "oneshot", "copy", "settings", "type", "tab"}
SPECIFICATION Spec
INVARIANT PanelInv
