-------------------------------- MODULE Popup --------------------------------
(***************************************************************************)
(* The panel of the browser extension (browser_plugin/extension/popup):     *)
(* its state, the asynchronous actions its buttons, shortcuts and menus     *)
(* start, and the page, storage and agent they wait for.                    *)
(*                                                                          *)
(* A step runs from one await to the next.  A task is one call of guarded(),*)
(* which disables the buttons for as long as its action runs: but the run   *)
(* shortcut and the menu items are no buttons, and a call that ends enables *)
(* the buttons whoever else is still at work.                               *)
(*                                                                          *)
(* Chrome's storage answers in the order it is asked, so a value is written *)
(* or read when the call is made, and only the answer comes later.          *)
(***************************************************************************)
EXTENDS Naturals, FiniteSets

CONSTANTS
    Page,        \* what the active tab may show
    Html,        \* the text of a document
    Captured,    \* the documents found in a page when captured in a scope
    Query,       \* the texts of the editor
    LintErrors,  \* those that lintQuery finds an error in
    Found,       \* the sessions an earlier opening may have left
    Settings,    \* and the settings
    Task,        \* the guarded actions that can be under way together
    Offered,     \* the kinds of things the user may do (a bound)
    NoHtml, NoId, NoQuery, NoResult

\* What chrome.storage.local holds until something is stored.
NoSettings == [query |-> NoQuery, lint |-> {}, token |-> FALSE]

\* What it may hold: the query, whether the lint is on, if it was ever toggled, and
\* whether there is a token.
LocalStore == [query : Query \cup {NoQuery}, lint : SUBSET BOOLEAN, token : BOOLEAN]

Scope == {"full", "main"}

\* A captured frame: the largest, the blank and the top one are told apart.
Document == [id : Nat, isTop : BOOLEAN, blank : BOOLEAN, size : Nat, html : Html]

\* saveSnapshotToSession stores, and state holds, these four together.
Snapshot == [html : Html \cup {NoHtml}, scope : Scope \cup {""},
             documents : SUBSET Document, id : Nat \cup {NoId}]

NoSnapshot == [html |-> NoHtml, scope |-> "", documents |-> {}, id |-> NoId]

\* What is posted to the agent, and what a result is the answer to: a document,
\* its charset declarations rewritten to UTF-8, and a query.
Request == [html : Html \cup {NoHtml}, query : Query]

ASSUME PopupAssumption ==
    /\ Captured \in [Page \X Scope -> SUBSET Document]
    /\ Found \subseteq Snapshot
    /\ Settings \subseteq LocalStore
    /\ LintErrors \subseteq Query
    /\ NoHtml \notin Html
    /\ NoId \notin Nat
    /\ NoResult \notin Request
    /\ NoQuery \notin Query

Tab == {"table", "json", "errors"}

VARIABLES
    snapshot,   \* state.snapshotHtml, snapshotScope, snapshotDocuments, snapshotId
    result,     \* state.lastResult
    error,      \* state.lastRunError is set
    query,      \* the editor's text
    lint,       \* state.lintEnabled
    token,      \* the token field is not empty
    tab,        \* state.activeOutputTab
    label,      \* the tab the output buttons are labelled for
    disabled,   \* the buttons are disabled
    exportOff,  \* the export and one-shot buttons are disabled
    tasks,      \* the guarded actions under way
    restore,    \* restoreSettings
    session,    \* chrome.storage.session
    local       \* chrome.storage.local

shown == <<snapshot, result, error, query, lint, token, tab>>
buttons == <<label, disabled, exportOff>>
stores == <<session, local>>
vars == <<shown, buttons, tasks, restore, stores>>

Idle == [kind |-> "none", pc |-> "idle", query |-> NoQuery, scope |-> "",
         reply |-> {}, request |-> NoResult, tab |-> "table", early |-> FALSE]

restoring == restore.pc # "done"
----------------------------------------------------------------------------
(* Choosing and adopting documents. *)

\* Background sorts the top document, frame 0, first, then by frame.
First(documents) == CHOOSE d \in documents : \A e \in documents : d.id <= e.id

Largest(documents) ==
    First({d \in documents : \A e \in documents : e.size <= d.size})

choosePreferredSnapshotId(documents) ==
    LET clear == {d \in documents : ~d.blank}
        frames == {d \in clear : ~d.isTop}
        tops == clear \ frames
    IN  CASE frames # {} -> Largest(frames).id
          [] frames = {} /\ tops # {} -> First(tops).id
          [] clear = {} -> First(documents).id

\* A selection that changes the text but not the recorded document.
select_text_only(s, id) ==
    [s EXCEPT !.html = (CHOOSE d \in s.documents : d.id = id).html]

\* selectSnapshot: the document of that id, or the first one.
select(s, id) ==
    LET named == {d \in s.documents : d.id = id}
        selected == First(IF named # {} THEN named ELSE s.documents)
    IN  [s EXCEPT !.id = selected.id, !.html = selected.html]

\* captureSnapshot, once the documents are there.
captured(documents, scope) ==
    select([NoSnapshot EXCEPT !.documents = documents, !.scope = scope],
           choosePreferredSnapshotId(documents))

\* restoreSettings: a session may hold a text alone, written before frames
\* were captured.
OnlyDocument(html) == [id |-> 0, isTop |-> TRUE, blank |-> FALSE, size |-> 80, html |-> html]

restored(s) ==
    IF s.html = NoHtml THEN NoSnapshot
    ELSE LET documents == IF s.documents = {} THEN {OnlyDocument(s.html)} ELSE s.documents
         IN  select([s EXCEPT !.documents = documents],
                    IF \E d \in documents : d.id = s.id THEN s.id
                    ELSE choosePreferredSnapshotId(documents))
----------------------------------------------------------------------------
(* How a guarded action starts, waits and ends. *)

\* updateCopyExportLabel
Relabel == label' = tab' /\ exportOff' = (tab' = "errors")

Await(t, task) == tasks' = [tasks EXCEPT ![t] = task]

\* guarded without its finally.
Ends_on_success_only(t) ==
    /\ tasks' = [tasks EXCEPT ![t] = Idle]
    /\ disabled' = (tasks[t].pc \in {"tab", "asked", "answered"})
    /\ Relabel

Ends(t) ==
    /\ tasks' = [tasks EXCEPT ![t] = Idle]
    /\ disabled' = FALSE
    /\ Relabel

Disable == disabled' = TRUE /\ exportOff' = TRUE /\ label' = label

\* guarded disables the buttons before the action's first step, not later.
Starts(t, task) ==
    /\ Await(t, task)
    /\ IF tasks[t].pc = "idle" THEN Disable ELSE UNCHANGED buttons

started(kind) == [Idle EXCEPT !.kind = kind, !.early = restoring]

\* A run error that leaves the result of an earlier run in place.
SetRunError_keeping_result == error' = TRUE /\ result' = result /\ tab' = "errors"

SetRunError == error' = TRUE /\ result' = NoResult /\ tab' = "errors"

\* The action returns or throws with nothing more to change: guarded reports an
\* exception on the status line and drops it.
Finishes(t) == UNCHANGED <<shown, stores>> /\ Ends(t)

nothing_to_run == ~token \/ (~lint /\ query = NoQuery)

\* lintQuery finds an empty query an error too.
lint_fails == lint /\ query \in LintErrors \cup {NoQuery}

\* runQuery up to its first await; task is its caller so far.
BeginRun(t, task) ==
    /\ \/ nothing_to_run /\ Finishes(t)
       \/ /\ ~nothing_to_run /\ lint_fails
          /\ SetRunError
          /\ Ends(t)
          /\ UNCHANGED <<snapshot, query, lint, token, stores>>
       \/ /\ ~nothing_to_run /\ ~lint_fails
          /\ local' = [local EXCEPT !.query = query]
          /\ Starts(t, [task EXCEPT !.pc = "stored", !.query = query])
          /\ UNCHANGED <<shown, session>>
    /\ UNCHANGED restore

\* runQuery posts the text it now finds in the state.
Post(t) ==
    /\ Await(t, [tasks[t] EXCEPT !.pc = "fetch",
                                 !.request = [html |-> snapshot.html, query |-> tasks[t].query]])
    /\ UNCHANGED <<shown, buttons, stores>>
----------------------------------------------------------------------------
(* captureSnapshot. *)

Capture(t) ==
    /\ tasks[t].pc = "idle" /\ ~disabled
    /\ Starts(t, [started("capture") EXCEPT !.pc = "tab"])
    /\ UNCHANGED <<shown, restore, stores>>

\* getActiveTab answers: the snapshot of the whole page is asked for.
GotTab(t) ==
    /\ tasks[t].pc = "tab"
    /\ \/ /\ Await(t, [tasks[t] EXCEPT !.pc = "asked", !.scope = "full"])
          /\ UNCHANGED <<shown, buttons, stores>>
       \/ Finishes(t)
    /\ UNCHANGED restore

\* background.js: the page that the tab shows by now, whatever the user has opened
\* since, or no document at all.
BackgroundCaptures(t) ==
    /\ tasks[t].pc = "asked"
    /\ \E documents \in {Captured[page, tasks[t].scope] : page \in Page} \cup {{}} :
          Await(t, [tasks[t] EXCEPT !.pc = "answered", !.reply = documents])
    /\ UNCHANGED <<shown, buttons, restore, stores>>

\* The message itself fails: only then is the main part of the page asked for.
Unanswered(t) ==
    /\ tasks[t].pc = "asked"
    /\ IF tasks[t].scope = "full"
       THEN /\ Await(t, [tasks[t] EXCEPT !.scope = "main"])
            /\ UNCHANGED <<shown, buttons, stores>>
       ELSE Finishes(t)
    /\ UNCHANGED restore

\* saveSnapshotToSession, whose failure is only warned about.
Save(s) == session' = s \/ UNCHANGED session

\* The answer arrives: its documents replace the panel's, whatever they are by
\* now, and are saved.
Answered(t) ==
    /\ tasks[t].pc = "answered"
    /\ IF tasks[t].reply = {} THEN Finishes(t)
       ELSE /\ snapshot' = captured(tasks[t].reply, tasks[t].scope)
            /\ Save(snapshot')
            /\ Await(t, [tasks[t] EXCEPT !.pc = "cached", !.reply = {}, !.scope = ""])
            /\ UNCHANGED <<result, error, query, lint, token, tab, buttons, local>>
    /\ UNCHANGED restore

\* The session answers: captureSnapshot returns to its caller.
Cached(t) ==
    /\ tasks[t].pc = "cached"
    /\ \/ tasks[t].kind = "capture" /\ Finishes(t) /\ UNCHANGED restore
       \/ tasks[t].query # NoQuery /\ Post(t) /\ UNCHANGED restore
       \/ tasks[t].kind = "oneshot" /\ tasks[t].query = NoQuery /\ BeginRun(t, tasks[t])
----------------------------------------------------------------------------
(* runQuery and runOneShotForActiveTab. *)

\* By a button, when enabled, or by the shortcut of the editor, always.
Run(t) == tasks[t].pc = "idle" /\ BeginRun(t, started("run"))

OneShot(t) ==
    /\ tasks[t].pc = "idle" /\ ~exportOff
    /\ IF tab = "errors" THEN Finishes(t)
       ELSE /\ Starts(t, [started("oneshot") EXCEPT !.pc = "tab", !.tab = tab])
            /\ UNCHANGED <<shown, stores>>
    /\ UNCHANGED restore

\* A mutation: a panel that has captured nothing yet needs no capture.
must_capture_main == snapshot.scope = "main"

must_capture == snapshot.html = NoHtml \/ snapshot.scope # "full"

\* The query is stored: capture first, or post the document in the panel.
Stored(t) ==
    /\ tasks[t].pc = "stored"
    /\ IF must_capture
       THEN /\ Await(t, [tasks[t] EXCEPT !.pc = "tab"])
            /\ UNCHANGED <<shown, buttons, stores>>
       ELSE Post(t)
    /\ UNCHANGED restore

\* The agent's rows arrive, whatever the panel shows by now.
Result(t) ==
    /\ tasks[t].pc = "fetch"
    /\ error' = FALSE
    /\ result' = tasks[t].request
    /\ IF tasks[t].kind = "run"
       THEN tab' = "table" /\ Ends(t)
       ELSE \* One-shot: back to the tab it began on, and to the clipboard.
            /\ tab' = tasks[t].tab
            /\ Relabel
            /\ Await(t, [tasks[t] EXCEPT !.pc = "copied"])
            /\ UNCHANGED disabled
    /\ UNCHANGED <<snapshot, query, lint, token, restore, stores>>

\* The agent answers with an error, or does not answer.
NoRows(t) ==
    /\ tasks[t].pc = "fetch"
    /\ \/ SetRunError /\ Ends(t) /\ UNCHANGED <<snapshot, query, lint, token, stores>>
       \/ Finishes(t)
    /\ UNCHANGED restore

\* What a one-shot hands to the browser as a file, once the clipboard has its
\* copy: the result in the panel by then.  Without one it fails.
exported == result

\* The clipboard has the copy, or refuses it; the action ends.
Copied(t) ==
    /\ tasks[t].pc = "copied"
    /\ Finishes(t)
    /\ UNCHANGED restore

\* copyQuery and copyActiveExport, if there is anything to copy.
Copy(t) ==
    /\ tasks[t].pc = "idle" /\ ~disabled
    /\ \E some \in {query # NoQuery, tab = "errors" \/ result # NoResult} :
          IF some THEN /\ Starts(t, [started("copy") EXCEPT !.pc = "copied"])
                       /\ UNCHANGED <<shown, stores>>
          ELSE Finishes(t)
    /\ UNCHANGED restore

ExportActive(t) ==
    /\ tasks[t].pc = "idle" /\ ~exportOff
    /\ Finishes(t)
    /\ UNCHANGED restore
----------------------------------------------------------------------------
(* The other guarded actions: each changes the state, then awaits a store. *)

Saving(t, kind) == Starts(t, [started(kind) EXCEPT !.pc = "saved"])

\* selectSnapshot, from a menu that is not disabled: the results are dropped,
\* which enables the export and one-shot buttons at once.
SelectSnapshot(t) ==
    /\ tasks[t].pc = "idle"
    /\ Cardinality(snapshot.documents) > 1
    /\ \E d \in snapshot.documents : snapshot' = select(snapshot, d.id)
    /\ result' = NoResult /\ error' = FALSE /\ tab' = "table"
    /\ Save(snapshot')
    /\ Await(t, [started("select") EXCEPT !.pc = "saved"])
    /\ disabled' = TRUE
    /\ Relabel
    /\ UNCHANGED <<query, lint, token, restore, local>>

\* applySelectedExample, from a menu that is not disabled, and formatCurrentQuery.
ReplaceQuery(t) ==
    /\ tasks[t].pc = "idle"
    /\ query' \in Query
    /\ error' = FALSE
    /\ local' = [local EXCEPT !.query = query']
    /\ Saving(t, "replace")
    /\ UNCHANGED <<snapshot, result, lint, token, tab, restore, session>>

ToggleLint(t) ==
    /\ tasks[t].pc = "idle" /\ ~disabled
    /\ lint' = ~lint
    /\ local' = [local EXCEPT !.lint = {lint'}]
    /\ Saving(t, "lint")
    /\ UNCHANGED <<snapshot, result, error, query, token, tab, restore, session>>

SaveToken(t) ==
    /\ tasks[t].pc = "idle" /\ ~disabled
    /\ local' = [local EXCEPT !.token = token]
    /\ Saving(t, "token")
    /\ UNCHANGED <<shown, restore, session>>

Saved(t) ==
    /\ tasks[t].pc = "saved"
    /\ Finishes(t)
    /\ UNCHANGED restore
----------------------------------------------------------------------------
(* What no guard delays: typing, the tabs, opening the panel. *)

Type ==
    /\ query' \in Query \cup {NoQuery}
    /\ error' = FALSE
    /\ UNCHANGED <<snapshot, result, lint, token, tab, buttons, tasks, restore, stores>>

TypeToken ==
    /\ token' \in BOOLEAN
    /\ UNCHANGED <<snapshot, result, error, query, lint, tab, buttons, tasks, restore, stores>>

ShowTab ==
    /\ tab' \in Tab
    /\ Relabel
    /\ UNCHANGED <<snapshot, result, error, query, lint, token, disabled, tasks, restore, stores>>

\* The panel is closed, whatever is under way, and opened again.
Reopen ==
    /\ snapshot' = NoSnapshot /\ result' = NoResult /\ error' = FALSE
    /\ query' = NoQuery /\ lint' = TRUE /\ token' = FALSE /\ tab' = "table"
    /\ disabled' = FALSE /\ Relabel
    /\ tasks' = [t \in Task |-> Idle]
    /\ restore' = [pc |-> "local", local |-> local, session |-> NoSnapshot]
    /\ UNCHANGED stores

\* restoreSettings: the settings arrive, and the session is asked for.
RestoreLocal ==
    /\ restore.pc = "local"
    /\ query' = IF restore.local.query # NoQuery THEN restore.local.query ELSE query
    /\ lint' \in IF restore.local.lint = {} THEN {lint} ELSE restore.local.lint
    /\ token' = (token \/ restore.local.token)
    /\ restore' = [pc |-> "session", local |-> NoSettings, session |-> session]
    /\ UNCHANGED <<snapshot, result, error, tab, buttons, tasks, stores>>

\* The end of restoreSettings: the buttons are labelled, then the table shows.
RestoreEnds ==
    /\ label' = tab /\ exportOff' = (tab = "errors")
    /\ tab' = "table"
    /\ restore' = [restore EXCEPT !.pc = "done", !.session = NoSnapshot]

\* The session arrives and takes the panel over, results apart; an empty one is
\* asked again, for what the extension stored under its former name.
RestoreSession ==
    /\ restore.pc = "session"
    /\ snapshot' = restored(restore.session)
    /\ IF restore.session.html # NoHtml THEN RestoreEnds
       ELSE /\ restore' = [restore EXCEPT !.pc = "legacy"]
            /\ UNCHANGED <<tab, label, exportOff>>
    /\ UNCHANGED <<result, error, query, lint, token, disabled, tasks, stores>>

\* There is nothing (a bound): what was captured meanwhile stays.
RestoreLegacy ==
    /\ restore.pc = "legacy"
    /\ snapshot' = restored(snapshot)
    /\ RestoreEnds
    /\ UNCHANGED <<result, error, query, lint, token, disabled, tasks, stores>>
----------------------------------------------------------------------------
\* bootPopup: a fresh panel has asked local storage for the settings.
Init ==
    /\ session \in Found
    /\ local \in Settings
    /\ snapshot = NoSnapshot /\ result = NoResult /\ error = FALSE
    /\ query = NoQuery /\ lint = TRUE /\ token = FALSE /\ tab = "table"
    /\ disabled = FALSE /\ label = "table" /\ exportOff = FALSE
    /\ tasks = [t \in Task |-> Idle]
    /\ restore = [pc |-> "local", local |-> local, session |-> NoSnapshot]

Continue(t) ==
    GotTab(t) \/ BackgroundCaptures(t) \/ Answered(t) \/ Cached(t) \/ Stored(t)
    \/ Result(t) \/ NoRows(t) \/ Copied(t) \/ Saved(t)

Begin(t) ==
    \/ "capture" \in Offered /\ Capture(t)
    \/ "run" \in Offered /\ Run(t)
    \/ "oneshot" \in Offered /\ OneShot(t)
    \/ "copy" \in Offered /\ (Copy(t) \/ ExportActive(t))
    \/ "select" \in Offered /\ SelectSnapshot(t)
    \/ "settings" \in Offered /\ (ReplaceQuery(t) \/ ToggleLint(t) \/ SaveToken(t))

Restoring == RestoreLocal \/ RestoreSession \/ RestoreLegacy

Next ==
    \/ \E t \in Task : Begin(t) \/ Continue(t) \/ Unanswered(t)
    \/ "type" \in Offered /\ (Type \/ TypeToken)
    \/ "tab" \in Offered /\ ShowTab
    \/ Reopen \/ Restoring

Spec == Init /\ [][Next]_vars

\* Chrome and the agent answer what they are asked.
FairSpec == Spec /\ (\A t \in Task : WF_vars(Continue(t))) /\ WF_vars(Restoring)
----------------------------------------------------------------------------
(* What the panel must keep to, however its actions interleave.             *)

\* A task at an await.
Awaiting == {"tab", "asked", "answered", "cached", "stored", "fetch", "copied", "saved"}

TaskState ==
    [kind : {"none", "capture", "run", "oneshot", "copy", "select", "replace", "lint", "token"},
     pc : Awaiting \cup {"idle"}, query : Query \cup {NoQuery}, scope : Scope \cup {""},
     reply : SUBSET Document, request : Request \cup {NoResult}, tab : Tab, early : BOOLEAN]

\* The types of the panel's state and of the stores.
TypeOK ==
    /\ snapshot \in Snapshot /\ session \in Snapshot
    /\ result \in Request \cup {NoResult}
    /\ query \in Query \cup {NoQuery}
    /\ error \in BOOLEAN /\ lint \in BOOLEAN /\ token \in BOOLEAN
    /\ disabled \in BOOLEAN /\ exportOff \in BOOLEAN
    /\ tab \in Tab /\ label \in Tab
    /\ tasks \in [Task -> TaskState]
    /\ restore \in [pc : {"local", "session", "legacy", "done"}, local : LocalStore, session : Snapshot]
    /\ local \in LocalStore

coherent(s) ==
    s = NoSnapshot \/ \E d \in s.documents : d.id = s.id /\ d.html = s.html

\* The text that runs post is the text of the document the picker shows as
\* selected, in the panel and in the session it restores: four fields that
\* captures, selections and the restore of the session set between them, each
\* overwriting what the others did while it waited (state.snapshot*).
SnapshotCoherent ==
    /\ coherent(snapshot)
    /\ session \in Found \/ coherent(session)

\* A failed run shows no rows: the results of an earlier or a concurrent run
\* never stand beside an error (popup.spec.js, "clears stale results for agent
\* query errors").
NoRowsBesideAnError == error => result = NoResult

\* When no guarded action is under way the buttons are enabled, whatever order
\* the actions that overlapped ended in (the finally of guarded).
ButtonsAreBack == (\A t \in Task : tasks[t].pc = "idle") => ~disabled

\* How far a task is, with what it holds there: a query once it is stored, the
\* documents of an answer, a request once it is posted, a tab to come back to.
Holds(task) ==
    /\ task.pc = "stored" => task.query \in Query
    /\ task.pc = "fetch" => task.request \in Request
    /\ task.pc \in {"asked", "answered"} => task.scope \in Scope

TasksHold == \A t \in Task : Holds(tasks[t])

\* The types, and what the panel keeps to between any two steps of its actions,
\* overlapping runs included: inductive with what the tasks hold.
PopupInv == TypeOK /\ SnapshotCoherent /\ ButtonsAreBack /\ NoRowsBesideAnError /\ TasksHold

\* A run that was started after the session was restored posts a document: no
\* capture or selection it overlaps with can take the document away.
RunsCarryADocument ==
    \A t \in Task : tasks[t].pc = "fetch" /\ ~tasks[t].early => tasks[t].request.html # NoHtml

\* Why: nothing but the restore empties the panel, a task that began behind it finds
\* it done, and what such a task captured is still there, or something newer.
NothingEmptiesIt ==
    \A t \in Task : tasks[t].pc # "idle" /\ ~tasks[t].early =>
        /\ ~restoring
        /\ tasks[t].pc = "cached" => snapshot.html # NoHtml

\* The two together are inductive, beside PopupInv.
DocumentsStay == RunsCarryADocument /\ NothingEmptiesIt

\* All that the panel keeps to.
PanelInv == PopupInv /\ DocumentsStay

\* A disabled panel is enabled again, if Chrome and the agent answer.
ButtonsComeBack == disabled ~> ~disabled
=============================================================================
