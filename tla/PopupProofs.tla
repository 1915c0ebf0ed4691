------------------------------ MODULE PopupProofs ------------------------------
(***************************************************************************)
(* The panel's invariants, for any number of overlapping actions, any pages, *)
(* texts, queries and sessions.                                             *)
(***************************************************************************)
EXTENDS Popup, DataLemmas

----------------------------------------------------------------------------
(* Choosing documents. *)

\* There is a first document.
LEMMA FirstIsOne ==
  ASSUME NEW documents \in SUBSET Document, documents # {}
  PROVE  First(documents) \in documents
<1> DEFINE ids == {d.id : d \in documents}
<1>1. ids \in SUBSET Nat /\ ids # {}
  BY DEF Document
<1>2. PICK m \in ids : \A n \in ids : m <= n
  BY <1>1, LeastNat
<1>3. \E d \in documents : \A e \in documents : d.id <= e.id
  BY <1>2
<1> QED BY <1>3 DEF First

\* selectSnapshot leaves the text of the document that it records.
LEMMA SelectCoheres ==
  ASSUME NEW s \in Snapshot, s.documents # {}, NEW id
  PROVE  /\ select(s, id) \in Snapshot
         /\ coherent(select(s, id))
         /\ select(s, id).html \in Html
<1> DEFINE named == {d \in s.documents : d.id = id}
           selected == First(IF named # {} THEN named ELSE s.documents)
<1>1. s.documents \in SUBSET Document /\ named \in SUBSET Document
  BY DEF Snapshot
<1>2. selected \in s.documents
  BY <1>1, FirstIsOne
<1>3. selected.id \in Nat /\ selected.html \in Html
  BY <1>1, <1>2 DEF Document
<1>4. select(s, id) = [s EXCEPT !.id = selected.id, !.html = selected.html]
  BY DEF select
<1> HIDE DEF selected
<1>5. /\ select(s, id) \in Snapshot
      /\ select(s, id).id = selected.id
      /\ select(s, id).html = selected.html
      /\ select(s, id).documents = s.documents
  BY <1>3, <1>4 DEF Snapshot
<1> QED BY <1>2, <1>3, <1>5 DEF coherent

LEMMA NothingCoheres == NoSnapshot \in Snapshot /\ coherent(NoSnapshot)
BY DEF NoSnapshot, Snapshot, coherent

\* So does a capture,
LEMMA CapturedCoheres ==
  ASSUME NEW documents \in SUBSET Document, documents # {}, NEW scope \in Scope
  PROVE  /\ captured(documents, scope) \in Snapshot
         /\ coherent(captured(documents, scope))
         /\ captured(documents, scope).html \in Html
<1> DEFINE s == [NoSnapshot EXCEPT !.documents = documents, !.scope = scope]
<1>1. s \in Snapshot /\ s.documents # {}
  BY DEF Snapshot, NoSnapshot
<1> HIDE DEF s
<1>2. /\ select(s, choosePreferredSnapshotId(documents)) \in Snapshot
      /\ coherent(select(s, choosePreferredSnapshotId(documents)))
      /\ select(s, choosePreferredSnapshotId(documents)).html \in Html
  BY <1>1, SelectCoheres
<1> QED BY <1>2 DEF captured, s

\* and the restore of any session at all.
LEMMA RestoredCoheres ==
  ASSUME NEW s \in Snapshot
  PROVE  restored(s) \in Snapshot /\ coherent(restored(s))
<1>1. CASE s.html = NoHtml
  BY <1>1, NothingCoheres DEF restored
<1>2. CASE s.html # NoHtml
  <2> DEFINE documents == IF s.documents = {} THEN {OnlyDocument(s.html)} ELSE s.documents
             id == IF \E d \in documents : d.id = s.id THEN s.id
                   ELSE choosePreferredSnapshotId(documents)
             r == [s EXCEPT !.documents = documents]
  <2>1. s.html \in Html
    BY <1>2 DEF Snapshot
  <2>2. documents \in SUBSET Document /\ documents # {}
    <3>1. OnlyDocument(s.html) \in Document
      BY <2>1 DEF Document, OnlyDocument
    <3>2. s.documents \in SUBSET Document
      BY DEF Snapshot
    <3> QED BY <3>1, <3>2
  <2>3. r \in Snapshot /\ r.documents # {}
    BY <2>2 DEF Snapshot
  <2>4. restored(s) = select(r, id)
    BY <1>2 DEF restored
  <2> HIDE DEF r, id
  <2>5. select(r, id) \in Snapshot /\ coherent(select(r, id))
    BY <2>3, SelectCoheres
  <2> QED BY <2>4, <2>5
<1> QED BY <1>1, <1>2
----------------------------------------------------------------------------
(* The invariant by what a step writes: the panel, the buttons, the tasks and *)
(* the stores.                                                               *)

PanelOK ==
    /\ snapshot \in Snapshot /\ coherent(snapshot)
    /\ result \in Request \cup {NoResult}
    /\ query \in Query \cup {NoQuery}
    /\ error \in BOOLEAN /\ lint \in BOOLEAN /\ token \in BOOLEAN
    /\ tab \in Tab
    /\ NoRowsBesideAnError

ButtonsOK == disabled \in BOOLEAN /\ exportOff \in BOOLEAN /\ label \in Tab

TasksOK == tasks \in [Task -> TaskState] /\ TasksHold /\ ButtonsAreBack

StoresOK ==
    /\ session \in Snapshot /\ (session \in Found \/ coherent(session))
    /\ local \in LocalStore

RestoreOK ==
    restore \in [pc : {"local", "session", "legacy", "done"}, local : LocalStore, session : Snapshot]

LEMMA Parts == PopupInv <=> PanelOK /\ ButtonsOK /\ TasksOK /\ StoresOK /\ RestoreOK
BY DEF PopupInv, TypeOK, SnapshotCoherent, PanelOK, ButtonsOK, TasksOK, StoresOK, RestoreOK

LEMMA PartsAfter == PopupInv' <=> PanelOK' /\ ButtonsOK' /\ TasksOK' /\ StoresOK' /\ RestoreOK'
BY DEF PopupInv, TypeOK, SnapshotCoherent, PanelOK, ButtonsOK, TasksOK, StoresOK, RestoreOK

\* What is left alone stays as it should be.
LEMMA PanelStays == PanelOK /\ UNCHANGED shown => PanelOK'
BY DEF PanelOK, shown, NoRowsBesideAnError

LEMMA ButtonsStay == ButtonsOK /\ UNCHANGED buttons => ButtonsOK'
BY DEF ButtonsOK, buttons

LEMMA StoresStay == StoresOK /\ UNCHANGED stores => StoresOK'
BY DEF StoresOK, stores

LEMMA RestoreStays == RestoreOK /\ UNCHANGED restore => RestoreOK'
BY DEF RestoreOK

\* An action that goes on to an await keeps its buttons disabled, if they are;
LEMMA AwaitKeeps ==
  ASSUME TasksOK, NEW t \in Task, NEW task \in TaskState, Holds(task), task.pc # "idle",
         Await(t, task)
  PROVE  TasksOK'
<1>1. tasks' = [tasks EXCEPT ![t] = task]
  BY DEF Await
<1>2. tasks' \in [Task -> TaskState] /\ tasks'[t] = task
  BY <1>1 DEF TasksOK
<1>3. TasksHold'
  BY <1>1 DEF TasksOK, TasksHold
<1>4. ButtonsAreBack'
  BY <1>2 DEF ButtonsAreBack
<1> QED BY <1>2, <1>3, <1>4 DEF TasksOK

\* one that starts disables them,
LEMMA StartKeeps ==
  ASSUME TasksOK, ButtonsOK, NEW t \in Task, NEW task \in TaskState, Holds(task), task.pc # "idle",
         Starts(t, task)
  PROVE  TasksOK' /\ ButtonsOK'
<1>1. TasksOK'
  BY AwaitKeeps DEF Starts
<1>2. ButtonsOK'
  BY DEF ButtonsOK, Starts, Disable, buttons
<1> QED BY <1>1, <1>2

LEMMA IdleTask == NoQuery \notin Query => Idle \in TaskState /\ Holds(Idle) /\ Idle.pc = "idle"
BY DEF Idle, TaskState, Holds, Tab

\* and one that ends enables them, whoever else is at work.
LEMMA EndKeeps ==
  ASSUME TasksOK, NEW t \in Task, tab' \in Tab, Ends(t)
  PROVE  TasksOK' /\ ButtonsOK'
<1>1. tasks' = [tasks EXCEPT ![t] = Idle] /\ disabled' = FALSE
  BY DEF Ends
<1>2. Idle \in TaskState /\ Holds(Idle)
  BY IdleTask, PopupAssumption
<1>3. tasks' \in [Task -> TaskState]
  BY <1>1, <1>2 DEF TasksOK
<1>4. TasksHold'
  BY <1>1, <1>2 DEF TasksOK, TasksHold
<1>5. ButtonsAreBack'
  BY <1>1 DEF ButtonsAreBack
<1>6. ButtonsOK'
  BY DEF Ends, Relabel, ButtonsOK
<1> QED BY <1>3, <1>4, <1>5, <1>6 DEF TasksOK

\* An action that only ends.
LEMMA FinishKeeps ==
  ASSUME PopupInv, NEW t \in Task, Finishes(t), UNCHANGED restore
  PROVE  PopupInv'
<1>1. PanelOK' /\ StoresOK' /\ RestoreOK'
  BY Parts, PanelStays, StoresStay, RestoreStays DEF Finishes
<1>2. tab' \in Tab
  BY <1>1 DEF PanelOK
<1>3. TasksOK' /\ ButtonsOK'
  BY <1>2, Parts, EndKeeps DEF Finishes
<1> QED BY <1>1, <1>3, PartsAfter
----------------------------------------------------------------------------
(* runQuery. *)

\* A run error takes the rows away.
LEMMA ErrorKeeps ==
  ASSUME PanelOK, SetRunError, UNCHANGED <<snapshot, query, lint, token>>
  PROVE  PanelOK'
BY DEF PanelOK, SetRunError, NoRowsBesideAnError, Tab

\* runQuery starts, from a button or behind a capture.
LEMMA BeginRunKeeps ==
  ASSUME PopupInv, NEW t \in Task, NEW task \in TaskState, BeginRun(t, task)
  PROVE  PopupInv'
<1> USE Parts
<1>1. CASE nothing_to_run /\ Finishes(t)
  BY <1>1, FinishKeeps DEF BeginRun
<1>2. CASE SetRunError /\ Ends(t) /\ UNCHANGED <<snapshot, query, lint, token, stores>>
  <2>1. PanelOK'
    BY <1>2, ErrorKeeps
  <2>2. TasksOK' /\ ButtonsOK'
    BY <2>1, <1>2, EndKeeps DEF PanelOK
  <2> QED BY <2>1, <2>2, <1>2, StoresStay, RestoreStays, PartsAfter DEF BeginRun
<1>3. CASE /\ ~nothing_to_run /\ ~lint_fails
           /\ local' = [local EXCEPT !.query = query]
           /\ Starts(t, [task EXCEPT !.pc = "stored", !.query = query])
           /\ UNCHANGED <<shown, session>>
  <2> DEFINE new == [task EXCEPT !.pc = "stored", !.query = query]
  <2>1. query \in Query
    BY <1>3 DEF PanelOK, nothing_to_run, lint_fails
  <2>2. new \in TaskState /\ new.pc = "stored" /\ Holds(new)
    <3>1. new \in TaskState /\ new.pc = "stored" /\ new.query = query
      BY <2>1 DEF TaskState, Awaiting
    <3> HIDE DEF new
    <3> QED BY <3>1, <2>1 DEF Holds
  <2>3. TasksOK' /\ ButtonsOK'
    <3> HIDE DEF new
    <3>1. Starts(t, new)
      BY <1>3 DEF new
    <3> QED BY <3>1, <2>2, StartKeeps
  <2>4. local' \in LocalStore
    BY <1>3, <2>1 DEF StoresOK, LocalStore
  <2>5. StoresOK'
    BY <1>3, <2>4 DEF StoresOK
  <2> QED BY <2>3, <2>5, <1>3, PanelStays, RestoreStays, PartsAfter DEF BeginRun
<1> QED BY <1>1, <1>2, <1>3 DEF BeginRun

\* What an action that starts has with it.
LEMMA StartedTask ==
  ASSUME NEW kind \in {"capture", "run", "oneshot", "copy", "select", "replace", "lint", "token"},
         NEW pc \in Awaiting
  PROVE  /\ started(kind) \in TaskState
         /\ [started(kind) EXCEPT !.pc = pc] \in TaskState
         /\ [started(kind) EXCEPT !.pc = pc].pc = pc
         /\ [started(kind) EXCEPT !.pc = pc].early = restoring
<1>1. Idle \in TaskState /\ restoring \in BOOLEAN
  BY IdleTask, PopupAssumption DEF restoring
<1>2. started(kind) = [Idle EXCEPT !.kind = kind, !.early = restoring]
  BY DEF started
<1>3. started(kind) \in TaskState /\ started(kind).early = restoring
  BY <1>1, <1>2, ZenonT(40) DEF TaskState
<1> HIDE DEF started
<1> QED BY <1>3 DEF TaskState

\* The text of the panel is posted, whatever it is by now.
LEMMA PostKeeps ==
  ASSUME PopupInv, NEW t \in Task, tasks[t].query \in Query, Post(t), UNCHANGED restore
  PROVE  PopupInv'
<1> USE Parts
<1> DEFINE request == [html |-> snapshot.html, query |-> tasks[t].query]
           new == [tasks[t] EXCEPT !.pc = "fetch", !.request = request]
<1>1. request \in Request
  BY DEF Request, PanelOK, Snapshot
<1>2. new \in TaskState /\ new.pc = "fetch" /\ new.request = request
  <2> HIDE DEF request
  <2> QED BY <1>1, ZenonT(40) DEF TasksOK, TaskState, Awaiting
<1>3. Await(t, new)
  BY DEF Post
<1>4. TasksOK'
  <2> HIDE DEF new, request
  <2>1. Holds(new)
    BY <1>1, <1>2 DEF Holds
  <2> QED BY <2>1, <1>2, <1>3, AwaitKeeps
<1> QED BY <1>4, PanelStays, ButtonsStay, StoresStay, RestoreStays, PartsAfter DEF Post

\* A step that only waits for something else,
LEMMA WaitKeeps ==
  ASSUME PopupInv, NEW t \in Task, NEW task \in TaskState, Holds(task), task.pc # "idle",
         Await(t, task), UNCHANGED <<shown, buttons, stores, restore>>
  PROVE  PopupInv'
BY Parts, PartsAfter, AwaitKeeps, PanelStays, ButtonsStay, StoresStay, RestoreStays

\* and one that starts to, with nothing else changed.
LEMMA StartsKeep ==
  ASSUME PopupInv, NEW t \in Task, NEW task \in TaskState, Holds(task), task.pc # "idle",
         Starts(t, task), UNCHANGED <<shown, stores, restore>>
  PROVE  PopupInv'
BY Parts, PartsAfter, StartKeeps, PanelStays, StoresStay, RestoreStays
----------------------------------------------------------------------------
(* captureSnapshot. *)

LEMMA CaptureKeeps ==
  ASSUME PopupInv, NEW t \in Task, Capture(t)
  PROVE  PopupInv'
<1> DEFINE new == [started("capture") EXCEPT !.pc = "tab"]
<1>1. new \in TaskState /\ new.pc = "tab"
  BY StartedTask DEF Awaiting
<1> HIDE DEF new
<1>2. Starts(t, new) /\ UNCHANGED <<shown, stores, restore>>
  BY DEF Capture, new
<1> QED BY <1>1, <1>2, StartsKeep DEF Holds

LEMMA GotTabKeeps ==
  ASSUME PopupInv, NEW t \in Task, GotTab(t)
  PROVE  PopupInv'
<1>1. CASE Finishes(t)
  BY <1>1, FinishKeeps DEF GotTab
<1>2. CASE ~Finishes(t)
  <2> DEFINE new == [tasks[t] EXCEPT !.pc = "asked", !.scope = "full"]
  <2>1. new \in TaskState /\ new.pc = "asked" /\ new.scope \in Scope
    <3>1. tasks[t] \in TaskState
      BY Parts DEF TasksOK
    <3> QED BY <3>1 DEF TaskState, Awaiting, Scope
  <2> HIDE DEF new
  <2>2. Await(t, new) /\ UNCHANGED <<shown, buttons, stores, restore>>
    BY <1>2 DEF GotTab, new
  <2> QED BY <2>1, <2>2, WaitKeeps DEF Holds
<1> QED BY <1>1, <1>2

LEMMA BackgroundCapturesKeeps ==
  ASSUME PopupInv, NEW t \in Task, BackgroundCaptures(t)
  PROVE  PopupInv'
<1>1. tasks[t] \in TaskState /\ tasks[t].scope \in Scope
  BY Parts DEF TasksOK, TasksHold, Holds, BackgroundCaptures
<1>2. PICK documents \in {Captured[page, tasks[t].scope] : page \in Page} \cup {{}} :
          Await(t, [tasks[t] EXCEPT !.pc = "answered", !.reply = documents])
  BY DEF BackgroundCaptures
<1>3. documents \in SUBSET Document
  <2>1. \A page \in Page : Captured[page, tasks[t].scope] \in SUBSET Document
    BY <1>1, PopupAssumption
  <2> QED BY <2>1, <1>2
<1> DEFINE new == [tasks[t] EXCEPT !.pc = "answered", !.reply = documents]
<1>4. new \in TaskState /\ new.pc = "answered" /\ new.scope = tasks[t].scope
  BY <1>1, <1>3 DEF TaskState, Awaiting
<1> HIDE DEF new
<1>5. Await(t, new)
  BY <1>2 DEF new
<1> QED BY <1>1, <1>4, <1>5, WaitKeeps DEF Holds, BackgroundCaptures

LEMMA UnansweredKeeps ==
  ASSUME PopupInv, NEW t \in Task, Unanswered(t)
  PROVE  PopupInv'
<1>1. CASE tasks[t].scope = "full"
  <2> DEFINE new == [tasks[t] EXCEPT !.scope = "main"]
  <2>1. tasks[t] \in TaskState /\ tasks[t].pc = "asked"
    BY Parts DEF TasksOK, Unanswered
  <2>2. new \in TaskState /\ new.pc = "asked" /\ new.scope \in Scope
    BY <2>1 DEF TaskState, Scope
  <2> HIDE DEF new
  <2>3. Await(t, new) /\ UNCHANGED <<shown, buttons, stores, restore>>
    BY <1>1 DEF Unanswered, new
  <2> QED BY <2>2, <2>3, WaitKeeps DEF Holds
<1>2. CASE tasks[t].scope # "full"
  BY <1>2, FinishKeeps DEF Unanswered
<1> QED BY <1>1, <1>2

\* What is saved is coherent when what is shown is.
LEMMA SaveKeeps ==
  ASSUME StoresOK, PanelOK', Save(snapshot'), UNCHANGED local
  PROVE  StoresOK'
BY DEF StoresOK, PanelOK, Save

LEMMA AnsweredKeeps ==
  ASSUME PopupInv, NEW t \in Task, Answered(t)
  PROVE  PopupInv'
<1> USE Parts
<1>1. CASE tasks[t].reply = {}
  BY <1>1, FinishKeeps DEF Answered
<1>2. CASE tasks[t].reply # {}
  <2>1. /\ tasks[t] \in TaskState /\ tasks[t].pc = "answered"
        /\ tasks[t].scope \in Scope /\ tasks[t].reply \in SUBSET Document
    BY DEF TasksOK, TasksHold, Holds, Answered, TaskState
  <2>2. snapshot' = captured(tasks[t].reply, tasks[t].scope)
    BY <1>2 DEF Answered
  <2>3. snapshot' \in Snapshot /\ coherent(snapshot)'
    <3>1. coherent(snapshot)' <=> coherent(snapshot')
      BY DEF coherent
    <3> QED BY <3>1, <1>2, <2>1, <2>2, CapturedCoheres
  <2>4. PanelOK'
    BY <1>2, <2>3 DEF PanelOK, Answered, NoRowsBesideAnError
  <2>5. StoresOK'
    BY <1>2, <2>4, SaveKeeps DEF Answered
  <2> DEFINE new == [tasks[t] EXCEPT !.pc = "cached", !.reply = {}, !.scope = ""]
  <2>6. new \in TaskState /\ new.pc = "cached"
    BY <2>1 DEF TaskState, Awaiting
  <2> HIDE DEF new
  <2>7. Await(t, new) /\ UNCHANGED <<buttons, restore>>
    BY <1>2 DEF Answered, new
  <2>8. TasksOK'
    BY <2>6, <2>7, AwaitKeeps DEF Holds
  <2> QED BY <2>4, <2>5, <2>7, <2>8, ButtonsStay, RestoreStays, PartsAfter
<1> QED BY <1>1, <1>2

LEMMA CachedKeeps ==
  ASSUME PopupInv, NEW t \in Task, Cached(t)
  PROVE  PopupInv'
<1>1. tasks[t] \in TaskState
  BY Parts DEF TasksOK
<1>2. CASE Finishes(t) /\ UNCHANGED restore
  BY <1>2, FinishKeeps
<1>3. CASE tasks[t].query # NoQuery /\ Post(t) /\ UNCHANGED restore
  BY <1>1, <1>3, PostKeeps DEF TaskState
<1>4. CASE BeginRun(t, tasks[t])
  BY <1>1, <1>4, BeginRunKeeps
<1> QED BY <1>2, <1>3, <1>4 DEF Cached
----------------------------------------------------------------------------
(* runQuery and runOneShotForActiveTab. *)

LEMMA RunKeeps ==
  ASSUME PopupInv, NEW t \in Task, Run(t)
  PROVE  PopupInv'
<1>1. started("run") \in TaskState
  BY StartedTask DEF Awaiting
<1> QED BY <1>1, BeginRunKeeps DEF Run

LEMMA OneShotKeeps ==
  ASSUME PopupInv, NEW t \in Task, OneShot(t)
  PROVE  PopupInv'
<1>1. CASE tab = "errors"
  BY <1>1, FinishKeeps DEF OneShot
<1>2. CASE tab # "errors"
  <2> DEFINE new == [started("oneshot") EXCEPT !.pc = "tab", !.tab = tab]
  <2>1. started("oneshot") \in TaskState /\ tab \in Tab
    BY Parts, StartedTask DEF PanelOK, Awaiting
  <2>2. new \in TaskState /\ new.pc = "tab"
    <3> HIDE DEF started
    <3> QED BY <2>1 DEF TaskState, Awaiting
  <2> HIDE DEF new
  <2>3. Starts(t, new) /\ UNCHANGED <<shown, stores, restore>>
    BY <1>2 DEF OneShot, new
  <2> QED BY <2>2, <2>3, StartsKeep DEF Holds
<1> QED BY <1>1, <1>2

LEMMA StoredKeeps ==
  ASSUME PopupInv, NEW t \in Task, Stored(t)
  PROVE  PopupInv'
<1>1. tasks[t] \in TaskState /\ tasks[t].query \in Query
  BY Parts DEF TasksOK, TasksHold, Holds, Stored
<1>2. CASE must_capture
  <2> DEFINE new == [tasks[t] EXCEPT !.pc = "tab"]
  <2>1. new \in TaskState /\ new.pc = "tab"
    BY <1>1 DEF TaskState, Awaiting
  <2> HIDE DEF new
  <2>2. Await(t, new) /\ UNCHANGED <<shown, buttons, stores, restore>>
    BY <1>2 DEF Stored, new
  <2> QED BY <2>1, <2>2, WaitKeeps DEF Holds
<1>3. CASE ~must_capture
  BY <1>1, <1>3, PostKeeps DEF Stored
<1> QED BY <1>2, <1>3

LEMMA ResultKeeps ==
  ASSUME PopupInv, NEW t \in Task, Result(t)
  PROVE  PopupInv'
<1> USE Parts
<1>1. tasks[t] \in TaskState /\ tasks[t].request \in Request /\ tasks[t].tab \in Tab
  BY DEF TasksOK, TasksHold, Holds, Result, TaskState
<1>2. PanelOK'
  BY <1>1 DEF PanelOK, Result, NoRowsBesideAnError, Tab
<1>3. StoresOK' /\ RestoreOK'
  BY StoresStay, RestoreStays DEF Result
<1>4. TasksOK' /\ ButtonsOK'
  <2>1. CASE tasks[t].kind = "run"
    BY <2>1, <1>2, EndKeeps DEF Result, PanelOK
  <2>2. CASE tasks[t].kind # "run"
    <3> DEFINE new == [tasks[t] EXCEPT !.pc = "copied"]
    <3>1. new \in TaskState /\ new.pc = "copied"
      BY <1>1 DEF TaskState, Awaiting
    <3> HIDE DEF new
    <3>2. Await(t, new)
      BY <2>2 DEF Result, new
    <3>3. TasksOK'
      BY <3>1, <3>2, AwaitKeeps DEF Holds
    <3>4. ButtonsOK'
      BY <2>2, <1>1 DEF Result, Relabel, ButtonsOK
    <3> QED BY <3>3, <3>4
  <2> QED BY <2>1, <2>2
<1> QED BY <1>2, <1>3, <1>4, PartsAfter

LEMMA NoRowsKeeps ==
  ASSUME PopupInv, NEW t \in Task, NoRows(t)
  PROVE  PopupInv'
<1> USE Parts
<1>1. CASE SetRunError /\ Ends(t) /\ UNCHANGED <<snapshot, query, lint, token, stores>>
  <2>1. PanelOK'
    BY <1>1, ErrorKeeps
  <2>2. TasksOK' /\ ButtonsOK'
    BY <2>1, <1>1, EndKeeps DEF PanelOK
  <2> QED BY <2>1, <2>2, <1>1, StoresStay, RestoreStays, PartsAfter DEF NoRows
<1>2. CASE Finishes(t)
  BY <1>2, FinishKeeps DEF NoRows
<1> QED BY <1>1, <1>2 DEF NoRows

LEMMA EndingKeeps ==
  ASSUME PopupInv, NEW t \in Task, Copied(t) \/ ExportActive(t) \/ Saved(t)
  PROVE  PopupInv'
BY FinishKeeps DEF Copied, ExportActive, Saved

LEMMA CopyKeeps ==
  ASSUME PopupInv, NEW t \in Task, Copy(t)
  PROVE  PopupInv'
<1> DEFINE new == [started("copy") EXCEPT !.pc = "copied"]
<1>1. new \in TaskState /\ new.pc = "copied"
  BY StartedTask DEF Awaiting
<1> HIDE DEF new
<1>2. \/ Starts(t, new) /\ UNCHANGED <<shown, stores, restore>>
      \/ Finishes(t) /\ UNCHANGED restore
  BY DEF Copy, new
<1> QED BY <1>1, <1>2, StartsKeep, FinishKeeps DEF Holds
----------------------------------------------------------------------------
(* Selections and settings. *)

LEMMA SelectSnapshotKeeps ==
  ASSUME PopupInv, NEW t \in Task, SelectSnapshot(t)
  PROVE  PopupInv'
<1> USE Parts
<1>1. PICK d \in snapshot.documents : snapshot' = select(snapshot, d.id)
  BY DEF SelectSnapshot
<1>2. snapshot' \in Snapshot /\ coherent(snapshot)'
  <2>1. coherent(snapshot)' <=> coherent(snapshot')
    BY DEF coherent
  <2>2. snapshot \in Snapshot /\ snapshot.documents # {}
    BY DEF PanelOK
  <2> QED BY <2>1, <2>2, <1>1, SelectCoheres
<1>3. PanelOK'
  BY <1>2 DEF PanelOK, SelectSnapshot, NoRowsBesideAnError, Tab
<1>4. StoresOK'
  BY <1>3, SaveKeeps DEF SelectSnapshot
<1> DEFINE new == [started("select") EXCEPT !.pc = "saved"]
<1>5. new \in TaskState /\ new.pc = "saved"
  BY StartedTask DEF Awaiting
<1> HIDE DEF new
<1>6. Await(t, new)
  BY DEF SelectSnapshot, new
<1>7. TasksOK'
  BY <1>5, <1>6, AwaitKeeps DEF Holds
<1>8. ButtonsOK'
  BY DEF SelectSnapshot, Relabel, ButtonsOK, Tab
<1> QED BY <1>3, <1>4, <1>7, <1>8, RestoreStays, PartsAfter DEF SelectSnapshot

\* An action that changed a setting waits for the store.
LEMMA SavingKeeps ==
  ASSUME TasksOK, ButtonsOK, NEW t \in Task, NEW kind \in {"replace", "lint", "token"}, Saving(t, kind)
  PROVE  TasksOK' /\ ButtonsOK'
<1> DEFINE new == [started(kind) EXCEPT !.pc = "saved"]
<1>1. /\ kind \in {"capture", "run", "oneshot", "copy", "select", "replace", "lint", "token"}
      /\ "saved" \in Awaiting
  BY DEF Awaiting
<1>2. new \in TaskState /\ new.pc = "saved"
  BY <1>1, StartedTask
<1> HIDE DEF new
<1>3. Starts(t, new)
  BY DEF Saving, new
<1> QED BY <1>2, <1>3, StartKeeps DEF Holds

LEMMA ReplaceQueryKeeps ==
  ASSUME PopupInv, NEW t \in Task, ReplaceQuery(t)
  PROVE  PopupInv'
<1> USE Parts
<1>1. PanelOK'
  BY DEF PanelOK, ReplaceQuery, NoRowsBesideAnError
<1>2. local' \in LocalStore
  BY DEF ReplaceQuery, StoresOK, LocalStore
<1>3. StoresOK'
  BY <1>2 DEF StoresOK, ReplaceQuery
<1>4. TasksOK' /\ ButtonsOK'
  BY SavingKeeps DEF ReplaceQuery
<1> QED BY <1>1, <1>3, <1>4, RestoreStays, PartsAfter DEF ReplaceQuery

LEMMA ToggleLintKeeps ==
  ASSUME PopupInv, NEW t \in Task, ToggleLint(t)
  PROVE  PopupInv'
<1> USE Parts
<1>1. PanelOK'
  BY DEF PanelOK, ToggleLint, NoRowsBesideAnError
<1>2. local' \in LocalStore
  BY <1>1 DEF ToggleLint, StoresOK, LocalStore, PanelOK
<1>3. StoresOK'
  BY <1>2 DEF StoresOK, ToggleLint
<1>4. TasksOK' /\ ButtonsOK'
  BY SavingKeeps DEF ToggleLint
<1> QED BY <1>1, <1>3, <1>4, RestoreStays, PartsAfter DEF ToggleLint

LEMMA SaveTokenKeeps ==
  ASSUME PopupInv, NEW t \in Task, SaveToken(t)
  PROVE  PopupInv'
<1> USE Parts
<1>1. local' \in LocalStore
  BY DEF SaveToken, StoresOK, LocalStore, PanelOK
<1>2. StoresOK'
  BY <1>1 DEF StoresOK, SaveToken
<1>3. TasksOK' /\ ButtonsOK'
  BY SavingKeeps DEF SaveToken
<1> QED BY <1>2, <1>3, PanelStays, RestoreStays, PartsAfter DEF SaveToken
----------------------------------------------------------------------------
(* What no guard delays, and the restore. *)

LEMMA TypeKeeps == PopupInv /\ Type => PopupInv'
<1> SUFFICES ASSUME PopupInv, Type PROVE PopupInv'
  OBVIOUS
<1> USE Parts
<1>1. PanelOK'
  BY DEF PanelOK, Type, NoRowsBesideAnError
<1>2. TasksOK' /\ ButtonsOK'
  BY DEF TasksOK, ButtonsOK, TasksHold, ButtonsAreBack, Type, buttons
<1> QED BY <1>1, <1>2, StoresStay, RestoreStays, PartsAfter DEF Type

LEMMA TypeTokenKeeps == PopupInv /\ TypeToken => PopupInv'
<1> SUFFICES ASSUME PopupInv, TypeToken PROVE PopupInv'
  OBVIOUS
<1> USE Parts
<1>1. PanelOK'
  BY DEF PanelOK, TypeToken, NoRowsBesideAnError
<1>2. TasksOK' /\ ButtonsOK'
  BY DEF TasksOK, ButtonsOK, TasksHold, ButtonsAreBack, TypeToken, buttons
<1> QED BY <1>1, <1>2, StoresStay, RestoreStays, PartsAfter DEF TypeToken

LEMMA ShowTabKeeps == PopupInv /\ ShowTab => PopupInv'
<1> SUFFICES ASSUME PopupInv, ShowTab PROVE PopupInv'
  OBVIOUS
<1> USE Parts
<1>1. PanelOK'
  BY DEF PanelOK, ShowTab, NoRowsBesideAnError
<1>2. TasksOK' /\ ButtonsOK'
  BY DEF TasksOK, ButtonsOK, TasksHold, ButtonsAreBack, ShowTab, Relabel
<1> QED BY <1>1, <1>2, StoresStay, RestoreStays, PartsAfter DEF ShowTab

\* Opening the panel again leaves no task behind, nor a disabled button.
LEMMA ReopenKeeps == PopupInv /\ Reopen => PopupInv'
<1> SUFFICES ASSUME PopupInv, Reopen PROVE PopupInv'
  OBVIOUS
<1> USE Parts
<1>1. PanelOK'
  BY NothingCoheres DEF PanelOK, Reopen, NoRowsBesideAnError, Tab
<1>2. ButtonsOK'
  BY DEF ButtonsOK, Reopen, Relabel, Tab
<1>3. TasksOK'
  BY IdleTask, PopupAssumption DEF TasksOK, TasksHold, ButtonsAreBack, Reopen
<1>4. RestoreOK'
  BY NothingCoheres DEF RestoreOK, StoresOK, Reopen
<1> QED BY <1>1, <1>2, <1>3, <1>4, StoresStay, PartsAfter DEF Reopen

LEMMA RestoreLocalKeeps == PopupInv /\ RestoreLocal => PopupInv'
<1> SUFFICES ASSUME PopupInv, RestoreLocal PROVE PopupInv'
  OBVIOUS
<1> USE Parts
<1>1. restore.local \in LocalStore
  BY DEF RestoreOK
<1>2. query' \in Query \cup {NoQuery} /\ lint' \in BOOLEAN /\ token' \in BOOLEAN
  BY <1>1 DEF RestoreLocal, PanelOK, LocalStore
<1>3. PanelOK'
  BY <1>2 DEF PanelOK, RestoreLocal, NoRowsBesideAnError
<1>4. RestoreOK'
  BY DEF RestoreOK, StoresOK, RestoreLocal, NoSettings, LocalStore
<1>5. TasksOK' /\ ButtonsOK'
  BY DEF TasksOK, ButtonsOK, TasksHold, ButtonsAreBack, RestoreLocal, buttons
<1> QED BY <1>3, <1>4, <1>5, StoresStay, PartsAfter DEF RestoreLocal

\* The end of the restore.
LEMMA RestoreEndsKeeps ==
  ASSUME PopupInv, RestoreEnds
  PROVE  /\ RestoreOK' /\ tab' \in Tab
         /\ exportOff' \in BOOLEAN /\ label' \in Tab
BY Parts, NothingCoheres DEF RestoreEnds, RestoreOK, PanelOK, Tab

LEMMA RestoreSessionKeeps == PopupInv /\ RestoreSession => PopupInv'
<1> SUFFICES ASSUME PopupInv, RestoreSession PROVE PopupInv'
  OBVIOUS
<1> USE Parts
<1>1. snapshot' \in Snapshot /\ coherent(snapshot')
  BY RestoredCoheres DEF RestoreSession, RestoreOK
<1>2. /\ RestoreOK' /\ tab' \in Tab
      /\ exportOff' \in BOOLEAN /\ label' \in Tab
  <2>1. CASE RestoreEnds
    BY <2>1, RestoreEndsKeeps
  <2>2. CASE /\ restore' = [restore EXCEPT !.pc = "legacy"]
             /\ UNCHANGED <<tab, label, exportOff>>
    BY <2>2 DEF RestoreOK, PanelOK, ButtonsOK
  <2> QED BY <2>1, <2>2 DEF RestoreSession
<1>3. PanelOK'
  <2>1. coherent(snapshot)' <=> coherent(snapshot')
    BY DEF coherent
  <2> QED BY <1>1, <1>2, <2>1 DEF PanelOK, RestoreSession, NoRowsBesideAnError
<1>4. TasksOK' /\ ButtonsOK'
  BY <1>2 DEF TasksOK, ButtonsOK, TasksHold, ButtonsAreBack, RestoreSession
<1> QED BY <1>2, <1>3, <1>4, StoresStay, PartsAfter DEF RestoreSession

LEMMA RestoreLegacyKeeps == PopupInv /\ RestoreLegacy => PopupInv'
<1> SUFFICES ASSUME PopupInv, RestoreLegacy PROVE PopupInv'
  OBVIOUS
<1> USE Parts
<1>1. snapshot' \in Snapshot /\ coherent(snapshot')
  BY RestoredCoheres DEF RestoreLegacy, PanelOK
<1>2. /\ RestoreOK' /\ tab' \in Tab
      /\ exportOff' \in BOOLEAN /\ label' \in Tab
  BY RestoreEndsKeeps DEF RestoreLegacy
<1>3. PanelOK'
  <2>1. coherent(snapshot)' <=> coherent(snapshot')
    BY DEF coherent
  <2> QED BY <1>1, <1>2, <2>1 DEF PanelOK, RestoreLegacy, NoRowsBesideAnError
<1>4. TasksOK' /\ ButtonsOK'
  BY <1>2 DEF TasksOK, ButtonsOK, TasksHold, ButtonsAreBack, RestoreLegacy
<1> QED BY <1>2, <1>3, <1>4, StoresStay, PartsAfter DEF RestoreLegacy
----------------------------------------------------------------------------
(* The invariant. *)

LEMMA InitEstablishes == Init => PopupInv
<1> SUFFICES ASSUME Init PROVE PopupInv
  OBVIOUS
<1> USE Parts, PopupAssumption
<1>1. PanelOK
  BY NothingCoheres DEF PanelOK, Init, NoRowsBesideAnError, Tab
<1>2. ButtonsOK
  BY DEF ButtonsOK, Init, Tab
<1>3. TasksOK
  BY IdleTask DEF TasksOK, TasksHold, ButtonsAreBack, Init
<1>4. StoresOK
  BY DEF StoresOK, Init
<1>5. RestoreOK
  BY NothingCoheres DEF RestoreOK, Init
<1> QED BY <1>1, <1>2, <1>3, <1>4, <1>5

LEMMA BeginKeeps ==
  ASSUME PopupInv, NEW t \in Task, Begin(t)
  PROVE  PopupInv'
BY CaptureKeeps, RunKeeps, OneShotKeeps, CopyKeeps, EndingKeeps, SelectSnapshotKeeps,
   ReplaceQueryKeeps, ToggleLintKeeps, SaveTokenKeeps DEF Begin

LEMMA ContinueKeeps ==
  ASSUME PopupInv, NEW t \in Task, Continue(t)
  PROVE  PopupInv'
BY GotTabKeeps, BackgroundCapturesKeeps, AnsweredKeeps, CachedKeeps, StoredKeeps,
   ResultKeeps, NoRowsKeeps, EndingKeeps DEF Continue

LEMMA StutterKeeps == PopupInv /\ UNCHANGED vars => PopupInv'
<1> SUFFICES ASSUME PopupInv, UNCHANGED vars PROVE PopupInv'
  OBVIOUS
<1>1. TasksOK'
  BY Parts DEF TasksOK, TasksHold, ButtonsAreBack, vars, buttons
<1> QED BY <1>1, Parts, PartsAfter, PanelStays, ButtonsStay, StoresStay, RestoreStays DEF vars

LEMMA NextKeeps == PopupInv /\ [Next]_vars => PopupInv'
<1> SUFFICES ASSUME PopupInv, [Next]_vars PROVE PopupInv'
  OBVIOUS
<1>1. ASSUME NEW t \in Task, Begin(t) \/ Continue(t) \/ Unanswered(t) PROVE PopupInv'
  BY <1>1, BeginKeeps, ContinueKeeps, UnansweredKeeps
<1>2. CASE Type \/ TypeToken
  BY <1>2, TypeKeeps, TypeTokenKeeps
<1>3. CASE ShowTab
  BY <1>3, ShowTabKeeps
<1>4. CASE Reopen
  BY <1>4, ReopenKeeps
<1>5. CASE Restoring
  BY <1>5, RestoreLocalKeeps, RestoreSessionKeeps, RestoreLegacyKeeps DEF Restoring
<1>6. CASE UNCHANGED vars
  BY <1>6, StutterKeeps
<1> QED BY <1>1, <1>2, <1>3, <1>4, <1>5, <1>6 DEF Next

\* Whatever order overlapping captures, runs, selections and the restore end in:
\* the text that runs post is that of the selected document, in the panel and in
\* the session; the buttons are enabled once nobody is at work; and no rows stand
\* beside an error (runtime.js: guarded, captureSnapshot, runQuery, selectSnapshot,
\* restoreSettings).
THEOREM PopupInvariance == Spec => []PopupInv
<1>1. Init => PopupInv
  BY InitEstablishes
<1>2. PopupInv /\ [Next]_vars => PopupInv'
  BY NextKeeps
<1> QED BY <1>1, <1>2, PTL DEF Spec

\* The document that the panel shows and posts is that of the snapshot selected in
\* it (runtime.js: selectSnapshot, captureSnapshot, restoreSettings).
THEOREM PanelIsCoherent == Spec => []SnapshotCoherent
BY PopupInvariance, PTL DEF PopupInv

\* No rows stand beside an error, whatever the order in which actions end
\* (runtime.js: setRunError, runQuery).
THEOREM RowsOrError == Spec => []NoRowsBesideAnError
BY PopupInvariance, PTL DEF PopupInv
----------------------------------------------------------------------------
(* Every run posts a document: DocumentsStay, task by task. *)

Documented(task, panel, rest) ==
    task.pc # "idle" /\ ~task.early =>
        /\ rest.pc = "done"
        /\ task.pc = "cached" => panel.html # NoHtml
        /\ task.pc = "fetch" => task.request.html # NoHtml

LEMMA TaskByTask == DocumentsStay <=> \A t \in Task : Documented(tasks[t], snapshot, restore)
BY DEF DocumentsStay, RunsCarryADocument, NothingEmptiesIt, Documented, restoring

LEMMA TaskByTaskAfter == DocumentsStay' <=> \A t \in Task : Documented(tasks'[t], snapshot', restore')
BY DEF DocumentsStay, RunsCarryADocument, NothingEmptiesIt, Documented, restoring

\* A step of one task: it takes no document from the others, and keeps its own.
LEMMA MoveKeepsDocuments ==
  ASSUME TasksOK, DocumentsStay, NEW t \in Task, NEW task, Await(t, task), UNCHANGED restore,
         snapshot.html # NoHtml => snapshot'.html # NoHtml,
         Documented(task, snapshot', restore')
  PROVE  DocumentsStay'
<1> SUFFICES ASSUME NEW u \in Task PROVE Documented(tasks'[u], snapshot', restore')
  BY TaskByTaskAfter
<1>1. CASE u = t
  BY <1>1 DEF Await, TasksOK
<1>2. CASE u # t
  <2>1. tasks'[u] = tasks[u] /\ Documented(tasks[u], snapshot, restore)
    BY <1>2, TaskByTask DEF Await, TasksOK
  <2> QED BY <2>1 DEF Documented
<1> QED BY <1>1, <1>2

LEMMA EndKeepsDocuments ==
  ASSUME TasksOK, DocumentsStay, NEW t \in Task, Ends(t), UNCHANGED <<snapshot, restore>>
  PROVE  DocumentsStay'
<1>1. Idle.pc = "idle" /\ Await(t, Idle)
  BY DEF Idle, Ends, Await
<1> QED BY <1>1, MoveKeepsDocuments DEF Documented

LEMMA FinishKeepsDocuments ==
  ASSUME TasksOK, DocumentsStay, NEW t \in Task, Finishes(t), UNCHANGED restore
  PROVE  DocumentsStay'
BY EndKeepsDocuments DEF Finishes, shown

\* An action that begins finds the restore done, or counts as early.
LEMMA BeginKeepsDocuments ==
  ASSUME TasksOK, DocumentsStay, NEW t \in Task, NEW task, Await(t, task), UNCHANGED restore,
         snapshot.html # NoHtml => snapshot'.html # NoHtml,
         task.early = restoring, task.pc \notin {"cached", "fetch"}
  PROVE  DocumentsStay'
<1>1. Documented(task, snapshot', restore')
  BY DEF Documented, restoring
<1> QED BY <1>1, MoveKeepsDocuments

\* An action that goes on was documented before.
LEMMA WaitKeepsDocuments ==
  ASSUME TasksOK, DocumentsStay, NEW t \in Task, NEW task, Await(t, task), UNCHANGED restore,
         snapshot.html # NoHtml => snapshot'.html # NoHtml,
         tasks[t].pc # "idle", task.early = tasks[t].early,
         task.pc = "cached" => snapshot'.html # NoHtml,
         task.pc = "fetch" /\ ~task.early => task.request.html # NoHtml
  PROVE  DocumentsStay'
<1>1. Documented(task, snapshot', restore')
  BY TaskByTask DEF Documented
<1> QED BY <1>1, MoveKeepsDocuments

\* What is posted is a document when the panel shows one.
LEMMA PostKeepsDocuments ==
  ASSUME TasksOK, DocumentsStay, NEW t \in Task, Post(t), UNCHANGED restore,
         tasks[t].pc # "idle", ~tasks[t].early => snapshot.html # NoHtml
  PROVE  DocumentsStay'
<1> DEFINE request == [html |-> snapshot.html, query |-> tasks[t].query]
           new == [tasks[t] EXCEPT !.pc = "fetch", !.request = request]
<1>1. tasks[t] \in TaskState
  BY DEF TasksOK
<1>2. request.html = snapshot.html
  OBVIOUS
<1>3. new.pc = "fetch" /\ new.early = tasks[t].early /\ new.request = request
  <2> HIDE DEF request
  <2> QED BY <1>1 DEF TaskState
<1>4. Await(t, new) /\ UNCHANGED snapshot
  BY DEF Post, shown
<1> HIDE DEF new, request
<1> QED BY <1>2, <1>3, <1>4, WaitKeepsDocuments

\* A run that begins behind a capture is as early as its caller.
LEMMA BeginRunKeepsDocuments ==
  ASSUME PopupInv, DocumentsStay, NEW t \in Task, NEW task \in TaskState, BeginRun(t, task),
         task.early = restoring \/ (tasks[t].pc # "idle" /\ task = tasks[t])
  PROVE  DocumentsStay'
<1> USE Parts
<1>1. CASE Ends(t) /\ UNCHANGED snapshot
  BY <1>1, EndKeepsDocuments DEF BeginRun
<1>2. CASE Starts(t, [task EXCEPT !.pc = "stored", !.query = query]) /\ UNCHANGED snapshot
  <2> DEFINE new == [task EXCEPT !.pc = "stored", !.query = query]
  <2>1. new.pc = "stored" /\ new.early = task.early
    BY DEF TaskState
  <2> HIDE DEF new
  <2>2. Await(t, new) /\ UNCHANGED <<snapshot, restore>>
    BY <1>2 DEF Starts, new, BeginRun
  <2>3. CASE task.early = restoring
    BY <2>1, <2>2, <2>3, BeginKeepsDocuments
  <2>4. CASE tasks[t].pc # "idle" /\ task = tasks[t]
    BY <2>1, <2>2, <2>4, WaitKeepsDocuments
  <2> QED BY <2>3, <2>4
<1> QED BY <1>1, <1>2 DEF BeginRun, Finishes, shown

\* The actions that begin.
LEMMA StartDocuments ==
  ASSUME PopupInv, DocumentsStay, NEW t \in Task,
         NEW kind \in {"capture", "run", "oneshot", "copy", "select", "replace", "lint", "token"},
         NEW pc \in Awaiting \ {"cached", "fetch"},
         Starts(t, [started(kind) EXCEPT !.pc = pc]), UNCHANGED <<snapshot, restore>>
  PROVE  DocumentsStay'
<1> DEFINE new == [started(kind) EXCEPT !.pc = pc]
<1>1. new.pc = pc /\ new.early = restoring
  BY StartedTask
<1> HIDE DEF new
<1>2. Await(t, new)
  BY DEF Starts, new
<1> QED BY <1>1, <1>2, Parts, BeginKeepsDocuments

LEMMA BeginDocuments ==
  ASSUME PopupInv, DocumentsStay, NEW t \in Task, Begin(t)
  PROVE  DocumentsStay'
<1> USE Parts
<1>0. /\ {"tab", "copied", "saved"} \subseteq Awaiting \ {"cached", "fetch"}
      /\ {"capture", "copy", "select", "replace", "lint", "token"}
           \subseteq {"capture", "run", "oneshot", "copy", "select", "replace", "lint", "token"}
  BY DEF Awaiting
<1>1. CASE Capture(t)
  BY <1>0, <1>1, StartDocuments DEF Capture, shown
<1>2. CASE Run(t)
  <2>1. started("run") \in TaskState /\ started("run").early = restoring
    BY StartedTask DEF Awaiting, started, Idle
  <2> QED BY <1>2, <2>1, BeginRunKeepsDocuments DEF Run
<1>3. CASE OneShot(t)
  <2>1. CASE Finishes(t)
    BY <1>3, <2>1, FinishKeepsDocuments DEF OneShot
  <2>2. CASE Starts(t, [started("oneshot") EXCEPT !.pc = "tab", !.tab = tab]) /\ UNCHANGED shown
    <3> DEFINE new == [started("oneshot") EXCEPT !.pc = "tab", !.tab = tab]
    <3>1. new.pc = "tab" /\ new.early = restoring
      BY DEF started, Idle
    <3> HIDE DEF new
    <3>2. Await(t, new) /\ UNCHANGED <<snapshot, restore>>
      BY <1>3, <2>2 DEF Starts, new, OneShot, shown
    <3> QED BY <3>1, <3>2, BeginKeepsDocuments
  <2> QED BY <1>3, <2>1, <2>2 DEF OneShot
<1>4. CASE Copy(t)
  <2>1. CASE Finishes(t)
    BY <1>4, <2>1, FinishKeepsDocuments DEF Copy
  <2>2. CASE Starts(t, [started("copy") EXCEPT !.pc = "copied"]) /\ UNCHANGED shown
    BY <1>0, <1>4, <2>2, StartDocuments DEF Copy, shown
  <2> QED BY <1>4, <2>1, <2>2 DEF Copy
<1>5. CASE ExportActive(t)
  BY <1>5, FinishKeepsDocuments DEF ExportActive
<1>6. CASE SelectSnapshot(t)
  <2> DEFINE new == [started("select") EXCEPT !.pc = "saved"]
  <2>1. new.pc = "saved" /\ new.early = restoring
    BY DEF started, Idle
  <2> HIDE DEF new
  <2>2. Await(t, new) /\ UNCHANGED restore
    BY <1>6 DEF SelectSnapshot, new
  <2>3. snapshot'.html # NoHtml
    <3>1. PICK d \in snapshot.documents : snapshot' = select(snapshot, d.id)
      BY <1>6 DEF SelectSnapshot
    <3>2. snapshot \in Snapshot /\ snapshot.documents # {}
      BY <3>1 DEF PanelOK
    <3> QED BY <3>1, <3>2, SelectCoheres, PopupAssumption
  <2> QED BY <2>1, <2>2, <2>3, BeginKeepsDocuments
<1>7. CASE ReplaceQuery(t)
  BY <1>0, <1>7, StartDocuments DEF ReplaceQuery, Saving
<1>8. CASE ToggleLint(t)
  BY <1>0, <1>8, StartDocuments DEF ToggleLint, Saving
<1>9. CASE SaveToken(t)
  BY <1>0, <1>9, StartDocuments DEF SaveToken, Saving, shown
<1> QED BY <1>1, <1>2, <1>3, <1>4, <1>5, <1>6, <1>7, <1>8, <1>9 DEF Begin

\* Those that go on: the one that adopts a capture leaves a document, and the one
\* that finds no document to post captures again.
LEMMA ContinueDocuments ==
  ASSUME PopupInv, DocumentsStay, NEW t \in Task, Continue(t) \/ Unanswered(t)
  PROVE  DocumentsStay'
<1> USE Parts
<1>0. tasks[t] \in TaskState
  BY DEF TasksOK
<1>1. CASE Finishes(t) /\ UNCHANGED restore
  BY <1>1, FinishKeepsDocuments
<1>2. CASE GotTab(t)
  <2> DEFINE new == [tasks[t] EXCEPT !.pc = "asked", !.scope = "full"]
  <2>1. new.pc = "asked" /\ new.early = tasks[t].early
    BY <1>0 DEF TaskState
  <2> HIDE DEF new
  <2>2. CASE Await(t, new) /\ UNCHANGED shown
    BY <1>2, <2>1, <2>2, WaitKeepsDocuments DEF GotTab, shown
  <2> QED BY <1>1, <1>2, <2>2 DEF GotTab, new
<1>3. CASE BackgroundCaptures(t)
  <2>1. PICK documents : Await(t, [tasks[t] EXCEPT !.pc = "answered", !.reply = documents])
    BY <1>3 DEF BackgroundCaptures
  <2> DEFINE new == [tasks[t] EXCEPT !.pc = "answered", !.reply = documents]
  <2>2. new.pc = "answered" /\ new.early = tasks[t].early
    BY <1>0 DEF TaskState
  <2> HIDE DEF new
  <2>3. Await(t, new)
    BY <2>1 DEF new
  <2> QED BY <1>3, <2>2, <2>3, WaitKeepsDocuments DEF BackgroundCaptures, shown
<1>4. CASE Unanswered(t)
  <2> DEFINE new == [tasks[t] EXCEPT !.scope = "main"]
  <2>1. new.pc = tasks[t].pc /\ new.early = tasks[t].early
    BY <1>0 DEF TaskState
  <2> HIDE DEF new
  <2>2. CASE Await(t, new) /\ UNCHANGED shown
    BY <1>4, <2>1, <2>2, WaitKeepsDocuments DEF Unanswered, shown
  <2> QED BY <1>1, <1>4, <2>2 DEF Unanswered, new
<1>5. CASE Answered(t)
  <2>1. CASE tasks[t].reply = {}
    BY <1>1, <1>5, <2>1 DEF Answered
  <2>2. CASE tasks[t].reply # {}
    <3> DEFINE new == [tasks[t] EXCEPT !.pc = "cached", !.reply = {}, !.scope = ""]
    <3>1. new.pc = "cached" /\ new.early = tasks[t].early
      BY <1>0 DEF TaskState
    <3> HIDE DEF new
    <3>2. Await(t, new) /\ UNCHANGED restore /\ tasks[t].pc = "answered"
      BY <1>5, <2>2 DEF Answered, new
    <3>3. tasks[t].reply \in SUBSET Document /\ tasks[t].scope \in Scope
      BY <1>0, <3>2 DEF TasksOK, TasksHold, Holds, TaskState
    <3>4. snapshot' = captured(tasks[t].reply, tasks[t].scope)
      BY <1>5, <2>2 DEF Answered
    <3>5. snapshot'.html # NoHtml
      BY <2>2, <3>3, <3>4, CapturedCoheres, PopupAssumption
    <3> QED BY <3>1, <3>2, <3>5, WaitKeepsDocuments
  <2> QED BY <2>1, <2>2
<1>6. CASE Cached(t)
  <2>1. CASE Post(t) /\ UNCHANGED restore
    <3>1. ~tasks[t].early => snapshot.html # NoHtml
      BY <1>6, TaskByTask DEF Cached, Documented
    <3> QED BY <1>6, <2>1, <3>1, PostKeepsDocuments DEF Cached
  <2>2. CASE BeginRun(t, tasks[t])
    BY <1>0, <1>6, <2>2, BeginRunKeepsDocuments DEF Cached
  <2> QED BY <1>1, <1>6, <2>1, <2>2 DEF Cached
<1>7. CASE Stored(t)
  <2>1. CASE must_capture
    <3> DEFINE new == [tasks[t] EXCEPT !.pc = "tab"]
    <3>1. new.pc = "tab" /\ new.early = tasks[t].early
      BY <1>0 DEF TaskState
    <3> HIDE DEF new
    <3>2. Await(t, new) /\ UNCHANGED <<snapshot, restore>>
      BY <1>7, <2>1 DEF Stored, new, shown
    <3> QED BY <1>7, <3>1, <3>2, WaitKeepsDocuments DEF Stored
  <2>2. CASE ~must_capture
    BY <1>7, <2>2, PostKeepsDocuments DEF Stored, must_capture
  <2> QED BY <2>1, <2>2
<1>8. CASE Result(t)
  <2>1. CASE Ends(t)
    BY <1>8, <2>1, EndKeepsDocuments DEF Result
  <2>2. CASE Await(t, [tasks[t] EXCEPT !.pc = "copied"])
    <3> DEFINE new == [tasks[t] EXCEPT !.pc = "copied"]
    <3>1. new.pc = "copied" /\ new.early = tasks[t].early
      BY <1>0 DEF TaskState
    <3> HIDE DEF new
    <3>2. Await(t, new)
      BY <2>2 DEF new
    <3> QED BY <1>8, <3>1, <3>2, WaitKeepsDocuments DEF Result
  <2> QED BY <1>8, <2>1, <2>2 DEF Result
<1>9. CASE NoRows(t)
  <2>1. CASE Ends(t) /\ UNCHANGED snapshot
    BY <1>9, <2>1, EndKeepsDocuments DEF NoRows
  <2> QED BY <1>1, <1>9, <2>1 DEF NoRows
<1>10. CASE Copied(t) \/ Saved(t)
  BY <1>1, <1>10 DEF Copied, Saved
<1> QED BY <1>2, <1>3, <1>4, <1>5, <1>6, <1>7, <1>8, <1>9, <1>10 DEF Continue

\* What the user types, and closing the panel.  The restore may empty the panel,
\* but every action that is under way then is early.
LEMMA OtherDocuments ==
  ASSUME PopupInv, DocumentsStay,
         Type \/ TypeToken \/ ShowTab \/ Reopen \/ Restoring \/ UNCHANGED vars
  PROVE  DocumentsStay'
<1> USE TaskByTask, TaskByTaskAfter
<1>1. CASE UNCHANGED <<snapshot, tasks, restore>>
  BY <1>1
<1>2. CASE Reopen
  BY <1>2 DEF Reopen, Documented, Idle
<1>3. CASE Restoring
  <2>1. restore.pc # "done" /\ UNCHANGED tasks
    BY <1>3 DEF Restoring, RestoreLocal, RestoreSession, RestoreLegacy
  <2> QED BY <2>1 DEF Documented
<1> QED BY <1>1, <1>2, <1>3 DEF Type, TypeToken, ShowTab, vars, shown

LEMMA NextKeepsDocuments == PopupInv /\ DocumentsStay /\ [Next]_vars => DocumentsStay'
BY BeginDocuments, ContinueDocuments, OtherDocuments DEF Next

\* However captures, selections and runs overlap, nothing takes the document away
\* from a run that began behind the restore: what it posts is never empty
\* (runtime.js: runQuery posts state.snapshotHtml as it finds it, two awaits and a
\* capture after it looked).
THEOREM DocumentsAlwaysStay == Spec => []DocumentsStay
<1>1. Init => DocumentsStay
  <2> SUFFICES ASSUME Init PROVE DocumentsStay
    OBVIOUS
  <2>1. Idle.pc = "idle" /\ \A t \in Task : tasks[t] = Idle
    BY DEF Init, Idle
  <2> QED BY <2>1, TaskByTask DEF Documented
<1>2. PopupInv /\ DocumentsStay /\ [Next]_vars => DocumentsStay'
  BY NextKeepsDocuments
<1> QED BY <1>1, <1>2, PopupInvariance, PTL DEF Spec

\* All that the panel keeps to, whatever overlaps (runtime.js, app.js).
THEOREM PanelInvariance == Spec => []PanelInv
BY PopupInvariance, DocumentsAlwaysStay, PTL DEF PanelInv

\* Every run that was started after the restore posts a document (runtime.js:
\* runQuery, requestBody).
THEOREM RunsPostDocuments == Spec => []RunsCarryADocument
BY DocumentsAlwaysStay, PTL DEF DocumentsStay
=============================================================================
