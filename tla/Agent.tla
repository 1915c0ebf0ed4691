------------------------------- MODULE Agent --------------------------------
(* The browser agent, browser_plugin/agent/src/main.cpp: the POST /v1/query *)
(* handler that httplib runs on the threads of a pool, the snapshot cache   *)
(* the handlers share, and the worker thread each execution starts.  A      *)
(* handler is one thread; one action is what it does between two points     *)
(* where another thread can run: a section under the cache's mutex, the     *)
(* parse outside it, the start of the worker, the wait with a timeout.      *)
(*                                                                          *)
(* A parsed document is named by the request that parsed it: a request      *)
(* parses at most once.  A handler that returns destroys its locals.        *)
EXTENDS AgentProtocol, FiniteSets

CONSTANTS
  Digests, Digest,  \* the SHA-256 digests, and the digest of every snapshot
  MaxEntries,       \* kMaxSnapshotCacheEntries
  PoolThreads,      \* threads httplib runs handlers on
  ThreadLimit,      \* workers the system lets the process have at a time
  None              \* a null pointer, an absent entry

Entry == [prepared : Requests, last_access : Nat]

ASSUME AgentAssumption ==
  /\ Digest \in [Docs -> Digests]
  /\ \A d, e \in Docs : Digest[d] = Digest[e] => d = e
  /\ MaxEntries \in Nat \ {0}
  /\ PoolThreads \in Nat \ {0}
  /\ ThreadLimit \in Nat \ {0}
  /\ None \notin Requests \cup Entry

VARIABLES
  req,       \* req[r]: the message of request r, Missing before it arrives
  pc,        \* where the handler of r is
  entries,   \* SnapshotCache::entries_: digest -> entry, or None
  clock,     \* steady_clock::now() as of the last section under the mutex
  prepared,  \* prepared[r]: the handler's own parse in get_or_insert
  snapshot,  \* snapshot[r]: the handler's copy of the cache entry
  worker,    \* worker[r]: the worker thread of r
  reply      \* reply[r]: what r was answered

vars == <<req, pc, entries, clock, prepared, snapshot, worker, reply>>

NoWork == [state |-> "none", prepared |-> None]
Work   == [state : {"running", "finished"}, prepared : Requests]
PCs    == {"idle", "queued", "lookup", "prepare", "insert", "spawn", "wait", "done"}
Handling == PCs \ {"idle", "queued", "done"}

Busy    == {r \in Requests : pc[r] \in Handling}
Running == {r \in Requests : worker[r].state = "running"}
Cached  == {k \in Digests : entries[k] # None}

(* Mutation: the snapshot's text is gone before it is digested. *)
Key_of_nothing(r) == CHOOSE k \in Digests : TRUE
Key(r)  == Digest[req[r].html]
DocOf(h) == req[h].html

-----------------------------------------------------------------------------
Init == /\ req      = [r \in Requests |-> Missing]
        /\ pc       = [r \in Requests |-> "idle"]
        /\ entries  = [k \in Digests |-> None]
        /\ clock    = 0
        /\ prepared = [r \in Requests |-> None]
        /\ snapshot = [r \in Requests |-> None]
        /\ worker   = [r \in Requests |-> NoWork]
        /\ reply    = [r \in Requests |-> NoReply]

Goto(r, label) == pc' = [pc EXCEPT ![r] = label]

(* write_json and the return of the handler, which drops what it held. *)
Return(r, answer) == /\ reply' = [reply EXCEPT ![r] = answer]
                     /\ prepared' = [prepared EXCEPT ![r] = None]
                     /\ snapshot' = [snapshot EXCEPT ![r] = None]
                     /\ Goto(r, "done")

-----------------------------------------------------------------------------
(* httplib accepts a connection and queues it for a free pool thread. *)
Arrive(r) == /\ pc[r] = "idle"
             /\ \E m \in Messages : req' = [req EXCEPT ![r] = m]
             /\ Goto(r, "queued")
             /\ UNCHANGED <<entries, clock, prepared, snapshot, worker, reply>>

(* X-MarkQL-Token, or X-XSQL-Token when the first is absent or empty. *)
provided_token(m) == IF m.primary = Empty THEN m.legacy ELSE m.primary

is_unauthorized(m) == provided_token(m) = Empty \/ provided_token(m) # token

parse_request(m) == /\ m.html # Missing
                    /\ m.query # Missing
                    /\ m.query # Empty

(* A pool thread takes the request: the checks that need no other state. *)
Begin(r) ==
  /\ pc[r] = "queued"
  /\ Cardinality(Busy) < PoolThreads
  /\ \/ /\ is_unauthorized(req[r])
        /\ Return(r, Unauthorized)
     \/ /\ ~is_unauthorized(req[r]) /\ ~parse_request(req[r])
        /\ Return(r, BadRequest)
     \/ /\ ~is_unauthorized(req[r]) /\ parse_request(req[r])
        /\ Goto(r, "lookup")
        /\ UNCHANGED <<prepared, snapshot, reply>>
  /\ UNCHANGED <<req, entries, clock, worker>>

-----------------------------------------------------------------------------
(* SnapshotCache::get_or_insert.  The clock is read under the mutex, so it  *)
(* never goes back from one section to the next; it need not advance.       *)
Now == {clock, clock + 1}

(* A found entry is stamped and copied out. *)
Touch_unstamped(e, now) == e  \* mutation: a hit leaves the stamp as it was
Touch(e, now) == [e EXCEPT !.last_access = now]

Hit(r, now) ==
  LET e == Touch(entries[Key(r)], now)
  IN  /\ entries'  = [entries EXCEPT ![Key(r)] = e]
      /\ snapshot' = [snapshot EXCEPT ![r] = e]
      /\ Goto(r, "spawn")

(* The first section under the mutex. *)
Lookup(r) ==
  /\ pc[r] = "lookup"
  /\ \E now \in Now :
       /\ clock' = now
       /\ \/ Key(r) \in Cached /\ Hit(r, now)
          \/ /\ Key(r) \notin Cached
             /\ Goto(r, "prepare")
             /\ UNCHANGED <<entries, snapshot>>
  /\ UNCHANGED <<req, prepared, worker, reply>>

(* prepare_document, outside the mutex; the handler catches what it throws. *)
Prepare(r) ==
  /\ pc[r] = "prepare"
  /\ \/ /\ req[r].html \in Unpreparable
        /\ Return(r, PrepareError(req[r].html))
     \/ /\ req[r].html \notin Unpreparable
        /\ prepared' = [prepared EXCEPT ![r] = r]
        /\ Goto(r, "insert")
        /\ UNCHANGED <<snapshot, reply>>
  /\ UNCHANGED <<req, entries, clock, worker>>

must_evict_late == Cardinality(Cached) > MaxEntries  \* mutation: off by one
must_evict == Cardinality(Cached) >= MaxEntries

(* evict_lru scans an unordered map for a strictly smaller last_access: of  *)
(* several oldest entries it takes the first in the map's order.            *)
Oldest == {k \in Cached : \A j \in Cached :
             entries[k].last_access <= entries[j].last_access}

Evicted == IF must_evict THEN {[entries EXCEPT ![k] = None] : k \in Oldest}
                         ELSE {entries}

Store(r, now) ==
  LET e == [prepared |-> prepared[r], last_access |-> now]
  IN  /\ \E kept \in Evicted : entries' = [kept EXCEPT ![Key(r)] = e]
      /\ snapshot' = [snapshot EXCEPT ![r] = e]
      /\ Goto(r, "spawn")

(* Mutation: the snapshot is not looked up again after the parse. *)
was_inserted_meanwhile_ignored(r) == FALSE

was_inserted_meanwhile(r) == Key(r) \in Cached

(* The second section: another handler may have inserted the same snapshot  *)
(* since the first one, and then this handler's parse is dropped.           *)
Insert(r) ==
  /\ pc[r] = "insert"
  /\ \E now \in Now :
       /\ clock' = now
       /\ \/ was_inserted_meanwhile(r) /\ Hit(r, now)
          \/ ~was_inserted_meanwhile(r) /\ Store(r, now)
  /\ prepared' = [prepared EXCEPT ![r] = None]
  /\ UNCHANGED <<req, worker, reply>>

-----------------------------------------------------------------------------
(* CoreExecutor::execute.  The worker captures the document and the query;  *)
(* std::thread throws when the system has no thread to give, outside every  *)
(* try of the handler, and httplib turns that into a 500.                   *)
Spawn(r) ==
  /\ pc[r] = "spawn"
  /\ \/ /\ Cardinality(Running) < ThreadLimit
        /\ worker' = [worker EXCEPT ![r] =
                       [state |-> "running", prepared |-> snapshot[r].prepared]]
        /\ Goto(r, "wait")
        /\ UNCHANGED <<prepared, snapshot, reply>>
     \/ /\ Cardinality(Running) >= ThreadLimit
        /\ Return(r, ServerError)
        /\ UNCHANGED worker
  /\ UNCHANGED <<req, entries, clock>>

(* The query returns or throws and the promise is set, whether or not the   *)
(* handler still waits.                                                     *)
Finish(r) ==
  /\ worker[r].state = "running"
  /\ worker' = [worker EXCEPT ![r].state = "finished"]
  /\ UNCHANGED <<req, pc, entries, clock, prepared, snapshot, reply>>

(* Mutation: the future's state is not looked at. *)
WaitReady_early(r) ==
  /\ pc[r] = "wait"
  /\ Return(r, Answered(Outcome(DocOf(worker[r].prepared), req[r].query)))
  /\ UNCHANGED <<req, entries, clock, worker>>

(* wait_for returned ready: join the worker and answer from the future. *)
WaitReady(r) ==
  /\ pc[r] = "wait"
  /\ worker[r].state = "finished"
  /\ Return(r, Answered(Outcome(DocOf(worker[r].prepared), req[r].query)))
  /\ UNCHANGED <<req, entries, clock, worker>>

(* wait_for timed out: the worker is detached and runs on. *)
WaitTimeout(r) ==
  /\ pc[r] = "wait"
  /\ worker[r].state = "running"
  /\ Return(r, TimedOut)
  /\ UNCHANGED <<req, entries, clock, worker>>

Wait_untimed(r) == WaitReady(r)  \* mutation: wait() instead of wait_for()
Wait(r) == WaitReady(r) \/ WaitTimeout(r)

Handler(r) == \/ Begin(r) \/ Lookup(r) \/ Prepare(r) \/ Insert(r)
              \/ Spawn(r) \/ Wait(r)

(* Every request was answered and every worker ended: the agent listens on. *)
Quiet == /\ \A r \in Requests : pc[r] = "done" /\ r \notin Running
         /\ UNCHANGED vars

Next == (\E r \in Requests : Arrive(r) \/ Handler(r) \/ Finish(r)) \/ Quiet

Spec == Init /\ [][Next]_vars

(* A handler's thread is scheduled, the parser returns and wait_for returns *)
(* at its deadline.  Nothing is assumed of the worker: a query may run      *)
(* for ever.                                                                *)
FairSpec == Spec /\ \A r \in Requests : WF_vars(Handler(r))
=============================================================================
