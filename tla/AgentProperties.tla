-------------------------- MODULE AgentProperties ---------------------------
(* What the agent's handlers, cache and workers must keep true together.    *)
EXTENDS Agent

(* Every variable has its type. *)
TypeOK ==
  /\ req \in [Requests -> Messages \cup {Missing}]
  /\ pc \in [Requests -> PCs]
  /\ entries \in [Digests -> Entry \cup {None}]
  /\ clock \in Nat
  /\ prepared \in [Requests -> Requests \cup {None}]
  /\ snapshot \in [Requests -> Entry \cup {None}]
  /\ worker \in [Requests -> Work \cup {NoWork}]
  /\ reply \in [Requests -> [status : {0, 200, 400, 401, 408, 500},
                             code : {"none", "OK", "QUERY_ERROR", "UNAUTHORIZED",
                                     "BAD_REQUEST", "TIMEOUT"},
                             of : {<<>>} \cup {<<d>> : d \in Docs}
                                         \cup (Docs \X Queries)]]

(* The cache never holds more than kMaxSnapshotCacheEntries documents, even *)
(* though a handler decides to parse in one critical section and inserts in *)
(* a later one, with other handlers inserting in between.                   *)
CapacityRespected == /\ IsFiniteSet(Cached)
                     /\ Cardinality(Cached) <= MaxEntries

(* A handler past get_or_insert, and the worker it started, hold the parse  *)
(* of the handler's own snapshot, whoever parsed it and whatever was        *)
(* evicted since; an entry holds a parse of the snapshot its key digests.   *)
IsParseOf(h, d) == /\ req[h] # Missing
                   /\ req[h].html = d
                   /\ d \notin Unpreparable

OwnDocument ==
  /\ \A k \in Cached : \E d \in Docs :
       Digest[d] = k /\ IsParseOf(entries[k].prepared, d)
  /\ \A r \in Requests :
       /\ prepared[r] # None => IsParseOf(prepared[r], req[r].html)
       /\ snapshot[r] # None => IsParseOf(snapshot[r].prepared, req[r].html)
       /\ worker[r] # NoWork => IsParseOf(worker[r].prepared, req[r].html)

(* How far a handler is, with what it holds there: the rest of what is      *)
(* needed for OwnDocument to be inductive and for a reply to be the         *)
(* service's.                                                               *)
Progress ==
  \A r \in Requests :
    /\ pc[r] = "idle" <=> req[r] = Missing
    /\ pc[r] = "done" \/ reply[r] = NoReply
    /\ pc[r] \in Handling => ~is_unauthorized(req[r]) /\ parse_request(req[r])
    /\ pc[r] = "insert" <=> prepared[r] # None
    /\ pc[r] \in {"spawn", "wait"} <=> snapshot[r] # None
    /\ pc[r] = "wait" => worker[r] # NoWork
    /\ worker[r] # NoWork => pc[r] \in {"wait", "done"}

(* No stamp is from the future: the clock is read under the mutex. *)
StampsPast == \A k \in Cached : entries[k].last_access <= clock

(* The inductive invariant of the proofs. *)
AgentInv == TypeOK /\ CapacityRespected /\ OwnDocument /\ Progress /\ StampsPast

(* A worker that still runs belongs to a handler that waits for it or to a  *)
(* request that was told it timed out: no other reply leaves a thread       *)
(* behind.                                                                  *)
WorkersAccounted ==
  \A r \in Running : pc[r] = "wait" \/ reply[r] = TimedOut

(* Parsed documents stay bounded although evicted ones live on in handlers  *)
(* and in detached workers: at most one for each place in the cache, each   *)
(* busy handler and each worker that outlived its handler.                  *)
LiveDocuments == {entries[k].prepared : k \in Cached}
                 \cup {prepared[r] : r \in {q \in Requests : prepared[q] # None}}
                 \cup {snapshot[r].prepared : r \in {q \in Requests : snapshot[q] # None}}
                 \cup {worker[r].prepared : r \in Running}

DocumentsBounded ==
  Cardinality(LiveDocuments) <=
    MaxEntries + Cardinality(Busy) + Cardinality(Running \ Busy)

(* No more handlers than pool threads, no more workers than the system lets *)
(* the process have, whoever outlives whom.                                 *)
ThreadsBounded ==
  /\ IsFiniteSet(Busy) /\ Cardinality(Busy) <= PoolThreads
  /\ IsFiniteSet(Running) /\ Cardinality(Running) <= ThreadLimit

(* A handler that waits shares its document with the worker it waits for.   *)
DocumentShared ==
  \A r \in Requests : pc[r] = "wait" => worker[r].prepared = snapshot[r].prepared

(* What outlives a request is bounded: threads by the timeouts, documents   *)
(* by the places that may hold one.                                         *)
LeftoversBounded ==
  WorkersAccounted /\ ThreadsBounded /\ DocumentShared /\ DocumentsBounded

-----------------------------------------------------------------------------
(* A cached parse is never swapped for another parse of the same snapshot:  *)
(* of two handlers that parse it at the same time, the second drops its own *)
(* result and uses the first one's.                                         *)
NeverReplaced ==
  [][\A k \in Cached : entries'[k] # None => entries'[k].prepared = entries[k].prepared]_vars

(* Eviction is least recently used: the entry a handler comes away with is  *)
(* at that moment the most recent of the cache, found or inserted, and what *)
(* leaves the cache is the least recent of it, and leaves a full cache.     *)
NewestOf(k) == \A j \in Digests : entries'[j] # None =>
                 entries'[j].last_access <= entries'[k].last_access

LeastRecentlyUsed ==
  [][/\ \A r \in Requests : snapshot[r] = None /\ snapshot'[r] # None =>
          /\ entries'[Key(r)] = snapshot'[r]
          /\ NewestOf(Key(r))
     /\ \A k \in Cached : entries'[k] = None =>
          /\ Cardinality(Cached) = MaxEntries
          /\ k \in Oldest]_vars

(* The agent is the service: each request is answered once and for all, by  *)
(* an answer about its own snapshot and query.                              *)
Service == INSTANCE AgentService WITH asked <- req, answer <- reply
ImplementsService == Service!ServiceSpec

(* Every request is answered, also when its query never ends. *)
EveryRequestAnswered ==
  \A r \in Requests : pc[r] = "queued" ~> pc[r] = "done"
=============================================================================
