---------------------------- MODULE AgentProofs -----------------------------
(* The agent's invariants and its refinement of AgentService, for any       *)
(* number of requests, snapshots, cache places and threads.                 *)
EXTENDS AgentProperties, DataLemmas

(* An entry is a record, None is none. *)
LEMMA EntryIsNotNone == ASSUME NEW e \in Entry PROVE e # None
BY AgentAssumption DEF Entry

(* A handler past its checks works on a snapshot and a query. *)
LEMMA HandlingIsQuery ==
  ASSUME TypeOK, Progress, NEW r \in Requests, pc[r] \in Handling
  PROVE  /\ req[r] \in Messages
         /\ req[r] # Missing
         /\ req[r].html \in Docs
         /\ req[r].query \in Queries
         /\ Key(r) \in Digests
PROOF
<1>1. req[r] \in Messages /\ req[r] # Missing
  BY ProtocolAssumption DEF TypeOK, Progress, Handling, PCs
<1>2. req[r] \in Message
  BY <1>1, ProtocolAssumption
<1>3. req[r].html \in Docs /\ req[r].query \in Queries
  BY <1>2 DEF Progress, parse_request, Message
<1>. QED
  BY <1>1, <1>3, AgentAssumption DEF Key

LEMMA InitInv == Init => AgentInv
PROOF
<1> SUFFICES ASSUME Init PROVE AgentInv
  OBVIOUS
<1>1. TypeOK
  BY DEF Init, TypeOK, NoReply, PCs
<1>2. Cached = {}
  BY DEF Init, Cached
<1>3. CapacityRespected
  BY <1>2, FS_EmptySet, AgentAssumption DEF CapacityRespected
<1>4. OwnDocument
  BY <1>2 DEF OwnDocument, Init
<1>5. Progress
  BY DEF Init, Progress, Handling, PCs
<1>6. StampsPast
  BY <1>2 DEF StampsPast
<1>. QED
  BY <1>1, <1>3, <1>4, <1>5, <1>6 DEF AgentInv

-----------------------------------------------------------------------------
(* A reply of the types TypeOK gives it. *)
Replies == [status : {0, 200, 400, 401, 408, 500},
            code : {"none", "OK", "QUERY_ERROR", "UNAUTHORIZED", "BAD_REQUEST", "TIMEOUT"},
            of : {<<>>} \cup {<<d>> : d \in Docs} \cup (Docs \X Queries)]

LEMMA ReplyTypes ==
  /\ NoReply \in Replies /\ Unauthorized \in Replies /\ BadRequest \in Replies
  /\ TimedOut \in Replies /\ ServerError \in Replies
  /\ \A d \in Docs : PrepareError(d) \in Replies
  /\ \A d \in Docs, q \in Queries : Answered(Outcome(d, q)) \in Replies
PROOF
<1>1. \A d \in Docs, q \in Queries : Answered(Outcome(d, q)) \in Replies
  BY DEF Replies, Answered, Outcome
<1>. QED
  BY <1>1 DEF Replies, NoReply, Unauthorized, BadRequest, TimedOut, ServerError, PrepareError

LEMMA ReturnType ==
  ASSUME TypeOK, NEW r \in Requests, NEW a \in Replies, Return(r, a)
  PROVE  /\ pc' \in [Requests -> PCs]
         /\ prepared' \in [Requests -> Requests \cup {None}]
         /\ snapshot' \in [Requests -> Entry \cup {None}]
         /\ reply' \in [Requests -> Replies]
PROOF
  BY DEF TypeOK, Return, Goto, PCs, Replies

(* A handler that finds an entry hands out a stamped copy of it. *)
LEMMA HitType ==
  ASSUME TypeOK, NEW r \in Requests, NEW now \in Nat, Key(r) \in Cached, Hit(r, now)
  PROVE  /\ entries' \in [Digests -> Entry \cup {None}]
         /\ snapshot' \in [Requests -> Entry \cup {None}]
         /\ pc' \in [Requests -> PCs]
PROOF
<1>1. Key(r) \in Digests /\ entries[Key(r)] \in Entry
  BY DEF Cached, TypeOK
<1>2. Touch(entries[Key(r)], now) \in Entry
  BY <1>1 DEF Touch, Entry
<1>. QED
  BY <1>1, <1>2 DEF TypeOK, Hit, Goto, PCs

LEMMA StoreType ==
  ASSUME TypeOK, Progress, NEW r \in Requests, NEW now \in Nat, pc[r] = "insert",
         Store(r, now)
  PROVE  /\ entries' \in [Digests -> Entry \cup {None}]
         /\ snapshot' \in [Requests -> Entry \cup {None}]
         /\ pc' \in [Requests -> PCs]
PROOF
<1> DEFINE e == [prepared |-> prepared[r], last_access |-> now]
<1>1. e \in Entry
  BY DEF TypeOK, Progress, Entry
<1>2. Evicted \subseteq [Digests -> Entry \cup {None}]
  BY DEF Evicted, TypeOK
<1>3. Key(r) \in Digests
  BY HandlingIsQuery DEF Handling, PCs
<1>. QED
  BY <1>1, <1>2, <1>3 DEF TypeOK, Store, Goto, PCs

\* A worker that has finished is still a worker.
LEMMA WorkEnds ==
  ASSUME NEW w \in Work
  PROVE  [w EXCEPT !.state = "finished"] \in Work
BY DEF Work

LEMMA TypeStep ==
  ASSUME TypeOK, Progress, OwnDocument, [Next]_vars
  PROVE  TypeOK'
PROOF
<1> USE DEF TypeOK
<1>1. ASSUME NEW r \in Requests, Arrive(r) PROVE TypeOK'
  BY <1>1 DEF Arrive, Goto, PCs
<1>2. ASSUME NEW r \in Requests, Begin(r) PROVE TypeOK'
  <2>1. CASE Return(r, Unauthorized)
    BY <1>2, <2>1, ReplyTypes, ReturnType DEF Begin, Replies
  <2>2. CASE Return(r, BadRequest)
    BY <1>2, <2>2, ReplyTypes, ReturnType DEF Begin, Replies
  <2>3. CASE Goto(r, "lookup") /\ UNCHANGED <<prepared, snapshot, reply>>
    BY <1>2, <2>3 DEF Begin, Goto, PCs
  <2>. QED
    BY <1>2, <2>1, <2>2, <2>3 DEF Begin
<1>3. ASSUME NEW r \in Requests, Lookup(r) PROVE TypeOK'
  <2>1. PICK now \in Now :
          /\ clock' = now
          /\ \/ Key(r) \in Cached /\ Hit(r, now)
             \/ /\ Key(r) \notin Cached
                /\ Goto(r, "prepare")
                /\ UNCHANGED <<entries, snapshot>>
    BY <1>3 DEF Lookup
  <2>2. now \in Nat
    BY DEF Now
  <2>3. CASE Key(r) \in Cached /\ Hit(r, now)
    BY <1>3, <2>1, <2>2, <2>3, HitType DEF Lookup
  <2>4. CASE Goto(r, "prepare") /\ UNCHANGED <<entries, snapshot>>
    BY <1>3, <2>1, <2>2, <2>4 DEF Lookup, Goto, PCs
  <2>. QED
    BY <2>1, <2>3, <2>4
<1>4. ASSUME NEW r \in Requests, Prepare(r) PROVE TypeOK'
  <2>1. req[r].html \in Docs
    BY <1>4, HandlingIsQuery DEF Prepare, Handling, PCs
  <2>2. CASE Return(r, PrepareError(req[r].html))
    BY <1>4, <2>1, <2>2, ReplyTypes, ReturnType DEF Prepare, Replies
  <2>3. CASE ~ Return(r, PrepareError(req[r].html))
    BY <1>4, <2>3 DEF Prepare, Goto, PCs
  <2>. QED
    BY <2>2, <2>3
<1>5. ASSUME NEW r \in Requests, Insert(r) PROVE TypeOK'
  <2>1. PICK now \in Now :
          /\ clock' = now
          /\ \/ Key(r) \in Cached /\ Hit(r, now)
             \/ Key(r) \notin Cached /\ Store(r, now)
    BY <1>5 DEF Insert, was_inserted_meanwhile
  <2>2. now \in Nat
    BY DEF Now
  <2>3. CASE Key(r) \in Cached /\ Hit(r, now)
    BY <1>5, <2>1, <2>2, <2>3, HitType DEF Insert
  <2>4. CASE Store(r, now)
    BY <1>5, <2>1, <2>2, <2>4, StoreType DEF Insert
  <2>. QED
    BY <2>1, <2>3, <2>4
<1>6. ASSUME NEW r \in Requests, Spawn(r) PROVE TypeOK'
  <2>1. CASE Return(r, ServerError) /\ UNCHANGED worker
    BY <1>6, <2>1, ReplyTypes, ReturnType DEF Spawn, Replies
  <2>2. CASE /\ worker' = [worker EXCEPT ![r] =
                              [state |-> "running", prepared |-> snapshot[r].prepared]]
             /\ Goto(r, "wait")
             /\ UNCHANGED <<prepared, snapshot, reply>>
    <3>1. snapshot[r] \in Entry
      BY <1>6 DEF Spawn, Progress
    <3>2. [state |-> "running", prepared |-> snapshot[r].prepared] \in Work
      BY <3>1 DEF Entry, Work
    <3>. QED
      BY <1>6, <2>2, <3>2 DEF Spawn, Goto, PCs
  <2>. QED
    BY <1>6, <2>1, <2>2 DEF Spawn
<1>7. ASSUME NEW r \in Requests, Finish(r) PROVE TypeOK'
  <2>1. worker[r] \in Work
    <3>1. worker[r] \in Work \cup {NoWork} /\ worker[r].state = "running"
      BY <1>7 DEF Finish
    <3>. QED
      BY <3>1 DEF NoWork
  <2>2. [worker[r] EXCEPT !.state = "finished"] \in Work
    BY <2>1, WorkEnds
  <2>. QED
    BY <1>7, <2>2 DEF Finish
<1>8. ASSUME NEW r \in Requests, WaitReady(r) PROVE TypeOK'
  <2>1. DocOf(worker[r].prepared) = req[r].html
    BY <1>8 DEF WaitReady, OwnDocument, IsParseOf, DocOf, Progress
  <2>2. req[r].html \in Docs /\ req[r].query \in Queries
    BY <1>8, HandlingIsQuery DEF WaitReady, Handling, PCs
  <2>. QED
    BY <1>8, <2>1, <2>2, ReplyTypes, ReturnType DEF WaitReady, Replies
<1>9. ASSUME NEW r \in Requests, WaitTimeout(r) PROVE TypeOK'
  BY <1>9, ReplyTypes, ReturnType DEF WaitTimeout, Replies
<1>10. CASE UNCHANGED vars
  BY <1>10 DEF vars
<1>. QED
  BY <1>1, <1>2, <1>3, <1>4, <1>5, <1>6, <1>7, <1>8, <1>9, <1>10
     DEF Next, Handler, Wait, Quiet

-----------------------------------------------------------------------------
(* Only an insertion changes which digests are cached. *)
LEMMA HitKeepsCached ==
  ASSUME TypeOK, NEW r \in Requests, NEW now \in Nat, Key(r) \in Cached, Hit(r, now)
  PROVE  Cached' = Cached
PROOF
<1>1. entries' \in [Digests -> Entry \cup {None}]
  BY HitType
<1>2. Key(r) \in Digests /\ entries[Key(r)] \in Entry /\ entries'[Key(r)] = Touch(entries[Key(r)], now)
  BY DEF Cached, TypeOK, Hit
<1>3. entries'[Key(r)] \in Entry
  BY <1>2 DEF Touch, Entry
<1>4. \A k \in Digests : k # Key(r) => entries'[k] = entries[k]
  BY DEF Hit, TypeOK
<1>5. entries'[Key(r)] # None
  BY <1>2, <1>3, EntryIsNotNone
<1>. QED
  BY <1>2, <1>4, <1>5 DEF Cached

(* Eviction makes room for one more entry. *)
LEMMA EvictedFits ==
  ASSUME TypeOK, CapacityRespected, NEW kept \in Evicted
  PROVE  LET left == {k \in Digests : kept[k] # None}
         IN  /\ left \subseteq Cached
             /\ Cardinality(left) < MaxEntries
PROOF
<1> DEFINE left == {k \in Digests : kept[k] # None}
<1>0. IsFiniteSet(Cached) /\ Cardinality(Cached) <= MaxEntries /\ Cardinality(Cached) \in Nat
  BY FS_CardinalityType DEF CapacityRespected
<1>1. CASE ~must_evict
  <2>1. left = Cached
    BY <1>1 DEF Evicted, Cached
  <2>. QED
    BY <1>0, <1>1, <2>1, AgentAssumption DEF must_evict
<1>2. CASE must_evict
  <2>1. PICK k \in Oldest : kept = [entries EXCEPT ![k] = None]
    BY <1>2 DEF Evicted
  <2>2. k \in Cached
    BY <2>1 DEF Oldest
  <2>3. left = Cached \ {k}
    BY <2>1, <2>2 DEF Cached, TypeOK
  <2>4. Cardinality(left) = Cardinality(Cached) - 1
    BY <1>0, <2>2, <2>3, FS_RemoveElement
  <2>. QED
    BY <1>0, <2>3, <2>4, AgentAssumption
<1>. QED
  BY <1>1, <1>2

(* ... and leaves the other entries as they are. *)
LEMMA EvictedEntries ==
  ASSUME TypeOK, NEW kept \in Evicted
  PROVE  /\ kept \in [Digests -> Entry \cup {None}]
         /\ \A k \in Digests : kept[k] \in {entries[k], None}
PROOF
<1>1. CASE must_evict
  <2>1. PICK k \in Oldest : kept = [entries EXCEPT ![k] = None]
    BY <1>1 DEF Evicted
  <2>2. kept \in [Digests -> Entry \cup {None}]
    BY <2>1, ZenonT(40) DEF TypeOK
  <2>3. \A j \in Digests : kept[j] = IF j = k THEN None ELSE entries[j]
    BY <2>1 DEF TypeOK
  <2>. QED
    BY <2>2, <2>3
<1>2. CASE ~must_evict
  BY <1>2 DEF Evicted, TypeOK
<1>. QED
  BY <1>1, <1>2

LEMMA CapacityStep ==
  ASSUME TypeOK, Progress, CapacityRespected, [Next]_vars
  PROVE  CapacityRespected'
PROOF
<1>1. CASE Cached' = Cached
  BY <1>1 DEF CapacityRespected
<1>2. ASSUME NEW r \in Requests, Lookup(r) PROVE Cached' = Cached
  <2>1. CASE \E now \in Now : Key(r) \in Cached /\ Hit(r, now)
    BY <2>1, HitKeepsCached DEF Now, TypeOK
  <2>2. CASE UNCHANGED entries
    BY <2>2 DEF Cached
  <2>. QED
    BY <1>2, <2>1, <2>2 DEF Lookup
<1>3. ASSUME NEW r \in Requests, Insert(r) PROVE CapacityRespected'
  <2>1. CASE \E now \in Now : Key(r) \in Cached /\ Hit(r, now)
    BY <1>1, <2>1, HitKeepsCached DEF Now, TypeOK
  <2>2. CASE \E now \in Now : Store(r, now)
    <3>1. PICK now \in Now : Store(r, now)
      BY <2>2
    <3>2. PICK kept \in Evicted :
            entries' = [kept EXCEPT ![Key(r)] = [prepared |-> prepared[r], last_access |-> now]]
      BY <3>1 DEF Store
    <3> DEFINE left == {k \in Digests : kept[k] # None}
    <3>3. left \subseteq Cached /\ Cardinality(left) < MaxEntries
      BY <3>2, EvictedFits
    <3>4. IsFiniteSet(left) /\ Cardinality(left) \in Nat
      BY <3>3, FS_Subset, FS_CardinalityType DEF CapacityRespected
    <3>5. kept \in [Digests -> Entry \cup {None}]
      BY <3>2 DEF Evicted, TypeOK
    <3>6. Cached' \subseteq left \cup {Key(r)}
      BY <3>2, <3>5 DEF Cached
    <3> HIDE DEF left
    <3>7. IsFiniteSet(left \cup {Key(r)}) /\ Cardinality(left \cup {Key(r)}) <= MaxEntries
      BY <3>3, <3>4, FS_AddElement, AgentAssumption
    <3>8. IsFiniteSet(Cached') /\ Cardinality(Cached') <= Cardinality(left \cup {Key(r)})
      BY <3>6, <3>7, FS_Subset
    <3>9. Cardinality(Cached') \in Nat /\ Cardinality(left \cup {Key(r)}) \in Nat
      BY <3>7, <3>8, FS_CardinalityType
    <3>. QED
      BY <3>7, <3>8, <3>9, AgentAssumption DEF CapacityRespected
  <2>. QED
    BY <1>3, <2>1, <2>2 DEF Insert, was_inserted_meanwhile
<1>4. ASSUME NEW r \in Requests,
             Arrive(r) \/ Begin(r) \/ Prepare(r) \/ Spawn(r) \/ Wait(r) \/ Finish(r)
      PROVE  Cached' = Cached
  <2>1. entries' = entries
    BY <1>4 DEF Arrive, Begin, Prepare, Spawn, Wait, WaitReady, WaitTimeout, Finish
  <2>. QED
    BY <2>1 DEF Cached
<1>5. CASE UNCHANGED vars
  BY <1>1, <1>5 DEF vars, Cached
<1>. QED
  BY <1>1, <1>2, <1>3, <1>4, <1>5 DEF Next, Handler, Quiet

-----------------------------------------------------------------------------
LEMMA ProgressStep ==
  ASSUME TypeOK, Progress, OwnDocument, [Next]_vars
  PROVE  Progress'
PROOF
<1> USE DEF TypeOK, Handling, PCs
<1>1. ASSUME NEW r \in Requests, Arrive(r) PROVE Progress'
  BY <1>1, ProtocolAssumption DEF Arrive, Goto, Progress
<1>2. ASSUME NEW r \in Requests, Begin(r) PROVE Progress'
  BY <1>2 DEF Begin, Return, Goto, Progress
<1>3. ASSUME NEW r \in Requests, Lookup(r) PROVE Progress'
  <2>1. CASE \E now \in Now : Key(r) \in Cached /\ Hit(r, now)
    <3>1. PICK now \in Now : Key(r) \in Cached /\ Hit(r, now)
      BY <2>1
    <3>2. Touch(entries[Key(r)], now) \in Entry
      BY <3>1 DEF Touch, Entry, Cached, Now
    <3>3. snapshot'[r] # None
      BY <3>1, <3>2, EntryIsNotNone DEF Hit
    <3>. QED
      BY <1>3, <3>1, <3>3 DEF Lookup, Hit, Goto, Progress
  <2>2. CASE Goto(r, "prepare") /\ UNCHANGED <<entries, snapshot>>
    BY <1>3, <2>2 DEF Lookup, Goto, Progress
  <2>. QED
    BY <1>3, <2>1, <2>2 DEF Lookup
<1>4. ASSUME NEW r \in Requests, Prepare(r) PROVE Progress'
  BY <1>4, AgentAssumption DEF Prepare, Return, Goto, Progress
<1>5. ASSUME NEW r \in Requests, Insert(r) PROVE Progress'
  <2>1. snapshot' = [snapshot EXCEPT ![r] = snapshot'[r]] /\ snapshot'[r] # None /\ Goto(r, "spawn")
    <3>1. CASE \E now \in Now : Key(r) \in Cached /\ Hit(r, now)
      <4>1. PICK now \in Now : Key(r) \in Cached /\ Hit(r, now)
        BY <3>1
      <4>2. Touch(entries[Key(r)], now) \in Entry
        BY <4>1 DEF Touch, Entry, Cached, Now
      <4>. QED
        BY <4>1, <4>2, EntryIsNotNone DEF Hit
    <3>2. CASE \E now \in Now : Store(r, now)
      <4>1. PICK now \in Now : Store(r, now)
        BY <3>2
      <4>2. [prepared |-> prepared[r], last_access |-> now] \in Entry
        BY <1>5, <4>1 DEF Insert, Progress, Entry, Now
      <4>. QED
        BY <4>1, <4>2, EntryIsNotNone DEF Store
    <3>. QED
      BY <1>5, <3>1, <3>2 DEF Insert, was_inserted_meanwhile
  <2>. QED
    BY <1>5, <2>1 DEF Insert, Goto, Progress
<1>6. ASSUME NEW r \in Requests, Spawn(r) PROVE Progress'
  BY <1>6 DEF Spawn, Return, Goto, Progress, NoWork
<1>7. ASSUME NEW r \in Requests, Finish(r) PROVE Progress'
  <2>1. worker[r] # NoWork
    BY <1>7 DEF Finish, NoWork
  <2>2. worker' = [worker EXCEPT ![r] = worker'[r]] /\ worker'[r] # NoWork
    BY <1>7, <2>1 DEF Finish, Work, NoWork
  <2>. QED
    BY <1>7, <2>1, <2>2 DEF Finish, Progress
<1>8. ASSUME NEW r \in Requests, Wait(r) PROVE Progress'
  BY <1>8 DEF Wait, WaitReady, WaitTimeout, Return, Goto, Progress
<1>9. CASE UNCHANGED vars
  BY <1>9 DEF vars, Progress
<1>. QED
  BY <1>1, <1>2, <1>3, <1>4, <1>5, <1>6, <1>7, <1>8, <1>9 DEF Next, Handler, Quiet

-----------------------------------------------------------------------------
(* A request does not change once it has arrived, so a parse of its         *)
(* snapshot stays one.                                                      *)
LEMMA RequestStable ==
  ASSUME TypeOK, Progress, [Next]_vars, NEW h \in Requests, req[h] # Missing
  PROVE  req'[h] = req[h]
PROOF
<1>1. ASSUME NEW r \in Requests, Arrive(r) PROVE req'[h] = req[h]
  BY <1>1 DEF Arrive, Progress, TypeOK
<1>. QED
  BY <1>1 DEF Next, Handler, Wait, Quiet, vars, Begin, Lookup, Prepare, Insert, Spawn,
              WaitReady, WaitTimeout, Finish

(* The document of an entry found under the key of r is that of r: the only *)
(* use of the digest being injective.                                       *)
LEMMA FoundIsOwn ==
  ASSUME TypeOK, Progress, OwnDocument, NEW r \in Requests, pc[r] \in Handling,
         Key(r) \in Cached
  PROVE  IsParseOf(entries[Key(r)].prepared, req[r].html)
PROOF
  BY HandlingIsQuery, AgentAssumption DEF OwnDocument, Key

(* OwnDocument as a statement about the entries and one about each request. *)
EntriesOwn == \A k \in Cached : \E d \in Docs :
                Digest[d] = k /\ IsParseOf(entries[k].prepared, d)

HoldsOwn(r) ==
  /\ prepared[r] # None => IsParseOf(prepared[r], req[r].html)
  /\ snapshot[r] # None => IsParseOf(snapshot[r].prepared, req[r].html)
  /\ worker[r] # NoWork => IsParseOf(worker[r].prepared, req[r].html)

(* Whoever holds after a step what it held before it still holds its own.   *)
LEMMA SameHeld ==
  ASSUME TypeOK, Progress, OwnDocument, [Next]_vars, NEW r \in Requests,
         prepared'[r] \in {prepared[r], None},
         snapshot'[r] \in {snapshot[r], None},
         worker'[r] # NoWork => /\ worker[r] # NoWork
                               /\ worker'[r].prepared = worker[r].prepared
  PROVE  HoldsOwn(r)'
PROOF
<1>1. prepared[r] # None \/ snapshot[r] # None \/ worker[r] # NoWork => req'[r] = req[r]
  BY RequestStable DEF Progress
<1>2. prepared[r] # None => prepared[r] \in Requests
  BY DEF TypeOK
<1>3. snapshot[r] # None => snapshot[r].prepared \in Requests
  BY DEF TypeOK, Entry
<1>4. worker[r] # NoWork => worker[r].prepared \in Requests
  BY DEF TypeOK, Work
<1>. QED
  BY <1>1, <1>2, <1>3, <1>4, RequestStable DEF HoldsOwn, OwnDocument, IsParseOf

LEMMA SameEntries ==
  ASSUME TypeOK, Progress, OwnDocument, [Next]_vars,
         \A k \in Cached' : k \in Cached /\ entries'[k].prepared = entries[k].prepared
  PROVE  EntriesOwn'
PROOF
<1>1. \A k \in Cached : entries[k].prepared \in Requests
  BY DEF TypeOK, Cached, Entry
<1>. QED
  BY <1>1, RequestStable DEF EntriesOwn, OwnDocument, IsParseOf

(* A handler that comes away from the cache with an entry. *)
LEMMA HitOwn ==
  ASSUME TypeOK, Progress, OwnDocument, [Next]_vars, NEW r \in Requests, NEW now \in Nat,
         pc[r] \in Handling, Key(r) \in Cached, Hit(r, now), UNCHANGED worker,
         prepared'[r] \in {prepared[r], None}
  PROVE  EntriesOwn' /\ HoldsOwn(r)'
PROOF
<1>1. entries[Key(r)] \in Entry /\ Key(r) \in Digests
  BY DEF TypeOK, Cached
<1>2. Touch(entries[Key(r)], now).prepared = entries[Key(r)].prepared
  BY <1>1 DEF Touch, Entry
<1>3. \A k \in Digests : entries'[k].prepared = entries[k].prepared
  BY <1>1, <1>2 DEF Hit, TypeOK
<1>4. Cached' = Cached
  BY HitKeepsCached
<1>5. EntriesOwn'
  BY <1>3, <1>4, SameEntries DEF Cached
<1>6. snapshot'[r].prepared = entries[Key(r)].prepared
  BY <1>2 DEF Hit, TypeOK
<1>7. IsParseOf(entries[Key(r)].prepared, req[r].html)
  BY FoundIsOwn
<1>8. req'[r] = req[r] /\ entries[Key(r)].prepared \in Requests
  BY <1>1, RequestStable, HandlingIsQuery DEF Entry
<1>9. IsParseOf(snapshot[r].prepared, req[r].html)'
  BY <1>6, <1>7, <1>8, RequestStable DEF IsParseOf
<1>10. prepared[r] # None => prepared[r] \in Requests
  BY DEF TypeOK
<1>11. worker[r] # NoWork => worker[r].prepared \in Requests
  BY DEF TypeOK, Work
<1>. QED
  BY <1>5, <1>8, <1>9, <1>10, <1>11, RequestStable DEF HoldsOwn, OwnDocument, IsParseOf

LEMMA StoreOwn ==
  ASSUME TypeOK, Progress, OwnDocument, [Next]_vars, NEW r \in Requests, NEW now \in Nat,
         pc[r] = "insert", Store(r, now), UNCHANGED worker,
         prepared'[r] \in {prepared[r], None}
  PROVE  EntriesOwn' /\ HoldsOwn(r)'
PROOF
<1>1. /\ req[r] # Missing /\ req[r].html \in Docs /\ Key(r) \in Digests
      /\ req'[r] = req[r]
  BY HandlingIsQuery, RequestStable DEF Handling, PCs
<1>2. prepared[r] \in Requests /\ IsParseOf(prepared[r], req[r].html)
  BY DEF TypeOK, Progress, OwnDocument
<1>3. IsParseOf(prepared[r], req[r].html)' \/ prepared'[r] = None
  BY <1>1, <1>2, RequestStable DEF IsParseOf
<1> DEFINE e == [prepared |-> prepared[r], last_access |-> now]
<1>4. PICK kept \in Evicted : entries' = [kept EXCEPT ![Key(r)] = e]
  BY DEF Store
<1>5. kept \in [Digests -> Entry \cup {None}] /\ \A k \in Digests : kept[k] \in {entries[k], None}
  BY <1>4, EvictedEntries
<1>6. entries'[Key(r)] = e /\ \A k \in Digests \ {Key(r)} : entries'[k] \in {entries[k], None}
  BY <1>1, <1>4, <1>5
<1>7. req'[prepared[r]] = req[prepared[r]] /\ req[prepared[r]] # Missing
  BY <1>2, RequestStable DEF IsParseOf
<1>8. ASSUME NEW k \in Digests, k = Key(r)
      PROVE  \E d \in Docs : Digest[d] = k /\ IsParseOf(entries[k].prepared, d)'
  <2>1. req[r].html \in Docs /\ Digest[req[r].html] = k
    BY <1>1, <1>8 DEF Key
  <2>2. entries'[k].prepared = prepared[r]
    BY <1>6, <1>8
  <2>3. IsParseOf(entries[k].prepared, req[r].html)'
    BY <1>1, <1>2, <1>7, <2>2 DEF IsParseOf
  <2>. QED
    <3>1. \A d \in Docs : d = req[r].html => IsParseOf(entries[k].prepared, d)'
      BY <1>1, <2>3 DEF IsParseOf
    <3>. QED
      BY <2>1, <3>1
<1>9. \A k \in Cached' \ {Key(r)} : k \in Cached /\ entries'[k] = entries[k]
  BY <1>6 DEF Cached
<1>10. \A k \in Cached : entries[k].prepared \in Requests
  BY DEF TypeOK, Cached, Entry
<1>11. EntriesOwn'
  <2>1. ASSUME NEW k \in Cached', k # Key(r)
        PROVE  \E d \in Docs : Digest[d] = k /\ IsParseOf(entries[k].prepared, d)'
    <3>1. k \in Cached /\ entries'[k] = entries[k] /\ entries[k].prepared \in Requests
      BY <1>9, <1>10, <2>1
    <3>2. PICK d \in Docs : Digest[d] = k /\ IsParseOf(entries[k].prepared, d)
      BY <3>1 DEF OwnDocument
    <3>. QED
      BY <3>1, <3>2, RequestStable DEF IsParseOf
  <2>. QED
    BY <1>8, <2>1 DEF EntriesOwn, Cached
<1>12. snapshot'[r].prepared = prepared[r]
  BY DEF Store, TypeOK
<1>13. worker[r] = NoWork
  BY DEF Progress
<1>. QED
  BY <1>1, <1>2, <1>3, <1>7, <1>11, <1>12, <1>13 DEF HoldsOwn, IsParseOf
LEMMA OwnDocumentStep ==
  ASSUME TypeOK, Progress, OwnDocument, [Next]_vars
  PROVE  OwnDocument'
PROOF
<1> SUFFICES EntriesOwn' /\ \A q \in Requests : HoldsOwn(q)'
  BY DEF EntriesOwn, HoldsOwn, OwnDocument
<1> USE DEF TypeOK
<1>1. ASSUME NEW r \in Requests, Arrive(r) \/ Begin(r) \/ Finish(r) \/ Wait(r)
      PROVE  EntriesOwn' /\ \A q \in Requests : HoldsOwn(q)'
  <2>1. entries' = entries
    BY <1>1 DEF Arrive, Begin, Finish, Wait, WaitReady, WaitTimeout
  <2>2. ASSUME NEW q \in Requests
        PROVE  /\ prepared'[q] \in {prepared[q], None}
               /\ snapshot'[q] \in {snapshot[q], None}
    BY <1>1 DEF Arrive, Begin, Finish, Wait, WaitReady, WaitTimeout, Return
  <2>3. ASSUME NEW q \in Requests, worker'[q] # NoWork
        PROVE  worker[q] # NoWork /\ worker'[q].prepared = worker[q].prepared
    BY <1>1, <2>3 DEF Arrive, Begin, Finish, Wait, WaitReady, WaitTimeout, NoWork, Work
  <2>. QED
    BY <2>1, <2>2, <2>3, SameHeld, SameEntries DEF Cached
<1>2. ASSUME NEW r \in Requests, Lookup(r) \/ Insert(r)
      PROVE  EntriesOwn' /\ \A q \in Requests : HoldsOwn(q)'
  <2>1. ASSUME NEW q \in Requests, q # r PROVE HoldsOwn(q)'
    <3>1. prepared'[q] = prepared[q] /\ snapshot'[q] = snapshot[q] /\ worker' = worker
      BY <1>2, <2>1 DEF Lookup, Insert, Hit, Store
    <3>. QED
      BY <3>1, SameHeld
  <2>2. prepared'[r] \in {prepared[r], None} /\ worker' = worker /\ Now \subseteq Nat
    BY <1>2 DEF Lookup, Insert, Now
  <2>3. pc[r] \in Handling
    BY <1>2 DEF Lookup, Insert, Handling, PCs
  <2>4. CASE \E now \in Now : Key(r) \in Cached /\ Hit(r, now)
    BY <2>1, <2>2, <2>3, <2>4, HitOwn
  <2>5. CASE pc[r] = "insert" /\ \E now \in Now : Store(r, now)
    BY <2>1, <2>2, <2>5, StoreOwn
  <2>6. CASE UNCHANGED <<entries, snapshot>>
    BY <2>1, <2>2, <2>6, SameHeld, SameEntries DEF Cached
  <2>. QED
    BY <1>2, <2>4, <2>5, <2>6 DEF Lookup, Insert, was_inserted_meanwhile
<1>3. ASSUME NEW r \in Requests, Prepare(r)
      PROVE  EntriesOwn' /\ \A q \in Requests : HoldsOwn(q)'
  <2>1. EntriesOwn'
    BY <1>3, SameEntries DEF Prepare, Cached
  <2>2. ASSUME NEW q \in Requests, q # r PROVE HoldsOwn(q)'
    BY <1>3, <2>2, SameHeld DEF Prepare, Return
  <2>3. CASE Return(r, PrepareError(req[r].html))
    BY <1>3, <2>1, <2>2, <2>3, SameHeld DEF Prepare, Return
  <2>4. CASE req[r].html \notin Unpreparable /\ prepared' = [prepared EXCEPT ![r] = r]
             /\ UNCHANGED snapshot
    <3>1. req[r] # Missing /\ req' = req /\ worker[r] = NoWork /\ worker' = worker
          /\ snapshot[r] = None
      BY <1>3, HandlingIsQuery DEF Prepare, Handling, PCs, Progress
    <3>. QED
      BY <2>1, <2>2, <2>4, <3>1 DEF HoldsOwn, IsParseOf
  <2>. QED
    BY <1>3, <2>3, <2>4 DEF Prepare
<1>4. ASSUME NEW r \in Requests, Spawn(r)
      PROVE  EntriesOwn' /\ \A q \in Requests : HoldsOwn(q)'
  <2>1. EntriesOwn'
    BY <1>4, SameEntries DEF Spawn, Cached
  <2>2. ASSUME NEW q \in Requests, q # r PROVE HoldsOwn(q)'
    BY <1>4, <2>2, SameHeld DEF Spawn, Return
  <2>3. CASE Return(r, ServerError) /\ UNCHANGED worker
    BY <1>4, <2>1, <2>2, <2>3, SameHeld DEF Return
  <2>4. CASE /\ worker' = [worker EXCEPT ![r] =
                              [state |-> "running", prepared |-> snapshot[r].prepared]]
             /\ UNCHANGED <<prepared, snapshot>>
    <3>1. req' = req /\ snapshot[r] # None /\ prepared[r] = None
      BY <1>4 DEF Spawn, Progress
    <3>2. IsParseOf(snapshot[r].prepared, req[r].html)
      BY <3>1 DEF OwnDocument
    <3>3. worker'[r].prepared = snapshot[r].prepared
      BY <2>4
    <3>. QED
      BY <2>1, <2>2, <2>4, <3>1, <3>2, <3>3 DEF HoldsOwn, IsParseOf
  <2>. QED
    BY <1>4, <2>3, <2>4 DEF Spawn
<1>5. CASE UNCHANGED vars
  BY <1>5, SameHeld, SameEntries DEF vars, Cached
<1>. QED
  BY <1>1, <1>2, <1>3, <1>4, <1>5 DEF Next, Handler, Quiet

-----------------------------------------------------------------------------
LEMMA StampsStep ==
  ASSUME TypeOK, Progress, StampsPast, [Next]_vars
  PROVE  StampsPast'
PROOF
<1> USE DEF TypeOK
<1>1. \A k \in Cached : entries[k].last_access \in Nat
  BY DEF Cached, Entry
<1>2. ASSUME NEW r \in Requests, Lookup(r) \/ Insert(r) PROVE StampsPast'
  <2>1. clock' \in Now /\ Now \subseteq Nat /\ clock <= clock'
    BY <1>2 DEF Lookup, Insert, Now
  <2>2. CASE Key(r) \in Cached /\ Hit(r, clock')
    <3>1. Cached' = Cached
      BY <2>1, <2>2, HitKeepsCached
    <3>2. entries[Key(r)] \in Entry /\ Key(r) \in Digests
      BY <2>2 DEF Cached
    <3>3. entries'[Key(r)].last_access = clock'
      BY <2>2, <3>2 DEF Hit, Touch, Entry
    <3>4. \A k \in Cached : k # Key(r) => entries'[k] = entries[k]
      BY <2>2 DEF Hit, Cached
    <3>. QED
      BY <1>1, <2>1, <3>1, <3>3, <3>4 DEF StampsPast
  <2>3. CASE pc[r] = "insert" /\ Store(r, clock')
    <3>1. PICK kept \in Evicted :
            entries' = [kept EXCEPT ![Key(r)] =
                          [prepared |-> prepared[r], last_access |-> clock']]
      BY <2>3 DEF Store
    <3>2. kept \in [Digests -> Entry \cup {None}] /\ \A k \in Digests : kept[k] \in {entries[k], None}
      BY <3>1, EvictedEntries
    <3>3. \A k \in Cached' : entries'[k].last_access = clock' \/ (k \in Cached /\ entries'[k] = entries[k])
      BY <3>1, <3>2 DEF Cached
    <3>. QED
      BY <1>1, <2>1, <3>3 DEF StampsPast
  <2>4. CASE UNCHANGED entries
    BY <1>1, <2>1, <2>4 DEF StampsPast, Cached
  <2>. QED
    BY <1>2, <2>2, <2>3, <2>4 DEF Lookup, Insert, was_inserted_meanwhile
<1>3. CASE UNCHANGED <<entries, clock>>
  BY <1>3 DEF StampsPast, Cached
<1>. QED
  BY <1>2, <1>3 DEF Next, Handler, Wait, Quiet, vars, Arrive, Begin, Prepare, Spawn,
                    WaitReady, WaitTimeout, Finish

-----------------------------------------------------------------------------
(* The inductive invariant holds in every state, for every number of        *)
(* requests, places in the cache and threads.                               *)
THEOREM AgentInvariance == Spec => []AgentInv
PROOF
<1>1. AgentInv /\ [Next]_vars => AgentInv'
  BY TypeStep, CapacityStep, ProgressStep, OwnDocumentStep, StampsStep DEF AgentInv
<1>. QED
  BY InitInv, <1>1, PTL DEF Spec

(* However handlers interleave between their two critical sections, the     *)
(* snapshot cache holds at most kMaxSnapshotCacheEntries documents.         *)
THEOREM CacheCapacity == Spec => []CapacityRespected
PROOF
<1>1. AgentInv => CapacityRespected
  BY DEF AgentInv
<1>. QED
  BY AgentInvariance, <1>1, PTL

-----------------------------------------------------------------------------
(* The service's replies are the agent's. *)
LEMMA SameReplies ==
  /\ Service!NoReply = NoReply /\ Service!Unauthorized = Unauthorized
  /\ Service!BadRequest = BadRequest /\ Service!TimedOut = TimedOut
  /\ Service!ServerError = ServerError
  /\ \A d : Service!PrepareError(d) = PrepareError(d)
  /\ \A d, q : Service!Answered(Service!Outcome(d, q)) = Answered(Outcome(d, q))
PROOF
  BY DEF Service!NoReply, NoReply, Service!Unauthorized, Unauthorized, Service!BadRequest,
         BadRequest, Service!TimedOut, TimedOut, Service!ServerError, ServerError,
         Service!PrepareError, PrepareError, Service!Answered, Answered, Service!Outcome, Outcome

(* A step that answers r answers as the service may; any other step leaves  *)
(* the reply as it is.                                                      *)
LEMMA AnswerAllowed ==
  ASSUME AgentInv, NEW r \in Requests, Handler(r)
  PROVE  \/ reply' = reply
         \/ /\ reply[r] = NoReply /\ req[r] # Missing
            /\ \E a \in Service!Allowed(req[r]) : reply' = [reply EXCEPT ![r] = a]
PROOF
<1> USE DEF AgentInv, TypeOK
<1>1. pc[r] \notin {"idle", "done"}
  BY DEF Handler, Begin, Lookup, Prepare, Insert, Spawn, Wait, WaitReady, WaitTimeout
<1>2. reply[r] = NoReply /\ req[r] # Missing /\ req[r] \in Message
  BY <1>1, ProtocolAssumption DEF Progress
<1>3. Service!MayAsk(req[r]) <=> ~is_unauthorized(req[r])
  BY <1>2, ProtocolAssumption
     DEF Service!MayAsk, is_unauthorized, provided_token, Message
<1>4. Service!IsQuery(req[r]) <=> parse_request(req[r])
  BY <1>2, ProtocolAssumption DEF Service!IsQuery, parse_request, Message
<1>5. pc[r] \in Handling => ~is_unauthorized(req[r]) /\ parse_request(req[r])
  BY DEF Progress
<1>6. CASE Begin(r)
  BY SameReplies, <1>2, <1>3, <1>4, <1>6 DEF Begin, Return, Service!Allowed
<1>7. CASE Prepare(r)
  BY SameReplies, <1>2, <1>3, <1>4, <1>5, <1>7 DEF Prepare, Return, Service!Allowed, Handling, PCs
<1>8. CASE Spawn(r)
  <2>1. req[r].html \notin Unpreparable
    BY <1>8 DEF Spawn, Progress, OwnDocument, IsParseOf
  <2>2. ServerError \in Service!Allowed(req[r])
    BY SameReplies, <1>3, <1>4, <1>5, <1>8, <2>1 DEF Spawn, Service!Allowed, Handling, PCs
  <2>. QED
    BY <1>2, <1>8, <2>2 DEF Spawn, Return
<1>9. CASE Wait(r)
  <2>1. IsParseOf(worker[r].prepared, req[r].html)
    BY <1>9 DEF Wait, WaitReady, WaitTimeout, Progress, OwnDocument
  <2>2. {Answered(Outcome(req[r].html, req[r].query)), TimedOut} \subseteq Service!Allowed(req[r])
    BY SameReplies, <1>3, <1>4, <1>5, <1>9, <2>1
       DEF Wait, WaitReady, WaitTimeout, Service!Allowed, Handling, PCs, IsParseOf
  <2>. QED
    BY <1>2, <1>9, <2>1, <2>2 DEF Wait, WaitReady, WaitTimeout, Return, DocOf, IsParseOf
<1>. QED
  BY <1>6, <1>7, <1>8, <1>9 DEF Handler, Lookup, Insert

(* With its cache, its threads and its timer the agent is the service: each *)
(* request is answered at most once, from its own snapshot and query.       *)
THEOREM AgentImplementsService == Spec => ImplementsService
PROOF
<1>1. Init => Service!ServiceInit
  BY SameReplies DEF Init, Service!ServiceInit
<1>2. AgentInv /\ [Next]_vars => [Service!ServiceNext]_Service!svars
  <2> SUFFICES ASSUME AgentInv, [Next]_vars PROVE [Service!ServiceNext]_Service!svars
    OBVIOUS
  <2>1. ASSUME NEW r \in Requests, Arrive(r) PROVE Service!Ask(r)
    BY <2>1 DEF Arrive, Service!Ask, AgentInv, Progress
  <2>2. ASSUME NEW r \in Requests, Handler(r)
        PROVE  Service!Answer(r) \/ UNCHANGED Service!svars
    <3>1. req' = req
      BY <2>2 DEF Handler, Begin, Lookup, Prepare, Insert, Spawn, Wait, WaitReady, WaitTimeout
    <3>. QED
      BY <2>2, <3>1, AnswerAllowed, SameReplies DEF Service!Answer, Service!svars
  <2>3. ASSUME NEW r \in Requests, Finish(r) PROVE UNCHANGED Service!svars
    BY <2>3 DEF Finish, Service!svars
  <2>4. CASE UNCHANGED vars
    BY <2>4 DEF vars, Service!svars
  <2>. QED
    BY <2>1, <2>2, <2>3, <2>4 DEF Next, Quiet, Service!ServiceNext
<1>. QED
  BY <1>1, <1>2, AgentInvariance, PTL DEF Spec, ImplementsService, Service!ServiceSpec
-----------------------------------------------------------------------------
(* No interleaving of handlers replaces a cached parse by another parse of  *)
(* the same snapshot.                                                       *)
THEOREM CachedParseStays == Spec => NeverReplaced
PROOF
<1>1. ASSUME AgentInv, [Next]_vars, NEW k \in Cached, entries'[k] # None
      PROVE  entries'[k].prepared = entries[k].prepared
  <2> USE DEF AgentInv, TypeOK
  <2>1. k \in Digests /\ entries[k] \in Entry
    BY <1>1 DEF Cached
  <2>2. ASSUME NEW r \in Requests, NEW now \in Nat, Key(r) \in Cached, Hit(r, now)
        PROVE  entries'[k].prepared = entries[k].prepared
    BY <2>1, <2>2 DEF Hit, Touch, Entry
  <2>3. ASSUME NEW r \in Requests, NEW now \in Nat, Key(r) \notin Cached, Store(r, now)
        PROVE  entries'[k].prepared = entries[k].prepared
    <3>1. PICK kept \in Evicted :
            entries' = [kept EXCEPT ![Key(r)] =
                          [prepared |-> prepared[r], last_access |-> now]]
      BY <2>3 DEF Store
    <3>2. entries'[k] = kept[k] /\ kept[k] \in {entries[k], None}
      BY <1>1, <2>1, <2>3, <3>1, EvictedEntries
    <3>. QED
      BY <1>1, <3>2
  <2>4. Now \subseteq Nat
    BY <1>1 DEF Now
  <2>. QED
    BY <1>1, <2>2, <2>3, <2>4
       DEF Next, Handler, Wait, Quiet, vars, Arrive, Begin, Lookup, Prepare, Insert,
           was_inserted_meanwhile, Spawn, WaitReady, WaitTimeout, Finish
<1>2. AgentInv /\ [Next]_vars =>
        [\A k \in Cached : entries'[k] # None => entries'[k].prepared = entries[k].prepared]_vars
  BY <1>1
<1>. QED
  BY <1>2, AgentInvariance, PTL DEF Spec, NeverReplaced
(* Eviction is least recently used, for every interleaving: a handler comes *)
(* away with the newest entry, and only the oldest one of a full cache goes.*)
THEOREM EvictionIsLRU == Spec => LeastRecentlyUsed
PROOF
<1> DEFINE HandsOutNewest == \A r \in Requests : snapshot[r] = None /\ snapshot'[r] # None =>
                               entries'[Key(r)] = snapshot'[r] /\ NewestOf(Key(r))
           EvictsOldest == \A k \in Cached : entries'[k] = None =>
                             Cardinality(Cached) = MaxEntries /\ k \in Oldest
<1>1. ASSUME AgentInv, [Next]_vars PROVE HandsOutNewest /\ EvictsOldest
  <2> USE DEF AgentInv, TypeOK
  <2>1. Now \subseteq Nat /\ \A now \in Now : clock <= now
    BY <1>1 DEF Now
  <2>2. \A k \in Digests : entries[k] # None =>
          entries[k].last_access \in Nat /\ entries[k].last_access <= clock
    BY <1>1 DEF StampsPast, Cached, Entry
  <2>3. ASSUME NEW r \in Requests, NEW now \in Now, Key(r) \in Cached, Hit(r, now)
        PROVE  HandsOutNewest /\ EvictsOldest
    <3>1. Key(r) \in Digests /\ entries[Key(r)] \in Entry
      BY <1>1, <2>3 DEF Cached
    <3>2. /\ entries'[Key(r)] = snapshot'[r]
          /\ entries'[Key(r)].last_access = now
          /\ \A k \in Digests : k # Key(r) => entries'[k] = entries[k]
          /\ \A q \in Requests : q # r => snapshot'[q] = snapshot[q]
      BY <1>1, <2>3, <3>1 DEF Hit, Touch, Entry
    <3>3. NewestOf(Key(r))
      BY <1>1, <2>1, <2>2, <3>2 DEF NewestOf
    <3>4. Cached' = Cached
      BY <1>1, <2>1, <2>3, HitKeepsCached
    <3>. QED
      BY <3>2, <3>3, <3>4 DEF Cached
  <2>4. ASSUME NEW r \in Requests, NEW now \in Now, pc[r] = "insert", Key(r) \notin Cached,
               Store(r, now)
        PROVE  HandsOutNewest /\ EvictsOldest
    <3> DEFINE e == [prepared |-> prepared[r], last_access |-> now]
    <3>1. Key(r) \in Digests
      BY <1>1, <2>4, HandlingIsQuery DEF Handling, PCs
    <3>2. PICK kept \in Evicted : entries' = [kept EXCEPT ![Key(r)] = e]
      BY <2>4 DEF Store
    <3>3. /\ kept \in [Digests -> Entry \cup {None}]
          /\ \A k \in Digests : kept[k] \in {entries[k], None}
      BY <1>1, <3>2, EvictedEntries
    <3>4. entries'[Key(r)] = e /\ \A k \in Digests : k # Key(r) => entries'[k] = kept[k]
      BY <3>1, <3>2, <3>3
    <3>5. snapshot'[r] = e /\ \A q \in Requests : q # r => snapshot'[q] = snapshot[q]
      BY <1>1, <2>4 DEF Store
    <3>6. NewestOf(Key(r))
      <4>1. entries'[Key(r)].last_access = now /\ now \in Nat /\ clock <= now
        BY <2>1, <3>4
      <4>2. ASSUME NEW j \in Digests, entries'[j] # None
            PROVE  entries'[j].last_access <= now
        <5>1. CASE j = Key(r)
          BY <4>1, <5>1
        <5>2. CASE j # Key(r)
          <6>1. entries'[j] = entries[j]
            BY <3>3, <3>4, <4>2, <5>2
          <6>2. entries[j].last_access \in Nat /\ entries[j].last_access <= clock
            BY <2>2, <4>2, <6>1
          <6>. QED
            BY <1>1, <4>1, <6>1, <6>2
        <5>. QED
          BY <5>1, <5>2
      <4>. QED
        BY <4>1, <4>2 DEF NewestOf
    <3>7. ASSUME NEW k \in Cached, entries'[k] = None
          PROVE  Cardinality(Cached) = MaxEntries /\ k \in Oldest
      <4>1. k \in Digests /\ k # Key(r) /\ kept[k] = None /\ entries[k] # None
        BY <2>4, <3>4, <3>7 DEF Cached
      <4>2. must_evict
        BY <3>2, <4>1 DEF Evicted
      <4>3. PICK j \in Oldest : kept = [entries EXCEPT ![j] = None]
        BY <3>2, <4>2 DEF Evicted
      <4>4. j = k
        BY <1>1, <4>1, <4>3
      <4>5. Cardinality(Cached) \in Nat
        BY <1>1, FS_CardinalityType DEF CapacityRespected
      <4>. QED
        BY <1>1, <4>2, <4>3, <4>4, <4>5, AgentAssumption DEF must_evict, CapacityRespected
    <3>. QED
      BY <3>4, <3>5, <3>6, <3>7
  <2>5. CASE /\ \A r \in Requests : snapshot'[r] \in {snapshot[r], None}
             /\ entries' = entries
    BY <2>5 DEF Cached
  <2>6. ASSUME NEW r \in Requests, Lookup(r) \/ Insert(r) PROVE HandsOutNewest /\ EvictsOldest
    BY <1>1, <2>3, <2>4, <2>5, <2>6 DEF Lookup, Insert, was_inserted_meanwhile
  <2>7. ASSUME NEW r \in Requests,
               Arrive(r) \/ Begin(r) \/ Prepare(r) \/ Spawn(r) \/ Wait(r) \/ Finish(r)
        PROVE  HandsOutNewest /\ EvictsOldest
    BY <1>1, <2>5, <2>7 DEF Arrive, Begin, Prepare, Spawn, Wait, WaitReady, WaitTimeout,
                            Finish, Return
  <2>8. CASE UNCHANGED vars
    BY <2>5, <2>8 DEF vars
  <2>. QED
    BY <1>1, <2>6, <2>7, <2>8 DEF Next, Handler, Quiet
<1>2. AgentInv /\ [Next]_vars =>
        [/\ \A r \in Requests : snapshot[r] = None /\ snapshot'[r] # None =>
              /\ entries'[Key(r)] = snapshot'[r]
              /\ NewestOf(Key(r))
         /\ \A k \in Cached : entries'[k] = None =>
              /\ Cardinality(Cached) = MaxEntries
              /\ k \in Oldest]_vars
  BY <1>1
<1>. QED
  BY <1>2, AgentInvariance, PTL DEF Spec, LeastRecentlyUsed

-----------------------------------------------------------------------------
(* What outlives a request.  Who runs: one more handler at a time, on a     *)
(* free thread of the pool; one more worker at a time, while the system has *)
(* a thread for it.                                                         *)
LEMMA BusyStep ==
  ASSUME TypeOK, [Next]_vars
  PROVE  \/ Busy' \subseteq Busy
         \/ Cardinality(Busy) < PoolThreads /\ \E r \in Requests : Busy' \subseteq Busy \cup {r}
PROOF
<1>1. ASSUME NEW r \in Requests, Arrive(r) PROVE Busy' \subseteq Busy
  BY <1>1 DEF Arrive, Goto, TypeOK, Busy, Handling, PCs
<1>2. ASSUME NEW r \in Requests, Begin(r)
      PROVE  Cardinality(Busy) < PoolThreads /\ Busy' \subseteq Busy \cup {r}
  BY <1>2 DEF Begin, Goto, Return, TypeOK, Busy
<1>3. ASSUME NEW r \in Requests, Lookup(r) \/ Prepare(r) \/ Insert(r) \/ Spawn(r) \/ Wait(r)
      PROVE  Busy' \subseteq Busy
  <2>1. pc[r] \in Handling
    BY <1>3 DEF Lookup, Prepare, Insert, Spawn, Wait, WaitReady, WaitTimeout, Handling, PCs
  <2>2. \E label : Goto(r, label)
    BY <1>3 DEF Lookup, Hit, Prepare, Insert, Store, Spawn, Wait, WaitReady, WaitTimeout, Return
  <2>. QED
    BY <2>1, <2>2 DEF Goto, TypeOK, Busy
<1>4. ASSUME NEW r \in Requests, Finish(r) PROVE Busy' \subseteq Busy
  BY <1>4 DEF Finish, Busy
<1>5. CASE UNCHANGED vars
  BY <1>5 DEF vars, Busy
<1>. QED
  BY <1>1, <1>2, <1>3, <1>4, <1>5 DEF Next, Handler, Quiet

LEMMA RunningStep ==
  ASSUME TypeOK, [Next]_vars
  PROVE  \/ Running' \subseteq Running
         \/ Cardinality(Running) < ThreadLimit /\ \E r \in Requests : Running' \subseteq Running \cup {r}
PROOF
<1>1. ASSUME NEW r \in Requests, Spawn(r)
      PROVE  \/ Running' \subseteq Running
             \/ Cardinality(Running) < ThreadLimit /\ Running' \subseteq Running \cup {r}
  BY <1>1 DEF Spawn, TypeOK, Running
<1>2. ASSUME NEW r \in Requests, Finish(r) PROVE Running' \subseteq Running
  BY <1>2 DEF Finish, Work, NoWork, TypeOK, Running
<1>3. ASSUME NEW r \in Requests,
             Arrive(r) \/ Begin(r) \/ Lookup(r) \/ Prepare(r) \/ Insert(r) \/ Wait(r)
      PROVE  Running' \subseteq Running
  BY <1>3 DEF Arrive, Begin, Lookup, Prepare, Insert, Wait, WaitReady, WaitTimeout, Running
<1>4. CASE UNCHANGED vars
  BY <1>4 DEF vars, Running
<1>. QED
  BY <1>1, <1>2, <1>3, <1>4 DEF Next, Handler, Quiet

LEMMA ThreadsStep ==
  ASSUME TypeOK, ThreadsBounded, [Next]_vars
  PROVE  ThreadsBounded'
PROOF
<1>1. PoolThreads \in Nat /\ ThreadLimit \in Nat
  BY AgentAssumption
<1>2. IsFiniteSet(Busy') /\ Cardinality(Busy') <= PoolThreads
  BY <1>1, BusyStep, RoomForOne DEF ThreadsBounded
<1>3. IsFiniteSet(Running') /\ Cardinality(Running') <= ThreadLimit
  BY <1>1, RunningStep, RoomForOne DEF ThreadsBounded
<1>. QED
  BY <1>2, <1>3 DEF ThreadsBounded

(* A reply other than the timeout is given before the worker starts, or     *)
(* after it ended.                                                          *)
LEMMA WorkersStep ==
  ASSUME TypeOK, Progress, WorkersAccounted, [Next]_vars
  PROVE  WorkersAccounted'
PROOF
<1> USE DEF TypeOK, WorkersAccounted, Running
<1>1. ASSUME NEW r \in Requests, worker[r].state # "running", UNCHANGED worker,
             NEW a, NEW label,
             pc' = [pc EXCEPT ![r] = label], UNCHANGED reply \/ reply' = [reply EXCEPT ![r] = a]
      PROVE  WorkersAccounted'
  BY <1>1
<1>2. ASSUME NEW r \in Requests, pc[r] \notin {"wait", "done"} PROVE worker[r].state # "running"
  BY <1>2 DEF Progress, NoWork
<1>3. ASSUME NEW r \in Requests, Arrive(r) PROVE WorkersAccounted'
  <2>1. worker[r].state # "running"
    BY <1>2, <1>3 DEF Arrive
  <2>. QED
    BY <1>1, <1>3, <2>1 DEF Arrive, Goto
<1>4. ASSUME NEW r \in Requests, Begin(r) PROVE WorkersAccounted'
  <2>1. worker[r].state # "running"
    BY <1>2, <1>4 DEF Begin
  <2>. QED
    BY <1>1, <1>4, <2>1 DEF Begin, Return, Goto
<1>5. ASSUME NEW r \in Requests, Lookup(r) \/ Prepare(r) \/ Insert(r) PROVE WorkersAccounted'
  <2>1. worker[r].state # "running"
    BY <1>2, <1>5 DEF Lookup, Prepare, Insert
  <2>. QED
    BY <1>1, <1>5, <2>1 DEF Lookup, Hit, Prepare, Insert, Store, Return, Goto
<1>6. ASSUME NEW r \in Requests, Spawn(r) PROVE WorkersAccounted'
  <2>1. worker[r].state # "running"
    BY <1>2, <1>6 DEF Spawn
  <2>2. CASE Return(r, ServerError) /\ UNCHANGED worker
    BY <1>1, <2>1, <2>2 DEF Return, Goto
  <2>3. CASE Goto(r, "wait") /\ UNCHANGED reply
    BY <1>6, <2>3 DEF Spawn, Goto
  <2>. QED
    BY <1>6, <2>2, <2>3 DEF Spawn
<1>7. ASSUME NEW r \in Requests, WaitReady(r) PROVE WorkersAccounted'
  <2>1. worker[r].state # "running"
    BY <1>7 DEF WaitReady
  <2>. QED
    BY <1>1, <1>7, <2>1 DEF WaitReady, Return, Goto
<1>8. ASSUME NEW r \in Requests, WaitTimeout(r) PROVE WorkersAccounted'
  BY <1>8 DEF WaitTimeout, Return, Goto
<1>9. ASSUME NEW r \in Requests, Finish(r) PROVE WorkersAccounted'
  BY <1>9 DEF Finish
<1>10. CASE UNCHANGED vars
  BY <1>10 DEF vars
<1>. QED
  BY <1>3, <1>4, <1>5, <1>6, <1>7, <1>8, <1>9, <1>10 DEF Next, Handler, Wait, Quiet

LEMMA SharedStep ==
  ASSUME TypeOK, Progress, DocumentShared, [Next]_vars
  PROVE  DocumentShared'
PROOF
<1> USE DEF TypeOK, DocumentShared
<1>1. ASSUME NEW r \in Requests, NEW label, label # "wait", Goto(r, label), UNCHANGED worker,
             \A q \in Requests \ {r} : snapshot'[q] = snapshot[q]
      PROVE  DocumentShared'
  BY <1>1 DEF Goto
<1>2. ASSUME NEW r \in Requests, Spawn(r) PROVE DocumentShared'
  <2>1. CASE Return(r, ServerError) /\ UNCHANGED worker
    BY <1>1, <2>1 DEF Return
  <2>2. CASE /\ worker' = [worker EXCEPT ![r] =
                 [state |-> "running", prepared |-> snapshot[r].prepared]]
             /\ Goto(r, "wait")
             /\ UNCHANGED snapshot
    <3>1. worker'[r].prepared = snapshot[r].prepared
      BY <2>2
    <3>2. \A q \in Requests \ {r} : worker'[q] = worker[q] /\ pc'[q] = pc[q]
      BY <2>2 DEF Goto
    <3>. QED
      BY <2>2, <3>1, <3>2
  <2>. QED
    BY <1>2, <2>1, <2>2 DEF Spawn
<1>3. ASSUME NEW r \in Requests, Finish(r) PROVE DocumentShared'
  <2>1. worker[r] \in Work /\ worker'[r].prepared = worker[r].prepared
    BY <1>3 DEF Finish, Work, NoWork
  <2>. QED
    BY <1>3, <2>1 DEF Finish
<1>4. ASSUME NEW r \in Requests, Arrive(r) \/ Begin(r) PROVE DocumentShared'
  BY <1>1, <1>4 DEF Arrive, Begin, Return, Goto
<1>5. ASSUME NEW r \in Requests, Lookup(r) \/ Insert(r) PROVE DocumentShared'
  <2>1. /\ \E label \in {"prepare", "spawn"} : Goto(r, label)
        /\ \A q \in Requests \ {r} : snapshot'[q] = snapshot[q]
        /\ UNCHANGED worker
    BY <1>5 DEF Lookup, Hit, Insert, Store
  <2>. QED
    BY <1>1, <2>1
<1>6. ASSUME NEW r \in Requests, Prepare(r) \/ Wait(r) PROVE DocumentShared'
  <2>1. /\ \E label \in {"insert", "done"} : Goto(r, label)
        /\ \A q \in Requests \ {r} : snapshot'[q] = snapshot[q]
        /\ UNCHANGED worker
    BY <1>6 DEF Prepare, Wait, WaitReady, WaitTimeout, Return
  <2>. QED
    BY <1>1, <2>1
<1>7. CASE UNCHANGED vars
  BY <1>7 DEF vars
<1>. QED
  BY <1>2, <1>3, <1>4, <1>5, <1>6, <1>7 DEF Next, Handler, Quiet

(* Each document that is alive has a place: one in the cache, one for each  *)
(* busy handler, which has its own parse or a copy of an entry but not      *)
(* both, one for each worker that was left behind.                          *)
CachedAs == [k \in Cached |-> entries[k].prepared]
HeldBy   == [r \in Busy |-> IF prepared[r] # None THEN prepared[r] ELSE snapshot[r].prepared]
RunsOn   == [r \in Requests |-> worker[r].prepared]

LEMMA DocumentsHavePlaces ==
  ASSUME AgentInv, DocumentShared
  PROVE  LiveDocuments \subseteq
           ({CachedAs[k] : k \in Cached} \cup {HeldBy[r] : r \in Busy})
           \cup {RunsOn[r] : r \in Running \ Busy}
PROOF
<1> USE DEF AgentInv, TypeOK
<1>1. ASSUME NEW r \in Requests, prepared[r] # None
      PROVE  r \in Busy /\ HeldBy[r] = prepared[r]
  <2>1. r \in Busy
    BY <1>1 DEF Progress, Busy, Handling, PCs
  <2>. QED
    BY <1>1, <2>1 DEF HeldBy
<1>2. ASSUME NEW r \in Requests, snapshot[r] # None
      PROVE  r \in Busy /\ HeldBy[r] = snapshot[r].prepared
  <2>1. r \in Busy /\ prepared[r] = None
    BY <1>2 DEF Progress, Busy, Handling, PCs
  <2>. QED
    BY <2>1 DEF HeldBy
<1>3. ASSUME NEW r \in Running, r \in Busy
      PROVE  HeldBy[r] = worker[r].prepared
  <2>1. r \in Requests /\ worker[r] # NoWork
    BY <1>3 DEF Running, NoWork
  <2>2. pc[r] = "wait" /\ snapshot[r] # None
    BY <1>3, <2>1 DEF Progress, Busy, Handling, PCs
  <2>. QED
    BY <1>2, <2>1, <2>2 DEF DocumentShared
<1> DEFINE incache == {CachedAs[k] : k \in Cached}
           inhand == {HeldBy[r] : r \in Busy}
           left == {RunsOn[r] : r \in Running \ Busy}
<1>4. {entries[k].prepared : k \in Cached} \subseteq incache
  BY DEF CachedAs
<1>5. {prepared[r] : r \in {q \in Requests : prepared[q] # None}} \subseteq inhand
  BY <1>1
<1>6. {snapshot[r].prepared : r \in {q \in Requests : snapshot[q] # None}} \subseteq inhand
  BY <1>2
<1>7. {worker[r].prepared : r \in Running} \subseteq inhand \cup left
  <2>1. Running \subseteq Requests
    BY DEF Running
  <2>2. ASSUME NEW r \in Running PROVE worker[r].prepared \in inhand \cup left
    <3>1. CASE r \in Busy
      <4>1. HeldBy[r] = worker[r].prepared
        BY <1>3, <3>1
      <4>. QED
        BY <3>1, <4>1
    <3>2. CASE r \notin Busy
      <4>1. r \in Running \ Busy /\ RunsOn[r] = worker[r].prepared
        BY <2>1, <3>2 DEF RunsOn
      <4>. QED
        BY <4>1
    <3>. QED
      BY <3>1, <3>2
  <2>. QED
    BY <2>2
<1> HIDE DEF incache, inhand, left
<1>8. LiveDocuments \subseteq (incache \cup inhand) \cup left
  BY <1>4, <1>5, <1>6, <1>7 DEF LiveDocuments
<1>. QED
  BY <1>8 DEF incache, inhand, left

LEMMA DocumentsFit ==
  ASSUME AgentInv, DocumentShared, ThreadsBounded
  PROVE  DocumentsBounded
PROOF
<1> DEFINE incache == {CachedAs[k] : k \in Cached}
           inhand == {HeldBy[r] : r \in Busy}
           left == {RunsOn[r] : r \in Running \ Busy}
<1>1. IsFiniteSet(Running \ Busy)
  BY FS_Subset DEF ThreadsBounded
<1>2. /\ MaxEntries \in Nat /\ Cardinality(Cached) \in Nat
      /\ Cardinality(Busy) \in Nat /\ Cardinality(Running \ Busy) \in Nat
  BY <1>1, FS_CardinalityType, AgentAssumption DEF AgentInv, CapacityRespected, ThreadsBounded
<1>3. IsFiniteSet(incache) /\ Cardinality(incache) <= Cardinality(Cached)
  BY FewValues DEF AgentInv, CapacityRespected
<1>4. IsFiniteSet(inhand) /\ Cardinality(inhand) <= Cardinality(Busy)
  BY FewValues DEF ThreadsBounded
<1>5. IsFiniteSet(left) /\ Cardinality(left) <= Cardinality(Running \ Busy)
  BY <1>1, FewValues
<1>6. LiveDocuments \subseteq (incache \cup inhand) \cup left
  BY DocumentsHavePlaces
<1> HIDE DEF incache, inhand, left
<1>7. Cardinality(incache) \in Nat /\ Cardinality(incache) <= MaxEntries
  BY <1>2, <1>3, FS_CardinalityType DEF AgentInv, CapacityRespected
<1>8. /\ IsFiniteSet(incache \cup inhand)
      /\ Cardinality(incache \cup inhand) <= MaxEntries + Cardinality(Busy)
  BY <1>2, <1>3, <1>4, <1>7, FewTogether
<1>9. /\ IsFiniteSet((incache \cup inhand) \cup left)
      /\ Cardinality((incache \cup inhand) \cup left)
           <= (MaxEntries + Cardinality(Busy)) + Cardinality(Running \ Busy)
  <2>1. MaxEntries + Cardinality(Busy) \in Nat
    BY <1>2
  <2>. QED
    BY <2>1, <1>2, <1>5, <1>8, FewTogether
<1>10. IsFiniteSet(LiveDocuments) /\ Cardinality(LiveDocuments) <= Cardinality((incache \cup inhand) \cup left)
  BY <1>6, <1>9, FS_Subset
<1>11. Cardinality(LiveDocuments) \in Nat /\ Cardinality((incache \cup inhand) \cup left) \in Nat
  BY <1>9, <1>10, FS_CardinalityType
<1>. QED
  BY <1>2, <1>9, <1>10, <1>11 DEF DocumentsBounded

(* Requests that time out leave their worker and its document behind, but   *)
(* never more than the system has threads for, and no other reply leaves    *)
(* anything behind: CoreExecutor::execute detaches the worker only when     *)
(* wait_for gave up on it.                                                  *)
THEOREM LeftoversAreBounded == Spec => []LeftoversBounded
PROOF
<1> DEFINE Left == WorkersAccounted /\ ThreadsBounded /\ DocumentShared
<1>1. Init => Left
  <2> SUFFICES ASSUME Init PROVE Left
    OBVIOUS
  <2>1. Busy = {} /\ Running = {}
    BY DEF Init, Busy, Running, Handling, PCs, NoWork
  <2>2. ThreadsBounded
    BY <2>1, FS_EmptySet, AgentAssumption DEF ThreadsBounded
  <2>. QED
    BY <2>1, <2>2 DEF WorkersAccounted, DocumentShared, Init
<1>2. AgentInv /\ Left /\ [Next]_vars => Left'
  BY WorkersStep, ThreadsStep, SharedStep DEF AgentInv
<1>3. AgentInv /\ Left => LeftoversBounded
  BY DocumentsFit DEF LeftoversBounded
<1>. QED
  BY <1>1, <1>2, <1>3, AgentInvariance, PTL DEF Spec
=============================================================================
