---------------------------- MODULE AgentService ----------------------------
(* What the agent promises its clients, with no cache, no threads and no    *)
(* timer: a request is answered once, and the answer is about that          *)
(* request's own snapshot and query, whatever the other requests do.        *)
EXTENDS AgentProtocol

VARIABLES asked,   \* asked[r]: the message of request r, or Missing
          answer   \* answer[r]: the reply of request r, or NoReply

svars == <<asked, answer>>

(* The token is taken from the current header, and from the legacy header   *)
(* only by a client that sends no current one.                              *)
MayAsk(m) == \/ m.primary = token
             \/ m.primary = Empty /\ m.legacy = token

IsQuery(m) == m.html \in Docs /\ m.query \in Queries

(* The answers a message may get.  A request that ran may also time out, or *)
(* find no thread to run on.                                                *)
Allowed(m) ==
  IF ~MayAsk(m) THEN {Unauthorized}
  ELSE IF ~IsQuery(m) THEN {BadRequest}
  ELSE IF m.html \in Unpreparable THEN {PrepareError(m.html)}
  ELSE {Answered(Outcome(m.html, m.query)), TimedOut, ServerError}

ServiceInit == /\ asked  = [r \in Requests |-> Missing]
               /\ answer = [r \in Requests |-> NoReply]

Ask(r) == /\ asked[r] = Missing
          /\ \E m \in Messages : asked' = [asked EXCEPT ![r] = m]
          /\ UNCHANGED answer

Answer(r) == /\ asked[r] # Missing
             /\ answer[r] = NoReply
             /\ \E a \in Allowed(asked[r]) : answer' = [answer EXCEPT ![r] = a]
             /\ UNCHANGED asked

ServiceNext == \E r \in Requests : Ask(r) \/ Answer(r)

ServiceSpec == ServiceInit /\ [][ServiceNext]_svars
=============================================================================
