--------------------------- MODULE AgentProtocol ---------------------------
(* What a client of the browser agent (browser_plugin/agent/src/main.cpp)   *)
(* sends to POST /v1/query and what it can be answered.  A snapshot's HTML, *)
(* a query and a token are abstract values; the rows a query yields are the *)
(* pair <<html, query>> they were computed from, which is all a property    *)
(* about the cache and the worker threads has to tell apart.                *)
EXTENDS Naturals

CONSTANTS
  Requests,      \* identities of the POST requests
  Docs,          \* HTML snapshots
  Queries,       \* non-empty query texts
  Tokens,        \* non-empty header values
  token,         \* the token the agent resolved at startup
  Missing,       \* absent body field, or one of another type
  Empty,         \* an empty header value or query
  Messages,      \* the requests that clients may send
  Unpreparable,  \* snapshots for which prepare_document throws
  Failing        \* pairs <<html, query>> whose execution throws

Message == [primary : Tokens \cup {Empty},      \* X-MarkQL-Token
            legacy  : Tokens \cup {Empty},      \* X-XSQL-Token
            html    : Docs \cup {Missing},
            query   : Queries \cup {Missing, Empty}]

ASSUME ProtocolAssumption ==
  /\ token \in Tokens
  /\ Empty \notin Tokens
  /\ Missing \notin Docs
  /\ Missing \notin Queries /\ Empty \notin Queries
  /\ Messages \subseteq Message /\ Missing \notin Messages
  /\ Unpreparable \subseteq Docs
  /\ Failing \subseteq Docs \X Queries

(* The outcome of running a query over a prepared document: rows, or the    *)
(* text of the exception it threw.                                          *)
Outcome(html, query) == [ok |-> <<html, query>> \notin Failing,
                         of |-> <<html, query>>]

NoReply      == [status |-> 0,   code |-> "none",         of |-> <<>>]
Unauthorized == [status |-> 401, code |-> "UNAUTHORIZED", of |-> <<>>]
BadRequest   == [status |-> 400, code |-> "BAD_REQUEST",  of |-> <<>>]
PrepareError(html) == [status |-> 200, code |-> "QUERY_ERROR", of |-> <<html>>]
TimedOut     == [status |-> 408, code |-> "TIMEOUT",      of |-> <<>>]
ServerError  == [status |-> 500, code |-> "none",         of |-> <<>>]
Answered(outcome) == [status |-> 200,
                      code   |-> IF outcome.ok THEN "OK" ELSE "QUERY_ERROR",
                      of     |-> outcome.of]
=============================================================================
