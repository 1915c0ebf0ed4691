---------------------------- MODULE HelperAttempt ----------------------------
(***************************************************************************)
(* What an attempt of the helper promises, without artifacts, packs,        *)
(* planners or the order of bookkeeping steps: one query is under           *)
(* consideration; it is linted, then run, then judged, each on the verdict  *)
(* of the one before; a failed query is replaced by a repair of the model   *)
(* at most Repairs times; and only a query judged good is recommended.      *)
(***************************************************************************)
EXTENDS Naturals

CONSTANTS Query, NoQuery, Repairs

VARIABLES query, verdict, repairs, answer

avars == <<query, verdict, repairs, answer>>

Verdict == {"unchecked", "rejected", "clean", "ran", "unclear", "bad", "good"}

\* The answers of an attempt: none yet, the query under consideration
\* recommended, or no recommendation.
Answer == {"none", "recommended", "gave up"}

AInit ==
    /\ query \in Query \cup {NoQuery}
    /\ verdict = "unchecked"
    /\ repairs = 0
    /\ answer = "none"

\* The first query, when the request came with none.
Suggest ==
    /\ query = NoQuery
    /\ query' \in Query
    /\ UNCHANGED <<verdict, repairs, answer>>

\* A repair of a failed query, which may not come up with another one.
ARepair ==
    /\ query # NoQuery
    /\ verdict \in {"rejected", "bad"}
    /\ repairs < Repairs
    /\ repairs' = repairs + 1
    /\ \/ query' \in Query /\ verdict' = "unchecked"
       \/ UNCHANGED <<query, verdict>>
    /\ UNCHANGED answer

ALint ==
    /\ query # NoQuery
    /\ verdict = "unchecked"
    /\ verdict' \in {"clean", "rejected"}
    /\ UNCHANGED <<query, repairs, answer>>

Run ==
    /\ verdict = "clean"
    /\ verdict' = "ran"
    /\ UNCHANGED <<query, repairs, answer>>

Judge ==
    /\ verdict = "ran"
    /\ verdict' \in {"good", "bad", "unclear"}
    /\ UNCHANGED <<query, repairs, answer>>

\* The result cannot be judged without more detail: it is judged again.
LookCloser ==
    /\ verdict = "unclear"
    /\ verdict' = "ran"
    /\ UNCHANGED <<query, repairs, answer>>

Recommend ==
    /\ verdict = "good"
    /\ answer' = "recommended"
    /\ UNCHANGED <<query, verdict, repairs>>

GiveUp ==
    /\ answer' = "gave up"
    /\ UNCHANGED <<query, verdict, repairs>>

ANext ==
    /\ answer = "none"
    /\ \/ Suggest \/ ARepair \/ ALint \/ Run \/ Judge \/ LookCloser \/ Recommend \/ GiveUp

AttemptSpec == AInit /\ [][ANext]_avars
==============================================================================
