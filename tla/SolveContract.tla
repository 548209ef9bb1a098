--------------------------- MODULE SolveContract ---------------------------
(***************************************************************************)
(* What POST /api/v1/solve promises its clients, whatever is cached, lost  *)
(* or retried behind it: every request gets at most one reply, a reply is  *)
(* either a refusal or an answer that some request computed for the same   *)
(* problem, a request computes at most one answer, and what was computed   *)
(* or replied is never changed afterwards.                                 *)
(***************************************************************************)
CONSTANTS
    Requests,   \* the requests clients send
    Problems    \* the problems the service tells apart

VARIABLES
    asked,      \* the problem each request asks
    computed,   \* the requests that computed an answer to their problem
    replied     \* per request: "none", "refused", "lost" or the request
                \* whose answer it was sent

contractVars == <<asked, computed, replied>>

ContractInit ==
    /\ asked \in [Requests -> Problems]
    /\ computed = {}
    /\ replied = [r \in Requests |-> "none"]

Compute(r) ==
    /\ replied[r] = "none" /\ r \notin computed
    /\ computed' = computed \union {r}
    /\ UNCHANGED <<asked, replied>>

Answer(r) ==
    /\ replied[r] = "none"
    /\ \E source \in computed :
        /\ asked[source] = asked[r]
        /\ replied' = [replied EXCEPT ![r] = source]
    /\ UNCHANGED <<asked, computed>>

Refuse(r) ==
    /\ replied[r] = "none"
    /\ replied' = [replied EXCEPT ![r] = "refused"]
    /\ UNCHANGED <<asked, computed>>

\* A crash ends requests without a reply.
Crash ==
    /\ \E lost \in SUBSET {r \in Requests : replied[r] = "none"} :
        replied' = [r \in Requests |-> IF r \in lost THEN "lost" ELSE replied[r]]
    /\ UNCHANGED <<asked, computed>>

ContractNext ==
    \/ \E r \in Requests : Compute(r) \/ Answer(r) \/ Refuse(r)
    \/ Crash

Contract == ContractInit /\ [][ContractNext]_contractVars
=============================================================================
