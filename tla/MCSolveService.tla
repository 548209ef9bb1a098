--------------------------- MODULE MCSolveService ---------------------------
(***************************************************************************)
(* Instances of SolveService for TLC: two spellings of one query and a     *)
(* second query, one session that several requests may continue, requests  *)
(* without a session, with and without steps.                              *)
(***************************************************************************)
EXTENDS SolveService

CONSTANTS r1, r2, r3, s1, integral, Integral, derivative

MCQueries    == {integral, Integral, derivative}
MCSessionIds == {s1, "not a uuid"}
MCNormal     == [query \in MCQueries |->
                    IF query = Integral THEN integral ELSE query]

Body(query, session, steps) ==
    [query |-> query, session_id |-> session, show_steps |-> steps]

\* Conversations in s1 with fresh sessions beside them.
MCBodies == {Body(integral, s1, TRUE), Body(derivative, s1, TRUE),
             Body(Integral, NoSession, FALSE)}
\* As above, with a session id that is no uuid.
MCBodiesMalformed == MCBodies \union {Body(derivative, "not a uuid", TRUE)}
\* One session, and queries that do not hit the cache.
MCBodiesOneSession == {Body(integral, s1, TRUE), Body(derivative, s1, TRUE)}

MCMalformedIds == {"not a uuid"}
AllFaults   == {"redis", "db", "agent", "expiry", "crash"}
NoFaults    == {}
=============================================================================
