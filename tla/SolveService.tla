---------------------------- MODULE SolveService ----------------------------
(***************************************************************************)
(* POST /api/v1/solve: src/api/v1/solve.py, services/math_service.py, the  *)
(* repositories, cache/client.py and the get_db dependency, for several    *)
(* requests at once.                                                       *)
(*                                                                         *)
(* A handler is interrupted by others of its event loop only where it      *)
(* awaits, and by those of another worker process nowhere it would notice: *)
(* one action per await, named for the call awaited, with the code up to   *)
(* the next await in it.  Redis and PostgreSQL, which all workers share,   *)
(* execute each command atomically.  What may go wrong is switched on by Faults:        *)
(*   "redis"   a Redis call raises (CacheClient turns it into None/False)  *)
(*   "db"      a PostgreSQL call raises                                    *)
(*   "agent"   the agent graph raises, or its state does not fit the       *)
(*             response schema                                             *)
(*   "expiry"  a Redis key reaches its TTL or is evicted                   *)
(*   "crash"   API processes are killed with requests in flight            *)
(***************************************************************************)
EXTENDS Integers, Sequences, FiniteSets

CONSTANTS
    Requests,            \* the requests clients send
    Queries, SessionIds, \* the queries and session ids they may carry
    NoSession,           \* session_id omitted
    Normal,              \* query.strip().lower(), as a function on Queries
    Bodies,              \* the request bodies considered
    MalformedIds,        \* session ids uuid.UUID() rejects
    MaxMessages,         \* the literal 20 in _update_session
    MaxInFlight,         \* bound: requests handled at the same time
    Faults,              \* what may go wrong, see above
    EnforceForeignKeys,  \* TRUE for PostgreSQL, FALSE for the tests' SQLite
    MappersConfigured    \* whether SQLAlchemy can configure the ORM classes:
                         \* FALSE for models/session.py:38 as it stands, whose
                         \* back_populates names no attribute of Problem

ASSUME BodyAssumption ==
    /\ Bodies \subseteq [query : Queries,
                         session_id : SessionIds \union {NoSession},
                         show_steps : BOOLEAN]
    /\ SessionIds \intersect Requests = {} /\ NoSession \notin SessionIds
ASSUME MessageAssumption == MaxMessages \in Nat \ {0} /\ MaxMessages % 2 = 0
ASSUME FaultAssumption ==
    /\ Faults \subseteq {"redis", "db", "agent", "expiry", "crash"}
    /\ EnforceForeignKeys \in BOOLEAN /\ MappersConfigured \in BOOLEAN
ASSUME InFlightAssumption == MaxInFlight \in Nat \ {0}

VARIABLES
    body,       \* the body of each request
    pc,         \* the call each request awaits
    seen,       \* the history the request last read
    response,   \* the SolveResponse the request built, if it got there
    tx,         \* the request's open database transaction
    reply,      \* what the client got
    cache,      \* Redis: solve:<hash>
    sessions,   \* Redis: session:<id>; <<>> is an absent key
    problems,   \* PostgreSQL: committed problems rows, by request
    solutions   \* PostgreSQL: committed solutions rows, by request

requestVars == <<pc, seen, response, tx, reply>>
redisVars   == <<cache, sessions>>
dbVars      == <<problems, solutions>>
vars        == <<body, requestVars, redisVars, dbVars>>

(***************************************************************************)
(* Values.                                                                 *)
(***************************************************************************)
Sessions == SessionIds \union Requests

\* request.session_id or a new uuid, which is the request's own name here.
session_id(r) ==
    IF body[r].session_id = NoSession THEN r ELSE body[r].session_id

\* Faulty variant: the key does not depend on the query.
solve_cache_key_Constant(query) == <<"solve">>
solve_cache_key(query) == <<"solve", Normal[query]>>
CacheKeys == {solve_cache_key(query) : query \in Queries}

Message == [role : {"user", "assistant"}, by : Requests]
Exchange(r) == <<[role |-> "user", by |-> r], [role |-> "assistant", by |-> r]>>

\* history[-20:]
\* Faulty variant: one message is left for the next exchange.
KeepLast_OddCut(history) ==
    IF Len(history) > MaxMessages
    THEN SubSeq(history, Len(history) - MaxMessages + 2, Len(history))
    ELSE history
KeepLast(history) ==
    IF Len(history) > MaxMessages
    THEN SubSeq(history, Len(history) - MaxMessages + 1, Len(history))
    ELSE history

\* `by` stands for problem_id, created_at and the answer text, which are new
\* in every agent run.
Responses == [by : Requests, query : Queries, session_id : Sessions,
              steps : BOOLEAN, cache_hit : BOOLEAN]
NoResponse == [by |-> "nobody"]

NoReply == [status |-> 0, response |-> NoResponse]
CleanTx == [problem |-> FALSE, solution |-> FALSE, broken |-> FALSE]

\* A flush that raises deactivates the transaction: it can only be rolled back.
Broken(t) == [t EXCEPT !.broken = TRUE]

Labels == {"idle", "cache_get", "session_load", "session_row", "agent",
           "problem_flush", "solution_flush", "session_get", "session_set",
           "cache_set", "commit", "done", "lost"}
InFlight == {r \in Requests : pc[r] \notin {"idle", "done", "lost"}}

(***************************************************************************)
(* CacheClient.get and set: a call that raises reads as an absent key, or  *)
(* leaves the key alone.                                                   *)
(***************************************************************************)
Get(stored, absent) ==
    {stored} \union (IF "redis" \in Faults THEN {absent} ELSE {})
SetOutcomes == IF "redis" \in Faults THEN BOOLEAN ELSE {TRUE}

(***************************************************************************)
(* How a request moves on and how it ends.                                 *)
(***************************************************************************)
Awaits(r, call, next) ==
    /\ pc[r] = call
    /\ pc' = [pc EXCEPT ![r] = next]

\* solve raised: get_db rolls back and the client gets the status.
Refuse(r, call, status) ==
    /\ Awaits(r, call, "done")
    /\ reply' = [reply EXCEPT ![r] = [status |-> status, response |-> NoResponse]]
    /\ tx' = [tx EXCEPT ![r] = CleanTx]
    /\ UNCHANGED <<body, seen, response, redisVars, dbVars>>

Init ==
    /\ body \in [Requests -> Bodies]
    /\ pc = [r \in Requests |-> "idle"]
    /\ seen = [r \in Requests |-> <<>>]
    /\ response = [r \in Requests |-> NoResponse]
    /\ tx = [r \in Requests |-> CleanTx]
    /\ reply = [r \in Requests |-> NoReply]
    /\ cache = [key \in CacheKeys |-> NoResponse]
    /\ sessions = [s \in Sessions |-> <<>>]
    /\ problems = {} /\ solutions = {}

(***************************************************************************)
(* MathService.solve, call by call.                                        *)
(***************************************************************************)
Arrive(r) ==
    /\ Cardinality(InFlight) < MaxInFlight
    /\ Awaits(r, "idle", "cache_get")
    /\ UNCHANGED <<body, seen, response, tx, reply, redisVars, dbVars>>

\* Faulty variant: `if cached` is not tested.
CacheHit_Untested(r) ==
    LET stored == cache[solve_cache_key(body[r].query)] IN
    /\ Awaits(r, "cache_get", "done")
    /\ reply' = [reply EXCEPT ![r] = [status |-> 200, response |-> stored]]
    /\ UNCHANGED <<body, seen, response, tx, redisVars, dbVars>>
\* A hit returns the stored response; nothing else is read or written.
CacheHit(r) ==
    LET stored == cache[solve_cache_key(body[r].query)] IN
    /\ Awaits(r, "cache_get", "done")
    /\ stored # NoResponse
    /\ reply' = [reply EXCEPT ![r] =
                    [status |-> 200,
                     response |-> [stored EXCEPT !.cache_hit = TRUE]]]
    /\ UNCHANGED <<body, seen, response, tx, redisVars, dbVars>>

CacheMiss(r) ==
    /\ NoResponse \in Get(cache[solve_cache_key(body[r].query)], NoResponse)
    /\ Awaits(r, "cache_get", "session_load")
    /\ UNCHANGED <<body, seen, response, tx, reply, redisVars, dbVars>>

\* _load_session, first Redis, then PostgreSQL.
\* Faulty variant: a missing history sends the request back to the start.
LoadSession_StartsOver(r) ==
    /\ seen' \in {[seen EXCEPT ![r] = history] :
                     history \in Get(sessions[session_id(r)], <<>>)}
    /\ Awaits(r, "session_load",
              IF seen'[r] = <<>> THEN "cache_get" ELSE "agent")
    /\ UNCHANGED <<body, response, tx, reply, redisVars, dbVars>>
LoadSession(r) ==
    /\ seen' \in {[seen EXCEPT ![r] = history] :
                     history \in Get(sessions[session_id(r)], <<>>)}
    /\ Awaits(r, "session_load",
              IF seen'[r] = <<>> THEN "session_row" ELSE "agent")
    /\ UNCHANGED <<body, response, tx, reply, redisVars, dbVars>>

\* No code calls SessionRepository.create_or_update, so there is no row.
LoadSessionRow(r) ==
    /\ MappersConfigured /\ session_id(r) \notin MalformedIds
    /\ Awaits(r, "session_row", "agent")
    /\ UNCHANGED <<body, seen, response, tx, reply, redisVars, dbVars>>

LoadSessionRowFails(r) ==
    /\ \/ ~MappersConfigured
       \/ session_id(r) \in MalformedIds
       \/ "db" \in Faults
    /\ Refuse(r, "session_row", 500)

\* The agent answers and its state fits SolutionStep and SolveResponse.
AgentAnswers(r) ==
    /\ Awaits(r, "agent", "problem_flush")
    /\ response' = [response EXCEPT ![r] =
                       [by |-> r, query |-> body[r].query,
                        session_id |-> session_id(r),
                        steps |-> body[r].show_steps, cache_hit |-> FALSE]]
    /\ UNCHANGED <<body, seen, tx, reply, redisVars, dbVars>>

\* The agent raises (504), or the response does not validate (500).
AgentFails(r) ==
    /\ "agent" \in Faults
    /\ \E status \in {500, 504} : Refuse(r, "agent", status)

\* _persist.  Every problem names a session of which there is no row.  (An id
\* that is no UUID gets no further than its lookup and has no history.)
FlushProblem(r) ==
    /\ ~EnforceForeignKeys
    /\ Awaits(r, "problem_flush", "solution_flush")
    /\ tx' = [tx EXCEPT ![r].problem = TRUE]
    /\ UNCHANGED <<body, seen, response, reply, redisVars, dbVars>>

FlushProblemFails(r) ==
    /\ EnforceForeignKeys \/ "db" \in Faults
    /\ Awaits(r, "problem_flush", "session_get")
    /\ tx' = [tx EXCEPT ![r] = Broken(@)]
    /\ UNCHANGED <<body, seen, response, reply, redisVars, dbVars>>

FlushSolution(r) ==
    /\ Awaits(r, "solution_flush", "session_get")
    /\ tx' = [tx EXCEPT ![r].solution = TRUE]
    /\ UNCHANGED <<body, seen, response, reply, redisVars, dbVars>>

\* Faulty variant: the insert has a savepoint of its own, so that its failure
\* leaves the transaction usable.
FlushSolutionFails_InSavepoint(r) ==
    /\ "db" \in Faults
    /\ Awaits(r, "solution_flush", "session_get")
    /\ UNCHANGED <<body, seen, response, tx, reply, redisVars, dbVars>>
FlushSolutionFails(r) ==
    /\ "db" \in Faults
    /\ Awaits(r, "solution_flush", "session_get")
    /\ tx' = [tx EXCEPT ![r] = Broken(@)]
    /\ UNCHANGED <<body, seen, response, reply, redisVars, dbVars>>

\* _update_session: a read and, one await later, a write of the whole list.
ReadSession(r) ==
    /\ seen' \in {[seen EXCEPT ![r] = history] :
                     history \in Get(sessions[session_id(r)], <<>>)}
    /\ Awaits(r, "session_get", "session_set")
    /\ UNCHANGED <<body, response, tx, reply, redisVars, dbVars>>

WriteSession(r) ==
    /\ Awaits(r, "session_set", "cache_set")
    /\ \E written \in SetOutcomes :
        sessions' = IF written
                    THEN [sessions EXCEPT ![session_id(r)] =
                             KeepLast(seen[r] \o Exchange(r))]
                    ELSE sessions
    /\ UNCHANGED <<body, seen, response, tx, reply, cache, dbVars>>

WriteCache(r) ==
    /\ Awaits(r, "cache_set", "commit")
    /\ \E written \in SetOutcomes :
        cache' = IF written
                 THEN [cache EXCEPT ![solve_cache_key(body[r].query)] = response[r]]
                 ELSE cache
    /\ UNCHANGED <<body, seen, response, tx, reply, sessions, dbVars>>

(***************************************************************************)
(* get_db after the handler has returned.                                  *)
(***************************************************************************)
Rows(r) ==
    /\ problems'  = IF tx[r].problem  THEN problems \union {r}  ELSE problems
    /\ solutions' = IF tx[r].solution THEN solutions \union {r} ELSE solutions

Answered(r) == [status |-> 200, response |-> response[r]]
Error500 == [status |-> 500, response |-> NoResponse]

\* FastAPI sends the response when get_db is done, or from 0.118 on before it
\* goes on to the commit (requirements: >= 0.111).
AnswerFirst(r) ==
    /\ Awaits(r, "commit", "commit")
    /\ reply[r] = NoReply
    /\ reply' = [reply EXCEPT ![r] = Answered(r)]
    /\ UNCHANGED <<body, seen, response, tx, redisVars, dbVars>>

\* get_db is done, and the client gets the answer if it has none yet.
Ends(r, answer) ==
    /\ Awaits(r, "commit", "done")
    /\ reply' = [reply EXCEPT ![r] = IF @ = NoReply THEN answer ELSE @]
    /\ tx' = [tx EXCEPT ![r] = CleanTx]
    /\ UNCHANGED <<body, seen, response, redisVars>>

Commit(r) ==
    /\ ~tx[r].broken
    /\ Rows(r)
    /\ Ends(r, Answered(r))

\* The commit raises: on a deactivated transaction, or because PostgreSQL
\* fails before or after it has made the rows durable.
CommitFails(r) ==
    /\ \/ tx[r].broken /\ UNCHANGED dbVars
       \/ ~tx[r].broken /\ "db" \in Faults /\ (Rows(r) \/ UNCHANGED dbVars)
    /\ Ends(r, Error500)

(***************************************************************************)
(* The environment.                                                        *)
(***************************************************************************)
ExpireCache(key) ==
    /\ "expiry" \in Faults
    /\ cache[key] # NoResponse
    /\ cache' = [cache EXCEPT ![key] = NoResponse]
    /\ UNCHANGED <<body, requestVars, sessions, dbVars>>

ExpireSession(s) ==
    /\ "expiry" \in Faults
    /\ sessions[s] # <<>>
    /\ sessions' = [sessions EXCEPT ![s] = <<>>]
    /\ UNCHANGED <<body, requestVars, cache, dbVars>>

\* The requests of one worker process, or of all, are lost.  PostgreSQL rolls
\* back the transactions of the connections it loses.
Crash(lost) ==
    /\ "crash" \in Faults
    /\ lost # {}
    /\ pc' = [r \in Requests |-> IF r \in lost THEN "lost" ELSE pc[r]]
    /\ tx' = [r \in Requests |-> IF r \in lost THEN CleanTx ELSE tx[r]]
    /\ UNCHANGED <<body, seen, response, reply, redisVars, dbVars>>

Handle(r) ==
    \/ CacheHit(r) \/ CacheMiss(r)
    \/ LoadSession(r) \/ LoadSessionRow(r) \/ LoadSessionRowFails(r)
    \/ AgentAnswers(r) \/ AgentFails(r)
    \/ FlushProblem(r) \/ FlushProblemFails(r)
    \/ FlushSolution(r) \/ FlushSolutionFails(r)
    \/ ReadSession(r) \/ WriteSession(r) \/ WriteCache(r)
    \/ AnswerFirst(r) \/ Commit(r) \/ CommitFails(r)

Idle == (\A r \in Requests : pc[r] \in {"done", "lost"}) /\ UNCHANGED vars

Next ==
    \/ \E r \in Requests : Arrive(r) \/ Handle(r)
    \/ \E key \in CacheKeys : ExpireCache(key)
    \/ \E s \in Sessions : ExpireSession(s)
    \/ \E lost \in SUBSET InFlight : Crash(lost)
    \/ Idle

\* No step is certain: ChatGroq, asyncpg and Redis are called without a time
\* limit, and a Wikipedia search of any agent run holds its worker's loop.
Spec == Init /\ [][Next]_vars

-----------------------------------------------------------------------------
(***************************************************************************)
(* Properties.                                                             *)
(***************************************************************************)
Refused == [status : {500, 504}, response : {NoResponse}]

\* The state of the requests, of Redis and of the database is well typed.
TypeOK ==
    /\ body \in [Requests -> Bodies]
    /\ pc \in [Requests -> Labels]
    /\ seen \in [Requests -> Seq(Message)]
    /\ response \in [Requests -> Responses \union {NoResponse}]
    /\ tx \in [Requests -> [problem : BOOLEAN, solution : BOOLEAN,
                            broken : BOOLEAN]]
    /\ reply \in [Requests -> {NoReply} \union Refused
                              \union [status : {200}, response : Responses]]
    /\ cache \in [CacheKeys -> Responses \union {NoResponse}]
    /\ sessions \in [Sessions -> Seq(Message)]
    /\ problems \subseteq Requests /\ solutions \subseteq Requests

\* docs/architecture/overview.md:27 -- a solution is saved completely or not
\* at all: whatever flush or commit fails and whenever the process dies, a
\* problem row never stays without its solution row, and only answered
\* requests have rows (_persist swallows the errors of both inserts).
SavedCompletelyOrNotAtAll ==
    /\ problems = solutions
    /\ \A r \in problems : response[r] # NoResponse

\* The history of a session is a list of whole exchanges of that session, each
\* at most once, never longer than the limit, however concurrent requests and
\* the cut to the last 20 messages interleave (_update_session).
HistoriesAreExchanges ==
    \A s \in Sessions :
        LET history == sessions[s] IN
        /\ Len(history) <= MaxMessages
        /\ \A i \in 1 .. Len(history) :
            /\ session_id(history[i].by) = s
            /\ history[i].role = (IF i % 2 = 1 THEN "user" ELSE "assistant")
            /\ i % 2 = 1 => i < Len(history) /\ history[i + 1].by = history[i].by
            /\ \A j \in 1 .. Len(history) :
                history[i] = history[j] => i = j

\* math_service.py:168 "Appends this exchange to the session history": a write
\* of a history only adds one exchange at its end (and drops the oldest ones).
AppendsThisExchange ==
    [][\A s \in Sessions :
        sessions'[s] \notin {sessions[s], <<>>} =>
            \E r \in Requests :
                sessions'[s] = KeepLast(sessions[s] \o Exchange(r))]_vars

\* A request whose own calls return is answered or refused, unless its process
\* dies: no failure it swallows (math_service.py:126) leaves it unanswered,
\* and no other request, held for good or not, is waited for.  Without a time
\* limit around the agent (math_service.py:94) no more can be said.
CallsReturn(r) == WF_vars(Handle(r))
EveryRequestEnds ==
    \A r \in Requests :
        CallsReturn(r) => (pc[r] = "cache_get" ~> pc[r] \in {"done", "lost"})

\* Clients see the contract: with the cache between them, a reply is still an
\* answer that was computed for the same problem, and it never changes.
asked    == [r \in Requests |-> Normal[body[r].query]]
computed == {r \in Requests : response[r] # NoResponse}
Outcome(answer) == CASE answer.status = 0   -> "none"
                     [] answer.status = 200 -> answer.response.by
                     [] OTHER               -> "refused"
replied  == [r \in Requests |->
                IF pc[r] = "lost" /\ reply[r] = NoReply THEN "lost"
                ELSE Outcome(reply[r])]
Promise == INSTANCE SolveContract
             WITH Problems <- {Normal[query] : query \in Queries}
ImplementsContract == Promise!Contract

(***************************************************************************)
(* What docs, comments and tests say and the code does not do.             *)
(***************************************************************************)
\* math_service.py:6 "4. Persist result to PostgreSQL": a request answered by
\* its own agent run has its problem and solution in the database when it ends.
AnswersAreSaved ==
    \A r \in Requests :
        pc[r] \in {"done", "lost"} /\ reply[r].status = 200 /\ reply[r].response.by = r
            => r \in solutions

\* schemas/solve.py:32 "Pass an existing session_id to continue a
\* conversation" and :35 "Include step-by-step solution breakdown": what is
\* replied belongs to the session of the request and has the steps it asked for.
HitFitsTheRequest ==
    \A r \in Requests :
        reply[r].status = 200 =>
            /\ body[r].session_id # NoSession =>
                   reply[r].response.session_id = session_id(r)
            /\ body[r].show_steps => reply[r].response.steps

\* tests/e2e/test_solve_flow.py:64 expects 200 when the agent answers.
NoInternalError == \A r \in Requests : reply[r].status # 500
=============================================================================
