# MathBot in TLA+

MathBot answers math problems over HTTP: FastAPI, a LangGraph agent that calls
an LLM and tools, Redis for caching and conversation history, PostgreSQL for
results, Celery for background jobs. This directory holds TLA+ models of its
core, the TLC runs that check them and TLAPS proofs about them. Paths are
relative to `src/`.

## Inventory

| part | state | operations | what is hard | correct when |
|---|---|---|---|---|
| **Agent graph** `agents/` | `AgentState`, one per run; LangGraph's position and superstep | five nodes, one conditional edge; each LLM call answers or raises | the retry loop, fields left over from an earlier attempt, the superstep limit | it stops only when confident or out of retries, ships one attempt's data with its score, and answers unless a call never returns |
| **Solve service** `api/v1/solve.py`, `services/math_service.py` | per request: place, history read, response | cache lookup, history, agent, two inserts, history update, cache write, commit | requests interleave at every await; swallowed errors; crash in the middle | one reply, for the problem asked; rows in pairs; histories of whole exchanges |
| **Redis client** `cache/` | `solve:<hash>`, `session:<id>`, `rate:...` keys with TTL | get, set, increment | failures read as absent keys; INCR and EXPIRE are two commands | a failing Redis costs speed, never a wrong answer |
| **Persistence** `database/`, `repositories/`, `models/` | tables users, sessions, problems, solutions; one transaction per request | flush, commit, rollback | a failed flush kills the transaction but not the request; foreign keys; ORM mapper set-up | committed rows are complete |
| **Tools, sandbox** `tools/` | child process | run code with a deadline; Wikipedia; LLM code generation | timeout against late answer, error strings reported as results, a blocking call, calls abandoned by a time limit | a call ends by its deadline and takes its child along; its outcome is recorded as what it was |
| **Celery tasks** `workflows/` | queued, running and finished tasks, retry counters | solve task, OCR task | retries, soft and hard time limits, worker death | a task ends in a result or a recorded failure |
| **Rate limiter** `api/middleware/rate_limit.py` | a counter per user and route | count and refuse | a counter without expiry, window boundaries, never wired to a user id | less than twice the limit in any window's length; recovers |
| **Accounts** `api/v1/auth.py`, `core/security.py`, `api/middleware/auth.py` | users, tokens | register, login, authenticate | check-then-insert | one account per email and per username; tokens name accounts |
| **OCR** `services/ocr_service.py` | lazily loaded model | two extractors, fallback | failures of either | the confidence fits the extractor that answered |
| **Wiring, prompts, config, logging, metrics, migrations, deployment** | none the program reads | | | |

Interaction: `POST /solve` authenticates, opens a database session
(`get_db`), and runs `MathService.solve`, which reads Redis, runs the compiled
graph to its end with `ainvoke`, writes database and Redis, and returns; the
commit follows when the handler is done. The Celery solve task runs the same
graph without the service around it. Requests share Redis, PostgreSQL with its
pool of connections, the executor's threads and the event loop, nothing else.

## Plan

1. **AgentGraph**, **AgentContract** and proofs: the core loop. *Done.*
2. **SolveService**, **SolveContract** and proofs: concurrent requests, faults. *Done.*
3. **ToolsNode** and proofs: the tool calls, the sandbox's children and their
   deadlines on one event loop. *Done.*
4. **Jobs**, **JobContract** and proofs: both Celery tasks with retries, time
   limits and worker death. *Done.*
5. Proofs of `HistoriesAreExchanges` (SolveService), `OneAttempt` and
   `ScoreIsOfTheAnswer` (AgentGraph); theorems that say when the documented
   statements the violation runs refute are true. *Done.*
6. **ToolCalls**: ToolsNode shown to implement the tool outcomes `RunTools` of
   AgentGraph. *Done.*
7. **RateLimit**: `CacheClient.increment` by several requests, with expiry,
   Redis failures and crashes between INCR and EXPIRE. *Done.*
8. **Accounts**: concurrent registration against the unique columns, and the
   connection pool that solves hold across the agent run. *Done.*
9. **Ocr**: uploads, two extractors, the executor's threads. *Done.*
10. **Api**: limiter, accounts and OCR composed, with authentication between
    them, and proofs about the composition. *Done.*

## Modules

**AgentGraph** models one run of `build_math_graph()`. `recursion_limit`, `node`,
`step` and `status` are LangGraph's loop; every other variable but `verdicts` has the name
of its `AgentState` field. One action per node and way to end it: `RouterAnswers` /
`RouterFails` (fallback to all tools), `Tools`, `ReasonerAnswers` /
`ReasonerFails`, `VerifierAnswers` / `VerifierFails`, `Assembler`. The edge
after the verifier is part of the verifier's action, as LangGraph evaluates it
in the same superstep. `Finish` and `OutOfSteps` are the loop's two ends.
A text is represented by the attempt that wrote it and its kind, so that a field
left over from an earlier attempt shows; scores are percentages.
`selected_tools` is a set: order and repetitions of the model's list do not
reach anything the properties are about. `verdicts` is a history variable.

LangGraph is outside the repository. What is modelled of it: superstep 0 writes
the input, each node is one superstep, and after each the loop tests
`step > recursion_limit` *before* it notices there is nothing left to do, so n
node executions need a limit of at least n + 1.

**AgentContract** is what the two callers rely on: attempts with scores, another
only while none was good enough, then one answer, or an exception.

**SolveService** models `POST /api/v1/solve` for a set of requests. Handlers of one
worker process share its event loop, and processes share nothing but Redis and PostgreSQL, so
code between two awaits is atomic; there is one action
per awaited call (`pc` names the call), containing the code up to the next. A
failing call has an action of its own (`...Fails`) or, for Redis, is an outcome
of `Get` and `SetOutcomes`, because `CacheClient` swallows it.

| state | code |
|---|---|
| `body` | `SolveRequest` |
| `seen` | `session_history`, then `cached` in `_update_session` |
| `response`, `reply` | the `SolveResponse` built; what the client received |
| `tx` | the flushed inserts of the request's transaction; `broken` after a failed flush |
| `cache`, `sessions` | Redis |
| `problems`, `solutions` | committed rows |

A response is reduced to who computed it (`by`: `problem_id`, `created_at` and
the answer text are new in every agent run), session, steps and query. The agent
is a call that answers or raises; that this is all a caller can see of it
is what AgentContract and its proof say. Two constants describe the
environment: `EnforceForeignKeys` (TRUE on PostgreSQL, FALSE on the tests'
SQLite) and `MappersConfigured` (FALSE with `models/session.py` as it stands).
The passing run takes FALSE and TRUE, which is what the code intends and not the
repository as it stands (the tests import the same `models/session.py`), so that what lies
behind the two faults is exercised; failed flushes, which is
what the foreign key amounts to, occur in it as a fault too. The theorems
hold for every value of both.

Outside the repository: Redis and PostgreSQL execute single commands
atomically; PostgreSQL rolls back the transactions of lost connections; a
commit may raise before or after the rows are durable; SQLAlchemy refuses to
commit after a failed flush; FastAPI finishes `get_db` before it
sends the response up to version 0.117 and afterwards from 0.118 on, and
`requirements.txt` allows both. So the client may have its answer before the commit
(`AnswerFirst`), and the commit may then still fail or be cut off by a crash.

**SolveContract** is what a client may rely on: at most one reply, either
a refusal or an answer computed for the same problem, and nothing computed or
replied changes later. "The same problem" is what the cache key says: equal after
`strip().lower()`.

**ToolsNode** models `run_tool` for a set of calls, with the three tools and
`execute_sandboxed`. A call is at one of its awaits (`pc`); the code from one
await to the next is one action, and needs the event loop, which is taken
only by `Search`: `run_wikipedia` is declared async but its HTTP request does not
await, so from `Search` to `SearchReturns` no other call moves, although
children exit and deadlines pass meanwhile. `RunOf` groups the calls by agent run, and
`Abandon` gives up the unfinished calls of a run at any of their awaits: Celery's soft limit is raised
out of `run_until_complete` (`solve_tasks.py:39`, caught at 47) and the loop never resumed, or the awaiting
task is cancelled, and `execute_sandboxed` catches no `CancelledError`. Nothing kills the children then,
unless asyncio collects the transport and does (`Collected`). `child` and `output` are the process
and what it printed, by what the parent makes of it; `due` the
`wait_for` deadline, armed one stretch after the child is started; `result` the
dict. asyncio does not say which of an exit and a deadline it notices
first when both wait for the loop, so both are possible. A resource limit that kills the child,
and a syntax error in the generated code, leave nothing on stdout.

**Jobs** models both Celery tasks from `delay()` to the state the client polls.
`message` and `retries` are the message with its retry count, `state` the result
backend, `running` the pool (two processes, `Dockerfile.worker`), `soft` the
soft limit's signal, `runs` and `faults` count. What the repository
decides is the limits, `max_retries`, early acknowledgement, and that the tasks
catch every `Exception` and call `self.retry(exc=exc)`; what follows from it is
Celery's: a process accepts the job and its message is acknowledged (`Begin`), and only later the
process stores STARTED (`Starts`); a retry is a new message
with a greater count; with `exc` given, exhausted retries raise `exc` itself, so
`except self.MaxRetriesExceededError` in `ocr_tasks.py:42` is never reached and an OCR job
that fails does not return its fallback; the hard limit fails a job without a
retry; a dead pool process is reported as failed; when the worker itself
dies, its runs are lost in the state they had: STARTED, or PENDING or RETRY if `Starts` was still to come;
and a retry the broker does not take is rejected, which leaves STARTED. `SoftTimeLimitExceeded` is an `Exception`: in a solve it may be caught
by a node of the agent instead of the task, so a run may go on
after it. Steps of a few instructions inside Celery are one action: the acceptance of a job and the
acknowledgement of its message, a retry's message and its state, a result and the kill of its process.
Results stay in the backend; Celery's expiry of them after a day is left out.

**JobContract** is what the client that polls a job may rely on: STARTED stands for one
run, RETRY for a run that is still allowed, and SUCCESS or FAILURE is told once. It sees
only `state` and `runs`; messages, processes and limits are Jobs's own.

**Api** models the API's worker processes and composes three components that share
their requests: `Api` extends `RateLimit`, `Accounts` and `Ocr`, which all extend
`ApiRequests` and so use one `pc` and one `reply`. Each component has its own
variables and its actions name those and the shared ones; `InLimiter`,
`InAccounts` and `InOcr` leave those of the others unchanged. A request passes from one
component to the next by its `pc`: limiter (`limit`, `expire`), `get_current_user`
(`auth`), then its endpoint (`find`, `insert`, `agent`, `commit` on a
database session; `extract` for an upload). Solves take part as users of the
limiter, the tokens and the pool; what else they do is SolveService.

| state | code |
|---|---|
| `body`, `reply` | the requests and what their clients got; a token is named by the request whose reply carried it |
| `count`, `armed` | Redis: the counters `rate:<user>:<route>`, and which of them have a TTL |
| `passed`, `before` | history: requests of a user let through in the present life of their counter, and in its last |
| `users`, `inserted` | the committed rows of `users`, and those of open transactions |
| `response` | what a handler returned, to be sent after the commit or before it |
| `model`, `found` | `_latex_model`; where each extractor of an upload stands |
| `expired` | the tokens past their `exp` |

The image starts two workers (`Dockerfile.api:44`). They share Redis and PostgreSQL; each
has its own pool, executor and model, so a request's body names the worker that accepts it,
`Connected` and `Busy` look at the requests of one worker only, and `Crash` takes some
workers down and leaves the others. A token is valid in all of them (one `SECRET_KEY`).

*RateLimit* has one action for each Redis command of `increment` and one for
each way it can fail: `dispatch` lets a request through when Redis raises, also if the command
was executed. `LimiterWired` is FALSE for the application as it stands: `dispatch`
looks for `request.state.user_id` and `request.app.state.redis`, which nothing sets, so
every request passes uncounted (`Unlimited`); `api_unwired` is this case.
`api_clients` takes it to be TRUE, so that the limiter's own code is exercised; the theorems hold for
both values, but for `LimitsHold`, which needs TRUE. The window is fixed, not sliding: it starts with the
first request after an expiry, so `LessThanTwiceTheLimit` adds what two successive lives of a counter let through, less the
older one's first request, which has left the window when the second begins.

*Accounts* models PostgreSQL as far as the code depends on it: statements see
committed rows; an insert that clashes with a row of an open transaction waits for
that transaction to end, and then fails or goes on (`Insert`, `InsertFails`). An account is
named by the registration that made it, and its row is that request's body. `PoolSize` is
`DATABASE_POOL_SIZE + DATABASE_MAX_OVERFLOW`: a request without a connection waits, or
gives up after SQLAlchemy's 30 seconds (`PoolTimesOut`). The reply can leave before the
commit (`AnswerFirst`), for the reason given under SolveService. `MappersConfigured` is the
constant of SolveService: with FALSE every ORM query fails.

*Ocr* has the two extractors of an upload in the threads of the loop's default
executor: queued, running, then a text, a blank one, or raised. `StartExtractors` is
the synchronous part of `gather`: it loads the model, which may raise (with
`return_exceptions=True` this is one extractor's result), and finds pytesseract missing,
which is a blank result without a thread. A thread that is at work when the worker
dies goes with it.

**ToolCalls** is what the agent takes its tools for: each call gives one outcome,
once, or none if its run is given up, and an unknown tool fails. ToolsNode implements it; once all calls have
given theirs, the outcomes are one of the functions AgentGraph's `RunTools` chooses from.

## Runs

| run | bounds | shows |
|---|---|---|
| `agent_callers` | limits 8 (API) and 25 (Celery), cap 2, threshold 80, scores 40, 79, 80, 120 and the fixed 50, two registered tools and one unknown | one attempt's data is shipped with its score, exceptions come only from a limit without room, every run ends unless a call of it never returns, and the contract |
| `agent_api_limit` | limit 8 | *violated*: with the API's limit, a run with a retry raises instead of sending what it has |
| `solve_concurrent` | 2 requests at once, histories cut at 2 messages, all faults | rows in pairs, whole exchanges, every request whose own calls return ends, contract |
| `solve_lost_update` | 2 requests at once, no fault | *violated*: an exchange is lost |
| `solve_postgres` | foreign keys enforced, one request at a time, no fault | *violated*: an answer is replied but not saved |
| `solve_hit` | one request at a time, no fault | *violated*: a hit carries another request's session and steps |
| `solve_mappers` | mappers not configured | *violated*: 500 on every cache miss |
| `tools_loop` | a calculator, a SymPy call, two searches, an unknown tool, in two agent runs | only the children of abandoned calls outlive them, values are printed values, every call ends unless its LLM call or a search never returns, and the calls implement ToolCalls |
| `tools_errors` | the same | *violated*: the text of an error is recorded as a success |
| `jobs_pool` | two solves and an OCR job, two processes, two faults | one run at a time and no more than allowed, final states, polled states that are true of the runs, no failure before its time, nothing lost but by a fault, every job becomes ready or is orphaned |
| `api_clients` | four requests in four scenarios (clashing registrations; solves of one user beside a login; uploads of one user with two tokens; uploads of two users), two workers with two connections and two threads each, limits 2 and 1, one fault | unique accounts, tokens of real accounts, less than twice the limit in a window's length, uploads answered from both extractors, a request whose own calls return ends unless an extractor hangs, windows end |
| `api_unwired` | the same scenarios, limiter not wired, no fault | *violated*: more requests than the limit get through |

Why the bounds are enough. A run of the agent makes at most two attempts, so
`agent_callers` is exhaustive in control and bounded only in data: the scores lie
just below, at and above the threshold, below the failure score and out of
range. Interference between requests is pairwise (a read of one around the write of
another), and the contract relates one request to the source of its
answer, so two requests reach every kind of interleaving; the cut at 2 messages
makes the second exchange of a session overflow. `MaxInFlight` bounds how many requests are
handled at a time; it is not in the code. Tool calls share nothing but the loop,
so one call of each kind meets every order of its own events, and the second search
takes the loop again after the first; two runs of several calls each let one go on while the other is given up. Two jobs fill the pool and the third has to wait,
with both `max_retries` among them, and two faults can strike one job twice or two jobs (`MaxFaults`).
In `api_clients` the four bodies of a scenario are what one question takes: two registrations that clash with a third in
email and in username, two solves that fill a worker's pool while others wait, two uploads of one user that fill
its threads and meet the limit. A second solve exceeds its limit of 1, a second upload meets
its limit of 2. The order of arrival and of everything else is free. The configured values (30 connections,
limits 20 and 5) differ only in how many requests it takes to reach them. The threshold is the configured 85,
which is also the confidence of pix2tex: the comparison is met at its boundary. One fault
can be any failing command, commit or query, or a crash.

Fairness. Almost nothing the program awaits has a time limit. `ChatGroq` and the database engine are
built without a timeout, so are the Redis client and the Wikipedia search, and `AGENT_TIMEOUT_SECONDS`
is enforced nowhere; the search even holds the event loop with every request on it. So no call is assumed to return where the code
does not see to it:

- *AgentGraph*: weak fairness of what is local, the assembler and the two ends of LangGraph's loop. Router,
  tools, reasoner and verifier may be held for good, and `AnswersUnlessHeld` says that nothing else
  keeps a run with room for its attempts from answering.
- *SolveService*: none. `EveryRequestEnds` is conditional: a request whose own calls return (`CallsReturn(r)`, weak
  fairness of `Handle(r)`) ends, whatever becomes of the others. Where a search holds the loop the condition is
  false for all requests of that worker, and nothing is claimed of them.
- *ToolsNode*: the clock is weakly fair, and so, strongly, are a call's steps on the free loop, because a search makes them
  wait and asyncio serves ready callbacks in order. Excepted is the wait for the LLM's code. Nothing is assumed of children,
  of Wikipedia, or of who gives runs up. `EndsUnlessHeld` names the two calls that can hold one.
- *Jobs*: the clocks of both limits are weakly fair and a queued message strongly (the queue is served in order, and
  processes become free only now and then); nothing is assumed of the runs, not even that they start.
- *Api*: free threads take queued work and TTLs that are set run out. `EveryRequestEnds` is conditional as in
  SolveService, and excepts uploads while an extractor of theirs, or all threads of their worker, run for ever,
  and inserts behind an open row they clash with. `WindowsEnd` excepts counters that a fault, or a request held between INCR and
  EXPIRE, leaves without a TTL. Nothing is assumed of extractors, arrivals, the expiry of tokens, or faults.

In both `EveryRequestEnds` a crash counts as an end.

## Proofs

The six `...Proofs` modules are checked by TLAPS for every value of
the constants that satisfies the named assumptions (retry cap and limit
positive, registry within the tool names; message limit positive and even; route limits, pool and
threads positive; tokens in a scenario come from registrations and logins). Every
invariant, action property and refinement that a passing run checks is a theorem. Further assumptions are
hypotheses of the theorem that needs them: `LimiterWired` of `LimitsHold`, because a limiter that is not wired limits
nothing, and those listed at the end of this section.

*AgentGraph.* `ConfidentOrExhausted` and `RaisesOnlyWithoutRoom` are not inductive: the
invariant `IInv` adds, for each node, how `step`, `retry_count` and the number
of verdicts relate (3 supersteps per attempt after the router) and that while the
loop continues every verdict so far was below the threshold. From it follow
`LeavesConfidentOrExhausted`, `RoomSuffices`, `BudgetSuffices` (limit >= 3 * RetryCap + 3; the API's 8 is
below the 9 this asks for RetryCap = 2) and `GraphImplementsContract`, in which the
verifier's action is the contract's `Attempt`, and all nodes but the
verifier are stutters.

`OneAttempt` and `ScoreIsOfTheAnswer` relate texts, steps and errors to the attempt they are
from. A text is stamped with the length of `verdicts` when it is written, which grows only at
the verifier, so "this attempt" is `Current`: one more than the verdicts at the verifier, as
many afterwards. Between a retry and the next reasoner the fields are those of the attempt before, so
both properties speak of the nodes behind the reasoner only. `OneAttempt` carries itself from there on; what the
answer is cannot be said without following the text that becomes it, and `AttemptInv` adds just that: an
apology at the verifier has its error from this attempt (`ReasonedInv`), behind the verifier
the verified solution is the reasoner's or a correction of it (`VerifiedInv`), and at the end the answer is one of
the two, or a request to rephrase what came back empty (`AnswerInv`). From it follow `FieldsAreCurrent` and `AnswerAndScoreAgree`.

*SolveService.* `IInv` says for each place of a request what its transaction
holds and whether its response exists; this is needed because a commit is
harmless only if the transaction has both rows or is broken. From it follow
`TypeCorrect` and `SavedCompletely`. For the contract two more invariants
are needed: a cached response was computed by a request with that very key
(`CacheInv`), and a request has no reply until it is done or committing (`ReplyInv`).
`ServiceImplementsContract` then maps `AgentAnswers` to `Compute`, `CacheHit` to
`Answer` with the source the cache names, the first of `AnswerFirst` and `Commit` to `Answer` with
itself, the failures to `Refuse` and `Crash` to the loss of those that had no reply; a commit after the answer was
sent is a stutter, whatever becomes of it.

*Histories* (HistoryProofs). `HistoriesAreExchanges` is about Redis, but `_update_session` writes back what it read
an await earlier, when other requests may have written in between. So the invariant
`HistoryInv` says the same of `seen`, what each request last read: both are lists of 2n messages that are n
exchanges of that session by n different requests (`IsHistory`). That no exchange is in a list twice needs
that a request is in nobody's list before it has written itself (`WrittenBefore`): a write appends
an exchange that cannot be there yet. The cut keeps whole exchanges
because it drops an even number of messages (`OldestDropped`, `KeepLastHistory`), which is where `MaxMessages`
even is used. Lists are described by their length and their positions, so no induction is needed. From
it follows `HistoriesAreWhole`, for any number of requests, any faults, and overlapping requests of one session,
which lose exchanges but never tear them.

*ToolsNode.* `IInv` gives, for each await of a call, where its child and its
result can be; since child and call move independently, a call that awaits goes
with a running and with an exited child, and the step that ends it decides; an abandoned call goes with
any of them. It implies `ChildrenEnd` (`OnlyAbandonedChildrenRunOn`) and `ValuesArePrinted` for any number of calls and runs, and `CallsImplementToolCalls`, in which
the steps that end a call are `Settle` and all others stutter.

*Jobs.* `IInv` follows the job's one token: in its message, in one process, or
gone, with the state that belongs to each, and `runs = retries` plus one when
the message is gone and STARTED is stored. It implies `NeverRunTwice`, and the
action properties `WaitingIsSafe` (`LostOnlyByFaults`: a token is lost only from a process and only by a fault, and never found again),
`ReadyStays` (nothing can reach a job that has no token) and `FailsLast`,
for any pool, any number of jobs and any bound on faults. In `JobsImplementContract` `Starts` is the contract's
`Start` (`Begin` stutters), a run that ends is `End` or `AskAgain`, and messages, limits, a worker's death and a
retry that is not sent are stutters; the contract's bound on runs is the count in `IInv`.

*Api.* The invariants build on one another. `TypeInv` comes first. `ToldInv` relates the place of a request to what it was
told: a request past the limiter or behind `auth` carries a token, one that was answered is
done or committing, one in `commit` has its response; so a user id can be read off the token wherever the
code does it. `RowsInv` says that rows, open or committed, are registrations that do not clash pairwise
(which is inductive because an insert waits for open rows too) and that a response names such a row. `CounterInv` ties
`passed` to `count`, bounds both lives of a counter by its limit where the limiter is wired, and ties the TTL to the counter or to the request about to set it. `FoundInv` says when an
upload's extractors can change, and that they cannot once it is answered. From them follow
the five safety invariants, for any number of requests, any scenario,
pool, threads, limits and faults.

*When the documented statements hold.* Seven runs refute what a doc, comment or test says. For five of
the statements a theorem names conditions under which they are true, so that run and theorem
together say what is missing:

| statement | violated in | proved by | if |
|---|---|---|---|
| `GiveUpSendsWhatWeHave` | `agent_api_limit` | `GivesUpWithRoom` | every caller's recursion limit is at least 3 * RetryCap + 3 |
| `AppendsThisExchange` | `solve_lost_update` | `SerialWritesAppend` | Redis neither fails nor expires, and no two requests of one session are in flight at once |
| | | `OneRequestAtATimeAppends` | the same, with one request in flight at a time |
| `AnswersAreSaved` | `solve_postgres` | `ReliableDatabaseSaves` | no failing statement, no enforced foreign key, no crash |
| `HitFitsTheRequest` | `solve_hit` | `HitsFitWhatTheKeyTells` | requests with the same normalised query agree in session and steps |
| `NoInternalError` | `solve_mappers` | `ReliableServiceHasNoErrors` | mappers configured, well-formed session ids, neither database nor agent fails |

The hypotheses are about constants of the modules or, for `OneAtATime`, about the schedule, and configurations satisfy them:
Celery's limit of 25, the tests' SQLite, a client that sends one request
of a session after the other. The crash is excluded in `ReliableDatabaseSaves` because of `AnswerFirst`; with FastAPI up to
0.117 it would not have to be. `FailedToolsAreErrors` has no such theorem: a failing tool is recorded as
a success in every configuration. Nor has `SlidingWindow`: a limiter that is wired gives `LessThanTwiceTheLimit` and no more.

*Statements the code does not keep that have no run of their own.* `math_agent.py:23` says that with "retries exhausted" the
graph is to "assemble best attempt", and `assembler_node.py:16` "Picks the best available answer": no earlier attempt is
kept, and of scores 79 and 40 the second is shipped with its answer. `ConfidentOrExhausted` and `ScoreIsOfTheAnswer` state what the code does.
`docs/architecture/overview.md:49` promises a hard timeout with the process killed: `OnlyAbandonedChildrenRunOn` states that this
holds of the calls that are not given up from outside, and of no others.

*Only model-checked:* `AnswersUnlessHeld`, both `EveryRequestEnds`, `EndsUnlessHeld`, `ReadyOrOrphaned` and
`WindowsEnd`. They are liveness properties under fairness, and ENABLED is out of
the prover's reach.

| module | obligations |
|---|---|
| AgentGraphProofs | 438 |
| SolveServiceProofs | 1101 |
| HistoryProofs | 535 |
| ToolsNodeProofs | 309 |
| JobsProofs | 426 |
| ApiProofs | 750 |

## Not modelled

Texts, prompts, LaTeX and the LLM's judgement; metrics and logging; token
encoding and password hashing; query methods and `create_or_update`, which nothing
calls; the health probes, which read and report; the RefreshRequest and OCRSolveRequest schemas,
which no endpoint takes. A client that disconnects has no
part in SolveService and Api: FastAPI does not cancel handlers. A task's soft limit that abandons an agent run is in Jobs (as a run that may
end in any way) and, for the tool calls it leaves behind, in ToolsNode.

## Running

    tlc -config AgentGraph_callers.cfg MCAgentGraph
    tlc -config SolveService_concurrent.cfg MCSolveService
    tlc -config ToolsNode_loop.cfg MCToolsNode
    tlc -config Jobs_pool.cfg MCJobs
    tlc -config Api_clients.cfg MCApi
    tlapm AgentGraphProofs.tla
    tlapm SolveServiceProofs.tla
    tlapm HistoryProofs.tla
    tlapm ToolsNodeProofs.tla
    tlapm JobsProofs.tla
    tlapm ApiProofs.tla
