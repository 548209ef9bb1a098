--------------------------------- MODULE Api ---------------------------------
(***************************************************************************)
(* The API's worker processes: RateLimit, Accounts and Ocr composed, with  *)
(* the get_current_user dependency in between, as main.py and              *)
(* api/v1/router.py put them together.  Redis and PostgreSQL are common to *)
(* the workers and survive their crashes.                                  *)
(***************************************************************************)
EXTENDS RateLimit, Accounts, Ocr

VARIABLE expired   \* the requests in whose reply both tokens have expired

requestVars == <<pc, reply, faults>>
vars == <<body, requestVars, limiterVars, accountVars, ocrVars, expired>>

Over     == {"done", "lost"}
InFlight == {r \in Requests : pc[r] \notin Over \union {"idle"}}

Init ==
    /\ body \in Scenarios
    /\ pc = [r \in Requests |-> "idle"]
    /\ reply = [r \in Requests |-> NoReply]
    /\ faults = 0
    /\ InitLimiter /\ InitAccounts /\ InitOcr
    /\ expired = {}

\* A client that has a token sends it.
HasToken(r) == reply[body[r].token].status \in {200, 201}

Arrive(r) ==
    /\ \/ /\ Op(r) \in {"register", "login"}
          /\ Awaits(r, "idle", "find")
          /\ UNCHANGED limiterVars
       \/ /\ Op(r) \in Routes /\ HasToken(r)
          /\ IF LimiterWired THEN Awaits(r, "idle", "limit") /\ UNCHANGED limiterVars
                             ELSE Unlimited(r)
    /\ UNCHANGED <<body, reply, faults, accountVars, ocrVars, expired>>

\* get_current_user.  Nothing writes a revocation, and a failed look-up reads
\* as none.
Unauthorized(r) ==
    /\ Ends(r, "auth", Error(401))
    /\ body[r].token \in expired
    /\ UNCHANGED <<faults, ocrVars>>

MaySolve(r) ==
    /\ Awaits(r, "auth", "find")
    /\ Op(r) = "solve"
    /\ UNCHANGED <<reply, faults, ocrVars>>

Upload(r) == Op(r) = "ocr" /\ (TooLarge(r) \/ Unreadable(r) \/ StartExtractors(r))

Authorized(r) ==
    /\ pc[r] = "auth" /\ body[r].token \notin expired
    /\ MaySolve(r) \/ Upload(r)

ExpireTokens(r) ==
    /\ Op(r) \notin Routes /\ reply[r].status \in {200, 201} /\ r \notin expired
    /\ expired' = expired \union {r}
    /\ UNCHANGED <<body, requestVars, limiterVars, accountVars, ocrVars>>

\* Workers die, one or with their container.  PostgreSQL rolls back what they
\* had not committed; of a commit under way nothing is known.
Victims(dead) == {r \in InFlight : body[r].worker \in dead}

Crash(dead) ==
    /\ Fault
    /\ Victims(dead) # {}
    /\ pc' = [r \in Requests |-> IF r \in Victims(dead) THEN "lost" ELSE pc[r]]
    /\ \E durable \in SUBSET (inserted \intersect Victims(dead)) :
        users' = users \union durable
    /\ inserted' = inserted \ Victims(dead)
    /\ model' = model \ dead
    /\ found' = [r \in Requests |-> IF r \in Victims(dead) THEN Unused ELSE found[r]]
    /\ UNCHANGED <<body, reply, response, limiterVars, expired>>

InLimiter(step)  == step /\ UNCHANGED <<body, accountVars, ocrVars, expired>>
InAccounts(step) == step /\ UNCHANGED <<body, limiterVars, ocrVars, expired>>
InOcr(step)      == step /\ UNCHANGED <<body, limiterVars, accountVars, expired>>

Handle(r) ==
    \/ InLimiter(LimiterStep(r))
    \/ InAccounts(AccountStep(r))
    \/ InOcr(Unauthorized(r) \/ Authorized(r) \/ Combine(r))

Takes(r, e) == InOcr(ThreadTakes(r, e))
Expires(key) == InLimiter(WindowEnds(key))

\* Nothing is left to do until a client sends another request.
Quiet == InFlight = {} /\ UNCHANGED vars

Next ==
    \/ \E r \in Requests :
        \/ Arrive(r) \/ Handle(r) \/ ExpireTokens(r)
        \/ InAccounts(AnswerFirst(r) \/ QueryFails(r) \/ CommitFails(r))
        \/ InLimiter(IncrFails(r) \/ ExpireFails(r))
    \/ \E r \in Requests, e \in Extractors :
        Takes(r, e) \/ InOcr(ThreadReturns(r, e))
    \/ \E key \in Keys : Expires(key)
    \/ \E dead \in SUBSET Workers : Crash(dead)
    \/ Quiet

Spec == Init /\ [][Next]_vars

\* Free threads take work and TTLs run out.  Nothing is assumed of the
\* requests: PostgreSQL, Redis and the LLM are called without a time limit, and
\* the Wikipedia search of a solve holds the loop of its worker, whose requests
\* then take no step.  Nor of extractors, which may run for ever.
Fairness ==
    /\ WF_vars(\E r \in Requests, e \in Extractors : Takes(r, e))
    /\ WF_vars(\E key \in Keys : Expires(key))
FairSpec == Spec /\ Fairness

(***************************************************************************)
(* Properties.                                                             *)
(***************************************************************************)
\* Every variable has values of its type; in particular _run_tesseract never
\* raises, whatever its thread does.
Replies ==
    [status : {0, 200, 401, 409, 413, 422, 429, 500, 504}]
    \union [status : {200, 201}, user : Requests]
    \union [status : {200}, latex : Extractors,
            requires_user_confirmation : BOOLEAN, raw_text : BOOLEAN]
TypeOK ==
    /\ body \in Scenarios
    /\ pc \in [Requests -> Labels]
    /\ reply \in [Requests -> Replies]
    /\ faults \in 0..MaxFaults
    /\ count \in [Keys -> Nat]
    /\ armed \subseteq Keys
    /\ passed \in [Keys -> Nat] /\ before \in [Keys -> Nat]
    /\ users \subseteq Requests /\ inserted \subseteq Requests
    /\ response \in [Requests -> Replies]
    /\ model \subseteq Workers
    /\ found \in [Requests -> [Extractors -> Outcomes \union {"none", "queued", "running"}]]
    /\ \A r \in Requests : found[r]["tesseract"] # "raised"
    /\ expired \subseteq Requests

\* register checks the email and inserts later: however registrations
\* overlap, no two accounts share an email or a username.
UniqueAccounts ==
    \A q, r \in users :
        q # r => body[q].email # body[r].email /\ body[q].username # body[r].username

\* Whoever holds a token registered that email with that password, and the
\* account is committed, unless its commit is under way or something failed.
TokensNameAccounts ==
    \A r \in Requests :
        Op(r) \in {"register", "login"} /\ reply[r].status \in {200, 201} =>
            LET q == reply[r].user
            IN /\ body[q].email = body[r].email
               /\ body[q].password = body[r].password
               /\ q \in users \/ (pc[q] = "commit" /\ q \in inserted) \/ faults > 0

\* As long as nothing has failed, a counter has a TTL, or the request that made
\* it is about to set one; and only counters have TTLs (cache/client.py:71).
CounterExpires ==
    \A key \in Keys :
        /\ key \in armed => count[key] > 0
        /\ count[key] > 0 =>
            \/ key \in armed
            \/ faults > 0
            \/ \E r \in Requests : pc[r] = "expire" /\ rate_limit_key(r) = key

\* The requests let through that a window's length can span, of this life of a
\* counter and of the last one: its first request is older when it ends.
Recent(key) == passed[key] + (IF before[key] = 0 THEN 0 ELSE before[key] - 1)

\* A user who is counted gets less than twice the limit through in any length
\* of a window, whatever fails but INCR itself.  That is all a window starting
\* anew after each TTL gives, where rate_limit.py:2 says "sliding window".
LessThanTwiceTheLimit ==
    \A key \in Keys : Recent(key) < 2 * ROUTE_LIMITS[key[2]]

\* An upload is answered with what both extractors returned in the end: the
\* LaTeX of pix2tex if it found any, the text of tesseract otherwise, and the
\* user is asked to confirm exactly when the one that answered is not
\* confident enough.
AnsweredByBoth ==
    \A r \in Requests :
        pc[r] = "done" /\ found[r] # Unused =>
            /\ \A e \in Extractors : found[r][e] \in Outcomes
            /\ LET by == IF found[r]["pix2tex"] = "text" THEN "pix2tex" ELSE "tesseract"
                   confidence == IF by = "pix2tex" THEN 85 ELSE 55
               IN IF found[r][by] # "text" THEN reply[r] = Error(422)
                  ELSE /\ reply[r].latex = by
                       /\ reply[r].requires_user_confirmation
                            <=> confidence < OCR_CONFIDENCE_THRESHOLD

\* A request whose own calls return ends, if only by a refusal or a crash,
\* wherever the other requests are held and whatever connections they keep;
\* except uploads, which wait for ever while an extractor of theirs, or all
\* threads of their worker, do, and inserts behind an open row of equal value.
Stuck(r) ==
    \/ /\ pc[r] = "extract"
       /\ \/ \E e \in Extractors : found[r][e] = "running"
          \/ Cardinality(Busy(r)) = Threads
    \/ pc[r] = "insert" /\ \E q \in inserted : Clash(r, q)
CallsReturn(r) == WF_vars(Handle(r))
EveryRequestEnds ==
    \A r \in Requests : CallsReturn(r) => <>[](r \in InFlight => Stuck(r))

\* Users who were counted, or refused, start afresh some time, unless a fault,
\* or a request held between INCR and EXPIRE, leaves their counter without TTL.
WindowsEnd ==
    <>[](\A key \in Keys : count[key] > 0 =>
            /\ key \notin armed
            /\ \/ faults > 0
               \/ \E r \in Requests : pc[r] = "expire" /\ rate_limit_key(r) = key)

(***************************************************************************)
(* What docs say and the application does not do.                          *)
(***************************************************************************)
\* README.md:62 "Per-user sliding window (Redis-backed)", rate_limit.py:2
\* "sliding window counters": in any length of a window a user gets no more
\* requests through than the limit.
SlidingWindow == \A key \in Keys : Recent(key) <= ROUTE_LIMITS[key[2]]
=============================================================================
