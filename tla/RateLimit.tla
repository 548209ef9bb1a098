------------------------------ MODULE RateLimit ------------------------------
(***************************************************************************)
(* RateLimitMiddleware.dispatch and CacheClient.increment.  INCR and       *)
(* EXPIRE are two commands; what happens between them is what the          *)
(* properties are about.  main.py sets neither request.state.user_id nor   *)
(* app.state.redis: LimiterWired is FALSE for the application as it stands. *)
(***************************************************************************)
EXTENDS ApiRequests

CONSTANTS
    LimiterWired,  \* the middleware is given a user id and a Redis client
    ROUTE_LIMITS   \* requests per window, for each limited route

Routes == {"ocr", "solve"}

ASSUME LimitAssumption ==
    ROUTE_LIMITS \in [Routes -> Nat \ {0}] /\ LimiterWired \in BOOLEAN

VARIABLES
    count,   \* Redis: rate:<user>:<route>; 0 is an absent key
    armed,   \* Redis: the keys that have a TTL
    passed,  \* requests of a user to a route that were let through (but for
             \* failing INCRs) since their key was absent, in its present life
    before   \* and in its last life: passed and before watch, the code has none

limiterVars == <<count, armed, passed, before>>

\* A user id is the name of the registration that made it.
Keys == Requests \X Routes
rate_limit_key(r) == <<reply[body[r].token].user, Op(r)>>

InitLimiter ==
    /\ count = [key \in Keys |-> 0]
    /\ armed = {}
    /\ passed = [key \in Keys |-> 0]
    /\ before = [key \in Keys |-> 0]

\* Faulty variant: the limit is met before it is exceeded.
Exceeds_Late(n, key) == n > ROUTE_LIMITS[key[2]] + 1
Exceeds(n, key) == n > ROUTE_LIMITS[key[2]]

Pass(r, call) ==
    /\ Awaits(r, call, "auth")
    /\ passed' = [passed EXCEPT ![rate_limit_key(r)] = @ + 1]
    /\ UNCHANGED <<before, reply>>

\* No user id: the request is not counted.
Unlimited(r) ==
    /\ ~LimiterWired
    /\ Pass(r, "idle")
    /\ UNCHANGED <<count, armed, faults>>

\* INCR returns 1: the key is new and has no TTL yet.
\* Faulty variant: the first count is taken for a later one.
FirstOfWindow_Unarmed(r) ==
    /\ Pass(r, "limit")
    /\ count[rate_limit_key(r)] = 0
    /\ count' = [count EXCEPT ![rate_limit_key(r)] = 1]
    /\ UNCHANGED <<armed, faults>>
FirstOfWindow(r) ==
    /\ Awaits(r, "limit", "expire")
    /\ count[rate_limit_key(r)] = 0
    /\ count' = [count EXCEPT ![rate_limit_key(r)] = 1]
    /\ UNCHANGED <<armed, passed, before, reply, faults>>

Counted(r) ==
    /\ pc[r] = "limit"
    /\ LET key == rate_limit_key(r)
       IN /\ count[key] > 0
          /\ count' = [count EXCEPT ![key] = @ + 1]
          /\ \/ /\ Exceeds(count[key] + 1, key)
                /\ Ends(r, "limit", Error(429))
                /\ UNCHANGED <<passed, before>>
             \/ /\ ~Exceeds(count[key] + 1, key)
                /\ Pass(r, "limit")
    /\ UNCHANGED <<armed, faults>>

\* Faulty variant: increment is called without a ttl.
SetExpiry_NoTtl(r) ==
    /\ Pass(r, "expire")
    /\ UNCHANGED <<count, armed, faults>>
SetExpiry(r) ==
    /\ Pass(r, "expire")
    /\ armed' = armed \union {rate_limit_key(r)}
    /\ UNCHANGED <<count, faults>>

\* A Redis command raises, executed or not: the request is let through.
IncrFails(r) ==
    /\ Fault
    /\ Awaits(r, "limit", "auth")
    /\ \/ count' = [count EXCEPT ![rate_limit_key(r)] = @ + 1]
       \/ UNCHANGED count
    /\ UNCHANGED <<armed, passed, before, reply>>

ExpireFails(r) ==
    /\ Fault
    /\ Pass(r, "expire")
    /\ armed' \in {armed, armed \union {rate_limit_key(r)}}
    /\ UNCHANGED count

\* The TTL of a key runs out.
WindowEnds(key) ==
    /\ key \in armed
    /\ count' = [count EXCEPT ![key] = 0]
    /\ armed' = armed \ {key}
    /\ before' = [before EXCEPT ![key] = passed[key]]
    /\ passed' = [passed EXCEPT ![key] = 0]
    /\ UNCHANGED <<pc, reply, faults>>

LimiterStep(r) == FirstOfWindow(r) \/ Counted(r) \/ SetExpiry(r)
=============================================================================
