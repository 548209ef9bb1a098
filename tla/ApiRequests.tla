----------------------------- MODULE ApiRequests -----------------------------
(***************************************************************************)
(* What the components of the API share: the HTTP requests its worker      *)
(* processes handle, each on its event loop.  A request is at one of its   *)
(* awaits (pc) and moves from one to the next in one action.               *)
(***************************************************************************)
EXTENDS Naturals, FiniteSets

CONSTANTS
    Workers,                     \* the processes uvicorn starts
    Requests,                    \* the requests clients send
    Emails, Usernames, Passwords,
    Scenarios,                   \* the bodies of all requests, together
    MaxFaults                    \* bound on faults

\* Each with the worker whose socket accepts it.
RegisterRequest == [op : {"register"}, worker : Workers, email : Emails,
                    username : Usernames, password : Passwords]
LoginRequest    == [op : {"login"}, worker : Workers, email : Emails,
                    password : Passwords]
\* These two carry a token, of the reply to another request.
ExtractRequest  == [op : {"ocr"}, worker : Workers,
                    image : {"ok", "large", "broken"}, token : Requests]
SolveRequest    == [op : {"solve"}, worker : Workers, token : Requests]
RequestBodies   == RegisterRequest \union LoginRequest
                   \union ExtractRequest \union SolveRequest

ASSUME ScenarioAssumption ==
    /\ Scenarios \subseteq [Requests -> RequestBodies]
    /\ \A b \in Scenarios, r \in Requests :
        b[r].op \in {"ocr", "solve"} => b[b[r].token].op \in {"register", "login"}
ASSUME FaultAssumption == MaxFaults \in Nat

VARIABLES
    body,    \* what each request asks
    pc,      \* the call each request awaits
    reply,   \* what its client got
    faults   \* the number of faults so far

Labels == {"idle", "limit", "expire", "auth", "find", "insert", "agent",
           "commit", "extract", "done", "lost"}
NoReply              == [status |-> 0]
Error(status)        == [status |-> status]
Tokens(status, user) == [status |-> status, user |-> user]
Answer               == [status |-> 200]

Op(r) == body[r].op
\* The requests handled by the worker of this one.
Neighbours(r) == {q \in Requests : body[q].worker = body[r].worker}
Fault == faults < MaxFaults /\ faults' = faults + 1

Awaits(r, call, next) ==
    /\ pc[r] = call
    /\ pc' = [pc EXCEPT ![r] = next]

Ends(r, call, what) ==
    /\ Awaits(r, call, "done")
    /\ reply' = [reply EXCEPT ![r] = what]
=============================================================================
