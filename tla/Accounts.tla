------------------------------ MODULE Accounts ------------------------------
(***************************************************************************)
(* api/v1/auth.py with UserRepository and the get_db dependency: several   *)
(* registrations and logins at once, on one pool of connections per        *)
(* worker.                                                                 *)
(*                                                                         *)
(* An account is named by the registration that made it; its row is that   *)
(* request's body.  PostgreSQL lets a statement see committed rows only;   *)
(* an INSERT whose unique value another open transaction has inserted      *)
(* waits until that transaction ends.  Passwords stand for what bcrypt     *)
(* compares.  Solves are here because they use the same pool; what else    *)
(* they do is SolveService.                                                *)
(***************************************************************************)
EXTENDS ApiRequests

CONSTANTS
    PoolSize,            \* DATABASE_POOL_SIZE + DATABASE_MAX_OVERFLOW
    MappersConfigured    \* as in SolveService: FALSE for models/session.py:38
                         \* as it stands, which fails every ORM query

ASSUME PoolAssumption == PoolSize \in Nat \ {0} /\ MappersConfigured \in BOOLEAN

VARIABLES
    users,     \* PostgreSQL: the committed rows
    inserted,  \* the rows of open transactions
    response   \* the TokenResponse the handler returned, if it has

accountVars == <<users, inserted, response>>

InitAccounts ==
    /\ users = {} /\ inserted = {}
    /\ response = [r \in Requests |-> NoReply]

\* A request has a connection from its first query to the end of its
\* transaction; the others wait for one, or give up after the pool's timeout.
\* A solve has it for as long as its agent runs.
Connected(r) ==
    {q \in Neighbours(r) : pc[q] \in {"insert", "agent", "commit"}}
HasConnection(r) == Cardinality(Connected(r)) < PoolSize

\* The first query of a request is executed.
Finds(r) == pc[r] = "find" /\ MappersConfigured /\ HasConnection(r)

\* The columns declared unique.
\* Faulty variant: email is not.
Clash_UsernameOnly(r, q) == q # r /\ body[q].username = body[r].username
Clash(r, q) ==
    /\ q # r
    /\ body[q].email = body[r].email \/ body[q].username = body[r].username

ByEmail(r) == {q \in users : body[q].email = body[r].email}

EmailTaken(r) ==
    /\ Finds(r) /\ Op(r) = "register"
    /\ ByEmail(r) # {}
    /\ Ends(r, "find", Error(409))
    /\ UNCHANGED <<accountVars, faults>>

EmailFree(r) ==
    /\ Finds(r) /\ Op(r) = "register"
    /\ ByEmail(r) = {}
    /\ Awaits(r, "find", "insert")
    /\ UNCHANGED <<accountVars, reply, faults>>

Insert(r) ==
    /\ Awaits(r, "insert", "commit")
    /\ \A q \in users \union inserted : ~Clash(r, q)
    /\ inserted' = inserted \union {r}
    /\ response' = [response EXCEPT ![r] = Tokens(201, r)]
    /\ UNCHANGED <<users, reply, faults>>

\* IntegrityError, which nothing catches.
InsertFails(r) ==
    /\ Ends(r, "insert", Error(500))
    /\ \E q \in users : Clash(r, q)
    /\ UNCHANGED <<accountVars, faults>>

\* Faulty variant: the password is not compared.
PasswordFits_Any(r, q) == TRUE
PasswordFits(r, q) == body[q].password = body[r].password

LoginSucceeds(r) ==
    /\ Finds(r) /\ Op(r) = "login"
    /\ \E q \in ByEmail(r) :
        /\ PasswordFits(r, q)
        /\ response' = [response EXCEPT ![r] = Tokens(200, q)]
    /\ Awaits(r, "find", "commit")
    /\ UNCHANGED <<users, inserted, reply, faults>>

LoginFails(r) ==
    /\ Finds(r) /\ Op(r) = "login"
    /\ \A q \in ByEmail(r) : ~PasswordFits(r, q)
    /\ Ends(r, "find", Error(401))
    /\ UNCHANGED <<accountVars, faults>>

\* A solve that finds neither its answer nor its session in Redis: its first
\* query is the look-up of the session row, and the next its inserts.
SolveFinds(r) ==
    /\ Finds(r) /\ Op(r) = "solve"
    /\ Awaits(r, "find", "agent")
    /\ UNCHANGED <<accountVars, reply, faults>>

AgentEnds(r) ==
    /\ \/ /\ Awaits(r, "agent", "commit")
          /\ response' = [response EXCEPT ![r] = Answer]
          /\ UNCHANGED reply
       \/ /\ \E status \in {500, 504} : Ends(r, "agent", Error(status))
          /\ UNCHANGED response
    /\ UNCHANGED <<users, inserted, faults>>

PoolTimesOut(r) ==
    /\ ~HasConnection(r)
    /\ Ends(r, "find", Error(500))
    /\ UNCHANGED <<accountVars, faults>>

\* PostgreSQL fails, or SQLAlchemy refuses the query (or hash_password raises
\* before the insert, which ends in the same 500).
QueryFails(r) ==
    /\ MappersConfigured => faults < MaxFaults
    /\ faults' = IF MappersConfigured THEN faults + 1 ELSE faults
    /\ \E call \in {"find", "insert"} : Ends(r, call, Error(500))
    /\ UNCHANGED accountVars

\* get_db after the handler has returned.  FastAPI sends the response when
\* the commit is done, or from 0.118 on before it (requirements: >= 0.111).
AnswerFirst(r) ==
    /\ pc[r] = "commit" /\ reply[r] = NoReply
    /\ reply' = [reply EXCEPT ![r] = response[r]]
    /\ UNCHANGED <<pc, accountVars, faults>>

Durable(r) == users \union (inserted \intersect {r})

Commit(r) ==
    /\ Ends(r, "commit", response[r])
    /\ users' = Durable(r)
    /\ inserted' = inserted \ {r}
    /\ UNCHANGED <<response, faults>>

\* The commit raises, before or after PostgreSQL has made the row durable.
CommitFails(r) ==
    /\ Fault
    /\ Ends(r, "commit", IF reply[r] = NoReply THEN Error(500) ELSE reply[r])
    /\ users' \in {users, Durable(r)}
    /\ inserted' = inserted \ {r}
    /\ UNCHANGED response

AccountStep(r) ==
    \/ EmailTaken(r) \/ EmailFree(r) \/ Insert(r) \/ InsertFails(r)
    \/ LoginSucceeds(r) \/ LoginFails(r) \/ PoolTimesOut(r)
    \/ SolveFinds(r) \/ AgentEnds(r) \/ Commit(r)
=============================================================================
