------------------------- MODULE SolveServiceProofs -------------------------
(***************************************************************************)
(* Theorems about SolveService, for any number of requests, queries and    *)
(* sessions, any limits and any combination of faults.                     *)
(*                                                                         *)
(* The inductive invariant says, for each place a request can be at, what  *)
(* its transaction holds and whether it has built its response, and of     *)
(* every cached response that the request that built it asked the same     *)
(* problem.                                                                *)
(***************************************************************************)
EXTENDS SolveService, SequenceTheorems, TLAPS

Early == {"idle", "cache_get", "session_load", "session_row", "agent"}
Late  == {"problem_flush", "solution_flush", "session_get", "session_set",
          "cache_set", "commit"}

TxType == [problem : BOOLEAN, solution : BOOLEAN, broken : BOOLEAN]
ReplyType == {NoReply} \union Refused \union [status : {200}, response : Responses]

(***************************************************************************)
(* Lemmas about the values.                                                *)
(***************************************************************************)

\* The session a request works on is a session.
LEMMA SessionType ==
    ASSUME body \in [Requests -> Bodies], NEW r \in Requests
    PROVE  /\ session_id(r) \in Sessions
           /\ body[r].query \in Queries
           /\ body[r].show_steps \in BOOLEAN
           /\ solve_cache_key(body[r].query) \in CacheKeys
<1>1. body[r] \in [query : Queries, session_id : SessionIds \union {NoSession},
                   show_steps : BOOLEAN]
  BY BodyAssumption
<1> QED BY <1>1 DEF session_id, Sessions, CacheKeys

\* Keeping the last messages yields a list of messages again.
LEMMA KeepLastType ==
    ASSUME NEW history \in Seq(Message)
    PROVE  KeepLast(history) \in Seq(Message)
<1>1. CASE Len(history) > MaxMessages
  <2>1. /\ Len(history) - MaxMessages + 1 \in 1 .. Len(history) + 1
        /\ Len(history) \in 0 .. Len(history)
    BY <1>1, MessageAssumption
  <2>2. SubSeq(history, Len(history) - MaxMessages + 1, Len(history))
            \in Seq(Message)
    BY <2>1, SubSeqProperties
  <2> QED BY <1>1, <2>2 DEF KeepLast
<1>2. CASE ~(Len(history) > MaxMessages)
  BY <1>2 DEF KeepLast
<1> QED BY <1>1, <1>2

\* An exchange appended to a history is a history.
LEMMA AppendType ==
    ASSUME NEW history \in Seq(Message), NEW r \in Requests
    PROVE  KeepLast(history \o Exchange(r)) \in Seq(Message)
<1>1. Exchange(r) \in Seq(Message)
  BY DEF Exchange, Message
<1>2. history \o Exchange(r) \in Seq(Message)
  BY <1>1, ConcatProperties
<1> QED BY <1>2, KeepLastType

\* The response a request builds is one, and is not the absence of one.
LEMMA ResponseType ==
    ASSUME body \in [Requests -> Bodies], NEW r \in Requests
    PROVE  LET built == [by |-> r, query |-> body[r].query,
                         session_id |-> session_id(r),
                         steps |-> body[r].show_steps, cache_hit |-> FALSE]
           IN  built \in Responses
  BY SessionType DEF Responses

LEMMA NoResponseIsNone == NoResponse \notin Responses
<1> SUFFICES ASSUME NoResponse \in Responses PROVE FALSE
  OBVIOUS
<1>1. "query" \in DOMAIN NoResponse
  BY DEF Responses
<1> QED BY <1>1 DEF NoResponse

\* Updating one entry keeps the type of a function.
LEMMA UpdateType ==
    ASSUME NEW S, NEW T, NEW f \in [S -> T], NEW x, NEW v \in T
    PROVE  [f EXCEPT ![x] = v] \in [S -> T]
  OBVIOUS

(***************************************************************************)
(* The inductive invariant.                                                *)
(***************************************************************************)

\* A response is built by its request, and from then on it is there.
ResponseInv ==
    \A r \in Requests :
        /\ response[r] # NoResponse => response[r] \in Responses /\ response[r].by = r
        /\ pc[r] \in Early => response[r] = NoResponse
        /\ pc[r] \in Late  => response[r] # NoResponse

\* What the open transaction holds, by the place of the request.  Beyond
\* _persist it is unusable or holds both rows.
TxInv ==
    \A r \in Requests :
        /\ pc[r] \in Early \union {"problem_flush", "done", "lost"} => tx[r] = CleanTx
        /\ pc[r] = "solution_flush" => ~tx[r].broken /\ tx[r].problem /\ ~tx[r].solution
        /\ pc[r] \in {"session_get", "session_set", "cache_set", "commit"} =>
               tx[r].broken \/ (tx[r].problem /\ tx[r].solution)

IInv == TypeOK /\ ResponseInv /\ TxInv /\ SavedCompletelyOrNotAtAll

\* What a read of the session history returns is a list of messages.
LEMMA SeenType ==
    ASSUME TypeOK, NEW r \in Requests,
           seen' \in {[seen EXCEPT ![r] = history] :
                         history \in Get(sessions[session_id(r)], <<>>)}
    PROVE  seen' \in [Requests -> Seq(Message)]
<1>1. sessions[session_id(r)] \in Seq(Message)
  BY SessionType DEF TypeOK
<1>2. <<>> \in Seq(Message)
  OBVIOUS
<1>3. Get(sessions[session_id(r)], <<>>) \subseteq Seq(Message)
  BY <1>1, <1>2 DEF Get
<1>4. PICK history \in Seq(Message) : seen' = [seen EXCEPT ![r] = history]
  BY <1>3
<1>5. seen \in [Requests -> Seq(Message)]
  BY DEF TypeOK
<1> QED BY <1>4, <1>5, UpdateType

\* A request moves from one place to another, and the others stay.
LEMMA AwaitsType ==
    ASSUME TypeOK, NEW r \in Requests, NEW call, NEW next \in Labels,
           Awaits(r, call, next)
    PROVE  /\ pc' \in [Requests -> Labels]
           /\ pc[r] = call /\ pc'[r] = next
           /\ \A q \in Requests \ {r} : pc'[q] = pc[q]
  BY DEF TypeOK, Awaits

\* The end of a request that has its response.
Closes(r) == AnswerFirst(r) \/ Commit(r) \/ CommitFails(r)

\* It gets one reply, before the commit or with it, and nothing else changes
\* but what is committed.
LEMMA ClosingReplies ==
    ASSUME TypeOK, NEW r \in Requests, Closes(r)
    PROVE  /\ UNCHANGED <<body, seen, response, redisVars>>
           /\ pc[r] = "commit" /\ pc'[r] \in {"commit", "done"}
           /\ \E next \in {"commit", "done"} : Awaits(r, "commit", next)
           /\ \/ reply' = reply
              \/ /\ reply[r] = NoReply
                 /\ \/ reply' = [reply EXCEPT ![r] = Answered(r)]
                    \/ CommitFails(r) /\ reply' = [reply EXCEPT ![r] = Error500]
<1>t. pc \in [Requests -> Labels] /\ reply \in [Requests -> ReplyType]
  BY DEF TypeOK, ReplyType
<1>1. CASE AnswerFirst(r)
  BY <1>t, <1>1 DEF AnswerFirst, Awaits
<1>2. CASE Commit(r)
  BY <1>t, <1>2 DEF Commit, Ends, Awaits
<1>3. CASE CommitFails(r)
  BY <1>t, <1>3 DEF CommitFails, Ends, Awaits
<1> QED BY <1>1, <1>2, <1>3 DEF Closes

\* Type correctness is preserved by every step of a state of the invariant.
LEMMA TypeStep ==
    ASSUME IInv, [Next]_vars
    PROVE  TypeOK'
<1>t. /\ body \in [Requests -> Bodies] /\ pc \in [Requests -> Labels]
      /\ seen \in [Requests -> Seq(Message)]
      /\ response \in [Requests -> Responses \union {NoResponse}]
      /\ tx \in [Requests -> TxType] /\ reply \in [Requests -> ReplyType]
      /\ cache \in [CacheKeys -> Responses \union {NoResponse}]
      /\ sessions \in [Sessions -> Seq(Message)]
      /\ problems \subseteq Requests /\ solutions \subseteq Requests
      /\ TypeOK
  BY DEF IInv, TypeOK, TxType, ReplyType
<1>c. CleanTx \in TxType
  BY DEF CleanTx, TxType
\* It is enough to look at the variables a step changes.
<1>s. SUFFICES
        /\ body' \in [Requests -> Bodies] /\ pc' \in [Requests -> Labels]
        /\ seen' \in [Requests -> Seq(Message)]
        /\ response' \in [Requests -> Responses \union {NoResponse}]
        /\ tx' \in [Requests -> TxType] /\ reply' \in [Requests -> ReplyType]
        /\ cache' \in [CacheKeys -> Responses \union {NoResponse}]
        /\ sessions' \in [Sessions -> Seq(Message)]
        /\ problems' \subseteq Requests /\ solutions' \subseteq Requests
  BY DEF TypeOK, TxType, ReplyType
<1>1. ASSUME NEW r \in Requests, Arrive(r) \/ CacheMiss(r) \/ LoadSessionRow(r)
      PROVE  pc' \in [Requests -> Labels] /\ UNCHANGED <<body, seen, response, tx,
                 reply, redisVars, dbVars>>
  BY <1>1, <1>t DEF Arrive, CacheMiss, LoadSessionRow, Awaits, Labels
<1>2. ASSUME NEW r \in Requests, CacheHit(r)
      PROVE  /\ pc' \in [Requests -> Labels] /\ reply' \in [Requests -> ReplyType]
             /\ UNCHANGED <<body, seen, response, tx, redisVars, dbVars>>
  <2> DEFINE stored == cache[solve_cache_key(body[r].query)]
             sent   == [status |-> 200,
                        response |-> [stored EXCEPT !.cache_hit = TRUE]]
  <2>1. stored \in Responses
    BY <1>2, <1>t, SessionType DEF CacheHit
  <2>2. sent \in ReplyType
    BY <2>1 DEF Responses, ReplyType
  <2>3. reply' = [reply EXCEPT ![r] = sent]
    BY <1>2 DEF CacheHit
  <2>4. reply' \in [Requests -> ReplyType]
    BY <1>t, <2>2, <2>3, UpdateType
  <2> QED BY <1>2, <1>t, <2>4 DEF CacheHit, Awaits, Labels
<1>3. ASSUME NEW r \in Requests, LoadSession(r) \/ ReadSession(r)
      PROVE  /\ pc' \in [Requests -> Labels] /\ seen' \in [Requests -> Seq(Message)]
             /\ UNCHANGED <<body, response, tx, reply, redisVars, dbVars>>
  <2>1. seen' \in [Requests -> Seq(Message)]
    BY <1>3, <1>t, SeenType DEF LoadSession, ReadSession
  <2> QED BY <1>3, <1>t, <2>1 DEF LoadSession, ReadSession, Awaits, Labels
<1>4. ASSUME NEW r \in Requests, LoadSessionRowFails(r) \/ AgentFails(r)
      PROVE  /\ pc' \in [Requests -> Labels] /\ tx' \in [Requests -> TxType]
             /\ reply' \in [Requests -> ReplyType]
             /\ UNCHANGED <<body, seen, response, redisVars, dbVars>>
  <2>1. PICK call \in Labels, status \in {500, 504} : Refuse(r, call, status)
    BY <1>4 DEF LoadSessionRowFails, AgentFails, Labels
  <2>2. [status |-> status, response |-> NoResponse] \in ReplyType
    BY DEF ReplyType, Refused
  <2>3. reply' \in [Requests -> ReplyType]
    BY <1>t, <2>1, <2>2, UpdateType DEF Refuse
  <2>4. tx' \in [Requests -> TxType]
    BY <1>t, <1>c, <2>1, UpdateType DEF Refuse
  <2> QED BY <1>t, <2>1, <2>3, <2>4 DEF Refuse, Awaits, Labels
<1>5. ASSUME NEW r \in Requests, AgentAnswers(r)
      PROVE  /\ pc' \in [Requests -> Labels]
             /\ response' \in [Requests -> Responses \union {NoResponse}]
             /\ UNCHANGED <<body, seen, tx, reply, redisVars, dbVars>>
  <2>1. response' \in [Requests -> Responses \union {NoResponse}]
    BY <1>5, <1>t, ResponseType, UpdateType DEF AgentAnswers
  <2> QED BY <1>5, <1>t, <2>1 DEF AgentAnswers, Awaits, Labels
<1>6. ASSUME NEW r \in Requests,
             FlushProblem(r) \/ FlushProblemFails(r)
               \/ FlushSolution(r) \/ FlushSolutionFails(r)
      PROVE  /\ pc' \in [Requests -> Labels] /\ tx' \in [Requests -> TxType]
             /\ UNCHANGED <<body, seen, response, reply, redisVars, dbVars>>
  <2>1. tx[r] \in TxType
    BY <1>t
  <2>2. /\ [tx[r] EXCEPT !.problem = TRUE] \in TxType
        /\ [tx[r] EXCEPT !.solution = TRUE] \in TxType
        /\ Broken(tx[r]) \in TxType
    BY <2>1 DEF TxType, Broken
  <2>3. \E t \in TxType : tx' = [tx EXCEPT ![r] = t]
    BY <1>6, <1>t, <2>2 DEF FlushProblem, FlushProblemFails, FlushSolution,
         FlushSolutionFails
  <2>4. tx' \in [Requests -> TxType]
    BY <1>t, <2>3, UpdateType
  <2> QED BY <1>6, <1>t, <2>4 DEF FlushProblem, FlushProblemFails, FlushSolution,
            FlushSolutionFails, Awaits, Labels
<1>7. ASSUME NEW r \in Requests, WriteSession(r)
      PROVE  /\ pc' \in [Requests -> Labels] /\ sessions' \in [Sessions -> Seq(Message)]
             /\ UNCHANGED <<body, seen, response, tx, reply, cache, dbVars>>
  <2>1. KeepLast(seen[r] \o Exchange(r)) \in Seq(Message)
    BY <1>t, AppendType
  <2>2. sessions' \in [Sessions -> Seq(Message)]
    BY <1>7, <1>t, <2>1, UpdateType DEF WriteSession
  <2> QED BY <1>7, <1>t, <2>2 DEF WriteSession, Awaits, Labels
<1>8. ASSUME NEW r \in Requests, WriteCache(r)
      PROVE  /\ pc' \in [Requests -> Labels]
             /\ cache' \in [CacheKeys -> Responses \union {NoResponse}]
             /\ UNCHANGED <<body, seen, response, tx, reply, sessions, dbVars>>
  <2>1. response[r] \in Responses \union {NoResponse}
    BY <1>t
  <2>2. cache' \in [CacheKeys -> Responses \union {NoResponse}]
    BY <1>8, <1>t, <2>1, UpdateType DEF WriteCache
  <2> QED BY <1>8, <1>t, <2>2 DEF WriteCache, Awaits, Labels
<1>9. ASSUME NEW r \in Requests, Closes(r)
      PROVE  /\ pc' \in [Requests -> Labels] /\ tx' \in [Requests -> TxType]
             /\ reply' \in [Requests -> ReplyType]
             /\ problems' \subseteq Requests /\ solutions' \subseteq Requests
             /\ UNCHANGED <<body, seen, response, redisVars>>
  <2>1. pc[r] = "commit" /\ UNCHANGED <<body, seen, response, redisVars>>
    BY <1>9, ClosingReplies DEF IInv
  <2>2. response[r] \in Responses
    BY <2>1 DEF IInv, ResponseInv, Late
  <2>3. Answered(r) \in ReplyType /\ Error500 \in ReplyType
    BY <2>2 DEF Answered, Error500, ReplyType, Refused
  <2>4. reply' = reply \/ \E answer \in ReplyType : reply' = [reply EXCEPT ![r] = answer]
    BY <1>9, <2>3, ClosingReplies DEF IInv
  <2>5. reply' \in [Requests -> ReplyType]
    BY <1>t, <2>4, UpdateType
  <2>6. problems' \subseteq Requests /\ solutions' \subseteq Requests
    BY <1>9, <1>t DEF Closes, AnswerFirst, Commit, CommitFails, Rows, dbVars
  <2>7. tx' \in [Requests -> TxType]
    BY <1>9, <1>t, <1>c, UpdateType DEF Closes, AnswerFirst, Commit, CommitFails, Ends
  <2>8. pc' \in [Requests -> Labels]
    <3>1. PICK next \in Labels : Awaits(r, "commit", next)
      BY <1>9, ClosingReplies DEF IInv, Labels
    <3> QED BY <3>1, AwaitsType DEF IInv
  <2> QED BY <2>1, <2>5, <2>6, <2>7, <2>8
<1>10. ASSUME NEW key \in CacheKeys, ExpireCache(key)
       PROVE  /\ cache' \in [CacheKeys -> Responses \union {NoResponse}]
              /\ UNCHANGED <<body, requestVars, sessions, dbVars>>
  BY <1>10, <1>t, UpdateType DEF ExpireCache
<1>11. ASSUME NEW s \in Sessions, ExpireSession(s)
       PROVE  /\ sessions' \in [Sessions -> Seq(Message)]
              /\ UNCHANGED <<body, requestVars, cache, dbVars>>
  <2>1. <<>> \in Seq(Message)
    OBVIOUS
  <2> QED BY <1>11, <1>t, <2>1, UpdateType DEF ExpireSession
<1>12. ASSUME NEW lost \in SUBSET InFlight, Crash(lost)
       PROVE  /\ pc' \in [Requests -> Labels] /\ tx' \in [Requests -> TxType]
              /\ UNCHANGED <<body, seen, response, reply, cache, sessions, problems, solutions>>
  <2>1. pc' \in [Requests -> Labels]
    BY <1>12, <1>t DEF Crash, Labels
  <2>2. tx' \in [Requests -> TxType]
    BY <1>12, <1>t, <1>c DEF Crash
  <2> QED BY <1>12, <1>t, <2>1, <2>2 DEF Crash, redisVars, dbVars
<1>13. CASE UNCHANGED vars
  BY <1>13, <1>t DEF vars, requestVars, redisVars, dbVars
<1>14. ASSUME NEW r \in Requests, Arrive(r) \/ Handle(r)
       PROVE  TypeOK'
  BY <1>14, <1>t, <1>1, <1>2, <1>3, <1>4, <1>5, <1>6, <1>7, <1>8, <1>9
  DEF Handle, Closes, redisVars, dbVars, TypeOK, TxType, ReplyType
<1> QED
  BY <1>t, <1>10, <1>11, <1>12, <1>13, <1>14
  DEF Next, Idle, requestVars, redisVars, dbVars, TypeOK, TxType, ReplyType

\* The other parts of the invariant are preserved too: one step per call.
LEMMA PlacesStep ==
    ASSUME IInv, [Next]_vars
    PROVE  ResponseInv' /\ TxInv' /\ SavedCompletelyOrNotAtAll'
<1>t. /\ TypeOK /\ ResponseInv /\ TxInv /\ SavedCompletelyOrNotAtAll
      /\ body \in [Requests -> Bodies] /\ pc \in [Requests -> Labels]
      /\ response \in [Requests -> Responses \union {NoResponse}]
      /\ tx \in [Requests -> TxType]
  BY DEF IInv, TypeOK, TxType
\* A step that leaves responses and rows alone keeps the invariant if it
\* keeps its two parts for the request that moves.
<1>m. ASSUME NEW r \in Requests, NEW call, NEW next \in Labels,
             Awaits(r, call, next),
             \A q \in Requests \ {r} : tx'[q] = tx[q] /\ response'[q] = response[q],
             UNCHANGED dbVars,
             response'[r] = response[r],
             next \in Early => call \in Early,
             next \in Late => call \in Late,
             next \in Early \union {"problem_flush", "done", "lost"} => tx'[r] = CleanTx,
             next = "solution_flush" =>
                 ~tx'[r].broken /\ tx'[r].problem /\ ~tx'[r].solution,
             next \in {"session_get", "session_set", "cache_set", "commit"} =>
                 tx'[r].broken \/ (tx'[r].problem /\ tx'[r].solution)
      PROVE  ResponseInv' /\ TxInv' /\ SavedCompletelyOrNotAtAll'
  <2>1. /\ pc[r] = call /\ pc'[r] = next
        /\ \A q \in Requests \ {r} : pc'[q] = pc[q]
    BY <1>m, <1>t, AwaitsType
  <2>2. ResponseInv'
    BY <1>m, <1>t, <2>1 DEF ResponseInv
  <2>3. TxInv'
    BY <1>m, <1>t, <2>1 DEF TxInv
  <2>4. SavedCompletelyOrNotAtAll'
    <3>1. \A q \in Requests : response'[q] = response[q]
      BY <1>m
    <3> QED BY <1>m, <1>t, <3>1 DEF SavedCompletelyOrNotAtAll, dbVars, TypeOK
  <2> QED BY <2>2, <2>3, <2>4
<1>1. ASSUME NEW r \in Requests,
             \/ Arrive(r) \/ CacheHit(r) \/ CacheMiss(r)
             \/ LoadSession(r) \/ LoadSessionRow(r)
      PROVE  ResponseInv' /\ TxInv' /\ SavedCompletelyOrNotAtAll'
  <2>1. PICK call \in Early, next \in Early \union {"done"} : Awaits(r, call, next)
    BY <1>1 DEF Arrive, CacheHit, CacheMiss, LoadSession, LoadSessionRow, Early
  <2>2. /\ UNCHANGED <<tx, response, problems, solutions>>
        /\ pc[r] \in Early
    BY <1>1, <2>1 DEF Arrive, CacheHit, CacheMiss, LoadSession, LoadSessionRow,
         dbVars, Awaits
  <2>3. tx[r] = CleanTx
    BY <2>2, <1>t DEF TxInv
  <2>4. next \in Labels /\ next \notin Late /\ next # "solution_flush"
    BY <2>1 DEF Early, Late, Labels
  <2> QED BY <2>1, <2>2, <2>3, <2>4, <1>m DEF dbVars, Early, Late
<1>2. ASSUME NEW r \in Requests, LoadSessionRowFails(r) \/ AgentFails(r)
      PROVE  ResponseInv' /\ TxInv' /\ SavedCompletelyOrNotAtAll'
  <2>1. PICK call \in Labels, status \in {500, 504} : Refuse(r, call, status)
    BY <1>2 DEF LoadSessionRowFails, AgentFails, Labels
  <2>2. /\ Awaits(r, call, "done") /\ UNCHANGED <<response, problems, solutions>>
        /\ tx' = [tx EXCEPT ![r] = CleanTx]
    BY <2>1 DEF Refuse, dbVars
  <2>3. tx'[r] = CleanTx /\ \A q \in Requests \ {r} : tx'[q] = tx[q]
    BY <2>2, <1>t
  <2> QED BY <2>2, <2>3, <1>m DEF dbVars, Early, Late, Labels
<1>3. ASSUME NEW r \in Requests, AgentAnswers(r)
      PROVE  ResponseInv' /\ TxInv' /\ SavedCompletelyOrNotAtAll'
  <2>1. /\ pc[r] = "agent" /\ pc'[r] = "problem_flush"
        /\ \A q \in Requests \ {r} : pc'[q] = pc[q]
    BY <1>3, <1>t, AwaitsType DEF AgentAnswers, Labels
  <2>2. /\ response'[r] \in Responses /\ response'[r].by = r
        /\ \A q \in Requests \ {r} : response'[q] = response[q]
        /\ UNCHANGED <<tx, problems, solutions>>
    BY <1>3, <1>t, ResponseType DEF AgentAnswers, dbVars
  <2>3. response'[r] # NoResponse /\ tx[r] = CleanTx
    BY <2>1, <2>2, <1>t, NoResponseIsNone DEF TxInv, Early
  <2>4. ResponseInv'
    BY <1>t, <2>1, <2>2, <2>3 DEF ResponseInv, Early
  <2>5. TxInv'
    BY <1>t, <2>1, <2>2, <2>3 DEF TxInv
  <2>6. SavedCompletelyOrNotAtAll'
    <3>1. \A q \in Requests : response[q] # NoResponse => response'[q] # NoResponse
      BY <2>2, <2>3
    <3> QED BY <1>t, <2>2, <3>1 DEF SavedCompletelyOrNotAtAll, TypeOK
  <2> QED BY <2>4, <2>5, <2>6
<1>4. ASSUME NEW r \in Requests, FlushProblem(r)
      PROVE  ResponseInv' /\ TxInv' /\ SavedCompletelyOrNotAtAll'
  <2>1. /\ Awaits(r, "problem_flush", "solution_flush")
        /\ UNCHANGED <<response, problems, solutions>>
        /\ tx' = [tx EXCEPT ![r].problem = TRUE]
        /\ pc[r] = "problem_flush"
    BY <1>4 DEF FlushProblem, dbVars, Awaits
  <2>2. tx[r] = CleanTx
    BY <2>1, <1>t DEF TxInv
  <2>3. /\ ~tx'[r].broken /\ tx'[r].problem /\ ~tx'[r].solution
        /\ \A q \in Requests \ {r} : tx'[q] = tx[q]
    BY <2>1, <2>2, <1>t DEF CleanTx
  <2> QED BY <2>1, <2>3, <1>m DEF dbVars, Early, Late, Labels
<1>5. ASSUME NEW r \in Requests, FlushProblemFails(r) \/ FlushSolutionFails(r)
      PROVE  ResponseInv' /\ TxInv' /\ SavedCompletelyOrNotAtAll'
  <2>1. /\ UNCHANGED <<response, problems, solutions>>
        /\ tx' = [tx EXCEPT ![r] = Broken(tx[r])]
    BY <1>5 DEF FlushProblemFails, FlushSolutionFails, dbVars
  <2>2. PICK call \in Late : Awaits(r, call, "session_get")
    BY <1>5 DEF FlushProblemFails, FlushSolutionFails, Late
  <2>3. tx'[r].broken /\ \A q \in Requests \ {r} : tx'[q] = tx[q]
    BY <2>1, <1>t DEF Broken, TxType
  <2> QED BY <2>1, <2>2, <2>3, <1>m DEF dbVars, Early, Labels
<1>6. ASSUME NEW r \in Requests, FlushSolution(r)
      PROVE  ResponseInv' /\ TxInv' /\ SavedCompletelyOrNotAtAll'
  <2>1. /\ Awaits(r, "solution_flush", "session_get")
        /\ UNCHANGED <<response, problems, solutions>>
        /\ tx' = [tx EXCEPT ![r].solution = TRUE]
        /\ pc[r] = "solution_flush"
    BY <1>6 DEF FlushSolution, dbVars, Awaits
  <2>2. tx[r].problem /\ tx[r] \in TxType
    BY <2>1, <1>t DEF TxInv
  <2>3. /\ tx'[r].problem /\ tx'[r].solution
        /\ \A q \in Requests \ {r} : tx'[q] = tx[q]
    BY <2>1, <2>2, <1>t DEF TxType
  <2> QED BY <2>1, <2>3, <1>m DEF dbVars, Early, Late, Labels
<1>7. ASSUME NEW r \in Requests,
             ReadSession(r) \/ WriteSession(r) \/ WriteCache(r) \/ AnswerFirst(r)
      PROVE  ResponseInv' /\ TxInv' /\ SavedCompletelyOrNotAtAll'
  <2> DEFINE Storing == {"session_get", "session_set", "cache_set", "commit"}
  <2>1. PICK call \in Storing, next \in Storing : Awaits(r, call, next)
    BY <1>7 DEF ReadSession, WriteSession, WriteCache, AnswerFirst
  <2>2. UNCHANGED <<tx, response, problems, solutions>> /\ pc[r] \in Storing
    BY <1>7, <2>1 DEF ReadSession, WriteSession, WriteCache, AnswerFirst, dbVars, Awaits
  <2>3. tx[r].broken \/ (tx[r].problem /\ tx[r].solution)
    BY <2>2, <1>t DEF TxInv
  <2>4. /\ next \in Labels /\ next \notin Early /\ call \in Late
        /\ next \notin {"problem_flush", "solution_flush", "done", "lost"}
    BY <2>1 DEF Early, Late, Labels
  <2> QED BY <2>1, <2>2, <2>3, <2>4, <1>m DEF dbVars
<1>8. ASSUME NEW r \in Requests, Commit(r) \/ CommitFails(r)
      PROVE  ResponseInv' /\ TxInv' /\ SavedCompletelyOrNotAtAll'
  <2>1. PICK answer : Ends(r, answer)
    BY <1>8 DEF Commit, CommitFails
  <2>2. /\ pc[r] = "commit" /\ pc'[r] = "done" /\ UNCHANGED response
        /\ \A q \in Requests \ {r} : pc'[q] = pc[q] /\ tx'[q] = tx[q]
        /\ tx'[r] = CleanTx
    BY <2>1, <1>t, AwaitsType DEF Ends, Labels
  <2>3. ResponseInv'
    BY <1>t, <2>2 DEF ResponseInv, Early, Late
  <2>4. TxInv'
    BY <1>t, <2>2 DEF TxInv
  <2>5. response[r] # NoResponse
    BY <1>t, <2>2 DEF ResponseInv, Late
  <2>6. ~tx[r].broken => tx[r].problem /\ tx[r].solution
    BY <1>t, <2>2 DEF TxInv
  <2>7. \/ UNCHANGED <<problems, solutions>>
        \/ problems' = problems \union {r} /\ solutions' = solutions \union {r}
    BY <1>8, <2>6 DEF Commit, CommitFails, Rows, dbVars
  <2>8. SavedCompletelyOrNotAtAll'
    BY <1>t, <2>2, <2>5, <2>7 DEF SavedCompletelyOrNotAtAll
  <2> QED BY <2>3, <2>4, <2>8
<1>9. CASE \/ \E key \in CacheKeys : ExpireCache(key)
           \/ \E s \in Sessions : ExpireSession(s)
           \/ UNCHANGED vars
  <2>1. UNCHANGED <<pc, tx, response, problems, solutions>>
    BY <1>9 DEF ExpireCache, ExpireSession, vars, requestVars, dbVars
  <2> QED BY <1>t, <2>1 DEF ResponseInv, TxInv, SavedCompletelyOrNotAtAll
<1>10. ASSUME NEW lost \in SUBSET InFlight, Crash(lost)
       PROVE  ResponseInv' /\ TxInv' /\ SavedCompletelyOrNotAtAll'
  <2>1. /\ UNCHANGED <<response, problems, solutions>>
        /\ \A q \in Requests :
            \/ pc'[q] = "lost" /\ tx'[q] = CleanTx
            \/ pc'[q] = pc[q] /\ tx'[q] = tx[q]
    BY <1>10, <1>t DEF Crash, dbVars
  <2>2. ResponseInv'
    BY <1>t, <2>1 DEF ResponseInv, Early, Late
  <2>3. TxInv'
    BY <1>t, <2>1 DEF TxInv
  <2> QED BY <1>t, <2>1, <2>2, <2>3 DEF SavedCompletelyOrNotAtAll
<1> QED
  BY <1>1, <1>2, <1>3, <1>4, <1>5, <1>6, <1>7, <1>8, <1>9, <1>10
  DEF Next, Handle, Idle

\* The inductive invariant holds when the process starts.
LEMMA InitIInv == Init => IInv
<1> SUFFICES ASSUME Init PROVE IInv
  OBVIOUS
<1>1. TypeOK
  <2>1. /\ seen \in [Requests -> Seq(Message)]
        /\ sessions \in [Sessions -> Seq(Message)]
    BY DEF Init
  <2>2. tx \in [Requests -> TxType] /\ pc \in [Requests -> Labels]
    BY DEF Init, CleanTx, TxType, Labels
  <2> QED BY <2>1, <2>2 DEF Init, TypeOK, TxType
<1>2. ResponseInv /\ TxInv
  BY DEF Init, ResponseInv, TxInv, Early, Late
<1> QED BY <1>1, <1>2 DEF Init, IInv, SavedCompletelyOrNotAtAll

\* The inductive invariant.
THEOREM IInvInductive == Spec => []IInv
<1>1. Init => IInv
  BY InitIInv
<1>2. IInv /\ [Next]_vars => IInv'
  BY TypeStep, PlacesStep DEF IInv
<1> QED BY <1>1, <1>2, PTL DEF Spec

\* The state of requests, Redis and PostgreSQL is well typed in every
\* reachable state, under any combination of faults.
THEOREM TypeCorrect == Spec => []TypeOK
<1>1. IInv => TypeOK
  BY DEF IInv
<1> QED BY <1>1, IInvInductive, PTL

\* overview.md:27: no failed flush or commit and no crash leaves a problem row
\* without its solution row, for any number of requests in flight.
THEOREM SavedCompletely == Spec => []SavedCompletelyOrNotAtAll
<1>1. IInv => SavedCompletelyOrNotAtAll
  BY DEF IInv
<1> QED BY <1>1, IInvInductive, PTL

(***************************************************************************)
(* The service implements SolveContract.                                   *)
(***************************************************************************)

\* A cached response was built by a request with the same cache key.
CacheInv ==
    \A key \in CacheKeys :
        cache[key] # NoResponse =>
            LET source == cache[key].by IN
            /\ response[source] # NoResponse
            /\ solve_cache_key(body[source].query) = key

\* A request is replied to when it is done, or while it commits.
ReplyInv ==
    \A r \in Requests :
        pc[r] \notin {"commit", "done", "lost"} => reply[r] = NoReply

RInv == IInv /\ CacheInv /\ ReplyInv

\* Equal keys mean equal problems.
LEMMA KeyInjective ==
    ASSUME NEW q1 \in Queries, NEW q2 \in Queries,
           solve_cache_key(q1) = solve_cache_key(q2)
    PROVE  Normal[q1] = Normal[q2]
  BY DEF solve_cache_key

\* The effect of a reply to r on what the contract sees.
LEMMA RepliedUpdate ==
    ASSUME TypeOK, NEW r \in Requests, NEW answer, NEW call, NEW next,
           Awaits(r, call, next), next # "lost",
           reply' = [reply EXCEPT ![r] = answer]
    PROVE  replied' = [replied EXCEPT ![r] = Outcome(answer)]
<1>1. /\ pc' = [pc EXCEPT ![r] = next]
      /\ pc \in [Requests -> Labels] /\ DOMAIN reply = Requests
  BY DEF Awaits, TypeOK
<1>2. /\ pc'[r] = next /\ reply'[r] = answer
      /\ \A q \in Requests \ {r} : pc'[q] = pc[q] /\ reply'[q] = reply[q]
  BY <1>1
<1>3. \A q \in Requests :
         replied'[q] = IF q = r THEN Outcome(answer) ELSE replied[q]
  <2>1. \A q \in Requests :
           replied'[q] = IF pc'[q] = "lost" /\ reply'[q] = NoReply THEN "lost"
                         ELSE Outcome(reply'[q])
    BY DEF replied
  <2> QED BY <1>2, <2>1 DEF replied
<1>4. /\ replied = [q \in Requests |-> replied[q]]
      /\ replied' = [q \in Requests |-> replied'[q]]
  BY DEF replied
<1> QED BY <1>3, <1>4

\* What the contract sees of the replies depends on nothing else but losses.
LEMMA RepliedStays ==
    ASSUME reply' = reply,
           \A q \in Requests : pc'[q] = "lost" <=> pc[q] = "lost"
    PROVE  replied' = replied
  BY DEF replied

\* A request that is being handled has had no reply, unless it commits.
LEMMA NotReplied ==
    ASSUME RInv, NEW r \in Requests,
           pc[r] \notin {"done", "lost"},
           pc[r] = "commit" => reply[r] = NoReply
    PROVE  reply[r] = NoReply /\ replied[r] = "none"
  BY DEF RInv, ReplyInv, NoReply, replied, Outcome

\* The additional parts of the invariant are inductive given IInv.
LEMMA RInvStep ==
    ASSUME RInv, [Next]_vars
    PROVE  RInv'
<1>t. /\ IInv /\ CacheInv /\ ReplyInv /\ TypeOK /\ ResponseInv
      /\ body \in [Requests -> Bodies] /\ pc \in [Requests -> Labels]
      /\ response \in [Requests -> Responses \union {NoResponse}]
      /\ cache \in [CacheKeys -> Responses \union {NoResponse}]
      /\ reply \in [Requests -> ReplyType]
  BY DEF RInv, IInv, TypeOK, ReplyType
<1>i. IInv'
  BY <1>t, TypeStep, PlacesStep DEF IInv
\* Responses are never taken back, so a cache that stays the same stays good.
<1>r. /\ body' = body
      /\ \A q \in Requests : response[q] # NoResponse => response'[q] # NoResponse
  <2>1. ASSUME NEW r \in Requests, AgentAnswers(r)
        PROVE  /\ body' = body
               /\ \A q \in Requests : response[q] # NoResponse => response'[q] # NoResponse
    <3>1. response'[r] \in Responses /\ \A q \in Requests \ {r} : response'[q] = response[q]
      BY <2>1, <1>t, ResponseType DEF AgentAnswers
    <3> QED BY <2>1, <3>1, NoResponseIsNone DEF AgentAnswers
  <2>2. ASSUME NEW r \in Requests, Arrive(r) \/ Handle(r), ~AgentAnswers(r)
        PROVE  UNCHANGED <<body, response>>
    BY <2>2 DEF Handle, Arrive, CacheHit, CacheMiss, LoadSession, LoadSessionRow,
       LoadSessionRowFails, AgentFails, Refuse, FlushProblem, FlushProblemFails,
       FlushSolution, FlushSolutionFails, ReadSession, WriteSession, WriteCache,
       AnswerFirst, Commit, CommitFails, Ends
  <2>3. CASE UNCHANGED <<body, response>>
    BY <2>3
  <2> QED BY <2>1, <2>2, <2>3 DEF Next, ExpireCache, ExpireSession, Crash, Idle,
            vars, requestVars
<1>c. CacheInv'
  <2>1. ASSUME cache' = cache PROVE CacheInv'
    <3> SUFFICES ASSUME NEW key \in CacheKeys, cache'[key] # NoResponse
                 PROVE  /\ response'[cache'[key].by] # NoResponse
                        /\ solve_cache_key(body'[cache'[key].by].query) = key
      BY DEF CacheInv
    <3>1. cache[key] \in Responses /\ cache[key].by \in Requests
      BY <1>t, <2>1 DEF Responses
    <3> QED BY <1>t, <1>r, <2>1, <3>1 DEF CacheInv
  <2>2. ASSUME NEW r \in Requests, WriteCache(r) PROVE CacheInv'
    <3> SUFFICES ASSUME NEW key \in CacheKeys, cache'[key] # NoResponse
                 PROVE  /\ response'[cache'[key].by] # NoResponse
                        /\ solve_cache_key(body'[cache'[key].by].query) = key
      BY DEF CacheInv
    <3>1. pc[r] = "cache_set" /\ response[r] # NoResponse /\ response[r].by = r
      BY <1>t, <2>2 DEF WriteCache, Awaits, ResponseInv, Late
    <3>2. CASE cache'[key] = cache[key]
      <4>1. cache[key] \in Responses /\ cache[key].by \in Requests
        BY <1>t, <3>2 DEF Responses
      <4> QED BY <1>t, <1>r, <3>2, <4>1 DEF CacheInv
    <3>3. CASE cache'[key] # cache[key]
      <4>1. key = solve_cache_key(body[r].query) /\ cache'[key] = response[r]
        BY <1>t, <2>2, <3>3 DEF WriteCache
      <4> QED BY <1>r, <3>1, <4>1
    <3> QED BY <3>2, <3>3
  <2>3. ASSUME NEW expired \in CacheKeys, ExpireCache(expired) PROVE CacheInv'
    <3> SUFFICES ASSUME NEW key \in CacheKeys, cache'[key] # NoResponse
                 PROVE  /\ response'[cache'[key].by] # NoResponse
                        /\ solve_cache_key(body'[cache'[key].by].query) = key
      BY DEF CacheInv
    <3>1. cache'[key] = cache[key]
      BY <1>t, <2>3 DEF ExpireCache
    <3>2. cache[key] \in Responses /\ cache[key].by \in Requests
      BY <1>t, <3>1 DEF Responses
    <3> QED BY <1>t, <1>r, <3>1, <3>2 DEF CacheInv
  <2>4. ASSUME NEW r \in Requests, Arrive(r) \/ Handle(r), ~WriteCache(r)
        PROVE  cache' = cache
    BY <2>4 DEF Handle, Arrive, CacheHit, CacheMiss, LoadSession, LoadSessionRow,
       LoadSessionRowFails, AgentAnswers, AgentFails, Refuse, FlushProblem,
       FlushProblemFails, FlushSolution, FlushSolutionFails, ReadSession,
       WriteSession, AnswerFirst, Commit, CommitFails, Ends, redisVars
  <2> QED BY <2>1, <2>2, <2>3, <2>4 DEF Next, ExpireSession, Crash, Idle, vars,
            redisVars
<1>p. ReplyInv'
  <2>1. ASSUME NEW r \in Requests, NEW call, NEW next \in Labels,
               Awaits(r, call, next), call \notin {"commit", "done", "lost"},
               next = "done" \/ reply' = reply,
               \A q \in Requests \ {r} : reply'[q] = reply[q]
        PROVE  ReplyInv'
    <3>1. /\ pc[r] = call /\ pc'[r] = next
          /\ \A q \in Requests \ {r} : pc'[q] = pc[q]
      BY <2>1, <1>t, AwaitsType
    <3> QED BY <1>t, <2>1, <3>1 DEF ReplyInv
  <2>2. ASSUME NEW r \in Requests, CacheHit(r) \/ LoadSessionRowFails(r) \/ AgentFails(r)
        PROVE  ReplyInv'
    <3>1. PICK call \in Labels \ {"commit", "done", "lost"} : Awaits(r, call, "done")
      BY <2>2 DEF CacheHit, LoadSessionRowFails, AgentFails, Refuse, Labels
    <3>2. \E answer : reply' = [reply EXCEPT ![r] = answer]
      BY <2>2 DEF CacheHit, LoadSessionRowFails, AgentFails, Refuse
    <3>3. \A q \in Requests \ {r} : reply'[q] = reply[q]
      BY <1>t, <3>2
    <3> QED BY <2>1, <3>1, <3>3 DEF Labels
  <2>3. ASSUME NEW r \in Requests, Arrive(r) \/ Handle(r),
               ~CacheHit(r), ~LoadSessionRowFails(r), ~AgentFails(r), ~Closes(r)
        PROVE  ReplyInv'
    <3>1. /\ reply' = reply
          /\ \E call \in Labels \ {"commit", "done", "lost"}, next \in Labels :
                Awaits(r, call, next)
      BY <2>3 DEF Handle, Closes, Arrive, CacheMiss, LoadSession, LoadSessionRow,
         AgentAnswers, FlushProblem, FlushProblemFails, FlushSolution,
         FlushSolutionFails, ReadSession, WriteSession, WriteCache, Labels
    <3> QED BY <2>1, <3>1
  <2>4. ASSUME NEW lost \in SUBSET InFlight, Crash(lost) PROVE ReplyInv'
    <3>1. /\ reply' = reply
          /\ \A q \in Requests : pc'[q] = pc[q] \/ pc'[q] = "lost"
      BY <2>4, <1>t DEF Crash, InFlight
    <3> QED BY <1>t, <3>1 DEF ReplyInv
  <2>6. ASSUME NEW r \in Requests, Closes(r) PROVE ReplyInv'
    <3>1. PICK next \in {"commit", "done"} : Awaits(r, "commit", next)
      BY <1>t, <2>6, ClosingReplies
    <3>2. /\ pc'[r] = next
          /\ \A q \in Requests \ {r} : pc'[q] = pc[q]
      BY <1>t, <3>1, AwaitsType DEF Labels
    <3>3. \A q \in Requests \ {r} : reply'[q] = reply[q]
      BY <1>t, <2>6, ClosingReplies
    <3> QED BY <1>t, <3>1, <3>2, <3>3 DEF ReplyInv
  <2>5. CASE UNCHANGED <<pc, reply>>
    BY <1>t, <2>5 DEF ReplyInv
  <2> QED BY <2>2, <2>3, <2>4, <2>5, <2>6 DEF Next, ExpireCache, ExpireSession,
            Idle, vars, requestVars
<1> QED BY <1>i, <1>c, <1>p DEF RInv

\* A reply with status 200 is an answer of its source, any other is a refusal.
LEMMA ReplyStep ==
    ASSUME RInv, NEW r \in Requests, NEW answer, NEW call \in Labels,
           NEW next \in Labels \ {"lost"},
           Awaits(r, call, next), call \notin {"done", "lost"},
           call = "commit" => reply[r] = NoReply,
           reply' = [reply EXCEPT ![r] = answer],
           UNCHANGED <<asked, computed>>,
           \/ Outcome(answer) = "refused"
           \/ Outcome(answer) \in computed /\ asked[Outcome(answer)] = asked[r]
    PROVE  Promise!Answer(r) \/ Promise!Refuse(r)
<1>1. replied' = [replied EXCEPT ![r] = Outcome(answer)]
  BY RepliedUpdate DEF RInv, IInv
<1>2. replied[r] = "none"
  BY NotReplied DEF Awaits
<1> QED BY <1>1, <1>2 DEF Promise!Answer, Promise!Refuse

\* Every step of the service is a step of the contract or changes nothing the
\* contract sees.
LEMMA ContractStep ==
    ASSUME RInv, [Next]_vars
    PROVE  [Promise!ContractNext]_(Promise!contractVars)
<1>t. /\ IInv /\ CacheInv /\ ReplyInv /\ TypeOK /\ ResponseInv
      /\ body \in [Requests -> Bodies] /\ pc \in [Requests -> Labels]
      /\ response \in [Requests -> Responses \union {NoResponse}]
      /\ cache \in [CacheKeys -> Responses \union {NoResponse}]
  BY DEF RInv, IInv, TypeOK
<1> DEFINE Stays == UNCHANGED <<asked, computed, replied>>
<1>s. Stays => UNCHANGED Promise!contractVars
  BY DEF Promise!contractVars
<1>q. ASSUME body' = body, response' = response PROVE UNCHANGED <<asked, computed>>
  BY <1>q DEF asked, computed
<1>a. ASSUME NEW r \in Requests, Promise!Answer(r) \/ Promise!Refuse(r)
      PROVE  Promise!ContractNext
  BY <1>a DEF Promise!ContractNext
<1>1. ASSUME NEW r \in Requests, CacheHit(r) PROVE Promise!ContractNext
  <2> DEFINE stored == cache[solve_cache_key(body[r].query)]
             hit == [status |-> 200, response |-> [stored EXCEPT !.cache_hit = TRUE]]
  <2>1. /\ Awaits(r, "cache_get", "done") /\ stored # NoResponse
        /\ reply' = [reply EXCEPT ![r] = hit]
        /\ UNCHANGED <<asked, computed>>
    BY <1>1, <1>q DEF CacheHit
  <2>2. body[r].query \in Queries /\ solve_cache_key(body[r].query) \in CacheKeys
    BY <1>t, BodyAssumption DEF CacheKeys
  <2>3. stored \in Responses /\ stored.by \in Requests
    BY <1>t, <2>1, <2>2 DEF Responses
  <2>4. Outcome(hit) = stored.by
    BY <2>3 DEF Outcome, Responses
  <2>5. /\ response[stored.by] # NoResponse
        /\ solve_cache_key(body[stored.by].query) = solve_cache_key(body[r].query)
    BY <1>t, <2>1, <2>2 DEF CacheInv
  <2>6. Normal[body[stored.by].query] = Normal[body[r].query]
    <3>1. body[stored.by].query \in Queries
      BY <1>t, <2>3, BodyAssumption
    <3> QED BY <2>2, <2>5, <3>1, KeyInjective
  <2>7. Outcome(hit) \in computed /\ asked[Outcome(hit)] = asked[r]
    BY <2>3, <2>4, <2>5, <2>6 DEF asked, computed
  <2>8. "cache_get" \in Labels /\ "done" \in Labels
    BY DEF Labels
  <2> HIDE DEF hit, stored
  <2>9. Promise!Answer(r) \/ Promise!Refuse(r)
    BY <2>1, <2>7, <2>8, ReplyStep
  <2> QED BY <2>9, <1>a
<1>2. ASSUME NEW r \in Requests, LoadSessionRowFails(r) \/ AgentFails(r)
      PROVE  Promise!ContractNext
  <2>1. PICK call \in Labels \ {"commit", "done", "lost"}, status \in {500, 504} :
           Refuse(r, call, status)
    BY <1>2 DEF LoadSessionRowFails, AgentFails, Labels
  <2>d. "done" \in Labels
    BY DEF Labels
  <2> DEFINE refusal == [status |-> status, response |-> NoResponse]
  <2>2. /\ Awaits(r, call, "done") /\ reply' = [reply EXCEPT ![r] = refusal]
        /\ UNCHANGED <<asked, computed>>
    BY <2>1, <1>q DEF Refuse
  <2>3. Outcome(refusal) = "refused"
    BY DEF Outcome
  <2> HIDE DEF refusal
  <2>4. Promise!Answer(r) \/ Promise!Refuse(r)
    BY <2>1, <2>2, <2>3, <2>d, ReplyStep
  <2> QED BY <2>4, <1>a
<1>3. ASSUME NEW r \in Requests, Closes(r)
      PROVE  Promise!ContractNext \/ Stays
  <2>1. PICK next \in Labels \ {"lost"} : Awaits(r, "commit", next)
    BY <1>3, <1>t, ClosingReplies DEF Labels
  <2>2. pc[r] = "commit" /\ body' = body /\ response' = response
    BY <1>3, <1>t, ClosingReplies
  <2>3. CASE reply' = reply
    <3>1. \A q \in Requests : pc'[q] = "lost" <=> pc[q] = "lost"
      BY <2>1, <1>t, AwaitsType
    <3> QED BY <1>q, <2>2, <2>3, <3>1, RepliedStays
  <2>4. ASSUME NEW answer \in {Answered(r), Error500},
               reply[r] = NoReply, reply' = [reply EXCEPT ![r] = answer]
        PROVE  Promise!ContractNext
    <3>1. response[r] # NoResponse /\ response[r].by = r
      BY <1>t, <2>2 DEF ResponseInv, Late
    <3>2. Outcome(Answered(r)) = r /\ Outcome(Error500) = "refused"
      BY <3>1 DEF Outcome, Answered, Error500
    <3>3. r \in computed
      BY <3>1 DEF computed
    <3>4. "commit" \in Labels \ {"done", "lost"}
      BY DEF Labels
    <3>5. Promise!Answer(r) \/ Promise!Refuse(r)
      BY <1>q, <2>1, <2>2, <2>4, <3>2, <3>3, <3>4, ReplyStep
    <3> QED BY <3>5, <1>a
  <2> QED BY <1>3, <1>t, <2>3, <2>4, ClosingReplies
<1>4. ASSUME NEW r \in Requests, AgentAnswers(r) PROVE Promise!ContractNext
  <2>1. /\ pc[r] = "agent" /\ pc'[r] = "problem_flush"
        /\ \A q \in Requests \ {r} : pc'[q] = pc[q]
        /\ body' = body /\ reply' = reply
    BY <1>4, <1>t, AwaitsType DEF AgentAnswers, Labels
  <2>2. /\ response'[r] \in Responses
        /\ \A q \in Requests \ {r} : response'[q] = response[q]
    BY <1>4, <1>t, ResponseType DEF AgentAnswers
  <2>3. r \notin computed /\ computed' = computed \union {r}
    BY <1>t, <2>1, <2>2, NoResponseIsNone DEF computed, ResponseInv, Early
  <2>4. UNCHANGED <<asked, replied>>
    BY <2>1 DEF asked, replied
  <2>5. replied[r] = "none"
    BY <2>1, NotReplied
  <2> QED BY <2>3, <2>4, <2>5 DEF Promise!Compute, Promise!ContractNext
<1>5. ASSUME NEW lost \in SUBSET InFlight, Crash(lost) PROVE Promise!ContractNext
  <2>1. /\ body' = body /\ response' = response /\ reply' = reply
        /\ \A q \in Requests :
              pc'[q] = IF q \in lost THEN "lost" ELSE pc[q]
    BY <1>5 DEF Crash
  <2> DEFINE silent == {q \in lost : reply[q] = NoReply}
  <2>2. \A q \in silent : replied[q] = "none"
    BY NotReplied DEF InFlight
  <2>3. replied' = [q \in Requests |-> IF q \in silent THEN "lost" ELSE replied[q]]
    <3>1. \A q \in lost : pc[q] # "lost"
      BY DEF InFlight
    <3> QED BY <2>1, <3>1 DEF replied
  <2>4. silent \in SUBSET {q \in Requests : replied[q] = "none"}
    BY <2>2 DEF InFlight
  <2>5. Promise!Crash
    BY <1>q, <2>1, <2>3, <2>4 DEF Promise!Crash
  <2> QED BY <2>5 DEF Promise!ContractNext
<1>6. ASSUME NEW r \in Requests, Arrive(r) \/ Handle(r),
             ~CacheHit(r), ~LoadSessionRowFails(r), ~AgentFails(r),
             ~Closes(r), ~AgentAnswers(r)
      PROVE  Stays
  <2>1. /\ body' = body /\ response' = response /\ reply' = reply
        /\ \E call \in Labels \ {"lost"}, next \in Labels \ {"lost"} :
              Awaits(r, call, next)
    BY <1>6 DEF Handle, Closes, Arrive, CacheMiss, LoadSession, LoadSessionRow,
       FlushProblem, FlushProblemFails, FlushSolution, FlushSolutionFails,
       ReadSession, WriteSession, WriteCache, Labels
  <2>2. \A q \in Requests : pc'[q] = "lost" <=> pc[q] = "lost"
    BY <2>1, <1>t, AwaitsType
  <2>3. replied' = replied
    BY <2>1, <2>2, RepliedStays
  <2> QED BY <1>q, <2>1, <2>3
<1>7. CASE \/ \E key \in CacheKeys : ExpireCache(key)
           \/ \E s \in Sessions : ExpireSession(s)
           \/ UNCHANGED vars
  <2>1. UNCHANGED <<body, response, reply, pc>>
    BY <1>7 DEF ExpireCache, ExpireSession, vars, requestVars
  <2>2. replied' = replied
    BY <2>1 DEF replied
  <2> QED BY <1>q, <1>s, <2>1, <2>2
<1> HIDE DEF Stays
<1> QED BY <1>1, <1>2, <1>3, <1>4, <1>5, <1>6, <1>7, <1>s DEF Next, Idle

\* solve.py and math_service.py keep SolveContract: whatever fails, expires or
\* crashes, a request is answered at most once, with a refusal or an answer
\* some request computed for the same normalised query.
THEOREM ServiceImplementsContract == Spec => ImplementsContract
<1>1. Init => RInv
  <2> SUFFICES ASSUME Init PROVE RInv
    OBVIOUS
  <2>1. IInv
    BY InitIInv
  <2> QED BY <2>1 DEF Init, RInv, CacheInv, ReplyInv
<1>2. Init => Promise!ContractInit
  <2> SUFFICES ASSUME Init PROVE Promise!ContractInit
    OBVIOUS
  <2>1. asked \in [Requests -> {Normal[query] : query \in Queries}]
    BY BodyAssumption DEF Init, asked
  <2>2. computed = {} /\ replied = [r \in Requests |-> "none"]
    BY DEF Init, computed, replied, Outcome, NoReply
  <2> QED BY <2>1, <2>2 DEF Promise!ContractInit
<1>3. RInv /\ [Next]_vars => RInv'
  BY RInvStep
<1>4. RInv /\ [Next]_vars => [Promise!ContractNext]_(Promise!contractVars)
  BY ContractStep
<1> QED BY <1>1, <1>2, <1>3, <1>4, PTL DEF Spec, ImplementsContract, Promise!Contract

\* RInv, on its own, for what else rests on it.
LEMMA RInvInductive == Spec => []RInv
<1>1. Init => RInv
  BY InitIInv DEF Init, RInv, CacheInv, ReplyInv
<1>2. RInv /\ [Next]_vars => RInv'
  BY RInvStep
<1> QED BY <1>1, <1>2, PTL DEF Spec

(***************************************************************************)
(* When what the docs say of a reply is true.  Each of these three          *)
(* statements fails in a run; the theorems say what it takes to hold.      *)
(***************************************************************************)

\* PostgreSQL takes every statement it is sent.
DatabaseIsReliable == "db" \notin Faults /\ ~EnforceForeignKeys

NeverBroken == \A r \in Requests : ~tx[r].broken

\* How a request is replied to, and by which step.
LEMMA ReplyAccess ==
    ASSUME IInv, [Next]_vars
    PROVE  \/ reply' = reply
           \/ \E r \in Requests :
              CacheHit(r) \/ LoadSessionRowFails(r) \/ AgentFails(r) \/ Closes(r)
<1>1. ASSUME NEW r \in Requests, Arrive(r) \/ Handle(r),
             ~CacheHit(r), ~LoadSessionRowFails(r), ~AgentFails(r), ~Closes(r)
      PROVE  reply' = reply
  BY <1>1 DEF Handle, Closes, Arrive, CacheMiss, LoadSession, LoadSessionRow,
     AgentAnswers, FlushProblem, FlushProblemFails, FlushSolution,
     FlushSolutionFails, ReadSession, WriteSession, WriteCache
<1> QED BY <1>1 DEF Next, ExpireCache, ExpireSession, Crash, Idle, vars, requestVars

\* No step changes the body of a request.
LEMMA BodyStays ==
    ASSUME [Next]_vars
    PROVE  body' = body
<1>1. ASSUME NEW r \in Requests, Arrive(r) \/ Handle(r) PROVE body' = body
  BY <1>1 DEF Handle, Arrive, CacheHit, CacheMiss, LoadSession, LoadSessionRow,
     LoadSessionRowFails, AgentAnswers, AgentFails, Refuse, FlushProblem,
     FlushProblemFails, FlushSolution, FlushSolutionFails, ReadSession,
     WriteSession, WriteCache, AnswerFirst, Commit, CommitFails, Ends
<1> QED BY <1>1 DEF Next, ExpireCache, ExpireSession, Crash, Idle, vars

\* Without a failing statement no transaction is broken.
LEMMA NeverBrokenInductive ==
    ASSUME DatabaseIsReliable
    PROVE  Spec => []NeverBroken
<1>1. Init => NeverBroken
  BY DEF Init, NeverBroken, CleanTx
<1>2. IInv /\ NeverBroken /\ [Next]_vars => NeverBroken'
  <2> SUFFICES ASSUME IInv, NeverBroken, [Next]_vars PROVE NeverBroken'
    OBVIOUS
  <2>t. tx \in [Requests -> TxType]
    BY DEF IInv, TypeOK, TxType
  <2>1. ASSUME NEW r \in Requests, FlushProblem(r) \/ FlushSolution(r)
        PROVE  NeverBroken'
    BY <2>t, <2>1 DEF FlushProblem, FlushSolution, NeverBroken, TxType
  <2>2. ASSUME NEW r \in Requests, tx' = [tx EXCEPT ![r] = CleanTx]
        PROVE  NeverBroken'
    BY <2>t, <2>2 DEF NeverBroken, CleanTx
  <2>3. ASSUME NEW r \in Requests, Arrive(r) \/ Handle(r),
               ~FlushProblem(r), ~FlushSolution(r)
        PROVE  tx' = tx \/ tx' = [tx EXCEPT ![r] = CleanTx]
    BY <2>3 DEF Handle, Arrive, CacheHit, CacheMiss, LoadSession, LoadSessionRow,
       LoadSessionRowFails, AgentAnswers, AgentFails, Refuse, FlushProblemFails,
       FlushSolutionFails, ReadSession, WriteSession, WriteCache, AnswerFirst,
       Commit, CommitFails, Ends, DatabaseIsReliable
  <2>4. ASSUME NEW lost \in SUBSET InFlight, Crash(lost) PROVE NeverBroken'
    BY <2>4 DEF Crash, NeverBroken, CleanTx
  <2>5. CASE tx' = tx
    BY <2>5 DEF NeverBroken
  <2> QED BY <2>1, <2>2, <2>3, <2>4, <2>5
        DEF Next, ExpireCache, ExpireSession, Idle, vars, requestVars
<1> QED BY <1>1, <1>2, IInvInductive, PTL DEF Spec

\* Rows are never taken back.
LEMMA RowsStay ==
    ASSUME IInv, [Next]_vars
    PROVE  solutions \subseteq solutions'
<1>1. ASSUME NEW r \in Requests, Arrive(r) \/ Handle(r), ~Commit(r), ~CommitFails(r)
      PROVE  solutions' = solutions
  BY <1>1 DEF Handle, Arrive, CacheHit, CacheMiss, LoadSession, LoadSessionRow,
     LoadSessionRowFails, AgentAnswers, AgentFails, Refuse, FlushProblem,
     FlushProblemFails, FlushSolution, FlushSolutionFails, ReadSession,
     WriteSession, WriteCache, AnswerFirst, dbVars
<1>2. ASSUME NEW r \in Requests, Commit(r) \/ CommitFails(r)
      PROVE  solutions \subseteq solutions'
  BY <1>2 DEF Commit, CommitFails, Rows, dbVars
<1> QED BY <1>1, <1>2 DEF Next, ExpireCache, ExpireSession, Crash, Idle, vars, dbVars

\* Without a crash a request ends with a reply, and has no other afterwards.
LEMMA EndAccess ==
    ASSUME RInv, "crash" \notin Faults, [Next]_vars, NEW r \in Requests,
           pc'[r] \in {"done", "lost"}
    PROVE  \/ pc[r] \in {"done", "lost"} /\ reply'[r] = reply[r]
           \/ CacheHit(r) \/ LoadSessionRowFails(r) \/ AgentFails(r)
           \/ Commit(r) \/ CommitFails(r)
<1>t. /\ pc \in [Requests -> Labels] /\ reply \in [Requests -> ReplyType]
      /\ IInv /\ TypeOK
  BY DEF RInv, IInv, TypeOK, ReplyType
<1>1. ASSUME NEW q \in Requests, Arrive(q) \/ Handle(q),
             ~CacheHit(q), ~LoadSessionRowFails(q), ~AgentFails(q), ~Closes(q)
      PROVE  /\ reply' = reply
             /\ \E call, next : Awaits(q, call, next) /\ next \notin {"done", "lost"}
  BY <1>1 DEF Handle, Closes, Arrive, CacheMiss, LoadSession, LoadSessionRow,
     AgentAnswers, FlushProblem, FlushProblemFails, FlushSolution,
     FlushSolutionFails, ReadSession, WriteSession, WriteCache
<1>2. ASSUME NEW q \in Requests \ {r},
             CacheHit(q) \/ LoadSessionRowFails(q) \/ AgentFails(q) \/ Closes(q)
      PROVE  pc'[r] = pc[r] /\ reply'[r] = reply[r]
  BY <1>t, <1>2, ClosingReplies
     DEF CacheHit, LoadSessionRowFails, AgentFails, Refuse, Awaits
<1>3. CASE AnswerFirst(r)
  BY <1>t, <1>3 DEF AnswerFirst, Awaits
<1>4. ASSUME NEW q \in Requests, Arrive(q) \/ Handle(q),
             ~CacheHit(q), ~LoadSessionRowFails(q), ~AgentFails(q), ~Closes(q)
      PROVE  pc[r] \in {"done", "lost"} /\ reply'[r] = reply[r]
  BY <1>t, <1>1, <1>4 DEF Awaits
<1>5. CASE UNCHANGED <<pc, reply>>
  BY <1>5
<1> QED BY <1>2, <1>3, <1>4, <1>5
        DEF Next, Closes, ExpireCache, ExpireSession, Crash, Idle, vars, requestVars

\* math_service.py:6 "Persist result to PostgreSQL": a database that takes
\* every statement, as the tests' SQLite does, holds the rows of every request
\* that was answered by its own agent run when that request ends, whatever
\* Redis and the agent do.  A crash must be excluded as well, because the
\* answer may be sent before the commit (AnswerFirst).
THEOREM ReliableDatabaseSaves ==
    ASSUME DatabaseIsReliable, "crash" \notin Faults
    PROVE  Spec => []AnswersAreSaved
<1>1. Init => AnswersAreSaved
  BY DEF Init, AnswersAreSaved, NoReply
<1>2. RInv /\ NeverBroken /\ AnswersAreSaved /\ [Next]_vars => AnswersAreSaved'
  <2> SUFFICES ASSUME RInv, NeverBroken, AnswersAreSaved, [Next]_vars,
                      NEW r \in Requests, pc'[r] \in {"done", "lost"},
                      reply'[r].status = 200, reply'[r].response.by = r
               PROVE  r \in solutions'
    BY DEF AnswersAreSaved
  <2>t. /\ IInv /\ reply \in [Requests -> ReplyType]
        /\ cache \in [CacheKeys -> Responses \union {NoResponse}]
        /\ body \in [Requests -> Bodies]
    BY DEF RInv, IInv, TypeOK, ReplyType
  <2>1. CASE pc[r] \in {"done", "lost"} /\ reply'[r] = reply[r]
    BY <2>t, <2>1, RowsStay DEF AnswersAreSaved
  <2>2. CASE CacheHit(r)
    <3> DEFINE stored == cache[solve_cache_key(body[r].query)]
               sent == [stored EXCEPT !.cache_hit = TRUE]
    <3>1. /\ pc[r] = "cache_get" /\ stored # NoResponse
          /\ reply' = [reply EXCEPT ![r] = [status |-> 200, response |-> sent]]
      BY <2>2 DEF CacheHit, Awaits
    <3>2. stored \in Responses
      BY <2>t, <3>1, SessionType
    <3>3. response[stored.by] # NoResponse
      BY <2>t, <3>1, SessionType DEF RInv, CacheInv
    <3>4. response[r] = NoResponse
      BY <2>t, <3>1 DEF IInv, ResponseInv, Early
    <3>5. sent.by = stored.by
      BY <3>2 DEF Responses
    <3>6. sent.by # r
      BY <3>3, <3>4, <3>5
    <3>7. reply'[r].response = sent
      <4> HIDE DEF sent
      <4> QED BY <2>t, <3>1
    <3> QED BY <3>6, <3>7
  <2>3. CASE LoadSessionRowFails(r) \/ AgentFails(r)
    <3>1. PICK status \in {500, 504} :
             reply' = [reply EXCEPT ![r] = [status |-> status, response |-> NoResponse]]
      BY <2>3 DEF LoadSessionRowFails, AgentFails, Refuse
    <3> QED BY <2>t, <3>1
  <2>4. CASE Commit(r)
    <3>1. pc[r] = "commit"
      BY <2>4 DEF Commit, Ends, Awaits
    <3>2. tx[r].solution
      BY <2>t, <3>1 DEF IInv, TxInv, NeverBroken
    <3> QED BY <2>4, <3>2 DEF Commit, Rows
  <2>5. CASE CommitFails(r)
    BY <2>5 DEF CommitFails, NeverBroken, DatabaseIsReliable
  <2> QED BY <2>1, <2>2, <2>3, <2>4, <2>5, EndAccess
<1> QED BY <1>1, <1>2, RInvInductive, NeverBrokenInductive, PTL DEF Spec

\* tests/e2e/test_solve_flow.py:64 expects 200 of an agent that answers: so it
\* is if the ORM classes can be configured, no session id is malformed and
\* neither the database nor the agent fails, whatever Redis does.
THEOREM ReliableServiceHasNoErrors ==
    ASSUME DatabaseIsReliable, "agent" \notin Faults, MappersConfigured,
           SessionIds \intersect MalformedIds = {},
           Requests \intersect MalformedIds = {}
    PROVE  Spec => []NoInternalError
<1>1. Init => NoInternalError
  BY DEF Init, NoInternalError, NoReply
<1>2. IInv /\ NeverBroken /\ NoInternalError /\ [Next]_vars => NoInternalError'
  <2> SUFFICES ASSUME IInv, NeverBroken, NoInternalError, [Next]_vars
               PROVE  NoInternalError'
    OBVIOUS
  <2>t. reply \in [Requests -> ReplyType] /\ body \in [Requests -> Bodies]
    BY DEF IInv, TypeOK, ReplyType
  <2>1. CASE reply' = reply
    BY <2>1 DEF NoInternalError
  <2>2. ASSUME NEW r \in Requests, CacheHit(r) \/ (Closes(r) /\ ~CommitFails(r)),
               reply' # reply
        PROVE  NoInternalError'
    <3>1. \E response_sent :
             reply' = [reply EXCEPT ![r] = [status |-> 200, response |-> response_sent]]
      BY <2>2, ClosingReplies DEF IInv, CacheHit, Answered
    <3> QED BY <2>t, <3>1 DEF NoInternalError
  <2>3. ASSUME NEW r \in Requests, LoadSessionRowFails(r) \/ AgentFails(r)
                                   \/ CommitFails(r)
        PROVE  FALSE
    <3>1. session_id(r) \notin MalformedIds
      BY <2>t, SessionType DEF Sessions
    <3> QED BY <2>3, <3>1 DEF LoadSessionRowFails, AgentFails, CommitFails,
              NeverBroken, DatabaseIsReliable
  <2> QED BY <2>1, <2>2, <2>3, ReplyAccess
<1> QED BY <1>1, <1>2, IInvInductive, NeverBrokenInductive, PTL DEF Spec

\* What a cached response says of session and steps is what its request asked.
FitInv ==
    /\ \A r \in Requests :
        response[r] # NoResponse =>
            response[r].session_id = session_id(r) /\ response[r].steps = body[r].show_steps
    /\ \A key \in CacheKeys :
        cache[key] # NoResponse => cache[key] = response[cache[key].by]

\* FitInv holds in every reachable state.
LEMMA FitInvInductive == Spec => []FitInv
<1>1. Init => FitInv
  BY DEF Init, FitInv
<1>2. RInv /\ FitInv /\ [Next]_vars => FitInv'
  <2> SUFFICES ASSUME RInv, FitInv, [Next]_vars PROVE FitInv'
    OBVIOUS
  <2>t. /\ IInv /\ CacheInv /\ ResponseInv
        /\ body \in [Requests -> Bodies] /\ pc \in [Requests -> Labels]
        /\ response \in [Requests -> Responses \union {NoResponse}]
        /\ cache \in [CacheKeys -> Responses \union {NoResponse}]
    BY DEF RInv, IInv, TypeOK
  <2>1. ASSUME NEW r \in Requests, AgentAnswers(r) PROVE FitInv'
    <3>1. /\ body' = body /\ cache' = cache
          /\ response'[r].session_id = session_id(r)
          /\ response'[r].steps = body[r].show_steps
          /\ \A q \in Requests \ {r} : response'[q] = response[q]
          /\ response[r] = NoResponse
      BY <2>1, <2>t DEF AgentAnswers, redisVars, Awaits, ResponseInv, Early
    <3>2. ASSUME NEW key \in CacheKeys, cache[key] # NoResponse
          PROVE  cache[key] = response'[cache[key].by]
      <4>1. cache[key].by \in Requests /\ response[cache[key].by] # NoResponse
        BY <2>t, <3>2 DEF CacheInv, Responses
      <4> QED BY <3>1, <3>2, <4>1 DEF FitInv
    <3> QED BY <3>1, <3>2 DEF FitInv, session_id
  <2>2. ASSUME NEW r \in Requests, WriteCache(r) PROVE FitInv'
    <3>1. /\ body' = body /\ response' = response
          /\ pc[r] = "cache_set" /\ response[r].by = r
      BY <2>2, <2>t DEF WriteCache, Awaits, ResponseInv, Late
    <3>2. \A key \in CacheKeys : cache'[key] = cache[key] \/ cache'[key] = response[r]
      BY <2>2, <2>t DEF WriteCache
    <3> QED BY <3>1, <3>2 DEF FitInv, session_id
  <2>3. ASSUME NEW key \in CacheKeys, ExpireCache(key) PROVE FitInv'
    <3>1. body' = body /\ response' = response
      BY <2>3 DEF ExpireCache, requestVars
    <3>2. \A other \in CacheKeys : cache'[other] = cache[other] \/ cache'[other] = NoResponse
      BY <2>3, <2>t DEF ExpireCache
    <3> QED BY <3>1, <3>2 DEF FitInv, session_id
  <2>4. CASE UNCHANGED <<body, response, cache>>
    BY <2>4 DEF FitInv, session_id
  <2>5. ASSUME NEW r \in Requests, Arrive(r) \/ Handle(r), ~AgentAnswers(r), ~WriteCache(r)
        PROVE  UNCHANGED <<body, response, cache>>
    BY <2>5 DEF Handle, Arrive, CacheHit, CacheMiss, LoadSession, LoadSessionRow,
       LoadSessionRowFails, AgentFails, Refuse, FlushProblem, FlushProblemFails,
       FlushSolution, FlushSolutionFails, ReadSession, WriteSession, AnswerFirst,
       Commit, CommitFails, Ends, redisVars
  <2> QED BY <2>1, <2>2, <2>3, <2>4, <2>5
        DEF Next, ExpireSession, Crash, Idle, vars, requestVars, redisVars
<1> QED BY <1>1, <1>2, RInvInductive, PTL DEF Spec

\* schemas/solve.py:32 and :35, session_id and show_steps: a reply fits its
\* request if requests for the same problem never differ in the two.  They are
\* all the cache key leaves out that a reply depends on.
THEOREM HitsFitWhatTheKeyTells ==
    ASSUME \A b1, b2 \in Bodies :
               Normal[b1.query] = Normal[b2.query] =>
                   b1.session_id = b2.session_id /\ b1.show_steps = b2.show_steps
    PROVE  Spec => []HitFitsTheRequest
<1> DEFINE Fits(r, sent) ==
             /\ body[r].session_id # NoSession => sent.session_id = session_id(r)
             /\ body[r].show_steps => sent.steps
<1>1. Init => HitFitsTheRequest
  BY DEF Init, HitFitsTheRequest, NoReply
<1>2. RInv /\ FitInv /\ HitFitsTheRequest /\ [Next]_vars => HitFitsTheRequest'
  <2> SUFFICES ASSUME RInv, FitInv, HitFitsTheRequest, [Next]_vars
               PROVE  HitFitsTheRequest'
    OBVIOUS
  <2>t. /\ IInv /\ ResponseInv /\ CacheInv /\ reply \in [Requests -> ReplyType]
        /\ body \in [Requests -> Bodies] /\ body' = body
        /\ response \in [Requests -> Responses \union {NoResponse}]
        /\ cache \in [CacheKeys -> Responses \union {NoResponse}]
    BY BodyStays DEF RInv, IInv, TypeOK, ReplyType
  \* It is enough to look at the reply that is new.
  <2>m. ASSUME NEW r \in Requests, NEW status, NEW sent,
               reply' = [reply EXCEPT ![r] = [status |-> status, response |-> sent]],
               status = 200 => Fits(r, sent)
        PROVE  HitFitsTheRequest'
    <3>1. ASSUME NEW q \in Requests, reply'[q].status = 200
          PROVE  Fits(q, reply'[q].response)
      BY <2>t, <2>m, <3>1 DEF HitFitsTheRequest
    <3> QED BY <2>t, <3>1 DEF HitFitsTheRequest, session_id
  <2> HIDE DEF Fits
  <2>1. CASE reply' = reply
    BY <2>t, <2>1 DEF HitFitsTheRequest, session_id
  <2>2. ASSUME NEW r \in Requests, CacheHit(r) PROVE HitFitsTheRequest'
    <3> DEFINE stored == cache[solve_cache_key(body[r].query)]
               source == stored.by
               sent   == [stored EXCEPT !.cache_hit = TRUE]
    <3>1. /\ stored # NoResponse
          /\ reply' = [reply EXCEPT ![r] = [status |-> 200, response |-> sent]]
      BY <2>2 DEF CacheHit
    <3>2. stored \in Responses /\ source \in Requests
          /\ solve_cache_key(body[r].query) \in CacheKeys
      BY <2>t, <3>1, SessionType DEF Responses
    <3>3. /\ stored = response[source] /\ response[source] # NoResponse
          /\ solve_cache_key(body[source].query) = solve_cache_key(body[r].query)
      BY <2>t, <3>1, <3>2 DEF FitInv, CacheInv
    <3>4. /\ stored.session_id = session_id(source)
          /\ stored.steps = body[source].show_steps
      BY <3>2, <3>3 DEF FitInv
    <3>5. Normal[body[source].query] = Normal[body[r].query]
      BY <2>t, <3>2, <3>3, SessionType, KeyInjective
    <3>6. /\ body[source].session_id = body[r].session_id
          /\ body[source].show_steps = body[r].show_steps
      BY <2>t, <3>2, <3>5
    <3>7. sent.session_id = stored.session_id /\ sent.steps = stored.steps
      BY <3>2 DEF Responses
    <3>8. Fits(r, sent)
      BY <3>4, <3>6, <3>7 DEF session_id, Fits
    <3> HIDE DEF sent
    <3> QED BY <2>m, <3>1, <3>8
  <2>3. ASSUME NEW r \in Requests, LoadSessionRowFails(r) \/ AgentFails(r)
        PROVE  HitFitsTheRequest'
    <3>1. PICK status \in {500, 504} :
             reply' = [reply EXCEPT ![r] = [status |-> status, response |-> NoResponse]]
      BY <2>3 DEF LoadSessionRowFails, AgentFails, Refuse
    <3>2. \A q \in Requests : reply'[q] = reply[q] \/ reply'[q].status # 200
      BY <2>t, <3>1
    <3> QED BY <2>t, <3>2 DEF HitFitsTheRequest, session_id
  <2>4. ASSUME NEW r \in Requests, Closes(r), reply' # reply
        PROVE  HitFitsTheRequest'
    <3>1. pc[r] = "commit"
      BY <2>4, ClosingReplies DEF RInv, IInv
    <3>2. Fits(r, response[r])
      BY <2>t, <3>1 DEF ResponseInv, FitInv, Late, Fits
    <3>3. \/ reply' = [reply EXCEPT ![r] = [status |-> 200, response |-> response[r]]]
          \/ reply' = [reply EXCEPT ![r] = [status |-> 500, response |-> NoResponse]]
      BY <2>4, ClosingReplies DEF RInv, IInv, Answered, Error500
    <3> QED BY <2>m, <3>2, <3>3
  <2> QED BY <2>t, <2>1, <2>2, <2>3, <2>4, ReplyAccess
<1> QED BY <1>1, <1>2, RInvInductive, FitInvInductive, PTL DEF Spec
=============================================================================
