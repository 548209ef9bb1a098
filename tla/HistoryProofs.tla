---------------------------- MODULE HistoryProofs ----------------------------
(***************************************************************************)
(* Theorems about the session histories SolveService keeps in Redis, for   *)
(* any number of requests, sessions and faults and any even MaxMessages.   *)
(*                                                                         *)
(* _update_session writes back what it read one await before, so an        *)
(* invariant of Redis alone is not inductive: it has to hold of the lists   *)
(* requests have read (seen) as well, and neither may mention a request     *)
(* that has yet to write.  That the last 20 messages of such a list are a   *)
(* list of whole exchanges again rests on MaxMessages being even.          *)
(***************************************************************************)
EXTENDS SolveServiceProofs, FiniteSetTheorems

\* The first 2 * n messages are n exchanges of session s, by n requests.
Exchanges(s, history, n) ==
    /\ Len(history) = 2 * n
    /\ \A k \in 1 .. n :
        /\ history[2 * k - 1].role = "user" /\ history[2 * k].role = "assistant"
        /\ history[2 * k - 1].by = history[2 * k].by
        /\ session_id(history[2 * k].by) = s
    /\ \A k, l \in 1 .. n : history[2 * k].by = history[2 * l].by => k = l

IsHistory(s, history) ==
    /\ history \in Seq(Message) /\ Len(history) <= MaxMessages
    /\ \E n \in Nat : Exchanges(s, history, n)

\* The requests that may have written their exchange.
Stored == {"cache_set", "commit", "done", "lost"}
WrittenBefore(history) == \A i \in 1 .. Len(history) : pc[history[i].by] \in Stored

HistoryInv ==
    /\ \A s \in Sessions : IsHistory(s, sessions[s]) /\ WrittenBefore(sessions[s])
    /\ \A r \in Requests : IsHistory(session_id(r), seen[r]) /\ WrittenBefore(seen[r])

(***************************************************************************)
(* Lemmas about lists of exchanges.                                        *)
(***************************************************************************)

\* A message is by a request.
LEMMA MessageBy ==
    ASSUME NEW history \in Seq(Message), NEW i \in 1 .. Len(history)
    PROVE  history[i].by \in Requests
<1>1. history[i] \in Message
  OBVIOUS
<1> QED BY <1>1 DEF Message

\* The empty history is one, and mentions nobody.
LEMMA EmptyHistory ==
    ASSUME NEW s
    PROVE  IsHistory(s, <<>>) /\ WrittenBefore(<<>>)
<1>1. <<>> \in Seq(Message) /\ Len(<<>>) = 0 /\ MaxMessages \in Nat
  BY MessageAssumption
<1>2. Exchanges(s, <<>>, 0)
  BY <1>1 DEF Exchanges
<1> QED BY <1>1, <1>2 DEF IsHistory, WrittenBefore

\* What an exchange adds to a list of messages.
LEMMA ExchangeAppended ==
    ASSUME NEW history \in Seq(Message), NEW r \in Requests
    PROVE  LET longer == history \o Exchange(r) IN
           /\ longer \in Seq(Message) /\ Len(longer) = Len(history) + 2
           /\ \A i \in 1 .. Len(history) : longer[i] = history[i]
           /\ longer[Len(history) + 1] = [role |-> "user", by |-> r]
           /\ longer[Len(history) + 2] = [role |-> "assistant", by |-> r]
<1>1. Exchange(r) \in Seq(Message) /\ Len(Exchange(r)) = 2
      /\ Exchange(r)[1] = [role |-> "user", by |-> r]
      /\ Exchange(r)[2] = [role |-> "assistant", by |-> r]
  BY DEF Exchange, Message
<1>2. /\ history \o Exchange(r) \in Seq(Message)
      /\ Len(history \o Exchange(r)) = Len(history) + Len(Exchange(r))
      /\ \A i \in 1 .. Len(history) + Len(Exchange(r)) :
             (history \o Exchange(r))[i] =
                 IF i <= Len(history) THEN history[i]
                 ELSE Exchange(r)[i - Len(history)]
  <2>1. Exchange(r) \in Seq(Message)
    BY <1>1
  <2> QED BY ONLY <2>1, history \in Seq(Message), ConcatProperties
<1> DEFINE longer == history \o Exchange(r)
           l == Len(history)
<1>3. /\ l \in Nat
      /\ \A i \in 1 .. l : longer[i] = history[i]
      /\ longer[l + 1] = Exchange(r)[(l + 1) - l]
      /\ longer[l + 2] = Exchange(r)[(l + 2) - l]
  <2>1. l \in Nat
    OBVIOUS
  <2>2. \A i \in 1 .. l + 2 :
           longer[i] = IF i <= l THEN history[i] ELSE Exchange(r)[i - l]
    BY <1>1, <1>2
  <2> HIDE DEF longer, l
  <2> QED BY <2>1, <2>2
<1>4. (l + 1) - l = 1 /\ (l + 2) - l = 2
  <2>1. l \in Nat
    BY <1>3
  <2> HIDE DEF l
  <2> QED BY <2>1
<1> QED BY <1>1, <1>2, <1>3, <1>4

\* A further exchange of the session, of a request not in the list yet.
LEMMA OneMoreExchange ==
    ASSUME NEW s, NEW history \in Seq(Message), NEW n \in Nat,
           Exchanges(s, history, n),
           NEW r \in Requests, session_id(r) = s,
           \A i \in 1 .. Len(history) : history[i].by # r
    PROVE  Exchanges(s, history \o Exchange(r), n + 1)
<1> DEFINE longer == history \o Exchange(r)
<1>1. /\ Len(longer) = 2 * (n + 1)
      /\ \A i \in 1 .. 2 * n : longer[i] = history[i]
      /\ longer[2 * (n + 1) - 1] = [role |-> "user", by |-> r]
      /\ longer[2 * (n + 1)] = [role |-> "assistant", by |-> r]
  <2>1. Len(history) = 2 * n /\ Len(history) \in Nat
    BY DEF Exchanges
  <2>2. 2 * (n + 1) - 1 = Len(history) + 1 /\ 2 * (n + 1) = Len(history) + 2
    BY <2>1
  <2> QED BY <2>1, <2>2, ExchangeAppended
<1>2. ASSUME NEW k \in 1 .. n
      PROVE  /\ longer[2 * k - 1] = history[2 * k - 1]
             /\ longer[2 * k] = history[2 * k]
             /\ history[2 * k].by # r
  <2>1. 2 * k - 1 \in 1 .. 2 * n /\ 2 * k \in 1 .. 2 * n /\ Len(history) = 2 * n
    BY DEF Exchanges
  <2> QED BY <1>1, <2>1
<1> HIDE DEF longer
<1>3. ASSUME NEW k \in 1 .. n + 1
      PROVE  /\ longer[2 * k - 1].role = "user" /\ longer[2 * k].role = "assistant"
             /\ longer[2 * k - 1].by = longer[2 * k].by
             /\ session_id(longer[2 * k].by) = s
  <2>1. CASE k = n + 1
    BY <1>1, <2>1
  <2>2. CASE k \in 1 .. n
    BY <1>2, <2>2 DEF Exchanges
  <2> QED BY <2>1, <2>2
<1>4. ASSUME NEW k \in 1 .. n + 1, NEW l \in 1 .. n + 1,
             longer[2 * k].by = longer[2 * l].by
      PROVE  k = l
  <2>1. CASE k \in 1 .. n /\ l \in 1 .. n
    BY <1>2, <1>4, <2>1 DEF Exchanges
  <2>2. longer[2 * (n + 1)].by = r /\ \A i \in 1 .. n : longer[2 * i].by # r
    BY <1>1, <1>2
  <2>3. CASE k = n + 1 /\ l \in 1 .. n
    BY <1>4, <2>2, <2>3
  <2>4. CASE k \in 1 .. n /\ l = n + 1
    BY <1>4, <2>2, <2>4
  <2>5. CASE k = n + 1 /\ l = n + 1
    BY <2>5
  <2> QED BY <2>1, <2>3, <2>4, <2>5
<1>5. Exchanges(s, longer, n + 1)
  BY <1>1, <1>3, <1>4 DEF Exchanges
<1> QED BY <1>5 DEF longer

\* Dropping the m oldest exchanges leaves the others.
LEMMA OldestDropped ==
    ASSUME NEW s, NEW history \in Seq(Message), NEW n \in Nat,
           Exchanges(s, history, n), NEW m \in 0 .. n
    PROVE  LET rest == SubSeq(history, 2 * m + 1, Len(history)) IN
           /\ rest \in Seq(Message)
           /\ Exchanges(s, rest, n - m)
           /\ \A i \in 1 .. Len(rest) : \E j \in 1 .. Len(history) : rest[i] = history[j]
<1> DEFINE rest == SubSeq(history, 2 * m + 1, Len(history))
<1>1. /\ rest \in Seq(Message) /\ Len(rest) = 2 * (n - m)
      /\ \A i \in 1 .. 2 * (n - m) : rest[i] = history[2 * m + i]
  <2>1. /\ Len(history) = 2 * n
        /\ 2 * m + 1 \in 1 .. Len(history) + 1
        /\ Len(history) \in 2 * m .. Len(history)
    BY DEF Exchanges
  <2> QED BY <2>1, SubSeqProperties
<1>2. Len(history) = 2 * n
  BY DEF Exchanges
<1> HIDE DEF rest
<1>3. ASSUME NEW k \in 1 .. n - m
      PROVE  /\ m + k \in 1 .. n
             /\ rest[2 * k - 1] = history[2 * (m + k) - 1]
             /\ rest[2 * k] = history[2 * (m + k)]
  <2>1. /\ 2 * k - 1 \in 1 .. 2 * (n - m) /\ 2 * k \in 1 .. 2 * (n - m)
        /\ 2 * m + (2 * k - 1) = 2 * (m + k) - 1 /\ 2 * m + 2 * k = 2 * (m + k)
        /\ m + k \in 1 .. n
    OBVIOUS
  <2>2. rest[2 * k - 1] = history[2 * m + (2 * k - 1)]
    BY <1>1, <2>1
  <2>3. rest[2 * k] = history[2 * m + 2 * k]
    BY <1>1, <2>1
  <2> QED BY <2>1, <2>2, <2>3
<1>4. ASSUME NEW k \in 1 .. n - m
      PROVE  /\ rest[2 * k - 1].role = "user" /\ rest[2 * k].role = "assistant"
             /\ rest[2 * k - 1].by = rest[2 * k].by
             /\ session_id(rest[2 * k].by) = s
  <2> DEFINE e == m + k
  <2>1. /\ e \in 1 .. n
        /\ rest[2 * k - 1] = history[2 * e - 1] /\ rest[2 * k] = history[2 * e]
    BY <1>3
  <2> HIDE DEF e
  <2> QED BY <2>1 DEF Exchanges
<1>5. ASSUME NEW k \in 1 .. n - m, NEW l \in 1 .. n - m,
             rest[2 * k].by = rest[2 * l].by
      PROVE  k = l
  <2> DEFINE e == m + k
             f == m + l
  <2>1. /\ e \in 1 .. n /\ rest[2 * k] = history[2 * e]
        /\ f \in 1 .. n /\ rest[2 * l] = history[2 * f]
    BY <1>3
  <2>2. e = f
    <3> HIDE DEF e, f
    <3> QED BY <1>5, <2>1 DEF Exchanges
  <2> QED BY <2>2
<1>6. Exchanges(s, rest, n - m)
  BY <1>1, <1>4, <1>5 DEF Exchanges
<1>7. ASSUME NEW i \in 1 .. Len(rest)
      PROVE  \E j \in 1 .. Len(history) : rest[i] = history[j]
  <2>1. i \in 1 .. 2 * (n - m) /\ 2 * m + i \in 1 .. Len(history)
    BY <1>1, <1>2
  <2> QED BY <1>1, <2>1
<1>8. /\ rest \in Seq(Message) /\ Exchanges(s, rest, n - m)
      /\ \A i \in 1 .. Len(rest) : \E j \in 1 .. Len(history) : rest[i] = history[j]
  BY <1>1, <1>6, <1>7
<1> QED BY <1>8 DEF rest

\* The cut to the last MaxMessages falls between two exchanges.
LEMMA KeepLastHistory ==
    ASSUME NEW s, NEW history \in Seq(Message), NEW n \in Nat,
           Exchanges(s, history, n)
    PROVE  /\ IsHistory(s, KeepLast(history))
           /\ \A i \in 1 .. Len(KeepLast(history)) :
                  \E j \in 1 .. Len(history) : KeepLast(history)[i] = history[j]
<1>1. PICK half \in Nat : MaxMessages = 2 * half
  BY MessageAssumption
<1>2. Len(history) = 2 * n
  BY DEF Exchanges
<1>3. CASE n <= half
  <2>1. KeepLast(history) = history /\ Len(history) <= MaxMessages
    BY <1>1, <1>2, <1>3 DEF KeepLast
  <2> QED BY <2>1 DEF IsHistory
<1>4. CASE n > half
  <2> DEFINE m == n - half
  <2>1. m \in 0 .. n /\ n - m = half
    BY <1>4
  <2>d. LET rest == SubSeq(history, 2 * m + 1, Len(history)) IN
        /\ rest \in Seq(Message)
        /\ Exchanges(s, rest, n - m)
        /\ \A i \in 1 .. Len(rest) : \E j \in 1 .. Len(history) : rest[i] = history[j]
    <3> HIDE DEF m
    <3> QED BY <2>1, OldestDropped
  <2>2. KeepLast(history) = SubSeq(history, 2 * m + 1, Len(history))
    <3>1. Len(history) > MaxMessages /\ Len(history) - MaxMessages + 1 = 2 * m + 1
      BY <1>1, <1>2, <1>4
    <3> QED BY <3>1 DEF KeepLast
  <2>3. /\ KeepLast(history) \in Seq(Message)
        /\ Exchanges(s, KeepLast(history), half)
        /\ \A i \in 1 .. Len(KeepLast(history)) :
               \E j \in 1 .. Len(history) : KeepLast(history)[i] = history[j]
    BY <2>1, <2>2, <2>d
  <2>4. Len(KeepLast(history)) <= MaxMessages
    BY <1>1, <2>3 DEF Exchanges
  <2> QED BY <2>3, <2>4 DEF IsHistory
<1> QED BY <1>3, <1>4

(***************************************************************************)
(* The inductive invariant.                                                *)
(***************************************************************************)

\* A request that may have written stays one, and no step changes a body.
LEMMA StoredStays ==
    ASSUME IInv, [Next]_vars
    PROVE  /\ \A r \in Requests : pc[r] \in Stored => pc'[r] \in Stored
           /\ \A r \in Requests : session_id(r)' = session_id(r)
<1>t. pc \in [Requests -> Labels]
  BY DEF IInv, TypeOK
<1>1. ASSUME NEW r \in Requests, Arrive(r) \/ Handle(r)
      PROVE  /\ body' = body
             /\ \E call, next \in Labels :
                    Awaits(r, call, next) /\ (call \in Stored => next \in Stored)
  <2>1. CASE Arrive(r) \/ CacheHit(r) \/ CacheMiss(r) \/ LoadSessionRow(r)
             \/ AgentAnswers(r) \/ FlushProblem(r) \/ FlushProblemFails(r)
             \/ FlushSolution(r) \/ FlushSolutionFails(r) \/ ReadSession(r)
             \/ WriteSession(r) \/ WriteCache(r)
    BY <2>1 DEF Arrive, CacheHit, CacheMiss, LoadSessionRow, AgentAnswers,
       FlushProblem, FlushProblemFails, FlushSolution, FlushSolutionFails,
       ReadSession, WriteSession, WriteCache, Labels, Stored
  <2>2. CASE LoadSession(r)
    BY <2>2 DEF LoadSession, Labels, Stored
  <2>3. CASE LoadSessionRowFails(r) \/ AgentFails(r)
    BY <2>3 DEF LoadSessionRowFails, AgentFails, Refuse, Labels, Stored
  <2>4. CASE AnswerFirst(r) \/ Commit(r) \/ CommitFails(r)
    BY <2>4 DEF AnswerFirst, Commit, CommitFails, Ends, Labels, Stored
  <2> QED BY <1>1, <2>1, <2>2, <2>3, <2>4 DEF Handle
<1>2. /\ body' = body
      /\ \A r \in Requests : pc[r] \in Stored => pc'[r] \in Stored
  <2>1. ASSUME NEW r \in Requests, Arrive(r) \/ Handle(r) PROVE <1>2
    <3>1. PICK call, next \in Labels :
             Awaits(r, call, next) /\ (call \in Stored => next \in Stored)
      BY <1>1, <2>1
    <3> QED BY <1>1, <1>t, <2>1, <3>1 DEF Awaits
  <2>2. ASSUME NEW lost \in SUBSET InFlight, Crash(lost) PROVE <1>2
    BY <2>2 DEF Crash, Stored
  <2>3. CASE UNCHANGED <<body, pc>>
    BY <2>3
  <2> QED BY <2>1, <2>2, <2>3
        DEF Next, ExpireCache, ExpireSession, Idle, vars, requestVars
<1> QED BY <1>2 DEF session_id

\* What is a history stays one, and a list that mentions only requests that
\* may have written goes on to.
LEMMA HistoryCarried ==
    ASSUME IInv, [Next]_vars, NEW s, NEW history, IsHistory(s, history)
    PROVE  IsHistory(s, history)'
<1>1. history \in Seq(Message) /\ Len(history) <= MaxMessages
  BY DEF IsHistory
<1>2. PICK n \in Nat : Exchanges(s, history, n)
  BY DEF IsHistory
<1>3. \A k \in 1 .. n : history[2 * k].by \in Requests
  <2> SUFFICES ASSUME NEW k \in 1 .. n PROVE history[2 * k].by \in Requests
    OBVIOUS
  <2>1. 2 * k \in 1 .. Len(history)
    BY <1>2 DEF Exchanges
  <2> QED BY <1>1, <2>1, MessageBy
<1>4. Exchanges(s, history, n)'
  BY <1>2, <1>3, StoredStays DEF Exchanges
<1> QED BY <1>1, <1>4 DEF IsHistory

\* Requests that had written still have after a step.
LEMMA WrittenBeforeCarried ==
    ASSUME IInv, [Next]_vars, NEW s, NEW history,
           IsHistory(s, history), WrittenBefore(history)
    PROVE  \A i \in 1 .. Len(history) : pc'[history[i].by] \in Stored
BY MessageBy, StoredStays DEF IsHistory, WrittenBefore

\* The history a request writes back with its own exchange added: the request
\* is not in the list it read, because it had not written by then.
LEMMA HistoryWritten ==
    ASSUME IInv, HistoryInv, NEW r \in Requests, WriteSession(r)
    PROVE  LET written == KeepLast(seen[r] \o Exchange(r)) IN
           /\ IsHistory(session_id(r), written)
           /\ \A i \in 1 .. Len(written) : pc'[written[i].by] \in Stored
<1> DEFINE longer  == seen[r] \o Exchange(r)
           written == KeepLast(longer)
<1>1. /\ pc[r] = "session_set" /\ pc'[r] = "cache_set"
      /\ \A q \in Requests \ {r} : pc'[q] = pc[q]
  BY AwaitsType DEF WriteSession, IInv, Labels
<1>2. /\ seen[r] \in Seq(Message)
      /\ \A i \in 1 .. Len(seen[r]) : seen[r][i].by \in Requests
                                      /\ pc[seen[r][i].by] \in Stored
  BY MessageBy DEF HistoryInv, IsHistory, WrittenBefore
<1>3. PICK n \in Nat : Exchanges(session_id(r), seen[r], n)
  BY DEF HistoryInv, IsHistory
<1>4. \A i \in 1 .. Len(seen[r]) : seen[r][i].by # r
  BY <1>1, <1>2 DEF Stored
<1>5. longer \in Seq(Message) /\ Exchanges(session_id(r), longer, n + 1)
  BY <1>2, <1>3, <1>4, OneMoreExchange, ExchangeAppended
<1>6. \A j \in 1 .. Len(longer) : pc'[longer[j].by] \in Stored
  <2> SUFFICES ASSUME NEW j \in 1 .. Len(longer)
               PROVE  pc'[longer[j].by] \in Stored
    OBVIOUS
  <2>1. /\ Len(longer) = Len(seen[r]) + 2
        /\ \A i \in 1 .. Len(seen[r]) : longer[i] = seen[r][i]
        /\ longer[Len(seen[r]) + 1].by = r
        /\ longer[Len(seen[r]) + 2].by = r
    <3>1. seen[r] \in Seq(Message)
      BY <1>2
    <3>2. /\ Len(longer) = Len(seen[r]) + 2
          /\ \A i \in 1 .. Len(seen[r]) : longer[i] = seen[r][i]
          /\ longer[Len(seen[r]) + 1] = [role |-> "user", by |-> r]
          /\ longer[Len(seen[r]) + 2] = [role |-> "assistant", by |-> r]
      BY ONLY <3>1, r \in Requests, ExchangeAppended
    <3> QED BY <3>2
  <2>2. Len(seen[r]) \in Nat
    BY <1>2
  <2>3. \/ j \in 1 .. Len(seen[r])
        \/ j = Len(seen[r]) + 1 \/ j = Len(seen[r]) + 2
    BY <2>1, <2>2
  <2>4. CASE j \in 1 .. Len(seen[r])
    BY <1>1, <1>2, <2>1, <2>4 DEF Stored
  <2>5. CASE j = Len(seen[r]) + 1 \/ j = Len(seen[r]) + 2
    BY <1>1, <2>1, <2>5 DEF Stored
  <2> QED BY <2>3, <2>4, <2>5
<1> HIDE DEF longer
<1>7. /\ IsHistory(session_id(r), written)
      /\ \A i \in 1 .. Len(written) : \E j \in 1 .. Len(longer) : written[i] = longer[j]
  <2>1. n + 1 \in Nat
    OBVIOUS
  <2> QED BY <1>5, <2>1, KeepLastHistory
<1>8. \A i \in 1 .. Len(written) : pc'[written[i].by] \in Stored
  BY <1>6, <1>7
<1> QED BY <1>7, <1>8 DEF longer

\* The invariant is inductive: one step per kind of access to a history.
LEMMA HistoryStep ==
    ASSUME IInv, HistoryInv, [Next]_vars
    PROVE  HistoryInv'
<1>t. /\ body \in [Requests -> Bodies]
      /\ seen \in [Requests -> Seq(Message)] /\ sessions \in [Sessions -> Seq(Message)]
      /\ \A r \in Requests : session_id(r) \in Sessions /\ session_id(r)' = session_id(r)
  BY SessionType, StoredStays DEF IInv, TypeOK
\* Both maps keep the invariant if every list in them is empty, the one there
\* was, or the one just written.
<1>e. ASSUME NEW s, NEW history,
             \/ history = <<>>
             \/ IsHistory(s, history) /\ WrittenBefore(history)
             \/ IsHistory(s, history)
                /\ \A i \in 1 .. Len(history) : pc'[history[i].by] \in Stored
      PROVE  IsHistory(s, history)' /\ WrittenBefore(history)'
  <2>1. IsHistory(s, history)
    BY <1>e, EmptyHistory
  <2>2. IsHistory(s, history)'
    BY <2>1, HistoryCarried
  <2>3. WrittenBefore(history)'
    BY <1>e, <2>1, WrittenBeforeCarried DEF WrittenBefore
  <2> QED BY <2>2, <2>3
<1>1. ASSUME NEW r \in Requests, LoadSession(r) \/ ReadSession(r) PROVE HistoryInv'
  <2>1. PICK history \in {sessions[session_id(r)], <<>>} :
           seen' = [seen EXCEPT ![r] = history]
    BY <1>1 DEF LoadSession, ReadSession, Get
  <2>2. sessions' = sessions
    BY <1>1 DEF LoadSession, ReadSession, redisVars
  <2>3. ASSUME NEW q \in Requests
        PROVE  \/ seen'[q] = <<>>
               \/ IsHistory(session_id(q), seen'[q]) /\ WrittenBefore(seen'[q])
    BY <1>t, <2>1 DEF HistoryInv
  <2>4. \A s \in Sessions : IsHistory(s, sessions[s]) /\ WrittenBefore(sessions[s])
    BY DEF HistoryInv
  <2> QED BY <1>t, <1>e, <2>2, <2>3, <2>4 DEF HistoryInv
<1>2. ASSUME NEW r \in Requests, WriteSession(r) PROVE HistoryInv'
  <2> DEFINE written == KeepLast(seen[r] \o Exchange(r))
  <2>1. /\ sessions' = sessions \/ sessions' = [sessions EXCEPT ![session_id(r)] = written]
        /\ seen' = seen
    BY <1>2 DEF WriteSession
  <2>2. /\ IsHistory(session_id(r), written)
        /\ \A i \in 1 .. Len(written) : pc'[written[i].by] \in Stored
    BY <1>2, HistoryWritten
  <2> HIDE DEF written
  <2>3. ASSUME NEW s \in Sessions
        PROVE  \/ IsHistory(s, sessions'[s]) /\ WrittenBefore(sessions'[s])
               \/ IsHistory(s, sessions'[s])
                  /\ \A i \in 1 .. Len(sessions'[s]) : pc'[sessions'[s][i].by] \in Stored
    BY <1>t, <2>1, <2>2 DEF HistoryInv
  <2>4. \A q \in Requests : IsHistory(session_id(q), seen[q]) /\ WrittenBefore(seen[q])
    BY DEF HistoryInv
  <2> QED BY <1>t, <1>e, <2>1, <2>3, <2>4 DEF HistoryInv
<1>3. ASSUME NEW expired \in Sessions, ExpireSession(expired) PROVE HistoryInv'
  <2>1. /\ sessions' = [sessions EXCEPT ![expired] = <<>>] /\ seen' = seen
    BY <1>3 DEF ExpireSession, requestVars
  <2>2. ASSUME NEW s \in Sessions
        PROVE  \/ sessions'[s] = <<>>
               \/ IsHistory(s, sessions'[s]) /\ WrittenBefore(sessions'[s])
    BY <1>t, <2>1 DEF HistoryInv
  <2>3. \A q \in Requests : IsHistory(session_id(q), seen[q]) /\ WrittenBefore(seen[q])
    BY DEF HistoryInv
  <2> QED BY <1>t, <1>e, <2>1, <2>2, <2>3 DEF HistoryInv
<1>4. CASE UNCHANGED <<seen, sessions>>
  BY <1>t, <1>e, <1>4 DEF HistoryInv
<1>5. ASSUME NEW r \in Requests, Arrive(r) \/ Handle(r),
             ~LoadSession(r), ~ReadSession(r), ~WriteSession(r)
      PROVE  UNCHANGED <<seen, sessions>>
  BY <1>5 DEF Handle, Arrive, CacheHit, CacheMiss, LoadSessionRow,
     LoadSessionRowFails, AgentAnswers, AgentFails, Refuse, FlushProblem,
     FlushProblemFails, FlushSolution, FlushSolutionFails, WriteCache, AnswerFirst, Commit,
     CommitFails, Ends, redisVars
<1> QED BY <1>1, <1>2, <1>3, <1>4, <1>5
      DEF Next, Handle, ExpireCache, Crash, Idle, vars, requestVars, redisVars

\* What Redis keeps and what requests have read of it are lists of exchanges,
\* by requests that had written by then, in every reachable state.
THEOREM HistoryInvInductive == Spec => []HistoryInv
<1>1. Init => HistoryInv
  BY EmptyHistory DEF Init, HistoryInv
<1>2. IInv /\ HistoryInv /\ [Next]_vars => HistoryInv'
  BY HistoryStep
<1> QED BY <1>1, <1>2, IInvInductive, PTL DEF Spec

(***************************************************************************)
(* What follows from it.                                                   *)
(***************************************************************************)

\* The i-th message belongs to exchange (i + 1) \div 2: to its user if i is
\* odd, and to its assistant if not.
LEMMA Position ==
    ASSUME NEW n \in Nat, NEW i \in 1 .. 2 * n
    PROVE  \E k \in 1 .. n : \/ i = 2 * k - 1 /\ i % 2 = 1
                             \/ i = 2 * k /\ i % 2 # 1
<1>1. CASE i % 2 = 1
  <2>1. /\ (i + 1) \div 2 \in 1 .. n
        /\ i = 2 * ((i + 1) \div 2) - 1
    BY <1>1
  <2> QED BY <1>1, <2>1
<1>2. CASE i % 2 # 1
  <2>1. i \div 2 \in 1 .. n /\ i = 2 * (i \div 2)
    BY <1>2
  <2> QED BY <1>2, <2>1
<1> QED BY <1>1, <1>2

\* Lists of exchanges are what HistoriesAreExchanges says message by message.
LEMMA MessageByMessage ==
    ASSUME NEW s, NEW history \in Seq(Message), NEW n \in Nat,
           Exchanges(s, history, n)
    PROVE  \A i \in 1 .. Len(history) :
            /\ session_id(history[i].by) = s
            /\ history[i].role = (IF i % 2 = 1 THEN "user" ELSE "assistant")
            /\ i % 2 = 1 => i < Len(history) /\ history[i + 1].by = history[i].by
            /\ \A j \in 1 .. Len(history) :
                history[i] = history[j] => i = j
<1>l. Len(history) = 2 * n
  BY DEF Exchanges
<1>k. ASSUME NEW k \in 1 .. n
      PROVE  /\ history[2 * k - 1].role = "user" /\ history[2 * k].role = "assistant"
             /\ history[2 * k - 1].by = history[2 * k].by
             /\ session_id(history[2 * k].by) = s
  BY DEF Exchanges
<1>d. ASSUME NEW k \in 1 .. n, NEW l \in 1 .. n, history[2 * k].by = history[2 * l].by
      PROVE  k = l
  BY <1>d DEF Exchanges
<1> SUFFICES ASSUME NEW i \in 1 .. 2 * n
             PROVE  /\ session_id(history[i].by) = s
                    /\ history[i].role = (IF i % 2 = 1 THEN "user" ELSE "assistant")
                    /\ i % 2 = 1 => i < 2 * n /\ history[i + 1].by = history[i].by
                    /\ \A j \in 1 .. 2 * n : history[i] = history[j] => i = j
  BY <1>l
<1>1. PICK k \in 1 .. n : \/ i = 2 * k - 1 /\ i % 2 = 1
                          \/ i = 2 * k /\ i % 2 # 1
  BY Position
<1>2. /\ session_id(history[i].by) = s
      /\ history[i].role = (IF i % 2 = 1 THEN "user" ELSE "assistant")
      /\ history[i].by = history[2 * k].by
  BY <1>1, <1>k
<1>3. ASSUME i % 2 = 1 PROVE i < 2 * n /\ history[i + 1].by = history[i].by
  <2>1. i = 2 * k - 1 /\ i + 1 = 2 * k /\ i < 2 * n
    BY <1>1, <1>3
  <2> QED BY <2>1, <1>2
<1>4. ASSUME NEW j \in 1 .. 2 * n, history[i] = history[j] PROVE i = j
  <2>1. PICK l \in 1 .. n : \/ j = 2 * l - 1 /\ j % 2 = 1
                            \/ j = 2 * l /\ j % 2 # 1
    BY Position
  <2>2. /\ history[j].by = history[2 * l].by
        /\ history[j].role = (IF j % 2 = 1 THEN "user" ELSE "assistant")
    BY <2>1, <1>k
  <2>3. k = l
    BY <1>2, <1>4, <1>d, <2>2
  <2>4. i % 2 = 1 <=> j % 2 = 1
    BY <1>2, <1>4, <2>2
  <2> QED BY <1>1, <2>1, <2>3, <2>4
<1> QED BY <1>2, <1>3, <1>4

\* Whatever requests interleave, fail or crash, and wherever the list is cut,
\* the history of a session is a list of whole exchanges of that session, none
\* of them twice (math_service.py:168-180, _update_session).
THEOREM HistoriesAreWhole == Spec => []HistoriesAreExchanges
<1>1. HistoryInv => HistoriesAreExchanges
  <2> SUFFICES ASSUME HistoryInv, NEW s \in Sessions
               PROVE  LET history == sessions[s] IN
                      /\ Len(history) <= MaxMessages
                      /\ \A i \in 1 .. Len(history) :
                          /\ session_id(history[i].by) = s
                          /\ history[i].role = (IF i % 2 = 1 THEN "user" ELSE "assistant")
                          /\ i % 2 = 1 => i < Len(history)
                                          /\ history[i + 1].by = history[i].by
                          /\ \A j \in 1 .. Len(history) :
                              history[i] = history[j] => i = j
    BY DEF HistoriesAreExchanges
  <2>1. sessions[s] \in Seq(Message) /\ Len(sessions[s]) <= MaxMessages
    BY DEF HistoryInv, IsHistory
  <2>2. PICK n \in Nat : Exchanges(s, sessions[s], n)
    BY DEF HistoryInv, IsHistory
  <2> QED BY <2>1, <2>2, MessageByMessage
<1> QED BY <1>1, HistoryInvInductive, PTL

(***************************************************************************)
(* When a write appends.                                                   *)
(***************************************************************************)

\* The requests of one session are handled one after the other.
OneAtATime ==
    \A q, r \in InFlight : session_id(q) = session_id(r) => q = r

\* Redis neither fails nor forgets.
RedisIsReliable == Faults \intersect {"redis", "expiry"} = {}

\* What a request is about to extend is what Redis still holds.
ReadIsCurrent ==
    \A r \in Requests : pc[r] = "session_set" => seen[r] = sessions[session_id(r)]

\* How a step touches what requests have read and what Redis holds.
LEMMA HistoryAccess ==
    ASSUME RedisIsReliable, IInv, [Next]_vars
    PROVE  \/ /\ UNCHANGED <<seen, sessions>>
              /\ \A q \in Requests : pc'[q] = "session_set" => pc[q] = "session_set"
           \/ \E r \in Requests :
              /\ seen' = [seen EXCEPT ![r] = sessions[session_id(r)]]
              /\ \A q \in Requests \ {r} : pc'[q] = pc[q]
              /\ sessions' = sessions
           \/ \E r \in Requests :
              /\ WriteSession(r)
              /\ sessions' = [sessions EXCEPT ![session_id(r)] =
                                 KeepLast(seen[r] \o Exchange(r))]
<1>t. pc \in [Requests -> Labels]
  BY DEF IInv, TypeOK
<1>1. ASSUME NEW r \in Requests, LoadSession(r) \/ ReadSession(r)
      PROVE  /\ seen' = [seen EXCEPT ![r] = sessions[session_id(r)]]
             /\ \A q \in Requests \ {r} : pc'[q] = pc[q]
             /\ sessions' = sessions
  <2>1. Get(sessions[session_id(r)], <<>>) = {sessions[session_id(r)]}
    BY DEF Get, RedisIsReliable
  <2>2. seen' = [seen EXCEPT ![r] = sessions[session_id(r)]] /\ sessions' = sessions
    BY <1>1, <2>1 DEF LoadSession, ReadSession, redisVars
  <2>3. PICK call, next : Awaits(r, call, next)
    BY <1>1 DEF LoadSession, ReadSession
  <2> QED BY <1>t, <2>2, <2>3 DEF Awaits
<1>2. ASSUME NEW r \in Requests, WriteSession(r)
      PROVE  sessions' = [sessions EXCEPT ![session_id(r)] =
                             KeepLast(seen[r] \o Exchange(r))]
  BY <1>2 DEF WriteSession, SetOutcomes, RedisIsReliable
<1>3. ASSUME NEW r \in Requests, Arrive(r) \/ Handle(r),
             ~LoadSession(r), ~ReadSession(r), ~WriteSession(r)
      PROVE  /\ UNCHANGED <<seen, sessions>>
             /\ \A q \in Requests : pc'[q] = "session_set" => pc[q] = "session_set"
  <2>1. UNCHANGED <<seen, sessions>>
    BY <1>3 DEF Handle, Arrive, CacheHit, CacheMiss, LoadSessionRow,
       LoadSessionRowFails, AgentAnswers, AgentFails, Refuse, FlushProblem,
       FlushProblemFails, FlushSolution, FlushSolutionFails, WriteCache, AnswerFirst, Commit,
       CommitFails, Ends, redisVars
  <2>2. \E call, next : Awaits(r, call, next) /\ next # "session_set"
    BY <1>3 DEF Handle, Arrive, CacheHit, CacheMiss, LoadSessionRow,
       LoadSessionRowFails, AgentAnswers, AgentFails, Refuse, FlushProblem,
       FlushProblemFails, FlushSolution, FlushSolutionFails, WriteCache, AnswerFirst, Commit,
       CommitFails, Ends
  <2> QED BY <1>t, <2>1, <2>2 DEF Awaits
<1>4. ASSUME NEW lost \in SUBSET InFlight, Crash(lost)
      PROVE  /\ UNCHANGED <<seen, sessions>>
             /\ \A q \in Requests : pc'[q] = "session_set" => pc[q] = "session_set"
  BY <1>4 DEF Crash, redisVars
<1>5. CASE UNCHANGED <<pc, seen, sessions>>
  BY <1>5
<1> QED BY <1>1, <1>2, <1>3, <1>4, <1>5
      DEF Next, Handle, ExpireCache, ExpireSession, RedisIsReliable, Idle, vars,
          requestVars, redisVars

\* Between the read and the write of a request no other request of its
\* session writes, and nothing expires.
LEMMA ReadStaysCurrent ==
    ASSUME RedisIsReliable, IInv, OneAtATime, ReadIsCurrent, [Next]_vars
    PROVE  ReadIsCurrent'
<1>t. /\ seen \in [Requests -> Seq(Message)] /\ sessions \in [Sessions -> Seq(Message)]
      /\ pc \in [Requests -> Labels]
      /\ \A r \in Requests : session_id(r) \in Sessions /\ session_id(r)' = session_id(r)
  BY SessionType, StoredStays DEF IInv, TypeOK
<1>1. CASE /\ UNCHANGED <<seen, sessions>>
           /\ \A q \in Requests : pc'[q] = "session_set" => pc[q] = "session_set"
  BY <1>t, <1>1 DEF ReadIsCurrent
<1>2. ASSUME NEW r \in Requests,
             seen' = [seen EXCEPT ![r] = sessions[session_id(r)]],
             \A q \in Requests \ {r} : pc'[q] = pc[q],
             sessions' = sessions
      PROVE  ReadIsCurrent'
  BY <1>t, <1>2 DEF ReadIsCurrent
<1>3. ASSUME NEW r \in Requests, WriteSession(r),
             sessions' = [sessions EXCEPT ![session_id(r)] =
                             KeepLast(seen[r] \o Exchange(r))]
      PROVE  ReadIsCurrent'
  <2>1. /\ pc[r] = "session_set" /\ pc'[r] = "cache_set" /\ seen' = seen
        /\ \A q \in Requests \ {r} : pc'[q] = pc[q]
    BY <1>3, <1>t DEF WriteSession, Awaits, Labels
  <2>2. ASSUME NEW q \in Requests, pc'[q] = "session_set"
        PROVE  pc[q] = "session_set" /\ session_id(q) # session_id(r)
    BY <2>1, <2>2 DEF OneAtATime, InFlight
  <2> QED BY <1>t, <1>3, <2>1, <2>2 DEF ReadIsCurrent
<1> QED BY <1>1, <1>2, <1>3, HistoryAccess

\* The comment math_service.py:168, "Appends this exchange to the session
\* history", holds when no two requests of one session overlap and Redis is up:
\* the overlap alone is what loses an exchange.
THEOREM SerialWritesAppend ==
    ASSUME RedisIsReliable
    PROVE  Spec /\ []OneAtATime => AppendsThisExchange
<1> DEFINE Appended ==
             \A s \in Sessions :
                 sessions'[s] \notin {sessions[s], <<>>} =>
                     \E r \in Requests :
                         sessions'[s] = KeepLast(sessions[s] \o Exchange(r))
<1>1. Init => ReadIsCurrent
  BY DEF Init, ReadIsCurrent
<1>2. IInv /\ OneAtATime /\ ReadIsCurrent /\ [Next]_vars => ReadIsCurrent'
  BY ReadStaysCurrent
<1>3. IInv /\ ReadIsCurrent /\ [Next]_vars => [Appended]_vars
  <2> SUFFICES ASSUME IInv, ReadIsCurrent, [Next]_vars PROVE Appended
    OBVIOUS
  <2>t. /\ sessions \in [Sessions -> Seq(Message)]
        /\ \A r \in Requests : session_id(r) \in Sessions
    BY SessionType DEF IInv, TypeOK
  <2>1. CASE sessions' = sessions
    BY <2>1
  <2>2. ASSUME NEW r \in Requests, WriteSession(r),
               sessions' = [sessions EXCEPT ![session_id(r)] =
                               KeepLast(seen[r] \o Exchange(r))]
        PROVE  Appended
    <3>1. seen[r] = sessions[session_id(r)]
      BY <2>2 DEF WriteSession, Awaits, ReadIsCurrent
    <3> QED BY <2>t, <2>2, <3>1
  <2> QED BY <2>1, <2>2, HistoryAccess
<1>4. Spec /\ []OneAtATime => []ReadIsCurrent
  BY <1>1, <1>2, IInvInductive, PTL DEF Spec
<1>5. Spec /\ []OneAtATime => [][Appended]_vars
  BY <1>3, <1>4, IInvInductive, PTL DEF Spec
<1> QED BY <1>5 DEF AppendsThisExchange

\* A worker that handles one request at a time keeps the comment.
COROLLARY OneRequestAtATimeAppends ==
    ASSUME RedisIsReliable, MaxInFlight = 1
    PROVE  Spec => AppendsThisExchange
<1> DEFINE Alone == \A q, r \in InFlight : q = r
<1>1. Init => Alone
  BY DEF Init, InFlight
<1>2. IInv /\ Alone /\ [Next]_vars => Alone'
  <2> SUFFICES ASSUME IInv, Alone, [Next]_vars PROVE Alone'
    OBVIOUS
  <2>t. pc \in [Requests -> Labels]
    BY DEF IInv, TypeOK
  <2>1. ASSUME NEW r \in Requests, Arrive(r) PROVE Alone'
    <3>1. InFlight = {}
      <4> SUFFICES ASSUME NEW q \in InFlight PROVE FALSE
        OBVIOUS
      <4>1. InFlight = {q}
        OBVIOUS
      <4>2. Cardinality({q}) = 1
        BY FS_Singleton
      <4> QED BY <2>1, <4>1, <4>2 DEF Arrive
    <3>2. \A q \in Requests \ {r} : pc'[q] = pc[q]
      BY <2>t, <2>1 DEF Arrive, Awaits
    <3> QED BY <3>1, <3>2 DEF InFlight
  <2>2. CASE InFlight' \subseteq InFlight
    BY <2>2
  <2>3. ASSUME NEW r \in Requests, Handle(r) PROVE InFlight' \subseteq InFlight
    <3>1. \E call \in Labels \ {"idle", "done", "lost"}, next \in Labels : Awaits(r, call, next)
      BY <2>3 DEF Handle, CacheHit, CacheMiss, LoadSession, LoadSessionRow,
         LoadSessionRowFails, AgentAnswers, AgentFails, Refuse, FlushProblem,
         FlushProblemFails, FlushSolution, FlushSolutionFails, ReadSession,
         WriteSession, WriteCache, AnswerFirst, Commit, CommitFails, Ends, Labels
    <3> QED BY <2>t, <3>1 DEF Awaits, InFlight
  <2>4. ASSUME NEW lost \in SUBSET InFlight, Crash(lost)
        PROVE  InFlight' \subseteq InFlight
    BY <2>4 DEF Crash, InFlight
  <2>5. CASE UNCHANGED pc
    BY <2>5 DEF InFlight
  <2> QED BY <2>1, <2>2, <2>3, <2>4, <2>5
        DEF Next, ExpireCache, ExpireSession, Idle, vars, requestVars
<1>3. Alone => OneAtATime
  BY DEF OneAtATime
<1>4. Spec => []OneAtATime
  BY <1>1, <1>2, <1>3, IInvInductive, PTL DEF Spec
<1> QED BY <1>4, SerialWritesAppend, PTL
=============================================================================
