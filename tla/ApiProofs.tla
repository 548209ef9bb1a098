----------------------------- MODULE ApiProofs -----------------------------
(***************************************************************************)
(* Theorems about Api, for any number of workers, requests and users, any   *)
(* limits, pools and executors, and any number of faults.                  *)
(*                                                                         *)
(* The invariant is built in layers: what a request at each of its awaits  *)
(* has been told (Told), from which a token once handed out never changes; *)
(* what open transactions and committed rows are (Rows); how a counter,    *)
(* its TTL and the requests it let through relate (Counter); and when the  *)
(* extractors of an upload may still change (Found).                       *)
(***************************************************************************)
EXTENDS Api, TLAPS

(***************************************************************************)
(* The steps of the API, by component.                                     *)
(***************************************************************************)
LimiterActs(r) ==
    FirstOfWindow(r) \/ Counted(r) \/ SetExpiry(r) \/ IncrFails(r) \/ ExpireFails(r)
AccountActs(r) == AccountStep(r) \/ AnswerFirst(r) \/ QueryFails(r) \/ CommitFails(r)
OcrActs(r) ==
    \/ Unauthorized(r) \/ Authorized(r) \/ Combine(r)
    \/ \E e \in Extractors : ThreadTakes(r, e) \/ ThreadReturns(r, e)

\* Every step is one of these.
LEMMA Steps ==
    ASSUME [Next]_vars
    PROVE  \/ \E r \in Requests :
                \/ Arrive(r) \/ ExpireTokens(r)
                \/ InLimiter(LimiterActs(r))
                \/ InAccounts(AccountActs(r))
                \/ InOcr(OcrActs(r))
           \/ \E key \in Keys : InLimiter(WindowEnds(key))
           \/ \E dead \in SUBSET Workers : Crash(dead)
           \/ UNCHANGED vars
  BY Zenon DEF Next, Handle, Takes, Expires, Quiet, InLimiter, InAccounts, InOcr,
     LimiterActs, AccountActs, OcrActs, LimiterStep

(***************************************************************************)
(* Types.                                                                  *)
(***************************************************************************)
LEMMA ReplyTypes ==
    /\ NoReply \in Replies /\ Answer \in Replies
    /\ \A s \in {401, 409, 413, 422, 429, 500, 504} : Error(s) \in Replies
    /\ \A s \in {200, 201}, q \in Requests : Tokens(s, q) \in Replies
    /\ \A r \in Requests : Extracted(r) \in Replies
<1>1. \A r \in Requests : Confidence(r) \in Nat
  BY DEF Confidence
<1>2. \A r \in Requests : Extracted(r) \in
        [status : {200}, latex : Extractors,
         requires_user_confirmation : BOOLEAN, raw_text : BOOLEAN]
  BY <1>1, OcrAssumption DEF Extracted, Extractors
<1> QED BY <1>2 DEF NoReply, Answer, Error, Tokens, Replies

LEMMA InitType == Init => TypeOK
<1> SUFFICES ASSUME Init PROVE TypeOK
  OBVIOUS
<1>1. /\ body \in Scenarios /\ pc \in [Requests -> Labels]
      /\ reply \in [Requests -> Replies] /\ response \in [Requests -> Replies]
  BY ReplyTypes DEF Init, InitAccounts, Labels
<1>2. /\ count \in [Keys -> Nat] /\ armed \subseteq Keys
      /\ passed \in [Keys -> Nat] /\ before \in [Keys -> Nat]
  BY DEF Init, InitLimiter
<1>3. /\ found \in [Requests -> [Extractors -> Outcomes \union {"none", "queued", "running"}]]
      /\ \A r \in Requests : found[r]["tesseract"] # "raised"
  BY DEF Init, InitOcr, Unused, Extractors
<1>4. faults \in 0..MaxFaults
  BY FaultAssumption DEF Init
<1>5. /\ users \subseteq Requests /\ inserted \subseteq Requests
      /\ model \subseteq Workers /\ expired \subseteq Requests
  BY DEF Init, InitAccounts, InitOcr
<1> QED BY <1>1, <1>2, <1>3, <1>4, <1>5 DEF TypeOK

LEMMA FaultType ==
    ASSUME TypeOK, Fault PROVE faults' \in 0..MaxFaults /\ faults' > 0
  BY FaultAssumption DEF TypeOK, Fault

LEMMA LimiterType ==
    ASSUME TypeOK, NEW r \in Requests, InLimiter(LimiterActs(r)),
           NEW key \in Keys, key = rate_limit_key(r)
    PROVE  TypeOK'
<1>0. UNCHANGED <<body, users, inserted, response, model, found, expired>>
  BY DEF InLimiter, accountVars, ocrVars
<1>1. faults' \in 0..MaxFaults
  BY FaultType DEF InLimiter, LimiterActs, FirstOfWindow, Counted, SetExpiry,
     IncrFails, ExpireFails, Pass, TypeOK
<1>2. UNCHANGED before /\ (passed' = passed \/ passed' = [passed EXCEPT ![key] = @ + 1])
  BY DEF InLimiter, LimiterActs, FirstOfWindow, Counted, SetExpiry,
     IncrFails, ExpireFails, Pass
<1>3. faults' \in 0..MaxFaults /\ passed' \in [Keys -> Nat] /\ before' \in [Keys -> Nat]
  BY <1>1, <1>2 DEF TypeOK
<1>4. \/ count' = count
      \/ count' = [count EXCEPT ![key] = @ + 1]
      \/ count' = [count EXCEPT ![key] = 1]
  BY DEF InLimiter, LimiterActs, FirstOfWindow, Counted, SetExpiry,
     IncrFails, ExpireFails
<1>5. count' \in [Keys -> Nat]
  <2>1. count \in [Keys -> Nat]
    BY DEF TypeOK
  <2> QED BY <1>4, <2>1
<1>6. armed' \subseteq Keys
  BY DEF InLimiter, LimiterActs, FirstOfWindow, Counted, SetExpiry,
     IncrFails, ExpireFails, TypeOK
<1>7. pc' \in [Requests -> Labels]
  BY DEF InLimiter, LimiterActs, FirstOfWindow, Counted, SetExpiry,
     IncrFails, ExpireFails, Pass, Ends, Awaits, Labels, TypeOK
<1>8. reply' \in [Requests -> Replies]
  BY ReplyTypes DEF InLimiter, LimiterActs, FirstOfWindow, Counted, SetExpiry,
     IncrFails, ExpireFails, Pass, Ends, TypeOK
<1> QED BY <1>0, <1>3, <1>5, <1>6, <1>7, <1>8 DEF TypeOK

LEMMA AccountType ==
    ASSUME TypeOK, NEW r \in Requests, InAccounts(AccountActs(r)) PROVE TypeOK'
<1>0. UNCHANGED <<body, count, armed, passed, before, model, found, expired>>
  BY DEF InAccounts, limiterVars, ocrVars
<1> USE DEF InAccounts, AccountActs, AccountStep, EmailTaken, EmailFree, Insert,
        InsertFails, LoginSucceeds, LoginFails, PoolTimesOut, SolveFinds, AgentEnds,
        Commit, AnswerFirst, QueryFails, CommitFails, accountVars
<1>1. faults' \in 0..MaxFaults
  BY FaultType, FaultAssumption DEF TypeOK
<1>2. pc' \in [Requests -> Labels]
  BY DEF Ends, Awaits, Labels, TypeOK
<1>3. response' \in [Requests -> Replies]
  BY ReplyTypes DEF ByEmail, TypeOK
<1>4. reply' \in [Requests -> Replies]
  BY ReplyTypes DEF Ends, TypeOK
<1>5. users' \subseteq Requests /\ inserted' \subseteq Requests
  BY DEF Durable, TypeOK
<1> QED BY <1>0, <1>1, <1>2, <1>3, <1>4, <1>5 DEF TypeOK

LEMMA WorkerType ==
    ASSUME TypeOK, NEW r \in Requests PROVE body[r].worker \in Workers
<1>1. body[r] \in RequestBodies
  BY ScenarioAssumption DEF TypeOK
<1> QED BY <1>1 DEF RequestBodies, RegisterRequest, LoginRequest, ExtractRequest,
           SolveRequest

LEMMA OcrType ==
    ASSUME TypeOK, NEW r \in Requests, InOcr(OcrActs(r)) PROVE TypeOK'
<1>0. UNCHANGED <<body, count, armed, passed, before, users, inserted, response,
                  expired, faults>>
  BY DEF InOcr, OcrActs, Unauthorized, Authorized, MaySolve, Upload, TooLarge,
     Unreadable, StartExtractors, Combine, ThreadTakes, ThreadReturns,
     limiterVars, accountVars
<1> USE DEF InOcr, OcrActs, Unauthorized, Authorized, MaySolve, Upload, TooLarge,
        Unreadable, StartExtractors, Combine, ThreadTakes, ThreadReturns, ocrVars
<1>1. pc' \in [Requests -> Labels]
  BY DEF Ends, Awaits, Labels, TypeOK
<1>2. reply' \in [Requests -> Replies]
  BY ReplyTypes DEF Ends, TypeOK
<1>3. model' \subseteq Workers
  BY WorkerType DEF TypeOK
<1>4. /\ found' \in [Requests -> [Extractors -> Outcomes \union {"none", "queued", "running"}]]
      /\ \A q \in Requests : found'[q]["tesseract"] # "raised"
  BY SMTT(30) DEF TypeOK, Extractors, Outcomes
<1> QED BY <1>0, <1>1, <1>2, <1>3, <1>4 DEF TypeOK

(***************************************************************************)
(* What requests have been told.                                           *)
(***************************************************************************)
\* A token names the registration of that email and password.
Owned(r) ==
    Op(r) \notin Routes /\ response[r] # NoReply =>
        \E s \in {200, 201}, q \in Requests :
            /\ response[r] = Tokens(s, q)
            /\ Op(q) = "register"
            /\ body[q].email = body[r].email /\ body[q].password = body[r].password

Told(r) ==
    /\ pc[r] = "insert" => Op(r) = "register"
    /\ pc[r] = "agent" => Op(r) = "solve"
    /\ pc[r] \in {"limit", "expire", "auth", "extract"} => Op(r) \in Routes
    /\ pc[r] \notin {"commit", "done", "lost"} =>
        reply[r] = NoReply /\ response[r] = NoReply
    /\ pc[r] = "commit" => reply[r] \in {NoReply, response[r]}
    /\ Op(r) \notin Routes /\ reply[r].status \in {200, 201} => reply[r] = response[r]

\* A request that is counted carries a token, and the limiter is wired.
Carries(r) == pc[r] \in {"limit", "expire"} => HasToken(r) /\ LimiterWired

ToldInv ==
    /\ TypeOK
    /\ users \union inserted \subseteq {q \in Requests : Op(q) = "register"}
    /\ \A r \in Requests : Told(r) /\ Owned(r) /\ Carries(r)

LEMMA InitTold == Init => ToldInv
<1> SUFFICES ASSUME Init PROVE ToldInv
  OBVIOUS
<1>1. TypeOK
  BY InitType
<1> QED BY <1>1 DEF Init, InitAccounts, ToldInv, Told, Owned, Carries, NoReply

\* Statuses of errors are none of a token's.
LEMMA ErrorIsNoToken ==
    /\ NoReply.status \notin {200, 201}
    /\ \A s \in {401, 409, 413, 422, 429, 500, 504} :
        Error(s).status \notin {200, 201} /\ Error(s) # NoReply
  BY DEF Error, NoReply

\* Tokens come from registrations and logins.
LEMMA TokenOrigin ==
    ASSUME TypeOK, NEW r \in Requests, Op(r) \in Routes
    PROVE  body[r].token \in Requests /\ Op(body[r].token) \notin Routes
<1>1. body \in Scenarios /\ body[r].op \in {"ocr", "solve"}
  BY DEF TypeOK, Op, Routes
<1>2. body[body[r].token].op \in {"register", "login"}
  BY <1>1, ScenarioAssumption
<1>3. body[r] \in RequestBodies
  BY <1>1, ScenarioAssumption
<1>4. body[r].token \in Requests
  BY <1>1, <1>3 DEF RequestBodies, RegisterRequest, LoginRequest, ExtractRequest, SolveRequest
<1> QED BY <1>2, <1>4 DEF Op, Routes

LEMMA KeyType ==
    ASSUME ToldInv, NEW r \in Requests, Op(r) \in Routes, HasToken(r)
    PROVE  rate_limit_key(r) \in Keys
<1>1. Op(r) \in Routes /\ HasToken(r)
  OBVIOUS
<1> DEFINE t == body[r].token
<1>2. t \in Requests /\ Op(t) \notin Routes
  BY <1>1, TokenOrigin DEF ToldInv
<1>3. PICK s \in {200, 201}, q \in Requests : reply[t] = Tokens(s, q)
  BY <1>1, <1>2 DEF ToldInv, Told, Owned, HasToken, NoReply
<1> QED BY <1>1, <1>3 DEF rate_limit_key, Keys, Tokens

LEMMA KeyCounted ==
    ASSUME ToldInv, NEW r \in Requests, pc[r] \in {"limit", "expire"}
    PROVE  rate_limit_key(r) \in Keys
  BY KeyType DEF ToldInv, Told, Carries

\* A token once handed out stays what it is.
KeepsTokens ==
    /\ UNCHANGED body
    /\ \A t \in Requests :
        Op(t) \notin Routes /\ reply[t].status \in {200, 201} => reply'[t] = reply[t]

\* Requests keep what they carry if tokens stay.
LEMMA CarriesOn ==
    ASSUME ToldInv, KeepsTokens,
           \A r \in Requests : pc'[r] \in {"limit", "expire"} =>
                \/ pc[r] \in {"limit", "expire"}
                \/ Op(r) \in Routes /\ HasToken(r) /\ LimiterWired
    PROVE  \A r \in Requests : Carries(r)'
<1> SUFFICES ASSUME NEW r \in Requests, pc'[r] \in {"limit", "expire"}
             PROVE  HasToken(r)' /\ LimiterWired
  BY DEF Carries
<1>1. Op(r) \in Routes /\ HasToken(r) /\ LimiterWired
  BY DEF ToldInv, Told, Carries
<1>2. body[r].token \in Requests /\ Op(body[r].token) \notin Routes
  BY <1>1, TokenOrigin DEF ToldInv
<1> QED BY <1>1, <1>2 DEF HasToken, KeepsTokens, Op

LEMMA LimiterTold ==
    ASSUME ToldInv, NEW r \in Requests, InLimiter(LimiterActs(r))
    PROVE  ToldInv' /\ KeepsTokens
<1>0. pc[r] \in {"limit", "expire"}
  BY DEF InLimiter, LimiterActs, FirstOfWindow, Counted, SetExpiry,
     IncrFails, ExpireFails, Pass, Ends, Awaits
<1>1. TypeOK'
  BY <1>0, KeyCounted, LimiterType DEF ToldInv
<1>2. UNCHANGED <<body, users, inserted, response>>
  BY DEF InLimiter, accountVars
<1>3. KeepsTokens /\ \A t \in Requests :
        pc'[t] \in {"limit", "expire"} => pc[t] \in {"limit", "expire"}
  BY <1>0, <1>2 DEF KeepsTokens, InLimiter, LimiterActs, FirstOfWindow, Counted, SetExpiry,
     IncrFails, ExpireFails, Pass, Ends, Awaits, ToldInv, Told, TypeOK
<1>4. \A q \in Requests : Carries(q)'
  BY <1>3, CarriesOn
<1>5. \A q \in Requests : Told(q)'
  BY <1>2, ErrorIsNoToken DEF InLimiter, LimiterActs, FirstOfWindow, Counted, SetExpiry,
     IncrFails, ExpireFails, Pass, Ends, Awaits, ToldInv, TypeOK, Told, Op
<1> QED BY <1>1, <1>2, <1>3, <1>4, <1>5 DEF ToldInv, Owned, Op

LEMMA OcrTold ==
    ASSUME ToldInv, NEW r \in Requests, InOcr(OcrActs(r))
    PROVE  ToldInv' /\ KeepsTokens
<1>1. TypeOK'
  BY OcrType DEF ToldInv
<1>2. UNCHANGED <<body, users, inserted, response>>
  BY DEF InOcr, accountVars
<1>3. KeepsTokens /\ \A t \in Requests :
        pc'[t] \in {"limit", "expire"} => pc[t] \in {"limit", "expire"}
  BY <1>2 DEF KeepsTokens, InOcr, OcrActs, Unauthorized, Authorized, MaySolve, Upload,
     TooLarge, Unreadable, StartExtractors, Combine, ThreadTakes, ThreadReturns,
     Ends, Awaits, ToldInv, TypeOK, Told
<1>4. \A q \in Requests : Carries(q)'
  BY <1>3, CarriesOn
<1>5. \A q \in Requests : Told(q)'
  BY <1>2, ErrorIsNoToken DEF InOcr, OcrActs, Unauthorized, Authorized, MaySolve, Upload,
     TooLarge, Unreadable, StartExtractors, Combine, ThreadTakes, ThreadReturns,
     Ends, Awaits, ToldInv, TypeOK, Told, Op, Routes
<1> QED BY <1>1, <1>2, <1>3, <1>4, <1>5 DEF ToldInv, Owned, Op

LEMMA AccountTold ==
    ASSUME ToldInv, NEW r \in Requests, InAccounts(AccountActs(r))
    PROVE  ToldInv' /\ KeepsTokens
<1>1. TypeOK'
  BY AccountType DEF ToldInv
<1> USE DEF InAccounts, AccountActs, AccountStep, EmailTaken, EmailFree, Insert,
        InsertFails, LoginSucceeds, LoginFails, PoolTimesOut, SolveFinds, AgentEnds,
        Commit, AnswerFirst, QueryFails, CommitFails, accountVars
<1>2. UNCHANGED body
  OBVIOUS
<1>3. users' \union inserted' \subseteq {q \in Requests : Op(q) = "register"}
  BY DEF ToldInv, Told, Durable, Ends, Awaits
<1>4. \A q \in Requests : Told(q)'
  BY <1>2, ErrorIsNoToken DEF Ends, Awaits, ToldInv, TypeOK, Told, Op, Routes, Tokens, Answer, NoReply
<1>5. \A q \in Requests : Owned(q)'
  <2>1. CASE Insert(r)
    BY <1>2, <2>1 DEF Awaits, ToldInv, TypeOK, Told, Owned, Op
  <2>2. CASE LoginSucceeds(r)
    BY <1>2, <2>2 DEF ToldInv, TypeOK, Owned, Op, ByEmail, PasswordFits
  <2>3. CASE AgentEnds(r)
    BY <1>2, <2>3 DEF Ends, Awaits, ToldInv, TypeOK, Told, Owned, Op, Routes
  <2>4. CASE response' = response
    BY <1>2, <2>4 DEF ToldInv, Owned, Op
  <2> QED BY <2>1, <2>2, <2>3, <2>4
<1>6. KeepsTokens /\ \A t \in Requests :
        pc'[t] \in {"limit", "expire"} => pc[t] \in {"limit", "expire"}
  BY <1>2, ErrorIsNoToken DEF KeepsTokens, Ends, Awaits, ToldInv, TypeOK, Told
<1>7. \A q \in Requests : Carries(q)'
  BY <1>6, CarriesOn
<1> QED BY <1>1, <1>2, <1>3, <1>4, <1>5, <1>6, <1>7 DEF ToldInv, Op

\* Arrivals and expiries of tokens and windows, crashes and stuttering.
LEMMA OtherTold ==
    ASSUME ToldInv,
           \/ \E r \in Requests : Arrive(r) \/ ExpireTokens(r)
           \/ \E key \in Keys : InLimiter(WindowEnds(key))
           \/ \E dead \in SUBSET Workers : Crash(dead)
           \/ UNCHANGED vars
    PROVE  ToldInv' /\ KeepsTokens
<1>1. ASSUME NEW r \in Requests, Arrive(r) PROVE ToldInv'
  <2>1. UNCHANGED <<body, reply, faults, count, armed, before, users, inserted,
                    response, model, found, expired>>
    BY <1>1 DEF Arrive, Unlimited, Pass, limiterVars, accountVars, ocrVars
  <2>6. passed' \in [Keys -> Nat]
    BY <1>1, KeyType DEF Arrive, Unlimited, Pass, limiterVars, ToldInv, TypeOK
  <2>2. TypeOK'
    BY <1>1, <2>1, <2>6 DEF Arrive, Unlimited, Pass, Awaits, Labels, ToldInv, TypeOK
  <2>3. \A q \in Requests : Told(q)'
    BY <1>1, <2>1 DEF Arrive, Unlimited, Pass, Awaits, ToldInv, TypeOK, Told, Op, Routes
  <2>4. \A q \in Requests : pc'[q] \in {"limit", "expire"} =>
            \/ pc[q] \in {"limit", "expire"}
            \/ Op(q) \in Routes /\ HasToken(q) /\ LimiterWired
    BY <1>1 DEF Arrive, Unlimited, Pass, Awaits, ToldInv, TypeOK
  <2>5. \A q \in Requests : Carries(q)'
    BY <2>1, <2>4, CarriesOn DEF KeepsTokens
  <2> QED BY <2>1, <2>2, <2>3, <2>5 DEF ToldInv, Owned, Op
<1>2. ASSUME NEW r \in Requests, ExpireTokens(r) PROVE ToldInv'
  BY <1>2 DEF ExpireTokens, ToldInv, TypeOK, Told, Owned, Carries, HasToken, Op,
     requestVars, limiterVars, accountVars, ocrVars
<1>3. ASSUME NEW key \in Keys, InLimiter(WindowEnds(key)) PROVE ToldInv'
  <2>1. TypeOK'
    BY <1>3 DEF InLimiter, WindowEnds, ToldInv, TypeOK, accountVars, ocrVars
  <2> QED BY <1>3, <2>1 DEF InLimiter, WindowEnds, ToldInv, Told, Owned, Carries,
             HasToken, Op, accountVars, ocrVars
<1>4. ASSUME NEW dead \in SUBSET Workers, Crash(dead) PROVE ToldInv'
  <2>1. /\ pc' = [r \in Requests |-> IF r \in Victims(dead) THEN "lost" ELSE pc[r]]
        /\ UNCHANGED <<body, reply, response, count, armed, passed, before, expired>>
        /\ users' \union inserted' \subseteq users \union inserted
    BY <1>4 DEF Crash, limiterVars
  <2>2. TypeOK'
    <3>1. pc' \in [Requests -> Labels] /\ faults' \in 0..MaxFaults
      BY <1>4, <2>1, FaultType DEF Crash, ToldInv, TypeOK, Labels
    <3>2. /\ found' \in [Requests -> [Extractors -> Outcomes \union {"none", "queued", "running"}]]
          /\ \A r \in Requests : found'[r]["tesseract"] # "raised"
          /\ model' \subseteq Workers
      BY <1>4 DEF Crash, ToldInv, TypeOK, Unused, Extractors
    <3> QED BY <2>1, <3>1, <3>2 DEF ToldInv, TypeOK
  <2>3. \A r \in Requests : Told(r)' /\ Owned(r)' /\ Carries(r)'
    BY <2>1 DEF ToldInv, Told, Owned, Carries, HasToken, Op
  <2> QED BY <2>1, <2>2, <2>3 DEF ToldInv, Op
<1>5. ASSUME UNCHANGED vars PROVE ToldInv'
  BY <1>5 DEF vars, requestVars, limiterVars, accountVars, ocrVars, ToldInv, TypeOK,
     Told, Owned, Carries, HasToken, Op
<1>6. KeepsTokens
  BY DEF KeepsTokens, Arrive, Unlimited, Pass, ExpireTokens, InLimiter, WindowEnds,
     Crash, vars, requestVars
<1> QED BY <1>1, <1>2, <1>3, <1>4, <1>5, <1>6

LEMMA ToldStep == ToldInv /\ [Next]_vars => ToldInv' /\ KeepsTokens
  BY Steps, LimiterTold, AccountTold, OcrTold, OtherTold

LEMMA ToldAlways == Spec => []ToldInv
  BY InitTold, ToldStep, PTL DEF Spec

\* Every variable of the workers, of Redis and of the database has values of
\* its type, whatever interleaves and fails.
THEOREM TypeCorrect == Spec => []TypeOK
<1>1. ToldInv => TypeOK
  BY DEF ToldInv
<1> QED BY <1>1, ToldAlways, PTL

(***************************************************************************)
(* Rows of the users table.                                                *)
(***************************************************************************)
\* Open transactions are at their commit, and rows belong to registrations
\* that are over.
RowPlaces ==
    /\ \A q \in inserted : pc[q] = "commit"
    /\ \A q \in users : pc[q] \in Over
NoClash == \A q, r \in users \union inserted : ~Clash(r, q)
\* Without a fault a token's account has a row.
TokenRows ==
    \A r \in Requests :
        Op(r) \notin Routes /\ response[r] # NoReply =>
            response[r].user \in users \union inserted \/ faults > 0

RowsInv == RowPlaces /\ NoClash /\ TokenRows

LEMMA InitRows == Init => RowsInv
  BY DEF Init, InitAccounts, RowsInv, RowPlaces, NoClash, TokenRows

LEMMA ClashSymmetric == \A q, r \in Requests : Clash(r, q) <=> Clash(q, r)
  BY DEF Clash

\* Without a new row there is no new clash.
LEMMA NoClashKept ==
    ASSUME NoClash, UNCHANGED body, users' \union inserted' \subseteq users \union inserted
    PROVE  NoClash'
  BY DEF NoClash, Clash

LEMMA TokenRowsKept ==
    ASSUME TokenRows, UNCHANGED <<body, response>>, faults > 0 => faults' > 0,
           users \union inserted \subseteq users' \union inserted' \/ faults' > 0
    PROVE  TokenRows'
  BY DEF TokenRows, Op

\* A step that leaves the tables, and what awaits a commit or is over, alone.
LEMMA RowsKept ==
    ASSUME ToldInv, RowsInv, UNCHANGED <<body, users, inserted, response>>,
           faults > 0 => faults' > 0,
           \A q \in Requests : pc[q] \in {"commit"} \union Over => pc'[q] = pc[q]
    PROVE  RowsInv'
<1>1. RowPlaces'
  BY DEF ToldInv, TypeOK, RowsInv, RowPlaces
<1>2. NoClash' /\ TokenRows'
  BY NoClashKept, TokenRowsKept DEF RowsInv
<1> QED BY <1>1, <1>2 DEF RowsInv

LEMMA AccountRows ==
    ASSUME ToldInv, RowsInv, NEW r \in Requests, InAccounts(AccountActs(r))
    PROVE  RowsInv'
<1> USE DEF InAccounts, AccountActs, AccountStep, EmailTaken, EmailFree, Insert,
        InsertFails, LoginSucceeds, LoginFails, PoolTimesOut, SolveFinds, AgentEnds,
        Commit, AnswerFirst, QueryFails, CommitFails, accountVars
<1>1. UNCHANGED body /\ (faults > 0 => faults' > 0)
  BY DEF Fault, ToldInv, TypeOK
<1>2. CASE Insert(r)
  <2>1. /\ inserted' = inserted \union {r} /\ users' = users
        /\ response' = [response EXCEPT ![r] = Tokens(201, r)]
        /\ pc[r] = "insert" /\ pc' = [pc EXCEPT ![r] = "commit"]
        /\ \A q \in users \union inserted : ~Clash(r, q)
    BY <1>2 DEF Awaits
  <2>2. RowPlaces'
    BY <2>1 DEF RowsInv, RowPlaces, ToldInv, TypeOK, Over
  <2>3. NoClash'
    <3>1. \A q, t \in users' \union inserted' : ~Clash(t, q)
      BY <2>1, ClashSymmetric DEF RowsInv, NoClash, ToldInv, TypeOK, Clash
    <3> QED BY <1>1, <3>1 DEF NoClash, Clash
  <2>4. TokenRows'
    BY <1>1, <2>1 DEF RowsInv, TokenRows, ToldInv, TypeOK, Tokens, Op
  <2> QED BY <2>2, <2>3, <2>4 DEF RowsInv
<1>3. CASE LoginSucceeds(r)
  <2>1. /\ UNCHANGED <<users, inserted>>
        /\ pc[r] = "find" /\ pc' = [pc EXCEPT ![r] = "commit"]
        /\ \E q \in users : response' = [response EXCEPT ![r] = Tokens(200, q)]
    BY <1>3 DEF Awaits, ByEmail
  <2>2. RowPlaces'
    BY <2>1 DEF RowsInv, RowPlaces, ToldInv, TypeOK, Over
  <2>3. TokenRows'
    BY <1>1, <2>1 DEF RowsInv, TokenRows, ToldInv, TypeOK, Tokens, Op
  <2> QED BY <1>1, <2>1, <2>2, <2>3, NoClashKept DEF RowsInv
<1>4. CASE AgentEnds(r)
  <2>1. UNCHANGED <<users, inserted>> /\ pc[r] = "agent" /\ Op(r) \in Routes
    BY <1>4 DEF Ends, Awaits, ToldInv, Told, Routes
  <2>2. \A q \in Requests : q # r => pc'[q] = pc[q] /\ response'[q] = response[q]
    BY <1>4 DEF Ends, Awaits, ToldInv, TypeOK
  <2>3. RowPlaces'
    BY <2>1, <2>2 DEF RowsInv, RowPlaces, ToldInv, TypeOK, Over
  <2>4. TokenRows'
    BY <1>1, <2>1, <2>2 DEF RowsInv, TokenRows, Op
  <2> QED BY <1>1, <2>1, <2>3, <2>4, NoClashKept DEF RowsInv
<1>5. CASE Commit(r) \/ CommitFails(r)
  <2>1. /\ inserted' = inserted \ {r} /\ response' = response
        /\ users' = Durable(r) \/ (users' = users /\ faults' > 0)
        /\ pc[r] = "commit" /\ pc' = [pc EXCEPT ![r] = "done"]
    BY <1>5 DEF Ends, Awaits, Fault, ToldInv, TypeOK
  <2>2. users' \union inserted' \subseteq users \union inserted
    BY <2>1 DEF Durable
  <2>3. users' \union inserted' = users \union inserted \/ faults' > 0
    BY <2>1 DEF Durable
  <2>4. \A q \in users' : q \in users \/ q = r
    BY <2>1 DEF Durable
  <2>5. RowPlaces'
    BY <2>1, <2>4 DEF RowsInv, RowPlaces, ToldInv, TypeOK, Over
  <2>6. TokenRows'
    BY <1>1, <2>1, <2>3, TokenRowsKept DEF RowsInv
  <2> QED BY <1>1, <2>2, <2>5, <2>6, NoClashKept DEF RowsInv
<1>6. CASE UNCHANGED <<users, inserted, response>> /\ pc[r] \notin {"commit"} \union Over
  BY <1>1, <1>6, RowsKept DEF Ends, Awaits, ToldInv, TypeOK, Over
<1>7. CASE AnswerFirst(r)
  BY <1>1, <1>7, RowsKept
<1> QED BY <1>2, <1>3, <1>4, <1>5, <1>6, <1>7 DEF Ends, Awaits, Finds, Over

LEMMA RowsStep == ToldInv /\ RowsInv /\ [Next]_vars => RowsInv'
<1> SUFFICES ASSUME ToldInv, RowsInv, [Next]_vars PROVE RowsInv'
  OBVIOUS
<1>1. ASSUME NEW r \in Requests, Arrive(r) \/ ExpireTokens(r) PROVE RowsInv'
  BY <1>1, RowsKept DEF Arrive, Unlimited, Pass, ExpireTokens, Awaits, Over, ToldInv, TypeOK,
     requestVars, accountVars
<1>2. ASSUME NEW r \in Requests, InLimiter(LimiterActs(r)) PROVE RowsInv'
  BY <1>2, RowsKept DEF InLimiter, LimiterActs, FirstOfWindow, Counted, SetExpiry,
     IncrFails, ExpireFails, Pass, Ends, Awaits, Fault, Over, ToldInv, TypeOK, accountVars
<1>3. ASSUME NEW r \in Requests, InAccounts(AccountActs(r)) PROVE RowsInv'
  BY <1>3, AccountRows
<1>4. ASSUME NEW r \in Requests, InOcr(OcrActs(r)) PROVE RowsInv'
  BY <1>4, RowsKept DEF InOcr, OcrActs, Unauthorized, Authorized, MaySolve, Upload,
     TooLarge, Unreadable, StartExtractors, Combine, ThreadTakes, ThreadReturns,
     Ends, Awaits, Over, ToldInv, TypeOK, accountVars
<1>5. ASSUME NEW key \in Keys, InLimiter(WindowEnds(key)) PROVE RowsInv'
  BY <1>5, RowsKept DEF InLimiter, WindowEnds, accountVars
<1>6. ASSUME NEW dead \in SUBSET Workers, Crash(dead) PROVE RowsInv'
  <2>1. /\ inserted' = inserted \ Victims(dead) /\ users' \subseteq users \union inserted
        /\ UNCHANGED <<body, response>> /\ faults' > 0
        /\ \A q \in users' : q \in users \/ q \in Victims(dead)
        /\ pc' = [r \in Requests |-> IF r \in Victims(dead) THEN "lost" ELSE pc[r]]
    BY <1>6, FaultType DEF Crash, ToldInv
  <2>2. RowPlaces'
    BY <2>1 DEF RowsInv, RowPlaces, ToldInv, TypeOK, Victims, InFlight, Over
  <2> QED BY <2>1, <2>2, NoClashKept, TokenRowsKept DEF RowsInv
<1>7. CASE UNCHANGED vars
  BY <1>7, RowsKept DEF vars, requestVars, accountVars
<1> QED BY <1>1, <1>2, <1>3, <1>4, <1>5, <1>6, <1>7, Steps

LEMMA RowsAlways == Spec => [](ToldInv /\ RowsInv)
<1>1. Init => ToldInv /\ RowsInv
  BY InitTold, InitRows
<1>2. (ToldInv /\ RowsInv) /\ [Next]_vars => (ToldInv /\ RowsInv)'
  BY ToldStep, RowsStep
<1> QED BY <1>1, <1>2, PTL DEF Spec

\* However registrations overlap between the check of the email and the
\* insert, and whatever fails, accounts differ in email and in username.
THEOREM AccountsAreUnique == Spec => []UniqueAccounts
<1>1. ToldInv /\ RowsInv => UniqueAccounts
  BY DEF RowsInv, NoClash, Clash, UniqueAccounts
<1> QED BY <1>1, RowsAlways, PTL

\* A token is handed out only for the email and the password that were
\* registered, and without a fault the account is there.
THEOREM TokensAreOwned == Spec => []TokensNameAccounts
<1>1. ToldInv /\ RowsInv => TokensNameAccounts
  <2> SUFFICES ASSUME ToldInv, RowsInv, NEW r \in Requests,
                      Op(r) \in {"register", "login"}, reply[r].status \in {200, 201}
               PROVE  LET q == reply[r].user
                      IN /\ body[q].email = body[r].email
                         /\ body[q].password = body[r].password
                         /\ q \in users \/ (pc[q] = "commit" /\ q \in inserted) \/ faults > 0
    BY DEF TokensNameAccounts
  <2>1. Op(r) \notin Routes /\ reply[r] = response[r] /\ response[r] # NoReply
    BY ErrorIsNoToken DEF ToldInv, Told, Routes
  <2>2. PICK s \in {200, 201}, q \in Requests :
            /\ response[r] = Tokens(s, q)
            /\ body[q].email = body[r].email /\ body[q].password = body[r].password
    BY <2>1 DEF ToldInv, Owned
  <2>3. reply[r].user = q
    BY <2>1, <2>2 DEF Tokens
  <2>4. q \in users \/ (pc[q] = "commit" /\ q \in inserted) \/ faults > 0
    BY <2>1, <2>3 DEF RowsInv, TokenRows, RowPlaces
  <2> QED BY <2>2, <2>3, <2>4
<1> QED BY <1>1, RowsAlways, PTL

(***************************************************************************)
(* Counters.                                                               *)
(***************************************************************************)
\* One request is to set a counter's TTL, and as long as it has not, one of
\* those let through is not yet counted as such.
Arming(r) ==
    pc[r] = "expire" =>
        LET key == rate_limit_key(r)
        IN /\ key \notin armed
           /\ passed[key] < count[key] /\ passed[key] < ROUTE_LIMITS[key[2]]
           /\ \A q \in Requests : pc[q] = "expire" /\ rate_limit_key(q) = key => q = r

Counter(key) ==
    /\ LimiterWired => /\ passed[key] <= count[key]
                       /\ passed[key] <= ROUTE_LIMITS[key[2]]
                       /\ before[key] <= ROUTE_LIMITS[key[2]]
    /\ key \in armed => count[key] > 0
    /\ count[key] > 0 => \/ key \in armed
                         \/ faults > 0
                         \/ \E r \in Requests : pc[r] = "expire" /\ rate_limit_key(r) = key

CounterInv ==
    /\ \A r \in Requests : Arming(r)
    /\ \A key \in Keys : Counter(key)

LEMMA LimitType == \A key \in Keys : ROUTE_LIMITS[key[2]] \in Nat \ {0}
  BY LimitAssumption DEF Keys

LEMMA InitCounter == Init => CounterInv
  BY LimitType DEF Init, InitLimiter, CounterInv, Arming, Counter

\* The key of a request that is counted does not change.
LEMMA KeyStays ==
    ASSUME ToldInv, [Next]_vars, NEW r \in Requests, pc[r] \in {"limit", "expire"}
    PROVE  rate_limit_key(r)' = rate_limit_key(r)
<1>1. Op(r) \in Routes /\ HasToken(r)
  BY DEF ToldInv, Told, Carries
<1>2. body[r].token \in Requests /\ Op(body[r].token) \notin Routes
  BY <1>1, TokenOrigin DEF ToldInv
<1>3. KeepsTokens
  BY ToldStep
<1> QED BY <1>1, <1>2, <1>3 DEF KeepsTokens, HasToken, rate_limit_key, Op

\* A step that leaves the limiter alone, except that a fault may stop the
\* requests that are to set a TTL.
LEMMA CounterKept ==
    ASSUME ToldInv, CounterInv, [Next]_vars, UNCHANGED limiterVars,
           faults > 0 => faults' > 0,
           \A r \in Requests : pc'[r] = "expire" => pc[r] = "expire",
           \A r \in Requests : pc[r] = "expire" => pc'[r] = "expire" \/ faults' > 0
    PROVE  CounterInv'
<1>1. \A r \in Requests : pc'[r] = "expire" =>
        pc[r] = "expire" /\ rate_limit_key(r)' = rate_limit_key(r)
  BY KeyStays
<1>2. ASSUME NEW r \in Requests PROVE Arming(r)'
  BY <1>1 DEF CounterInv, Arming, limiterVars
<1>3. ASSUME NEW key \in Keys PROVE Counter(key)'
  BY <1>1 DEF CounterInv, Counter, limiterVars
<1> QED BY <1>2, <1>3 DEF CounterInv

LEMMA LimiterCounter ==
    ASSUME ToldInv, CounterInv, [Next]_vars, NEW r \in Requests, InLimiter(LimiterActs(r))
    PROVE  CounterInv'
<1> DEFINE key == rate_limit_key(r)
<1>1. pc[r] \in {"limit", "expire"}
  BY DEF InLimiter, LimiterActs, FirstOfWindow, Counted, SetExpiry,
     IncrFails, ExpireFails, Pass, Ends, Awaits
<1>2. key \in Keys /\ ROUTE_LIMITS[key[2]] \in Nat \ {0} /\ LimiterWired
  BY <1>1, KeyCounted, LimitType DEF ToldInv, Carries
<1>3. \A q \in Requests : pc[q] \in {"limit", "expire"} =>
        rate_limit_key(q) \in Keys /\ rate_limit_key(q)' = rate_limit_key(q)
  BY KeyStays, KeyCounted
<1>4. \A k \in Keys : count[k] \in Nat /\ passed[k] \in Nat /\ before[k] \in Nat
                      /\ ROUTE_LIMITS[k[2]] \in Nat \ {0}
  BY LimitType DEF ToldInv, TypeOK
<1>5. CASE FirstOfWindow(r)
  <2>1. /\ pc[r] = "limit" /\ pc' = [pc EXCEPT ![r] = "expire"]
        /\ count[key] = 0 /\ count' = [count EXCEPT ![key] = 1]
        /\ UNCHANGED <<armed, passed, before, faults>>
    BY <1>5 DEF FirstOfWindow, Awaits
  <2>2. passed[key] = 0 /\ key \notin armed
        /\ \A q \in Requests : pc[q] = "expire" => rate_limit_key(q) # key
    BY <1>2, <1>3, <1>4, <2>1 DEF CounterInv, Arming, Counter
  <2>3. \A q \in Requests : pc'[q] = "expire" <=> q = r \/ pc[q] = "expire"
    BY <2>1 DEF ToldInv, TypeOK
  <2>4. ASSUME NEW q \in Requests PROVE Arming(q)'
    BY <1>1, <1>2, <1>3, <1>4, <2>1, <2>2, <2>3 DEF CounterInv, Arming, ToldInv, TypeOK
  <2>5. ASSUME NEW k \in Keys PROVE Counter(k)'
    BY <1>1, <1>2, <1>3, <1>4, <2>1, <2>2, <2>3 DEF CounterInv, Counter, ToldInv, TypeOK
  <2> QED BY <2>4, <2>5 DEF CounterInv
<1>6. CASE Counted(r)
  <2>1. /\ pc[r] = "limit" /\ \A q \in Requests : pc'[q] = "expire" <=> pc[q] = "expire"
        /\ count[key] > 0 /\ count' = [count EXCEPT ![key] = count[key] + 1]
        /\ UNCHANGED <<armed, before, faults>>
        /\ \/ passed' = passed
           \/ /\ passed' = [passed EXCEPT ![key] = passed[key] + 1]
              /\ ~(count[key] + 1 > ROUTE_LIMITS[key[2]])
    BY <1>6 DEF Counted, Pass, Ends, Awaits, Exceeds, ToldInv, TypeOK
  <2>2. ASSUME NEW q \in Requests PROVE Arming(q)'
    BY <1>1, <1>2, <1>3, <1>4, <2>1 DEF CounterInv, Arming, Counter, ToldInv, TypeOK
  <2>3. ASSUME NEW k \in Keys PROVE Counter(k)'
    BY <1>1, <1>2, <1>3, <1>4, <2>1 DEF CounterInv, Counter, ToldInv, TypeOK
  <2> QED BY <2>2, <2>3 DEF CounterInv
<1>7. CASE SetExpiry(r)
  <2>1. /\ pc[r] = "expire" /\ pc' = [pc EXCEPT ![r] = "auth"]
        /\ armed' = armed \union {key}
        /\ passed' = [passed EXCEPT ![key] = passed[key] + 1]
        /\ UNCHANGED <<count, before, faults>>
    BY <1>7 DEF SetExpiry, Pass, Awaits
  <2>2. \A q \in Requests : pc'[q] = "expire" <=> q # r /\ pc[q] = "expire"
    BY <2>1 DEF ToldInv, TypeOK
  <2>3. /\ passed[key] < count[key] /\ passed[key] < ROUTE_LIMITS[key[2]]
        /\ \A q \in Requests : pc[q] = "expire" /\ rate_limit_key(q) = key => q = r
    BY <2>1 DEF CounterInv, Arming
  <2>4. ASSUME NEW q \in Requests PROVE Arming(q)'
    BY <1>2, <1>3, <1>4, <2>1, <2>2, <2>3 DEF CounterInv, Arming, ToldInv, TypeOK
  <2>5. ASSUME NEW k \in Keys PROVE Counter(k)'
    BY <1>2, <1>3, <1>4, <2>1, <2>2, <2>3 DEF CounterInv, Counter, ToldInv, TypeOK
  <2> QED BY <2>4, <2>5 DEF CounterInv
<1>8. CASE IncrFails(r)
  <2>1. /\ \A q \in Requests : pc'[q] = "expire" <=> pc[q] = "expire"
        /\ count' = count \/ count' = [count EXCEPT ![key] = count[key] + 1]
        /\ UNCHANGED <<armed, passed, before>> /\ faults' > 0
    BY <1>8, FaultType DEF IncrFails, Awaits, ToldInv, TypeOK
  <2>2. \A k \in Keys : count'[k] \in Nat /\ count'[k] >= count[k]
    BY <1>2, <1>4, <2>1 DEF ToldInv, TypeOK
  <2>3. ASSUME NEW q \in Requests PROVE Arming(q)'
    BY <1>3, <1>4, <2>1, <2>2 DEF CounterInv, Arming
  <2>4. ASSUME NEW k \in Keys PROVE Counter(k)'
    BY <1>4, <2>1, <2>2 DEF CounterInv, Counter
  <2> QED BY <2>3, <2>4 DEF CounterInv
<1>9. CASE ExpireFails(r)
  <2>1. /\ pc[r] = "expire" /\ pc' = [pc EXCEPT ![r] = "auth"]
        /\ armed' \in {armed, armed \union {key}}
        /\ passed' = [passed EXCEPT ![key] = passed[key] + 1]
        /\ UNCHANGED <<count, before>> /\ faults' > 0
    BY <1>9, FaultType DEF ExpireFails, Pass, Awaits, ToldInv
  <2>2. \A q \in Requests : pc'[q] = "expire" <=> q # r /\ pc[q] = "expire"
    BY <2>1 DEF ToldInv, TypeOK
  <2>3. /\ passed[key] < count[key] /\ passed[key] < ROUTE_LIMITS[key[2]]
        /\ \A q \in Requests : pc[q] = "expire" /\ rate_limit_key(q) = key => q = r
    BY <2>1 DEF CounterInv, Arming
  <2>4. ASSUME NEW q \in Requests PROVE Arming(q)'
    BY <1>2, <1>3, <1>4, <2>1, <2>2, <2>3 DEF CounterInv, Arming, ToldInv, TypeOK
  <2>5. ASSUME NEW k \in Keys PROVE Counter(k)'
    BY <1>2, <1>3, <1>4, <2>1, <2>2, <2>3 DEF CounterInv, Counter, ToldInv, TypeOK
  <2> QED BY <2>4, <2>5 DEF CounterInv
<1> QED BY <1>5, <1>6, <1>7, <1>8, <1>9 DEF InLimiter, LimiterActs

\* A request that is not counted touches no counter.
LEMMA UnlimitedCounter ==
    ASSUME ToldInv, CounterInv, NEW r \in Requests, Unlimited(r)
    PROVE  CounterInv'
<1>1. /\ ~LimiterWired /\ UNCHANGED <<count, armed, before, faults>>
      /\ pc[r] = "idle" /\ \A q \in Requests : pc'[q] = "expire" => pc[q] = "expire"
  BY DEF Unlimited, Pass, Awaits, ToldInv, TypeOK
<1>2. \A q \in Requests : pc[q] # "expire"
  BY <1>1 DEF ToldInv, Carries
<1> QED BY <1>1, <1>2 DEF CounterInv, Arming, Counter

LEMMA CounterStep == ToldInv /\ CounterInv /\ [Next]_vars => CounterInv'
<1> SUFFICES ASSUME ToldInv, CounterInv, [Next]_vars PROVE CounterInv'
  OBVIOUS
<1>1. ASSUME NEW r \in Requests, Arrive(r) \/ ExpireTokens(r) PROVE CounterInv'
  <2>1. UNCHANGED limiterVars \/ Unlimited(r)
    BY <1>1 DEF Arrive, ExpireTokens
  <2> QED BY <1>1, <2>1, UnlimitedCounter, CounterKept
          DEF Arrive, ExpireTokens, Unlimited, Pass, Awaits, ToldInv, TypeOK, requestVars
<1>2. ASSUME NEW r \in Requests, InLimiter(LimiterActs(r)) PROVE CounterInv'
  BY <1>2, LimiterCounter
<1>3. ASSUME NEW r \in Requests, InAccounts(AccountActs(r)) PROVE CounterInv'
  <2>1. UNCHANGED limiterVars /\ (faults > 0 => faults' > 0)
    BY <1>3 DEF InAccounts, AccountActs, AccountStep, EmailTaken, EmailFree, Insert,
       InsertFails, LoginSucceeds, LoginFails, PoolTimesOut, SolveFinds, AgentEnds,
       Commit, AnswerFirst, QueryFails, CommitFails, Fault, ToldInv, TypeOK
  <2>2. \A q \in Requests : pc'[q] = "expire" <=> pc[q] = "expire"
    BY <1>3 DEF InAccounts, AccountActs, AccountStep, EmailTaken, EmailFree, Insert,
       InsertFails, LoginSucceeds, LoginFails, PoolTimesOut, SolveFinds, AgentEnds,
       Commit, AnswerFirst, QueryFails, CommitFails, Finds, Ends, Awaits, ToldInv, TypeOK
  <2> QED BY <2>1, <2>2, CounterKept
<1>4. ASSUME NEW r \in Requests, InOcr(OcrActs(r)) PROVE CounterInv'
  BY <1>4, CounterKept DEF InOcr, OcrActs, Unauthorized, Authorized, MaySolve, Upload,
     TooLarge, Unreadable, StartExtractors, Combine, ThreadTakes, ThreadReturns,
     Ends, Awaits, ToldInv, TypeOK
<1>5. ASSUME NEW key \in Keys, InLimiter(WindowEnds(key)) PROVE CounterInv'
  <2>1. /\ key \in armed /\ armed' = armed \ {key}
        /\ count' = [count EXCEPT ![key] = 0] /\ passed' = [passed EXCEPT ![key] = 0]
        /\ before' = [before EXCEPT ![key] = passed[key]]
        /\ UNCHANGED <<pc, faults>>
    BY <1>5 DEF InLimiter, WindowEnds
  <2>2. \A q \in Requests : pc[q] = "expire" =>
            rate_limit_key(q) # key /\ rate_limit_key(q)' = rate_limit_key(q)
    BY <2>1, KeyStays DEF CounterInv, Arming
  <2>3. ASSUME NEW q \in Requests PROVE Arming(q)'
    BY <2>1, <2>2, KeyCounted DEF CounterInv, Arming, ToldInv, TypeOK
  <2>4. ASSUME NEW k \in Keys PROVE Counter(k)'
    BY <2>1, <2>2, LimitType DEF CounterInv, Counter, ToldInv, TypeOK
  <2> QED BY <2>3, <2>4 DEF CounterInv
<1>6. ASSUME NEW dead \in SUBSET Workers, Crash(dead) PROVE CounterInv'
  BY <1>6, CounterKept, FaultType DEF Crash, Victims, InFlight, Over, ToldInv, TypeOK
<1>7. CASE UNCHANGED vars
  BY <1>7, CounterKept DEF vars, requestVars
<1> QED BY <1>1, <1>2, <1>3, <1>4, <1>5, <1>6, <1>7, Steps

LEMMA CounterAlways == Spec => [](ToldInv /\ CounterInv)
<1>1. Init => ToldInv /\ CounterInv
  BY InitTold, InitCounter
<1>2. (ToldInv /\ CounterInv) /\ [Next]_vars => (ToldInv /\ CounterInv)'
  BY ToldStep, CounterStep
<1> QED BY <1>1, <1>2, PTL DEF Spec

\* Only a fault between INCR and EXPIRE leaves a counter without a TTL.
THEOREM CountersExpire == Spec => []CounterExpires
<1>1. CounterInv => CounterExpires
  BY DEF CounterInv, Counter, CounterExpires
<1> QED BY <1>1, CounterAlways, PTL

\* Less than twice the limit of a user's requests get through in any length of
\* a window, for any number of requests and users and whatever fails.
THEOREM LimitsHold ==
    ASSUME LimiterWired
    PROVE  Spec => []LessThanTwiceTheLimit
<1>1. ToldInv /\ CounterInv => LessThanTwiceTheLimit
  <2> SUFFICES ASSUME ToldInv, CounterInv, NEW key \in Keys
               PROVE  Recent(key) < 2 * ROUTE_LIMITS[key[2]]
    BY DEF LessThanTwiceTheLimit
  <2>1. /\ passed[key] \in Nat /\ before[key] \in Nat
        /\ ROUTE_LIMITS[key[2]] \in Nat \ {0}
    BY LimitType DEF ToldInv, TypeOK
  <2>2. passed[key] <= ROUTE_LIMITS[key[2]] /\ before[key] <= ROUTE_LIMITS[key[2]]
    BY DEF CounterInv, Counter
  <2>3. ASSUME NEW p \in Nat, NEW b \in Nat, NEW limit \in Nat \ {0},
               p <= limit, b <= limit
        PROVE  p + (IF b = 0 THEN 0 ELSE b - 1) < 2 * limit
    BY <2>3
  <2> QED BY <2>1, <2>2, <2>3 DEF Recent
<1> QED BY <1>1, CounterAlways, PTL

(***************************************************************************)
(* Extractors.                                                             *)
(***************************************************************************)
\* What an upload is answered once its extractors are done.
Fits(r) ==
    /\ \A e \in Extractors : found[r][e] \in Outcomes
    /\ LET by == IF found[r]["pix2tex"] = "text" THEN "pix2tex" ELSE "tesseract"
           confidence == IF by = "pix2tex" THEN 85 ELSE 55
       IN IF found[r][by] # "text" THEN reply[r] = Error(422)
          ELSE /\ reply[r].latex = by
               /\ reply[r].requires_user_confirmation
                    <=> confidence < OCR_CONFIDENCE_THRESHOLD

\* Extractors are started when their upload gets to wait for them.
FoundInv ==
    \A r \in Requests :
        /\ pc[r] \notin {"extract", "done"} => found[r] = Unused
        /\ pc[r] = "done" /\ found[r] # Unused => Fits(r)

LEMMA FoundKept ==
    ASSUME FoundInv, UNCHANGED found,
           \A r \in Requests :
              \/ pc'[r] = pc[r] /\ (pc[r] = "done" => reply'[r] = reply[r])
              \/ pc[r] \notin {"extract", "done"} /\ pc'[r] # "extract"
    PROVE  FoundInv'
  BY DEF FoundInv, Fits

LEMMA OcrFound ==
    ASSUME ToldInv, FoundInv, NEW r \in Requests, InOcr(OcrActs(r)) PROVE FoundInv'
<1>1. CASE Unauthorized(r) \/ (Authorized(r) /\ ~StartExtractors(r))
  BY <1>1, FoundKept DEF Unauthorized, Authorized, MaySolve, Upload, TooLarge, Unreadable,
     Ends, Awaits, ocrVars, ToldInv, TypeOK
<1>2. CASE StartExtractors(r)
  <2>1. pc[r] = "auth" /\ pc' = [pc EXCEPT ![r] = "extract"] /\ UNCHANGED reply
        /\ \A q \in Requests : q # r => found'[q] = found[q]
    BY <1>2 DEF StartExtractors, Awaits, ToldInv, TypeOK
  <2> QED BY <2>1 DEF FoundInv, Fits, ToldInv, TypeOK
<1>3. CASE Combine(r)
  <2>1. /\ pc[r] = "extract" /\ Gathered(r) /\ UNCHANGED found
        /\ pc' = [pc EXCEPT ![r] = "done"]
        /\ reply' = [reply EXCEPT ![r] = IF \E e \in Extractors : found[r][e] = "text"
                                         THEN Extracted(r) ELSE Error(422)]
    BY <1>3 DEF Combine, Ends, Awaits, ocrVars
  <2>2. Fits(r)'
    BY <2>1 DEF Fits, Gathered, Extracted, Confidence, Extractors, ToldInv, TypeOK
  <2>3. \A q \in Requests : q # r => pc'[q] = pc[q] /\ reply'[q] = reply[q]
    BY <2>1 DEF ToldInv, TypeOK
  <2> QED BY <2>1, <2>2, <2>3 DEF FoundInv, Fits, ToldInv, TypeOK
<1>4. ASSUME NEW e \in Extractors, ThreadTakes(r, e) \/ ThreadReturns(r, e)
      PROVE  FoundInv'
  <2>1. /\ UNCHANGED <<pc, reply>> /\ found[r][e] \in {"queued", "running"}
        /\ \A q \in Requests : q # r => found'[q] = found[q]
    BY <1>4 DEF ThreadTakes, ThreadReturns, ToldInv, TypeOK
  <2>2. pc[r] = "extract"
    BY <2>1 DEF FoundInv, Fits, Unused, Outcomes
  <2> QED BY <2>1, <2>2 DEF FoundInv, Fits
<1> QED BY <1>1, <1>2, <1>3, <1>4 DEF InOcr, OcrActs

LEMMA FoundStep == ToldInv /\ FoundInv /\ [Next]_vars => FoundInv'
<1> SUFFICES ASSUME ToldInv, FoundInv, [Next]_vars PROVE FoundInv'
  OBVIOUS
<1>1. ASSUME NEW r \in Requests, Arrive(r) \/ ExpireTokens(r) PROVE FoundInv'
  BY <1>1, FoundKept DEF Arrive, Unlimited, Pass, ExpireTokens, Awaits, ToldInv, TypeOK, requestVars, ocrVars
<1>2. ASSUME NEW r \in Requests, InLimiter(LimiterActs(r)) PROVE FoundInv'
  BY <1>2, FoundKept DEF InLimiter, LimiterActs, FirstOfWindow, Counted, SetExpiry,
     IncrFails, ExpireFails, Pass, Ends, Awaits, ToldInv, TypeOK, ocrVars
<1>3. ASSUME NEW r \in Requests, InAccounts(AccountActs(r)) PROVE FoundInv'
  BY <1>3, FoundKept DEF InAccounts, AccountActs, AccountStep, EmailTaken, EmailFree, Insert,
     InsertFails, LoginSucceeds, LoginFails, PoolTimesOut, SolveFinds, AgentEnds,
     Commit, AnswerFirst, QueryFails, CommitFails, Finds, Ends, Awaits, ToldInv, TypeOK, ocrVars
<1>4. ASSUME NEW r \in Requests, InOcr(OcrActs(r)) PROVE FoundInv'
  BY <1>4, OcrFound
<1>5. ASSUME NEW key \in Keys, InLimiter(WindowEnds(key)) PROVE FoundInv'
  BY <1>5, FoundKept DEF InLimiter, WindowEnds, ocrVars
<1>6. ASSUME NEW dead \in SUBSET Workers, Crash(dead) PROVE FoundInv'
  BY <1>6 DEF Crash, Victims, InFlight, Over, FoundInv, Fits, ToldInv, TypeOK
<1>7. CASE UNCHANGED vars
  BY <1>7, FoundKept DEF vars, requestVars, ocrVars
<1> QED BY <1>1, <1>2, <1>3, <1>4, <1>5, <1>6, <1>7, Steps

\* An upload is answered from what both extractors returned in the end, and
\* its user is asked to confirm exactly what is not confident enough.
THEOREM UploadsAreAnsweredByBoth == Spec => []AnsweredByBoth
<1>1. Init => ToldInv /\ FoundInv
  <2>1. Init => FoundInv
    BY DEF Init, InitOcr, FoundInv
  <2> QED BY <2>1, InitTold
<1>2. (ToldInv /\ FoundInv) /\ [Next]_vars => (ToldInv /\ FoundInv)'
  BY ToldStep, FoundStep
<1>3. FoundInv => AnsweredByBoth
  BY DEF FoundInv, Fits, AnsweredByBoth
<1> QED BY <1>1, <1>2, <1>3, PTL DEF Spec
=============================================================================
