----------------------------- MODULE JobsProofs -----------------------------
(***************************************************************************)
(* Theorems about Jobs, for any number of jobs and of processes and any    *)
(* number of faults.                                                       *)
(*                                                                         *)
(* The inductive invariant says where the token of a job is: in a message, *)
(* in one process, or nowhere once the job is over or orphaned; and that   *)
(* the runs started are the retries asked for, plus one from the moment    *)
(* the state says that the last of them has started.                       *)
(***************************************************************************)
EXTENDS Jobs, TLAPS

\* The runs started are counted by the retries; a job that fails may do so
\* before its last run has started.
CountInv(j) ==
    /\ state[j] \in {"PENDING", "RETRY"} => runs[j] = retries[j]
    /\ state[j] = "STARTED" => runs[j] = retries[j] + 1
    /\ state[j] \in Ready => runs[j] \in {retries[j], retries[j] + 1}

\* A message waits only for a job that is neither running nor ready.
MessageInv(j) ==
    /\ message[j] = "unsent" => state[j] = "PENDING"
    /\ message[j] = "queued" => state[j] \in {"PENDING", "RETRY"}

\* A process has a job that is not ready, and no other process has it.
SlotInv(s) ==
    running[s] # NoJob =>
        /\ message[running[s]] = "gone" /\ state[running[s]] \in Unready
        /\ \A t \in Slots : running[t] = running[s] => t = s

IInv ==
    /\ TypeOK
    /\ \A j \in JobIds : CountInv(j) /\ MessageInv(j)
    /\ \A s \in Slots : SlotInv(s)

\* Numbers of retries are natural numbers.
LEMMA MaxRetriesType == \A j \in JobIds : max_retries[TaskOf[j]] \in Nat
  BY TaskAssumption DEF max_retries

LEMMA InitIInv == Init => IInv
  BY MaxRetriesType, FaultAssumption, JobAssumption
     DEF Init, IInv, TypeOK, CountInv, MessageInv, SlotInv, Unready, Ready

\* The job in process s leaves it for a state that fits its message.
LEMMA LeavesIInv ==
    ASSUME IInv, NEW s \in Slots, NEW new \in Unready \union Ready,
           Leaves(s, new), TypeOK',
           \/ /\ new \in Ready
              /\ UNCHANGED <<message, retries>>
           \/ /\ new = "STARTED" /\ Started(s)
              /\ UNCHANGED <<message, retries>>
           \/ /\ new = "RETRY" /\ Started(s)
              /\ message' = [message EXCEPT ![running[s]] = "queued"]
              /\ retries' = [retries EXCEPT ![running[s]] = @ + 1]
    PROVE  IInv'
<1> DEFINE r == running[s]
<1>1. /\ r \in JobIds /\ message[r] = "gone" /\ state[r] \in Unready
      /\ running' = [running EXCEPT ![s] = NoJob]
      /\ state' = [state EXCEPT ![r] = new]
      /\ runs' = runs
      /\ \A t \in Slots : running[t] = r => t = s
  BY DEF IInv, TypeOK, SlotInv, Leaves
<1>2. ASSUME NEW j \in JobIds PROVE CountInv(j)' /\ MessageInv(j)'
  <2>1. CASE j = r
    <3>1. CountInv(j)'
      BY <1>1, <2>1 DEF IInv, TypeOK, CountInv, Started, Unready, Ready
    <3>2. MessageInv(j)'
      BY <1>1, <2>1 DEF IInv, TypeOK, MessageInv, Ready
    <3> QED BY <3>1, <3>2
  <2>2. CASE j # r
    BY <1>1, <2>2 DEF IInv, TypeOK, CountInv, MessageInv
  <2> QED BY <2>1, <2>2
<1>3. ASSUME NEW t \in Slots PROVE SlotInv(t)'
  <2>1. CASE t = s
    BY <1>1, <2>1 DEF IInv, TypeOK, SlotInv
  <2>2. CASE t # s
    <3>1. running'[t] = running[t] /\ running[t] # r
      BY <1>1, <2>2 DEF IInv, TypeOK
    <3>2. CASE running[t] # NoJob
      <4>1. running[t] \in JobIds
        BY <3>2 DEF IInv, TypeOK
      <4>2. message'[running[t]] = message[running[t]]
            /\ state'[running[t]] = state[running[t]]
        BY <1>1, <3>1, <4>1 DEF IInv, TypeOK
      <4>3. ASSUME NEW u \in Slots, running'[u] = running[t] PROVE u = t
        BY <1>1, <3>2, <4>3 DEF IInv, TypeOK, SlotInv
      <4> QED BY <3>1, <3>2, <4>2, <4>3 DEF IInv, SlotInv
    <3> QED BY <3>1, <3>2 DEF SlotInv
  <2> QED BY <2>1, <2>2
<1> QED BY <1>2, <1>3 DEF IInv

\* The ways a run ends keep the invariant.
LEMMA EndIInv ==
    ASSUME IInv, NEW s \in Slots,
           \/ Returns(s) \/ Retries(s) \/ GivesUp(s) \/ HardLimit(s)
           \/ ProcessDies(s) \/ RetryNotSent(s)
    PROVE  IInv'
<1>f. faults \in Nat /\ MaxFaults \in Nat
  BY FaultAssumption DEF IInv, TypeOK
<1>r. ASSUME NEW new, Leaves(s, new)
      PROVE  /\ running[s] \in JobIds
             /\ running' = [running EXCEPT ![s] = NoJob]
             /\ state' = [state EXCEPT ![running[s]] = new]
             /\ soft' = soft /\ runs' = runs
  BY <1>r DEF Leaves, IInv, TypeOK
<1>1. CASE Returns(s)
  <2>1. TypeOK'
    BY <1>1, <1>r DEF Returns, IInv, TypeOK, Ready
  <2> QED BY <1>1, <2>1, LeavesIInv DEF Returns, Ready
<1>2. CASE Retries(s)
  <2>1. /\ Leaves(s, "RETRY") /\ Started(s) /\ running[s] \in JobIds
        /\ retries[running[s]] + 1 <= max_retries[TaskOf[running[s]]]
        /\ message' = [message EXCEPT ![running[s]] = "queued"]
        /\ retries' = [retries EXCEPT ![running[s]] = @ + 1]
        /\ faults' = faults
    BY <1>2, <1>r DEF Retries, MayRetry
  <2>s. /\ running' = [running EXCEPT ![s] = NoJob]
        /\ state' = [state EXCEPT ![running[s]] = "RETRY"]
        /\ soft' = soft /\ runs' = runs
    BY <2>1, <1>r
  <2>2. TypeOK'
    <3>1. /\ message' \in [JobIds -> {"unsent", "queued", "gone"}]
          /\ retries' \in [JobIds -> Nat]
      BY <2>1 DEF IInv, TypeOK
    <3>2. \A j \in JobIds : retries'[j] <= max_retries[TaskOf[j]]
      BY <2>1 DEF IInv, TypeOK
    <3>3. /\ state' \in [JobIds -> Unready \union Ready]
          /\ running' \in [Slots -> JobIds \union {NoJob}]
      BY <2>1, <2>s DEF IInv, TypeOK, Unready
    <3> QED BY <2>1, <2>s, <3>1, <3>2, <3>3 DEF IInv, TypeOK
  <2>3. "RETRY" \in Unready \union Ready
    BY DEF Unready
  <2>4. /\ Leaves(s, "RETRY") /\ Started(s)
        /\ message' = [message EXCEPT ![running[s]] = "queued"]
        /\ retries' = [retries EXCEPT ![running[s]] = @ + 1]
    BY <2>1
  <2> QED BY <2>2, <2>3, <2>4, LeavesIInv
<1>3. CASE GivesUp(s)
  <2>1. TypeOK'
    BY <1>3, <1>r DEF GivesUp, IInv, TypeOK, Ready
  <2> QED BY <1>3, <2>1, LeavesIInv DEF GivesUp, Ready
<1>4. CASE HardLimit(s)
  <2>1. TypeOK'
    BY <1>4, <1>r DEF HardLimit, IInv, TypeOK, Ready
  <2> QED BY <1>4, <2>1, LeavesIInv DEF HardLimit, Ready
<1>5. CASE ProcessDies(s)
  <2>1. TypeOK'
    BY <1>5, <1>f, <1>r DEF ProcessDies, Fault, IInv, TypeOK, Ready
  <2> QED BY <1>5, <2>1, LeavesIInv DEF ProcessDies, Ready
<1>6. CASE RetryNotSent(s)
  <2>1. TypeOK'
    BY <1>6, <1>f, <1>r DEF RetryNotSent, Fault, IInv, TypeOK, Unready
  <2> QED BY <1>6, <2>1, LeavesIInv DEF RetryNotSent, Unready
<1> QED BY <1>1, <1>2, <1>3, <1>4, <1>5, <1>6

\* A process takes a job only while no other process has it.
LEMMA BeginIInv ==
    ASSUME IInv, NEW j \in JobIds, NEW s \in Slots, Begin(j, s)
    PROVE  IInv'
<1>1. /\ message[j] = "queued" /\ running[s] = NoJob
      /\ message' = [message EXCEPT ![j] = "gone"]
      /\ running' = [running EXCEPT ![s] = j]
      /\ soft' = [soft EXCEPT ![s] = FALSE]
      /\ UNCHANGED <<retries, state, runs, faults>>
  BY DEF Begin
<1>2. TypeOK'
  BY <1>1 DEF IInv, TypeOK
<1>3. /\ state[j] \in Unready
      /\ \A t \in Slots : running[t] # j
  BY <1>1, JobAssumption DEF IInv, MessageInv, SlotInv, Unready
<1>4. ASSUME NEW k \in JobIds PROVE CountInv(k)' /\ MessageInv(k)'
  BY <1>1 DEF IInv, TypeOK, CountInv, MessageInv
<1>5. ASSUME NEW t \in Slots PROVE SlotInv(t)'
  <2>1. CASE t = s
    BY <1>1, <1>3, <2>1 DEF IInv, TypeOK, SlotInv
  <2>2. CASE t # s
    BY <1>1, <1>3, <2>2 DEF IInv, TypeOK, SlotInv
  <2> QED BY <2>1, <2>2
<1> QED BY <1>2, <1>4, <1>5 DEF IInv

\* A job is started by the one process that has it.
LEMMA StartsIInv ==
    ASSUME IInv, NEW s \in Slots, Starts(s)
    PROVE  IInv'
<1> DEFINE r == running[s]
<1>1. /\ r \in JobIds /\ r # NoJob /\ message[r] = "gone"
      /\ state[r] \in {"PENDING", "RETRY"}
      /\ state' = [state EXCEPT ![r] = "STARTED"]
      /\ runs' = [runs EXCEPT ![r] = @ + 1]
      /\ UNCHANGED <<message, retries, running, soft, faults>>
  BY DEF Starts, Started, IInv, TypeOK, SlotInv, Unready
<1>2. TypeOK'
  BY <1>1 DEF IInv, TypeOK, Unready
<1>3. ASSUME NEW k \in JobIds PROVE CountInv(k)' /\ MessageInv(k)'
  <2>1. CountInv(k)'
    BY <1>1 DEF IInv, TypeOK, CountInv, Ready
  <2>2. MessageInv(k)'
    BY <1>1 DEF IInv, TypeOK, MessageInv
  <2> QED BY <2>1, <2>2
<1>4. ASSUME NEW t \in Slots PROVE SlotInv(t)'
  BY <1>1 DEF IInv, TypeOK, SlotInv, Unready
<1> QED BY <1>2, <1>3, <1>4 DEF IInv

LEMMA NextIInv == IInv /\ [Next]_vars => IInv'
<1> SUFFICES ASSUME IInv, [Next]_vars PROVE IInv'
  OBVIOUS
<1>1. ASSUME NEW j \in JobIds, Submit(j) PROVE IInv'
  BY <1>1, MaxRetriesType
     DEF Submit, IInv, TypeOK, CountInv, MessageInv, SlotInv
<1>2. ASSUME NEW s \in Slots, SoftLimit(s) PROVE IInv'
  BY <1>2 DEF SoftLimit, IInv, TypeOK, CountInv, MessageInv, SlotInv
<1>3. CASE WorkerDies
  <2>1. /\ faults \in Nat /\ faults < MaxFaults /\ faults' = faults + 1
        /\ running' = [s \in Slots |-> NoJob]
        /\ UNCHANGED <<message, retries, state, soft, runs>>
    BY <1>3 DEF WorkerDies, Fault, IInv, TypeOK
  <2>2. TypeOK'
    BY <2>1, FaultAssumption DEF IInv, TypeOK
  <2> QED BY <2>1, <2>2
             DEF IInv, CountInv, MessageInv, SlotInv
<1>4. CASE UNCHANGED vars
  BY <1>4 DEF vars, IInv, TypeOK, CountInv, MessageInv, SlotInv
<1> QED BY <1>1, <1>2, <1>3, <1>4, BeginIInv, StartsIInv, EndIInv DEF Next, AllReady

\* The token of a job is where IInv says, in every reachable state.
THEOREM IInvInductive == Spec => []IInv
  BY InitIInv, NextIInv, PTL DEF Spec

\* Type correctness of jobs, messages and processes; in particular no job is
\* retried more often than its decorator says.
THEOREM TypeCorrect == Spec => []TypeOK
<1>1. IInv => TypeOK
  BY DEF IInv
<1> QED BY <1>1, IInvInductive, PTL

\* No job has two runs at a time or more runs than it may have, for any pool
\* and any faults (solve_tasks.py:15, ocr_tasks.py:19).
THEOREM NeverRunTwice == Spec => []OneRunAtATime
<1>1. IInv => OneRunAtATime
  <2> SUFFICES ASSUME IInv, NEW j \in JobIds
               PROVE  /\ \A s, t \in Runs(j) : s = t
                      /\ Runs(j) # {} => message[j] = "gone" /\ state[j] \in Unready
                      /\ runs[j] <= max_retries[TaskOf[j]] + 1
    BY DEF OneRunAtATime
  <2>1. \A s \in Runs(j) : s \in Slots /\ running[s] = j /\ SlotInv(s) /\ j # NoJob
    BY JobAssumption DEF Runs, IInv
  <2>2. runs[j] <= max_retries[TaskOf[j]] + 1
    BY MaxRetriesType DEF IInv, TypeOK, CountInv, Unready
  <2> QED BY <2>1, <2>2 DEF SlotInv
<1> QED BY <1>1, IInvInductive, PTL

\* What no step but a fault does to a job is to take it out of its process
\* without an end and without a message; from the queue nothing takes it but a
\* process, and a lost job stays lost.
THEOREM WaitingIsSafe == Spec => LostOnlyByFaults
<1>1. IInv /\ [Next]_vars =>
        [\A j \in JobIds :
             /\ ~Orphaned(j) /\ Orphaned(j)' => faults' > faults /\ Runs(j) # {}
             /\ Orphaned(j) => Orphaned(j)']_vars
  <2> SUFFICES ASSUME IInv, Next, NEW j \in JobIds
               PROVE  /\ ~Orphaned(j) /\ Orphaned(j)' => faults' > faults /\ Runs(j) # {}
                      /\ Orphaned(j) => Orphaned(j)'
    BY DEF vars
  <2>o. j # NoJob
    BY JobAssumption
  <2>1. ASSUME NEW k \in JobIds, Submit(k)
        PROVE  Orphaned(j)' <=> Orphaned(j)
    BY <2>1 DEF Submit, Orphaned, Runs, IInv, TypeOK
  <2>2. ASSUME NEW k \in JobIds, NEW s \in Slots, Begin(k, s)
        PROVE  Orphaned(j)' <=> Orphaned(j)
    <3>1. CASE k = j
      <4>1. message[j] = "queued" /\ s \in Runs(j)'
        BY <2>2, <3>1 DEF Begin, Runs, IInv, TypeOK
      <4> QED BY <4>1 DEF Orphaned
    <3>2. CASE k # j
      BY <2>o, <2>2, <3>2 DEF Begin, Orphaned, Runs, IInv, TypeOK
    <3> QED BY <3>1, <3>2
  <2>3. ASSUME NEW s \in Slots, Starts(s)
        PROVE  Orphaned(j)' <=> Orphaned(j)
    <3>1. CASE running[s] = j
      BY <2>3, <3>1 DEF Starts, Orphaned, Runs
    <3>2. CASE running[s] # j
      BY <2>3, <3>2 DEF Starts, Orphaned, Runs, IInv, TypeOK
    <3> QED BY <3>1, <3>2
  <2>4. ASSUME NEW s \in Slots, NEW new, Leaves(s, new), running[s] # j,
               message'[j] = message[j]
        PROVE  Orphaned(j)' <=> Orphaned(j)
    BY <2>o, <2>4 DEF Leaves, Orphaned, Runs, IInv, TypeOK
  <2>5. ASSUME NEW s \in Slots,
               \/ Returns(s) \/ Retries(s) \/ GivesUp(s) \/ HardLimit(s)
               \/ ProcessDies(s) \/ RetryNotSent(s)
        PROVE  /\ Orphaned(j) => Orphaned(j)'
               /\ ~Orphaned(j) /\ Orphaned(j)' => faults' > faults /\ Runs(j) # {}
    <3>1. CASE running[s] # j
      <4>1. message'[j] = message[j]
        BY <2>5, <3>1 DEF Returns, Retries, GivesUp, HardLimit, ProcessDies,
           RetryNotSent, Leaves, IInv, TypeOK
      <4>2. \E new : Leaves(s, new)
        BY <2>5 DEF Returns, Retries, GivesUp, HardLimit, ProcessDies, RetryNotSent
      <4> QED BY <2>4, <3>1, <4>1, <4>2
    <3>2. CASE running[s] = j
      <4>1. s \in Runs(j) /\ ~Orphaned(j)
        BY <3>2 DEF Runs, Orphaned
      <4>2. CASE RetryNotSent(s)
        BY <4>1, <4>2, FaultAssumption DEF RetryNotSent, Fault, IInv, TypeOK
      <4>3. CASE Retries(s)
        BY <3>2, <4>1, <4>3 DEF Retries, Orphaned, IInv, TypeOK
      <4>4. CASE Returns(s) \/ GivesUp(s) \/ HardLimit(s) \/ ProcessDies(s)
        <5>1. state'[j] \in {"SUCCESS", "FAILURE"}
          BY <3>2, <4>4 DEF Returns, GivesUp, HardLimit, ProcessDies, Leaves, IInv, TypeOK
        <5> QED BY <4>1, <5>1 DEF Orphaned, Unready
      <4> QED BY <2>5, <4>2, <4>3, <4>4
    <3> QED BY <3>1, <3>2
  <2>6. ASSUME (\E s \in Slots : SoftLimit(s)) \/ AllReady
        PROVE  Orphaned(j)' <=> Orphaned(j)
    BY <2>6 DEF SoftLimit, AllReady, vars, Orphaned, Runs
  <2>7. CASE WorkerDies
    <3>1. /\ faults' > faults /\ Runs(j)' = {}
          /\ message' = message /\ state' = state
      BY <2>o, <2>7, FaultAssumption DEF WorkerDies, Fault, Runs, IInv, TypeOK
    <3> QED BY <3>1 DEF Orphaned
  <2> QED BY <2>1, <2>2, <2>3, <2>5, <2>6, <2>7 DEF Next
<1> QED BY <1>1, IInvInductive, PTL DEF Spec, LostOnlyByFaults

\* A job that is ready stays as it is: no process has it and no message asks
\* for it, so that nothing a run, a limit or a fault does can reach it.
THEOREM ReadyStays == Spec => ReadyIsFinal
<1>1. IInv /\ [Next]_vars =>
        [\A j \in JobIds : state[j] \in Ready =>
             /\ state'[j] = state[j]
             /\ runs'[j] = runs[j] /\ message'[j] = message[j]]_vars
  <2> SUFFICES ASSUME IInv, Next, NEW j \in JobIds, state[j] \in Ready
               PROVE  /\ state'[j] = state[j]
                      /\ runs'[j] = runs[j] /\ message'[j] = message[j]
    BY DEF vars
  <2>1. /\ message[j] = "gone"
        /\ \A s \in Slots : running[s] # j
    BY JobAssumption DEF IInv, TypeOK, MessageInv, SlotInv, Ready, Unready
  <2>2. ASSUME NEW k \in JobIds, Submit(k) \/ \E s \in Slots : Begin(k, s)
        PROVE  /\ state'[j] = state[j]
               /\ runs'[j] = runs[j] /\ message'[j] = message[j]
    BY <2>1, <2>2 DEF Submit, Begin, IInv, TypeOK
  <2>s. ASSUME NEW s \in Slots, Starts(s)
        PROVE  /\ state'[j] = state[j]
               /\ runs'[j] = runs[j] /\ message'[j] = message[j]
    BY <2>1, <2>s DEF Starts, IInv, TypeOK
  <2>3. ASSUME NEW s \in Slots, NEW new, Leaves(s, new)
        PROVE  state'[j] = state[j] /\ runs'[j] = runs[j]
    BY <2>1, <2>3 DEF Leaves, IInv, TypeOK
  <2>4. ASSUME NEW s \in Slots, Returns(s) \/ Retries(s) \/ GivesUp(s)
                   \/ HardLimit(s) \/ ProcessDies(s) \/ RetryNotSent(s)
        PROVE  /\ state'[j] = state[j]
               /\ runs'[j] = runs[j] /\ message'[j] = message[j]
    <3>1. message'[j] = message[j]
      BY <2>1, <2>4 DEF Returns, Retries, GivesUp, HardLimit, ProcessDies,
         RetryNotSent, IInv, TypeOK
    <3> QED BY <2>3, <2>4, <3>1 DEF Returns, Retries, GivesUp, HardLimit,
         ProcessDies, RetryNotSent
  <2>5. ASSUME (\E s \in Slots : SoftLimit(s)) \/ WorkerDies \/ AllReady
        PROVE  /\ state'[j] = state[j]
               /\ runs'[j] = runs[j] /\ message'[j] = message[j]
    BY <2>5 DEF SoftLimit, WorkerDies, AllReady, vars
  <2> QED BY <2>2, <2>s, <2>4, <2>5 DEF Next
<1> QED BY <1>1, IInvInductive, PTL DEF Spec, ReadyIsFinal

\* A job that fails has used all its runs, or was past its limit, or met a
\* fault (solve_tasks.py:47-49, ocr_tasks.py:38-43, celery_app.py:23).
THEOREM FailsLast == Spec => FailsOnlyWhenTried
<1>1. IInv /\ [Next]_vars =>
        [\A j \in JobIds : state[j] # "FAILURE" /\ state'[j] = "FAILURE" =>
             \/ runs[j] = max_retries[TaskOf[j]] + 1
             \/ \E s \in Runs(j) : soft[s]
             \/ faults' > faults]_vars
  <2> SUFFICES ASSUME IInv, Next, NEW j \in JobIds, state[j] # "FAILURE",
                      state'[j] = "FAILURE"
               PROVE  \/ runs[j] = max_retries[TaskOf[j]] + 1
                      \/ \E s \in Runs(j) : soft[s]
                      \/ faults' > faults
    BY DEF vars
  <2>f. faults \in Nat
    BY FaultAssumption DEF IInv, TypeOK
  <2>1. ASSUME NEW s \in Slots, NEW new, Leaves(s, new)
        PROVE  running[s] = j /\ new = "FAILURE"
    BY <2>1 DEF Leaves, IInv, TypeOK
  <2>2. ASSUME NEW s \in Slots, GivesUp(s)
        PROVE  runs[j] = max_retries[TaskOf[j]] + 1
    <3>1. running[s] = j /\ ~MayRetry(j) /\ state[j] = "STARTED"
      BY <2>1, <2>2 DEF GivesUp, Started
    <3>2. runs[j] = retries[j] + 1
      BY <3>1 DEF IInv, CountInv
    <3> QED BY <3>1, <3>2, MaxRetriesType DEF MayRetry, IInv, TypeOK
  <2>3. ASSUME NEW s \in Slots, HardLimit(s)
        PROVE  s \in Runs(j) /\ soft[s]
    BY <2>1, <2>3 DEF HardLimit, Runs
  <2>4. ASSUME NEW s \in Slots, ProcessDies(s) PROVE faults' > faults
    BY <2>4, <2>f DEF ProcessDies, Fault
  <2>5. ASSUME NEW s \in Slots, Returns(s) \/ Retries(s) \/ RetryNotSent(s)
        PROVE  FALSE
    BY <2>1, <2>5 DEF Returns, Retries, RetryNotSent
  <2>6. ASSUME NEW k \in JobIds, Submit(k) \/ \E s \in Slots : Begin(k, s)
        PROVE  FALSE
    BY <2>6 DEF Submit, Begin
  <2>s. ASSUME NEW s \in Slots, Starts(s) PROVE FALSE
    BY <2>s DEF Starts, IInv, TypeOK
  <2>7. ASSUME (\E s \in Slots : SoftLimit(s)) \/ WorkerDies \/ AllReady
        PROVE  FALSE
    BY <2>7 DEF SoftLimit, WorkerDies, AllReady, vars
  <2> QED BY <2>2, <2>3, <2>4, <2>5, <2>6, <2>s, <2>7 DEF Next
<1> QED BY <1>1, IInvInductive, PTL DEF Spec, FailsOnlyWhenTried

\* A run that ends changes no other job's state, and its own to the end or,
\* if a run is left for it, to RETRY.
LEMMA EndIsTold ==
    ASSUME IInv, NEW s \in Slots,
           \/ Returns(s) \/ Retries(s) \/ GivesUp(s) \/ HardLimit(s)
           \/ ProcessDies(s) \/ RetryNotSent(s)
    PROVE  Client!JobStep \/ UNCHANGED <<state, runs>>
<1> DEFINE r == running[s]
<1>1. ASSUME NEW new, Leaves(s, new)
      PROVE  /\ r \in JobIds /\ state[r] \in {"PENDING", "STARTED", "RETRY"}
             /\ state' = [state EXCEPT ![r] = new]
             /\ runs' = runs
  BY <1>1 DEF Leaves, IInv, TypeOK, SlotInv, Unready
<1>2. CASE Returns(s)
  <2>1. Leaves(s, "SUCCESS") /\ state[r] = "STARTED"
    BY <1>2 DEF Returns, Started
  <2> QED BY <1>1, <2>1 DEF Client!JobStep, Client!End, Client!Becomes
<1>3. CASE GivesUp(s) \/ HardLimit(s) \/ ProcessDies(s)
  <2>1. Leaves(s, "FAILURE")
    BY <1>3 DEF GivesUp, HardLimit, ProcessDies
  <2> QED BY <1>1, <2>1 DEF Client!JobStep, Client!End, Client!Becomes
<1>4. CASE Retries(s)
  <2>1. Leaves(s, "RETRY") /\ MayRetry(r) /\ state[r] = "STARTED"
    BY <1>4 DEF Retries, Started
  <2>2. runs[r] = retries[r] + 1
    BY <1>1, <2>1 DEF IInv, CountInv
  <2>3. runs[r] < max_retries[TaskOf[r]] + 1
    BY <1>1, <2>1, <2>2, MaxRetriesType DEF MayRetry, IInv, TypeOK
  <2> QED BY <1>1, <2>1, <2>3 DEF Client!JobStep, Client!AskAgain, Client!Becomes
<1>5. CASE RetryNotSent(s)
  <2>1. /\ Leaves(s, "STARTED") /\ state[r] = "STARTED"
        /\ state \in [JobIds -> Unready \union Ready]
    BY <1>5 DEF RetryNotSent, Started, IInv, TypeOK
  <2> QED BY <1>1, <2>1
<1> QED BY <1>2, <1>3, <1>4, <1>5

\* A run that starts is one that is still allowed, and the first or the one
\* after a RETRY.
LEMMA StartsIsTold ==
    ASSUME IInv, NEW s \in Slots, Starts(s)
    PROVE  Client!Start(running[s]) /\ running[s] \in JobIds
<1> DEFINE r == running[s]
<1>1. /\ r \in JobIds /\ state[r] \in {"PENDING", "RETRY"}
      /\ runs[r] = retries[r]
  BY DEF Starts, Started, IInv, TypeOK, CountInv, SlotInv, Unready
<1>2. runs[r] < max_retries[TaskOf[r]] + 1
  BY <1>1, MaxRetriesType DEF IInv, TypeOK
<1> QED BY <1>1, <1>2 DEF Starts, Client!Start, Client!Becomes

\* Whatever limits, retries and faults do to a job's runs, the states its
\* client polls are those of its runs, one STARTED for each (solve_tasks.py:21-27).
THEOREM JobsImplementContract == Spec => ImplementsJobContract
<1>1. Init => Client!JobsInit
  BY DEF Init, Client!JobsInit
<1>2. IInv /\ [Next]_vars => [Client!JobStep]_<<state, runs>>
  <2> SUFFICES ASSUME IInv, [Next]_vars
               PROVE  Client!JobStep \/ UNCHANGED <<state, runs>>
    OBVIOUS
  <2>1. ASSUME NEW s \in Slots, Starts(s)
        PROVE  Client!JobStep
    BY <2>1, StartsIsTold DEF Client!JobStep
  <2>2. ASSUME NEW s \in Slots,
               \/ Returns(s) \/ Retries(s) \/ GivesUp(s) \/ HardLimit(s)
               \/ ProcessDies(s) \/ RetryNotSent(s)
        PROVE  Client!JobStep \/ UNCHANGED <<state, runs>>
    BY <2>2, EndIsTold
  <2>3. CASE \/ \E j \in JobIds : Submit(j)
             \/ \E j \in JobIds, s \in Slots : Begin(j, s)
             \/ \E s \in Slots : SoftLimit(s)
             \/ WorkerDies \/ UNCHANGED vars
    BY <2>3 DEF Submit, Begin, SoftLimit, WorkerDies, vars
  <2> QED BY <2>1, <2>2, <2>3 DEF Next, AllReady
<1> QED BY <1>1, <1>2, IInvInductive, PTL
        DEF Spec, ImplementsJobContract, Client!JobsAreServed
=============================================================================
