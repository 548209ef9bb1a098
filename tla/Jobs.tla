-------------------------------- MODULE Jobs --------------------------------
(***************************************************************************)
(* The Celery jobs of workflows/: async_solve_task and extract_latex_task,  *)
(* from the message that asks for one to the state its client polls.        *)
(*                                                                         *)
(* A worker runs jobs in a pool of processes (Dockerfile.worker starts     *)
(* two).  acks_late is not set, so a message is acknowledged, and gone,     *)
(* just before its run; that the run has started is stored by the process, *)
(* later.  A run that raises is retried by a new message with a greater    *)
(* count; it ends by itself, by the hard time limit or by a fault.  What   *)
(* Celery does with all this is external code, modelled as the settings in *)
(* celery_app.py and the task decorators ask for it.                       *)
(***************************************************************************)
EXTENDS Naturals

CONSTANTS
    JobIds,     \* the jobs
    TaskOf,     \* the task of each: "solve" or "ocr"
    Slots,      \* the processes of the worker's pool
    NoJob,      \* a process without a job
    MaxFaults   \* bound on faults

ASSUME JobAssumption == NoJob \notin JobIds
ASSUME TaskAssumption == TaskOf \in [JobIds -> {"solve", "ocr"}]
ASSUME FaultAssumption == MaxFaults \in Nat

\* max_retries of the two tasks.
max_retries == [solve |-> 1, ocr |-> 2]

VARIABLES
    message,  \* the job's message: not sent yet, with the broker, or gone
    retries,  \* request.retries, which travels with the message
    state,    \* the job's state in the result backend
    running,  \* the job each process runs
    soft,     \* the soft limit of the process's run has passed
    runs,     \* the number of runs started
    faults    \* the number of faults so far

vars == <<message, retries, state, running, soft, runs, faults>>

\* Celery's states.  An unknown job is PENDING, and so is a waiting one.
Unready == {"PENDING", "STARTED", "RETRY"}
Ready   == {"SUCCESS", "FAILURE"}

Init ==
    /\ message = [j \in JobIds |-> "unsent"]
    /\ retries = [j \in JobIds |-> 0]
    /\ state = [j \in JobIds |-> "PENDING"]
    /\ running = [s \in Slots |-> NoJob]
    /\ soft = [s \in Slots |-> FALSE]
    /\ runs = [j \in JobIds |-> 0]
    /\ faults = 0

\* delay(), as the docstrings of the tasks ask to be called.
Submit(j) ==
    /\ message[j] = "unsent"
    /\ message' = [message EXCEPT ![j] = "queued"]
    /\ UNCHANGED <<retries, state, running, soft, runs, faults>>

\* Faulty variant: the message is kept until the run is over.
Begin_AcksLate(j, s) ==
    /\ message[j] = "queued" /\ running[s] = NoJob
    /\ running' = [running EXCEPT ![s] = j]
    /\ soft' = [soft EXCEPT ![s] = FALSE]
    /\ UNCHANGED <<message, retries, state, runs, faults>>
\* A free process accepts the job: the worker acknowledges its message, and
\* the clocks of its time limits run from now on.
Begin(j, s) ==
    /\ message[j] = "queued" /\ running[s] = NoJob
    /\ message' = [message EXCEPT ![j] = "gone"]
    /\ running' = [running EXCEPT ![s] = j]
    /\ soft' = [soft EXCEPT ![s] = FALSE]
    /\ UNCHANGED <<retries, state, runs, faults>>

\* task_track_started: the process stores that the run has started.  Until
\* then the job looks as it did while its message waited.
Started(s) == running[s] # NoJob /\ state[running[s]] = "STARTED"

Starts(s) ==
    /\ running[s] # NoJob /\ ~Started(s)
    /\ state' = [state EXCEPT ![running[s]] = "STARTED"]
    /\ runs' = [runs EXCEPT ![running[s]] = @ + 1]
    /\ UNCHANGED <<message, retries, running, soft, faults>>

\* Process s is done with its job, which is then in that state.
Leaves(s, new) ==
    /\ running[s] # NoJob
    /\ running' = [running EXCEPT ![s] = NoJob]
    /\ state' = [state EXCEPT ![running[s]] = new]
    /\ UNCHANGED <<soft, runs>>

Returns(s) ==
    /\ Started(s)
    /\ Leaves(s, "SUCCESS")
    /\ UNCHANGED <<message, retries, faults>>

\* Faulty variants of the test in self.retry: one retry more, one fewer.
MayRetry_OneMore(j) == retries[j] <= max_retries[TaskOf[j]]
MayRetry_OneFewer(j) == retries[j] + 1 < max_retries[TaskOf[j]]
\* self.retry counts the retry it is asked for.
MayRetry(j) == retries[j] + 1 <= max_retries[TaskOf[j]]

\* Faulty variant: the state says RETRY, and no message is sent.
Retries_NothingSent(s) ==
    /\ Started(s)
    /\ Leaves(s, "RETRY")
    /\ MayRetry(running[s])
    /\ UNCHANGED <<message, retries, faults>>
\* Whatever the task raises, SoftTimeLimitExceeded included, is caught, and
\* self.retry sends the message of the next run.
Retries(s) ==
    /\ Started(s)
    /\ Leaves(s, "RETRY")
    /\ MayRetry(running[s])
    /\ message' = [message EXCEPT ![running[s]] = "queued"]
    /\ retries' = [retries EXCEPT ![running[s]] = @ + 1]
    /\ UNCHANGED faults

\* With exc given, self.retry raises exc when the retries are used up and not
\* MaxRetriesExceededError: the OCR task fails as well, and the result its
\* handler of that error would return is never returned.
GivesUp(s) ==
    /\ Started(s)
    /\ Leaves(s, "FAILURE")
    /\ ~MayRetry(running[s])
    /\ UNCHANGED <<message, retries, faults>>

\* The signal of the soft limit reaches the process.  It raises when the
\* interpreter gets to it, and a node of the agent may catch what it raises as
\* a failure of its own; so the run may still end in any way.
SoftLimit(s) ==
    /\ running[s] # NoJob /\ ~soft[s]
    /\ soft' = [soft EXCEPT ![s] = TRUE]
    /\ UNCHANGED <<message, retries, state, running, runs, faults>>

\* Faulty variants: no hard limit; the process is not killed.
HardLimit_Never(s) == FALSE /\ UNCHANGED vars
HardLimit_NoKill(s) ==
    /\ running[s] # NoJob /\ soft[s]
    /\ state' = [state EXCEPT ![running[s]] = "FAILURE"]
    /\ UNCHANGED <<message, retries, running, soft, runs, faults>>
\* The process is killed: nothing catches that, and nothing is retried.
HardLimit(s) ==
    /\ soft[s]
    /\ Leaves(s, "FAILURE")
    /\ UNCHANGED <<message, retries, faults>>

(***************************************************************************)
(* Faults.                                                                 *)
(***************************************************************************)
Fault == faults < MaxFaults /\ faults' = faults + 1

\* A process of the pool dies (out of memory): the worker reports its job.
ProcessDies(s) ==
    /\ Fault
    /\ Leaves(s, "FAILURE")
    /\ UNCHANGED <<message, retries>>

\* The worker dies with its pool and is started again.  Messages it has not
\* acknowledged are delivered again; of its runs nothing is known.
WorkerDies ==
    /\ Fault
    /\ \E s \in Slots : running[s] # NoJob
    /\ running' = [s \in Slots |-> NoJob]
    /\ UNCHANGED <<message, retries, state, soft, runs>>

\* The broker does not take the message of the retry: the run is rejected,
\* which leaves the state as it is.
RetryNotSent(s) ==
    /\ Fault
    /\ Started(s)
    /\ Leaves(s, "STARTED")
    /\ MayRetry(running[s])
    /\ UNCHANGED <<message, retries>>

AllReady ==
    /\ \A j \in JobIds : message[j] = "gone"
    /\ \A s \in Slots : running[s] = NoJob
    /\ UNCHANGED vars

Next ==
    \/ \E j \in JobIds : Submit(j)
    \/ \E j \in JobIds, s \in Slots : Begin(j, s)
    \/ \E s \in Slots : Starts(s) \/ Returns(s) \/ Retries(s) \/ GivesUp(s)
    \/ \E s \in Slots : SoftLimit(s) \/ HardLimit(s)
    \/ \E s \in Slots : ProcessDies(s) \/ RetryNotSent(s)
    \/ WorkerDies
    \/ AllReady

Spec == Init /\ [][Next]_vars

\* The clocks of both limits run, and the queue is served in order: a message
\* gets its turn if a process is free again and again.  Nothing is assumed of
\* the runs themselves, not even that they start.
FairSpec ==
    /\ Spec
    /\ \A s \in Slots : WF_vars(SoftLimit(s)) /\ WF_vars(HardLimit(s))
    /\ \A j \in JobIds : SF_vars(\E s \in Slots : Begin(j, s))

-----------------------------------------------------------------------------
(***************************************************************************)
(* Properties.                                                             *)
(***************************************************************************)
\* Jobs, messages and processes are well typed; a job is retried at most as
\* often as its decorator says.
TypeOK ==
    /\ message \in [JobIds -> {"unsent", "queued", "gone"}]
    /\ retries \in [JobIds -> Nat]
    /\ \A j \in JobIds : retries[j] <= max_retries[TaskOf[j]]
    /\ state \in [JobIds -> Unready \union Ready]
    /\ running \in [Slots -> JobIds \union {NoJob}]
    /\ soft \in [Slots -> BOOLEAN]
    /\ runs \in [JobIds -> Nat]
    /\ faults \in 0 .. MaxFaults

Runs(j) == {s \in Slots : running[s] = j}

\* A job is never run twice at a time, nor waits for a run while it has one,
\* and it is run at most once more than it may be retried, across time
\* limits, retries and worker deaths (solve_tasks.py:15, ocr_tasks.py:19).
OneRunAtATime ==
    \A j \in JobIds :
        /\ \A s, t \in Runs(j) : s = t
        /\ Runs(j) # {} => message[j] = "gone" /\ state[j] \in Unready
        /\ runs[j] <= max_retries[TaskOf[j]] + 1

\* What the client was told at the end stays so: a job that is ready is not
\* run again, and its state does not change (solve_tasks.py:25-27).
ReadyIsFinal ==
    [][\A j \in JobIds : state[j] \in Ready =>
           /\ state'[j] = state[j]
           /\ runs'[j] = runs[j] /\ message'[j] = message[j]]_vars

\* A job fails only after every retry, or past its time limit, or by a fault.
FailsOnlyWhenTried ==
    [][\A j \in JobIds : state[j] # "FAILURE" /\ state'[j] = "FAILURE" =>
           \/ runs[j] = max_retries[TaskOf[j]] + 1
           \/ \E s \in Runs(j) : soft[s]
           \/ faults' > faults]_vars

Client == INSTANCE JobContract WITH Allowed <- [j \in JobIds |-> max_retries[TaskOf[j]] + 1]

\* What the polling client is told is true of the runs: STARTED is the run of
\* a message of its own, RETRY promises one that is still allowed, and the end
\* is told once (solve_tasks.py:21-27, celery_app.py:22).
ImplementsJobContract == Client!JobsAreServed

\* A job nobody will run again, although its client is told to wait on: it may
\* look started, or, if its run was cut off before that was stored, as if it
\* still waited for its first run or for a retry.
Orphaned(j) == state[j] \in Unready /\ message[j] = "gone" /\ Runs(j) = {}

\* A job that is not ready is in its message or in one process, all the way
\* from delay() through its retries: only a fault loses one, and only out of a
\* process, never out of the queue; and what is lost is never found again
\* (celery_app.py:22-24, solve_tasks.py:12-19).
LostOnlyByFaults ==
    [][\A j \in JobIds :
           /\ ~Orphaned(j) /\ Orphaned(j)' => faults' > faults /\ Runs(j) # {}
           /\ Orphaned(j) => Orphaned(j)']_vars

\* Every job sent becomes ready, however its runs hang and however many wait
\* for the few processes, unless a fault orphans it.
ReadyOrOrphaned ==
    \A j \in JobIds : message[j] = "queued" ~> state[j] \in Ready \/ Orphaned(j)
=============================================================================
