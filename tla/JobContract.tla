----------------------------- MODULE JobContract -----------------------------
(***************************************************************************)
(* What the client that polls a job may rely on: STARTED stands for a run  *)
(* of its own, the runs before it have ended in RETRY, there are no more   *)
(* of them than the task allows, success is that of a run it was told of,  *)
(* and what is told at the end is never taken back.  A job may stop being  *)
(* served at any state.                                                    *)
(***************************************************************************)
EXTENDS Naturals

CONSTANTS
    JobIds,   \* the jobs
    Allowed   \* the runs each may have

VARIABLES
    state,    \* what the client is told
    runs      \* the runs started

Becomes(j, old, new) == state[j] \in old /\ state' = [state EXCEPT ![j] = new]

JobsInit ==
    /\ state = [j \in JobIds |-> "PENDING"]
    /\ runs = [j \in JobIds |-> 0]

Start(j) ==
    /\ Becomes(j, {"PENDING", "RETRY"}, "STARTED")
    /\ runs[j] < Allowed[j]
    /\ runs' = [runs EXCEPT ![j] = @ + 1]

\* A retry is announced only if there is a run left for it.
AskAgain(j) ==
    /\ Becomes(j, {"STARTED"}, "RETRY")
    /\ runs[j] < Allowed[j]
    /\ UNCHANGED runs

End(j) ==
    /\ \/ Becomes(j, {"STARTED"}, "SUCCESS")
       \/ Becomes(j, {"PENDING", "STARTED", "RETRY"}, "FAILURE")
    /\ UNCHANGED runs

JobStep == \E j \in JobIds : Start(j) \/ AskAgain(j) \/ End(j)

JobsAreServed == JobsInit /\ [][JobStep]_<<state, runs>>
=============================================================================
