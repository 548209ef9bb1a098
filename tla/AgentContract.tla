--------------------------- MODULE AgentContract ---------------------------
(***************************************************************************)
(* What the compiled agent graph promises the code that invokes it         *)
(* (services/math_service.py and workflows/solve_tasks.py): it makes at    *)
(* most Attempts attempts at the problem, each ending in one confidence    *)
(* score; it makes another attempt only while every score so far was below *)
(* the threshold; it answers once, after a score at or above the threshold *)
(* or after the last attempt allowed; or it raises, and then there is no   *)
(* answer at all.  Which nodes an attempt runs through is not its concern. *)
(***************************************************************************)
EXTENDS Integers, Sequences

CONSTANTS
    Attempts,    \* the attempts the routing allows
    Threshold,   \* VERIFICATION_CONFIDENCE_THRESHOLD, in percent
    ScoreRange   \* the confidence scores an attempt can end in

VARIABLES
    verdicts,    \* the scores of the attempts made so far, oldest first
    outcome      \* "pending", "answered" or "failed"

contractVars == <<verdicts, outcome>>

ContractInit ==
    /\ verdicts = <<>>
    /\ outcome = "pending"

Confident == Len(verdicts) > 0 /\ verdicts[Len(verdicts)] >= Threshold

\* Another attempt: the last one was not good enough and one is left.
Attempt ==
    /\ outcome = "pending"
    /\ ~Confident
    /\ Len(verdicts) < Attempts
    /\ \E score \in ScoreRange : verdicts' = Append(verdicts, score)
    /\ UNCHANGED outcome

\* The graph hands an answer to its caller.
Answer ==
    /\ outcome = "pending"
    /\ Confident \/ Len(verdicts) = Attempts
    /\ outcome' = "answered"
    /\ UNCHANGED verdicts

\* The graph raises (GraphRecursionError is the case the detailed model has).
Fail ==
    /\ outcome = "pending"
    /\ outcome' = "failed"
    /\ UNCHANGED verdicts

ContractNext == Attempt \/ Answer \/ Fail

Contract == ContractInit /\ [][ContractNext]_contractVars
=============================================================================
