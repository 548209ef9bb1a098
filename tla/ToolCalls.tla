------------------------------ MODULE ToolCalls ------------------------------
(***************************************************************************)
(* What tools_node relies on: a run_tool coroutine gives one outcome,      *)
(* which it never takes back, or none if its run is given up; an unknown   *)
(* tool is no success.  When all have given theirs, outcome is one of      *)
(* AgentGraph's RunTools(Calls), with Known as the registry.               *)
(***************************************************************************)
CONSTANTS
    Calls,   \* the tool calls made
    Known    \* those that name a tool of the registry

VARIABLE outcome

CallsInit == outcome = [c \in Calls |-> "pending"]

Settle(c) ==
    /\ outcome[c] = "pending"
    /\ \/ outcome' = [outcome EXCEPT ![c] = "failed"]
       \/ c \in Known /\ outcome' = [outcome EXCEPT ![c] = "returned"]

OutcomesGiven == CallsInit /\ [][\E c \in Calls : Settle(c)]_outcome
=============================================================================
