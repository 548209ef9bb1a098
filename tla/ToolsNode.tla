------------------------------ MODULE ToolsNode ------------------------------
(***************************************************************************)
(* The tool calls of agents/nodes/tools_node.py with the tools and the     *)
(* sandbox they use (src/tools), for the calls of several agent runs at    *)
(* once: they share one event loop.                                        *)
(*                                                                         *)
(* A call is a run_tool coroutine.  It moves only while the loop is free,   *)
(* one action per stretch between two awaits.  The sandbox's child         *)
(* processes and their deadlines move on their own.  run_wikipedia does    *)
(* not await: the HTTP request it makes holds the loop.                    *)
(*                                                                         *)
(* A run may be given up from outside at any of its awaits, and no except   *)
(* clause of the tools sees it then: its children are left to themselves.  *)
(***************************************************************************)
EXTENDS Naturals

CONSTANTS
    Calls,    \* the tool calls made
    ToolOf,   \* the tool each of them names
    RunOf,    \* the agent run each belongs to
    NoCall    \* nobody holds the loop

TOOL_REGISTRY == {"calculator", "sympy", "wikipedia"}

ASSUME CallAssumption == NoCall \notin Calls
ASSUME ToolAssumption == ToolOf \in [Calls -> TOOL_REGISTRY \union {"plotter"}]

VARIABLES
    pc,       \* what each call awaits
    holder,   \* the call that holds the event loop, or NoCall
    child,    \* the child process of a call
    output,   \* what the child printed, by what the parent makes of it
    due,      \* the deadline of a call has passed
    result    \* the dict run_tool returns

vars == <<pc, holder, child, output, due, result>>

(***************************************************************************)
(* Values.                                                                 *)
(***************************************************************************)
\* What a child that exits leaves on stdout: a result, a result of None, an
\* error, nothing at all (a syntax error, or a resource limit killed it), or
\* something that is not the JSON of a SandboxResult.
Outputs == {"value", "no_value", "error", "nothing", "noise"}

\* A tool returns a text, which is a value or the message of an error.
Texts   == {"value", "message"}
Pending == [success |-> FALSE, text |-> "pending"]
Returned(text) == [success |-> TRUE, text |-> text]
Failed  == [success |-> FALSE, text |-> "none"]

\* What run_calculator and run_sympy do with the sandbox's result.
\* Faulty variant: `result is not None` is not tested.
Report_NoneIsValue(printed) ==
    CASE printed \in {"value", "no_value"} -> Returned("value")
      [] printed \in {"error", "nothing"}  -> Returned("message")
      [] printed = "noise"                 -> Failed
\* Faulty variant: what could not be parsed is recorded all the same.
Report_KeepsNoise(printed) ==
    CASE printed = "value"                           -> Returned("value")
      [] printed \in {"no_value", "error", "nothing"} -> Returned("message")
      [] printed = "noise"            -> [success |-> FALSE, text |-> "value"]
Report(printed) ==
    CASE printed = "value"                             -> Returned("value")
      [] printed \in {"no_value", "error", "nothing"} -> Returned("message")
      [] printed = "noise"                             -> Failed

Init ==
    /\ pc = [c \in Calls |-> "start"]
    /\ holder = NoCall
    /\ child = [c \in Calls |-> "none"]
    /\ output = [c \in Calls |-> "none"]
    /\ due = [c \in Calls |-> FALSE]
    /\ result = [c \in Calls |-> Pending]

(***************************************************************************)
(* Steps of a call on the event loop.                                      *)
(***************************************************************************)
Moves(c, from, to) ==
    /\ holder = NoCall
    /\ pc[c] = from
    /\ pc' = [pc EXCEPT ![c] = to]

Ends(c, from, dict) ==
    /\ Moves(c, from, "done")
    /\ result' = [result EXCEPT ![c] = dict]

\* Faulty variant: an unknown tool is an empty result.
UnknownTool_Succeeds(c) ==
    /\ ToolOf[c] \notin TOOL_REGISTRY
    /\ Ends(c, "start", Returned("message"))
    /\ UNCHANGED <<holder, child, output, due>>
UnknownTool(c) ==
    /\ ToolOf[c] \notin TOOL_REGISTRY
    /\ Ends(c, "start", Failed)
    /\ UNCHANGED <<holder, child, output, due>>

\* run_sympy asks the LLM for the code first.
AskForCode(c) ==
    /\ ToolOf[c] = "sympy"
    /\ Moves(c, "start", "code")
    /\ UNCHANGED <<holder, child, output, due, result>>

CodeFails(c) ==
    /\ Ends(c, "code", Failed)
    /\ UNCHANGED <<holder, child, output, due>>

\* execute_sandboxed starts the child before it arms the deadline, which it
\* does when the loop comes back to it.
HasCode(c) == \/ ToolOf[c] = "calculator" /\ pc[c] = "start"
              \/ pc[c] = "code"

Spawn(c) ==
    /\ HasCode(c)
    /\ Moves(c, pc[c], "spawned")
    /\ child' = [child EXCEPT ![c] = "running"]
    /\ UNCHANGED <<holder, output, due, result>>

SpawnFails(c) ==
    /\ HasCode(c)
    /\ Ends(c, pc[c], Failed)
    /\ UNCHANGED <<holder, child, output, due>>

ArmDeadline(c) ==
    /\ Moves(c, "spawned", "waiting")
    /\ UNCHANGED <<holder, child, output, due, result>>

\* communicate() has seen the end of the output and of the child.  The
\* deadline may have passed as well: which one the loop notices first is open.
Communicated(c) ==
    /\ child[c] = "exited"
    /\ Ends(c, "waiting", Report(output[c]))
    /\ UNCHANGED <<holder, child, output, due>>

\* Faulty variant: the child is not killed.
TimesOut_NoKill(c) ==
    /\ due[c]
    /\ Ends(c, "waiting", Failed)
    /\ UNCHANGED <<holder, child, output, due>>
\* wait_for gives up; kill() on a child that has exited is ignored.
TimesOut(c) ==
    /\ due[c]
    /\ Ends(c, "waiting", Failed)
    /\ child' = [child EXCEPT ![c] = IF @ = "running" THEN "killed" ELSE @]
    /\ UNCHANGED <<holder, output, due>>

Search(c) ==
    /\ ToolOf[c] = "wikipedia"
    /\ Moves(c, "start", "searching")
    /\ holder' = c
    /\ UNCHANGED <<child, output, due, result>>

\* Wikipedia answers, or fails with an error run_wikipedia makes a text of.
SearchReturns(c) ==
    /\ holder = c /\ pc[c] = "searching"
    /\ pc' = [pc EXCEPT ![c] = "done"]
    /\ \E text \in Texts : result' = [result EXCEPT ![c] = Returned(text)]
    /\ holder' = NoCall
    /\ UNCHANGED <<child, output, due>>

(***************************************************************************)
(* The child processes and the clock, which do not wait for the loop.      *)
(***************************************************************************)
ChildExits(c) ==
    /\ child[c] = "running"
    /\ child' = [child EXCEPT ![c] = "exited"]
    /\ \E printed \in Outputs : output' = [output EXCEPT ![c] = printed]
    /\ UNCHANGED <<pc, holder, due, result>>

\* Faulty variant: execute_sandboxed waits without a time limit.
DeadlinePasses_Never(c) == FALSE /\ UNCHANGED vars
DeadlinePasses(c) ==
    /\ pc[c] = "waiting" /\ ~due[c]
    /\ due' = [due EXCEPT ![c] = TRUE]
    /\ UNCHANGED <<pc, holder, child, output, result>>

LoopStep(c) ==
    \/ UnknownTool(c)
    \/ AskForCode(c) \/ CodeFails(c)
    \/ Spawn(c) \/ SpawnFails(c) \/ ArmDeadline(c)
    \/ Communicated(c) \/ TimesOut(c)
    \/ Search(c)

\* pc values of a call that is over.
Over == {"done", "abandoned"}

\* The calls of a run are given up while the loop idles: a task's soft time
\* limit is raised out of run_until_complete and the loop never resumed, or
\* the task that awaits the run is cancelled (execute_sandboxed catches
\* TimeoutError and Exception, not CancelledError).  A signal during a search
\* is caught by run_wikipedia instead, and is one of the SearchReturns.
Abandon(run) ==
    /\ holder = NoCall
    /\ \E c \in Calls : RunOf[c] = run /\ pc[c] \notin Over
    /\ pc' = [c \in Calls |-> IF RunOf[c] = run /\ pc[c] # "done"
                              THEN "abandoned" ELSE pc[c]]
    /\ UNCHANGED <<holder, child, output, due, result>>

\* asyncio kills the child of a transport it finds unclosed, if and when the
\* loop given up is garbage-collected.
Collected(c) ==
    /\ pc[c] = "abandoned" /\ child[c] = "running"
    /\ child' = [child EXCEPT ![c] = "killed"]
    /\ UNCHANGED <<pc, holder, output, due, result>>

AllDone == (\A c \in Calls : pc[c] \in Over) /\ UNCHANGED vars

Next ==
    \/ \E c \in Calls : LoopStep(c) \/ SearchReturns(c)
    \/ \E c \in Calls : ChildExits(c) \/ DeadlinePasses(c) \/ Collected(c)
    \/ \E c \in Calls : Abandon(RunOf[c])
    \/ AllDone

Spec == Init /\ [][Next]_vars

\* The loop serves every call that is ready and the clock runs.  Nothing is
\* assumed of what has no time limit: the children, which may hang, the LLM
\* (ChatGroq is built without one), and Wikipedia.  A free loop turns to
\* every ready call again and again: strong fairness, because searches take
\* the loop away in between.
FairSpec ==
    /\ Spec
    /\ \A c \in Calls : /\ SF_vars(pc[c] # "code" /\ LoopStep(c))
                        /\ WF_vars(DeadlinePasses(c))

-----------------------------------------------------------------------------
(***************************************************************************)
(* Properties.                                                             *)
(***************************************************************************)
\* Calls, children and results are well typed.
TypeOK ==
    /\ pc \in [Calls -> {"start", "code", "spawned", "waiting", "searching",
                         "done", "abandoned"}]
    /\ holder \in Calls \union {NoCall}
    /\ child \in [Calls -> {"none", "running", "exited", "killed"}]
    /\ output \in [Calls -> Outputs \union {"none"}]
    /\ due \in [Calls -> BOOLEAN]
    /\ result \in [Calls -> {Pending, Failed} \union {Returned(t) : t \in Texts}]

\* A call that ends takes its child with it, however exit, deadline and a
\* blocked loop interleave; the children that run on are those of calls given
\* up from outside, which nothing kills at the deadline, although overview.md:49
\* promises a "hard timeout (process killed if it exceeds N seconds)".
OnlyAbandonedChildrenRunOn ==
    \A c \in Calls : child[c] = "running" =>
                         pc[c] \in {"spawned", "waiting", "abandoned"}

\* A value is reported only of a child that ran to its end and printed one; a
\* call whose child was killed never reports success (tools_node.py:36-43).
ValuesComeFromChildren ==
    \A c \in Calls :
        /\ result[c] = Returned("value") /\ ToolOf[c] # "wikipedia" =>
               child[c] = "exited" /\ output[c] = "value"
        /\ child[c] = "killed" \/ ToolOf[c] \notin TOOL_REGISTRY =>
               ~result[c].success

\* However exits, deadlines and searches race, each call gives one outcome, or
\* none if it is given up, and no other step changes it (tools_node.py:33-45):
\* this is what the agent's model takes the tools for.
outcome == [c \in Calls |-> IF pc[c] # "done" THEN "pending"
                           ELSE IF result[c].success THEN "returned" ELSE "failed"]
Tools == INSTANCE ToolCalls
            WITH Known <- {c \in Calls : ToolOf[c] \in TOOL_REGISTRY}
ImplementsToolCalls == Tools!OutcomesGiven

\* Every call ends although children may hang, which is what the sandbox's
\* deadline is for: only an LLM that does not answer run_sympy holds its call,
\* and a search that does not return holds them all.
EndsUnlessHeld ==
    \A c \in Calls : \/ <>(pc[c] \in Over)
                     \/ <>[](pc[c] = "code")
                     \/ <>[](holder # NoCall)

\* tools_node.py:26 "Failed tools are recorded as error results": what is
\* recorded as a success is a value and not the message of an error.
FailedToolsAreErrors == \A c \in Calls : result[c].success => result[c].text = "value"
=============================================================================
