----------------------------- MODULE AgentGraph -----------------------------
(***************************************************************************)
(* The LangGraph agent of src/agents: router -> tools -> reasoner ->       *)
(* verifier -> (assembler | tools), assembler -> END, run by a loop that    *)
(* counts supersteps and raises GraphRecursionError when it has used up     *)
(* config["recursion_limit"].                                              *)
(*                                                                         *)
(* One action per node and per way the node can end (the LLM call of a     *)
(* node answers or raises).  Texts are abstracted to where they come from: *)
(* the attempt that wrote them, so that a stale field is visible.          *)
(* Confidence scores are integers in percent; the code takes any float the *)
(* verifier model returns, so Scores may hold values outside 0..100.       *)
(***************************************************************************)
EXTENDS Integers, Sequences, FiniteSets

CONSTANTS
    RetryCap,        \* the literal 2 in _should_retry_or_finish
    RecursionLimits, \* the recursion limits callers run the graph with
    Threshold,       \* VERIFICATION_CONFIDENCE_THRESHOLD, in percent
    Scores,          \* the confidences the verifier model may return
    ToolNames,       \* the tool names the router model may return
    Registry         \* the keys of TOOL_REGISTRY

ASSUME RetryCapAssumption == RetryCap \in Nat \ {0}
ASSUME RecursionLimitAssumption == RecursionLimits \subseteq Nat \ {0}
ASSUME ScoreAssumption == Scores \subseteq Int /\ Threshold \in Int
ASSUME ToolAssumption == Registry \subseteq ToolNames

VARIABLES
    recursion_limit,    \* config["recursion_limit"] of this run
    node,               \* the node LangGraph runs next, or "END"
    step,               \* the superstep it would be
    status,             \* of the LangGraph loop
    problem_type, selected_tools,             \* router outputs
    tool_results, tools_used,                 \* tools outputs
    raw_solution, steps, latex_answer, error, \* reasoner outputs
    verified_solution, confidence_score, retry_count,  \* verifier outputs
    final_answer,                             \* assembler output
    verdicts            \* history: every score the verifier gave, in order

routerVars   == <<problem_type, selected_tools>>
toolVars     == <<tool_results, tools_used>>
reasonerVars == <<raw_solution, steps, latex_answer, error>>
verifierVars == <<verified_solution, confidence_score, retry_count, verdicts>>
vars == <<recursion_limit, node, step, status, routerVars, toolVars, reasonerVars,
          verifierVars, final_answer>>

(***************************************************************************)
(* Values.                                                                 *)
(***************************************************************************)
ProblemTypes == {"arithmetic", "symbolic", "conceptual", "mixed", "unknown"}

\* The score verifier_node records when its own LLM call raises.
FailureScore == 50
ScoreRange   == Scores \union {FailureScore}

\* The attempt in progress; the verifier's verdict ends it.
ThisAttempt == Len(verdicts) + 1

\* A text and the attempt that wrote it.  "empty" is the empty string, which
\* the `or` chains of the code treat like None; "apology" is the reasoner's
\* "Could not generate solution."
None      == [attempt |-> 0, text |-> "none"]
Text(t)   == [attempt |-> ThisAttempt, text |-> t]
Texts     == {"none", "empty", "apology", "reasoned", "corrected", "rephrase"}
Solutions == [attempt : Nat, text : Texts]
Rephrase  == [attempt |-> 0, text |-> "rephrase"]
Truthy(s) == s.text \notin {"none", "empty"}
OrElse(s1, s2) == IF Truthy(s1) THEN s1 ELSE s2

\* How one run_tool coroutine ends: its tool returned, or it raised or is not
\* in the registry (both become success = False).
ToolOutcomes == {"returned", "failed"}
\* Faulty variant: an unknown tool may be recorded as a success.
RunTools_UnknownSucceeds(selected) == [selected -> ToolOutcomes]
RunTools(selected) ==
    {results \in [selected -> ToolOutcomes] :
        \A t \in selected \ Registry : results[t] = "failed"}
Successful(results) == {t \in DOMAIN results : results[t] = "returned"}

(***************************************************************************)
(* The loop around the nodes.                                              *)
(***************************************************************************)
\* The initial_state of math_service.solve and of _run_solve.  LangGraph
\* spends superstep 0 on writing it to the channels.
Init ==
    /\ recursion_limit \in RecursionLimits
    /\ node = "router" /\ step = 1 /\ status = "running"
    /\ problem_type = "none" /\ selected_tools = {}
    /\ tool_results = [t \in {} |-> "failed"] /\ tools_used = {}
    /\ raw_solution = None /\ steps = 0 /\ latex_answer = 0 /\ error = 0
    /\ verified_solution = None /\ confidence_score = 0 /\ retry_count = 0
    /\ final_answer = None
    /\ verdicts = <<>>

\* A node runs as superstep `step`, unless the limit is used up.
Runs(n, successor) ==
    /\ status = "running" /\ node = n
    /\ step <= recursion_limit
    /\ node' = successor
    /\ step' = step + 1
    /\ UNCHANGED <<recursion_limit, status>>

(***************************************************************************)
(* router_node                                                             *)
(***************************************************************************)
RouterAnswers ==
    /\ Runs("router", "tools")
    /\ problem_type' \in ProblemTypes
    /\ selected_tools' \in SUBSET ToolNames
    /\ UNCHANGED <<toolVars, reasonerVars, verifierVars, final_answer>>

RouterFails ==
    /\ Runs("router", "tools")
    /\ problem_type' = "mixed"
    /\ selected_tools' = Registry
    /\ UNCHANGED <<toolVars, reasonerVars, verifierVars, final_answer>>

(***************************************************************************)
(* tools_node                                                              *)
(***************************************************************************)
Tools ==
    /\ Runs("tools", "reasoner")
    /\ tool_results' \in RunTools(selected_tools)
    /\ tools_used' = Successful(tool_results')
    /\ UNCHANGED <<routerVars, reasonerVars, verifierVars, final_answer>>

(***************************************************************************)
(* reasoner_node.  On failure latex_answer keeps the previous attempt's    *)
(* value, and error is never cleared by a later success.                   *)
(***************************************************************************)
ReasonerAnswers ==
    /\ Runs("reasoner", "verifier")
    /\ raw_solution' \in {Text("reasoned"), Text("empty")}
    /\ steps' \in {ThisAttempt, 0}
    /\ latex_answer' \in {ThisAttempt, 0}
    /\ UNCHANGED <<error, routerVars, toolVars, verifierVars, final_answer>>

\* Faulty variant: the steps of the attempt before survive a failure.
ReasonerFails_KeepsSteps ==
    /\ Runs("reasoner", "verifier")
    /\ raw_solution' = Text("apology")
    /\ error' = ThisAttempt
    /\ UNCHANGED <<steps, latex_answer, routerVars, toolVars, verifierVars,
                   final_answer>>

\* Faulty variant: a failed reasoner goes straight back to the tools.
ReasonerFails_BackToTools ==
    /\ Runs("reasoner", "tools")
    /\ raw_solution' = Text("apology")
    /\ steps' = 0
    /\ error' = ThisAttempt
    /\ UNCHANGED <<latex_answer, routerVars, toolVars, verifierVars, final_answer>>

ReasonerFails ==
    /\ Runs("reasoner", "verifier")
    /\ raw_solution' = Text("apology")
    /\ steps' = 0
    /\ error' = ThisAttempt
    /\ UNCHANGED <<latex_answer, routerVars, toolVars, verifierVars, final_answer>>

(***************************************************************************)
(* verifier_node and the conditional edge that follows it.                 *)
(***************************************************************************)
\* Faulty variants: one retry too few, one too many.
Route_GivesUpEarly(score, retries) ==
    IF score < Threshold /\ retries + 1 < RetryCap THEN "tools" ELSE "assembler"
Route_GivesUpLate(score, retries) ==
    IF score < Threshold /\ retries <= RetryCap THEN "tools" ELSE "assembler"
_should_retry_or_finish(score, retries) ==
    IF score < Threshold /\ retries < RetryCap THEN "tools" ELSE "assembler"

\* What both ways of ending a verification write.
Verdict(score, solution, counted) ==
    /\ retry_count' = retry_count + (IF counted THEN 1 ELSE 0)
    /\ Runs("verifier", _should_retry_or_finish(score, retry_count'))
    /\ confidence_score' = score
    /\ verified_solution' = solution
    /\ verdicts' = Append(verdicts, score)
    /\ UNCHANGED <<routerVars, toolVars, reasonerVars, final_answer>>

VerifierAnswers ==
    \E score \in Scores, solution \in {raw_solution, Text("corrected")} :
        Verdict(score, solution, score < Threshold)

\* Faulty variant: verified_solution stays as the attempt before wrote it.
VerifierFails_KeepsVerified == Verdict(FailureScore, verified_solution, TRUE)
VerifierFails == Verdict(FailureScore, raw_solution, TRUE)

(***************************************************************************)
(* assembler_node                                                          *)
(***************************************************************************)
Assembler ==
    /\ Runs("assembler", "END")
    /\ final_answer' = OrElse(verified_solution,
                              OrElse(raw_solution, Rephrase))
    /\ problem_type' = IF problem_type = "none" THEN "unknown" ELSE problem_type
    /\ UNCHANGED <<selected_tools, toolVars, reasonerVars, verifierVars>>

(***************************************************************************)
(* How the loop stops.  It tests the limit before it looks for work, so a  *)
(* run whose last node was the last superstep allowed still raises.        *)
(***************************************************************************)
Finish ==
    /\ status = "running" /\ node = "END"
    /\ step <= recursion_limit
    /\ status' = "done"
    /\ UNCHANGED <<recursion_limit, node, step, routerVars, toolVars, reasonerVars,
                   verifierVars, final_answer>>

OutOfSteps ==
    /\ status = "running"
    /\ step > recursion_limit
    /\ status' = "out_of_steps"
    /\ UNCHANGED <<recursion_limit, node, step, routerVars, toolVars, reasonerVars,
                   verifierVars, final_answer>>

Stopped == status # "running" /\ UNCHANGED vars

Next ==
    \/ RouterAnswers \/ RouterFails
    \/ Tools
    \/ ReasonerAnswers \/ ReasonerFails
    \/ VerifierAnswers \/ VerifierFails
    \/ Assembler
    \/ Finish \/ OutOfSteps
    \/ Stopped

Spec == Init /\ [][Next]_vars

\* What is neither an LLM call nor a tool is local and gets done.  The nodes of
\* Remote may be held for good: ChatGroq is built without a timeout, a search
\* has none (wikipedia.py:19), and AGENT_TIMEOUT_SECONDS is enforced nowhere.
Remote == {"router", "tools", "reasoner", "verifier"}
FairSpec == Spec /\ WF_vars(Assembler \/ Finish \/ OutOfSteps)

-----------------------------------------------------------------------------
(***************************************************************************)
(* Properties.                                                             *)
(***************************************************************************)
Nodes == {"router", "tools", "reasoner", "verifier", "assembler", "END"}

\* The fields of AgentState and of the LangGraph loop keep their types.
TypeOK ==
    /\ recursion_limit \in RecursionLimits
    /\ node \in Nodes /\ step \in Nat \ {0}
    /\ status \in {"running", "done", "out_of_steps"}
    /\ problem_type \in ProblemTypes \union {"none"}
    /\ selected_tools \subseteq ToolNames /\ tools_used \subseteq Registry
    /\ \E names \in SUBSET ToolNames : tool_results \in [names -> ToolOutcomes]
    /\ raw_solution \in Solutions /\ verified_solution \in Solutions
    /\ final_answer \in Solutions
    /\ steps \in Nat /\ latex_answer \in Nat /\ error \in Nat
    /\ confidence_score \in ScoreRange \union {0}
    /\ retry_count \in Nat
    /\ verdicts \in Seq(ScoreRange)

\* The routing leaves the retry loop only with a confident verdict or with no
\* retry left, and the score shipped is that of the last verification
\* (math_agent.py:18-31: a missed or doubled increment of retry_count would
\* break it).  That is the last score and not always the highest, although
\* math_agent.py:23 says "retries exhausted -> assemble best attempt".
ConfidentOrExhausted ==
    node \in {"assembler", "END"} =>
        /\ confidence_score = verdicts[Len(verdicts)]
        /\ confidence_score >= Threshold \/ Len(verdicts) = RetryCap

\* Every field of the state that is about the solution comes from the attempt
\* just made, whatever failed in earlier attempts; the one exception is
\* latex_answer after a failure of the reasoner, which does not reset it.
OneAttempt ==
    LET current == Len(verdicts) + (IF node = "verifier" THEN 1 ELSE 0) IN
    node \in {"verifier", "assembler", "END"} =>
        /\ raw_solution.attempt = current
        /\ steps \in {0, current}
        /\ latex_answer \in {0, current} \/ error = current
        /\ node # "verifier" => verified_solution.attempt = current

\* The answer shipped and the score shipped with it are of the same attempt,
\* whichever attempt that is and whatever failed in the others; an apology is
\* sent only if the reasoner failed in that very attempt, and the request to
\* rephrase only if there is no text (verifier_node.py:71-81,
\* assembler_node.py:19-23).
ScoreIsOfTheAnswer ==
    status = "done" =>
        \/ \E i \in 1 .. Len(verdicts) :
              /\ final_answer.attempt = i /\ confidence_score = verdicts[i]
              /\ final_answer.text = "apology" => error = i
        \/ final_answer = Rephrase /\ raw_solution.text = "empty"

\* GraphRecursionError is raised only for lack of room: k attempts and the
\* router, the assembler and the final check need a limit of 3k + 3, and a run
\* whose limit has room for the attempts it began never raises, whichever of
\* its calls fail (no superstep is spent on anything but an attempt).
Begun == Len(verdicts) + (IF node \in {"tools", "reasoner", "verifier"} THEN 1 ELSE 0)
RaisesOnlyWithoutRoom ==
    status = "out_of_steps" => recursion_limit < 3 * Begun + 3

\* With room for all RetryCap attempts every run ends in an answer, unless one
\* of its nodes is held for good by a call that never returns: neither the
\* retries nor the limit keep it from that (math_agent.py:52-60).
Budget == 3 * RetryCap + 3
AnswersUnlessHeld ==
    recursion_limit >= Budget =>
        \/ <>(status = "done")
        \/ \E n \in Remote : <>[](node = n /\ status = "running")

\* The graph implements the contract its callers rely on.
outcome == CASE status = "running"      -> "pending"
             [] status = "done"         -> "answered"
             [] status = "out_of_steps" -> "failed"
Promise == INSTANCE AgentContract WITH Attempts <- RetryCap
ImplementsContract == Promise!Contract

(***************************************************************************)
(* What a comment of math_agent.py says and the code does not do.          *)
(***************************************************************************)
\* math_agent.py:30 "Give up retrying -- send whatever we have": a run whose
\* retries are used up ends in an answer and not in an exception.
GiveUpSendsWhatWeHave == retry_count >= RetryCap => status # "out_of_steps"
=============================================================================
