-------------------------- MODULE AgentGraphProofs --------------------------
(***************************************************************************)
(* Theorems about AgentGraph, for every RetryCap, recursion limit,         *)
(* Threshold and set of scores and tools.                                  *)
(*                                                                         *)
(* The inductive invariant ties three counters together: the supersteps    *)
(* LangGraph has counted, the verdicts given and retry_count.  A run back   *)
(* at the tools has had retry_count verdicts, all the superstep count is    *)
(* 3 per attempt plus the node's place, and the edge back is taken only     *)
(* below RetryCap; so the loop cannot outrun a limit of 3 * RetryCap + 3.   *)
(***************************************************************************)
EXTENDS AgentGraph, TLAPS

Looping == node \in {"router", "tools", "reasoner", "verifier"}
Leaving == node \in {"assembler", "END"}

\* While attempts are being made, each verdict so far cost one retry.
RetryInv ==
    Looping =>
        /\ retry_count = Len(verdicts)
        /\ Len(verdicts) < RetryCap
        /\ Len(verdicts) > 0 => verdicts[Len(verdicts)] < Threshold

\* When the loop is left, the last verdict is confident or was the last one.
LeavingInv ==
    Leaving =>
        /\ Len(verdicts) \in 1 .. RetryCap
        /\ confidence_score = verdicts[Len(verdicts)]
        /\ confidence_score >= Threshold \/ Len(verdicts) = RetryCap

\* The superstep count is determined by the node and the attempts made.
StepInv ==
    /\ node = "router"    => step = 1 /\ Len(verdicts) = 0
    /\ node = "tools"     => step = 2 + 3 * Len(verdicts)
    /\ node = "reasoner"  => step = 3 + 3 * Len(verdicts)
    /\ node = "verifier"  => step = 4 + 3 * Len(verdicts)
    /\ node = "assembler" => step = 2 + 3 * Len(verdicts)
    /\ node = "END"       => step = 3 + 3 * Len(verdicts)

\* The loop says it is done only at END, and raises only past the limit.
StatusInv ==
    /\ status = "done" => node = "END"
    /\ status = "out_of_steps" => step > recursion_limit

Core == /\ recursion_limit \in RecursionLimits
        /\ node \in Nodes
        /\ step \in Nat
        /\ status \in {"running", "done", "out_of_steps"}
        /\ retry_count \in Nat
        /\ confidence_score \in ScoreRange \union {0}
        /\ verdicts \in Seq(ScoreRange)

IInv == Core /\ RetryInv /\ LeavingInv /\ StepInv /\ StatusInv

(***************************************************************************)
(* Type correctness.                                                       *)
(***************************************************************************)

\* Scores are integers, so that they can be compared with the threshold.
LEMMA ScoreRangeInt == ScoreRange \subseteq Int
  BY ScoreAssumption DEF ScoreRange, FailureScore

\* The texts the nodes write are solutions of the attempt in progress.
LEMMA TextType ==
    ASSUME verdicts \in Seq(ScoreRange)
    PROVE  /\ ThisAttempt \in Nat \ {0}
           /\ \A t \in Texts : Text(t) \in Solutions
           /\ None \in Solutions /\ Rephrase \in Solutions
  BY DEF ThisAttempt, Text, Texts, Solutions, None, Rephrase

\* Running tools never makes a result for a tool that was not selected, and
\* no tool outside the registry succeeds.
LEMMA RunToolsType ==
    ASSUME NEW selected \in SUBSET ToolNames, NEW results \in RunTools(selected)
    PROVE  /\ results \in [selected -> ToolOutcomes]
           /\ Successful(results) \subseteq Registry
  BY DEF RunTools, Successful, ToolOutcomes

\* Type correctness of the agent's state (state.py:11-38), whichever LLM
\* calls and tools fail and however many attempts are made.
THEOREM TypeCorrect == Spec => []TypeOK
<1>1. Init => TypeOK
  <2>1. ASSUME Init PROVE \E names \in SUBSET ToolNames :
                              tool_results \in [names -> ToolOutcomes]
    <3>1. tool_results \in [{} -> ToolOutcomes]
      BY <2>1 DEF Init, ToolOutcomes
    <3> QED BY <3>1
  <2>2. ASSUME Init PROVE verdicts \in Seq(ScoreRange) /\ None \in Solutions
    BY <2>2 DEF Init, None, Solutions, Texts
  <2>3. ASSUME Init
        PROVE  /\ node \in Nodes /\ step \in Nat \ {0} /\ retry_count \in Nat
               /\ steps \in Nat /\ latex_answer \in Nat /\ error \in Nat
               /\ confidence_score \in ScoreRange \union {0}
    BY <2>3 DEF Init, Nodes
  <2> QED BY <2>1, <2>2, <2>3 DEF Init, TypeOK
<1>2. TypeOK /\ [Next]_vars => TypeOK'
  <2> SUFFICES ASSUME TypeOK, [Next]_vars PROVE TypeOK'
    OBVIOUS
  <2>t. verdicts \in Seq(ScoreRange)
    BY DEF TypeOK
  <2>1. CASE RouterAnswers
    BY <2>1 DEF TypeOK, RouterAnswers, Runs, Nodes, toolVars, reasonerVars, verifierVars
  <2>2. CASE RouterFails
    BY <2>2, ToolAssumption DEF TypeOK, RouterFails, Runs, Nodes, ProblemTypes,
         toolVars, reasonerVars, verifierVars
  <2>3. CASE Tools
    <3>1. /\ tool_results' \in [selected_tools -> ToolOutcomes]
          /\ tools_used' \subseteq Registry
          /\ selected_tools \in SUBSET ToolNames
      BY <2>3, RunToolsType DEF TypeOK, Tools
    <3> QED BY <2>3, <3>1 DEF TypeOK, Tools, Runs, Nodes, routerVars,
              reasonerVars, verifierVars
  <2>4. CASE ReasonerAnswers
    <3>1. /\ raw_solution' \in Solutions
          /\ steps' \in Nat /\ latex_answer' \in Nat
      BY <2>4, <2>t, TextType DEF ReasonerAnswers, Texts
    <3> QED BY <2>4, <3>1 DEF TypeOK, ReasonerAnswers, Runs, Nodes, routerVars,
              toolVars, verifierVars
  <2>5. CASE ReasonerFails
    <3>1. raw_solution' \in Solutions /\ steps' \in Nat /\ error' \in Nat
      BY <2>5, <2>t, TextType DEF ReasonerFails, Texts
    <3> QED BY <2>5, <3>1 DEF TypeOK, ReasonerFails, Runs, Nodes, routerVars,
              toolVars, verifierVars
  <2>6. ASSUME NEW score \in ScoreRange, NEW solution \in Solutions,
               NEW counted \in BOOLEAN, Verdict(score, solution, counted)
        PROVE TypeOK'
    <3>1. verdicts' \in Seq(ScoreRange)
      BY <2>6, <2>t DEF Verdict
    <3>2. retry_count' \in Nat
      BY <2>6 DEF Verdict, TypeOK
    <3>3. /\ node' \in Nodes /\ step' \in Nat \ {0} /\ status' = status
          /\ recursion_limit' = recursion_limit
      BY <2>6 DEF Verdict, Runs, TypeOK, Nodes, _should_retry_or_finish
    <3> QED BY <2>6, <3>1, <3>2, <3>3 DEF TypeOK, Verdict, routerVars, toolVars,
              reasonerVars
  <2>7. CASE VerifierAnswers
    <3>1. PICK score \in Scores, solution \in {raw_solution, Text("corrected")} :
              Verdict(score, solution, score < Threshold)
      BY <2>7 DEF VerifierAnswers
    <3>2. score \in ScoreRange /\ score \in Int /\ Threshold \in Int
      BY ScoreAssumption DEF ScoreRange
    <3>3. solution \in Solutions
      BY <2>t, TextType DEF TypeOK, Texts
    <3>4. (score < Threshold) \in BOOLEAN
      BY <3>2
    <3> QED BY <2>6, <3>1, <3>2, <3>3, <3>4
  <2>8. CASE VerifierFails
    <3>1. FailureScore \in ScoreRange /\ raw_solution \in Solutions
      BY DEF ScoreRange, TypeOK
    <3> QED BY <2>6, <2>8, <3>1 DEF VerifierFails
  <2>9. CASE Assembler
    <3>1. final_answer' \in Solutions
      BY <2>9, <2>t, TextType DEF Assembler, TypeOK, OrElse
    <3>2. problem_type' \in ProblemTypes \union {"none"}
      BY <2>9 DEF Assembler, TypeOK, ProblemTypes
    <3> QED BY <2>9, <3>1, <3>2 DEF TypeOK, Assembler, Runs, Nodes, toolVars,
              reasonerVars, verifierVars
  <2>10. CASE Finish \/ OutOfSteps \/ UNCHANGED vars
    BY <2>10 DEF TypeOK, Finish, OutOfSteps, vars, routerVars, toolVars,
         reasonerVars, verifierVars
  <2> QED BY <2>1, <2>2, <2>3, <2>4, <2>5, <2>7, <2>8, <2>9, <2>10
        DEF Next, Stopped
<1> QED BY <1>1, <1>2, PTL DEF Spec

(***************************************************************************)
(* The inductive invariant.                                                *)
(***************************************************************************)

\* Appending a verdict makes it the last one.
LEMMA LastOfAppend ==
    ASSUME NEW s \in Seq(ScoreRange), NEW e \in ScoreRange
    PROVE  /\ Append(s, e) \in Seq(ScoreRange)
           /\ Len(Append(s, e)) = Len(s) + 1
           /\ Append(s, e)[Len(s) + 1] = e
           /\ Len(s) \in Nat
  OBVIOUS

\* A verification either sends the run back to the tools with the retry
\* counted, or out of the loop with a confident or a last verdict.
LEMMA VerdictStep ==
    ASSUME IInv, NEW score \in ScoreRange, NEW solution, NEW counted \in BOOLEAN,
           score < Threshold => counted,
           Verdict(score, solution, counted)
    PROVE  IInv'
<1>1. /\ verdicts \in Seq(ScoreRange) /\ retry_count \in Nat /\ step \in Nat
      /\ retry_count = Len(verdicts) /\ Len(verdicts) < RetryCap
      /\ step = 4 + 3 * Len(verdicts)
      /\ status = "running" /\ node = "verifier"
  BY DEF IInv, Core, RetryInv, StepInv, Looping, Verdict, Runs
<1>2. /\ verdicts' = Append(verdicts, score) /\ confidence_score' = score
      /\ step' = step + 1 /\ status' = status
      /\ recursion_limit' = recursion_limit /\ recursion_limit \in RecursionLimits
  BY DEF Verdict, Runs, IInv, Core
<1>3. /\ verdicts' \in Seq(ScoreRange)
      /\ Len(verdicts') = Len(verdicts) + 1
      /\ verdicts'[Len(verdicts')] = score
      /\ Len(verdicts) \in Nat
  BY <1>1, <1>2, LastOfAppend
<1>4. score \in Int /\ Threshold \in Int /\ RetryCap \in Nat
  BY ScoreRangeInt, ScoreAssumption, RetryCapAssumption
<1>5. retry_count' \in Nat /\ (counted => retry_count' = retry_count + 1)
  BY <1>1 DEF Verdict
<1>6. CASE score < Threshold /\ retry_count' < RetryCap
  <2>1. node' = "tools"
    BY <1>6 DEF Verdict, Runs, _should_retry_or_finish
  <2>2. retry_count' = Len(verdicts')
    BY <1>1, <1>3, <1>5, <1>6
  <2> QED BY <1>1, <1>2, <1>3, <1>4, <1>5, <1>6, <2>1, <2>2
        DEF IInv, Core, RetryInv, LeavingInv, StepInv, StatusInv, Nodes,
            Looping, Leaving
<1>7. CASE ~(score < Threshold /\ retry_count' < RetryCap)
  <2>1. node' = "assembler"
    BY <1>7 DEF Verdict, Runs, _should_retry_or_finish
  <2>2. Len(verdicts') \in 1 .. RetryCap
    BY <1>1, <1>3, <1>4
  <2>3. score >= Threshold \/ Len(verdicts') = RetryCap
    BY <1>1, <1>3, <1>4, <1>5, <1>7
  <2> QED BY <1>1, <1>2, <1>3, <1>4, <1>5, <2>1, <2>2, <2>3
        DEF IInv, Core, RetryInv, LeavingInv, StepInv, StatusInv, Nodes,
            Looping, Leaving
<1> QED BY <1>6, <1>7

\* The invariant holds initially and every node preserves it.
THEOREM IInvInductive == Spec => []IInv
<1>1. Init => IInv
  <2> SUFFICES ASSUME Init PROVE IInv
    OBVIOUS
  <2>1. verdicts \in Seq(ScoreRange) /\ Len(verdicts) = 0
    BY DEF Init
  <2> QED BY <2>1, RetryCapAssumption
        DEF Init, IInv, Core, RetryInv, LeavingInv, StepInv, StatusInv, Nodes,
            Looping, Leaving
<1>2. IInv /\ [Next]_vars => IInv'
  <2> SUFFICES ASSUME IInv, [Next]_vars PROVE IInv'
    OBVIOUS
  <2>l. Len(verdicts) \in Nat
    BY DEF IInv, Core
  <2>1. CASE RouterAnswers \/ RouterFails
    <3>1. /\ Runs("router", "tools")
          /\ UNCHANGED <<verdicts, retry_count, confidence_score>>
      BY <2>1 DEF RouterAnswers, RouterFails, verifierVars
    <3> QED BY <2>l, <3>1
          DEF Runs, IInv, Core, RetryInv, LeavingInv, StepInv, StatusInv, Nodes,
              Looping, Leaving
  <2>2. CASE Tools
    <3>1. /\ Runs("tools", "reasoner")
          /\ UNCHANGED <<verdicts, retry_count, confidence_score>>
      BY <2>2 DEF Tools, verifierVars
    <3> QED BY <2>l, <3>1
          DEF Runs, IInv, Core, RetryInv, LeavingInv, StepInv, StatusInv, Nodes,
              Looping, Leaving
  <2>3. CASE ReasonerAnswers \/ ReasonerFails
    <3>1. /\ Runs("reasoner", "verifier")
          /\ UNCHANGED <<verdicts, retry_count, confidence_score>>
      BY <2>3 DEF ReasonerAnswers, ReasonerFails, verifierVars
    <3> QED BY <2>l, <3>1
          DEF Runs, IInv, Core, RetryInv, LeavingInv, StepInv, StatusInv, Nodes,
              Looping, Leaving
  <2>4. CASE VerifierAnswers
    <3>1. PICK score \in Scores, solution \in {raw_solution, Text("corrected")} :
              Verdict(score, solution, score < Threshold)
      BY <2>4 DEF VerifierAnswers
    <3>2. score \in ScoreRange /\ (score < Threshold) \in BOOLEAN
      BY ScoreAssumption DEF ScoreRange
    <3> QED BY <3>1, <3>2, VerdictStep
  <2>5. CASE VerifierFails
    <3>1. FailureScore \in ScoreRange
      BY DEF ScoreRange
    <3> QED BY <2>5, <3>1, VerdictStep DEF VerifierFails
  <2>6. CASE Assembler
    <3>1. /\ Runs("assembler", "END")
          /\ UNCHANGED <<verdicts, retry_count, confidence_score>>
      BY <2>6 DEF Assembler, verifierVars
    <3> QED BY <2>l, <3>1
          DEF Runs, IInv, Core, RetryInv, LeavingInv, StepInv, StatusInv, Nodes,
              Looping, Leaving
  <2>7. CASE Finish \/ OutOfSteps \/ UNCHANGED vars
    BY <2>7 DEF Finish, OutOfSteps, vars, verifierVars, IInv, Core, RetryInv,
         LeavingInv, StepInv, StatusInv, Looping, Leaving
  <2> QED BY <2>1, <2>2, <2>3, <2>4, <2>5, <2>6, <2>7 DEF Next, Stopped
<1> QED BY <1>1, <1>2, PTL DEF Spec

(***************************************************************************)
(* What follows from it.                                                   *)
(***************************************************************************)

\* A run leaves the retry loop only with a confident verdict or with every
\* attempt made, and ships the score of the last verification.
THEOREM LeavesConfidentOrExhausted == Spec => []ConfidentOrExhausted
<1>1. IInv => ConfidentOrExhausted
  BY DEF IInv, LeavingInv, Leaving, ConfidentOrExhausted
<1> QED BY <1>1, IInvInductive, PTL

\* A run raises GraphRecursionError only if its limit has no room for the
\* attempts it began.
THEOREM RoomSuffices == Spec => []RaisesOnlyWithoutRoom
<1>1. IInv => RaisesOnlyWithoutRoom
  <2> SUFFICES ASSUME IInv, status = "out_of_steps"
               PROVE  recursion_limit < 3 * Begun + 3
    BY DEF RaisesOnlyWithoutRoom
  <2>1. /\ step > recursion_limit /\ step \in Nat /\ recursion_limit \in Nat
        /\ Len(verdicts) \in Nat
    BY RecursionLimitAssumption DEF IInv, Core, StatusInv
  <2>2. CASE node = "router"
    BY <2>1, <2>2 DEF IInv, StepInv, Begun
  <2>3. CASE node \in {"tools", "reasoner", "verifier"}
    <3>1. Begun = Len(verdicts) + 1 /\ step <= 4 + 3 * Len(verdicts)
      BY <2>1, <2>3 DEF IInv, StepInv, Begun
    <3> QED BY <2>1, <3>1
  <2>4. CASE Leaving
    <3>1. Begun = Len(verdicts) /\ step <= 3 + 3 * Len(verdicts)
      BY <2>1, <2>4 DEF IInv, StepInv, Begun, Leaving
    <3> QED BY <2>1, <3>1
  <2> QED BY <2>2, <2>3, <2>4 DEF IInv, Core, Nodes, Leaving
<1> QED BY <1>1, IInvInductive, PTL

\* A recursion limit of 3 * RetryCap + 3 is enough for every run: none raises
\* GraphRecursionError, whichever LLM calls fail.
THEOREM BudgetSuffices ==
    Spec => [](recursion_limit >= Budget => status # "out_of_steps")
<1>1. IInv /\ RaisesOnlyWithoutRoom =>
          (recursion_limit >= Budget => status # "out_of_steps")
  <2> SUFFICES ASSUME IInv, recursion_limit < 3 * Begun + 3,
                      recursion_limit >= Budget
               PROVE  FALSE
    BY DEF RaisesOnlyWithoutRoom
  <2>1. Len(verdicts) \in Nat /\ RetryCap \in Nat /\ recursion_limit \in Nat
    BY RetryCapAssumption, RecursionLimitAssumption DEF IInv, Core
  <2>2. Begun \in Nat /\ Begun <= RetryCap
    BY <2>1 DEF IInv, Core, RetryInv, LeavingInv, Looping, Leaving, Nodes, Begun
  <2> QED BY <2>1, <2>2 DEF Budget
<1> QED BY <1>1, IInvInductive, RoomSuffices, PTL

(***************************************************************************)
(* Whose attempt the fields are from.                                      *)
(***************************************************************************)
Current == Len(verdicts) + (IF node = "verifier" THEN 1 ELSE 0)
Judged  == node \in {"verifier", "assembler", "END"}

\* What the verifier and the assembler find was written by this attempt's
\* reasoner: an apology only by one that failed just now.
ReasonedInv ==
    Judged =>
        /\ raw_solution.text \in {"reasoned", "empty", "apology"}
        /\ raw_solution.text = "apology" => error = Current

\* The verifier passes the solution on or corrects it.
VerifiedInv ==
    Leaving => verified_solution = raw_solution \/ verified_solution.text = "corrected"

\* The answer assembled is the solution of the last attempt.
AnswerInv ==
    node = "END" =>
        \/ final_answer.attempt = Len(verdicts)
           /\ (final_answer.text = "apology" => error = Len(verdicts))
        \/ final_answer = Rephrase /\ raw_solution.text = "empty"

AttemptInv == OneAttempt /\ ReasonedInv /\ VerifiedInv /\ AnswerInv

\* The reasoner hands this attempt's fields to the verifier, whether its LLM
\* call answers or fails.
LEMMA ReasonerAttempt ==
    ASSUME IInv, ReasonerAnswers \/ ReasonerFails
    PROVE  AttemptInv'
<1>1. node' = "verifier" /\ verdicts' = verdicts /\ Len(verdicts) \in Nat
  BY DEF ReasonerAnswers, ReasonerFails, Runs, verifierVars, IInv, Core
<1>2. Current' = ThisAttempt
  BY <1>1 DEF Current, ThisAttempt
<1>3. /\ raw_solution'.attempt = ThisAttempt
      /\ raw_solution'.text \in {"reasoned", "empty", "apology"}
      /\ raw_solution'.text = "apology" => error' = ThisAttempt
      /\ steps' \in {0, ThisAttempt}
      /\ latex_answer' \in {0, ThisAttempt} \/ error' = ThisAttempt
  BY DEF ReasonerAnswers, ReasonerFails, Text
<1>4. OneAttempt'
  BY <1>1, <1>2, <1>3 DEF OneAttempt, Current
<1> QED BY <1>1, <1>2, <1>3, <1>4
      DEF AttemptInv, ReasonedInv, VerifiedInv, AnswerInv, Judged, Leaving

\* A verdict turns the attempt in progress into the last one made; a run that
\* goes back to the tools starts from nothing the invariant speaks about.
LEMMA VerdictAttempt ==
    ASSUME IInv, AttemptInv, NEW score \in ScoreRange, NEW counted,
           NEW solution \in {raw_solution, Text("corrected")},
           Verdict(score, solution, counted)
    PROVE  AttemptInv'
<1>1. /\ node = "verifier" /\ node' \in {"tools", "assembler"}
      /\ UNCHANGED <<raw_solution, steps, latex_answer, error>>
      /\ verified_solution' = solution
  BY DEF Verdict, Runs, _should_retry_or_finish, reasonerVars
<1>2. Len(verdicts') = ThisAttempt /\ Len(verdicts) \in Nat
  BY LastOfAppend DEF Verdict, IInv, Core, ThisAttempt
<1>3. Current = ThisAttempt /\ (Current' = ThisAttempt)
  BY <1>1, <1>2 DEF Current, ThisAttempt
<1>4. /\ raw_solution.attempt = ThisAttempt
      /\ steps \in {0, ThisAttempt}
      /\ latex_answer \in {0, ThisAttempt} \/ error = ThisAttempt
      /\ raw_solution.text \in {"reasoned", "empty", "apology"}
      /\ raw_solution.text = "apology" => error = ThisAttempt
  BY <1>1, <1>3 DEF AttemptInv, OneAttempt, ReasonedInv, Judged, Current
<1>5. /\ solution.attempt = ThisAttempt
      /\ solution = raw_solution \/ solution.text = "corrected"
  BY <1>4 DEF Text
<1>6. OneAttempt'
  BY <1>1, <1>2, <1>4, <1>5 DEF OneAttempt
<1> QED BY <1>1, <1>3, <1>4, <1>5, <1>6
      DEF AttemptInv, ReasonedInv, VerifiedInv, AnswerInv, Judged, Leaving

\* The assembler ships the verified solution, or else the reasoner's, which
\* can then only be empty.
LEMMA AssemblerAttempt ==
    ASSUME IInv, AttemptInv, Assembler
    PROVE  AttemptInv'
<1>1. /\ node = "assembler" /\ node' = "END" /\ Current' = Len(verdicts)
      /\ UNCHANGED <<raw_solution, steps, latex_answer, error, verified_solution,
                     verdicts>>
      /\ Len(verdicts) \in Nat
  BY DEF Assembler, Runs, reasonerVars, verifierVars, Current, IInv, Core
<1>2. Current = Len(verdicts)
  BY <1>1 DEF Current
<1>3. /\ raw_solution.text = "apology" => error = Len(verdicts)
      /\ raw_solution.text \in {"reasoned", "empty", "apology"}
      /\ raw_solution.attempt = Len(verdicts)
      /\ verified_solution.attempt = Len(verdicts)
      /\ verified_solution = raw_solution \/ verified_solution.text = "corrected"
  BY <1>1, <1>2 DEF AttemptInv, ReasonedInv, VerifiedInv, OneAttempt, Judged, Leaving
<1>4. AnswerInv'
  <2>1. CASE Truthy(verified_solution)
    <3>1. final_answer' = verified_solution
      BY <2>1 DEF Assembler, OrElse
    <3> QED BY <1>1, <1>3, <3>1 DEF AnswerInv
  <2>2. CASE ~Truthy(verified_solution)
    <3>1. raw_solution.text = "empty"
      BY <1>3, <2>2 DEF Truthy
    <3>2. final_answer' = Rephrase
      BY <2>2, <3>1 DEF Assembler, OrElse, Truthy
    <3> QED BY <1>1, <3>1, <3>2 DEF AnswerInv
  <2> QED BY <2>1, <2>2
<1>5. OneAttempt'
  BY <1>1 DEF AttemptInv, OneAttempt
<1>6. ReasonedInv' /\ VerifiedInv'
  BY <1>1, <1>3 DEF ReasonedInv, VerifiedInv
<1> QED BY <1>4, <1>5, <1>6 DEF AttemptInv

\* AttemptInv holds in every reachable state.
LEMMA AttemptInvInductive == Spec => []AttemptInv
<1>1. Init => AttemptInv
  BY DEF Init, AttemptInv, OneAttempt, ReasonedInv, VerifiedInv, AnswerInv,
     Judged, Leaving
<1>2. IInv /\ AttemptInv /\ [Next]_vars => AttemptInv'
  <2> SUFFICES ASSUME IInv, AttemptInv, [Next]_vars PROVE AttemptInv'
    OBVIOUS
  <2>1. CASE RouterAnswers \/ RouterFails \/ Tools
    <3>1. node' \in {"tools", "reasoner"}
      BY <2>1 DEF RouterAnswers, RouterFails, Tools, Runs
    <3> QED BY <3>1 DEF AttemptInv, OneAttempt, ReasonedInv, VerifiedInv, AnswerInv,
              Judged, Leaving
  <2>2. CASE ReasonerAnswers \/ ReasonerFails
    BY <2>2, ReasonerAttempt
  <2>3. CASE VerifierAnswers
    <3>1. PICK score \in Scores, solution \in {raw_solution, Text("corrected")} :
              Verdict(score, solution, score < Threshold)
      BY <2>3 DEF VerifierAnswers
    <3> QED BY <3>1, VerdictAttempt DEF ScoreRange
  <2>4. CASE VerifierFails
    BY <2>4, VerdictAttempt DEF VerifierFails, ScoreRange
  <2>5. CASE Assembler
    BY <2>5, AssemblerAttempt
  <2>6. CASE Finish \/ OutOfSteps \/ UNCHANGED vars
    BY <2>6 DEF Finish, OutOfSteps, vars, reasonerVars, verifierVars, AttemptInv,
       OneAttempt, ReasonedInv, VerifiedInv, AnswerInv, Judged, Leaving, Current
  <2> QED BY <2>1, <2>2, <2>3, <2>4, <2>5, <2>6 DEF Next, Stopped
<1> QED BY <1>1, <1>2, IInvInductive, PTL DEF Spec

\* No field the verifier, the assembler or the caller reads is left over from
\* an earlier attempt (the nodes' `or` chains and state.py:24-33), however
\* many attempts there are and whichever LLM calls fail; latex_answer alone
\* may be, and only when this attempt's reasoner failed.
THEOREM FieldsAreCurrent == Spec => []OneAttempt
<1>1. AttemptInv => OneAttempt
  BY DEF AttemptInv
<1> QED BY <1>1, AttemptInvInductive, PTL

\* What a run that is done hands its caller is one attempt: the score is that
\* of the verification that wrote the answer, or of the solution it is, and an
\* apology or a request to rephrase tells of that attempt.
THEOREM AnswerAndScoreAgree == Spec => []ScoreIsOfTheAnswer
<1>1. ASSUME IInv, AttemptInv, status = "done" PROVE ScoreIsOfTheAnswer
  <2>1. node = "END"
    BY <1>1 DEF IInv, StatusInv
  <2>2. /\ Len(verdicts) \in 1 .. Len(verdicts)
        /\ confidence_score = verdicts[Len(verdicts)]
    BY <1>1, <2>1 DEF IInv, Core, LeavingInv, Leaving
  <2> QED BY <1>1, <2>1, <2>2 DEF AttemptInv, AnswerInv, ScoreIsOfTheAnswer
<1>2. IInv /\ AttemptInv => ScoreIsOfTheAnswer
  BY <1>1 DEF ScoreIsOfTheAnswer
<1> QED BY <1>2, IInvInductive, AttemptInvInductive, PTL

\* The comment math_agent.py:30, "send whatever we have", holds of callers
\* whose recursion limits have room for every attempt, as Celery's does; the
\* API's limit of 8 has not.
THEOREM GivesUpWithRoom ==
    ASSUME \A limit \in RecursionLimits : limit >= Budget
    PROVE  Spec => []GiveUpSendsWhatWeHave
<1>1. IInv /\ (recursion_limit >= Budget => status # "out_of_steps")
          => GiveUpSendsWhatWeHave
  BY DEF IInv, Core, GiveUpSendsWhatWeHave
<1> QED BY <1>1, IInvInductive, BudgetSuffices, PTL

(***************************************************************************)
(* The graph implements AgentContract.                                     *)
(***************************************************************************)

\* A verification is an attempt of the contract, whatever it decides.
LEMMA VerdictIsAttempt ==
    ASSUME IInv, NEW score \in ScoreRange, NEW solution, NEW counted,
           Verdict(score, solution, counted)
    PROVE  Promise!Attempt
<1>1. /\ status = "running" /\ status' = status /\ node = "verifier"
      /\ verdicts' = Append(verdicts, score)
  BY DEF Verdict, Runs
<1>2. /\ Len(verdicts) < RetryCap
      /\ Len(verdicts) > 0 => verdicts[Len(verdicts)] < Threshold
  BY <1>1 DEF IInv, RetryInv, Looping
<1>3. ~Promise!Confident
  <2> SUFFICES ASSUME Len(verdicts) > 0, verdicts[Len(verdicts)] >= Threshold
               PROVE  FALSE
    BY DEF Promise!Confident
  <2>1. verdicts \in Seq(ScoreRange) /\ Len(verdicts) \in 1 .. Len(verdicts)
    BY DEF IInv, Core
  <2>2. verdicts[Len(verdicts)] \in ScoreRange
    BY <2>1
  <2>3. verdicts[Len(verdicts)] \in Int /\ Threshold \in Int
    BY <2>2, ScoreRangeInt, ScoreAssumption
  <2> QED BY <1>2, <2>3
<1>4. outcome = "pending" /\ outcome' = outcome
  BY <1>1 DEF outcome
<1> QED BY <1>1, <1>2, <1>3, <1>4 DEF Promise!Attempt

\* Every behaviour of the agent graph is one its callers' contract allows.
THEOREM GraphImplementsContract == Spec => ImplementsContract
<1>1. Init => Promise!ContractInit
  BY DEF Init, Promise!ContractInit, outcome
<1>2. IInv /\ [Next]_vars => [Promise!ContractNext]_(Promise!contractVars)
  <2> SUFFICES ASSUME IInv, [Next]_vars
               PROVE  Promise!ContractNext \/ UNCHANGED Promise!contractVars
    OBVIOUS
  <2>1. CASE RouterAnswers \/ RouterFails \/ Tools \/ ReasonerAnswers
             \/ ReasonerFails \/ Assembler \/ UNCHANGED vars
    BY <2>1 DEF RouterAnswers, RouterFails, Tools, ReasonerAnswers,
         ReasonerFails, Assembler, Runs, vars, verifierVars, outcome,
         Promise!contractVars
  <2>2. CASE VerifierAnswers
    <3>1. PICK score \in Scores, solution \in {raw_solution, Text("corrected")} :
              Verdict(score, solution, score < Threshold)
      BY <2>2 DEF VerifierAnswers
    <3> QED BY <3>1, VerdictIsAttempt DEF ScoreRange, Promise!ContractNext
  <2>3. CASE VerifierFails
    BY <2>3, VerdictIsAttempt DEF VerifierFails, ScoreRange, Promise!ContractNext
  <2>4. CASE Finish
    <3>1. /\ Len(verdicts) \in 1 .. RetryCap
          /\ verdicts[Len(verdicts)] >= Threshold \/ Len(verdicts) = RetryCap
      BY <2>4 DEF Finish, IInv, LeavingInv, Leaving
    <3>2. Promise!Confident \/ Len(verdicts) = RetryCap
      BY <3>1 DEF Promise!Confident
    <3>3. outcome = "pending" /\ outcome' = "answered" /\ verdicts' = verdicts
      BY <2>4 DEF Finish, outcome, verifierVars
    <3> QED BY <3>2, <3>3 DEF Promise!Answer, Promise!ContractNext
  <2>5. CASE OutOfSteps
    BY <2>5 DEF OutOfSteps, outcome, verifierVars, Promise!Fail,
         Promise!ContractNext
  <2> QED BY <2>1, <2>2, <2>3, <2>4, <2>5 DEF Next, Stopped
<1> QED BY <1>1, <1>2, IInvInductive, PTL
      DEF Spec, ImplementsContract, Promise!Contract
=============================================================================
