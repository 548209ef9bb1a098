--------------------------- MODULE ToolsNodeProofs ---------------------------
(***************************************************************************)
(* Theorems about ToolsNode, for every set of calls and whatever tools     *)
(* they name.                                                              *)
(*                                                                         *)
(* The inductive invariant says, of each call on its own, where its child  *)
(* and its result stand at each of its awaits.  The child moves while the  *)
(* call does not, so both "running" and "exited" go with an awaiting call; *)
(* only the step that ends the call tells them apart.                      *)
(***************************************************************************)
EXTENDS ToolsNode, TLAPS

Sandboxed == {"calculator", "sympy"}

\* Which tools a call that got this far can be for.
ToolInv(c) ==
    /\ pc[c] \in {"code", "spawned", "waiting"} => ToolOf[c] \in Sandboxed
    /\ pc[c] = "searching" => ToolOf[c] = "wikipedia"
    /\ child[c] # "none" => ToolOf[c] \in Sandboxed

\* A child runs from the spawn to at most the end of its call, or on after its
\* call was given up.
ChildInv(c) ==
    /\ pc[c] \in {"start", "code", "searching"} => child[c] = "none"
    /\ pc[c] \in {"spawned", "waiting"} => child[c] \in {"running", "exited"}
    /\ pc[c] = "done" => child[c] \in {"none", "exited", "killed"}

\* A result is there when the call is over, and comes from its child.
ResultInv(c) ==
    /\ pc[c] # "done" => result[c] = Pending
    /\ child[c] = "killed" => result[c] \in {Failed, Pending}
    /\ child[c] = "exited" => output[c] \in Outputs
    /\ result[c] = Returned("value") /\ ToolOf[c] # "wikipedia" =>
           child[c] = "exited" /\ output[c] = "value"
    /\ ToolOf[c] \notin TOOL_REGISTRY => ~result[c].success

CallInv(c) == ToolInv(c) /\ ChildInv(c) /\ ResultInv(c)
IInv == TypeOK /\ \A c \in Calls : CallInv(c)

\* What becomes of a child's output: a success if and only if it could be
\* parsed, a value only of a value.
LEMMA ReportFacts ==
    ASSUME NEW printed \in Outputs
    PROVE  /\ Report(printed) \in {Failed, Returned("value"), Returned("message")}
           /\ Report(printed) = Returned("value") => printed = "value"
  BY DEF Report, Outputs, Returned, Failed

\* Results that the properties compare are different.
LEMMA Distinct ==
    /\ Pending # Returned("value") /\ Failed # Returned("value")
    /\ ~Pending.success /\ ~Failed.success
    /\ Texts = {"value", "message"}
  BY DEF Pending, Failed, Returned, Texts

\* Whatever one call does, it leaves the other calls as they are.
LEMMA OthersKept ==
    ASSUME IInv, NEW c \in Calls, NEW d \in Calls, d # c,
           pc'[d] = pc[d], child'[d] = child[d], output'[d] = output[d],
           result'[d] = result[d]
    PROVE  CallInv(d)'
  BY DEF IInv, CallInv, ToolInv, ChildInv, ResultInv

LEMMA InitIInv == Init => IInv
  BY Distinct, CallAssumption
     DEF Init, IInv, TypeOK, CallInv, ToolInv, ChildInv, ResultInv

\* Each step of a call keeps the invariant.
LEMMA LoopStepIInv ==
    ASSUME IInv, NEW c \in Calls, LoopStep(c) \/ SearchReturns(c)
    PROVE  IInv'
<1> USE DEF IInv, TypeOK
<1>t. ToolOf[c] \in TOOL_REGISTRY \union {"plotter"}
  BY ToolAssumption
<1>i. ToolInv(c) /\ ChildInv(c) /\ ResultInv(c)
  BY DEF CallInv
<1>o. /\ \A d \in Calls \ {c} : /\ pc'[d] = pc[d] /\ child'[d] = child[d]
                                /\ output'[d] = output[d]
                                /\ result'[d] = result[d]
      => \A d \in Calls \ {c} : CallInv(d)'
  BY OthersKept
<1>1. CASE UnknownTool(c)
  <2>1. TypeOK'
    BY <1>1 DEF UnknownTool, Ends, Moves
  <2>2. CallInv(c)'
    BY <1>1, <1>i, Distinct
       DEF UnknownTool, Ends, Moves, CallInv, ToolInv, ChildInv, ResultInv
  <2> QED BY <1>1, <2>1, <2>2, <1>o DEF UnknownTool, Ends, Moves
<1>2. CASE AskForCode(c)
  <2>1. TypeOK'
    BY <1>2 DEF AskForCode, Moves
  <2>2. CallInv(c)'
    BY <1>2, <1>i DEF AskForCode, Moves, CallInv, ToolInv, ChildInv,
       ResultInv, Sandboxed
  <2> QED BY <1>2, <2>1, <2>2, <1>o DEF AskForCode, Moves
<1>3. CASE CodeFails(c)
  <2>1. TypeOK'
    BY <1>3 DEF CodeFails, Ends, Moves
  <2>2. CallInv(c)'
    BY <1>3, <1>i, Distinct
       DEF CodeFails, Ends, Moves, CallInv, ToolInv, ChildInv, ResultInv
  <2> QED BY <1>3, <2>1, <2>2, <1>o DEF CodeFails, Ends, Moves
<1>4. CASE Spawn(c)
  <2>1. TypeOK'
    BY <1>4 DEF Spawn, Moves
  <2>2. ToolOf[c] \in Sandboxed /\ pc[c] \in {"start", "code"}
    BY <1>4, <1>i DEF Spawn, HasCode, ToolInv, Sandboxed
  <2>3. CallInv(c)'
    BY <1>4, <2>2, <1>i, Distinct
       DEF Spawn, Moves, CallInv, ToolInv, ChildInv, ResultInv
  <2> QED BY <1>4, <2>1, <2>3, <1>o DEF Spawn, Moves
<1>5. CASE SpawnFails(c)
  <2>1. TypeOK'
    BY <1>5 DEF SpawnFails, Ends, Moves
  <2>2. pc[c] \in {"start", "code"}
    BY <1>5 DEF SpawnFails, HasCode
  <2>3. CallInv(c)'
    BY <1>5, <2>2, <1>i, Distinct
       DEF SpawnFails, Ends, Moves, CallInv, ToolInv, ChildInv, ResultInv
  <2> QED BY <1>5, <2>1, <2>3, <1>o DEF SpawnFails, Ends, Moves
<1>6. CASE ArmDeadline(c)
  <2>1. TypeOK'
    BY <1>6 DEF ArmDeadline, Moves
  <2>2. CallInv(c)'
    BY <1>6, <1>i DEF ArmDeadline, Moves, CallInv, ToolInv, ChildInv, ResultInv
  <2> QED BY <1>6, <2>1, <2>2, <1>o DEF ArmDeadline, Moves
<1>7. CASE Communicated(c)
  <2>1. /\ child[c] = "exited" /\ output[c] \in Outputs
        /\ ToolOf[c] \in Sandboxed
    BY <1>7, <1>i DEF Communicated, ResultInv, ToolInv
  <2>2. /\ Report(output[c]) \in {Failed, Returned("value"), Returned("message")}
        /\ Report(output[c]) = Returned("value") => output[c] = "value"
    BY <2>1, ReportFacts
  <2>3. /\ pc' = [pc EXCEPT ![c] = "done"]
        /\ result' = [result EXCEPT ![c] = Report(output[c])]
        /\ UNCHANGED <<holder, child, output, due>>
    BY <1>7 DEF Communicated, Ends, Moves
  <2>4. TypeOK'
    BY <2>2, <2>3, Distinct
  <2>5. CallInv(c)'
    BY <2>1, <2>2, <2>3
       DEF CallInv, ToolInv, ChildInv, ResultInv, Sandboxed, TOOL_REGISTRY
  <2> QED BY <2>3, <2>4, <2>5, <1>o
<1>8. CASE TimesOut(c)
  <2>1. TypeOK'
    BY <1>8 DEF TimesOut, Ends, Moves
  <2>2. CallInv(c)'
    BY <1>8, <1>i, Distinct
       DEF TimesOut, Ends, Moves, CallInv, ToolInv, ChildInv, ResultInv
  <2> QED BY <1>8, <2>1, <2>2, <1>o DEF TimesOut, Ends, Moves
<1>9. CASE Search(c)
  <2>1. TypeOK'
    BY <1>9 DEF Search, Moves
  <2>2. CallInv(c)'
    BY <1>9, <1>i DEF Search, Moves, CallInv, ToolInv, ChildInv, ResultInv
  <2> QED BY <1>9, <2>1, <2>2, <1>o DEF Search, Moves
<1>10. CASE SearchReturns(c)
  <2>1. PICK text \in Texts : result' = [result EXCEPT ![c] = Returned(text)]
    BY <1>10 DEF SearchReturns
  <2>2. TypeOK'
    BY <1>10, <2>1 DEF SearchReturns
  <2>3. ToolOf[c] = "wikipedia" /\ child[c] = "none"
    BY <1>10, <1>i DEF SearchReturns, ToolInv, ChildInv
  <2>4. CallInv(c)'
    BY <1>10, <2>1, <2>3 DEF SearchReturns, CallInv, ToolInv, ChildInv,
       ResultInv, TOOL_REGISTRY
  <2> QED BY <1>10, <2>1, <2>2, <2>4, <1>o DEF SearchReturns
<1> QED BY <1>1, <1>2, <1>3, <1>4, <1>5, <1>6, <1>7, <1>8, <1>9, <1>10
       DEF LoopStep

\* The child processes, the clock and the collector keep it as well.
LEMMA OutsideIInv ==
    ASSUME IInv, NEW c \in Calls,
           ChildExits(c) \/ DeadlinePasses(c) \/ Collected(c)
    PROVE  IInv'
<1> USE DEF IInv, TypeOK
<1>1. CASE ChildExits(c)
  <2>1. PICK printed \in Outputs : output' = [output EXCEPT ![c] = printed]
    BY <1>1 DEF ChildExits
  <2>2. /\ child[c] = "running" /\ child' = [child EXCEPT ![c] = "exited"]
        /\ UNCHANGED <<pc, holder, due, result>>
    BY <1>1 DEF ChildExits
  <2>3. TypeOK'
    BY <2>1, <2>2
  <2>4. pc[c] \in {"spawned", "waiting", "abandoned"} /\ result[c] = Pending
    BY <2>2 DEF CallInv, ChildInv, ResultInv
  <2>5. CallInv(c)'
    BY <2>1, <2>2, <2>4, Distinct DEF CallInv, ToolInv, ChildInv, ResultInv
  <2>6. \A d \in Calls \ {c} : CallInv(d)'
    BY <2>1, <2>2, OthersKept
  <2> QED BY <2>3, <2>5, <2>6
<1>2. CASE DeadlinePasses(c)
  BY <1>2 DEF DeadlinePasses, CallInv, ToolInv, ChildInv, ResultInv
<1>3. CASE Collected(c)
  <2>1. pc[c] = "abandoned" /\ result[c] = Pending /\ ToolOf[c] \in Sandboxed
    BY <1>3 DEF Collected, CallInv, ToolInv, ResultInv
  <2>2. TypeOK'
    BY <1>3 DEF Collected
  <2>3. CallInv(c)'
    BY <1>3, <2>1, Distinct
       DEF Collected, CallInv, ToolInv, ChildInv, ResultInv, Sandboxed,
           TOOL_REGISTRY
  <2>4. \A d \in Calls \ {c} : CallInv(d)'
    BY <1>3, OthersKept DEF Collected
  <2> QED BY <2>2, <2>3, <2>4
<1> QED BY <1>1, <1>2, <1>3

\* Giving a run up changes nothing but how far its calls got.
LEMMA AbandonIInv ==
    ASSUME IInv, NEW run, Abandon(run)
    PROVE  IInv'
<1> USE DEF IInv, TypeOK
<1>1. /\ \A c \in Calls : pc'[c] = pc[c] \/ (pc[c] # "done" /\ pc'[c] = "abandoned")
      /\ UNCHANGED <<holder, child, output, due, result>>
  BY DEF Abandon
<1>2. TypeOK'
  BY <1>1 DEF Abandon
<1>3. ASSUME NEW c \in Calls PROVE CallInv(c)'
  <2>1. CallInv(c)
    OBVIOUS
  <2>2. CASE pc'[c] = pc[c]
    BY <1>1, <2>1, <2>2 DEF CallInv, ToolInv, ChildInv, ResultInv
  <2>3. CASE pc[c] # "done" /\ pc'[c] = "abandoned"
    BY <1>1, <2>1, <2>3 DEF CallInv, ToolInv, ChildInv, ResultInv
  <2> QED BY <1>1, <2>2, <2>3
<1> QED BY <1>2, <1>3

LEMMA NextIInv == IInv /\ [Next]_vars => IInv'
<1> SUFFICES ASSUME IInv, [Next]_vars PROVE IInv'
  OBVIOUS
<1>1. CASE UNCHANGED vars
  BY <1>1 DEF vars, IInv, TypeOK, CallInv, ToolInv, ChildInv, ResultInv
<1>2. CASE Next
  BY <1>1, <1>2, LoopStepIInv, OutsideIInv, AbandonIInv DEF Next, AllDone
<1> QED BY <1>1, <1>2

\* Each call, its child and its result fit, in every reachable state.
THEOREM IInvInductive == Spec => []IInv
  BY InitIInv, NextIInv, PTL DEF Spec

\* Type correctness of the calls, for any number of them.
THEOREM TypeCorrect == Spec => []TypeOK
<1>1. IInv => TypeOK
  BY DEF IInv
<1> QED BY <1>1, IInvInductive, PTL

\* A running child's call is still waiting for it, or was given up from
\* outside (sandbox.py:95-102): no answer, error or deadline leaves a child
\* behind, for any number of calls and runs on the loop.
THEOREM ChildrenEnd == Spec => []OnlyAbandonedChildrenRunOn
<1>1. IInv => OnlyAbandonedChildrenRunOn
  BY DEF IInv, TypeOK, CallInv, ChildInv, OnlyAbandonedChildrenRunOn
<1> QED BY <1>1, IInvInductive, PTL

\* A value reported by a sandboxed tool was printed by a child that ran to
\* its end; a call that is killed or unknown is no success (tools_node.py:36-43).
THEOREM ValuesArePrinted == Spec => []ValuesComeFromChildren
<1>1. IInv => ValuesComeFromChildren
  BY Distinct DEF IInv, CallInv, ResultInv, ValuesComeFromChildren
<1> QED BY <1>1, IInvInductive, PTL

\* A step that ends no call changes no outcome.
LEMMA OutcomesStay ==
    ASSUME \A c \in Calls : (pc'[c] = "done" <=> pc[c] = "done")
                            /\ (pc[c] = "done" => result'[c] = result[c])
    PROVE  outcome' = outcome
  BY DEF outcome

\* A step that ends one call settles it.
LEMMA EndSettles ==
    ASSUME IInv, NEW c \in Calls, NEW dict \in {Failed} \union {Returned(t) : t \in Texts},
           pc[c] # "done", pc' = [pc EXCEPT ![c] = "done"],
           result' = [result EXCEPT ![c] = dict],
           dict.success => ToolOf[c] \in TOOL_REGISTRY
    PROVE  Tools!Settle(c)
<1>1. outcome' = [outcome EXCEPT ![c] = IF dict.success THEN "returned" ELSE "failed"]
  BY DEF outcome, IInv, TypeOK
<1>2. outcome[c] = "pending"
  BY DEF outcome
<1> QED BY <1>1, <1>2 DEF Tools!Settle

LEMMA LoopStepSettles ==
    ASSUME IInv, NEW c \in Calls, LoopStep(c) \/ SearchReturns(c)
    PROVE  Tools!Settle(c) \/ outcome' = outcome
<1>1. Failed.success = FALSE /\ \A t \in Texts : Returned(t).success = TRUE
  BY DEF Failed, Returned
<1>2. CASE UnknownTool(c) \/ CodeFails(c) \/ SpawnFails(c) \/ TimesOut(c)
  BY <1>1, <1>2, EndSettles DEF UnknownTool, CodeFails, SpawnFails, HasCode, TimesOut, Ends, Moves
<1>3. CASE Communicated(c)
  <2>1. /\ output[c] \in Outputs /\ ToolOf[c] \in TOOL_REGISTRY
    BY <1>3 DEF Communicated, Ends, Moves, IInv, CallInv, ToolInv, ChildInv, ResultInv,
       Sandboxed, TOOL_REGISTRY
  <2>2. Report(output[c]) \in {Failed} \union {Returned(t) : t \in Texts}
    BY <2>1, ReportFacts DEF Texts
  <2> QED BY <1>3, <2>1, <2>2, EndSettles DEF Communicated, Ends, Moves
<1>4. CASE SearchReturns(c)
  <2>1. PICK text \in Texts : result' = [result EXCEPT ![c] = Returned(text)]
    BY <1>4 DEF SearchReturns
  <2>2. ToolOf[c] \in TOOL_REGISTRY
    BY <1>4 DEF SearchReturns, IInv, CallInv, ToolInv, TOOL_REGISTRY
  <2> QED BY <1>4, <2>1, <2>2, EndSettles DEF SearchReturns
<1>5. CASE AskForCode(c) \/ Spawn(c) \/ ArmDeadline(c) \/ Search(c)
  BY <1>5, OutcomesStay DEF AskForCode, Spawn, HasCode, ArmDeadline, Search, Moves, IInv, TypeOK
<1> QED BY <1>2, <1>3, <1>4, <1>5 DEF LoopStep

\* However exits, deadlines and searches interleave, each call gives at most
\* one outcome and keeps it, and no unknown tool succeeds: the outcomes the
\* agent's RunTools chooses from are those of the calls.
THEOREM CallsImplementToolCalls == Spec => ImplementsToolCalls
<1>1. Init => Tools!CallsInit
  BY DEF Init, Tools!CallsInit, outcome
<1>2. IInv /\ [Next]_vars => [\E c \in Calls : Tools!Settle(c)]_outcome
  <2> SUFFICES ASSUME IInv, [Next]_vars
               PROVE  (\E c \in Calls : Tools!Settle(c)) \/ outcome' = outcome
    OBVIOUS
  <2>1. ASSUME NEW c \in Calls, LoopStep(c) \/ SearchReturns(c)
        PROVE  Tools!Settle(c) \/ outcome' = outcome
    BY <2>1, LoopStepSettles
  <2>2. ASSUME NEW c \in Calls,
               ChildExits(c) \/ DeadlinePasses(c) \/ Collected(c)
        PROVE  outcome' = outcome
    BY <2>2, OutcomesStay DEF ChildExits, DeadlinePasses, Collected
  <2>3. CASE UNCHANGED vars
    BY <2>3, OutcomesStay DEF vars
  <2>4. ASSUME NEW run, Abandon(run)
        PROVE  outcome' = outcome
    BY <2>4, OutcomesStay DEF Abandon
  <2> QED BY <2>1, <2>2, <2>3, <2>4 DEF Next, AllDone
<1> QED BY <1>1, <1>2, IInvInductive, PTL DEF Spec, ImplementsToolCalls, Tools!OutcomesGiven
=============================================================================
