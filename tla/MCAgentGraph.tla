---------------------------- MODULE MCAgentGraph ----------------------------
(***************************************************************************)
(* Instances of AgentGraph for TLC.  Scores has a value just below and one *)
(* exactly at the threshold, one below the score of a failed verification  *)
(* and one above 100, which the verifier model may return as well.         *)
(***************************************************************************)
EXTENDS AgentGraph

\* AGENT_MAX_ITERATIONS, which the API passes, and LangGraph's default, with
\* which the Celery task runs.
ApiLimit   == {8}
BothLimits == {8, 25}

MCScores == {40, 79, 80, 120}

CONSTANTS sympy, wikipedia, plotter
MCToolNames == {sympy, wikipedia, plotter}  \* plotter is in no registry
MCRegistry  == {sympy, wikipedia}
=============================================================================
