----------------------------- MODULE MCToolsNode -----------------------------
(***************************************************************************)
(* Instances of ToolsNode for TLC: the calls of two agent runs, with both  *)
(* sandboxed tools, two searches and a tool the registry does not know.    *)
(***************************************************************************)
EXTENDS ToolsNode

CONSTANTS calc, sym, wiki1, wiki2, plot, run1, run2

MCCalls == {calc, sym, wiki1, wiki2, plot}
MCToolOf ==
    [c \in MCCalls |-> CASE c = calc             -> "calculator"
                         [] c = sym              -> "sympy"
                         [] c \in {wiki1, wiki2} -> "wikipedia"
                         [] c = plot             -> "plotter"]
MCRunOf == [c \in MCCalls |-> IF c \in {calc, wiki1, plot} THEN run1 ELSE run2]
=============================================================================
