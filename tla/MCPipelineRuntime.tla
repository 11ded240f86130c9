------------------------- MODULE MCPipelineRuntime --------------------------
(***************************************************************************)
(* Instances of PipelineRuntime.                                           *)
(***************************************************************************)
EXTENDS PipelineRuntime

Binding(s, d, i) == [src |-> s, dst |-> d, in |-> i]

\* A chain of three runtimes whose last one also has an input of the user, and two
\* outputs.
Chain == {Binding(GLOBAL, 0, 0), Binding(GLOBAL, 2, 1), Binding(0, 1, 0), Binding(1, 2, 0),
          Binding(2, GLOBAL, 0), Binding(2, GLOBAL, 1)}
=============================================================================
