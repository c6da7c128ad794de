--------------------------- MODULE MCWorkflowRun ---------------------------
(* Instances of WorkflowRun: every graph on three nodes whose edges follow *)
(* the order of the nodes, which is every acyclic graph up to renaming,    *)
(* and one with a cycle.                                                   *)
EXTENDS WorkflowRun

MCNodes == 1 .. 3
MCGraphs == SUBSET {<<1, 2>>, <<1, 3>>, <<2, 3>>} \cup {{<<1, 2>>, <<2, 1>>}}

\* Two nodes, in a chain or apart, for the runs that look for one behaviour.
SmallNodes == 1 .. 2
SmallGraphs == {{<<1, 2>>}, {}}
=============================================================================
