-------------------------- MODULE MCPipelineExecution --------------------------
(* Small instances of PipelineExecution. *)
EXTENDS PipelineExecution, TLC

CONSTANTS a, b

\* Two executions that continue the same version: one of them must lose.
Rivals == [e \in Executions |-> Base]

OneGrant == [e \in Executions |-> 1]
TwoGrants == [e \in Executions |-> 2]

Interchangeable == Permutations(Workers)

=============================================================================
