----------------------------- MODULE MCPipeline -----------------------------
(***************************************************************************)
(* Constants and the inductive invariant's parts for TLC's runs of         *)
(* Pipeline.                                                               *)
(***************************************************************************)
EXTENDS Pipeline

\* What can go wrong in the deployed program: its root context is never
\* cancelled.
DeployedFaults == FaultKinds \ {"expire"}
AllFaults == FaultKinds
=============================================================================
