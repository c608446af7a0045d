---------------------------- MODULE MCExecution ----------------------------
(***************************************************************************)
(* Execution on small instances, and its refinement of FillAccounting.     *)
(***************************************************************************)
EXTENDS ExecutionInvariant, TLC

=============================================================================
