------------------------------ MODULE MCRuntime ------------------------------
(* Small instances of Runtime for TLC. *)
EXTENDS Runtime

\* A command that passes, and one that exits with status 0 just as its timeout
\* or its cancellation is noticed.
MCOutcomes == {e \in Execution : e.zero}
=============================================================================
