---------------------------- MODULE MCEvaluation ----------------------------
(***************************************************************************)
(* Small instances of Evaluation for TLC: lib.rs and one other file, each  *)
(* the fixture's (0) or not (1).                                           *)
(***************************************************************************)
EXTENDS Evaluation

MCFiles == {"lib", "other"}

\* lib.rs is repaired and nothing else is changed.
MCRepaired == {[f \in MCFiles |-> IF f = "lib" THEN 1 ELSE 0]}

\* The other file is changed and lib.rs is the fixture's.
MCHanging == {[f \in MCFiles |-> IF f = "lib" THEN 0 ELSE 1]}
=============================================================================
