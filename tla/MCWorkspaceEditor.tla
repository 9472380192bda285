-------------------------- MODULE MCWorkspaceEditor --------------------------
(* Small instances of WorkspaceEditor for TLC. *)
EXTENDS WorkspaceEditor

\* Two files that differ only in their extension.
OneStem == [f \in Files |-> "stem"]
=============================================================================
