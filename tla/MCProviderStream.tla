-------------------------- MODULE MCProviderStream --------------------------
(* Small instances of ProviderStream for TLC. *)
EXTENDS ProviderStream
=============================================================================
