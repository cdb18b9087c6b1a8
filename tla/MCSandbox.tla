----------------------------- MODULE MCSandbox ------------------------------
(* A small instance of Sandbox for TLC; its constants come from the cfg. *)
EXTENDS Sandbox
=============================================================================
