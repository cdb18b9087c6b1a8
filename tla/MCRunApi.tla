------------------------------ MODULE MCRunApi ------------------------------
(* Small instances of RunApi for TLC. *)
EXTENDS RunApi

CONSTANTS s1, c1, c2
=============================================================================
