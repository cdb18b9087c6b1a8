---------------------------- MODULE MCSubmission ----------------------------
(* A small instance of Submission for TLC: two runs of one issue. *)
EXTENDS Submission

CONSTANTS r1, r2

MCPair == {r1, r2}
=============================================================================
