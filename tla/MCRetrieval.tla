---------------------------- MODULE MCRetrieval ----------------------------
(* Small instances of Retrieval for TLC. *)
EXTENDS Retrieval, TLC

CONSTANTS p1, p2, r1, r2, f1, c1, c2

MCProcs == {p1, p2}
MCRuns == {r1, r2}
MCFiles == {f1}
MCCodes == {c1, c2}
\* Cut into two codes, into one of them, and into none.
MCTexts == {<<c1, c2>>, <<c2>>, <<>>}
MCCloned == f1 :> <<c1, c2>>
MCSymmetry == Permutations(MCProcs) \union Permutations(MCRuns)
=============================================================================
