--------------------------- MODULE MCRunRegistry ----------------------------
(* Small instances of RunRegistry for TLC. *)
EXTENDS RunRegistry, TLC

CONSTANTS r1, r2, r3, w1, w2, i1

MCWorkers == {w1, w2}

\* Three runs about one issue.
MCTrio == {r1, r2, r3}
MCIssues == {i1}
MCTrioIssueOf == [r \in MCTrio |-> i1]
MCTrioSymmetry == Permutations(MCWorkers) \union Permutations(MCTrio)

\* Two runs about one issue, delivered more than once.
MCPair == {r1, r2}
MCPairIssueOf == [r \in MCPair |-> i1]
MCPairSymmetry == Permutations(MCWorkers) \union Permutations(MCPair)

=============================================================================
