----------------------------- MODULE MCGateway ------------------------------
(* Small instances of Gateway for TLC. *)
EXTENDS Gateway, TLC

CONSTANTS p1, p2, d1, d2, d3, m1, m2

MCTwo == {p1, p2}
MCDeliveries == {d1, d2, d3}

\* For the faults: d3 comes without its header.
MCManual == {m1}
MCKindOf == (d1 :> "issue") @@ (d2 :> "other") @@ (d3 :> "issue")
              @@ (m1 :> "issue")
MCAnonymous == {d3}

\* For deduplication: every delivery is named.
MCManuals == {m1, m2}
MCNamedKindOf == (d1 :> "issue") @@ (d2 :> "blocked") @@ (d3 :> "issue")
                   @@ (m1 :> "issue") @@ (m2 :> "refused")

MCSymmetry == Permutations(MCTwo)
=============================================================================
