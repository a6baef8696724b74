----------------------------- MODULE MCNodeTree -----------------------------
(* A small instance of NodeTree: every reachable tree of a few nodes. *)
EXTENDS NodeTree, TLC

MCEmpty == {[nodes |-> <<>>, tr |-> {}]}

\* The lists of at most two ids, with and without duplicates.
MCOrders == UNION {[1 .. k -> NodeIds] : k \in 1 .. 2}

MCSymmetry == Permutations(NodeIds) \cup Permutations(Users)
                \cup Permutations(Titles) \cup Permutations(Languages)
=============================================================================
