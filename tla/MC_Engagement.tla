---------------------------- MODULE MC_Engagement ----------------------------
(* Instances of Engagement for TLC. *)
EXTENDS Engagement, TLC

CONSTANTS i1, k1

\* One file: identities whose sanitised names agree share it.
OneFile == [i \in Identity |-> k1]

Symmetry == Permutations(Connection)
=============================================================================
