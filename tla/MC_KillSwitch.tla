---------------------------- MODULE MC_KillSwitch ----------------------------
(* Instances of KillSwitch for TLC. *)
EXTENDS KillSwitch, TLC

\* Engagements, connections and operators are interchangeable.
Symmetry == Permutations(Engagement) \union Permutations(Connection)
              \union Permutations(Operator)
=============================================================================
