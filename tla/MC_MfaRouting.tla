---------------------------- MODULE MC_MfaRouting ----------------------------
(* Instances of MfaRouting for TLC. *)
EXTENDS MfaRouting, TLC

\* One context per pool: nothing wrong, Tor and a foreign country, everything.
Calm       == [geo |-> "home", reputation |-> 74, tor |-> FALSE, fails |-> 5, odd |-> FALSE]
Borderline == [geo |-> "foreign", reputation |-> 0, tor |-> TRUE, fails |-> 0, odd |-> FALSE]
Hostile    == [geo |-> "risky", reputation |-> 75, tor |-> FALSE, fails |-> 6, odd |-> FALSE]
Contexts   == {Calm, Borderline, Hostile}
OneContext == {Borderline}

Symmetry == Permutations(Challenge) \union Permutations(Inbound)
=============================================================================
