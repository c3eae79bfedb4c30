---------------------------- MODULE TrainedPolicy ----------------------------
(***************************************************************************)
(* The trained engine at work (TrainedRLPolicy of plenith/policy.py) in   *)
(* place of the rules: the orchestrator asks it for actions until it has   *)
(* none, twice per command, and carries each one out.                      *)
(*                                                                         *)
(* The network may put its probability on any actions; which it puts none  *)
(* on is what the mask and the choice tell apart.  What it has done is     *)
(* read from actions_taken, which a connection starts empty.               *)
(***************************************************************************)
EXTENDS Naturals, Sequences, FiniteSets

CONSTANTS Move,        \* ACTION_SPACE without "noop"
          Plants,      \* the ones whose executor writes a decoy
          PassCap,     \* the loop's own bound
          MaxOrders, MaxVisits

ASSUME PolicyAssumption ==
    /\ IsFiniteSet(Move) /\ "noop" \notin Move /\ Plants \subseteq Move
    /\ PassCap \in Nat /\ MaxOrders \in Nat /\ MaxVisits \in Nat

VARIABLES inUse,       \* the policy build_policy made
          open, visits, orders,
          pass,        \* the pass over the current command: 0 none, 1 or 2
          turns,       \* decisions recorded in this pass
          acted,       \* session.actions_taken
          trap         \* decoy -> how it stands, the visit that planted it last, and
                       \* whether that visit wrote over what the attacker did to it

engineVars == <<inUse, open, visits, orders, pass, turns, acted, trap>>

\* build_policy: without a model the rules stand in, as for an unknown name
build_policy(name, model) ==
    IF name = "trained_rl" /\ model THEN "trained" ELSE "rules"

EngineInit ==
    /\ \E name \in {"heuristic", "rl", "trained_rl", "other"}, model \in BOOLEAN :
          inUse = build_policy(name, model)
    /\ open = FALSE /\ visits = 0 /\ orders = 0 /\ pass = 0 /\ turns = 0 /\ acted = <<>>
    /\ trap = [a \in Plants |-> [state |-> "none", by |-> 0, lost |-> FALSE]]

-----------------------------------------------------------------------------
\* what the features of the session make of the network's weights: any output
forward == SUBSET (Move \cup {"noop"}) \ {{}}
fired == {acted[i] : i \in DOMAIN acted}
\* the actions left to an output of the network: noop always is
Masked_KeepsFired(mass) == mass
Masked(mass) == {a \in mass : a = "noop" \/ a \notin fired}
\* an empty remainder, or noop, is no action
decide(mass) == IF Masked(mass) = {} THEN {"noop"} ELSE Masked(mass)
\* plant_decoy writes over what is there; alerts have no executor
execute(a) ==
    IF a \in Plants
    THEN [trap EXCEPT ![a] = [state |-> "planted", by |-> visits,
                              lost |-> @.lost \/ (@.state = "touched" /\ @.by = visits)]]
    ELSE trap

Arrives ==
    /\ ~open /\ visits < MaxVisits /\ open' = TRUE /\ visits' = visits + 1 /\ acted' = <<>>
    /\ UNCHANGED <<inUse, orders, pass, turns, trap>>
Leaves ==
    /\ open /\ pass = 0 /\ open' = FALSE
    /\ UNCHANGED <<inUse, visits, orders, pass, turns, acted, trap>>
Types ==
    /\ open /\ pass = 0 /\ orders < MaxOrders /\ orders' = orders + 1
    /\ pass' = 1 /\ turns' = 0
    /\ UNCHANGED <<inUse, open, visits, acted, trap>>

NextPass == IF pass = 1 THEN 2 ELSE 0
\* one turn of the loop of _maybe_record_action
Turn ==
    /\ inUse = "trained" /\ pass > 0
    /\ \E mass \in forward : \E a \in decide(mass) :
          IF a = "noop" THEN /\ pass' = NextPass /\ turns' = 0 /\ UNCHANGED <<acted, trap>>
          ELSE /\ acted' = Append(acted, a) /\ trap' = execute(a)
               /\ IF turns + 1 < PassCap THEN turns' = turns + 1 /\ UNCHANGED pass
                  ELSE turns' = 0 /\ pass' = NextPass
    /\ UNCHANGED <<inUse, open, visits, orders>>
\* the rules' own pass is the subject of Engagement
RulesPass ==
    /\ inUse = "rules" /\ pass > 0 /\ pass' = NextPass /\ turns' = 0
    /\ UNCHANGED <<inUse, open, visits, orders, acted, trap>>
\* between the passes the command is carried out, and may change a decoy
Touches(a) ==
    /\ pass = 2 /\ turns = 0 /\ trap[a].state = "planted"
    /\ trap' = [trap EXCEPT ![a].state = "touched"]
    /\ UNCHANGED <<inUse, open, visits, orders, pass, turns, acted>>

EngineNext ==
    \/ Arrives \/ Leaves \/ Types \/ Turn \/ RulesPass
    \/ \E a \in Plants : Touches(a)

-----------------------------------------------------------------------------
\* Whatever the network answers, a pass over a command ends because there is
\* nothing left to do, before the loop's bound of turns; and what an attacker did
\* to a decoy is never planted over by the connection that planted it, through
\* all its commands.  A later connection may: it finds the decoy on the restored
\* disk and actions_taken empty (the no-double-fire mask of
\* TrainedRLPolicy.decide).
PassEndsByItself ==
    /\ turns <= Cardinality(Move)
    /\ \A a \in Plants : ~trap[a].lost
=============================================================================
