------------------------------- MODULE MC_Ends -------------------------------
(***************************************************************************)
(* What must come to an end: a kill that was asked for (KillSwitch) and    *)
(* the delivery of an alert (AlertDelivery), with the escalations beside   *)
(* it.  They share no state: a behaviour is one of the kill switch, of the *)
(* delivery or of the escalations, and is fair to its own program only.    *)
(***************************************************************************)
EXTENDS KillSwitch, AlertDelivery

CONSTANTS a1, a2, soar

\* no action at all, one of unknown weight, and the severe one first or last
EngagementLogs == {<<>>, <<"absent">>, <<"low">>, <<"info", "high">>,
                   <<"high", "medium">>, <<"absent", "critical">>}
Artifacts == [s \in {soar} |-> {"src_ip"}]
Severities == [a \in {a1, a2} |-> IF a = a1 THEN "high" ELSE "medium"]

VARIABLE part

EndsInit == Init /\ DeliveryInit /\ part \in {"kill", "delivery", "escalation"}

EndsNext ==
    \/ part = "kill" /\ Next /\ UNCHANGED <<deliveryVars, part>>
    \/ part = "delivery" /\ DeliveryNext /\ UNCHANGED <<vars, part>>
    \/ part = "escalation" /\ EscalateNext /\ UNCHANGED <<vars, part>>

\* Fairness of KillSwitch and DeliveryFairness, each in its own behaviours
FairKill ==
    /\ WF_vars(part = "kill" /\ PollRead)
    /\ WF_vars(part = "kill" /\ Visit)
    /\ WF_vars(part = "kill" /\ ServerReturns)

FairDelivery ==
    \A a \in Alert : WF_deliveryVars(part = "delivery" /\ SendStep(a))

EndsSpec ==
    /\ EndsInit
    /\ [][EndsNext]_<<vars, deliveryVars, part>>
    /\ FairKill
    /\ FairDelivery
=============================================================================
