------------------------------ MODULE Heartbeat ------------------------------
(***************************************************************************)
(* The heartbeat file of one host name (plenith/heartbeat.py): the agents  *)
(* that write it, one after the other or overlapping in a restart, and the *)
(* roster read from it.  The loop is punctual: time does not pass an agent *)
(* whose beat is due.  A beat is written beside the file and renamed over  *)
(* it; the farewell is written in place.                                   *)
(***************************************************************************)
EXTENDS Naturals, FiniteSets

CONSTANTS Agent,              \* processes under one host name
          Stale, Down,        \* ages at which a beat is stale, an agent down
          LastSecond, MaxFailures

\* Times are in beats: an agent that beats is never stale.
ASSUME BeatAssumption ==
    /\ Stale \in Nat /\ Down \in Nat /\ 1 <= Stale /\ Stale <= Down
    /\ "-" \notin Agent

VARIABLES now, failures,
          agent,      \* off, starting, writing, waiting, silent, leaving, dying,
                      \* left, quit (without a farewell), crashed
          due,        \* when its next beat is
          copy,       \* what a leaving agent read of the file
          temp, beat, \* the temporary file and the heartbeat file
          crossed     \* history: an agent wrote while another was there

beatVars == <<now, failures, agent, due, copy, temp, beat, crossed>>

NoBeat == [st |-> "none", by |-> "-", at |-> 0, status |-> "-"]
Torn == [NoBeat EXCEPT !.st = "torn"]
Payload(a) == [st |-> "whole", by |-> a, at |-> now, status |-> "-"]
Away == {"off", "left", "quit", "crashed"}
Alone(a) == \A b \in Agent \ {a} : agent[b] \in Away

HeartbeatInit ==
    /\ now = 1 /\ failures = 0 /\ agent = [a \in Agent |-> "off"] /\ due = [a \in Agent |-> 0]
    /\ copy = [a \in Agent |-> NoBeat] /\ temp = NoBeat /\ beat = NoBeat /\ crossed = FALSE

\* no two steps of write_once are far apart, no beat is late
Punctual == \A a \in Agent : agent[a] \in Away \cup {"silent"} \/ (agent[a] = "waiting" /\ due[a] > now)
Second ==
    /\ now < LastSecond /\ Punctual /\ now' = now + 1
    /\ UNCHANGED <<failures, agent, due, copy, temp, beat, crossed>>

\* start, and the loop of _run: write_once now, then again after the interval
Begins(a) == agent[a] = "off" \/ (agent[a] = "waiting" /\ due[a] <= now)
write_once(a) ==
    /\ Begins(a)
    /\ temp' = Payload(a) /\ agent' = [agent EXCEPT ![a] = "writing"]
    /\ crossed' = (crossed \/ ~Alone(a))
    /\ UNCHANGED <<now, failures, due, copy, beat>>
\* the rename; the temporary file is gone when the other agent renamed it first
Renames(a) ==
    /\ agent[a] = "writing"
    /\ IF temp = NoBeat THEN agent' = [agent EXCEPT ![a] = "silent"] /\ UNCHANGED <<due, temp, beat>>
       ELSE /\ beat' = temp /\ temp' = NoBeat
            /\ agent' = [agent EXCEPT ![a] = "waiting"] /\ due' = [due EXCEPT ![a] = now + 1]
    /\ UNCHANGED <<now, failures, copy, crossed>>
\* a write that fails ends the task, and nobody awaits it
WriteFails(a) ==
    /\ agent[a] = "waiting" /\ due[a] <= now /\ failures < MaxFailures
    /\ failures' = failures + 1 /\ agent' = [agent EXCEPT ![a] = "silent"]
    /\ UNCHANGED <<now, due, copy, temp, beat, crossed>>

\* stop: the task is cancelled where it waits and the file read; the error of a
\* task that failed comes out of the await, before the farewell
stop(a) ==
    /\ agent[a] \in {"waiting", "silent"}
    /\ copy' = [copy EXCEPT ![a] = beat]
    /\ agent' = [agent EXCEPT ![a] = IF agent[a] = "waiting" /\ beat.st = "whole" THEN "leaving" ELSE "quit"]
    /\ crossed' = (crossed \/ ~Alone(a))
    /\ UNCHANGED <<now, failures, due, temp, beat>>
FarewellOpens(a) ==
    /\ agent[a] = "leaving" /\ beat' = Torn /\ agent' = [agent EXCEPT ![a] = "dying"]
    /\ UNCHANGED <<now, failures, due, copy, temp, crossed>>
FarewellCloses(a) ==
    /\ agent[a] = "dying" /\ agent' = [agent EXCEPT ![a] = "left"]
    /\ beat' = [copy[a] EXCEPT !.at = now, !.status = "stopping"]
    /\ UNCHANGED <<now, failures, due, copy, temp, crossed>>
Crash(a) ==
    /\ agent[a] \notin Away /\ agent' = [agent EXCEPT ![a] = "crashed"]
    /\ UNCHANGED <<now, failures, due, copy, temp, beat, crossed>>

-----------------------------------------------------------------------------
(* The roster *)

_classify_AgeFirst(age, status) ==
    IF age > Down THEN "down" ELSE IF age > Stale THEN "degraded"
    ELSE IF status = "stopping" THEN "stopping" ELSE "healthy"
_classify(age, status) ==
    IF status = "stopping" THEN "stopping"
    ELSE IF age > Down THEN "down" ELSE IF age > Stale THEN "degraded" ELSE "healthy"
\* a file that does not parse is passed over
read_all_heartbeats == IF beat.st = "whole" THEN {_classify(now - beat.at, beat.status)} ELSE {}

HeartbeatNext ==
    \/ Second
    \/ \E a \in Agent : \/ write_once(a) \/ Renames(a) \/ WriteFails(a) \/ stop(a)
                        \/ FarewellOpens(a) \/ FarewellCloses(a) \/ Crash(a)

-----------------------------------------------------------------------------
\* The roster tells a clean leave from a crash for good, and a live agent is on
\* it and healthy, through any succession of agents that do not overlap: an agent
\* that beats is healthy, the last one to leave is shown leaving however long
\* ago, and one that crashed, or whose task a failed write ended, is never shown
\* leaving and is down once its last beat is old (stop, _classify).
RosterTellsTheTruth ==
    ~crossed => \A a \in Agent :
        /\ agent[a] = "waiting" => read_all_heartbeats = {"healthy"}
        /\ agent[a] = "left" /\ beat.by = a => read_all_heartbeats = {"stopping"}
        /\ agent[a] \in {"silent", "quit", "crashed"} /\ beat.by = a =>
              /\ "stopping" \notin read_all_heartbeats
              /\ now - beat.at > Down => read_all_heartbeats = {"down"}
=============================================================================
