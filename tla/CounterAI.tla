------------------------------ MODULE CounterAI ------------------------------
(***************************************************************************)
(* The detector of attackers driven by a language model, over the          *)
(* connections of one engagement (plenith/counter_ai.py): the rolling      *)
(* signal, the two thresholds, the trap that decoys carry once it is       *)
(* armed, the proof when its marker comes back, and what of all this a     *)
(* reconnect finds again (Session, StateStore).                            *)
(*                                                                         *)
(* A command is what the scores see of it: its lexical purity (in          *)
(* hundredths), whether it probes for a prompt, and the pause before it.   *)
(* Of the burst score, the range between its ends is one grade.            *)
(***************************************************************************)
EXTENDS Naturals, Sequences, FiniteSetsExt

CONSTANTS Kind,        \* "sudo" plants the decoy, "cat" reads it, "echo" repeats a marker
          Lex, Probes, \* kind -> its lexical purity; the kinds that are probes
          Pause,       \* kind -> the pauses that come before it
          Recall,      \* commands the rolling statistics keep
          MaxCommands, MaxConns

VARIABLES
    conns, engagements, \* connections and engagements so far
    cmds,
    sessions,  \* connection -> its session: engagement_id, _counter_ai (a set of at most
               \* one state), observed, the decoy file with the marker in it and its
               \* renderer; and its history (see Told)
    stateFile, \* the state file of the identity: a set of at most one record
    got,       \* history: the markers the attacker has read
    ever,       \* history: of all that was typed
    broken     \* history: two connections overlapped, a save failed or the agent died

caiVars == <<conns, engagements, cmds, sessions, stateFile, got, ever, broken>>

\* A marker is made of the engagement id, and named by it; 0 is none.
Blank == [recent |-> <<>>, injections |-> 0, marker |-> 0, armed |-> FALSE, leaked |-> FALSE]
_fresh_observed == [likely |-> FALSE, proven |-> FALSE, detectedAlert |-> FALSE, provenAlert |-> FALSE,
                    planted |-> FALSE]
NoDecoy == [planted |-> FALSE, bait |-> 0, live |-> FALSE]
\* What a history tells: the last Recall commands, the probes, whether the marker
\* was sent back, and the alerts raised by severity.
Told == [typed |-> <<>>, probes |-> 0, echoed |-> FALSE, high |-> 0, critical |-> 0]
Closed == [up |-> FALSE, id |-> 0, cai |-> {}, seen |-> _fresh_observed, decoy |-> NoDecoy, line |-> Told]

CounterAIInit ==
    /\ conns = 0 /\ engagements = 0 /\ cmds = 0
    /\ sessions = [c \in 1..MaxConns |-> Closed] /\ stateFile = {}
    /\ got = {} /\ ever = Told /\ broken = FALSE

Live == {c \in DOMAIN sessions : sessions[c].up}
Trim(s) == IF Len(s) > Recall THEN SubSeq(s, Len(s) - Recall + 1, Len(s)) ELSE s

-----------------------------------------------------------------------------
(* Scores *)

Gaps(recent) == [i \in 1..(Len(recent) - 1) |-> recent[i + 1].pause]
Sum(s) == MapThenSumSet(LAMBDA i : s[i], DOMAIN s)
Squares(s) == MapThenSumSet(LAMBDA i : s[i] * s[i], DOMAIN s)
\* the coefficient of variation of the gaps, below 1/2 and above 3/2
_score_timing(recent) ==
    LET g == Gaps(recent)
        total == Sum(g) * Sum(g)
        spread == 4 * (Len(g) * Squares(g) - total)
    IN  IF Len(recent) < 4 \/ spread < total THEN 0 ELSE IF spread > 9 * total THEN 100 ELSE 50
lexical_avg(recent) == MapThenSumSet(LAMBDA i : recent[i].lex, DOMAIN recent) \div Len(recent)
\* in ten-thousandths
_combine_signals(timing, lex, injections, n) ==
    (IF n >= 4 THEN 30 * timing ELSE 0) + (IF n >= 3 THEN 30 * lex ELSE 0) + 1700 * Min({2, injections})
Likely == 5500
TrapArm == 7000

-----------------------------------------------------------------------------
(* One command: observe_command, the ladder, then the command itself *)

\* m is the marker in the command, 0 for none
Observed(s, k, pause, m) ==
    LET recent == Trim(Append(s.recent, [lex |-> Lex[k], pause |-> pause]))
        inj == s.injections + IF k \in Probes THEN 1 ELSE 0
        conf == _combine_signals(_score_timing(recent), lexical_avg(recent), inj, Len(recent))
    IN  [state |-> [s EXCEPT !.recent = recent, !.injections = inj,
                             !.leaked = @ \/ (s.marker # 0 /\ s.marker = m),
                             !.armed = @ \/ conf >= TrapArm],
         likely |-> conf >= Likely]
\* the first command of a fresh session makes the state, marker included; one
\* rebuilt from a file is taken as it is
StateOf(x) == IF x.cai = {} THEN [Blank EXCEPT !.marker = x.id] ELSE CHOOSE s \in x.cai : TRUE
observe_command(x, k, pause, m) == Observed(StateOf(x), k, pause, m)

\* the rules of the ladder, in their order: proof promotes the detection flag too
Provens(o) == o.proven /\ ~o.provenAlert
Detects(o) == o.likely /\ ~o.detectedAlert /\ ~Provens(o)
Ladder(o) == [o EXCEPT !.provenAlert = @ \/ Provens(o),
                       !.detectedAlert = @ \/ Provens(o) \/ Detects(o)]
\* maybe_inject_trap, from the renderer plant_decoy registers
maybe_inject_trap(s) == IF s.armed THEN s.marker ELSE 0
\* VirtualFS.read: a live renderer's output becomes the content of the file
Reads(d, s) == IF d.live THEN [d EXCEPT !.bait = maybe_inject_trap(s)] ELSE d
plant_decoy == [planted |-> TRUE, bait |-> 0, live |-> TRUE]

\* history: what a command adds to it; o is what the ladder saw
Tells(h, k, pause, back, o) ==
    [typed |-> Trim(Append(h.typed, [lex |-> Lex[k], pause |-> pause])),
     probes |-> h.probes + (IF k \in Probes THEN 1 ELSE 0),
     echoed |-> h.echoed \/ back,
     high |-> h.high + (IF Detects(o) THEN 1 ELSE 0),
     critical |-> h.critical + (IF Provens(o) THEN 1 ELSE 0)]

\* what a command makes of its session
Handled(x, k, pause, m) ==
    LET ob == observe_command(x, k, pause, m)
        o == [x.seen EXCEPT !.likely = ob.likely, !.proven = @ \/ ob.state.leaked]
        plants == k = "sudo" /\ ~x.seen.planted
    IN  [x EXCEPT !.cai = {ob.state},
                  !.seen = [Ladder(o) EXCEPT !.planted = @ \/ plants],
                  !.decoy = IF plants THEN plant_decoy ELSE IF k = "cat" THEN Reads(x.decoy, ob.state)
                            ELSE x.decoy,
                  !.line = Tells(x.line, k, pause, m = x.id, o)]

HandleCommand(c, k, pause, m) ==
    LET x == sessions[c]
        y == Handled(x, k, pause, m)
    IN  /\ x.up /\ cmds < MaxCommands /\ cmds' = cmds + 1
        /\ IF k = "echo" THEN m \in got ELSE m = 0
        /\ k = "cat" => x.decoy.planted
        /\ sessions' = [sessions EXCEPT ![c] = y]
        /\ got' = got \cup (IF k = "cat" THEN {y.decoy.bait} \ {0} ELSE {})
        /\ ever' = [typed |-> Trim(Append(ever.typed, [lex |-> Lex[k], pause |-> pause])),
                   probes |-> ever.probes + (IF k \in Probes THEN 1 ELSE 0),
                   echoed |-> ever.echoed \/ m = x.id,
                   high |-> ever.high + (y.line.high - x.line.high),
                   critical |-> ever.critical + (y.line.critical - x.line.critical)]
        /\ UNCHANGED <<conns, engagements, stateFile, broken>>

-----------------------------------------------------------------------------
(* Connections: nothing keeps one identity from having several at a time *)

\* from_dict of a state file without a counter_ai block is a state without a
\* marker, and stays without one
from_dict(block) == IF block = {} THEN Blank ELSE CHOOSE s \in block : TRUE
_deserialize_observed_DropsAlerted(o) == [o EXCEPT !.detectedAlert = FALSE, !.provenAlert = FALSE]
_deserialize_observed(o) == o

\* renderers are not kept, and only the one of auth.log is registered anew
Restored(p) == [up |-> TRUE, id |-> p.engagement_id, cai |-> {from_dict(p.counter_ai)},
                seen |-> _deserialize_observed(p.observed),
                decoy |-> [p.decoy EXCEPT !.live = FALSE], line |-> p.line]
SessionStarts ==
    /\ conns < MaxConns /\ conns' = conns + 1
    /\ IF stateFile = {}
       THEN /\ engagements' = engagements + 1
            /\ sessions' = [sessions EXCEPT ![conns + 1] = [Closed EXCEPT !.up = TRUE, !.id = engagements + 1]]
       ELSE /\ UNCHANGED engagements
            /\ \E p \in stateFile : sessions' = [sessions EXCEPT ![conns + 1] = Restored(p)]
    /\ broken' = (broken \/ Live # {})
    /\ UNCHANGED <<cmds, stateFile, got, ever>>
to_persistent_state(x) == [engagement_id |-> x.id, counter_ai |-> x.cai, observed |-> x.seen,
                           decoy |-> x.decoy, line |-> x.line]
\* connection_lost: the last one to save wins, and a save that fails is only logged
Disconnect(c, saves) ==
    /\ sessions[c].up /\ sessions' = [sessions EXCEPT ![c] = Closed]
    /\ stateFile' = IF saves THEN {to_persistent_state(sessions[c])} ELSE stateFile
    /\ broken' = (broken \/ ~saves)
    /\ UNCHANGED <<conns, engagements, cmds, got, ever>>
AgentDies ==
    /\ Live # {} /\ sessions' = [c \in DOMAIN sessions |-> Closed] /\ broken' = TRUE
    /\ UNCHANGED <<conns, engagements, cmds, stateFile, got, ever>>

CounterAINext ==
    \/ \E c \in Live, k \in Kind : \E pause \in Pause[k], m \in got \cup {0} : HandleCommand(c, k, pause, m)
    \/ SessionStarts \/ AgentDies
    \/ \E c \in Live, saves \in BOOLEAN : Disconnect(c, saves)

-----------------------------------------------------------------------------
\* A connection knows all of its line, the connections whose saved record it and
\* they in turn were restored from: the detector scores the line's last commands
\* and counts its probes, a marker that came back in it is proven with one critical
\* alert, and no alert is repeated in it, the detection alert never after the
\* proof.  As long as no connections overlapped, no save failed and the agent did
\* not die, the line of a connection is all that was ever typed; after that another
\* line may lose scores and raise an alert again (observe_command,
\* _deserialize_observed, to_dict, from_dict, connection_lost).
EchoIsProvenOnce ==
    \A c \in Live : LET x == sessions[c] h == x.line IN
        /\ \A s \in x.cai : s.recent = h.typed /\ s.injections = h.probes /\ (h.echoed => s.leaked)
        /\ h.high <= 1 /\ h.critical = (IF h.echoed THEN 1 ELSE 0)
        /\ ~broken => h = ever
=============================================================================
