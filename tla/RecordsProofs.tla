---------------------------- MODULE RecordsProofs ----------------------------
(***************************************************************************)
(* What is kept on disk and read back: heartbeats, what retention spares   *)
(* and backups hold, the analysts' overlay, the chained logs and the       *)
(* listings and charts, for any number of processes, files, analysts and   *)
(* entries and any ages.  The parts share no variable, so each has a       *)
(* specification of its own here.                                          *)
(***************************************************************************)
EXTENDS CaseOverlay, Upkeep, Heartbeat, AuditChain, Reports, FiniteSetTheorems, SequenceTheorems,
        WellFoundedInduction, TLAPS

-----------------------------------------------------------------------------
(* Heartbeats                                                              *)
(*                                                                         *)
(* The argument: as long as no two agents overlap, the file follows the    *)
(* one that is there through its stages, and the name in it is never that  *)
(* of an agent that beat and went away in another way than the file says.  *)

HeartbeatSpec == HeartbeatInit /\ [][HeartbeatNext]_beatVars

AgentState == {"off", "starting", "writing", "waiting", "silent", "leaving", "dying",
               "left", "quit", "crashed"}
Beats == [st : {"none", "torn", "whole"}, by : Agent \cup {"-"}, at : Nat, status : {"-", "stopping"}]

BeatTypes ==
    /\ now \in Nat /\ agent \in [Agent -> AgentState] /\ due \in [Agent -> Nat]
    /\ copy \in [Agent -> Beats] /\ temp \in Beats /\ beat \in Beats /\ crossed \in BOOLEAN

Lives(a) == agent[a] \notin Away
OneLives == \A a, b \in Agent : Lives(a) /\ Lives(b) => a = b

\* A beat of a's that says nothing of leaving.
CleanBeat(b, a) == b.st = "whole" /\ b.by = a /\ b.status = "-" /\ b.at <= now

BeatStages ==
    \A a \in Agent :
        /\ agent[a] = "writing" => CleanBeat(temp, a) /\ temp.at = now
        /\ agent[a] = "waiting" => CleanBeat(beat, a) /\ due[a] = beat.at + 1 /\ now <= due[a]
        /\ agent[a] = "leaving" => CleanBeat(beat, a) /\ copy[a] = beat
        /\ agent[a] = "dying"   => CleanBeat(copy[a], a) /\ beat = Torn

BeatNames ==
    /\ beat.by # "-" => beat.st = "whole" /\ beat.at <= now /\ agent[beat.by] # "off"
    /\ beat.by # "-" => (beat.status = "stopping" <=> agent[beat.by] = "left")

BeatInv == BeatTypes /\ (~crossed => OneLives /\ BeatStages /\ BeatNames)

LEMMA Payloads == ASSUME BeatTypes, NEW a \in Agent
                  PROVE  Payload(a) \in Beats /\ NoBeat \in Beats /\ Torn \in Beats
BY DEF Payload, Beats, NoBeat, Torn, BeatTypes

LEMMA BeatTypesNext == BeatTypes /\ [HeartbeatNext]_beatVars => BeatTypes'
<1> SUFFICES ASSUME BeatTypes, [HeartbeatNext]_beatVars PROVE BeatTypes'
  OBVIOUS
<1> USE DEF BeatTypes, AgentState
<1>1. CASE Second
  BY <1>1 DEF Second
<1>2. ASSUME NEW a \in Agent, write_once(a) PROVE BeatTypes'
  BY <1>2, Payloads DEF write_once
<1>3. ASSUME NEW a \in Agent, Renames(a) PROVE BeatTypes'
  BY <1>3, Payloads DEF Renames
<1>4. ASSUME NEW a \in Agent, WriteFails(a) PROVE BeatTypes'
  BY <1>4 DEF WriteFails
<1>5. ASSUME NEW a \in Agent, stop(a) PROVE BeatTypes'
  BY <1>5 DEF stop
<1>6. ASSUME NEW a \in Agent, FarewellOpens(a) PROVE BeatTypes'
  BY <1>6, Payloads DEF FarewellOpens
<1>7. ASSUME NEW a \in Agent, FarewellCloses(a) PROVE BeatTypes'
  <2>1. [copy[a] EXCEPT !.at = now, !.status = "stopping"] \in Beats
    BY DEF Beats
  <2> QED
    BY <1>7, <2>1 DEF FarewellCloses
<1>8. ASSUME NEW a \in Agent, Crash(a) PROVE BeatTypes'
  BY <1>8 DEF Crash
<1>9. CASE UNCHANGED beatVars
  BY <1>9 DEF beatVars
<1> QED
  BY <1>1, <1>2, <1>3, <1>4, <1>5, <1>6, <1>7, <1>8, <1>9 DEF HeartbeatNext

LEMMA WriteOnceKeeps ==
    ASSUME BeatTypes, OneLives, BeatStages, BeatNames, NEW a \in Agent, write_once(a), Alone(a)
    PROVE  OneLives' /\ BeatStages' /\ BeatNames'
<1>1. /\ temp' = Payload(a) /\ agent' = [agent EXCEPT ![a] = "writing"]
      /\ UNCHANGED <<now, due, copy, beat>>
      /\ agent[a] # "left" /\ \A b \in Agent \ {a} : agent[b] \in Away
  BY DEF write_once, Begins, Alone
<1>2. OneLives'
  BY <1>1 DEF OneLives, Lives, BeatTypes
<1>3. BeatStages'
  <2>1. CleanBeat(temp, a)' /\ temp'.at = now
    BY <1>1 DEF Payload, CleanBeat, BeatTypes
  <2>2. \A b \in Agent \ {a} : agent'[b] \in Away
    BY <1>1 DEF BeatTypes
  <2> QED
    BY <1>1, <2>1, <2>2 DEF BeatStages, BeatTypes, Away, CleanBeat
<1>4. BeatNames'
  BY <1>1 DEF BeatNames, BeatTypes, Beats
<1> QED
  BY <1>2, <1>3, <1>4

LEMMA RenamesKeeps ==
    ASSUME BeatTypes, OneLives, BeatStages, BeatNames, NEW a \in Agent, Renames(a)
    PROVE  OneLives' /\ BeatStages' /\ BeatNames'
<1>1. CleanBeat(temp, a) /\ temp.at = now /\ temp # NoBeat /\ agent[a] = "writing"
  BY DEF Renames, BeatStages, CleanBeat, NoBeat
<1>2. /\ beat' = temp /\ agent' = [agent EXCEPT ![a] = "waiting"] /\ due' = [due EXCEPT ![a] = now + 1]
      /\ UNCHANGED <<now, copy>>
  BY <1>1 DEF Renames
<1>3. \A b \in Agent \ {a} : agent[b] \in Away
  BY <1>1 DEF OneLives, Lives, Away
<1>4. OneLives'
  BY <1>1, <1>2, <1>3 DEF OneLives, Lives, BeatTypes
<1>5. BeatStages'
  BY <1>1, <1>2, <1>3 DEF BeatStages, CleanBeat, BeatTypes, Beats, Away
<1>6. BeatNames'
  BY <1>1, <1>2, BeatAssumption DEF BeatNames, CleanBeat, BeatTypes
<1> QED
  BY <1>4, <1>5, <1>6

\* Steps that take the agent to a state in which it says no more.
LEMMA SilenceKeeps ==
    ASSUME BeatTypes, OneLives, BeatStages, BeatNames, NEW a \in Agent, WriteFails(a) \/ Crash(a)
    PROVE  OneLives' /\ BeatStages' /\ BeatNames'
<1>1. /\ agent[a] \notin Away
      /\ \E t \in {"silent", "crashed"} : agent' = [agent EXCEPT ![a] = t]
      /\ UNCHANGED <<now, due, copy, temp, beat>>
  BY DEF WriteFails, Crash, Away
<1>2. OneLives'
  BY <1>1 DEF OneLives, Lives, BeatTypes
<1>3. BeatStages'
  BY <1>1 DEF BeatStages, CleanBeat, BeatTypes
<1>4. BeatNames'
  BY <1>1 DEF BeatNames, BeatTypes, Beats, Away
<1> QED
  BY <1>2, <1>3, <1>4

LEMMA StopKeeps ==
    ASSUME BeatTypes, OneLives, BeatStages, BeatNames, NEW a \in Agent, stop(a)
    PROVE  OneLives' /\ BeatStages' /\ BeatNames'
<1>1. /\ agent[a] \in {"waiting", "silent"} /\ copy' = [copy EXCEPT ![a] = beat]
      /\ UNCHANGED <<now, due, temp, beat>>
      /\ \/ agent[a] = "waiting" /\ agent' = [agent EXCEPT ![a] = "leaving"]
         \/ agent' = [agent EXCEPT ![a] = "quit"]
  BY DEF stop
<1>2. \A b \in Agent \ {a} : agent[b] \in Away
  BY <1>1 DEF OneLives, Lives, Away
<1>3. OneLives'
  BY <1>1, <1>2 DEF OneLives, Lives, BeatTypes
<1>4. BeatStages'
  BY <1>1, <1>2 DEF BeatStages, CleanBeat, BeatTypes, Away
<1>5. BeatNames'
  BY <1>1 DEF BeatNames, BeatTypes, Beats
<1> QED
  BY <1>3, <1>4, <1>5

LEMMA FarewellKeeps ==
    ASSUME BeatTypes, OneLives, BeatStages, BeatNames, NEW a \in Agent,
           FarewellOpens(a) \/ FarewellCloses(a)
    PROVE  OneLives' /\ BeatStages' /\ BeatNames'
<1>1. agent[a] \in {"leaving", "dying"} /\ UNCHANGED <<now, due, copy, temp>>
  BY DEF FarewellOpens, FarewellCloses
<1>2. \A b \in Agent \ {a} : agent[b] \in Away
  BY <1>1 DEF OneLives, Lives, Away
<1>3. CASE FarewellOpens(a)
  <2>1. beat' = Torn /\ agent' = [agent EXCEPT ![a] = "dying"] /\ CleanBeat(copy[a], a)
    BY <1>3 DEF FarewellOpens, BeatStages
  <2>2. OneLives' /\ BeatStages'
    BY <1>1, <1>2, <2>1 DEF OneLives, Lives, BeatStages, CleanBeat, BeatTypes, Away
  <2>3. BeatNames'
    BY <2>1 DEF BeatNames, Torn, NoBeat
  <2> QED
    BY <2>2, <2>3
<1>4. CASE FarewellCloses(a)
  <2>1. /\ agent' = [agent EXCEPT ![a] = "left"] /\ CleanBeat(copy[a], a) /\ copy[a] \in Beats
        /\ beat' = [copy[a] EXCEPT !.at = now, !.status = "stopping"]
    BY <1>4 DEF FarewellCloses, BeatStages, BeatTypes
  <2>2. beat'.st = "whole" /\ beat'.by = a /\ beat'.at = now /\ beat'.status = "stopping"
    BY <2>1 DEF CleanBeat, Beats
  <2>3. OneLives' /\ BeatStages'
    BY <1>1, <1>2, <2>1 DEF OneLives, Lives, BeatStages, BeatTypes, Away
  <2>4. BeatNames'
    BY <1>1, <2>1, <2>2 DEF BeatNames, BeatTypes
  <2> QED
    BY <2>3, <2>4
<1> QED
  BY <1>3, <1>4

LEMMA SecondKeeps ==
    ASSUME BeatTypes, OneLives, BeatStages, BeatNames, Second
    PROVE  OneLives' /\ BeatStages' /\ BeatNames'
<1>1. now' = now + 1 /\ UNCHANGED <<agent, due, copy, temp, beat>>
      /\ \A a \in Agent : agent[a] \in Away \cup {"silent"} \/ (agent[a] = "waiting" /\ due[a] > now)
  BY DEF Second, Punctual
<1>2. OneLives'
  BY <1>1 DEF OneLives, Lives
<1>3. BeatStages'
  BY <1>1 DEF BeatStages, CleanBeat, BeatTypes, Beats, Away
<1>4. BeatNames'
  BY <1>1 DEF BeatNames, BeatTypes, Beats
<1> QED
  BY <1>2, <1>3, <1>4

\* The roster tells a clean leave from a crash, and a live agent is on it, for
\* any number of processes and any ages of a stale and a dead beat, as long as
\* no two of them overlap (stop, _classify).
THEOREM RosterAlwaysTellsTheTruth == HeartbeatSpec => []RosterTellsTheTruth
<1>1. HeartbeatInit => BeatInv
  <2>1. SUFFICES ASSUME HeartbeatInit PROVE BeatInv
    OBVIOUS
  <2>2. BeatTypes
    <3>1. NoBeat \in Beats
      BY DEF NoBeat, Beats
    <3>2. crossed \in BOOLEAN
      BY <2>1, Zenon DEF HeartbeatInit
    <3> QED
      BY <2>1, <3>1, <3>2 DEF HeartbeatInit, BeatTypes, AgentState
  <2>3. OneLives /\ BeatStages /\ BeatNames
    BY <2>1 DEF HeartbeatInit, OneLives, Lives, Away, BeatStages, BeatNames, NoBeat
  <2> QED
    BY <2>2, <2>3 DEF BeatInv
<1>2. BeatInv /\ [HeartbeatNext]_beatVars => BeatInv'
  <2>1. SUFFICES ASSUME BeatInv, [HeartbeatNext]_beatVars, ~crossed'
                 PROVE  OneLives' /\ BeatStages' /\ BeatNames'
    BY BeatTypesNext DEF BeatInv
  <2>2. ~crossed /\ \A a \in Agent : write_once(a) => Alone(a)
    <3>1. \A a \in Agent : write_once(a) \/ stop(a) => crossed' = (crossed \/ ~Alone(a))
      BY DEF write_once, stop
    <3>2. \A a \in Agent : (Renames(a) \/ WriteFails(a) \/ FarewellOpens(a) \/ FarewellCloses(a)
                              \/ Crash(a)) => UNCHANGED crossed
      BY DEF Renames, WriteFails, FarewellOpens, FarewellCloses, Crash
    <3>3. Second \/ UNCHANGED beatVars => UNCHANGED crossed
      BY DEF Second, beatVars
    <3>4. ASSUME NEW a \in Agent, crossed' = (crossed \/ ~Alone(a)) PROVE ~crossed /\ Alone(a)
      BY <2>1, <3>4
    <3>5. ASSUME UNCHANGED crossed PROVE ~crossed
      BY <2>1, <3>5
    <3>6. ~crossed
      BY <2>1, <3>1, <3>2, <3>3, <3>4, <3>5 DEF HeartbeatNext
    <3> QED
      BY <3>1, <3>4, <3>6
  <2>3. BeatTypes /\ OneLives /\ BeatStages /\ BeatNames
    BY <2>1, <2>2 DEF BeatInv
  <2>4. CASE UNCHANGED beatVars
    BY <2>3, <2>4 DEF beatVars, OneLives, Lives, BeatStages, CleanBeat, BeatNames
  <2> QED
    BY <2>1, <2>2, <2>3, <2>4, WriteOnceKeeps, RenamesKeeps, SilenceKeeps, StopKeeps, FarewellKeeps,
       SecondKeeps DEF HeartbeatNext
<1>3. BeatInv => RosterTellsTheTruth
  <2>1. SUFFICES ASSUME BeatInv, ~crossed, NEW a \in Agent
                 PROVE  /\ agent[a] = "waiting" => read_all_heartbeats = {"healthy"}
                        /\ agent[a] = "left" /\ beat.by = a => read_all_heartbeats = {"stopping"}
                        /\ agent[a] \in {"silent", "quit", "crashed"} /\ beat.by = a =>
                              /\ "stopping" \notin read_all_heartbeats
                              /\ now - beat.at > Down => read_all_heartbeats = {"down"}
    BY DEF RosterTellsTheTruth
  <2>2. /\ BeatStages /\ BeatNames /\ a # "-" /\ now \in Nat /\ beat.at \in Nat
        /\ beat.status \in {"-", "stopping"}
    BY <2>1, BeatAssumption DEF BeatInv, BeatTypes, Beats
  <2>3. agent[a] = "waiting" => read_all_heartbeats = {"healthy"}
    <3>1. SUFFICES ASSUME agent[a] = "waiting" PROVE read_all_heartbeats = {"healthy"}
      OBVIOUS
    <3>2. beat.st = "whole" /\ beat.status = "-" /\ now - beat.at <= 1
      BY <2>2, <3>1 DEF BeatStages, CleanBeat
    <3> QED
      BY <2>2, <3>2, BeatAssumption DEF read_all_heartbeats, _classify
  <2>4. agent[a] = "left" /\ beat.by = a => read_all_heartbeats = {"stopping"}
    BY <2>2 DEF BeatNames, read_all_heartbeats, _classify
  <2>5. ASSUME agent[a] \in {"silent", "quit", "crashed"}, beat.by = a
        PROVE  beat.st = "whole" /\ beat.status = "-"
    BY <2>2, <2>5 DEF BeatNames
  <2>6. ASSUME beat.st = "whole", beat.status = "-"
        PROVE  /\ "stopping" \notin read_all_heartbeats
               /\ now - beat.at > Down => read_all_heartbeats = {"down"}
    BY <2>6 DEF read_all_heartbeats, _classify
  <2> QED
    BY <2>3, <2>4, <2>5, <2>6
<1> QED
  BY <1>1, <1>2, <1>3, PTL DEF HeartbeatSpec

-----------------------------------------------------------------------------
(* Retention                                                               *)
(*                                                                         *)
(* The argument: once its session is over, a log is never younger than the *)
(* state beside it, so a plan that lists the state lists the log that is   *)
(* there, and logs go first; the last log of a session that was still on   *)
(* when the plan was made comes with a state saved after the plan.         *)

UpkeepSpec == UpkeepInit /\ [][UpkeepNext]_upkeepVars

Orderly == ~stalePurge /\ ~unsettled /\ Window["engagements"] <= Window["persistence"]

UpkeepTypes == clock \in Nat /\ DOMAIN disk = Path /\ Path = {StateFile, LogFile, BeatFile, TempFile}

Dated == \A p \in Path : disk[p] # Missing => disk[p].at \in Nat /\ disk[p].at <= clock

LogIsOlder ==
    disk[LogFile] # Missing => disk[StateFile] # Missing /\ disk[LogFile].at <= disk[StateFile].at

SessionInv ==
    /\ session = "saved" => disk[StateFile] # Missing /\ disk[StateFile].at = clock
    /\ session = "over" => LogIsOlder

PlanFields == {"todo", "apply", "now", "failed"}

\* Of a plan that will be carried out, with the state in it.
PlanTakesBoth ==
    purge # NoJob =>
        /\ DOMAIN purge = PlanFields /\ purge.now \in Nat /\ purge.now <= clock
        /\ /\ session = "over" /\ purge.apply /\ StateFile \in purge.todo
           /\ disk[LogFile] # Missing /\ LogFile \notin purge.todo
           => disk[StateFile].at >= purge.now

RetentionInv == UpkeepTypes /\ (Orderly => Dated /\ SessionInv /\ PlanTakesBoth)

\* Logs are deleted before state (apply_plan).
LEMMA LogsGoFirst == Rank(LogFile) = 1 /\ Rank(StateFile) = 2
<1>1. Categories[1] = "engagements" /\ Categories[2] = "persistence" /\ Categories[3] = "heartbeats"
      /\ DOMAIN Categories = 1..3
  BY DEF Categories
<1>2. CategoryOf(LogFile) = "engagements" /\ CategoryOf(StateFile) = "persistence"
  BY FilesAssumption DEF CategoryOf
<1>3. \A i \in DOMAIN Categories : i \in {1, 2, 3}
  BY <1>1
<1>4. Rank(LogFile) \in DOMAIN Categories /\ Categories[Rank(LogFile)] = "engagements"
  BY <1>1, <1>2 DEF Rank
<1>5. Rank(StateFile) \in DOMAIN Categories /\ Categories[Rank(StateFile)] = "persistence"
  BY <1>1, <1>2 DEF Rank
<1> QED
  BY <1>1, <1>3, <1>4, <1>5

\* A plan that lists the state lists the log (build_plan, DEFAULT_WINDOWS).
LEMMA PlanListsLog ==
    ASSUME UpkeepTypes, Orderly, Dated, LogIsOlder, NEW f, StateFile \in ToDelete(f), disk[LogFile] # Missing
    PROVE  LogFile \in ToDelete(f)
<1>1. CategoryOf(LogFile) = "engagements" /\ CategoryOf(StateFile) = "persistence"
  BY FilesAssumption DEF CategoryOf
<1>2. /\ Window["engagements"] \in Nat /\ Window["persistence"] \in Nat
      /\ Window["engagements"] <= Window["persistence"]
  <2>1. Categories[1] = "engagements" /\ Categories[2] = "persistence" /\ 1 \in DOMAIN Categories
        /\ 2 \in DOMAIN Categories
    BY DEF Categories
  <2> QED
    BY <2>1, UpkeepAssumption DEF Orderly
<1>3. /\ disk[StateFile] # Missing /\ disk[StateFile].at \in Nat /\ disk[LogFile].at \in Nat
      /\ disk[LogFile].at <= disk[StateFile].at
      /\ clock - disk[StateFile].at > Window["persistence"] /\ Matches(StateFile, f)
  BY <1>1 DEF ToDelete, Expired, Present, Path, Dated, LogIsOlder
<1>4. clock - disk[LogFile].at > Window["engagements"] /\ Matches(LogFile, f)
  BY <1>2, <1>3, FilesAssumption DEF UpkeepTypes, Matches
<1> QED
  BY <1>1, <1>4 DEF ToDelete, Expired, Present, Path

LEMMA SessionRetention ==
    ASSUME RetentionInv, Orderly,
           (\E ends \in BOOLEAN : SaveBegin(ends)) \/ SaveEnd \/ NotSaved \/ WriteLog \/ Beat
    PROVE  RetentionInv'
<1>0. /\ UpkeepTypes /\ Dated /\ SessionInv /\ PlanTakesBoth
      /\ UNCHANGED <<clock, purge, stalePurge, unsettled>>
  BY DEF SaveBegin, SaveEnd, NotSaved, WriteLog, Beat, others, history, RetentionInv
<1>1. CASE (\E ends \in BOOLEAN : SaveBegin(ends)) \/ NotSaved \/ Beat
  <2>1. PICK p \in {TempFile, BeatFile}, x \in {Missing, [body |-> bodies + 1, at |-> clock]} :
            disk' = [disk EXCEPT ![p] = x]
    BY <1>1 DEF SaveBegin, NotSaved, Beat, Puts
  <2>2. DOMAIN disk' = Path /\ (\A q \in Path : q # p => disk'[q] = disk[q]) /\ disk'[p] = x
    BY <1>0, <2>1 DEF UpkeepTypes
  <2>3. disk'[p] # Missing => disk'[p].at = clock
    BY <2>1, <2>2
  <2>4. UpkeepTypes' /\ Dated'
    BY <1>0, <2>2, <2>3 DEF UpkeepTypes, Dated
  <2>5. disk'[LogFile] = disk[LogFile] /\ disk'[StateFile] = disk[StateFile]
    BY <2>2, FilesAssumption DEF Path
  <2>6. session' \notin {"saved", "over"} \/ session' = session
    BY <1>1 DEF SaveBegin, NotSaved, Beat
  <2>7. SessionInv' /\ PlanTakesBoth'
    BY <1>0, <2>5, <2>6 DEF SessionInv, LogIsOlder, PlanTakesBoth
  <2> QED
    BY <2>4, <2>7 DEF RetentionInv
<1>2. CASE SaveEnd
  <2>1. /\ disk[TempFile] # Missing /\ disk[TempFile].at = clock
        /\ disk' = [disk EXCEPT ![StateFile] = disk[TempFile], ![TempFile] = Missing]
        /\ session' = IF session = "ending" THEN "saved" ELSE session
    BY <1>2 DEF SaveEnd
  <2>2. /\ DOMAIN disk' = Path /\ disk'[StateFile] = disk[TempFile] /\ disk'[TempFile] = Missing
        /\ disk'[LogFile] = disk[LogFile] /\ disk'[BeatFile] = disk[BeatFile]
    BY <1>0, <2>1, FilesAssumption DEF UpkeepTypes
  <2>3. UpkeepTypes' /\ Dated'
    BY <1>0, <2>1, <2>2 DEF UpkeepTypes, Dated
  <2>4. LogIsOlder'
    BY <1>0, <2>1, <2>2 DEF UpkeepTypes, Dated, LogIsOlder
  <2>5. SessionInv'
    BY <1>0, <2>1, <2>2, <2>4 DEF SessionInv
  <2>6. PlanTakesBoth'
    BY <1>0, <2>1, <2>2 DEF UpkeepTypes, PlanTakesBoth
  <2> QED
    BY <1>0, <2>3, <2>5, <2>6 DEF RetentionInv
<1>3. CASE WriteLog
  <2>1. /\ disk' = [disk EXCEPT ![LogFile] = [body |-> bodies + 1, at |-> clock]]
        /\ session' # "saved" /\ (session' = "over" => session = "saved")
    BY <1>3 DEF WriteLog, Puts
  <2>2. DOMAIN disk' = Path /\ (\A q \in Path : q # LogFile => disk'[q] = disk[q]) /\ disk'[LogFile].at = clock
    BY <1>0, <2>1, FilesAssumption DEF UpkeepTypes
  <2>3. UpkeepTypes' /\ Dated'
    BY <1>0, <2>2 DEF UpkeepTypes, Dated
  <2>4. session' = "over" => disk'[StateFile] # Missing /\ disk'[StateFile].at = clock
    BY <1>0, <2>1, <2>2, FilesAssumption DEF SessionInv, Path
  <2>5. SessionInv'
    BY <1>0, <2>1, <2>2, <2>4 DEF SessionInv, LogIsOlder, UpkeepTypes
  <2>6. PlanTakesBoth'
    BY <1>0, <2>4 DEF PlanTakesBoth, UpkeepTypes
  <2> QED
    BY <2>3, <2>5, <2>6 DEF RetentionInv
<1> QED
  BY <1>1, <1>2, <1>3

LEMMA PlanRetention ==
    ASSUME RetentionInv, Orderly, NEW apply \in BOOLEAN, NEW confirm \in BOOLEAN, NEW f \in Subject \cup {NoJob},
           StartPurge(apply, f, confirm)
    PROVE  RetentionInv'
<1>0. UpkeepTypes /\ Dated /\ SessionInv /\ PlanTakesBoth /\ session' = session /\ clock' = clock
  BY DEF RetentionInv, StartPurge
<1> DEFINE plan == [todo |-> ToDelete(f), apply |-> apply, now |-> clock, failed |-> 0]
<1>1. disk' = disk /\ purge' \in {NoJob, plan}
  BY DEF StartPurge
<1>2. /\ DOMAIN plan = PlanFields /\ plan.now = clock
      /\ session = "over" /\ StateFile \in plan.todo /\ disk[LogFile] # Missing => LogFile \in plan.todo
  BY <1>0, PlanListsLog DEF PlanFields, SessionInv
<1> HIDE DEF plan
<1>3. PlanTakesBoth'
  BY <1>0, <1>1, <1>2 DEF PlanTakesBoth, UpkeepTypes
<1>4. SessionInv'
  BY <1>0, <1>1 DEF SessionInv, LogIsOlder
<1> QED
  BY <1>0, <1>1, <1>3, <1>4 DEF RetentionInv, UpkeepTypes, Dated

LEMMA RemoveRetention == ASSUME RetentionInv, Orderly, NEW p \in Path, RemoveFile(p) PROVE RetentionInv'
<1>0. UpkeepTypes /\ Dated /\ SessionInv /\ PlanTakesBoth /\ session' = session /\ clock' = clock
  BY DEF RetentionInv, RemoveFile
<1>1. /\ purge # NoJob /\ NextUp(p) /\ UNCHANGED clock
      /\ \/ /\ purge.apply /\ disk[p] # Missing /\ disk' = [disk EXCEPT ![p] = Missing]
            /\ disk[p].at >= purge.now => stalePurge'
         \/ UNCHANGED disk /\ (purge.apply => disk[p] = Missing)
      /\ purge' = [purge EXCEPT !.todo = purge.todo \ {p},
                                !.failed = purge.failed + IF purge.apply /\ disk[p] = Missing THEN 1 ELSE 0]
  BY DEF RemoveFile
<1>2. DOMAIN purge = PlanFields /\ purge.now \in Nat /\ purge.now <= clock
  BY <1>0, <1>1 DEF PlanTakesBoth
<1>3. DOMAIN purge' = PlanFields /\ purge'.todo = purge.todo \ {p} /\ purge'.apply = purge.apply
      /\ purge'.now = purge.now
  BY <1>1, <1>2 DEF PlanFields
<1>4. DOMAIN disk' = Path /\ (\A q \in Path : q # p => disk'[q] = disk[q])
      /\ disk'[p] \in {disk[p], Missing} /\ (purge.apply => disk'[p] = Missing)
  BY <1>0, <1>1 DEF UpkeepTypes
<1>5. UpkeepTypes' /\ Dated'
  BY <1>0, <1>1, <1>4 DEF UpkeepTypes, Dated
<1>6. PlanTakesBoth'
  BY <1>0, <1>1, <1>2, <1>3, <1>4 DEF PlanTakesBoth, Path, UpkeepTypes
<1>7. Orderly' => SessionInv'
  <2>1. CASE p # StateFile
    <3>1. disk'[StateFile] = disk[StateFile] /\ disk'[LogFile] \in {disk[LogFile], Missing}
      BY <1>4, <2>1 DEF Path
    <3> QED
      BY <1>0, <3>1 DEF SessionInv, LogIsOlder
  <2>2. CASE p = StateFile
    <3>1. LogFile \notin purge.todo /\ StateFile \in purge.todo
      BY <1>1, <2>2, LogsGoFirst DEF NextUp, Path
    <3>2. session = "over" /\ disk[LogFile] # Missing /\ disk' # disk => stalePurge'
      BY <1>0, <1>1, <2>2, <3>1 DEF PlanTakesBoth
    <3>3. session = "saved" /\ disk' # disk => stalePurge'
      BY <1>0, <1>1, <1>2, <2>2 DEF SessionInv, UpkeepTypes
    <3>4. disk'[LogFile] = disk[LogFile]
      BY <1>4, <2>2, FilesAssumption DEF Path
    <3>5. CASE disk' = disk
      BY <1>0, <3>5 DEF SessionInv, LogIsOlder
    <3>6. CASE disk' # disk
      BY <1>0, <3>2, <3>3, <3>4, <3>6 DEF SessionInv, LogIsOlder, Orderly
    <3> QED
      BY <3>5, <3>6
  <2> QED
    BY <2>1, <2>2
<1> QED
  BY <1>5, <1>6, <1>7 DEF RetentionInv

LEMMA PurgeRetention ==
    ASSUME RetentionInv, Orderly, EndPurge \/ \E p \in Path : RemoveFails(p)
    PROVE  RetentionInv'
<1>1. ASSUME NEW p \in Path, RemoveFails(p) PROVE RetentionInv'
  BY <1>1 DEF RemoveFails, RetentionInv, Orderly, UpkeepTypes
<1>2. CASE EndPurge
  BY <1>2 DEF EndPurge, RetentionInv, UpkeepTypes, Dated, SessionInv, LogIsOlder, PlanTakesBoth
<1> QED
  BY <1>1, <1>2

\* What leaves both histories as they are.
LEMMA HistoryKept ==
    ASSUME \/ \E ends \in BOOLEAN : SaveBegin(ends)
           \/ SaveEnd \/ NotSaved \/ WriteLog \/ Beat \/ EndPurge \/ StartBackup \/ EndRestore \/ Tick
           \/ UNCHANGED upkeepVars
    PROVE  UNCHANGED <<stalePurge, unsettled>>
BY DEF SaveBegin, SaveEnd, NotSaved, WriteLog, Beat, others, history, EndPurge, StartBackup, EndRestore, Tick,
       upkeepVars

LEMMA PlanKeeps ==
    ASSUME NEW apply, NEW f, NEW confirm, StartPurge(apply, f, confirm)
    PROVE  UNCHANGED <<disk, clock, backup, archives, restore, stalePurge, unsettled>>
BY DEF StartPurge, history

LEMMA HashKeeps ==
    ASSUME NEW p, Hash(p) PROVE UNCHANGED <<disk, clock, purge, archives, restore, stalePurge, unsettled, session>>
BY DEF Hash, history

LEMMA AddKeeps ==
    ASSUME NEW p, Add(p) PROVE UNCHANGED <<disk, clock, purge, restore, stalePurge, unsettled, session>>
BY DEF Add, history

LEMMA StartKeeps ==
    ASSUME NEW i, NEW force, NEW dryRun, StartRestore(i, force, dryRun)
    PROVE  UNCHANGED <<disk, clock, purge, backup, archives, stalePurge, unsettled, session>>
BY DEF StartRestore, history

LEMMA UpkeepTypesNext == UpkeepTypes /\ [UpkeepNext]_upkeepVars => UpkeepTypes'
<1> SUFFICES ASSUME UpkeepTypes, [UpkeepNext]_upkeepVars PROVE UpkeepTypes'
  OBVIOUS
<1>1. clock' \in {clock, clock + 1}
  BY DEF UpkeepNext, SaveBegin, SaveEnd, NotSaved, WriteLog, Beat, Puts, others, StartPurge, RemoveFile, RemoveFails, EndPurge,
         StartBackup, Hash, Add, StartRestore, Extract, EndRestore, Tick, upkeepVars
<1>2. DOMAIN disk' = DOMAIN disk
  BY DEF UpkeepNext, SaveBegin, SaveEnd, NotSaved, WriteLog, Beat, Puts, others, StartPurge, RemoveFile, RemoveFails, EndPurge,
         StartBackup, Hash, Add, StartRestore, Extract, EndRestore, Tick, upkeepVars
<1> QED
  BY <1>1, <1>2 DEF UpkeepTypes

LEMMA DisorderStays == ~Orderly /\ [UpkeepNext]_upkeepVars => ~Orderly'
<1>1. ASSUME NEW p \in Path, RemoveFile(p) PROVE ~Orderly => ~Orderly'
  BY <1>1 DEF RemoveFile, Orderly
<1>2. ASSUME NEW p \in Path, RemoveFails(p) \/ Extract(p) PROVE ~Orderly'
  BY <1>2 DEF RemoveFails, Extract, Orderly
<1> QED
  BY <1>1, <1>2, HistoryKept, PlanKeeps, HashKeeps, AddKeeps, StartKeeps DEF UpkeepNext, Orderly

\* Retention never leaves the log of a session that ended in order without its
\* state, whatever the windows, as long as the state's is no shorter, and for
\* any number of saves, logs, plans and deletions (build_plan, apply_plan).
THEOREM StateAlwaysOutlivesLog == UpkeepSpec => []StateOutlivesLog
<1>1. UpkeepInit => RetentionInv
  BY DEF UpkeepInit, RetentionInv, UpkeepTypes, Dated, SessionInv, PlanTakesBoth, Path
<1>2. RetentionInv /\ [UpkeepNext]_upkeepVars => RetentionInv'
  <2>1. SUFFICES ASSUME RetentionInv, [UpkeepNext]_upkeepVars PROVE RetentionInv'
    OBVIOUS
  <2>2. UpkeepTypes'
    BY <2>1, UpkeepTypesNext DEF RetentionInv
  <2>3. CASE ~Orderly
    BY <2>1, <2>2, <2>3, DisorderStays DEF RetentionInv
  <2>4. ASSUME Orderly, UNCHANGED <<disk, purge>>,
               \/ clock' = clock /\ session' = session
               \/ clock' = clock + 1 /\ session' # "saved" /\ (session' = "over" => session = "over")
        PROVE  RetentionInv'
    <3>1. UNCHANGED <<disk, purge>>
      BY <2>4
    <3>2. /\ clock \in Nat /\ clock' \in Nat /\ clock <= clock' /\ Dated /\ SessionInv /\ PlanTakesBoth
          /\ StateFile \in Path /\ LogFile \in Path
      BY <2>1, <2>4 DEF RetentionInv, UpkeepTypes
    <3>3. Dated'
      BY <2>4, <3>1, <3>2 DEF Dated
    <3>4. SessionInv' /\ PlanTakesBoth'
      BY <2>4, <3>1, <3>2 DEF SessionInv, LogIsOlder, PlanTakesBoth
    <3> QED
      BY <2>2, <3>3, <3>4 DEF RetentionInv
  <2>5. CASE \E p \in Path : Extract(p)
    BY <2>2, <2>5 DEF Extract, RetentionInv, Orderly
  <2>6. CASE StartBackup \/ EndRestore \/ Tick \/ UNCHANGED upkeepVars
    <3>1. /\ UNCHANGED <<disk, purge>>
          /\ \/ clock' = clock /\ session' = session
             \/ clock' = clock + 1 /\ session' # "saved" /\ (session' = "over" => session = "over")
      BY <2>6 DEF StartBackup, EndRestore, Tick, upkeepVars, others, history
    <3> QED
      BY <2>3, <2>4, <3>1
  <2>7. CASE \/ \E p \in Path : Hash(p) \/ Add(p)
             \/ \E i \in DOMAIN archives, force, dryRun \in BOOLEAN : StartRestore(i, force, dryRun)
    BY <2>3, <2>4, <2>7, HashKeeps, AddKeeps, StartKeeps
  <2> QED
    BY <2>1, <2>3, <2>5, <2>6, <2>7, SessionRetention, PlanRetention, RemoveRetention, PurgeRetention
       DEF UpkeepNext
<1>3. RetentionInv => StateOutlivesLog
  BY DEF RetentionInv, Orderly, SessionInv, LogIsOlder, StateOutlivesLog
<1> QED
  BY <1>1, <1>2, <1>3, PTL DEF UpkeepSpec

-----------------------------------------------------------------------------
(* Backup: what has not changed since the job began is read in both passes, *)
(* and is there whenever it is read.                                        *)

BackupFields == {"step", "todo", "entries", "files", "members", "steady"}

\* The steady files of the job that are behind it are in what it has written.
JobIsFaithful ==
    backup # NoJob =>
        /\ DOMAIN backup = BackupFields /\ backup.step \in {"hash", "add"}
        /\ \A p \in backup.steady :
              /\ p \in backup.entries /\ p \in Path /\ disk[p] # Missing
              /\ backup.step = "hash" => p \in backup.todo \/ p \in DOMAIN backup.files
              /\ backup.step = "add" =>
                    /\ p \in DOMAIN backup.files
                    /\ p \in backup.todo \/ p \in DOMAIN backup.members

HoldsWhatItOwes(a) == a.whole => a.owed \subseteq DOMAIN a.members \cap DOMAIN a.files

ArchivesHold == \E S : archives \in Seq(S) /\ \A a \in S : HoldsWhatItOwes(a)

RestoreFields == {"from", "todo"}
RestoreIsVerified == restore # NoJob => DOMAIN restore = RestoreFields /\ Verified(restore.from)

BackupInv == UpkeepTypes /\ JobIsFaithful /\ ArchivesHold /\ RestoreIsVerified

\* A write or a deletion takes the file out of what the backup owes.
LEMMA DiskMoves ==
    ASSUME UpkeepTypes, JobIsFaithful, NEW ps, Unsteady(ps), DOMAIN disk' = Path,
           \A p \in Path : p \notin ps => disk'[p] = disk[p]
    PROVE  JobIsFaithful'
<1>1. CASE backup = NoJob
  BY <1>1 DEF Unsteady, JobIsFaithful
<1>2. CASE backup # NoJob
  <2>1. backup' = [backup EXCEPT !.steady = backup.steady \ ps] /\ DOMAIN backup = BackupFields
    BY <1>2 DEF Unsteady, JobIsFaithful
  <2>2. /\ DOMAIN backup' = BackupFields /\ backup'.steady = backup.steady \ ps
        /\ backup'.step = backup.step /\ backup'.todo = backup.todo /\ backup'.entries = backup.entries
        /\ backup'.files = backup.files /\ backup'.members = backup.members
    BY <2>1 DEF BackupFields
  <2> QED
    BY <1>2, <2>2 DEF JobIsFaithful
<1> QED
  BY <1>1, <1>2

LEMMA SteadyIsThere ==
    ASSUME JobIsFaithful, backup # NoJob, NEW p \in backup.steady PROVE ~Gone(p)
BY DEF JobIsFaithful, Gone

\* Rolling retention keeps a tail of the archives.
LEMMA RolledKeeps ==
    ASSUME NEW S, NEW found \in Seq(S), Keep \in Nat PROVE Rolled(found) \in Seq(S)
<1>1. CASE Keep = 0 \/ Len(found) <= Keep
  BY <1>1 DEF Rolled
<1>2. CASE Keep # 0 /\ Len(found) > Keep
  <2>1. Len(found) \in Nat
    OBVIOUS
  <2>2. Len(found) - Keep + 1 \in 1..(Len(found) + 1) /\ Len(found) \in (Len(found) - Keep)..Len(found)
    BY <1>2, <2>1
  <2>3. SubSeq(found, Len(found) - Keep + 1, Len(found)) \in Seq(S)
    BY <2>2, SubSeqProperties
  <2> QED
    BY <1>2, <2>3 DEF Rolled
<1> QED
  BY <1>1, <1>2

LEMMA HashFaithful == ASSUME BackupInv, NEW p \in Path, Hash(p) PROVE JobIsFaithful'
<1>1. JobIsFaithful /\ backup # NoJob /\ backup.step = "hash" /\ p \in backup.todo /\ UNCHANGED disk
  BY DEF Hash, BackupInv
<1>2. /\ DOMAIN backup = BackupFields
      /\ \A q \in backup.steady : /\ q \in backup.entries /\ q \in Path /\ disk[q] # Missing /\ ~Gone(q)
                                  /\ q \in backup.todo \/ q \in DOMAIN backup.files
  BY <1>1, SteadyIsThere DEF JobIsFaithful
<1> DEFINE files == IF Gone(p) THEN backup.files ELSE With(backup.files, p, disk[p].body)
<1>3. DOMAIN backup.files \subseteq DOMAIN files /\ (~Gone(p) => p \in DOMAIN files)
  BY DEF With
<1>4. /\ DOMAIN backup' = BackupFields /\ backup'.files = files
      /\ backup'.entries = backup.entries /\ backup'.members = backup.members /\ backup'.steady = backup.steady
      /\ backup'.todo = IF backup.todo = {p} THEN backup.entries ELSE backup.todo \ {p}
      /\ backup'.step = IF backup.todo = {p} THEN "add" ELSE "hash"
  <2>1. backup' = [backup EXCEPT !.todo = IF backup.todo = {p} THEN backup.entries ELSE backup.todo \ {p},
                                 !.step = IF backup.todo = {p} THEN "add" ELSE backup.step,
                                 !.files = files]
    BY DEF Hash
  <2> HIDE DEF files
  <2> QED
    BY <1>1, <1>2, <2>1 DEF BackupFields
<1> HIDE DEF files
<1> QED
  BY <1>1, <1>2, <1>3, <1>4 DEF JobIsFaithful

LEMMA AddFaithful == ASSUME BackupInv, NEW p \in Path, Add(p) PROVE JobIsFaithful' /\ ArchivesHold'
<1>1. /\ JobIsFaithful /\ backup # NoJob /\ backup.step = "add" /\ p \in backup.todo /\ UNCHANGED disk
  BY DEF Add, BackupInv
<1>2. PICK S : archives \in Seq(S) /\ \A a \in S : HoldsWhatItOwes(a)
  BY DEF BackupInv, ArchivesHold
<1>3. /\ DOMAIN backup = BackupFields
      /\ \A q \in backup.steady : /\ q \in backup.entries /\ q \in Path /\ disk[q] # Missing /\ ~Gone(q)
                                  /\ q \in DOMAIN backup.files
                                  /\ q \in backup.todo \/ q \in DOMAIN backup.members
  BY <1>1, SteadyIsThere DEF JobIsFaithful
<1> DEFINE members == With(backup.members, p, disk[p])
<1>4. DOMAIN members = {p} \cup DOMAIN backup.members
  BY DEF With
<1>5. CASE Gone(p)
  <2> DEFINE a == Archive(FALSE, backup.members)
  <2>1. archives' = Append(archives, a) /\ backup' = NoJob
    BY <1>5 DEF Add
  <2>2. HoldsWhatItOwes(a)
    BY DEF Archive, HoldsWhatItOwes
  <2> HIDE DEF a
  <2>3. Append(archives, a) \in Seq(S \cup {a}) /\ \A b \in S \cup {a} : HoldsWhatItOwes(b)
    BY <1>2, <2>2
  <2> QED
    BY <2>1, <2>3 DEF JobIsFaithful, ArchivesHold
<1>6. CASE ~Gone(p) /\ backup.todo = {p}
  <2> DEFINE a == Archive(TRUE, members)
  <2>1. archives' = Rolled(Append(archives, a)) /\ backup' = NoJob
    BY <1>6 DEF Add
  <2>2. HoldsWhatItOwes(a)
    <3>1. a.owed = backup.steady /\ a.members = members /\ a.files = backup.files
      BY DEF Archive
    <3> HIDE DEF a, members
    <3> QED
      BY <1>3, <1>4, <1>6, <3>1 DEF HoldsWhatItOwes
  <2> HIDE DEF a
  <2>3. Append(archives, a) \in Seq(S \cup {a}) /\ \A b \in S \cup {a} : HoldsWhatItOwes(b)
    BY <1>2, <2>2
  <2>4. Rolled(Append(archives, a)) \in Seq(S \cup {a})
    BY <2>3, UpkeepAssumption, RolledKeeps
  <2> QED
    BY <2>1, <2>3, <2>4 DEF JobIsFaithful, ArchivesHold
<1>7. CASE ~Gone(p) /\ backup.todo # {p}
  <2>1. /\ backup' = [backup EXCEPT !.todo = backup.todo \ {p}, !.members = members]
        /\ UNCHANGED archives
    BY <1>7 DEF Add
  <2> HIDE DEF members
  <2>2. /\ DOMAIN backup' = BackupFields /\ backup'.members = members /\ backup'.todo = backup.todo \ {p}
        /\ backup'.files = backup.files /\ backup'.step = "add"
        /\ backup'.entries = backup.entries /\ backup'.steady = backup.steady
    BY <1>1, <1>3, <2>1 DEF BackupFields
  <2>3. JobIsFaithful'
    BY <1>1, <1>3, <1>4, <2>2 DEF JobIsFaithful
  <2> QED
    BY <1>2, <2>1, <2>3 DEF ArchivesHold
<1> QED
  BY <1>5, <1>6, <1>7

\* A backup that succeeded holds every file that did not change under it, and
\* nothing is extracted from an archive that does not verify, whatever saves,
\* purges and restores run beside the job (backup.py, restore.py).
THEOREM BackupAlwaysHoldsTheSteady == UpkeepSpec => []BackupHoldsTheSteady
<1>1. UpkeepInit => BackupInv
  <2> SUFFICES ASSUME UpkeepInit PROVE BackupInv
    OBVIOUS
  <2>1. UpkeepTypes /\ JobIsFaithful /\ RestoreIsVerified
    BY DEF UpkeepInit, UpkeepTypes, JobIsFaithful, RestoreIsVerified, Path
  <2>2. ArchivesHold
    <3> DEFINE S == {Foreign[i] : i \in 1..Len(Foreign)}
    <3>1. archives \in Seq(S) /\ \A a \in S : HoldsWhatItOwes(a)
      BY FilesAssumption DEF UpkeepInit, HoldsWhatItOwes
    <3> QED
      BY <3>1 DEF ArchivesHold
  <2> QED
    BY <2>1, <2>2 DEF BackupInv
<1>2. BackupInv /\ [UpkeepNext]_upkeepVars => BackupInv'
  <2>1. SUFFICES ASSUME BackupInv, [UpkeepNext]_upkeepVars PROVE BackupInv'
    OBVIOUS
  <2>2. UpkeepTypes' /\ UpkeepTypes /\ JobIsFaithful /\ ArchivesHold /\ RestoreIsVerified
    BY <2>1, UpkeepTypesNext DEF BackupInv
  <2>3. ASSUME UNCHANGED <<archives, restore>>, JobIsFaithful' PROVE BackupInv'
    BY <2>2, <2>3 DEF BackupInv, ArchivesHold, RestoreIsVerified, Verified
  <2>4. ASSUME UNCHANGED <<disk, backup>> PROVE JobIsFaithful'
    BY <2>2, <2>4 DEF JobIsFaithful
  <2>5. CASE (\E ends \in BOOLEAN : SaveBegin(ends)) \/ NotSaved
    <3>1. /\ \A p \in Path : p \notin {TempFile} => disk'[p] = disk[p]
          /\ Unsteady({TempFile}) /\ UNCHANGED <<archives, restore>>
      BY <2>2, <2>5 DEF SaveBegin, NotSaved, Puts, others, UpkeepTypes
    <3> QED
      BY <2>2, <2>3, <3>1, DiskMoves DEF UpkeepTypes
  <2>6. CASE SaveEnd
    <3>1. \A p \in Path : p \notin {StateFile, TempFile} => disk'[p] = disk[p]
      BY <2>2, <2>6 DEF SaveEnd, UpkeepTypes
    <3> QED
      BY <2>2, <2>3, <2>6, <3>1, DiskMoves DEF SaveEnd, others, UpkeepTypes
  <2>7. CASE WriteLog
    <3>1. \A p \in Path : p \notin {LogFile} => disk'[p] = disk[p]
      BY <2>2, <2>7 DEF WriteLog, Puts, UpkeepTypes
    <3> QED
      BY <2>2, <2>3, <2>7, <3>1, DiskMoves DEF WriteLog, Puts, others, UpkeepTypes
  <2>8. CASE Beat
    <3>1. \A p \in Path : p \notin {BeatFile} => disk'[p] = disk[p]
      BY <2>2, <2>8 DEF Beat, Puts, UpkeepTypes
    <3> QED
      BY <2>2, <2>3, <2>8, <3>1, DiskMoves DEF Beat, Puts, others, UpkeepTypes
  <2>9. ASSUME NEW p \in Path, RemoveFile(p) PROVE BackupInv'
    <3>1. CASE purge.apply /\ disk[p] # Missing
      <4>1. \A q \in Path : q \notin {p} => disk'[q] = disk[q]
        BY <2>2, <2>9, <3>1 DEF RemoveFile, UpkeepTypes
      <4> QED
        BY <2>2, <2>3, <2>9, <3>1, <4>1, DiskMoves DEF RemoveFile, UpkeepTypes
    <3>2. CASE ~(purge.apply /\ disk[p] # Missing)
      BY <2>3, <2>4, <2>9, <3>2 DEF RemoveFile
    <3> QED
      BY <3>1, <3>2
  <2>10. ASSUME NEW p \in Path, Extract(p) PROVE BackupInv'
    <3>1. /\ restore # NoJob /\ disk' = [disk EXCEPT ![p] = restore.from.members[p]]
          /\ restore' = [restore EXCEPT !.todo = restore.todo \ {p}] /\ Unsteady({p}) /\ UNCHANGED archives
      BY <2>10 DEF Extract
    <3>2. DOMAIN disk' = Path /\ \A q \in Path : q \notin {p} => disk'[q] = disk[q]
      BY <2>2, <3>1 DEF UpkeepTypes
    <3>3. JobIsFaithful'
      BY <2>2, <3>1, <3>2, DiskMoves
    <3>4. DOMAIN restore' = RestoreFields /\ restore'.from = restore.from
      BY <2>2, <3>1 DEF RestoreIsVerified, RestoreFields
    <3>5. RestoreIsVerified'
      BY <2>2, <3>1, <3>4 DEF RestoreIsVerified, Verified
    <3> QED
      BY <2>2, <3>1, <3>3, <3>5 DEF BackupInv, ArchivesHold
  <2>11. CASE StartBackup
    <3> DEFINE job == [step |-> "hash", todo |-> Gather, entries |-> Gather,
                       files |-> <<>>, members |-> <<>>, steady |-> Present]
    <3>1. backup' = job /\ UNCHANGED <<disk, archives, restore>>
      BY <2>11 DEF StartBackup
    <3>2. DOMAIN job = BackupFields /\ job.step = "hash" /\ job.todo = Present /\ job.entries = Present
          /\ job.steady = Present
      BY DEF BackupFields, Gather
    <3> HIDE DEF job
    <3>3. JobIsFaithful'
      BY <3>1, <3>2 DEF JobIsFaithful, Present
    <3> QED
      BY <2>3, <3>1, <3>3
  <2>12. ASSUME NEW p \in Path, Hash(p) PROVE BackupInv'
    BY <2>1, <2>3, <2>12, HashFaithful, HashKeeps
  <2>13. ASSUME NEW p \in Path, Add(p) PROVE BackupInv'
    BY <2>1, <2>2, <2>13, AddFaithful, AddKeeps DEF BackupInv, RestoreIsVerified, Verified
  <2>14. ASSUME NEW i \in DOMAIN archives, NEW force \in BOOLEAN, NEW dryRun \in BOOLEAN,
                StartRestore(i, force, dryRun)
         PROVE  BackupInv'
    <3>1. UNCHANGED <<disk, backup, archives>>
      BY <2>14 DEF StartRestore
    <3>2. RestoreIsVerified'
      BY <2>14 DEF StartRestore, RestoreIsVerified, RestoreFields, Verified
    <3> QED
      BY <2>2, <2>4, <3>1, <3>2 DEF BackupInv, ArchivesHold
  <2>15. CASE EndRestore
    BY <2>2, <2>4, <2>15 DEF EndRestore, BackupInv, ArchivesHold, RestoreIsVerified
  <2>16. ASSUME NEW apply \in BOOLEAN, NEW confirm \in BOOLEAN, NEW f \in Subject \cup {NoJob},
                StartPurge(apply, f, confirm)
         PROVE  BackupInv'
    BY <2>3, <2>4, <2>16, PlanKeeps
  <2>17. ASSUME NEW p \in Path, RemoveFails(p) PROVE BackupInv'
    BY <2>3, <2>4, <2>17 DEF RemoveFails
  <2>18. CASE EndPurge \/ Tick \/ UNCHANGED upkeepVars
    BY <2>3, <2>4, <2>18 DEF EndPurge, Tick, others, upkeepVars
  <2> QED
    BY <2>1, <2>5, <2>6, <2>7, <2>8, <2>9, <2>10, <2>11, <2>12, <2>13, <2>14, <2>15, <2>16, <2>17, <2>18
       DEF UpkeepNext
<1>3. BackupInv => BackupHoldsTheSteady
  <2> SUFFICES ASSUME BackupInv PROVE BackupHoldsTheSteady
    OBVIOUS
  <2>1. PICK S : archives \in Seq(S) /\ \A a \in S : HoldsWhatItOwes(a)
    BY DEF BackupInv, ArchivesHold
  <2>2. \A i \in DOMAIN archives : archives[i] \in S
    BY <2>1
  <2> QED
    BY <2>1, <2>2 DEF BackupInv, BackupHoldsTheSteady, RestoreIsVerified, Verified, HoldsWhatItOwes
<1> QED
  BY <1>1, <1>2, <1>3, PTL DEF UpkeepSpec

-----------------------------------------------------------------------------
(* The analysts' overlay                                                   *)
(*                                                                         *)
(* The argument, one part per promise.  An entry outside `clobbered` is    *)
(* the same in the file and in what was promised, because a save from an   *)
(* outdated view adds everything that differs.  What has been standing     *)
(* since a snapshot began is in the file, and in each slice already read.  *)
(* Of two decision handlers that never overlap, the second finds the wipe  *)
(* it did still in force when it writes.                                   *)

OverlaySpec == OverlayInit /\ [][OverlayNext]_overlayVars

Steps == {"idle", "load", "save", "find", "slice_acks", "slice_notes", "pack", "wipe", "decide"}
Writing(w) == pc[w] \in {"load", "save"}

OverlayTypes ==
    /\ pc \in [Worker -> Steps] /\ DOMAIN req = Worker /\ DOMAIN view = Worker
    /\ DOMAIN file = Store /\ DOMAIN promised = Store /\ DOMAIN clobbered = Store
    /\ DOMAIN standing = Worker /\ \A w \in Worker : DOMAIN standing[w] = Store
    /\ \A w \in Worker : Writing(w) => req[w].verb \in {"put", "drop"} /\ req[w].store \in Store

\* The file and the promise are the same at k.
Agree(f, g, k) == (k \in DOMAIN f <=> k \in DOMAIN g) /\ (k \in DOMAIN g => f[k] = g[k])

PromisesKept ==
    \A s \in Store, k \in Key : k \notin clobbered[s] => Agree(LoadRaw(s), promised[s], k)

Due(w, s) == {k \in standing[w][s] : k[1] = req[w].eng}

SlicesHold ==
    /\ \A w \in Worker, s \in Store : standing[w][s] \subseteq DOMAIN LoadRaw(s)
    /\ \A w \in Worker : pc[w] \in {"slice_notes", "pack"} => Due(w, "acks") \subseteq view[w].acks
    /\ \A w \in Worker : pc[w] = "pack" => Due(w, "notes") \subseteq view[w].notes
    /\ \A n \in DOMAIN snaps :
          snaps[n].owed["acks"] \subseteq snaps[n].acks /\ snaps[n].owed["notes"] \subseteq snaps[n].notes

DecisionInv ==
    /\ raced \in BOOLEAN
    /\ ~raced =>
          /\ \A v, w \in Worker : pc[v] = "decide" /\ pc[w] = "decide" => v = w
          /\ \A w \in Worker : pc[w] = "decide" => decision = {}
          /\ decision = {} \/ \E d : decision = {d}

OverlayInv == OverlayTypes /\ PromisesKept /\ SlicesHold /\ DecisionInv

\* What a worker does to itself leaves the files and what is on record alone.
LEMMA RequestShape ==
    ASSUME NEW r \in Request
    PROVE  /\ r.verb \in {"put", "drop", "snapshot", "decide"} /\ FirstStep(r) \in Steps
           /\ r.verb \in {"put", "drop"} => r.store \in Store /\ FirstStep(r) = "load"
           /\ r.verb = "snapshot" => FirstStep(r) = "find"
           /\ r.verb = "decide" => FirstStep(r) = "wipe"
<1>1. CASE r \in AckRequest \/ r \in NoteRequest
  <2>1. r.verb = "put" /\ r.store \in Store
    BY <1>1 DEF AckRequest, NoteRequest, Store
  <2> QED
    BY <2>1 DEF FirstStep, Steps
<1>2. CASE r \in DropRequest
  <2>1. r.verb = "drop" /\ r.store \in Store
    BY <1>2 DEF DropRequest, Store
  <2> QED
    BY <2>1 DEF FirstStep, Steps
<1>3. CASE r \in SnapshotRequest
  <2>1. r.verb = "snapshot"
    BY <1>3 DEF SnapshotRequest
  <2> QED
    BY <2>1 DEF FirstStep, Steps
<1>4. CASE r \in DecideRequest
  <2>1. r.verb = "decide"
    BY <1>4 DEF DecideRequest
  <2> QED
    BY <2>1 DEF FirstStep, Steps
<1> QED
  BY <1>1, <1>2, <1>3, <1>4 DEF Request

LEMMA PromisesUntouched ==
    ASSUME PromisesKept, UNCHANGED <<file, damaged, promised, clobbered>> PROVE PromisesKept'
BY DEF PromisesKept, LoadRaw, Agree, Empty

\* A save: what its view had wrong about the file is clobbered, its own keys
\* are as promised, the rest is as it was.
LEMMA SaveKeepsPromises ==
    ASSUME OverlayTypes, PromisesKept, NEW w \in Worker, Save(w)
    PROVE  PromisesKept'
<1> DEFINE r == req[w]
           s == r.store
           now0 == LoadRaw(s)
           new == Changed(view[w], r)
           lost == {k \in Key : /\ k \in DOMAIN now0 \cup DOMAIN view[w]
                                /\ ~ /\ k \in DOMAIN now0 \cap DOMAIN view[w]
                                     /\ now0[k] = view[w][k]}
<1>1. /\ file' = [file EXCEPT ![s] = new] /\ damaged' = damaged \ {s}
      /\ promised' = [promised EXCEPT ![s] = Expected(promised[s], r)]
      /\ clobbered' = [clobbered EXCEPT ![s] = (clobbered[s] \cup lost) \ r.keys]
      /\ pc[w] = "save"
  BY DEF Save
<1>2. s \in Store /\ r.verb \in {"put", "drop"}
  BY <1>1 DEF OverlayTypes, Writing
<1>3. SUFFICES ASSUME NEW t \in Store, NEW k \in Key, k \notin clobbered'[t]
               PROVE  Agree(LoadRaw(t)', promised'[t], k)
  BY DEF PromisesKept
<1>4. CASE t # s
  <2>1. file'[t] = file[t] /\ (t \in damaged' <=> t \in damaged) /\ promised'[t] = promised[t] /\ clobbered'[t] = clobbered[t]
    BY <1>1, <1>4 DEF OverlayTypes
  <2>2. LoadRaw(t)' = LoadRaw(t)
    BY <2>1 DEF LoadRaw, Empty
  <2> QED
    BY <1>3, <2>1, <2>2 DEF PromisesKept
<1>5. CASE t = s
  <2>1. /\ file'[t] = new /\ t \notin damaged' /\ promised'[t] = Expected(promised[s], r)
        /\ clobbered'[t] = (clobbered[s] \cup lost) \ r.keys
    BY <1>1, <1>2, <1>5 DEF OverlayTypes
  <2>2. LoadRaw(t)' = new
    BY <2>1 DEF LoadRaw
  <2>3. CASE k \in r.keys
    BY <1>2, <2>1, <2>2, <2>3 DEF Agree, Changed, Put, Drop, Expected
  <2>4. CASE k \notin r.keys
    <3>1. k \notin clobbered[s] /\ k \notin lost
      BY <1>3, <2>1, <2>4
    <3>2. Agree(now0, promised[s], k)
      BY <1>2, <3>1 DEF PromisesKept
    <3>3. (k \in DOMAIN now0 <=> k \in DOMAIN view[w]) /\ (k \in DOMAIN now0 => now0[k] = view[w][k])
      BY <3>1
    <3>4. (k \in DOMAIN new <=> k \in DOMAIN view[w]) /\ (k \in DOMAIN new => new[k] = view[w][k])
      BY <1>2, <2>4 DEF Changed, Put, Drop
    <3>5. /\ k \in DOMAIN Expected(promised[s], r) <=> k \in DOMAIN promised[s]
          /\ k \in DOMAIN promised[s] => Expected(promised[s], r)[k] = promised[s][k]
      BY <2>4 DEF Expected
    <3> QED
      BY <2>1, <2>2, <3>2, <3>3, <3>4, <3>5 DEF Agree
  <2> QED
    BY <2>3, <2>4
<1> QED
  BY <1>4, <1>5

\* A damaged file: all it held is clobbered.
LEMMA DamageKeepsPromises ==
    ASSUME OverlayTypes, PromisesKept, NEW s \in Store, Damage(s) PROVE PromisesKept'
<1>1. /\ s \notin damaged /\ damaged' = damaged \cup {s} /\ file' = file /\ promised' = promised
      /\ clobbered' = [clobbered EXCEPT ![s] = clobbered[s] \cup DOMAIN file[s]]
  BY DEF Damage
<1>2. SUFFICES ASSUME NEW t \in Store, NEW k \in Key, k \notin clobbered'[t]
               PROVE  Agree(LoadRaw(t)', promised[t], k)
  BY <1>1 DEF PromisesKept
<1>3. k \notin clobbered[t] /\ (t = s => k \notin DOMAIN file[s])
  BY <1>1, <1>2 DEF OverlayTypes
<1>4. Agree(LoadRaw(t), promised[t], k)
  BY <1>3 DEF PromisesKept
<1>5. CASE t = s
  <2>1. LoadRaw(t)' = Empty /\ LoadRaw(t) = file[s] /\ DOMAIN Empty = {}
    BY <1>1, <1>5 DEF LoadRaw, Empty
  <2> QED
    BY <1>3, <1>4, <1>5, <2>1 DEF Agree
<1>6. CASE t # s
  <2>1. LoadRaw(t)' = LoadRaw(t)
    BY <1>1, <1>6 DEF LoadRaw, Empty
  <2> QED
    BY <1>4, <2>1
<1> QED
  BY <1>5, <1>6

Snapped == \A n \in DOMAIN snaps :
    snaps[n].owed["acks"] \subseteq snaps[n].acks /\ snaps[n].owed["notes"] \subseteq snaps[n].notes

\* A step of worker w over files that stay as they are.
OnlyWorker(w) ==
    \A v \in Worker \ {w} : pc'[v] = pc[v] /\ req'[v] = req[v] /\ view'[v] = view[v] /\ standing'[v] = standing[v]

LEMMA SlicesOfOthers ==
    ASSUME SlicesHold, NEW w \in Worker, OnlyWorker(w), UNCHANGED <<file, damaged>>, Snapped',
           \A s \in Store : standing'[w][s] \subseteq DOMAIN LoadRaw(s),
           pc'[w] \in {"slice_notes", "pack"} => Due(w, "acks")' \subseteq view'[w].acks,
           pc'[w] = "pack" => Due(w, "notes")' \subseteq view'[w].notes
    PROVE  SlicesHold'
<1>1. \A s \in Store : LoadRaw(s)' = LoadRaw(s)
  BY DEF LoadRaw, Empty
<1>2. \A v \in Worker, s \in Store : standing'[v][s] \subseteq DOMAIN LoadRaw(s)'
  BY <1>1 DEF SlicesHold, OnlyWorker
<1>3. ASSUME NEW v \in Worker, v # w
      PROVE  /\ pc'[v] \in {"slice_notes", "pack"} => Due(v, "acks")' \subseteq view'[v].acks
             /\ pc'[v] = "pack" => Due(v, "notes")' \subseteq view'[v].notes
  <2>1. pc'[v] = pc[v] /\ req'[v] = req[v] /\ view'[v] = view[v] /\ standing'[v] = standing[v]
    BY <1>3 DEF OnlyWorker
  <2> QED
    BY <2>1 DEF SlicesHold, Due
<1> QED
  BY <1>2, <1>3 DEF SlicesHold, Snapped

LEMMA DecisionUntouched ==
    ASSUME DecisionInv, UNCHANGED <<raced, decision>>, \A v \in Worker : pc'[v] = "decide" => pc[v] = "decide"
    PROVE  DecisionInv'
BY DEF DecisionInv

\* The end of a request.
LEMMA ReplyEnds ==
    ASSUME OverlayTypes, NEW w \in Worker, NEW status, Reply(w, status)
    PROVE  /\ pc' \in [Worker -> Steps] /\ DOMAIN req' = Worker /\ DOMAIN view' = Worker /\ pc'[w] = "idle"
           /\ \A v \in Worker \ {w} : pc'[v] = pc[v] /\ req'[v] = req[v] /\ view'[v] = view[v]
           /\ \A v \in Worker : pc'[v] \in {pc[v], "idle"} /\ (Writing(v)' => Writing(v) /\ req'[v] = req[v])
<1>1. pc' = [pc EXCEPT ![w] = "idle"] /\ req' = [req EXCEPT ![w] = Idle] /\ view' = [view EXCEPT ![w] = None]
  BY DEF Reply
<1>2. /\ pc' \in [Worker -> Steps] /\ DOMAIN req' = Worker /\ DOMAIN view' = Worker /\ pc'[w] = "idle"
      /\ \A v \in Worker \ {w} : pc'[v] = pc[v] /\ req'[v] = req[v] /\ view'[v] = view[v]
  BY <1>1 DEF OverlayTypes, Steps
<1> QED
  BY <1>2 DEF Writing

\* A request answered with nothing changed.
LEMMA AnswerOnly ==
    ASSUME OverlayInv, NEW w \in Worker, NEW status, Reply(w, status), UNCHANGED <<fileVars, histVars>>
    PROVE  OverlayInv'
<1>1. UNCHANGED <<file, damaged, snaps, decision, promised, clobbered, standing, raced>>
  BY DEF fileVars, histVars
<1>2. /\ pc' \in [Worker -> Steps] /\ DOMAIN req' = Worker /\ DOMAIN view' = Worker /\ pc'[w] = "idle"
      /\ \A v \in Worker \ {w} : pc'[v] = pc[v] /\ req'[v] = req[v] /\ view'[v] = view[v]
      /\ \A v \in Worker : pc'[v] \in {pc[v], "idle"} /\ (Writing(v)' => Writing(v) /\ req'[v] = req[v])
  BY ReplyEnds DEF OverlayInv
<1>3. OverlayTypes'
  BY <1>1, <1>2 DEF OverlayInv, OverlayTypes
<1>4. PromisesKept'
  BY <1>1, PromisesUntouched DEF OverlayInv
<1>5. OnlyWorker(w) /\ Snapped'
  BY <1>1, <1>2 DEF OnlyWorker, Snapped, OverlayInv, SlicesHold
<1>6. SlicesHold'
  BY <1>1, <1>2, <1>5, SlicesOfOthers DEF OverlayInv, SlicesHold
<1>7. DecisionInv'
  BY <1>1, <1>2, DecisionUntouched DEF OverlayInv
<1> QED
  BY <1>3, <1>4, <1>6, <1>7 DEF OverlayInv

LEMMA ReceiveKeeps ==
    ASSUME OverlayInv, NEW w \in Worker, NEW r \in Request, NEW p, NEW valid \in BOOLEAN, Receive(w, r, p, valid)
    PROVE  OverlayInv'
<1>1. CASE UNCHANGED standing /\ \E status : Reply(w, status)
  BY <1>1, AnswerOnly DEF Receive, histVars
<1>2. CASE /\ pc' = [pc EXCEPT ![w] = FirstStep(r)] /\ req' = [req EXCEPT ![w] = r] /\ view' = view
           /\ standing' = [standing EXCEPT ![w] = [s \in Store |->
                 IF r.verb = "snapshot" THEN DOMAIN LoadRaw(s) ELSE {}]]
  <2>1. pc[w] = "idle" /\ UNCHANGED <<file, damaged, snaps, decision, promised, clobbered, raced>>
    BY DEF Receive, fileVars
  <2>2. /\ pc' \in [Worker -> Steps] /\ DOMAIN req' = Worker /\ pc'[w] = FirstStep(r) /\ req'[w] = r
        /\ DOMAIN standing' = Worker /\ standing'[w] = [s \in Store |-> IF r.verb = "snapshot" THEN DOMAIN LoadRaw(s) ELSE {}]
        /\ \A v \in Worker \ {w} : pc'[v] = pc[v] /\ req'[v] = req[v] /\ standing'[v] = standing[v]
    BY <1>2, RequestShape DEF OverlayInv, OverlayTypes
  <2>3. OverlayTypes'
    BY <1>2, <2>1, <2>2, RequestShape DEF OverlayInv, OverlayTypes, Writing
  <2>4. PromisesKept'
    BY <2>1, PromisesUntouched DEF OverlayInv
  <2>5. pc'[w] \in {"load", "find", "wipe"}
    BY <2>2, RequestShape
  <2>6. OnlyWorker(w) /\ Snapped'
    BY <1>2, <2>1, <2>2 DEF OnlyWorker, Snapped, OverlayInv, SlicesHold
  <2>7. \A s \in Store : standing'[w][s] \subseteq DOMAIN LoadRaw(s)
    BY <2>2
  <2>8. SlicesHold'
    BY <2>1, <2>5, <2>6, <2>7, SlicesOfOthers DEF OverlayInv
  <2>9. DecisionInv'
    BY <2>1, <2>2, <2>5, DecisionUntouched DEF OverlayInv
  <2> QED
    BY <2>3, <2>4, <2>8, <2>9 DEF OverlayInv
<1> QED
  BY <1>1, <1>2 DEF Receive

\* The steps of a handler that only read.
LEMMA ReadKeeps ==
    ASSUME OverlayInv, NEW w \in Worker, Load(w) \/ SnapFind(w) \/ SnapAcks(w) \/ SnapNotes(w)
    PROVE  OverlayInv'
<1>1. /\ UNCHANGED <<file, damaged, snaps, decision, promised, clobbered, standing, raced, req>>
  BY DEF Load, SnapFind, SnapAcks, SnapNotes, fileVars, histVars
<1>2. PICK step, seen : pc' = [pc EXCEPT ![w] = step] /\ view' = [view EXCEPT ![w] = seen]
  BY DEF Load, SnapFind, SnapAcks, SnapNotes
<1>3. /\ pc'[w] = step /\ view'[w] = seen /\ DOMAIN view' = Worker /\ DOMAIN pc' = Worker
      /\ \A v \in Worker \ {w} : pc'[v] = pc[v] /\ view'[v] = view[v]
  BY <1>2 DEF OverlayInv, OverlayTypes
<1>4. \/ pc[w] = "load" /\ step = "save"
      \/ pc[w] = "find" /\ step = "slice_acks"
      \/ pc[w] = "slice_acks" /\ step = "slice_notes" /\ seen.acks = SliceOf("acks", req[w].eng)
      \/ /\ pc[w] = "slice_notes" /\ step = "pack" /\ seen.acks = view[w].acks
         /\ seen.notes = SliceOf("notes", req[w].eng)
  BY <1>3 DEF Load, SnapFind, SnapAcks, SnapNotes, OverlayInv, OverlayTypes
<1>5. OverlayTypes'
  <2>1. pc' \in [Worker -> Steps]
    BY <1>2, <1>4 DEF OverlayInv, OverlayTypes, Steps
  <2>2. \A v \in Worker : Writing(v)' => Writing(v)
    BY <1>3, <1>4 DEF Writing
  <2> QED
    BY <1>1, <1>3, <2>1, <2>2 DEF OverlayInv, OverlayTypes
<1>6. PromisesKept'
  BY <1>1, PromisesUntouched DEF OverlayInv
<1>7. OnlyWorker(w) /\ Snapped'
  BY <1>1, <1>3 DEF OnlyWorker, Snapped, OverlayInv, SlicesHold
<1>8. Due(w, "acks") \subseteq SliceOf("acks", req[w].eng) /\ Due(w, "notes") \subseteq SliceOf("notes", req[w].eng)
  BY DEF Due, SliceOf, OverlayInv, SlicesHold, Store
<1>9. Due(w, "acks")' = Due(w, "acks") /\ Due(w, "notes")' = Due(w, "notes")
  BY <1>1 DEF Due
<1>10. /\ pc'[w] \in {"slice_notes", "pack"} => Due(w, "acks")' \subseteq view'[w].acks
       /\ pc'[w] = "pack" => Due(w, "notes")' \subseteq view'[w].notes
  BY <1>3, <1>4, <1>8, <1>9 DEF OverlayInv, SlicesHold
<1>11. \A s \in Store : standing'[w][s] \subseteq DOMAIN LoadRaw(s)
  BY <1>1 DEF OverlayInv, SlicesHold
<1>12. SlicesHold'
  BY <1>1, <1>7, <1>10, <1>11, SlicesOfOthers DEF OverlayInv
<1>13. DecisionInv'
  BY <1>1, <1>3, <1>4, DecisionUntouched DEF OverlayInv
<1> QED
  BY <1>5, <1>6, <1>12, <1>13 DEF OverlayInv

\* A change of store s: what still stands in it is in its new content.
LEMMA StoreSlices ==
    ASSUME OverlayInv, NEW s \in Store, UNCHANGED snaps,
           \A t \in Store \ {s} : LoadRaw(t)' = LoadRaw(t),
           \A v \in Worker : /\ \A t \in Store \ {s} : standing'[v][t] = standing[v][t]
                             /\ standing'[v][s] \subseteq standing[v][s] \cap DOMAIN LoadRaw(s)'
                             /\ pc'[v] = "idle" \/ (pc'[v] = pc[v] /\ req'[v] = req[v] /\ view'[v] = view[v])
    PROVE  SlicesHold'
<1>1. \A v \in Worker, t \in Store : standing'[v][t] \subseteq DOMAIN LoadRaw(t)' /\ standing'[v][t] \subseteq standing[v][t]
  BY DEF OverlayInv, SlicesHold
<1>2. \A v \in Worker : req'[v] = req[v] => Due(v, "acks")' \subseteq Due(v, "acks") /\ Due(v, "notes")' \subseteq Due(v, "notes")
  BY <1>1 DEF Due, Store
<1> QED
  BY <1>1, <1>2 DEF OverlayInv, SlicesHold

LEMMA SaveKeeps == ASSUME OverlayInv, NEW w \in Worker, Save(w) PROVE OverlayInv'
<1>1. PICK s : s = req[w].store
  OBVIOUS
<1>2. PICK new : new = Changed(view[w], req[w])
  OBVIOUS
<1>3. /\ pc[w] = "save" /\ file' = [file EXCEPT ![s] = new] /\ damaged' = damaged \ {s} /\ Reply(w, 200)
      /\ standing' = [v \in Worker |-> [standing[v] EXCEPT ![s] = standing[v][s] \cap DOMAIN new]]
      /\ UNCHANGED <<snaps, decision, raced>>
  BY <1>1, <1>2 DEF Save
<1>4. s \in Store /\ OverlayTypes
  BY <1>1, <1>3 DEF OverlayInv, OverlayTypes, Writing
<1>5. /\ pc' \in [Worker -> Steps] /\ DOMAIN req' = Worker /\ DOMAIN view' = Worker /\ pc'[w] = "idle"
      /\ \A v \in Worker \ {w} : pc'[v] = pc[v] /\ req'[v] = req[v] /\ view'[v] = view[v]
      /\ \A v \in Worker : pc'[v] \in {pc[v], "idle"} /\ (Writing(v)' => Writing(v) /\ req'[v] = req[v])
  BY <1>3, <1>4, ReplyEnds
<1>6. PICK D : D = DOMAIN new
  OBVIOUS
<1>7. /\ DOMAIN standing' = Worker
      /\ \A v \in Worker : /\ DOMAIN standing'[v] = Store /\ standing'[v][s] = standing[v][s] \cap D
                           /\ \A t \in Store \ {s} : standing'[v][t] = standing[v][t]
  BY <1>3, <1>4, <1>6 DEF OverlayTypes
<1>8. DOMAIN file' = Store /\ DOMAIN promised' = Store /\ DOMAIN clobbered' = Store
  BY <1>4 DEF Save, OverlayTypes
<1>9. OverlayTypes'
  BY <1>4, <1>5, <1>7, <1>8 DEF OverlayTypes
<1>10. PromisesKept'
  BY <1>4, SaveKeepsPromises DEF OverlayInv
<1>11. LoadRaw(s)' = new /\ \A t \in Store \ {s} : LoadRaw(t)' = LoadRaw(t)
  BY <1>3, <1>4 DEF LoadRaw, Empty, OverlayTypes
<1>12. SlicesHold'
  BY <1>3, <1>4, <1>5, <1>6, <1>7, <1>11, StoreSlices
<1>13. DecisionInv'
  BY <1>3, <1>5, DecisionUntouched DEF OverlayInv
<1> QED
  BY <1>9, <1>10, <1>12, <1>13 DEF OverlayInv

LEMMA DamageKeeps == ASSUME OverlayInv, NEW s \in Store, Damage(s) PROVE OverlayInv'
<1>1. /\ damaged' = damaged \cup {s} /\ UNCHANGED <<file, snaps, decision, raced, promised, pc, req, view>>
      /\ standing' = [v \in Worker |-> [standing[v] EXCEPT ![s] = {}]]
      /\ clobbered' = [clobbered EXCEPT ![s] = clobbered[s] \cup DOMAIN file[s]]
  BY DEF Damage, workVars
<1>2. OverlayTypes
  BY DEF OverlayInv
<1>3. /\ DOMAIN standing' = Worker
      /\ \A v \in Worker : /\ DOMAIN standing'[v] = Store /\ standing'[v][s] = {}
                           /\ \A t \in Store \ {s} : standing'[v][t] = standing[v][t]
  BY <1>1, <1>2 DEF OverlayTypes
<1>4. OverlayTypes'
  BY <1>1, <1>2, <1>3 DEF OverlayTypes, Writing
<1>5. PromisesKept'
  BY <1>2, DamageKeepsPromises DEF OverlayInv
<1>6. \A t \in Store \ {s} : LoadRaw(t)' = LoadRaw(t)
  BY <1>1 DEF LoadRaw, Empty
<1>7. SlicesHold'
  BY <1>1, <1>3, <1>6, StoreSlices
<1>8. DecisionInv'
  BY <1>1, DecisionUntouched DEF OverlayInv
<1> QED
  BY <1>4, <1>5, <1>7, <1>8 DEF OverlayInv

LEMMA PackKeeps == ASSUME OverlayInv, NEW w \in Worker, SnapPack(w) PROVE OverlayInv'
<1>1. PICK status : Reply(w, status)
  BY DEF SnapPack
<1>2. PICK n, a : /\ n = <<req[w].eng, req[w].at>>
                  /\ a = [acks    |-> view[w].acks,
                          notes   |-> view[w].notes,
                          session |-> IF view[w].found THEN saves[req[w].eng] ELSE 0,
                          owed    |-> [s \in Store |-> {k \in standing[w][s] : k[1] = req[w].eng}]]
  OBVIOUS
<1>3. /\ pc[w] = "pack" /\ UNCHANGED <<file, damaged, decision, promised, clobbered, raced>>
      /\ standing' = [standing EXCEPT ![w] = [s \in Store |-> {}]]
      /\ \/ snaps' = snaps
         \/ snaps' = [x \in DOMAIN snaps \cup {n} |-> IF x = n THEN a ELSE snaps[x]]
  BY <1>2 DEF SnapPack
<1>4. OverlayTypes
  BY DEF OverlayInv
<1>5. /\ pc' \in [Worker -> Steps] /\ DOMAIN req' = Worker /\ DOMAIN view' = Worker /\ pc'[w] = "idle"
      /\ \A v \in Worker \ {w} : pc'[v] = pc[v] /\ req'[v] = req[v] /\ view'[v] = view[v]
      /\ \A v \in Worker : pc'[v] \in {pc[v], "idle"} /\ (Writing(v)' => Writing(v) /\ req'[v] = req[v])
  BY <1>1, <1>4, ReplyEnds
<1>6. /\ DOMAIN standing' = Worker /\ standing'[w] = [s \in Store |-> {}]
      /\ \A v \in Worker \ {w} : standing'[v] = standing[v]
  BY <1>3, <1>4 DEF OverlayTypes
<1>7. OverlayTypes'
  BY <1>3, <1>4, <1>5, <1>6 DEF OverlayTypes
<1>8. PromisesKept'
  BY <1>3, PromisesUntouched DEF OverlayInv
<1>9. a.owed["acks"] \subseteq a.acks /\ a.owed["notes"] \subseteq a.notes
  <2>1. a.owed["acks"] = Due(w, "acks") /\ a.owed["notes"] = Due(w, "notes") /\ a.acks = view[w].acks /\ a.notes = view[w].notes
    BY <1>2 DEF Due, Store
  <2> QED
    BY <1>3, <2>1 DEF OverlayInv, SlicesHold
<1>10. Snapped'
  <2>1. Snapped
    BY DEF OverlayInv, SlicesHold, Snapped
  <2> QED
    BY <1>3, <1>9, <2>1 DEF Snapped
<1>11. OnlyWorker(w)
  BY <1>5, <1>6 DEF OnlyWorker
<1>12. SlicesHold'
  BY <1>3, <1>5, <1>6, <1>10, <1>11, SlicesOfOthers DEF OverlayInv
<1>13. DecisionInv'
  BY <1>3, <1>5, DecisionUntouched DEF OverlayInv
<1> QED
  BY <1>7, <1>8, <1>12, <1>13 DEF OverlayInv

LEMMA DecideKeeps == ASSUME OverlayInv, NEW w \in Worker, DecideWipe(w) \/ DecideWrite(w) PROVE OverlayInv'
<1>1. OverlayTypes /\ UNCHANGED <<file, damaged, snaps, promised, clobbered, standing>>
  BY DEF OverlayInv, DecideWipe, DecideWrite, histVars
<1>2. /\ pc' \in [Worker -> Steps] /\ DOMAIN req' = Worker /\ DOMAIN view' = Worker /\ pc'[w] \in {"idle", "decide"}
      /\ \A v \in Worker \ {w} : pc'[v] = pc[v] /\ req'[v] = req[v] /\ view'[v] = view[v]
  <2>1. CASE DecideWipe(w)
    BY <1>1, <2>1 DEF DecideWipe, OverlayTypes, Steps
  <2>2. CASE DecideWrite(w)
    <3>1. Reply(w, 200)
      BY <2>2 DEF DecideWrite
    <3> QED
      BY <1>1, <3>1, ReplyEnds
  <2> QED
    BY <2>1, <2>2
<1>3. OverlayTypes'
  BY <1>1, <1>2 DEF OverlayTypes, Writing
<1>4. PromisesKept'
  BY <1>1, PromisesUntouched DEF OverlayInv
<1>5. OnlyWorker(w) /\ Snapped'
  BY <1>1, <1>2 DEF OnlyWorker, Snapped, OverlayInv, SlicesHold
<1>6. SlicesHold'
  BY <1>1, <1>2, <1>5, SlicesOfOthers DEF OverlayInv, SlicesHold
<1>7. DecisionInv'
  <2>1. CASE DecideWipe(w)
    <3>1. /\ decision' = {} /\ pc' = [pc EXCEPT ![w] = "decide"]
          /\ raced' = (raced \/ \E v \in Worker : pc[v] = "decide")
      BY <2>1 DEF DecideWipe
    <3>2. raced' \in BOOLEAN /\ (~raced' => \A v \in Worker : pc[v] # "decide")
      BY <3>1, Zenon DEF OverlayInv, DecisionInv
    <3>3. ~raced' => \A v \in Worker : pc'[v] = "decide" => v = w
      BY <1>2, <3>2
    <3> QED
      BY <3>1, <3>2, <3>3 DEF DecisionInv
  <2>2. CASE DecideWrite(w)
    <3>1. pc[w] = "decide" /\ decision' = decision \cup {req[w].decision} /\ raced' = raced /\ Reply(w, 200)
      BY <2>2 DEF DecideWrite, histVars
    <3>2. pc'[w] = "idle" /\ \A v \in Worker \ {w} : pc'[v] = pc[v]
      BY <1>1, <3>1, ReplyEnds
    <3>3. ~raced => decision = {} /\ \A v \in Worker : pc'[v] # "decide"
      BY <3>1, <3>2 DEF OverlayInv, DecisionInv
    <3>4. ~raced => decision' = {req[w].decision}
      BY <3>1, <3>3
    <3> QED
      BY <3>1, <3>3, <3>4 DEF OverlayInv, DecisionInv
  <2> QED
    BY <2>1, <2>2
<1> QED
  BY <1>3, <1>4, <1>6, <1>7 DEF OverlayInv

\* Every entry no outdated save and no damage touched is as the answered
\* requests left it, every snapshot holds what stood all the time it was
\* written, and decisions replace each other, for any engagements, entries and
\* workers of the API and the dashboard (acks.py, notes.py, snapshots.py).
THEOREM OverlayAlwaysKeepsPromises == OverlaySpec => []OverlayKeepsPromises
<1>1. OverlayInit => OverlayInv
  <2> SUFFICES ASSUME OverlayInit PROVE OverlayInv
    OBVIOUS
  <2>1. OverlayTypes
    BY DEF OverlayInit, OverlayTypes, Steps, Writing
  <2>2. \A s \in Store : LoadRaw(s) = Empty /\ promised[s] = Empty
    BY DEF OverlayInit, LoadRaw
  <2>3. PromisesKept
    BY <2>2 DEF PromisesKept, Agree
  <2>4. \A w \in Worker, s \in Store : standing[w][s] = {}
    BY DEF OverlayInit
  <2>5. SlicesHold
    BY <2>4 DEF OverlayInit, SlicesHold, Empty
  <2>6. raced = FALSE /\ decision = {} /\ \A w \in Worker : pc[w] = "idle"
    BY DEF OverlayInit
  <2>7. DecisionInv
    BY <2>6 DEF DecisionInv
  <2> QED
    BY <2>1, <2>3, <2>5, <2>7 DEF OverlayInv
<1>2. OverlayInv /\ [OverlayNext]_overlayVars => OverlayInv'
  <2> SUFFICES ASSUME OverlayInv, [OverlayNext]_overlayVars PROVE OverlayInv'
    OBVIOUS
  <2>1. ASSUME UNCHANGED <<file, damaged, snaps, decision, pc, req, view, promised, clobbered, standing, raced>>
        PROVE  OverlayInv'
    <3>1. OverlayTypes'
      BY <2>1 DEF OverlayInv, OverlayTypes, Writing
    <3>2. PromisesKept'
      BY <2>1, PromisesUntouched DEF OverlayInv
    <3>3. SlicesHold'
      BY <2>1 DEF OverlayInv, SlicesHold, LoadRaw, Due, Empty
    <3>4. DecisionInv'
      BY <2>1, DecisionUntouched DEF OverlayInv
    <3> QED
      BY <3>1, <3>2, <3>3, <3>4 DEF OverlayInv
  <2>2. ASSUME NEW w \in Worker, HandlerStep(w) PROVE OverlayInv'
    <3>1. CASE NothingToDrop(w)
      BY <3>1, AnswerOnly DEF NothingToDrop
    <3> QED
      BY <2>2, <3>1, ReadKeeps, SaveKeeps, PackKeeps, DecideKeeps DEF HandlerStep
  <2>3. ASSUME NEW w \in Worker, SaveFails(w) PROVE OverlayInv'
    BY <2>3, AnswerOnly DEF SaveFails
  <2>4. CASE \E e \in Eng : SessionSaves(e) \/ SessionPurged(e)
    BY <2>1, <2>4 DEF SessionSaves, SessionPurged, workVars, histVars
  <2>5. CASE UNCHANGED overlayVars
    BY <2>1, <2>5 DEF overlayVars, fileVars, workVars, histVars
  <2> QED
    BY <2>2, <2>3, <2>4, <2>5, ReceiveKeeps, DamageKeeps DEF OverlayNext
<1>3. OverlayInv => OverlayKeepsPromises
  <2> SUFFICES ASSUME OverlayInv PROVE OverlayKeepsPromises
    OBVIOUS
  <2>1. ~raced => Cardinality(decision) <= 1
    <3>1. decision = {} => Cardinality(decision) = 0
      BY FS_EmptySet
    <3>2. ASSUME NEW d, decision = {d} PROVE Cardinality(decision) = 1
      BY <3>2, FS_Singleton
    <3>3. ~raced => Cardinality(decision) = 0 \/ Cardinality(decision) = 1
      BY <3>1, <3>2, Zenon DEF OverlayInv, DecisionInv
    <3> QED
      BY <3>3
  <2> QED
    BY <2>1 DEF OverlayInv, PromisesKept, SlicesHold, Agree, OverlayKeepsPromises
<1> QED
  BY <1>1, <1>2, <1>3, PTL DEF OverlaySpec

-----------------------------------------------------------------------------
(* The chained logs                                                        *)
(*                                                                         *)
(* The argument: in a log that verifies, the hash of every entry covers    *)
(* the contents of the log up to it (by induction on its place), so the    *)
(* hash of the last one is what the log says; and the tip, while it is     *)
(* there, is what the session wrote.                                       *)

ChainSpec == ChainInit /\ [][ChainNext]_chainVars

Content == Deed \cup {Forged}
Digest == Seq(Content \cup {"unlinked"})
LogEntry == [what : Content, prev : SUBSET Digest, hash : SUBSET Digest]
LogFiles == [st : {"none", "torn", "whole"}, entries : Seq(LogEntry), tip : SUBSET Digest]

ChainInv ==
    /\ taken \in Seq(Deed) /\ written \in Seq(Deed) /\ edits \in Nat
    /\ log \in LogFiles
    /\ log.st = "whole" => log.tip = {} \/ log.tip = {written}
    /\ log.st = "whole" /\ edits = 0 => log = stamp_session_chain(written)
    /\ ~report.touched /\ report.status # "invalid_json" => report.exit = 0

\* Every set of natural numbers has a least one.
LEMMA LeastNatural ==
    ASSUME NEW S \in SUBSET Nat, S # {} PROVE \E m \in S : \A n \in S : m <= n
<1>1. PICK R : R = OpToRel(<, Nat)
  OBVIOUS
<1>2. IsWellFoundedOn(R, Nat)
  BY <1>1, NatLessThanWellFounded
<1>3. PICK m \in S : \A n \in S : ~(<<n, m>> \in R)
  BY <1>2, WFMin
<1>4. \A x, y \in Nat : x < y => <<x, y>> \in R
  BY <1>1 DEF OpToRel
<1>5. ASSUME NEW n \in S PROVE m <= n
  <2>1. n \in Nat /\ m \in Nat /\ ~(<<n, m>> \in R)
    BY <1>3
  <2>2. ~(n < m)
    BY <2>1, <1>4
  <2> QED
    BY <2>1, <2>2
<1> QED
  BY <1>3, <1>5

\* What a sequence says up to a place is what it says up to the one before,
\* and that.
LEMMA OneFurther ==
    ASSUME NEW S, NEW w \in Seq(S), NEW i \in 1..Len(w)
    PROVE  /\ SubSeq(w, 1, i) \in Seq(S) /\ SubSeq(w, 1, i - 1) \in Seq(S)
           /\ Append(SubSeq(w, 1, i - 1), w[i]) = SubSeq(w, 1, i)
<1>1. i \in Nat /\ i - 1 \in Nat /\ Len(w) \in Nat
  OBVIOUS
<1>2. PICK a : a = SubSeq(w, 1, i)
  OBVIOUS
<1>3. PICK b : b = SubSeq(w, 1, i - 1)
  OBVIOUS
<1>4. a \in Seq(S) /\ Len(a) = i /\ \A k \in 1..i : a[k] = w[k]
  BY <1>1, <1>2
<1>5. b \in Seq(S) /\ Len(b) = i - 1 /\ \A k \in 1..(i - 1) : b[k] = w[k]
  BY <1>1, <1>3
<1>6. w[i] \in S
  OBVIOUS
<1>7. Append(b, w[i]) = a
  <2>1. PICK c : c = Append(b, w[i])
    OBVIOUS
  <2>2. c \in Seq(S) /\ Len(c) = i /\ c[i] = w[i] /\ \A k \in 1..(i - 1) : c[k] = w[k]
    BY <2>1, <1>1, <1>5, <1>6
  <2>3. \A k \in 1..i : c[k] = a[k]
    BY <2>2, <1>4, <1>1
  <2>4. c = a
    BY <2>2, <2>3, <1>4, SeqEqual
  <2> QED
    BY <2>1, <2>4, Zenon
<1> QED
  BY <1>2, <1>3, <1>4, <1>5, <1>7, Zenon

LEMMA WholeOfIt ==
    ASSUME NEW S, NEW w \in Seq(S) PROVE SubSeq(w, 1, Len(w)) = w /\ SubSeq(w, 1, 0) = <<>>
BY SubSeqFull, SubSeqEmpty

\* A hash covers what came before and the entry itself.
LEMMA LinkedHash ==
    ASSUME NEW e \in LogEntry, NEW h, e.prev = {h} PROVE canonical_hash(e) = Append(h, e.what)
<1>1. (CHOOSE g \in e.prev : TRUE) = h
  OBVIOUS
<1>2. e.prev # {}
  OBVIOUS
<1> QED
  BY <1>1, <1>2, Zenon DEF canonical_hash

\* In a log whose entries follow from one another, every hash covers the
\* contents up to it.
LEMMA VerifiedCovers ==
    ASSUME NEW es \in Seq(LogEntry),
           \A i \in DOMAIN es : Follows(es[i], IF i = 1 THEN {Genesis} ELSE es[i - 1].hash)
    PROVE  /\ Whats(es) \in Seq(Content) /\ Len(Whats(es)) = Len(es)
           /\ \A i \in DOMAIN es : es[i].hash = {SubSeq(Whats(es), 1, i)}
<1>1. PICK w : w = Whats(es)
  OBVIOUS
<1>2. PICK n \in Nat : n = Len(es) /\ DOMAIN es = 1..n /\ \A i \in 1..n : es[i] \in LogEntry
  OBVIOUS
<1>3. w \in Seq(Content) /\ Len(w) = n /\ \A i \in 1..n : w[i] = es[i].what
  BY <1>1, <1>2 DEF Whats, LogEntry
<1>4. PICK X : X = {i \in 1..n : es[i].hash # {SubSeq(w, 1, i)}}
  OBVIOUS
<1>5. ASSUME X # {} PROVE FALSE
  <2>1. X \in SUBSET Nat
    BY <1>4
  <2>2. PICK m \in X : \A k \in X : m <= k
    BY <1>5, <2>1, LeastNatural
  <2>3. m \in 1..n /\ es[m].hash # {SubSeq(w, 1, m)}
    BY <1>4, <2>2
  <2>4. es[m].prev = {SubSeq(w, 1, m - 1)}
    <3>1. CASE m = 1
      <4>1. Follows(es[m], {Genesis})
        BY <3>1, <1>2, <2>3
      <4>2. SubSeq(w, 1, m - 1) = Genesis
        BY <3>1, <1>3, WholeOfIt DEF Genesis
      <4> QED
        BY <4>1, <4>2 DEF Follows
    <3>2. CASE m # 1
      <4>1. m - 1 \in 1..n /\ ~(m <= m - 1)
        BY <3>2, <2>3
      <4>2. m - 1 \notin X
        BY <4>1, <2>2
      <4>3. es[m - 1].hash = {SubSeq(w, 1, m - 1)}
        BY <4>1, <4>2, <1>4
      <4>4. Follows(es[m], es[m - 1].hash)
        BY <3>2, <1>2, <2>3
      <4> QED
        BY <4>3, <4>4 DEF Follows
    <3> QED
      BY <3>1, <3>2
  <2>5. es[m] \in LogEntry /\ es[m].what = w[m]
    BY <1>2, <1>3, <2>3
  <2>6. canonical_hash(es[m]) = Append(SubSeq(w, 1, m - 1), w[m])
    BY <2>4, <2>5, LinkedHash
  <2>7. Append(SubSeq(w, 1, m - 1), w[m]) = SubSeq(w, 1, m)
    BY <1>3, <2>3, OneFurther
  <2>8. es[m].hash = {canonical_hash(es[m])}
    BY <1>2, <2>3 DEF Follows
  <2> QED
    BY <2>3, <2>6, <2>7, <2>8, Zenon
<1>6. \A i \in 1..n : es[i].hash = {SubSeq(w, 1, i)}
  BY <1>4, <1>5
<1> QED
  BY <1>1, <1>2, <1>3, <1>6

\* A log that verifies against its tip says what the tip covers.
LEMMA VerifiedTells ==
    ASSUME NEW es \in Seq(LogEntry), NEW w, verify_chain(es, {w}) = "ok" PROVE Whats(es) = w
<1>1. CASE es = <<>>
  <2>1. {w} \in {{}, {Genesis}}
    BY <1>1 DEF verify_chain
  <2>2. w = <<>>
    BY <2>1 DEF Genesis
  <2> QED
    BY <1>1, <2>2 DEF Whats
<1>2. CASE es # <<>>
  <2>1. /\ \A i \in DOMAIN es : Follows(es[i], IF i = 1 THEN {Genesis} ELSE es[i - 1].hash)
        /\ {w} = {} \/ {w} = es[Len(es)].hash
    BY <1>2 DEF verify_chain
  <2>2. /\ Whats(es) \in Seq(Content) /\ Len(Whats(es)) = Len(es)
        /\ \A i \in DOMAIN es : es[i].hash = {SubSeq(Whats(es), 1, i)}
    BY <2>1, VerifiedCovers
  <2>3. Len(es) \in DOMAIN es
    BY <1>2
  <2>4. es[Len(es)].hash = {SubSeq(Whats(es), 1, Len(es))}
    BY <2>2, <2>3
  <2>5. SubSeq(Whats(es), 1, Len(es)) = Whats(es)
    BY <2>2, WholeOfIt
  <2> QED
    BY <2>1, <2>4, <2>5
<1> QED
  BY <1>1, <1>2

\* What is stamped verifies, and its tip is what was written.
LEMMA StampVerifies ==
    ASSUME NEW w \in Seq(Deed)
    PROVE  /\ stamp_session_chain(w) \in LogFiles
           /\ stamp_session_chain(w).tip = {w}
           /\ verify_session(stamp_session_chain(w)) = "ok"
<1>1. PICK es : es = chain_actions(w)
  OBVIOUS
<1>2. PICK n \in Nat : n = Len(w) /\ DOMAIN w = 1..n
  OBVIOUS
<1>3. ASSUME NEW i \in 1..n
      PROVE  /\ es[i] \in LogEntry
             /\ es[i].prev = {SubSeq(w, 1, i - 1)}
             /\ es[i].hash = {SubSeq(w, 1, i)}
             /\ es[i].hash = {canonical_hash(es[i])}
  <2>1. w[i] \in Content /\ w \in Seq(Content) /\ i \in 1..Len(w)
    BY <1>2 DEF Content
  <2>2. SubSeq(w, 1, i - 1) \in Seq(Content) /\ SubSeq(w, 1, i) \in Seq(Content)
        /\ Append(SubSeq(w, 1, i - 1), w[i]) = SubSeq(w, 1, i)
    BY <2>1, OneFurther
  <2>3. SubSeq(w, 1, i - 1) \in Digest /\ SubSeq(w, 1, i) \in Digest
    BY <2>2 DEF Digest
  <2>4. PICK p, q : p = SubSeq(w, 1, i - 1) /\ q = SubSeq(w, 1, i)
    OBVIOUS
  <2>5. p \in Digest /\ q \in Digest /\ Append(p, w[i]) = q
    BY <2>2, <2>3, <2>4, Zenon
  <2>6. PICK e : e = [what |-> w[i], prev |-> {p}, hash |-> {}]
    OBVIOUS
  <2>7. e \in LogEntry /\ e.prev = {p} /\ e.what = w[i]
    BY <2>1, <2>5, <2>6 DEF LogEntry
  <2>8. canonical_hash(e) = Append(p, w[i])
    BY <2>7, LinkedHash, Zenon
  <2>9. chain_entry(w[i], p) = [e EXCEPT !.hash = {q}]
    BY <2>5, <2>6, <2>8 DEF chain_entry
  <2>10. PICK f : f = [what |-> w[i], prev |-> {p}, hash |-> {q}]
    OBVIOUS
  <2>11. chain_entry(w[i], p) = f /\ f \in LogEntry /\ f.prev = {p} /\ f.what = w[i] /\ f.hash = {q}
    BY <2>1, <2>5, <2>6, <2>9, <2>10 DEF LogEntry
  <2>12. es[i] = chain_entry(w[i], SubSeq(w, 1, i - 1))
    BY <1>1, <1>2 DEF chain_actions
  <2>13. es[i] = f
    BY <2>4, <2>11, <2>12
  <2>14. canonical_hash(f) = q
    BY <2>5, <2>11, LinkedHash, Zenon
  <2> QED
    BY <2>4, <2>11, <2>13, <2>14, Zenon
<1>4. es \in Seq(LogEntry) /\ Len(es) = n /\ DOMAIN es = 1..n
  <2>1. es = [i \in 1..n |-> chain_entry(w[i], SubSeq(w, 1, i - 1))]
    BY <1>1, <1>2, Zenon DEF chain_actions
  <2>2. DOMAIN es = 1..n /\ es = [i \in 1..n |-> es[i]]
    BY <2>1
  <2>3. \A i \in 1..n : es[i] \in LogEntry
    BY <1>3, Zenon
  <2>4. es \in [1..n -> LogEntry]
    BY <2>2, <2>3, Zenon
  <2> QED
    BY <2>4
<1>5. CASE n = 0
  <2>1. w = <<>> /\ es = <<>>
    BY <1>2, <1>4, <1>5
  <2>2. chain_tip(es) = {w}
    BY <2>1 DEF chain_tip, Genesis
  <2>3. verify_chain(es, {w}) = "ok"
    BY <2>1 DEF verify_chain, Genesis
  <2>4. w \in Digest
    BY DEF Digest, Content
  <2> QED
    BY <2>2, <2>3, <2>4, <1>1, <1>4 DEF stamp_session_chain, verify_session, LogFiles
<1>6. CASE n # 0
  <2>1. n \in 1..n /\ es # <<>>
    BY <1>4, <1>6
  <2>2. es[n].hash = {SubSeq(w, 1, n)} /\ SubSeq(w, 1, n) = w
    <3>1. es[n].hash = {SubSeq(w, 1, n)}
      BY <2>1, <1>3, Zenon
    <3>2. SubSeq(w, 1, n) = w
      BY <1>2, WholeOfIt
    <3> QED
      BY <3>1, <3>2, Zenon
  <2>3. chain_tip(es) = {w}
    BY <2>1, <2>2, <1>4 DEF chain_tip
  <2>4. ASSUME NEW i \in 1..n PROVE Follows(es[i], IF i = 1 THEN {Genesis} ELSE es[i - 1].hash)
    <3>1. es[i].prev = {SubSeq(w, 1, i - 1)} /\ es[i].hash # {} /\ es[i].hash = {canonical_hash(es[i])}
      BY <1>3, Zenon
    <3>2. CASE i = 1
      <4>1. SubSeq(w, 1, i - 1) = Genesis
        BY <3>2, WholeOfIt DEF Genesis
      <4> QED
        BY <3>1, <3>2, <4>1 DEF Follows
    <3>3. CASE i # 1
      <4>1. i - 1 \in 1..n
        BY <3>3
      <4>2. es[i - 1].hash = {SubSeq(w, 1, i - 1)}
        BY <4>1, <1>3, Zenon
      <4> QED
        BY <3>1, <3>3, <4>2 DEF Follows
    <3> QED
      BY <3>2, <3>3
  <2>5. ~(\A i \in DOMAIN es : Bare(es[i]))
    BY <2>1, <2>2, <1>4 DEF Bare
  <2>6. {w} = es[Len(es)].hash
    BY <2>2, <1>4
  <2>7. verify_chain(es, {w}) = "ok"
    BY <2>1, <2>4, <2>5, <2>6, <1>4 DEF verify_chain
  <2>8. w \in Digest
    BY DEF Digest, Content
  <2> QED
    BY <2>3, <2>7, <2>8, <1>1, <1>4 DEF stamp_session_chain, verify_session, LogFiles
<1> QED
  BY <1>5, <1>6

\* Changing an entry leaves an entry, whatever is changed in it.
LEMMA AlteredIsEntry ==
    ASSUME NEW e \in LogEntry, NEW f \in Altered(e) PROVE f \in LogEntry
<1>1. e.what \in Content /\ e.prev \in SUBSET Digest /\ e.hash \in SUBSET Digest
  BY DEF LogEntry
<1>2. canonical_hash(e) \in Digest
  <2>1. CASE e.prev = {}
    <3>1. canonical_hash(e) = <<"unlinked", e.what>>
      BY <2>1, Zenon DEF canonical_hash
    <3> QED
      BY <1>1, <3>1 DEF Digest
  <2>2. CASE e.prev # {}
    <3>1. PICK h : h = CHOOSE g \in e.prev : TRUE
      OBVIOUS
    <3>2. h \in e.prev
      BY <2>2, <3>1
    <3>3. canonical_hash(e) = Append(h, e.what)
      BY <2>2, <3>1, Zenon DEF canonical_hash
    <3>4. h \in Seq(Content \cup {"unlinked"}) /\ e.what \in Content \cup {"unlinked"}
      BY <1>1, <3>2 DEF Digest
    <3>5. Append(h, e.what) \in Seq(Content \cup {"unlinked"})
      BY <3>4
    <3> QED
      BY <3>3, <3>5, Zenon DEF Digest
  <2> QED
    BY <2>1, <2>2
<1>3. PICK k : k = canonical_hash(e)
  OBVIOUS
<1>4. \/ \E w \in Content : f = [e EXCEPT !.what = w]
      \/ f = [e EXCEPT !.prev = {}]
      \/ f = [e EXCEPT !.hash = {}]
      \/ f = [e EXCEPT !.prev = {}, !.hash = {}]
      \/ f = [e EXCEPT !.hash = {k}]
  BY <1>3, Zenon DEF Altered, Content
<1> QED
  BY <1>2, <1>3, <1>4 DEF LogEntry

\* Every change of the entries leaves entries.
LEMMA RewrittenIsEntries ==
    ASSUME NEW es \in Seq(LogEntry), NEW fs \in Rewritten(es) PROVE fs \in Seq(LogEntry)
<1>1. \/ fs \in UNION {{[es EXCEPT ![i] = e] : e \in Altered(es[i])} : i \in DOMAIN es}
      \/ fs \in {Without(es, i) : i \in DOMAIN es}
      \/ fs \in {Append(es, es[i]) : i \in DOMAIN es}
  BY Zenon DEF Rewritten
<1>2. ASSUME fs \in UNION {{[es EXCEPT ![i] = e] : e \in Altered(es[i])} : i \in DOMAIN es}
      PROVE  fs \in Seq(LogEntry)
  <2>1. PICK i \in DOMAIN es : fs \in {[es EXCEPT ![i] = e] : e \in Altered(es[i])}
    BY <1>2, Zenon
  <2>2. PICK e \in Altered(es[i]) : fs = [es EXCEPT ![i] = e]
    BY <2>1, Zenon
  <2>3. es[i] \in LogEntry
    OBVIOUS
  <2>4. e \in LogEntry
    BY <2>3, AlteredIsEntry, Zenon
  <2> QED
    BY <2>2, <2>4
<1>3. ASSUME NEW i \in DOMAIN es PROVE Without(es, i) \in Seq(LogEntry)
  <2>1. i \in 1..Len(es) /\ Len(es) \in Nat
    OBVIOUS
  <2>2. SubSeq(es, 1, i - 1) \in Seq(LogEntry) /\ SubSeq(es, i + 1, Len(es)) \in Seq(LogEntry)
    BY <2>1
  <2> QED
    BY <2>2 DEF Without
<1>4. ASSUME NEW i \in DOMAIN es PROVE Append(es, es[i]) \in Seq(LogEntry)
  OBVIOUS
<1> QED
  BY <1>1, <1>2, <1>3, <1>4, Zenon

\* Every change of the file leaves a file of entries, whole, with its tip in
\* place or gone.
LEMMA EditedIsLogFile ==
    ASSUME log \in LogFiles, log.st = "whole", NEW l \in Edited
    PROVE  l \in LogFiles /\ l.st = "whole" /\ (l.tip = {} \/ l.tip = log.tip)
<1>1. log.entries \in Seq(LogEntry)
  BY DEF LogFiles
<1>2. \/ \E es \in Rewritten(log.entries) : l = [log EXCEPT !.entries = es]
      \/ l = [log EXCEPT !.tip = {}]
  BY Zenon DEF Edited
<1>3. ASSUME NEW es \in Rewritten(log.entries), l = [log EXCEPT !.entries = es]
      PROVE  l \in LogFiles /\ l.st = "whole" /\ (l.tip = {} \/ l.tip = log.tip)
  <2>1. es \in Seq(LogEntry)
    BY <1>1, RewrittenIsEntries, Zenon
  <2> QED
    BY <1>3, <2>1 DEF LogFiles
<1>4. CASE l = [log EXCEPT !.tip = {}]
  BY <1>4 DEF LogFiles
<1> QED
  BY <1>2, <1>3, <1>4, Zenon

\* The invariant: the session and what was written are sequences of deeds, the
\* file is a log; while it is whole its tip is what was written or is lost, and
\* while nobody touched it, it is what stamp_session_chain makes of that.
LEMMA ChainStarts == ChainInit => ChainInv
<1> SUFFICES ASSUME ChainInit PROVE ChainInv
  OBVIOUS
<1>1. log \in LogFiles /\ log.st = "none"
  BY DEF ChainInit, NoFile, LogFiles
<1>2. report.exit = 0
  BY DEF ChainInit, NoReport
<1> QED
  BY <1>1, <1>2 DEF ChainInit, ChainInv

LEMMA ChainKept == ChainInv /\ [ChainNext]_chainVars => ChainInv'
<1> SUFFICES ASSUME ChainInv, [ChainNext]_chainVars PROVE ChainInv'
  OBVIOUS
<1>1. ASSUME NEW d \in Deed, Takes(d) PROVE ChainInv'
  BY <1>1 DEF Takes, ChainInv
<1>2. CASE WriteOpens
  <2>1. log' \in LogFiles /\ log'.st = "torn"
    <3>1. log' = [st |-> "torn", entries |-> <<>>, tip |-> {}]
      BY <1>2 DEF WriteOpens, NoFile
    <3> QED
      BY <3>1 DEF LogFiles
  <2> QED
    BY <1>2, <2>1 DEF WriteOpens, ChainInv
<1>3. CASE WriteCloses
  <2>1. taken \in Seq(Deed)
    BY DEF ChainInv
  <2>2. /\ log' = stamp_session_chain(taken) /\ written' = taken /\ edits' = 0
        /\ taken' = taken /\ report' = report
    BY <1>3 DEF WriteCloses
  <2>3. log' \in LogFiles /\ log'.tip = {written'}
    BY <2>1, <2>2, StampVerifies, Zenon
  <2> QED
    BY <2>1, <2>2, <2>3 DEF ChainInv
<1>4. CASE Edit
  <2>1. PICK l \in Edited : log' = l
    BY <1>4 DEF Edit
  <2>2. log \in LogFiles /\ log.st = "whole" /\ edits \in Nat
    BY <1>4 DEF Edit, ChainInv
  <2>3. log' \in LogFiles /\ log'.st = "whole" /\ (log'.tip = {} \/ log'.tip = log.tip)
    BY <2>1, <2>2, EditedIsLogFile, Zenon
  <2>4. /\ edits' = edits + 1 /\ taken' = taken /\ written' = written /\ report' = report
    BY <1>4 DEF Edit
  <2>5. edits' \in Nat /\ edits' # 0
    BY <2>2, <2>4
  <2> QED
    BY <2>2, <2>3, <2>4, <2>5 DEF ChainInv
<1>5. ASSUME NEW json \in BOOLEAN, NEW allow \in BOOLEAN, Verify(json, allow) PROVE ChainInv'
  <2>1. /\ log' = log /\ taken' = taken /\ written' = written /\ edits' = edits
        /\ report' = [status |-> verify_one(log),
                      exit   |-> IF json THEN render_json(verify_one(log))
                                 ELSE render_table(verify_one(log), allow),
                      touched |-> edits > 0]
    BY <1>5, Zenon DEF Verify
  <2>2. log.st \in {"none", "torn", "whole"}
    BY DEF ChainInv, LogFiles
  <2>3. PICK v : v = verify_one(log)
    OBVIOUS
  <2>4. edits = 0 => v \in {"nothing", "invalid_json", "ok"}
    <3>1. CASE log.st = "none"
      BY <2>3, <3>1 DEF verify_one
    <3>2. CASE log.st = "torn"
      BY <2>3, <3>2 DEF verify_one
    <3>3. CASE log.st = "whole"
      <4>1. verify_one(log) = verify_session(log)
        BY <3>3 DEF verify_one
      <4>2. edits = 0 => verify_session(log) = "ok"
        BY <3>3, StampVerifies, Zenon DEF ChainInv
      <4> QED
        BY <2>3, <4>1, <4>2
    <3> QED
      BY <2>2, <3>1, <3>2, <3>3
  <2>5. v \in {"nothing", "ok"} => render_json(v) = 0 /\ render_table(v, allow) = 0
    BY DEF render_json, render_table
  <2>6. report' = [status |-> v, exit |-> IF json THEN render_json(v) ELSE render_table(v, allow),
                   touched |-> edits > 0]
    BY <2>1, <2>3, Zenon
  <2>7. /\ report'.status = v
        /\ report'.exit = IF json THEN render_json(v) ELSE render_table(v, allow)
        /\ report'.touched = (edits > 0)
    BY <2>6
  <2>8. edits \in Nat
    BY DEF ChainInv
  <2>9. ~report'.touched => edits = 0
    <3>1. ~report'.touched => ~(edits > 0)
      BY <2>7, Zenon
    <3>2. ~(edits > 0) => edits = 0
      BY <2>8
    <3> QED
      BY <3>1, <3>2, Zenon
  <2>10. ~report'.touched /\ report'.status # "invalid_json" => report'.exit = 0
    BY <2>4, <2>5, <2>7, <2>9
  <2> QED
    BY <2>1, <2>10 DEF ChainInv
<1>6. CASE UNCHANGED chainVars
  BY <1>6 DEF chainVars, ChainInv
<1> QED
  BY <1>1, <1>2, <1>3, <1>4, <1>5, <1>6 DEF ChainNext

\* A session log that verifies against its tip tells what the session wrote, however
\* many entries were changed, dropped, repeated or hashed anew since, and a log
\* nobody touched verifies (verify_chain, stamp_session_chain), for any session.
THEOREM DamageIsAlwaysNoticed == ChainSpec => []DamageIsNoticed
<1>1. ChainInv => DamageIsNoticed
  <2> SUFFICES ASSUME ChainInv PROVE DamageIsNoticed
    OBVIOUS
  <2>1. ASSUME log.st = "whole", log.tip # {}, verify_session(log) = "ok"
        PROVE  Whats(log.entries) = written
    <3>1. log.tip = {written} /\ log.entries \in Seq(LogEntry)
      BY <2>1 DEF ChainInv, LogFiles
    <3>2. verify_chain(log.entries, {written}) = "ok"
      BY <2>1, <3>1, Zenon DEF verify_session
    <3> QED
      BY <3>1, <3>2, VerifiedTells, Zenon
  <2>2. ASSUME log.st = "whole", edits = 0 PROVE verify_session(log) = "ok"
    BY <2>2, StampVerifies, Zenon DEF ChainInv
  <2>3. ~report.touched /\ report.status # "invalid_json" => report.exit = 0
    BY DEF ChainInv
  <2> QED
    BY <2>1, <2>2, <2>3, Zenon DEF DamageIsNoticed
<1> QED
  BY <1>1, ChainStarts, ChainKept, PTL DEF ChainSpec

-----------------------------------------------------------------------------
(* The listings                                                            *)
(*                                                                         *)
(* The argument: an event that was on disk when the listing began is in a  *)
(* directory still to be entered, in a log still to be read, in one that   *)
(* was read, or in what was put together; a log that is whole again still  *)
(* has it, and one caught torn is noted.  And no log says what its session *)
(* has not seen.                                                           *)

ReportSpec == ReportInit /\ [][ReportNext]_reportVars

ScanFields == {"phase", "hosts", "host", "todo", "logs", "byId", "atStart", "torn"}

\* what sessions saw, and what their logs say
TellInv ==
    /\ DOMAIN told = Sitting /\ DOMAIN onFile = Sitting
    /\ \A c \in Sitting : \A v \in told[c] :
          v.by = c /\ (v.kind = "alert" => v.name \in AlertName)
    /\ \A c \in Sitting : onFile[c].events \subseteq told[c] /\ onFile[c].st \in {"none", "torn", "whole"}
\* no more than was seen is gathered
Honest(byId, logs) ==
    /\ \A e \in Case : \A v \in byId[e].events :
          byId[e].found /\ CaseOf[v.by] = e /\ v.by \in Sitting /\ v \in told[v.by]
    /\ \A l \in logs : l.by \in Sitting /\ l.events \subseteq told[l.by]
\* where an event of the beginning is by now
Whereabouts(v, ph, hosts, todo, logs, byId) ==
    \/ HostOf[v.by] \in hosts
    \/ ph = "logs" /\ (v.by \in todo \/ \E l \in logs : l.by = v.by /\ v \in l.events)
    \/ v \in byId[CaseOf[v.by]].events
Lasting(v) ==
    /\ v.by \in Sitting /\ v \in told[v.by] /\ onFile[v.by].st # "none"
    /\ onFile[v.by].st = "whole" => v \in onFile[v.by].events
ScanInv ==
    /\ DOMAIN scan = ScanFields /\ scan.torn \in BOOLEAN
    /\ DOMAIN scan.byId = Case
    /\ Honest(scan.byId, scan.logs)
    /\ scan.phase = "done" => scan.hosts = {}
    /\ \A v \in scan.atStart : Lasting(v)
    /\ ~scan.torn => \A v \in scan.atStart :
          Whereabouts(v, scan.phase, scan.hosts, scan.todo, scan.logs, scan.byId)
ListingInv == TellInv /\ ScanInv

\* The worst severity of a set of alerts is at least as bad as each.
LEMMA WorstIsWorst ==
    ASSUME NEW E, \A v \in Alerts(E) : v.name \in AlertName, NEW u \in Alerts(E)
    PROVE  /\ SevRank[Worst(E)] <= SevRank[SevOf[u.name]]
           /\ SevOf[u.name] \in Severity /\ Worst(E) \in Severity
<1> DEFINE Least(s) == /\ \E v \in Alerts(E) : SevOf[v.name] = s
                       /\ \A v \in Alerts(E) : SevRank[s] <= SevRank[SevOf[v.name]]
<1>1. SevRank["critical"] = 0 /\ SevRank["high"] = 1 /\ SevRank["medium"] = 2 /\ SevRank["info"] = 3
  BY DEF SevRank
<1>2. \A v \in Alerts(E) : SevOf[v.name] \in Severity
  BY SeverityAssumption
<1>3. \E s \in Severity : Least(s)
  <2>1. CASE \E v \in Alerts(E) : SevOf[v.name] = "critical"
    <3>1. Least("critical")
      BY <1>1, <1>2, <2>1 DEF Severity
    <3> QED
      BY <3>1 DEF Severity
  <2>2. CASE /\ ~\E v \in Alerts(E) : SevOf[v.name] = "critical"
             /\ \E v \in Alerts(E) : SevOf[v.name] = "high"
    <3>1. Least("high")
      BY <1>1, <1>2, <2>2 DEF Severity
    <3> QED
      BY <3>1 DEF Severity
  <2>3. CASE /\ ~\E v \in Alerts(E) : SevOf[v.name] \in {"critical", "high"}
             /\ \E v \in Alerts(E) : SevOf[v.name] = "medium"
    <3>1. Least("medium")
      BY <1>1, <1>2, <2>3 DEF Severity
    <3> QED
      BY <3>1 DEF Severity
  <2>4. CASE ~\E v \in Alerts(E) : SevOf[v.name] \in {"critical", "high", "medium"}
    <3>1. Least("info")
      BY <1>1, <1>2, <2>4 DEF Severity
    <3> QED
      BY <3>1 DEF Severity
  <2> QED
    BY <2>1, <2>2, <2>3, <2>4
<1>4. Worst(E) = CHOOSE s \in Severity : Least(s)
  BY Zenon DEF Worst
<1> HIDE DEF Least
<1>5. Least(Worst(E)) /\ Worst(E) \in Severity
  BY <1>3, <1>4, Zenon
<1> USE DEF Least
<1> QED
  BY <1>2, <1>5

LEMMA ListingStarts == ReportInit => ListingInv
<1> SUFFICES ASSUME ReportInit PROVE ListingInv
  OBVIOUS
<1>1. TellInv
  BY DEF ReportInit, TellInv, NoLog
<1>2. /\ DOMAIN scan = ScanFields /\ scan.torn = FALSE /\ scan.atStart = {} /\ scan.logs = {}
      /\ scan.phase = "idle"
  BY DEF ReportInit, NoScan, ScanFields
<1>3. scan.byId = [e \in Case |-> Absent]
  BY DEF ReportInit, NoScan
<1>4. DOMAIN scan.byId = Case /\ \A e \in Case : scan.byId[e].events = {}
  BY <1>3 DEF Absent
<1>5. Honest(scan.byId, scan.logs)
  BY <1>2, <1>4 DEF Honest
<1> QED
  BY <1>1, <1>2, <1>4, <1>5 DEF ListingInv, ScanInv

\* Sessions and their logs: what was gathered stays honest as they go on, and what
\* was on disk at the beginning stays or is on its way back.
LEMMA WritersKept ==
    ASSUME ListingInv, scan' = scan, TellInv',
           \A c \in Sitting : told[c] \subseteq told'[c],
           \A c \in Sitting : /\ onFile[c].st # "none" => onFile'[c].st # "none"
                              /\ onFile'[c] = onFile[c] \/ onFile'[c].st = "torn" \/ onFile'[c].events = told'[c]
    PROVE  ListingInv'
<1>1. ASSUME NEW v \in scan.atStart PROVE Lasting(v)'
  <2>1. v.by \in Sitting /\ v \in told[v.by] /\ onFile[v.by].st # "none"
        /\ (onFile[v.by].st = "whole" => v \in onFile[v.by].events)
    BY DEF ListingInv, ScanInv, Lasting
  <2> QED
    BY <2>1 DEF Lasting
<1>2. Honest(scan.byId, scan.logs)'
  BY DEF ListingInv, ScanInv, Honest
<1>3. ~scan.torn => \A v \in scan.atStart :
          Whereabouts(v, scan.phase, scan.hosts, scan.todo, scan.logs, scan.byId)
  BY DEF ListingInv, ScanInv
<1>4. ScanInv'
  BY <1>1, <1>2, <1>3 DEF ListingInv, ScanInv, Whereabouts
<1> QED
  BY <1>4 DEF ListingInv

LEMMA CommandKept ==
    ASSUME ListingInv, NEW c \in Sitting, Command(c) PROVE ListingInv'
<1>1. PICK a \in CanRaise[c] \cup {"-"} :
          told' = [told EXCEPT ![c] = @ \cup {Event(c, "command", "-")}
                     \cup (IF a = "-" THEN {} ELSE {Event(c, "alert", a)})]
  BY Zenon DEF Command
<1>2. onFile' = onFile /\ scan' = scan
  BY DEF Command
<1>3. PICK new : new = {Event(c, "command", "-")} \cup (IF a = "-" THEN {} ELSE {Event(c, "alert", a)})
  OBVIOUS
<1>4. \A v \in new : v.by = c /\ (v.kind = "alert" => v.name \in AlertName)
  BY <1>1, <1>3, SeverityAssumption DEF Event
<1>5. told' = [told EXCEPT ![c] = told[c] \cup new]
  BY <1>1, <1>3
<1>6. TellInv
  BY DEF ListingInv
<1>7. /\ DOMAIN told' = Sitting
      /\ \A d \in Sitting : told'[d] = IF d = c THEN told[d] \cup new ELSE told[d]
  BY <1>5, <1>6 DEF TellInv
<1>8. TellInv'
  BY <1>2, <1>4, <1>6, <1>7 DEF TellInv
<1>9. \A d \in Sitting : told[d] \subseteq told'[d]
  BY <1>7
<1> QED
  BY <1>2, <1>8, <1>9, WritersKept

LEMMA LogsKept ==
    ASSUME ListingInv, NEW c \in Sitting, OpenLog(c) \/ CloseLog(c) PROVE ListingInv'
<1>1. PICK f : /\ onFile' = [onFile EXCEPT ![c] = f]
               /\ f.events \subseteq told[c] /\ f.st \in {"torn", "whole"}
               /\ f.st = "torn" \/ f.events = told[c]
  <2>1. CASE OpenLog(c)
    <3>1. onFile' = [onFile EXCEPT ![c] = [st |-> "torn", events |-> {}]]
      BY <2>1 DEF OpenLog
    <3>2. PICK f : f = [st |-> "torn", events |-> {}]
      OBVIOUS
    <3>3. f.events = {} /\ f.st = "torn"
      BY <3>2
    <3> QED
      BY <3>1, <3>2, <3>3
  <2>2. CASE CloseLog(c)
    <3>1. onFile' = [onFile EXCEPT ![c] = [st |-> "whole", events |-> told[c]]]
      BY <2>2 DEF CloseLog
    <3>2. PICK f : f = [st |-> "whole", events |-> told[c]]
      OBVIOUS
    <3>3. f.events = told[c] /\ f.st = "whole"
      BY <3>2
    <3> QED
      BY <3>1, <3>2, <3>3
  <2> QED
    BY <2>1, <2>2
<1>2. told' = told /\ scan' = scan
  BY DEF OpenLog, CloseLog
<1>3. TellInv
  BY DEF ListingInv
<1>4. DOMAIN onFile' = Sitting /\ \A d \in Sitting : onFile'[d] = IF d = c THEN f ELSE onFile[d]
  BY <1>1, <1>3 DEF TellInv
<1>5. TellInv'
  BY <1>1, <1>2, <1>3, <1>4 DEF TellInv
<1> QED
  BY <1>1, <1>2, <1>4, <1>5, WritersKept

\* The reader's steps leave sessions and logs alone.
LEMMA ReadersKept ==
    ASSUME ListingInv, told' = told, onFile' = onFile, ScanInv' PROVE ListingInv'
BY DEF ListingInv, TellInv

LEMMA BeginKept == ASSUME ListingInv, BeginScan PROVE ListingInv'
<1>1. told' = told /\ onFile' = onFile /\ scan' = [NoScan EXCEPT !.phase = "host", !.hosts = Host, !.atStart = OnDisk]
  BY DEF BeginScan
<1>2. /\ DOMAIN scan' = ScanFields /\ scan'.torn = FALSE /\ scan'.atStart = OnDisk /\ scan'.logs = {}
      /\ scan'.phase = "host" /\ scan'.hosts = Host
  BY <1>1 DEF NoScan, ScanFields
<1>3. scan'.byId = [e \in Case |-> Absent]
  BY <1>1 DEF NoScan
<1>4. DOMAIN scan'.byId = Case /\ \A e \in Case : scan'.byId[e].events = {}
  BY <1>3 DEF Absent
<1>5. Honest(scan.byId, scan.logs)'
  BY <1>2, <1>4 DEF Honest
<1>6. ASSUME NEW v \in OnDisk PROVE Lasting(v)' /\ HostOf[v.by] \in Host
  <2>1. PICK c \in Sitting : onFile[c].st = "whole" /\ v \in onFile[c].events
    BY DEF OnDisk
  <2>2. v \in told[c] /\ v.by = c
    BY <2>1 DEF ListingInv, TellInv
  <2> QED
    BY <1>1, <2>1, <2>2 DEF Lasting, Host
<1>7. ScanInv'
  BY <1>2, <1>4, <1>5, <1>6 DEF ScanInv, Whereabouts
<1> QED
  BY <1>1, <1>7, ReadersKept

LEMMA EnterKept == ASSUME ListingInv, NEW h \in Host, EnterHost(h) PROVE ListingInv'
<1>1. /\ told' = told /\ onFile' = onFile /\ scan.phase = "host"
      /\ scan' = [scan EXCEPT !.phase = "logs", !.hosts = @ \ {h}, !.host = h, !.logs = {},
                    !.todo = {c \in Sitting : HostOf[c] = h /\ onFile[c].st # "none"}]
  BY DEF EnterHost
<1>2. DOMAIN scan = ScanFields
  BY DEF ListingInv, ScanInv
<1>3. /\ DOMAIN scan' = ScanFields /\ scan'.phase = "logs" /\ scan'.hosts = scan.hosts \ {h}
      /\ scan'.logs = {} /\ scan'.todo = {c \in Sitting : HostOf[c] = h /\ onFile[c].st # "none"}
      /\ scan'.byId = scan.byId /\ scan'.atStart = scan.atStart /\ scan'.torn = scan.torn
  BY <1>1, <1>2 DEF ScanFields
<1>4. Honest(scan.byId, scan.logs)'
  BY <1>1, <1>3 DEF ListingInv, ScanInv, Honest
<1>5. \A v \in scan.atStart : Lasting(v) /\ Lasting(v)'
  BY <1>1 DEF ListingInv, ScanInv, Lasting
<1>6. ASSUME ~scan.torn, NEW v \in scan.atStart
      PROVE  Whereabouts(v, "logs", scan'.hosts, scan'.todo, scan'.logs, scan.byId)
  <2>1. HostOf[v.by] \in scan.hosts \/ v \in scan.byId[CaseOf[v.by]].events
    BY <1>1, <1>6 DEF ListingInv, ScanInv, Whereabouts
  <2>2. HostOf[v.by] = h => v.by \in scan'.todo
    BY <1>3, <1>5 DEF Lasting
  <2> QED
    BY <1>3, <2>1, <2>2 DEF Whereabouts
<1>7. ScanInv'
  BY <1>1, <1>3, <1>4, <1>5, <1>6 DEF ListingInv, ScanInv
<1> QED
  BY <1>1, <1>7, ReadersKept

LEMMA ReadKept == ASSUME ListingInv, NEW c \in Sitting, ReadLog(c) PROVE ListingInv'
<1>1. /\ told' = told /\ onFile' = onFile /\ scan.phase = "logs" /\ c \in scan.todo
      /\ scan' = [scan EXCEPT !.todo = @ \ {c},
                  !.logs = IF onFile[c].st = "whole" THEN @ \cup {[by |-> c, events |-> onFile[c].events]}
                           ELSE @,
                  !.torn = @ \/ onFile[c].st = "torn"]
  BY DEF ReadLog
<1>2. DOMAIN scan = ScanFields /\ scan.torn \in BOOLEAN
  BY DEF ListingInv, ScanInv
<1>3. PICK l : l = [by |-> c, events |-> onFile[c].events]
  OBVIOUS
<1>4. l.by = c /\ l.events = onFile[c].events
  BY <1>3
<1>5. PICK t : t = (scan.torn \/ onFile[c].st = "torn")
  OBVIOUS
<1>6. t \in BOOLEAN /\ (~t => ~scan.torn /\ onFile[c].st # "torn")
  BY <1>2, <1>5
<1>7. scan' = [scan EXCEPT !.todo = @ \ {c}, !.logs = IF onFile[c].st = "whole" THEN @ \cup {l} ELSE @, !.torn = t]
  BY <1>1, <1>3, <1>5, Zenon
<1>8. /\ DOMAIN scan' = ScanFields /\ scan'.phase = "logs" /\ scan'.hosts = scan.hosts
      /\ scan'.logs = (IF onFile[c].st = "whole" THEN scan.logs \cup {l} ELSE scan.logs)
      /\ scan'.todo = scan.todo \ {c}
      /\ scan'.byId = scan.byId /\ scan'.atStart = scan.atStart /\ scan'.torn = t
  BY <1>1, <1>2, <1>7 DEF ScanFields
<1>9. Honest(scan.byId, scan.logs)'
  BY <1>1, <1>4, <1>8 DEF ListingInv, TellInv, ScanInv, Honest
<1>10. \A v \in scan.atStart : Lasting(v) /\ Lasting(v)'
  BY <1>1 DEF ListingInv, ScanInv, Lasting
<1>11. ASSUME ~t, NEW v \in scan.atStart
       PROVE  Whereabouts(v, "logs", scan'.hosts, scan'.todo, scan'.logs, scan.byId)
  <2>1. Whereabouts(v, "logs", scan.hosts, scan.todo, scan.logs, scan.byId)
    BY <1>1, <1>6, <1>11 DEF ListingInv, ScanInv
  <2>2. scan.logs \subseteq scan'.logs
    BY <1>8
  <2>3. ASSUME v.by = c PROVE v \in l.events /\ l \in scan'.logs
    <3>1. onFile[c].st = "whole" => v \in onFile[c].events
      BY <1>10, <2>3 DEF Lasting
    <3>2. onFile[c].st \in {"none", "torn", "whole"}
      BY DEF ListingInv, TellInv
    <3>3. onFile[c].st = "whole"
      BY <1>6, <1>10, <1>11, <2>3, <3>2 DEF Lasting
    <3> QED
      BY <1>4, <1>8, <3>1, <3>3
  <2> QED
    BY <1>4, <1>8, <2>1, <2>2, <2>3 DEF Whereabouts
<1>12. ScanInv'
  BY <1>6, <1>8, <1>9, <1>10, <1>11 DEF ListingInv, ScanInv
<1> QED
  BY <1>1, <1>12, ReadersKept

LEMMA LeaveKept == ASSUME ListingInv, LeaveHost PROVE ListingInv'
<1>1. PICK by2 : by2 = [e \in Case |->
              IF LogsOf(e) = {} THEN scan.byId[e]
              ELSE MergeLogs(scan.byId[e], [found |-> TRUE, events |-> UNION {l.events : l \in LogsOf(e)}])]
  OBVIOUS
<1>2. /\ told' = told /\ onFile' = onFile /\ scan.phase = "logs" /\ scan.todo = {}
      /\ scan' = [scan EXCEPT !.byId = by2, !.phase = IF scan.hosts = {} THEN "done" ELSE "host"]
  BY <1>1 DEF LeaveHost
<1>3. DOMAIN scan = ScanFields
  BY DEF ListingInv, ScanInv
<1>4. /\ DOMAIN scan' = ScanFields /\ scan'.hosts = scan.hosts /\ scan'.logs = scan.logs
      /\ scan'.todo = scan.todo /\ scan'.byId = by2 /\ scan'.atStart = scan.atStart /\ scan'.torn = scan.torn
      /\ scan'.phase = IF scan.hosts = {} THEN "done" ELSE "host"
  BY <1>2, <1>3 DEF ScanFields
<1>5. ASSUME NEW e \in Case
      PROVE  /\ scan.byId[e].events \subseteq by2[e].events
             /\ \A l \in scan.logs : CaseOf[l.by] = e => l.events \subseteq by2[e].events
             /\ \A v \in by2[e].events : \/ v \in scan.byId[e].events /\ by2[e] = scan.byId[e]
                                         \/ /\ by2[e].found
                                            /\ \/ v \in scan.byId[e].events
                                               \/ \E l \in scan.logs : CaseOf[l.by] = e /\ v \in l.events
  <2>1. CASE LogsOf(e) = {}
    <3>1. by2[e] = scan.byId[e]
      BY <1>1, <2>1
    <3>2. ~\E l \in scan.logs : CaseOf[l.by] = e
      BY <2>1 DEF LogsOf
    <3> QED
      BY <3>1, <3>2
  <2>2. CASE LogsOf(e) # {}
    <3>1. PICK all : all = UNION {l.events : l \in LogsOf(e)}
      OBVIOUS
    <3>2. PICK new : new = [found |-> TRUE, events |-> all]
      OBVIOUS
    <3>3. by2[e] = MergeLogs(scan.byId[e], new)
      BY <1>1, <2>2, <3>1, <3>2, Zenon
    <3>4. by2[e].found = TRUE /\ by2[e].events = scan.byId[e].events \cup all
      BY <3>2, <3>3 DEF MergeLogs
    <3>5. \A v : v \in all <=> \E l \in scan.logs : CaseOf[l.by] = e /\ v \in l.events
      BY <3>1 DEF LogsOf
    <3> QED
      BY <3>4, <3>5
  <2> QED
    BY <2>1, <2>2
<1>6. Honest(by2, scan.logs)
  <2>1. Honest(scan.byId, scan.logs)
    BY DEF ListingInv, ScanInv
  <2>2. \A l \in scan.logs : l.by \in Sitting /\ l.events \subseteq told[l.by]
    BY <2>1 DEF Honest
  <2>3. \A c \in Sitting : \A v \in told[c] : v.by = c
    BY DEF ListingInv, TellInv
  <2>4. ASSUME NEW e \in Case, NEW v \in by2[e].events
        PROVE  by2[e].found /\ CaseOf[v.by] = e /\ v.by \in Sitting /\ v \in told[v.by]
    <3>1. v \in scan.byId[e].events => scan.byId[e].found /\ CaseOf[v.by] = e /\ v.by \in Sitting /\ v \in told[v.by]
      BY <2>1 DEF Honest
    <3>2. ASSUME NEW l \in scan.logs, CaseOf[l.by] = e, v \in l.events
          PROVE  CaseOf[v.by] = e /\ v.by \in Sitting /\ v \in told[v.by]
      BY <2>2, <2>3, <3>2
    <3> QED
      BY <1>5, <3>1, <3>2
  <2> QED
    BY <2>2, <2>4 DEF Honest
<1>7. Honest(scan.byId, scan.logs)'
  BY <1>2, <1>4, <1>6 DEF Honest
<1>8. \A v \in scan.atStart : Lasting(v) /\ Lasting(v)'
  BY <1>2 DEF ListingInv, ScanInv, Lasting
<1>9. ASSUME ~scan.torn, NEW v \in scan.atStart
      PROVE  HostOf[v.by] \in scan.hosts \/ v \in by2[CaseOf[v.by]].events
  <2>1. \/ HostOf[v.by] \in scan.hosts
        \/ \E l \in scan.logs : l.by = v.by /\ v \in l.events
        \/ v \in scan.byId[CaseOf[v.by]].events
    BY <1>2, <1>9 DEF ListingInv, ScanInv, Whereabouts
  <2>2. CaseOf[v.by] \in Case
    BY <1>8 DEF Lasting, Case
  <2> QED
    BY <1>5, <2>1, <2>2
<1>10. DOMAIN by2 = Case
  BY <1>1
<1>11. ScanInv'
  BY <1>4, <1>7, <1>8, <1>9, <1>10 DEF ListingInv, ScanInv, Whereabouts
<1> QED
  BY <1>2, <1>11, ReadersKept

LEMMA EndKept == ASSUME ListingInv, EndScan PROVE ListingInv'
<1>1. told' = told /\ onFile' = onFile /\ scan' = NoScan
  BY DEF EndScan
<1>2. /\ DOMAIN scan' = ScanFields /\ scan'.torn = FALSE /\ scan'.atStart = {} /\ scan'.logs = {}
      /\ scan'.phase = "idle"
  BY <1>1 DEF NoScan, ScanFields
<1>3. scan'.byId = [e \in Case |-> Absent]
  BY <1>1 DEF NoScan
<1>4. DOMAIN scan'.byId = Case /\ \A e \in Case : scan'.byId[e].events = {}
  BY <1>3 DEF Absent
<1>5. Honest(scan.byId, scan.logs)'
  BY <1>2, <1>4 DEF Honest
<1>6. ScanInv'
  BY <1>2, <1>4, <1>5 DEF ScanInv
<1> QED
  BY <1>1, <1>6, ReadersKept

LEMMA ListingKept == ListingInv /\ [ReportNext]_reportVars => ListingInv'
<1> SUFFICES ASSUME ListingInv, [ReportNext]_reportVars PROVE ListingInv'
  OBVIOUS
<1>1. CASE Passes \/ UNCHANGED reportVars
  BY <1>1 DEF Passes, reportVars, ListingInv, TellInv, ScanInv, Honest, Lasting, Whereabouts
<1> QED
  BY <1>1, BeginKept, LeaveKept, EndKept, CommandKept, LogsKept, ReadKept, EnterKept DEF ReportNext

\* A listing taken while sessions keep writing tells every alert that was on disk
\* when it began and none that no session raised, and lists every engagement of an
\* alert it lists, unless a log was caught in the middle of being rewritten
\* (_load_all_engagements, load_engagements), for any hosts, sessions and alerts.
THEOREM ListingIsAlwaysWhole == ReportSpec => []ListingIsWhole
<1>1. ListingInv => ListingIsWhole
  <2> SUFFICES ASSUME ListingInv, scan.phase = "done" PROVE ListingIsWhole
    BY DEF ListingIsWhole
  <2>1. \A e \in Case : \A v \in scan.byId[e].events :
            scan.byId[e].found /\ CaseOf[v.by] = e /\ v.by \in Sitting /\ v \in told[v.by]
    BY DEF ListingInv, ScanInv, Honest
  <2>2. \A c \in Sitting : \A v \in told[c] : v.by = c /\ (v.kind = "alert" => v.name \in AlertName)
    BY DEF ListingInv, TellInv
  <2>3. ASSUME NEW e \in Case, NEW v \in Alerts(scan.byId[e].events)
        PROVE  /\ v \in scan.byId[e].events /\ v.by \in Sitting /\ v \in told[v.by] /\ CaseOf[v.by] = e
               /\ SevRank[Worst(scan.byId[e].events)] <= SevRank[SevOf[v.name]]
               /\ SevOf[v.name] \in Severity /\ Worst(scan.byId[e].events) \in Severity
    <3>1. \A u \in Alerts(scan.byId[e].events) : u \in scan.byId[e].events /\ u.kind = "alert"
      BY DEF Alerts
    <3>2. \A u \in Alerts(scan.byId[e].events) : u.name \in AlertName
      BY <2>1, <2>2, <3>1
    <3> QED
      BY <2>1, <3>1, <3>2, WorstIsWorst, Zenon
  <2>4. \A want : AlertsFound(want) \subseteq UNION {told[c] : c \in Sitting}
    BY <2>3 DEF AlertsFound
  <2>5. ASSUME ~scan.torn, NEW want \in Severity, NEW v \in Alerts(scan.atStart),
               SevRank[SevOf[v.name]] <= SevRank[want]
        PROVE  v \in AlertsFound(want)
    <3>1. v \in scan.atStart /\ v.kind = "alert"
      BY DEF Alerts
    <3>2. v.by \in Sitting
      BY <3>1 DEF ListingInv, ScanInv, Lasting
    <3>3. PICK e \in Case : e = CaseOf[v.by]
      BY <3>2 DEF Case
    <3>4. v \in scan.byId[e].events
      BY <2>5, <3>1, <3>3 DEF ListingInv, ScanInv, Whereabouts
    <3>5. v \in Alerts(scan.byId[e].events)
      BY <3>1, <3>4 DEF Alerts
    <3> QED
      BY <2>5, <3>5 DEF AlertsFound
  <2>6. ASSUME NEW s \in Severity, NEW v \in AlertsFound(s) PROVE CaseOf[v.by] \in EngagementsFound(s)
    <3>1. PICK e \in Case : v \in Alerts(scan.byId[e].events) /\ SevRank[SevOf[v.name]] <= SevRank[s]
      BY DEF AlertsFound
    <3>2. CaseOf[v.by] = e /\ scan.byId[e].found
      BY <2>1, <2>3, <3>1
    <3>3. PICK w : w = SevRank[Worst(scan.byId[e].events)]
      OBVIOUS
    <3>4. w <= SevRank[SevOf[v.name]] /\ SevOf[v.name] \in Severity /\ Worst(scan.byId[e].events) \in Severity
      BY <2>3, <3>1, <3>3, Zenon
    <3>5. \A z \in Severity : SevRank[z] \in Nat
      BY DEF Severity, SevRank
    <3> w \in Nat /\ SevRank[SevOf[v.name]] \in Nat /\ SevRank[s] \in Nat
      BY <3>3, <3>4, <3>5, Zenon
    <3>6. w <= SevRank[s]
      BY <3>1, <3>4, <3>5
    <3> QED
      BY <3>2, <3>3, <3>6, Zenon DEF EngagementsFound
  <2>7. SUFFICES ASSUME NEW want \in Severity, NEW limit \in Limit, NEW page \in ListAlerts(want, limit)
        PROVE  /\ page \subseteq UNION {told[c] : c \in Sitting}
               /\ ~scan.torn =>
                     /\ Cardinality(AlertsFound(want)) <= limit =>
                           {v \in Alerts(scan.atStart) : SevRank[SevOf[v.name]] <= SevRank[want]} \subseteq page
                     /\ Cardinality(EngagementsFound(want)) <= limit =>
                           \A list \in ListEngagements(want, limit) : \A v \in page : CaseOf[v.by] \in list
    BY Zenon DEF ListingIsWhole
  <2>8. page \subseteq AlertsFound(want) /\ (Cardinality(AlertsFound(want)) <= limit => page = AlertsFound(want))
    BY DEF ListAlerts, Pages
  <2>9. Cardinality(EngagementsFound(want)) <= limit =>
            \A list \in ListEngagements(want, limit) : list = EngagementsFound(want)
    BY DEF ListEngagements, Pages
  <2>10. page \subseteq UNION {told[c] : c \in Sitting}
    BY <2>4, <2>8
  <2>11. ASSUME ~scan.torn, Cardinality(AlertsFound(want)) <= limit
         PROVE  {v \in Alerts(scan.atStart) : SevRank[SevOf[v.name]] <= SevRank[want]} \subseteq page
    BY <2>5, <2>8, <2>11
  <2>12. ASSUME Cardinality(EngagementsFound(want)) <= limit,
                NEW list \in ListEngagements(want, limit), NEW v \in page
         PROVE  CaseOf[v.by] \in list
    BY <2>6, <2>8, <2>9, <2>12
  <2> QED
    BY <2>10, <2>11, <2>12
<1> QED
  BY <1>1, ListingStarts, ListingKept, PTL DEF ReportSpec

-----------------------------------------------------------------------------
(* The charts                                                              *)
(*                                                                         *)
(* The argument: every alert of a window is in one bucket, under one name  *)
(* and there in one bucket of its sparkline, and in one cell of one host;  *)
(* the counts of the parts of a finite set add up to its own, whatever the *)
(* order they are added in.  The top list is an order of the names, and    *)
(* has them all: a finite set can be listed in any total order.            *)

\* Of some subsets of a finite set, one holds no other.
LEMMA SmallestSubset ==
    ASSUME NEW I, IsFiniteSet(I), NEW B \in SUBSET (SUBSET I), B # {}
    PROVE  \E m \in B : \A t \in B : t \subseteq m => t = m
<1>1. B \subseteq FiniteSubsetsOf(I)
  BY FS_Subset DEF FiniteSubsetsOf
<1>2. PICK m \in B : \A t \in B : ~(<<t, m>> \in StrictSubsetOrdering(I))
  BY <1>1, FS_StrictSubsetOrderingWellFounded, WFMin
<1> QED
  BY <1>2 DEF StrictSubsetOrdering

\* An iteration that adds up f over the subsets of I, as SumFunction does.
Adds(f, I, it) ==
    it = [s \in SUBSET I |->
             IF s = {} THEN 0
             ELSE f[CHOOSE x \in s : TRUE] + it[s \ {CHOOSE x \in s : TRUE}]]

LEMMA SumIsAdded ==
    ASSUME NEW f, NEW I, I = DOMAIN f
    PROVE  SumFunction(f) = (CHOOSE it : Adds(f, I, it))[I]
BY Zenon DEF SumFunction, SumFunctionOnSet, FoldFunctionOnSet, MapThenFoldSet, Adds

\* The counts of the parts of a finite set add up to its own.
LEMMA PartsAddUp ==
    ASSUME NEW I, IsFiniteSet(I), NEW E, IsFiniteSet(E), NEW key \in [E -> I],
           NEW f, f = [i \in I |-> Cardinality({v \in E : key[v] = i})]
    PROVE  SumFunction(f) = Cardinality(E)
<1> DEFINE Part(s) == {v \in E : key[v] \in s}
           One(s)  == CHOOSE x \in s : TRUE
           w == [s \in SUBSET I |-> Cardinality(Part(s))]
<1>1. \A s : IsFiniteSet(Part(s)) /\ Cardinality(Part(s)) \in Nat
  <2> TAKE s
  <2>1. Part(s) \in SUBSET E
    OBVIOUS
  <2> QED
    BY <2>1, FS_Subset, FS_CardinalityType
<1>2. ASSUME NEW s \in SUBSET I, s # {}
      PROVE  /\ One(s) \in s /\ s \ {One(s)} \in SUBSET I
             /\ w[s] = f[One(s)] + w[s \ {One(s)}]
  <2>1. One(s) \in s
    BY <1>2
  <2>2. PICK x : x = One(s)
    OBVIOUS
  <2>3. /\ Part(s) = Part(s \ {x}) \cup Part({x})
        /\ Part(s \ {x}) \cap Part({x}) = {}
    BY <2>1, <2>2
  <2>4. Cardinality(Part(s)) = Cardinality(Part(s \ {x})) + Cardinality(Part({x}))
    <3> HIDE DEF Part
    <3>1. Cardinality(Part(s \ {x}) \cup Part({x}))
            = Cardinality(Part(s \ {x})) + Cardinality(Part({x})) - Cardinality(Part(s \ {x}) \cap Part({x}))
      BY <1>1, FS_Union
    <3>2. Cardinality(Part(s \ {x}) \cap Part({x})) = 0
      BY <2>3, FS_EmptySet
    <3>3. Cardinality(Part(s)) = Cardinality(Part(s \ {x}) \cup Part({x}))
      BY <2>3, Zenon
    <3>4. Cardinality(Part(s \ {x})) \in Nat /\ Cardinality(Part({x})) \in Nat
      BY <1>1, Zenon
    <3> QED
      BY <3>1, <3>2, <3>3, <3>4
  <2>5. Part({x}) = {v \in E : key[v] = x}
    OBVIOUS
  <2>6. f[x] = Cardinality(Part({x}))
    BY <2>1, <2>2, <2>5
  <2>7. w[s] = Cardinality(Part(s)) /\ w[s \ {x}] = Cardinality(Part(s \ {x}))
    OBVIOUS
  <2> HIDE DEF w, Part, One
  <2> QED
    BY <1>1, <2>1, <2>2, <2>4, <2>6, <2>7
<1>3. w[{}] = 0
  <2>1. Part({}) = {}
    OBVIOUS
  <2> QED
    BY <2>1, FS_EmptySet
<1>4. Adds(f, I, w)
  <2>1. \A s \in SUBSET I : w[s] = IF s = {} THEN 0 ELSE f[One(s)] + w[s \ {One(s)}]
    BY <1>2, <1>3
  <2>2. w = [s \in SUBSET I |-> w[s]]
    OBVIOUS
  <2> HIDE DEF w
  <2>3. w = [s \in SUBSET I |-> IF s = {} THEN 0 ELSE f[One(s)] + w[s \ {One(s)}]]
    BY <2>1, <2>2
  <2> QED
    BY <2>3, Zenon DEF Adds
<1>5. PICK it : it = CHOOSE g : Adds(f, I, g)
  OBVIOUS
<1>6. Adds(f, I, it)
  BY <1>4, <1>5, Zenon
<1>7. it = [s \in SUBSET I |-> IF s = {} THEN 0 ELSE f[One(s)] + it[s \ {One(s)}]]
  BY <1>6, Zenon DEF Adds
<1>8. \A s \in SUBSET I : it[s] = w[s]
  <2> DEFINE Bad == {s \in SUBSET I : it[s] # w[s]}
  <2>1. SUFFICES ASSUME Bad # {} PROVE FALSE
    OBVIOUS
  <2>2. Bad \in SUBSET (SUBSET I)
    OBVIOUS
  <2>3. PICK s \in Bad : \A t \in Bad : t \subseteq s => t = s
    <3> HIDE DEF Bad
    <3> QED
      BY <2>1, <2>2, SmallestSubset
  <2>4. s \in SUBSET I /\ it[s] # w[s]
    OBVIOUS
  <2> HIDE DEF w, One
  <2>5. CASE s = {}
    BY <1>3, <1>7, <2>4, <2>5
  <2>6. CASE s # {}
    <3>1. /\ One(s) \in s /\ s \ {One(s)} \in SUBSET I
          /\ w[s] = f[One(s)] + w[s \ {One(s)}]
      BY <1>2, <2>4, <2>6
    <3>2. it[s] = f[One(s)] + it[s \ {One(s)}]
      BY <1>7, <2>4, <2>6
    <3>3. it[s \ {One(s)}] = w[s \ {One(s)}]
      BY <2>3, <3>1
    <3> QED
      BY <2>4, <3>1, <3>2, <3>3
  <2> QED
    BY <2>5, <2>6
<1>9. SumFunction(f) = it[I]
  <2>1. I = DOMAIN f
    OBVIOUS
  <2> QED
    BY <1>5, <2>1, SumIsAdded, Zenon
<1>10. Part(I) = E
  OBVIOUS
<1> QED
  BY <1>8, <1>9, <1>10

\* A finite set has a last element of any total order of it.
LEMMA LastInOrder ==
    ASSUME NEW S, IsFiniteSet(S), NEW R,
           \A a, b \in S : <<a, b>> \in R \/ <<b, a>> \in R,
           \A a, b, c \in S : <<a, b>> \in R /\ <<b, c>> \in R => <<a, c>> \in R
    PROVE  \A T \in SUBSET S : T # {} => \E m \in T : \A a \in T : <<a, m>> \in R
<1> DEFINE Bad == {T \in SUBSET S : T # {} /\ ~\E m \in T : \A a \in T : <<a, m>> \in R}
<1>1. SUFFICES ASSUME Bad # {} PROVE FALSE
  OBVIOUS
<1>2. PICK T \in Bad : \A U \in Bad : U \subseteq T => U = T
  <2>1. Bad \in SUBSET (SUBSET S)
    OBVIOUS
  <2> HIDE DEF Bad
  <2> QED
    BY <1>1, <2>1, SmallestSubset
<1>3. T \in SUBSET S /\ T # {} /\ ~\E m \in T : \A a \in T : <<a, m>> \in R
  OBVIOUS
<1>4. PICK x \in T : TRUE
  BY <1>3
<1>5. T \ {x} # {}
  BY <1>3, <1>4
<1>6. PICK m \in T \ {x} : \A a \in T \ {x} : <<a, m>> \in R
  <2>1. T \ {x} \in SUBSET S /\ T \ {x} # T
    BY <1>3, <1>4
  <2>2. T \ {x} \notin Bad
    <3> HIDE DEF Bad
    <3> QED
      BY <1>2, <2>1
  <2> QED
    BY <1>5, <2>1, <2>2
<1>7. CASE <<x, m>> \in R
  BY <1>3, <1>6, <1>7
<1>8. CASE <<m, x>> \in R
  <2>1. \A a \in T \ {x} : <<a, x>> \in R
    BY <1>3, <1>4, <1>6, <1>8
  <2>2. <<x, x>> \in R
    BY <1>3, <1>4
  <2> QED
    BY <1>3, <1>4, <2>1, <2>2
<1> QED
  BY <1>3, <1>4, <1>6, <1>7, <1>8

\* So it can be listed in that order, each element once.
LEMMA ListedInOrder ==
    ASSUME NEW S, IsFiniteSet(S), NEW R,
           \A a, b \in S : <<a, b>> \in R \/ <<b, a>> \in R,
           \A a, b, c \in S : <<a, b>> \in R /\ <<b, c>> \in R => <<a, c>> \in R
    PROVE  \E s \in SetToSeqs(S) : \A i, j \in DOMAIN s : i < j => <<s[i], s[j]>> \in R
<1> DEFINE Good(T) == \E s \in SetToSeqs(T) : \A i, j \in DOMAIN s : i < j => <<s[i], s[j]>> \in R
           Bad == {T \in SUBSET S : ~Good(T)}
<1>1. SUFFICES ASSUME Bad # {} PROVE FALSE
  OBVIOUS
<1>2. PICK T \in Bad : \A U \in Bad : U \subseteq T => U = T
  <2>1. Bad \in SUBSET (SUBSET S)
    OBVIOUS
  <2> HIDE DEF Bad
  <2> QED
    BY <1>1, <2>1, SmallestSubset
<1>3. T \in SUBSET S /\ ~Good(T)
  OBVIOUS
<1>4. T # {}
  <2>1. SUFFICES ASSUME T = {} PROVE FALSE
    OBVIOUS
  <2>2. Cardinality(T) = 0
    BY <2>1, FS_EmptySet
  <2>3. PICK s : s = [i \in 1..0 |-> 0]
    OBVIOUS
  <2>4. s \in SetToSeqs(T)
    BY <2>1, <2>2, <2>3 DEF SetToSeqs
  <2>5. Good(T)
    BY <2>3, <2>4
  <2> QED
    BY <1>3, <2>5
<1>5. PICK m \in T : \A a \in T : <<a, m>> \in R
  BY <1>3, <1>4, LastInOrder
<1>6. PICK U : U = T \ {m}
  OBVIOUS
<1>7. U \in SUBSET S /\ U \subseteq T /\ U # T
  BY <1>3, <1>5, <1>6
<1>8. Good(U)
  <2> HIDE DEF Good
  <2> QED
    BY <1>2, <1>7
<1>9. PICK s \in SetToSeqs(U) : \A i, j \in DOMAIN s : i < j => <<s[i], s[j]>> \in R
  BY <1>8
<1>10. PICK n \in Nat : Cardinality(U) = n /\ Cardinality(T) = n + 1
  <2>1. IsFiniteSet(T) /\ IsFiniteSet(U)
    BY <1>3, <1>7, FS_Subset
  <2>2. Cardinality(U) \in Nat /\ Cardinality(T) \in Nat /\ Cardinality(U) = Cardinality(T) - 1
    BY <1>5, <1>6, <2>1, FS_RemoveElement, FS_CardinalityType
  <2> QED
    BY <2>2
<1>11. s \in [1..n -> U] /\ \A i, j \in 1..n : i # j => s[i] # s[j]
  BY <1>9, <1>10 DEF SetToSeqs
<1>12. PICK t : t = [i \in 1..(n + 1) |-> IF i = n + 1 THEN m ELSE s[i]]
  OBVIOUS
<1>13. t \in [1..(n + 1) -> T]
  BY <1>5, <1>7, <1>10, <1>11, <1>12
<1>14. \A i, j \in 1..(n + 1) : i # j => t[i] # t[j]
  BY <1>6, <1>10, <1>11, <1>12
<1>15. t \in SetToSeqs(T)
  BY <1>10, <1>13, <1>14 DEF SetToSeqs
<1>16. \A i, j \in DOMAIN t : i < j => <<t[i], t[j]>> \in R
  <2> SUFFICES ASSUME NEW i \in 1..(n + 1), NEW j \in 1..(n + 1), i < j PROVE <<t[i], t[j]>> \in R
    BY <1>12
  <2>1. CASE j = n + 1
    BY <1>5, <1>12, <1>13, <2>1
  <2>2. CASE j # n + 1
    BY <1>9, <1>10, <1>11, <1>12, <2>2
  <2> QED
    BY <2>1, <2>2
<1> QED
  BY <1>3, <1>15, <1>16

\* A listing of a finite set has all of it.
LEMMA ListingHasAll ==
    ASSUME NEW S, IsFiniteSet(S), NEW s \in SetToSeqs(S)
    PROVE  s \in Seq(S) /\ Len(s) = Cardinality(S) /\ Cardinality(S) \in Nat /\ Range(s) = S
<1>1. Cardinality(S) \in Nat
  BY FS_CardinalityType
<1>2. s \in [1..Cardinality(S) -> S] /\ \A i, j \in 1..Cardinality(S) : i # j => s[i] # s[j]
  BY DEF SetToSeqs
<1>3. s \in Injection(1..Cardinality(S), S)
  BY <1>2 DEF Injection, IsInjective
<1>4. Cardinality(1..Cardinality(S)) = Cardinality(S)
  BY <1>1, FS_Interval
<1>5. s \in Surjection(1..Cardinality(S), S)
  BY <1>3, <1>4, FS_Injection
<1>6. Range(s) = S
  BY <1>2, <1>5 DEF Surjection, Range
<1> QED
  BY <1>1, <1>2, <1>6

\* What a disk can hold: finitely many events of sessions, at times of the clock.
IsDiskful(E) ==
    /\ IsFiniteSet(E)
    /\ \A v \in E : /\ v.by \in Sitting /\ v.ts \in Nat /\ v.kind \in {"command", "alert"}
                    /\ v.kind = "alert" => v.name \in AlertName

LEMMA SeverityFinite == IsFiniteSet(Severity)
<1>1. Severity = (({"critical"} \cup {"high"}) \cup {"medium"}) \cup {"info"}
  BY DEF Severity
<1>2. IsFiniteSet({"critical"})
  BY FS_Singleton
<1>3. IsFiniteSet({"critical"} \cup {"high"})
  BY <1>2, FS_AddElement
<1>4. IsFiniteSet(({"critical"} \cup {"high"}) \cup {"medium"})
  BY <1>3, FS_AddElement
<1> QED
  BY <1>1, <1>4, FS_AddElement

\* The smaller of two numbers.
LEMMA SmallerOfTwo ==
    ASSUME NEW a \in Nat, NEW b \in Nat
    PROVE  Min({a, b}) = (IF a <= b THEN a ELSE b)
<1>1. Min({a, b}) = CHOOSE x \in {a, b} : \A y \in {a, b} : x <= y
  BY DEF Min
<1> QED
  BY <1>1

LEMMA LargerOfTwo ==
    ASSUME NEW a \in Nat, NEW b \in Nat
    PROVE  Max({a, b}) = (IF a >= b THEN a ELSE b)
<1>1. Max({a, b}) = CHOOSE x \in {a, b} : \A y \in {a, b} : x >= y
  BY DEF Max
<1> QED
  BY <1>1

\* A window's part of the alerts.
LEMMA AlertsWithin ==
    ASSUME NEW E, IsDiskful(E), NEW start, NEW end
    PROVE  /\ IsFiniteSet(Within(Alerts(E), start, end))
           /\ \A v \in Within(Alerts(E), start, end) :
                 /\ v \in E /\ v.by \in Sitting /\ v.ts \in Nat /\ v.name \in AlertName
                 /\ v.ts >= start /\ v.ts < end /\ v.kind = "alert"
<1>1. Within(Alerts(E), start, end) \in SUBSET E
  BY DEF Within, Alerts
<1>2. IsFiniteSet(Within(Alerts(E), start, end))
  BY <1>1, FS_Subset DEF IsDiskful
<1> QED
  BY <1>2 DEF Within, Alerts, Inside, IsDiskful

\* alert_rate: every alert of the window is in one bucket.
LEMMA BucketsAddUp ==
    ASSUME NEW E, IsDiskful(E), NEW start \in Nat, NEW end \in Nat, start < end,
           NEW width \in Nat \ {0}
    PROVE  Total(Bucket(E, start, end, width, Severity)) = Cardinality(Within(Alerts(E), start, end))
<1> DEFINE W == Within(Alerts(E), start, end)
           last == NBuckets(start, end, width) - 1
           I == (0..last) \X Severity
           key == [v \in W |-> <<BucketOf(v.ts, start, end, width), SevOf[v.name]>>]
           series == Bucket(E, start, end, width, Severity)
           f == [p \in (DOMAIN series) \X Severity |-> series[p[1]][p[2]]]
<1>1. last \in Nat
  <2>1. (end - start) \div width \in Nat
    OBVIOUS
  <2> QED
    BY <2>1, LargerOfTwo DEF NBuckets
<1>2. ASSUME NEW v \in W PROVE BucketOf(v.ts, start, end, width) \in 0..last
  <2>1. v.ts \in Nat /\ v.ts >= start
    BY AlertsWithin
  <2>2. (v.ts - start) \div width \in Nat
    BY <2>1
  <2>3. NBuckets(start, end, width) - 1 \in Nat
    BY <1>1
  <2> QED
    BY <2>2, <2>3, SmallerOfTwo DEF BucketOf
<1>3. \A v \in W : SevOf[v.name] \in Severity
  BY AlertsWithin, SeverityAssumption
<1> HIDE DEF last, W
<1>4. key \in [W -> I]
  BY <1>2, <1>3
<1>5. IsFiniteSet(I)
  <2>1. IsFiniteSet(0..last)
    BY <1>1, FS_Interval
  <2> QED
    BY <2>1, FS_Product, SeverityFinite, Zenon
<1>6. DOMAIN series = 0..last
  BY DEF Bucket, last
<1>7. ASSUME NEW i \in 0..last, NEW s \in Severity
      PROVE  series[i][s] = Cardinality({v \in W : key[v] = <<i, s>>})
  <2>1. series[i][s] = Cardinality({v \in W : SevOf[v.name] = s /\ s \in Severity
                                     /\ BucketOf(v.ts, start, end, width) = i})
    BY Zenon DEF Bucket, last, W
  <2>2. {v \in W : key[v] = <<i, s>>} = {v \in W : SevOf[v.name] = s /\ s \in Severity
                                     /\ BucketOf(v.ts, start, end, width) = i}
    OBVIOUS
  <2> QED
    BY <2>1, <2>2, Zenon
<1>8. f = [p \in I |-> Cardinality({v \in W : key[v] = p})]
  <2> HIDE DEF key, series
  <2>1. ASSUME NEW p \in I PROVE series[p[1]][p[2]] = Cardinality({v \in W : key[v] = p})
    <3>1. p[1] \in 0..last /\ p[2] \in Severity /\ p = <<p[1], p[2]>>
      OBVIOUS
    <3>2. series[p[1]][p[2]] = Cardinality({v \in W : key[v] = <<p[1], p[2]>>})
      BY <1>7, <3>1, Zenon
    <3> QED
      BY <3>1, <3>2, Zenon
  <2> QED
    BY <1>6, <2>1
<1>9. IsFiniteSet(W)
  BY AlertsWithin DEF W
<1>10. SumFunction(f) = Cardinality(W)
  <2> HIDE DEF f, key, I
  <2> QED
    BY <1>4, <1>5, <1>8, <1>9, PartsAddUp
<1> QED
  BY <1>10, Zenon DEF Total, W

\* alert_top: an alert's sparkline has each of its occurrences in one bucket.
LEMMA SparksAddUp ==
    ASSUME NEW E, IsDiskful(E), NEW since \in Nat, NEW until \in Nat, since < until,
           NEW n \in Nat \ {0}, NEW a
    PROVE  SumFunction(Sparkline(E, a, since, until, n)) = Cardinality(Named(E, a, since, until))
<1> DEFINE N == Named(E, a, since, until)
           I == 0..(n - 1)
           key == [v \in N |-> SparkOf(v.ts, since, until, n)]
<1>1. IsFiniteSet(N) /\ \A v \in N : v.ts \in Nat /\ v.ts >= since
  <2>1. N \in SUBSET Within(Alerts(E), since, until)
    BY DEF Named
  <2> QED
    BY <2>1, AlertsWithin, FS_Subset
<1>2. ASSUME NEW v \in N PROVE SparkOf(v.ts, since, until, n) \in I
  <2>1. v.ts - since \in Nat /\ until - since \in Nat \ {0} /\ n - 1 \in Nat
    BY <1>1
  <2>2. (v.ts - since) * n \in Nat
    BY <2>1
  <2>3. ((v.ts - since) * n) \div (until - since) \in Nat
    BY <2>1, <2>2
  <2> QED
    BY <2>1, <2>3, SmallerOfTwo DEF SparkOf
<1>3. key \in [N -> I]
  BY <1>2
<1>4. IsFiniteSet(I)
  BY FS_Interval
<1>5. Sparkline(E, a, since, until, n) = [i \in I |-> Cardinality({v \in N : key[v] = i})]
  <2>1. \A i : {v \in N : key[v] = i} = {v \in N : SparkOf(v.ts, since, until, n) = i}
    OBVIOUS
  <2>2. Sparkline(E, a, since, until, n)
          = [i \in I |-> Cardinality({v \in N : SparkOf(v.ts, since, until, n) = i})]
    BY Zenon DEF Sparkline
  <2> HIDE DEF key, N, I
  <2> QED
    BY <2>1, <2>2
<1> HIDE DEF N, key, I
<1> QED
  BY <1>1, <1>3, <1>4, <1>5, PartsAddUp DEF N

\* alert_top with room for all lists each alert of the window.
LEMMA TopHasAll ==
    ASSUME NEW E, IsDiskful(E), NEW since, NEW until
    PROVE  Range(AlertTop(E, since, until, Cardinality(AlertName)))
             = {a \in AlertName : Named(E, a, since, until) # {}}
<1> DEFINE names == {a \in AlertName : Named(E, a, since, until) # {}}
           count(a) == Cardinality(Named(E, a, since, until))
           before(a, b) == \/ SevRank[SevOf[a]] < SevRank[SevOf[b]]
                           \/ SevOf[a] = SevOf[b] /\ count(a) >= count(b)
           Ordered(s) == \A i, j \in DOMAIN s : i < j => before(s[i], s[j])
           R == {p \in names \X names : before(p[1], p[2])}
<1>1. \A a \in names : count(a) \in Nat
  <2> TAKE a \in names
  <2>1. Named(E, a, since, until) \in SUBSET Within(Alerts(E), since, until)
    BY DEF Named
  <2> QED
    BY <2>1, AlertsWithin, FS_Subset, FS_CardinalityType
<1>2. \A a \in names : SevRank[SevOf[a]] \in Nat
  BY SeverityAssumption DEF SevRank, Severity
<1>3. \A a, b \in names : SevRank[SevOf[a]] = SevRank[SevOf[b]] => SevOf[a] = SevOf[b]
  BY SeverityAssumption DEF SevRank, Severity
<1> HIDE DEF count
<1>r. \A a, b \in names : <<a, b>> \in R <=> before(a, b)
  OBVIOUS
<1>4. \A a, b \in names : <<a, b>> \in R \/ <<b, a>> \in R
  <2> HIDE DEF names, R
  <2>1. ASSUME NEW a \in names, NEW b \in names PROVE before(a, b) \/ before(b, a)
    BY <1>1, <1>2, <1>3
  <2> HIDE DEF before
  <2> QED
    BY <1>r, <2>1
<1>5. \A a, b, c \in names : <<a, b>> \in R /\ <<b, c>> \in R => <<a, c>> \in R
  <2> HIDE DEF names, R
  <2>1. ASSUME NEW a \in names, NEW b \in names, NEW c \in names, before(a, b), before(b, c)
        PROVE  before(a, c)
    BY <1>1, <1>2, <2>1
  <2> HIDE DEF before
  <2> QED
    BY <1>r, <2>1
<1>6. IsFiniteSet(names) /\ Cardinality(names) <= Cardinality(AlertName)
      /\ Cardinality(names) \in Nat /\ Cardinality(AlertName) \in Nat
  <2>1. names \in SUBSET AlertName
    OBVIOUS
  <2> QED
    BY <2>1, FewAssumption, FS_Subset, FS_CardinalityType
<1>7. \E s \in SetToSeqs(names) : Ordered(s)
  <2>1. PICK s \in SetToSeqs(names) : \A i, j \in DOMAIN s : i < j => <<s[i], s[j]>> \in R
    <3> HIDE DEF names, R
    <3> QED
      BY <1>4, <1>5, <1>6, ListedInOrder
  <2>2. Ordered(s)
    BY <2>1
  <2> QED
    BY <2>1, <2>2
<1>8. PICK ranked : ranked = CHOOSE s \in SetToSeqs(names) : Ordered(s)
  OBVIOUS
<1>9. ranked \in SetToSeqs(names)
  <2> HIDE DEF Ordered, names
  <2> QED
    BY <1>7, <1>8
<1>10. AlertTop(E, since, until, Cardinality(AlertName))
         = SubSeq(ranked, 1, Min({Cardinality(AlertName), Len(ranked)}))
  BY <1>8, Zenon DEF AlertTop, count
<1> HIDE DEF names
<1>11. ranked \in Seq(names) /\ Len(ranked) = Cardinality(names) /\ Range(ranked) = names
  BY <1>6, <1>9, ListingHasAll
<1>12. Min({Cardinality(AlertName), Len(ranked)}) = Len(ranked)
  BY <1>6, <1>11, SmallerOfTwo
<1>13. SubSeq(ranked, 1, Len(ranked)) = ranked
  BY <1>11
<1> QED
  BY <1>10, <1>11, <1>12, <1>13 DEF names

\* alert_top: the sparklines of all the alerts have all the alerts of the window.
LEMMA TopAddsUp ==
    ASSUME NEW E, IsDiskful(E), NEW since \in Nat, NEW until \in Nat, since < until,
           NEW n \in Nat \ {0}
    PROVE  SumFunction([a \in Range(AlertTop(E, since, until, Cardinality(AlertName))) |->
                           SumFunction(Sparkline(E, a, since, until, n))])
             = Cardinality(Within(Alerts(E), since, until))
<1>t. PICK T : T = Range(AlertTop(E, since, until, Cardinality(AlertName)))
  OBVIOUS
<1>0. T = {a \in AlertName : Named(E, a, since, until) # {}}
  BY <1>t, TopHasAll
<1> DEFINE W == Within(Alerts(E), since, until)
           key == [v \in W |-> v.name]
           f == [a \in T |-> SumFunction(Sparkline(E, a, since, until, n))]
<1>1. IsFiniteSet(W) /\ \A v \in W : v.name \in AlertName
  BY AlertsWithin
<1>2. key \in [W -> T]
  BY <1>0, <1>1 DEF Named
<1>3. IsFiniteSet(T)
  <2>1. T \in SUBSET AlertName
    BY <1>0
  <2> QED
    BY <2>1, FewAssumption, FS_Subset
<1>4. f = [a \in T |-> Cardinality({v \in W : key[v] = a})]
  <2>1. \A a : {v \in W : key[v] = a} = Named(E, a, since, until)
    BY DEF Named
  <2>2. \A a : SumFunction(Sparkline(E, a, since, until, n)) = Cardinality(Named(E, a, since, until))
    BY SparksAddUp
  <2> HIDE DEF key, W
  <2> QED
    BY <2>1, <2>2
<1> HIDE DEF W, key, f
<1>5. SumFunction(f) = Cardinality(W)
  BY <1>1, <1>2, <1>3, <1>4, PartsAddUp
<1> QED
  BY <1>t, <1>5, Zenon DEF W, f

\* activity_heatmap: every alert of the window is in one cell.
LEMMA CellsAddUp ==
    ASSUME NEW E, IsDiskful(E), NEW since \in Nat, NEW until \in Nat
    PROVE  SumFunction([h \in Host |-> SumFunction(Heatmap(E, "alert", since, until)[h])])
             = Cardinality(Within(Alerts(E), since, until))
<1> DEFINE W == Within(Alerts(E), since, until)
           heat == Heatmap(E, "alert", since, until)
           Row(h) == {v \in W : HostOf[v.by] = h}
           f == [h \in Host |-> SumFunction(heat[h])]
           key == [v \in W |-> HostOf[v.by]]
<1>1. IsFiniteSet(W) /\ \A v \in W : v.by \in Sitting /\ v.ts \in Nat
  BY AlertsWithin
<1>2. \A v \in W : Hour(v.ts) \in 0..(Day - 1)
  BY <1>1, FewAssumption DEF Hour
<1>3. \A h, hour : Cell(E, h, hour, "alert", since, until) = {v \in Row(h) : Hour(v.ts) = hour}
  BY DEF Cell, Kinds, Within, Alerts
<1> HIDE DEF W
<1>4. ASSUME NEW h \in Host PROVE SumFunction(heat[h]) = Cardinality(Row(h))
  <2> DEFINE I == 0..(Day - 1)
             hr == [v \in Row(h) |-> Hour(v.ts)]
  <2>1. hr \in [Row(h) -> I]
    BY <1>2
  <2>2. IsFiniteSet(I)
    BY FewAssumption, FS_Interval
  <2>3. IsFiniteSet(Row(h))
    <3>1. Row(h) \in SUBSET W
      OBVIOUS
    <3> QED
      BY <1>1, <3>1, FS_Subset
  <2>4. heat[h] = [i \in I |-> Cardinality(Cell(E, h, i, "alert", since, until))]
    BY Zenon DEF Heatmap
  <2>5. \A i : {v \in Row(h) : hr[v] = i} = Cell(E, h, i, "alert", since, until)
    BY <1>3
  <2> HIDE DEF I, hr, heat, Row
  <2>6. heat[h] = [i \in I |-> Cardinality({v \in Row(h) : hr[v] = i})]
    BY <2>4, <2>5
  <2> QED
    BY <2>1, <2>2, <2>3, <2>6, PartsAddUp
<1>5. key \in [W -> Host]
  BY <1>1 DEF Host
<1>6. IsFiniteSet(Host)
  <2>1. Host = {HostOf[c] : c \in Sitting}
    BY DEF Host
  <2>2. [c \in Sitting |-> HostOf[c]] \in Surjection(Sitting, Host)
    BY <2>1 DEF Surjection
  <2> QED
    BY <2>2, FewAssumption, FS_Surjection
<1>7. f = [h \in Host |-> Cardinality({v \in W : key[v] = h})]
  <2>1. \A h : {v \in W : key[v] = h} = Row(h)
    OBVIOUS
  <2> HIDE DEF key, heat, Row
  <2> QED
    BY <1>4, <2>1
<1>8. SumFunction(f) = Cardinality(W)
  <2> HIDE DEF f, key
  <2> QED
    BY <1>1, <1>5, <1>6, <1>7, PartsAddUp
<1> QED
  BY <1>8 DEF W

\* The drill-in of a cell tells of no more events than the cell has, and of all
\* of them when the limit does not cut it.
DrillInFits(E, h, hour, kind, since, until, limit) ==
    \A listed \in CellEngagements(E, h, hour, kind, since, until, limit) :
        /\ SumFunction(listed) <= Cardinality(Cell(E, h, hour, kind, since, until))
        /\ Cardinality({CaseOf[v.by] : v \in Cell(E, h, hour, kind, since, until)}) <= limit =>
              SumFunction(listed) = Cardinality(Cell(E, h, hour, kind, since, until))

\* activity_cell_engagements: every event of a cell is of one engagement, so a
\* page of its engagements accounts for some of its events, and a page of all
\* of them for all.
LEMMA DrillInAddsUp ==
    ASSUME NEW E, IsDiskful(E), NEW h, NEW hour, NEW kind, NEW since, NEW until, NEW limit
    PROVE  DrillInFits(E, h, hour, kind, since, until, limit)
<1> SUFFICES ASSUME NEW listed \in CellEngagements(E, h, hour, kind, since, until, limit)
             PROVE  /\ SumFunction(listed) <= Cardinality(Cell(E, h, hour, kind, since, until))
                    /\ Cardinality({CaseOf[v.by] : v \in Cell(E, h, hour, kind, since, until)}) <= limit =>
                          SumFunction(listed) = Cardinality(Cell(E, h, hour, kind, since, until))
  BY Zenon DEF DrillInFits
<1> DEFINE mine == Cell(E, h, hour, kind, since, until)
           there == {CaseOf[v.by] : v \in mine}
<1>1. PICK page \in Pages(there, limit) :
          listed = [e \in page |-> Cardinality({v \in mine : CaseOf[v.by] = e})]
  BY Zenon DEF CellEngagements
<1>2. page \subseteq there /\ (Cardinality(there) <= limit => page = there)
  BY DEF Pages
<1> DEFINE some == {v \in mine : CaseOf[v.by] \in page}
           key == [v \in some |-> CaseOf[v.by]]
<1>3. IsFiniteSet(mine)
  <2>1. mine \in SUBSET E
    BY DEF Cell, Within
  <2> QED
    BY <2>1, FS_Subset DEF IsDiskful
<1>4. IsFiniteSet(some) /\ Cardinality(some) <= Cardinality(mine)
  <2>1. some \in SUBSET mine
    OBVIOUS
  <2> QED
    BY <1>3, <2>1, FS_Subset
<1>5. key \in [some -> page] /\ key \in Surjection(some, page)
  BY <1>2 DEF Surjection
<1>6. IsFiniteSet(page)
  BY <1>4, <1>5, FS_Surjection
<1>7. listed = [e \in page |-> Cardinality({v \in some : key[v] = e})]
  <2>1. \A e \in page : {v \in some : key[v] = e} = {v \in mine : CaseOf[v.by] = e}
    OBVIOUS
  <2> HIDE DEF mine, key, some
  <2> QED
    BY <1>1, <2>1
<1>8. Cardinality(there) <= limit => some = mine
  BY <1>2
<1> HIDE DEF mine, key, some, there
<1>9. SumFunction(listed) = Cardinality(some)
  BY <1>4, <1>5, <1>6, <1>7, PartsAddUp
<1> QED
  BY <1>4, <1>8, <1>9 DEF mine, there

\* Whatever is on disk, the charts of any window that has one before it agree.
LEMMA ChartsAreOneStory ==
    ASSUME NEW E, IsDiskful(E), NEW since \in Nat, NEW until \in Nat,
           since < until, until <= 2 * since, NEW width \in Nat \ {0}, NEW n \in Nat \ {0}
    PROVE  ChartsAgree(E, since, until, width, n)
<1> DEFINE total == Total(Bucket(E, since, until, width, Severity))
           W == Within(Alerts(E), since, until)
           start == since - (until - since)
           P == Within(Alerts(E), start, since)
           both == {v \in Alerts(E) : v.ts >= 2 * since - until /\ v.ts < until}
<1>1. total = Cardinality(W)
  BY BucketsAddUp
<1>2. start \in Nat /\ start < since /\ start = 2 * since - until
  OBVIOUS
<1>3. Total(Previous(E, since, until, width, Severity)) = Cardinality(P)
  <2> HIDE DEF start
  <2>1. Previous(E, since, until, width, Severity) = Bucket(E, start, since, width, Severity)
    BY DEF Previous, start
  <2> QED
    BY <1>2, <2>1, BucketsAddUp
<1>4. /\ both = W \cup P /\ W \cap P = {}
  <2>1. \A v \in Alerts(E) : v.ts \in Nat
    BY DEF Alerts, IsDiskful
  <2> QED
    BY <1>2, <2>1 DEF Within, Inside
<1>5. total + Total(Previous(E, since, until, width, Severity)) = Cardinality(both)
  <2>1. IsFiniteSet(W) /\ IsFiniteSet(P)
    BY AlertsWithin
  <2> HIDE DEF W, P, both, total
  <2>2. Cardinality(W) \in Nat /\ Cardinality(P) \in Nat
    BY <2>1, FS_CardinalityType
  <2>3. Cardinality(W \cup P) = Cardinality(W) + Cardinality(P) - Cardinality(W \cap P)
    BY <2>1, FS_Union
  <2>4. Cardinality(W \cap P) = 0
    BY <1>4, FS_EmptySet
  <2> QED
    BY <1>1, <1>3, <1>4, <2>2, <2>3, <2>4
<1>6. total = SumFunction([a \in Range(AlertTop(E, since, until, Cardinality(AlertName))) |->
                            SumFunction(Sparkline(E, a, since, until, n))])
  BY <1>1, TopAddsUp
<1>7. total = SumFunction([h \in Host |-> SumFunction(Heatmap(E, "alert", since, until)[h])])
  BY <1>1, CellsAddUp
<1>8. ASSUME NEW h \in Host, NEW hour \in 0..(Day - 1), NEW limit \in Limit,
             NEW listed \in CellEngagements(E, h, hour, "all", since, until, limit)
      PROVE  /\ SumFunction(listed) <= Heatmap(E, "all", since, until)[h][hour]
             /\ Cardinality({CaseOf[v.by] : v \in Cell(E, h, hour, "all", since, until)}) <= limit =>
                   SumFunction(listed) = Heatmap(E, "all", since, until)[h][hour]
  <2>1. Heatmap(E, "all", since, until)[h][hour] = Cardinality(Cell(E, h, hour, "all", since, until))
    BY Zenon DEF Heatmap
  <2>2. DrillInFits(E, h, hour, "all", since, until, limit)
    BY DrillInAddsUp, Zenon
  <2> QED
    BY <2>1, <2>2, <1>8, Zenon DEF DrillInFits
<1> HIDE DEF total, both
<1> QED
  BY <1>5, <1>6, <1>7, <1>8, Zenon DEF ChartsAgree, total, both

\* A session has seen finitely many things, each at a time of the clock.
SeenInv ==
    /\ time \in Nat
    /\ \A c \in Sitting : /\ IsFiniteSet(told[c])
                          /\ \A v \in told[c] : v.ts \in Nat /\ v.kind \in {"command", "alert"}

LEMMA SeenKept == ListingInv /\ SeenInv /\ [ReportNext]_reportVars => SeenInv'
<1> SUFFICES ASSUME ListingInv, SeenInv, [ReportNext]_reportVars PROVE SeenInv'
  OBVIOUS
<1>1. CASE Passes
  BY <1>1 DEF Passes, SeenInv
<1>2. ASSUME NEW c \in Sitting, Command(c) PROVE SeenInv'
  <2>1. PICK a \in CanRaise[c] \cup {"-"} :
            told' = [told EXCEPT ![c] = @ \cup {Event(c, "command", "-")}
                       \cup (IF a = "-" THEN {} ELSE {Event(c, "alert", a)})]
    BY <1>2, Zenon DEF Command
  <2>2. PICK new : new = {Event(c, "command", "-")} \cup (IF a = "-" THEN {} ELSE {Event(c, "alert", a)})
    OBVIOUS
  <2>3. \A v \in new : v.ts \in Nat /\ v.kind \in {"command", "alert"}
    BY <2>2 DEF Event, SeenInv
  <2>4. IsFiniteSet(told[c] \cup new)
    <3>1. CASE a = "-"
      <4>1. told[c] \cup new = told[c] \cup {Event(c, "command", "-")}
        BY <2>2, <3>1
      <4> QED
        BY <4>1, FS_AddElement DEF SeenInv
    <3>2. CASE a # "-"
      <4>1. told[c] \cup new = (told[c] \cup {Event(c, "command", "-")}) \cup {Event(c, "alert", a)}
        BY <2>2, <3>2
      <4>2. IsFiniteSet(told[c] \cup {Event(c, "command", "-")})
        BY FS_AddElement DEF SeenInv
      <4> QED
        BY <4>1, <4>2, FS_AddElement
    <3> QED
      BY <3>1, <3>2
  <2>5. told' = [told EXCEPT ![c] = told[c] \cup new]
    BY <2>1, <2>2
  <2>6. \A d \in Sitting : told'[d] = IF d = c THEN told[d] \cup new ELSE told[d]
    BY <2>5 DEF ListingInv, TellInv
  <2>7. time' = time
    BY <1>2 DEF Command
  <2> QED
    BY <2>3, <2>4, <2>6, <2>7 DEF SeenInv
<1>3. CASE UNCHANGED <<time, told>>
  BY <1>3 DEF SeenInv
<1> QED
  BY <1>1, <1>2, <1>3 DEF ReportNext, reportVars, BeginScan, EnterHost, ReadLog, LeaveHost, EndScan,
     OpenLog, CloseLog

LEMMA DiskIsDiskful == ListingInv /\ SeenInv => IsDiskful(OnDisk)
<1> SUFFICES ASSUME ListingInv, SeenInv PROVE IsDiskful(OnDisk)
  OBVIOUS
<1> DEFINE All == {told[c] : c \in Sitting}
<1>1. IsFiniteSet(All)
  <2>1. [c \in Sitting |-> told[c]] \in Surjection(Sitting, All)
    BY DEF Surjection
  <2> QED
    BY <2>1, FewAssumption, FS_Surjection
<1>2. IsFiniteSet(UNION All)
  BY <1>1, FS_UNION DEF SeenInv
<1>3. OnDisk \in SUBSET UNION All
  BY DEF OnDisk, ListingInv, TellInv
<1>4. IsFiniteSet(OnDisk)
  BY <1>2, <1>3, FS_Subset
<1>5. \A v \in OnDisk : \E c \in Sitting : v \in told[c]
  BY <1>3
<1> QED
  BY <1>4, <1>5 DEF IsDiskful, ListingInv, TellInv, SeenInv

\* Whatever the sessions have written so far, and whether or not somebody is
\* listing it, the charts of any window that has one before it agree, for any
\* width of the buckets and length of the sparklines.
THEOREM ChartsAlwaysAgree ==
    ReportSpec => [](\A since, until \in Nat, width, n \in Nat \ {0} :
                        since < until /\ until <= 2 * since => ChartsAgree(OnDisk, since, until, width, n))
<1>1. ReportInit => SeenInv
  BY FewAssumption, FS_EmptySet DEF ReportInit, SeenInv
<1>2. ListingInv /\ SeenInv => \A since, until \in Nat, width, n \in Nat \ {0} :
          since < until /\ until <= 2 * since => ChartsAgree(OnDisk, since, until, width, n)
  <2> SUFFICES ASSUME ListingInv, SeenInv, NEW since \in Nat, NEW until \in Nat,
                      NEW width \in Nat \ {0}, NEW n \in Nat \ {0},
                      since < until, until <= 2 * since
               PROVE  ChartsAgree(OnDisk, since, until, width, n)
    OBVIOUS
  <2>1. IsDiskful(OnDisk)
    BY DiskIsDiskful
  <2> QED
    BY <2>1, ChartsAreOneStory
<1> QED
  BY <1>1, <1>2, ListingStarts, ListingKept, SeenKept, PTL DEF ReportSpec

\* The charts of what is on disk add up to each other.
THEOREM ChartsAlwaysAddUp == ReportSpec => []ChartsAddUp
<1>1. (\A since, until \in Nat, width, n \in Nat \ {0} :
          since < until /\ until <= 2 * since => ChartsAgree(OnDisk, since, until, width, n))
      => ChartsAddUp
  BY FewAssumption DEF ChartsAddUp
<1> QED
  BY <1>1, ChartsAlwaysAgree, PTL
=============================================================================
