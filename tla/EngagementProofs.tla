-------------------------- MODULE EngagementProofs --------------------------
(***************************************************************************)
(* That two passes of the loop always drain the rule ladder, that a rule   *)
(* fires once in an engagement whose connections take turns, and that an   *)
(* alert the store remembers is in a log as long as nothing fails, for any *)
(* number of connections and any observations.                             *)
(***************************************************************************)
EXTENDS Engagement, FiniteSetTheorems, TLAPS

\* No rule but the time rule waits in these observations.
Drained(o) == \A r \in Rule \ {"plant_aws"} : ~Enabled(r, o, FALSE)

\* The places of the ladder whose flag is set: every rule that fires adds one.
Marked(o) == {i \in 1..Len(Ladder) : Flag[Ladder[i]] \in o}

\* Where a connection's command is agrees with what the event loop runs.
LoopInv ==
    \A c \in Connection :
        /\ step[c] \in {"pass1", "dispatch", "pass2", "logging", "closing"} => run = c
        /\ phase[c] = "up" => step[c] \notin {"new", "done"}
        /\ phase[c] = "new" => step[c] = "new"
        /\ phase[c] = "lost" => step[c] = "done"

\* A connection that waits or has just passed the ladder has drained it, and
\* what it saves then is drained too.
IdleInv ==
    \A c \in Connection :
        step[c] \in {"new", "idle", "dispatch", "await", "logging"} => Drained(obs[c])
SaveInv == \A k \in Key : Drained(store[k].obs)

\* A pass has fired no more rules than there are flags set.
CountInv == \A c \in Connection : InPass(c) => iter <= Cardinality(Marked(obs[c]))

DrainInv == TypeOK /\ LoopInv /\ IdleInv /\ SaveInv /\ CountInv

-----------------------------------------------------------------------------
(* The ladder                                                              *)

LEMMA LadderLength == Len(Ladder) = 16
BY DEF Ladder

LEMMA RuleFlags == \A r \in Rule : Flag[r] \in Template
BY DEF Template, Flags

\* The age of the connection matters to the time rule alone.
LEMMA AgeIrrelevant ==
    ASSUME NEW r \in Rule \ {"plant_aws"}, NEW o, NEW l
    PROVE  Enabled(r, o, l) <=> Enabled(r, o, FALSE)
BY DEF Enabled

LEMMA NothingObserved == Drained({})
<1> SUFFICES ASSUME NEW r \in Rule \ {"plant_aws"} PROVE ~Enabled(r, {}, FALSE)
  BY DEF Drained
<1>1. {} \intersect PayloadDrops = {}
  OBVIOUS
<1>2. Cardinality({} \intersect PayloadDrops) = 0
  BY <1>1, FS_EmptySet
<1>3. CASE r = "payload_staging"
  BY <1>2, <1>3 DEF Enabled
<1>4. CASE r # "payload_staging"
  BY <1>4 DEF Enabled
<1> QED
  BY <1>3, <1>4

LEMMA NoneDecided == ASSUME NEW o, NEW l, DecidesNone(o, l) PROVE Drained(o)
BY AgeIrrelevant DEF DecidesNone, Drained

LEMMA MarkedFinite ==
    ASSUME NEW o
    PROVE  IsFiniteSet(Marked(o)) /\ Cardinality(Marked(o)) \in Nat /\ Cardinality(Marked(o)) <= 16
<1>1. IsFiniteSet(1..16) /\ Cardinality(1..16) = 16
  <2>1. IsFiniteSet(1..16) /\ Cardinality(1..16) = IF 1 > 16 THEN 0 ELSE 16 - 1 + 1
    BY FS_Interval, 1 \in Int, 16 \in Int, Zenon
  <2> QED
    BY <2>1
<1>2. Marked(o) \in SUBSET (1..16)
  BY LadderLength DEF Marked
<1> QED
  BY <1>1, <1>2, FS_Subset, FS_CardinalityType

\* A rule that is decided sets a flag that was not set.
LEMMA FiringMarks ==
    ASSUME NEW r \in Rule, NEW o, NEW l, Decides(r, o, l)
    PROVE  Cardinality(Marked(Fire(r, o))) >= Cardinality(Marked(o)) + 1
<1>1. PICK i \in 1..Len(Ladder) : Ladder[i] = r /\ Enabled(r, o, l)
  BY DEF Decides
<1>2. i \notin Marked(o)
  BY <1>1 DEF Enabled, Marked
<1>3. Marked(o) \union {i} \in SUBSET Marked(Fire(r, o))
  BY <1>1 DEF Marked, Fire
<1>4. Cardinality(Marked(o) \union {i}) = Cardinality(Marked(o)) + 1
  BY <1>2, MarkedFinite, FS_AddElement
<1>5. Cardinality(Marked(o) \union {i}) <= Cardinality(Marked(Fire(r, o)))
  BY <1>3, MarkedFinite, FS_Subset
<1> QED
  BY <1>4, <1>5, MarkedFinite

-----------------------------------------------------------------------------
(* Types                                                                   *)

LEMMA Raised ==
    /\ CmdObs \subseteq Template /\ EventObs \subseteq Template
    /\ "decoys_swallowed" \in Template /\ "credential_files_read" \in Template
<1>1. Flag["plant_aws"] = "found_crown_jewel" /\ "plant_aws" \in Rule
  <2>1. Ladder[16] = "plant_aws" /\ 16 \in 1..Len(Ladder)
    BY LadderLength DEF Ladder
  <2> QED
    BY <2>1 DEF Flag, Rule
<1>2. Needs["decoy_swallowed"] = "decoys_swallowed" /\ "decoy_swallowed" \in DOMAIN Needs
  BY DEF Needs
<1>3. Needs["credential_exfil"] = "credential_files_read" /\ "credential_exfil" \in DOMAIN Needs
  BY DEF Needs
<1> QED
  BY <1>1, <1>2, <1>3, RuleFlags, ObsAssumption DEF Template, Signals

LEMMA FireType == ASSUME NEW r \in Rule, NEW o \in SUBSET Template PROVE Fire(r, o) \in SUBSET Template
<1>1. "llm_detected" \in Rule
  <2>1. Ladder[6] = "llm_detected" /\ 6 \in 1..Len(Ladder)
    BY LadderLength DEF Ladder
  <2> QED
    BY <2>1 DEF Rule
<1> QED
  BY <1>1, RuleFlags DEF Fire

LEMMA TypeInit == Init => TypeOK
<1> SUFFICES ASSUME Init PROVE TypeOK
  OBVIOUS
<1>1. NoState \in EngState
  BY DEF NoState, EngState
<1>2. store \in [Key -> EngState]
  BY <1>1 DEF Init
<1>3. who \in [Connection -> Identity]
  BY DEF Init
<1> QED
  BY <1>2, <1>3, CapAssumption DEF Init, TypeOK

LEMMA TypeNext == TypeOK /\ [Next]_vars => TypeOK'
<1> SUFFICES ASSUME TypeOK, [Next]_vars PROVE TypeOK'
  OBVIOUS
<1>1. ASSUME NEW c \in Connection, NEW id \in Identity, Open(c, id) PROVE TypeOK'
  <2>1. store[KeyOf[id]] \in EngState
    BY KeyAssumption DEF TypeOK
  <2>2. Deserialize(store[KeyOf[id]].obs) \in SUBSET Template
    BY DEF Deserialize
  <2>3. /\ eng' \in [Connection -> Nat]
        /\ conns' \in [Connection -> Nat]
        /\ nextEng' \in Nat
    BY <1>1, <2>1 DEF Open, TypeOK, EngState
  <2>4. obs' \in [Connection -> SUBSET Template]
    BY <1>1, <2>2 DEF Open, TypeOK
  <2>5. planted' \in [Connection -> SUBSET Decoy]
    BY <1>1, <2>1 DEF Open, TypeOK, EngState
  <2>6. shared' \in SUBSET Key
    BY <1>1, KeyAssumption DEF Open, TypeOK
  <2> QED
    BY <1>1, <2>3, <2>4, <2>5, <2>6 DEF Open, TypeOK
<1>2. ASSUME NEW c \in Connection, Lost(c) PROVE TypeOK'
  <2>1. PersistentState(c) \in EngState
    BY DEF PersistentState, EngState, TypeOK
  <2>2. store' \in [Key -> EngState]
    BY <1>2, <2>1 DEF Lost, obsVars, TypeOK
  <2> QED
    BY <1>2, <2>2, CapAssumption DEF Lost, obsVars, TypeOK
<1>3. ASSUME NEW c \in Connection, Closed(c) PROVE TypeOK'
  BY <1>3 DEF Closed, obsVars, TypeOK
<1>4. ASSUME NEW c \in Connection, Command(c) PROVE TypeOK'
  BY <1>4, Raised, CapAssumption DEF Command, obsVars, TypeOK
<1>5. ASSUME NEW c \in Connection, NEW r \in Rule, FireRule(c, r) PROVE TypeOK'
  <2>1. Fire(r, obs[c]) \in SUBSET Template
    BY FireType DEF TypeOK
  <2>2. DecoyOf(r) \subseteq Decoy
    BY DEF DecoyOf, Decoy
  <2>3. iter' \in 0..Cap
    BY <1>5, CapAssumption DEF FireRule, TypeOK
  <2> QED
    BY <1>5, <2>1, <2>2, <2>3 DEF FireRule, TypeOK
<1>6. ASSUME NEW c \in Connection, EndPass(c) PROVE TypeOK'
  BY <1>6 DEF EndPass, obsVars, TypeOK
<1>7. ASSUME NEW c \in Connection, DispatchLocal(c) PROVE TypeOK'
  <2>1. obs' \in [Connection -> SUBSET Template]
    <3>1. PICK raised \in SUBSET Template : obs' = [obs EXCEPT ![c] = @ \union raised]
      BY <1>7, Raised DEF DispatchLocal, DecoyRead
    <3> QED
      BY <3>1 DEF TypeOK
  <2> QED
    BY <1>7, <2>1, CapAssumption DEF DispatchLocal, obsVars, TypeOK
<1>8. ASSUME NEW c \in Connection, DispatchLlm(c) \/ LlmReturns(c) PROVE TypeOK'
  <2>1. CASE DispatchLlm(c)
    BY <2>1 DEF DispatchLlm, obsVars, TypeOK
  <2>2. CASE LlmReturns(c)
    BY <2>2, CapAssumption DEF LlmReturns, obsVars, TypeOK
  <2> QED
    BY <1>8, <2>1, <2>2
<1>9. ASSUME NEW c \in Connection, LogWritten(c) PROVE TypeOK'
  BY <1>9 DEF LogWritten, obsVars, TypeOK
<1>10. ASSUME NEW c \in Connection, TimePasses(c) PROVE TypeOK'
  BY <1>10 DEF TimePasses, obsVars, TypeOK
<1>11. CASE Crash
  BY <1>11 DEF Crash, obsVars, TypeOK
<1>12. CASE UNCHANGED vars
  BY <1>12 DEF vars, connVars, obsVars, TypeOK
<1> QED
  BY <1>1, <1>2, <1>3, <1>4, <1>5, <1>6, <1>7, <1>8, <1>9, <1>10, <1>11, <1>12
  DEF Next, ConnectionStep

-----------------------------------------------------------------------------
(* The inductive invariant                                                 *)

LEMMA LoopNext == TypeOK /\ LoopInv /\ [Next]_vars => LoopInv'
<1> SUFFICES ASSUME TypeOK, LoopInv, [Next]_vars PROVE LoopInv'
  OBVIOUS
<1> USE NoOneAssumption DEF LoopInv
<1>1. ASSUME NEW c \in Connection, NEW id \in Identity, Open(c, id) PROVE LoopInv'
  BY <1>1 DEF Open, TypeOK
<1>2. ASSUME NEW c \in Connection, Lost(c) \/ Command(c) \/ LlmReturns(c) PROVE LoopInv'
  <2>1. CASE Lost(c)
    BY <2>1 DEF Lost, Up, TypeOK
  <2>2. CASE Command(c)
    BY <2>2 DEF Command, TypeOK
  <2>3. CASE LlmReturns(c)
    BY <2>3 DEF LlmReturns, TypeOK
  <2> QED
    BY <1>2, <2>1, <2>2, <2>3
<1>3. ASSUME NEW c \in Connection, Closed(c) PROVE LoopInv'
  BY <1>3 DEF Closed, TypeOK
<1>4. ASSUME NEW c \in Connection, EndPass(c) PROVE LoopInv'
  <2>1. UNCHANGED phase /\ run = c /\ step[c] \in {"pass1", "pass2"}
    BY <1>4 DEF EndPass, InPass
  <2>2. \/ run' = c /\ step' = [step EXCEPT ![c] = "dispatch"]
        \/ run' = c /\ step' = [step EXCEPT ![c] = "logging"]
        \/ run' = NoOne /\ step' = [step EXCEPT ![c] = "idle"]
    BY <1>4 DEF EndPass, InPass
  <2> QED
    BY <2>1, <2>2 DEF TypeOK
<1>5. ASSUME NEW c \in Connection, DispatchLocal(c) \/ DispatchLlm(c) \/ LogWritten(c) PROVE LoopInv'
  <2>1. CASE DispatchLocal(c)
    BY <2>1 DEF DispatchLocal, TypeOK
  <2>2. CASE DispatchLlm(c)
    BY <2>2 DEF DispatchLlm, TypeOK
  <2>3. CASE LogWritten(c)
    BY <2>3 DEF LogWritten, TypeOK
  <2> QED
    BY <1>5, <2>1, <2>2, <2>3
<1>6. ASSUME NEW c \in Connection, TimePasses(c) \/ \E r \in Rule : FireRule(c, r) PROVE LoopInv'
  <2>1. UNCHANGED <<phase, step, run>>
    BY <1>6 DEF TimePasses, FireRule
  <2> QED
    BY <2>1
<1>7. CASE Crash
  BY <1>7 DEF Crash, Up, TypeOK
<1>8. CASE UNCHANGED vars
  BY <1>8 DEF vars, connVars
<1> QED
  BY <1>1, <1>2, <1>3, <1>4, <1>5, <1>6, <1>7, <1>8 DEF Next, ConnectionStep

\* The loop is never used up: a pass ends because nothing is decided.
LEMMA PassDrains ==
    ASSUME DrainInv, NEW c \in Connection, EndPass(c)
    PROVE  Drained(obs[c])
<1>1. iter <= Cardinality(Marked(obs[c])) /\ Cardinality(Marked(obs[c])) <= 16
  BY MarkedFinite DEF DrainInv, CountInv, EndPass
<1>2. iter \in Nat /\ Cardinality(Marked(obs[c])) \in Nat /\ Cap \in Nat /\ Cap > 16
  BY MarkedFinite, CapAssumption, LadderLength DEF DrainInv, TypeOK
<1>3. iter # Cap
  BY <1>1, <1>2
<1> QED
  BY <1>3, NoneDecided DEF EndPass

LEMMA SaveNext == DrainInv /\ [Next]_vars => SaveInv'
<1> SUFFICES ASSUME DrainInv, [Next]_vars PROVE SaveInv'
  OBVIOUS
<1> USE DEF DrainInv, SaveInv
<1>1. ASSUME NEW c \in Connection, Lost(c) PROVE SaveInv'
  <2>1. step[c] \in {"idle", "await"}
    BY <1>1, NoOneAssumption DEF Lost, Up, LoopInv, TypeOK
  <2>2. Drained(obs[c])
    BY <2>1 DEF IdleInv
  <2>3. PersistentState(c).obs = obs[c]
    BY DEF PersistentState
  <2> QED
    BY <1>1, <2>2, <2>3 DEF Lost, TypeOK
<1>2. CASE UNCHANGED store
  BY <1>2
<1> QED
  BY <1>1, <1>2 DEF Next, ConnectionStep, Open, Closed, Command, FireRule, EndPass, DispatchLocal,
                    DispatchLlm, LlmReturns, LogWritten, TimePasses, Crash, vars

LEMMA IdleNext == DrainInv /\ [Next]_vars => IdleInv'
<1> SUFFICES ASSUME DrainInv, [Next]_vars, NEW d \in Connection,
                    step'[d] \in {"new", "idle", "dispatch", "await", "logging"}
             PROVE  Drained(obs'[d])
  BY DEF IdleInv
<1> USE DEF DrainInv
<1>0. ASSUME obs'[d] = obs[d], step[d] \in {"new", "idle", "dispatch", "await", "logging"}
      PROVE  Drained(obs'[d])
  BY <1>0 DEF IdleInv
<1>1. ASSUME NEW c \in Connection, NEW id \in Identity, Open(c, id) PROVE Drained(obs'[d])
  <2>1. CASE d = c /\ store[KeyOf[id]] # NoState
    <3>1. store[KeyOf[id]].obs \in SUBSET Template /\ Drained(store[KeyOf[id]].obs)
      BY KeyAssumption DEF TypeOK, EngState, SaveInv
    <3>2. Deserialize(store[KeyOf[id]].obs) = store[KeyOf[id]].obs
      BY <3>1 DEF Deserialize
    <3>3. obs'[d] = Deserialize(store[KeyOf[id]].obs)
      BY <1>1, <2>1 DEF Open, TypeOK
    <3> QED
      BY <3>1, <3>2, <3>3
  <2>2. CASE d = c /\ store[KeyOf[id]] = NoState
    BY <1>0, <1>1, <2>2 DEF Open, LoopInv
  <2>3. CASE d # c
    BY <1>0, <1>1, <2>3 DEF Open, TypeOK
  <2> QED
    BY <2>1, <2>2, <2>3
<1>2. ASSUME NEW c \in Connection, Lost(c) \/ Closed(c) \/ Command(c) \/ LlmReturns(c)
      PROVE  Drained(obs'[d])
  BY <1>0, <1>2 DEF Lost, Closed, Command, LlmReturns, TypeOK
<1>3. ASSUME NEW c \in Connection, NEW r \in Rule, FireRule(c, r) PROVE Drained(obs'[d])
  BY <1>0, <1>3 DEF FireRule, InPass, TypeOK
<1>4. ASSUME NEW c \in Connection, EndPass(c) PROVE Drained(obs'[d])
  BY <1>0, <1>4, PassDrains DEF EndPass, TypeOK
<1>5. ASSUME NEW c \in Connection, DispatchLocal(c) \/ DispatchLlm(c) \/ LogWritten(c)
      PROVE  Drained(obs'[d])
  BY <1>0, <1>5 DEF DispatchLocal, DispatchLlm, LogWritten, TypeOK
<1>6. ASSUME NEW c \in Connection, TimePasses(c) PROVE Drained(obs'[d])
  BY <1>0, <1>6 DEF TimePasses
<1>7. CASE Crash
  BY <1>0, <1>7 DEF Crash, TypeOK
<1>8. CASE UNCHANGED vars
  BY <1>0, <1>8 DEF vars, connVars
<1> QED
  BY <1>1, <1>2, <1>3, <1>4, <1>5, <1>6, <1>7, <1>8 DEF Next, ConnectionStep

LEMMA CountNext == DrainInv /\ [Next]_vars => CountInv'
<1> SUFFICES ASSUME DrainInv, [Next]_vars, NEW d \in Connection, InPass(d)'
             PROVE  iter' <= Cardinality(Marked(obs'[d]))
  BY DEF CountInv, Marked
<1> USE DEF DrainInv
<1>0. ASSUME InPass(d), UNCHANGED iter, obs'[d] = obs[d]
      PROVE  iter' <= Cardinality(Marked(obs'[d]))
  BY <1>0 DEF CountInv
<1>1. ASSUME iter' = 0 PROVE iter' <= Cardinality(Marked(obs'[d]))
  BY <1>1, MarkedFinite
<1>2. ASSUME NEW c \in Connection, Command(c) \/ DispatchLocal(c) \/ LlmReturns(c)
      PROVE  iter' <= Cardinality(Marked(obs'[d]))
  BY <1>1, <1>2 DEF Command, DispatchLocal, LlmReturns
<1>3. ASSUME NEW c \in Connection, NEW r \in Rule, FireRule(c, r)
      PROVE  iter' <= Cardinality(Marked(obs'[d]))
  <2>1. d = c
    BY <1>3 DEF FireRule, InPass
  <2>2. obs'[d] = Fire(r, obs[d]) /\ iter' = iter + 1 /\ Decides(r, obs[d], late[d])
    BY <1>3, <2>1 DEF FireRule, TypeOK
  <2>3. Cardinality(Marked(obs'[d])) >= Cardinality(Marked(obs[d])) + 1
    BY <2>2, FiringMarks
  <2>4. iter <= Cardinality(Marked(obs[d]))
    BY <1>3, <2>1 DEF FireRule, CountInv
  <2>5. /\ iter \in Nat
        /\ Cardinality(Marked(obs[d])) \in Nat
        /\ Cardinality(Marked(obs'[d])) \in Nat
    BY MarkedFinite, CapAssumption DEF TypeOK
  <2> QED
    BY <2>2, <2>3, <2>4, <2>5
<1>4. ASSUME NEW c \in Connection, NEW id \in Identity, Open(c, id) PROVE FALSE
  BY <1>4, NoOneAssumption DEF Open, InPass
<1>5. ASSUME NEW c \in Connection,
             Lost(c) \/ Closed(c) \/ EndPass(c) \/ DispatchLlm(c) \/ LogWritten(c)
      PROVE  FALSE
  BY <1>5, NoOneAssumption DEF Lost, Closed, EndPass, DispatchLlm, LogWritten, InPass, TypeOK
<1>6. ASSUME NEW c \in Connection, TimePasses(c) PROVE iter' <= Cardinality(Marked(obs'[d]))
  BY <1>0, <1>6 DEF TimePasses, InPass
<1>7. CASE Crash
  BY <1>7, NoOneAssumption DEF Crash, InPass
<1>8. CASE UNCHANGED vars
  BY <1>0, <1>8 DEF vars, connVars, InPass
<1> QED
  BY <1>2, <1>3, <1>4, <1>5, <1>6, <1>7, <1>8 DEF Next, ConnectionStep

LEMMA DrainInit == Init => DrainInv
<1> SUFFICES ASSUME Init PROVE DrainInv
  OBVIOUS
<1>1. LoopInv
  BY DEF Init, LoopInv
<1>2. IdleInv /\ SaveInv
  BY NothingObserved DEF Init, IdleInv, SaveInv, NoState
<1>3. CountInv
  BY NoOneAssumption DEF Init, CountInv, InPass
<1> QED
  BY <1>1, <1>2, <1>3, TypeInit DEF DrainInv

LEMMA DrainInvHolds == Spec => []DrainInv
<1>1. DrainInv /\ [Next]_vars => DrainInv'
  BY TypeNext, LoopNext, IdleNext, SaveNext, CountNext DEF DrainInv
<1> QED
  BY DrainInit, <1>1, PTL DEF Spec

\* Between commands nothing observed waits for its alert, whatever is observed
\* and however connections, failures and crashes interleave: sixteen rules with
\* a flag each cannot use up a pass of twenty (_maybe_record_action).
THEOREM LadderAlwaysDrained == Spec => []LadderDrained
<1>1. DrainInv => LadderDrained
  <2> SUFFICES ASSUME DrainInv, NEW c \in Connection, step[c] \in {"idle", "await"},
                      NEW r \in Rule \ {"plant_aws"}
               PROVE  ~Enabled(r, obs[c], late[c])
    BY DEF LadderDrained
  <2>1. ~Enabled(r, obs[c], FALSE)
    BY DEF DrainInv, IdleInv, Drained
  <2> QED
    BY <2>1, AgeIrrelevant
<1> QED
  BY <1>1, DrainInvHolds, PTL

-----------------------------------------------------------------------------
(* Connections that take turns                                             *)
(*                                                                         *)
(* As long as connections of an identity do not overlap and nothing fails, *)
(* an engagement is filed under one key, a connection that is under way is *)
(* one ahead of the file and a finished one is behind it.  What has fired  *)
(* is flagged where the engagement is: in its live connection, and in the  *)
(* file when there is none.                                                *)

Live(c)  == phase[c] = "up" /\ step[c] # "closing"
Saved(c) == phase[c] = "lost" \/ step[c] = "closing"

Numbered ==
    /\ \A c \in Connection : phase[c] = "new" => eng[c] = 0 /\ obs[c] = {}
    /\ \A c \in Connection : phase[c] # "new" => 0 < eng[c] /\ eng[c] < nextEng
    /\ \A k \in Key : store[k] # NoState => 0 < store[k].eng /\ store[k].eng < nextEng
    /\ 0 < nextEng

OneKey ==
    /\ \A c, d \in Connection :
          phase[c] # "new" /\ phase[d] # "new" /\ eng[c] = eng[d] => KeyFor(c) = KeyFor(d)
    /\ \A c \in Connection, k \in Key : phase[c] # "new" /\ eng[c] = store[k].eng => KeyFor(c) = k
    /\ \A j, k \in Key : store[j] # NoState /\ store[j].eng = store[k].eng => j = k

Alone == \A c, d \in Connection : Up(c) /\ Up(d) /\ KeyFor(c) = KeyFor(d) => c = d

Counted ==
    /\ \A c \in Connection : Live(c) =>
          /\ conns[c] = store[KeyFor(c)].conns + 1
          /\ store[KeyFor(c)] # NoState => store[KeyFor(c)].eng = eng[c]
    /\ \A c \in Connection : Saved(c) =>
          /\ store[KeyFor(c)] # NoState /\ store[KeyFor(c)].eng = eng[c]
          /\ conns[c] <= store[KeyFor(c)].conns

Apart ==
    \A c, d \in Connection :
        c # d /\ phase[c] # "new" /\ phase[d] # "new" /\ eng[c] = eng[d] => conns[c] # conns[d]

TurnInv == Undisturbed => Numbered /\ OneKey /\ Alone /\ Counted /\ Apart

FiredFlagged ==
    /\ \A e \in Engagements, r \in Rule : fires[e][r] <= 1 /\ (fires[e][r] # 0 => e < nextEng)
    /\ \A c \in Connection, r \in Rule :
          Up(c) /\ eng[c] \in Engagements /\ fires[eng[c]][r] # 0 => Flag[r] \in obs[c]
    /\ \A k \in Key, r \in Rule :
          /\ store[k] # NoState /\ \A c \in Connection : Live(c) => KeyFor(c) # k
          /\ store[k].eng \in Engagements /\ fires[store[k].eng][r] # 0
          => Flag[r] \in store[k].obs

OnceInv == fires \in [Engagements -> [Rule -> Nat]] /\ (Undisturbed => FiredFlagged)

\* A rule whose flag nothing but its own alert sets.
Own == Rule \ {"plant_aws", "llm_detected"}

\* A log on disk that will not be written again holds the alert.
InLog(e, r) == \E d \in Connection : phase[d] = "lost" /\ eng[d] = e /\ r \in logged[d]

FlaggedLogged ==
    /\ \A c \in Connection, r \in Own : Up(c) /\ Flag[r] \in obs[c] => r \in acts[c] \/ InLog(eng[c], r)
    /\ \A k \in Key, r \in Own :
          Flag[r] \in store[k].obs =>
              \/ InLog(store[k].eng, r)
              \/ \E c \in Connection : step[c] = "closing" /\ eng[c] = store[k].eng /\ r \in acts[c]

LogInv == Undisturbed => FlaggedLogged

\* What was undisturbed after a step was so before it.
LEMMA CalmBefore == ASSUME TypeOK, [Next]_vars, Undisturbed' PROVE Undisturbed /\ ~Crash /\ faults' = faults
<1>1. shared \subseteq shared'
  BY DEF Next, ConnectionStep, Open, Lost, Closed, Command, FireRule, EndPass, DispatchLocal, DispatchLlm,
         LlmReturns, LogWritten, TimePasses, Crash, vars, obsVars
<1>2. faults' = faults \/ faults' = faults + 1
  BY DEF Next, ConnectionStep, Open, Lost, Closed, Command, FireRule, EndPass, DispatchLocal, DispatchLlm,
         LlmReturns, LogWritten, TimePasses, Crash, vars
<1>3. crashes' = crashes \/ crashes' = crashes + 1
  BY DEF Next, ConnectionStep, Open, Lost, Closed, Command, FireRule, EndPass, DispatchLocal, DispatchLlm,
         LlmReturns, LogWritten, TimePasses, Crash, vars
<1>4. Undisturbed /\ faults' = faults /\ crashes' = crashes
  BY <1>1, <1>2, <1>3 DEF Undisturbed, TypeOK
<1>5. ~Crash
  BY <1>4 DEF Crash, TypeOK
<1> QED
  BY <1>4, <1>5

\* The steps between a connection's beginning and its end.
Inside(c) ==
    \/ Command(c) \/ (\E r \in Rule : FireRule(c, r)) \/ EndPass(c) \/ DispatchLocal(c)
    \/ DispatchLlm(c) \/ LlmReturns(c) \/ LogWritten(c) \/ TimePasses(c)

LEMMA InsideQuiet ==
    ASSUME TypeOK, LoopInv, NEW c \in Connection, Inside(c)
    PROVE  /\ UNCHANGED <<store, phase, who, eng, conns, nextEng>> /\ phase[c] = "up"
           /\ \A d \in Connection : step'[d] = "closing" <=> step[d] = "closing"
           /\ \A d \in Connection \ {c} : step'[d] = step[d] /\ obs'[d] = obs[d] /\ acts'[d] = acts[d] /\ logged'[d] = logged[d]
<1>1. phase[c] = "up" <=> step[c] \notin {"new", "done"}
  BY DEF LoopInv, TypeOK
<1>2. CASE Command(c)
  BY <1>1, <1>2 DEF Command, TypeOK
<1>3. ASSUME NEW r \in Rule, FireRule(c, r)
      PROVE  /\ UNCHANGED <<store, phase, who, eng, conns, nextEng, step, logged>> /\ phase[c] = "up"
             /\ \A d \in Connection \ {c} : obs'[d] = obs[d] /\ acts'[d] = acts[d]
  BY <1>1, <1>3 DEF FireRule, InPass, TypeOK
<1>4. CASE EndPass(c)
  BY <1>1, <1>4 DEF EndPass, InPass, TypeOK
<1>5. CASE DispatchLocal(c)
  BY <1>1, <1>5 DEF DispatchLocal, TypeOK
<1>6. CASE DispatchLlm(c)
  BY <1>1, <1>6 DEF DispatchLlm, TypeOK
<1>7. CASE LlmReturns(c)
  BY <1>1, <1>7 DEF LlmReturns, TypeOK
<1>8. CASE LogWritten(c)
  BY <1>1, <1>8 DEF LogWritten, TypeOK
<1>9. CASE TimePasses(c)
  BY <1>1, <1>9 DEF TimePasses, Up, TypeOK
<1> QED
  BY <1>2, <1>3, <1>4, <1>5, <1>6, <1>7, <1>8, <1>9 DEF Inside

\* A connection opens with the engagement filed under its key or a new one.
LEMMA OpenShape ==
    ASSUME TypeOK, NEW c \in Connection, NEW id \in Identity, Open(c, id), Undisturbed'
    PROVE  \E k \in Key :
             /\ k = KeyOf[id] /\ KeyFor(c)' = k /\ phase[c] = "new" /\ phase'[c] = "up" /\ step'[c] = "idle"
             /\ conns'[c] = store[k].conns + 1
             /\ \/ store[k] # NoState /\ eng'[c] = store[k].eng /\ nextEng' = nextEng
                \/ store[k] = NoState /\ eng'[c] = nextEng /\ nextEng' = nextEng + 1
             /\ \A d \in Connection : Up(d) => KeyFor(d) # k
             /\ \A d \in Connection \ {c} : /\ phase'[d] = phase[d] /\ KeyFor(d)' = KeyFor(d) /\ step'[d] = step[d]
                                            /\ eng'[d] = eng[d] /\ conns'[d] = conns[d] /\ obs'[d] = obs[d]
             /\ UNCHANGED store
<1>1. PICK k \in Key : k = KeyOf[id]
  BY KeyAssumption
<1>2. /\ phase[c] = "new" /\ phase' = [phase EXCEPT ![c] = "up"] /\ who' = [who EXCEPT ![c] = id]
      /\ step' = [step EXCEPT ![c] = "idle"] /\ UNCHANGED store
      /\ shared' = shared \union {j \in {k} : \E d \in Connection : Up(d) /\ KeyFor(d) = j}
  BY <1>1 DEF Open
<1>3. \A d \in Connection : Up(d) => KeyFor(d) # k
  BY <1>2 DEF Undisturbed
<1>4. NoState.conns = 0
  BY DEF NoState
<1>5. /\ conns'[c] = store[k].conns + 1
      /\ \/ store[k] # NoState /\ eng'[c] = store[k].eng /\ nextEng' = nextEng
         \/ store[k] = NoState /\ eng'[c] = nextEng /\ nextEng' = nextEng + 1
      /\ \A d \in Connection \ {c} : eng'[d] = eng[d] /\ conns'[d] = conns[d] /\ obs'[d] = obs[d]
  <2>1. CASE store[k] # NoState
    BY <1>1, <2>1 DEF Open, TypeOK
  <2>2. CASE store[k] = NoState
    BY <1>1, <1>4, <2>2 DEF Open, TypeOK
  <2> QED
    BY <2>1, <2>2
<1>6. KeyFor(c)' = k /\ phase'[c] = "up" /\ step'[c] = "idle"
  BY <1>1, <1>2 DEF KeyFor, TypeOK
<1>7. \A d \in Connection \ {c} : phase'[d] = phase[d] /\ KeyFor(d)' = KeyFor(d) /\ step'[d] = step[d]
  BY <1>2 DEF KeyFor, TypeOK
<1> QED
  BY <1>1, <1>2, <1>3, <1>5, <1>6, <1>7

LEMMA OpenTurn ==
    ASSUME TypeOK, LoopInv, TurnInv, NEW c \in Connection, NEW id \in Identity, Open(c, id), Undisturbed', Undisturbed
    PROVE  (Numbered /\ OneKey /\ Alone /\ Counted /\ Apart)'
<1>1. PICK k \in Key :
             /\ k = KeyOf[id] /\ KeyFor(c)' = k /\ phase[c] = "new" /\ phase'[c] = "up" /\ step'[c] = "idle"
             /\ conns'[c] = store[k].conns + 1
             /\ \/ store[k] # NoState /\ eng'[c] = store[k].eng /\ nextEng' = nextEng
                \/ store[k] = NoState /\ eng'[c] = nextEng /\ nextEng' = nextEng + 1
             /\ \A d \in Connection : Up(d) => KeyFor(d) # k
             /\ \A d \in Connection \ {c} : /\ phase'[d] = phase[d] /\ KeyFor(d)' = KeyFor(d) /\ step'[d] = step[d]
                                            /\ eng'[d] = eng[d] /\ conns'[d] = conns[d] /\ obs'[d] = obs[d]
             /\ UNCHANGED store
  BY OpenShape
<1>2. Numbered /\ OneKey /\ Alone /\ Counted /\ Apart
  BY DEF TurnInv
<1>3. /\ nextEng \in Nat /\ eng \in [Connection -> Nat] /\ conns \in [Connection -> Nat]
      /\ \A j \in Key : store[j].eng \in Nat /\ store[j].conns \in Nat
      /\ \A d \in Connection : KeyFor(d) \in Key
      /\ NoState.eng = 0
  BY KeyAssumption DEF TypeOK, EngState, KeyFor, NoState
<1>4. \A d \in Connection : phase[d] # "new" /\ eng[d] = eng'[c] => KeyFor(d) = k
  BY <1>1, <1>2, <1>3 DEF Numbered, OneKey
<1>5. \A j \in Key : store[j].eng = eng'[c] => j = k
  BY <1>1, <1>2, <1>3 DEF Numbered, OneKey
<1>6. \A d \in Connection : phase[d] # "new" /\ KeyFor(d) = k =>
          phase[d] = "lost" /\ store[k] # NoState /\ store[k].eng = eng[d] /\ conns[d] <= store[k].conns
  BY <1>1, <1>2 DEF Counted, Saved, Up, TypeOK
<1>7. Numbered'
  BY <1>1, <1>2, <1>3 DEF Numbered
<1>8. OneKey'
  BY <1>1, <1>2, <1>4, <1>5 DEF OneKey
<1>9. Alone'
  BY <1>1, <1>2 DEF Alone, Up
<1>10. Counted'
  <2>1. \A d \in Connection \ {c} : (Live(d)' <=> Live(d)) /\ (Saved(d)' <=> Saved(d))
    BY <1>1 DEF Live, Saved
  <2>2. Live(c)' /\ ~Saved(c)'
    BY <1>1 DEF Live, Saved
  <2>3. ASSUME NEW d \in Connection \ {c}, Live(d)'
        PROVE  /\ conns'[d] = store'[KeyFor(d)'].conns + 1
               /\ store'[KeyFor(d)'] # NoState => store'[KeyFor(d)'].eng = eng'[d]
    BY <1>1, <1>2, <2>1, <2>3 DEF Counted
  <2>4. ASSUME NEW d \in Connection \ {c}, Saved(d)'
        PROVE  /\ store'[KeyFor(d)'] # NoState /\ store'[KeyFor(d)'].eng = eng'[d]
               /\ conns'[d] <= store'[KeyFor(d)'].conns
    BY <1>1, <1>2, <2>1, <2>4 DEF Counted
  <2>5. /\ conns'[c] = store'[KeyFor(c)'].conns + 1
        /\ store'[KeyFor(c)'] # NoState => store'[KeyFor(c)'].eng = eng'[c]
    BY <1>1
  <2> QED
    BY <2>2, <2>3, <2>4, <2>5 DEF Counted, NoState
<1>11. Apart'
  <2>1. ASSUME NEW d \in Connection \ {c}, phase'[d] # "new", eng'[d] = eng'[c] PROVE conns'[d] # conns'[c]
    <3>1. conns'[d] <= store[k].conns /\ conns'[d] \in Nat
      BY <1>1, <1>3, <1>4, <1>6, <2>1
    <3> QED
      BY <1>1, <1>3, <3>1
  <2> QED
    BY <1>1, <1>2, <2>1 DEF Apart
<1> QED
  BY <1>7, <1>8, <1>9, <1>10, <1>11

\* A connection that ends undisturbed leaves its state under its key.
LEMMA LostShape ==
    ASSUME TypeOK, LoopInv, NEW c \in Connection, Lost(c), faults' = faults
    PROVE  \E k \in Key :
             /\ k = KeyFor(c) /\ phase[c] = "up" /\ step[c] \in {"idle", "await"} /\ step'[c] = "closing"
             /\ store'[k] = PersistentState(c) /\ \A j \in Key \ {k} : store'[j] = store[j]
             /\ \A d \in Connection \ {c} : step'[d] = step[d]
             /\ UNCHANGED <<phase, who, eng, conns, nextEng, obs, acts, logged, fires>>
<1>1. PICK k \in Key : k = KeyFor(c)
  BY KeyAssumption DEF KeyFor, TypeOK
<1>2. /\ phase[c] = "up" /\ run = NoOne /\ step' = [step EXCEPT ![c] = "closing"]
      /\ store' = [store EXCEPT ![k] = PersistentState(c)]
      /\ UNCHANGED <<phase, who, eng, conns, nextEng, obs, acts, logged, fires>>
  BY <1>1 DEF Lost, Up, obsVars, TypeOK
<1>3. step[c] \in {"idle", "await"}
  BY <1>2, NoOneAssumption DEF LoopInv, TypeOK
<1> QED
  BY <1>1, <1>2, <1>3 DEF TypeOK

LEMMA LostTurn ==
    ASSUME TypeOK, LoopInv, TurnInv, NEW c \in Connection, Lost(c), Undisturbed, faults' = faults
    PROVE  (Numbered /\ OneKey /\ Alone /\ Counted /\ Apart)'
<1>1. PICK k \in Key :
             /\ k = KeyFor(c) /\ phase[c] = "up" /\ step[c] \in {"idle", "await"} /\ step'[c] = "closing"
             /\ store'[k] = PersistentState(c) /\ \A j \in Key \ {k} : store'[j] = store[j]
             /\ \A d \in Connection \ {c} : step'[d] = step[d]
             /\ UNCHANGED <<phase, who, eng, conns, nextEng, obs, acts, logged, fires>>
  BY LostShape
<1>2. Numbered /\ OneKey /\ Alone /\ Counted /\ Apart
  BY DEF TurnInv
<1>3. /\ store'[k].eng = eng[c] /\ store'[k].conns = conns[c]
  BY <1>1 DEF PersistentState
<1>4. /\ nextEng \in Nat /\ eng \in [Connection -> Nat] /\ conns \in [Connection -> Nat]
      /\ \A j \in Key : store[j].eng \in Nat /\ store[j].conns \in Nat
      /\ \A d \in Connection : KeyFor(d) \in Key /\ KeyFor(d)' = KeyFor(d)
      /\ NoState.eng = 0
  BY <1>1, KeyAssumption DEF TypeOK, EngState, KeyFor, NoState
<1>5. store'[k] # NoState /\ 0 < eng[c] /\ eng[c] < nextEng
  BY <1>1, <1>2, <1>3, <1>4 DEF Numbered
<1>6. Numbered'
  BY <1>1, <1>2, <1>3, <1>5 DEF Numbered
<1>7. OneKey'
  <2>1. ASSUME NEW d \in Connection, NEW j \in Key, phase[d] # "new", eng[d] = store'[j].eng PROVE KeyFor(d) = j
    BY <1>1, <1>2, <1>3, <2>1 DEF OneKey
  <2>2. ASSUME NEW i \in Key, NEW j \in Key, store'[i] # NoState, store'[i].eng = store'[j].eng PROVE i = j
    <3>1. \A x \in Key : store[x].eng = eng[c] => x = k
      BY <1>1, <1>2 DEF OneKey
    <3> QED
      BY <1>1, <1>2, <1>3, <2>2, <3>1 DEF OneKey
  <2> QED
    BY <1>1, <1>2, <1>4, <2>1, <2>2 DEF OneKey, NoState
<1>8. Alone' /\ Apart'
  BY <1>1, <1>2, <1>4 DEF Alone, Apart, Up
<1>9. Counted'
  <2>1. Live(c) /\ ~Live(c)' /\ Saved(c)'
    BY <1>1 DEF Live, Saved
  <2>2. \A d \in Connection \ {c} : (Live(d)' <=> Live(d)) /\ (Saved(d)' <=> Saved(d))
    BY <1>1 DEF Live, Saved
  <2>3. conns[c] = store[k].conns + 1 /\ (store[k] # NoState => store[k].eng = eng[c])
    BY <1>1, <1>2, <2>1 DEF Counted
  <2>4. ASSUME NEW d \in Connection \ {c}, Live(d)
        PROVE  /\ conns[d] = store'[KeyFor(d)].conns + 1
               /\ store'[KeyFor(d)] # NoState => store'[KeyFor(d)].eng = eng[d]
    <3>1. KeyFor(d) # k
      BY <1>1, <1>2, <2>4 DEF Alone, Up, Live
    <3> QED
      BY <1>1, <1>2, <1>4, <2>4, <3>1 DEF Counted
  <2>5. ASSUME NEW d \in Connection \ {c}, Saved(d)
        PROVE  /\ store'[KeyFor(d)] # NoState /\ store'[KeyFor(d)].eng = eng[d]
               /\ conns[d] <= store'[KeyFor(d)].conns
    <3>1. CASE KeyFor(d) = k
      <4>1. store[k] # NoState /\ store[k].eng = eng[d] /\ conns[d] <= store[k].conns
        BY <1>2, <2>5, <3>1 DEF Counted
      <4> QED
        BY <1>3, <1>4, <1>5, <2>3, <3>1, <4>1
    <3>2. CASE KeyFor(d) # k
      BY <1>1, <1>2, <1>4, <2>5, <3>2 DEF Counted
    <3> QED
      BY <3>1, <3>2
  <2>6. store'[KeyFor(c)] # NoState /\ store'[KeyFor(c)].eng = eng[c] /\ conns[c] <= store'[KeyFor(c)].conns
    BY <1>1, <1>3, <1>4, <1>5
  <2> QED
    BY <1>1, <1>4, <2>1, <2>2, <2>4, <2>5, <2>6 DEF Counted, NoState
<1> QED
  BY <1>6, <1>7, <1>8, <1>9

LEMMA TurnNext == TypeOK /\ LoopInv /\ TurnInv /\ [Next]_vars => TurnInv'
<1> SUFFICES ASSUME TypeOK, LoopInv, TurnInv, [Next]_vars, Undisturbed'
             PROVE  (Numbered /\ OneKey /\ Alone /\ Counted /\ Apart)'
  BY DEF TurnInv
<1>1. Undisturbed /\ ~Crash /\ faults' = faults
  BY CalmBefore
<1>2. Numbered /\ OneKey /\ Alone /\ Counted /\ Apart
  BY <1>1 DEF TurnInv
<1>3. ASSUME UNCHANGED <<store, phase, who, eng, conns, nextEng>>,
             \A d \in Connection : step'[d] = "closing" <=> step[d] = "closing",
             \A d \in Connection : phase[d] = "new" => obs'[d] = obs[d]
      PROVE  (Numbered /\ OneKey /\ Alone /\ Counted /\ Apart)'
  <2>1. Numbered'
    BY <1>2, <1>3 DEF Numbered
  <2>2. OneKey' /\ Alone' /\ Apart'
    BY <1>2, <1>3 DEF OneKey, Alone, Apart, KeyFor, Up, NoState
  <2>3. Counted'
    BY <1>2, <1>3 DEF Counted, Live, Saved, KeyFor, NoState
  <2> QED
    BY <2>1, <2>2, <2>3
<1>4. ASSUME NEW c \in Connection, Closed(c) PROVE (Numbered /\ OneKey /\ Alone /\ Counted /\ Apart)'
  <2>1. /\ phase' = [phase EXCEPT ![c] = "lost"] /\ step[c] = "closing" /\ step' = [step EXCEPT ![c] = "done"]
        /\ UNCHANGED <<store, who, eng, conns, nextEng, obs>>
    BY <1>4 DEF Closed
  <2>2. phase[c] = "up"
    BY <2>1 DEF LoopInv, TypeOK
  <2>3. \A d \in Connection : (phase'[d] = "new" <=> phase[d] = "new") /\ (Up(d)' => Up(d)) /\ KeyFor(d)' = KeyFor(d)
    BY <2>1, <2>2 DEF Up, KeyFor, TypeOK
  <2>4. \A d \in Connection : (Live(d)' <=> Live(d)) /\ (Saved(d)' <=> Saved(d))
    BY <2>1, <2>2 DEF Live, Saved, TypeOK
  <2>5. Numbered'
    BY <1>2, <2>1, <2>3 DEF Numbered
  <2>6. OneKey' /\ Alone' /\ Apart'
    BY <1>2, <2>1, <2>3 DEF OneKey, Alone, Apart, NoState
  <2>7. Counted'
    BY <1>2, <2>1, <2>3, <2>4 DEF Counted, NoState
  <2> QED
    BY <2>5, <2>6, <2>7
<1>5. ASSUME NEW c \in Connection, Inside(c) PROVE (Numbered /\ OneKey /\ Alone /\ Counted /\ Apart)'
  BY <1>3, <1>5, InsideQuiet
<1>6. CASE UNCHANGED vars
  BY <1>3, <1>6 DEF vars, connVars
<1> QED
  BY <1>1, <1>4, <1>5, <1>6, OpenTurn, LostTurn DEF Next, ConnectionStep, Inside

LEMMA TurnInit == Init => TurnInv
BY DEF Init, TurnInv, Numbered, OneKey, Alone, Counted, Apart, Up, Live, Saved

LEMMA TurnInvHolds == Spec => []TurnInv
<1>1. Spec => [](TypeOK /\ LoopInv)
  BY DrainInvHolds, PTL DEF DrainInv
<1> QED
  BY <1>1, TurnInit, TurnNext, PTL DEF Spec

-----------------------------------------------------------------------------
(* Once per engagement                                                     *)

\* The counters of a fired rule.
LEMMA FireCounts ==
    ASSUME TypeOK, fires \in [Engagements -> [Rule -> Nat]], NEW c \in Connection, NEW r \in Rule, FireRule(c, r)
    PROVE  /\ fires' \in [Engagements -> [Rule -> Nat]]
           /\ \A e \in Engagements, q \in Rule :
                 fires'[e][q] = IF e = eng[c] /\ q = r THEN fires[e][q] + 1 ELSE fires[e][q]
<1>1. fires' = [fires EXCEPT ![eng[c]] = [fires[eng[c]] EXCEPT ![r] = fires[eng[c]][r] + 1]]
  BY DEF FireRule
<1>2. CASE eng[c] \in Engagements
  <2>1. fires[eng[c]] \in [Rule -> Nat]
    BY <1>2
  <2> QED
    BY <1>1, <1>2, <2>1
<1>3. CASE eng[c] \notin Engagements
  BY <1>1, <1>3
<1> QED
  BY <1>2, <1>3

\* Nothing else touches the counters, and what is observed stays observed.
LEMMA InsideObserves ==
    ASSUME TypeOK, NEW c \in Connection, Inside(c), \A r \in Rule : ~FireRule(c, r)
    PROVE  UNCHANGED <<fires, acts>> /\ \A d \in Connection : obs[d] \subseteq obs'[d]
<1>1. UNCHANGED <<fires, acts>>
  BY DEF Inside, Command, EndPass, DispatchLocal, DispatchLlm, LlmReturns, LogWritten, TimePasses, obsVars
<1>2. UNCHANGED obs \/ \E raised : obs' = [obs EXCEPT ![c] = obs[c] \union raised]
  BY DEF Inside, Command, EndPass, DispatchLocal, DispatchLlm, LlmReturns, LogWritten, TimePasses
<1> QED
  BY <1>1, <1>2 DEF TypeOK

LEMMA FireOnce ==
    ASSUME TypeOK, LoopInv, TurnInv, OnceInv, NEW c \in Connection, NEW r \in Rule, FireRule(c, r), Undisturbed
    PROVE  FiredFlagged'
<1>1. /\ Numbered /\ OneKey /\ Alone /\ FiredFlagged /\ fires \in [Engagements -> [Rule -> Nat]]
  BY DEF TurnInv, OnceInv
<1>2. \A e \in Engagements, q \in Rule :
          fires'[e][q] = IF e = eng[c] /\ q = r THEN fires[e][q] + 1 ELSE fires[e][q]
  BY <1>1, FireCounts
<1>3. /\ UNCHANGED <<store, phase, who, eng, step, nextEng>> /\ obs' = [obs EXCEPT ![c] = Fire(r, obs[c])]
      /\ step[c] \in {"pass1", "pass2"} /\ Decides(r, obs[c], late[c])
  BY DEF FireRule, InPass
<1>4. phase[c] = "up" /\ Live(c)
  BY <1>3 DEF LoopInv, TypeOK, Live
<1>5. Flag[r] \notin obs[c]
  BY <1>3 DEF Decides, Enabled
<1>6. obs'[c] = Fire(r, obs[c]) /\ obs[c] \subseteq obs'[c] /\ Flag[r] \in obs'[c] /\ \A d \in Connection \ {c} : obs'[d] = obs[d]
  BY <1>3 DEF Fire, TypeOK
<1>7. \A e \in Engagements, q \in Rule : fires'[e][q] <= 1 /\ (fires'[e][q] # 0 => e < nextEng)
  <2> SUFFICES ASSUME NEW e \in Engagements, NEW q \in Rule PROVE fires'[e][q] <= 1 /\ (fires'[e][q] # 0 => e < nextEng)
    OBVIOUS
  <2>1. CASE e = eng[c] /\ q = r
    <3>1. fires[e][q] = 0
      BY <1>1, <1>4, <1>5, <2>1 DEF FiredFlagged, Up
    <3>2. fires'[e][q] = 1
      BY <1>2, <2>1, <3>1
    <3>3. e < nextEng
      BY <1>1, <1>4, <2>1 DEF Numbered
    <3> QED
      BY <3>2, <3>3
  <2>2. CASE ~(e = eng[c] /\ q = r)
    BY <1>1, <1>2, <2>2 DEF FiredFlagged
  <2> QED
    BY <2>1, <2>2
<1>8. ASSUME NEW d \in Connection, NEW q \in Rule, Up(d), eng[d] \in Engagements, fires'[eng[d]][q] # 0
      PROVE  Flag[q] \in obs'[d]
  <2>1. CASE eng[d] = eng[c] /\ q = r
    <3>1. d = c
      BY <1>1, <1>4, <1>8, <2>1 DEF OneKey, Alone, Up
    <3> QED
      BY <1>6, <2>1, <3>1
  <2>2. CASE ~(eng[d] = eng[c] /\ q = r)
    <3>1. fires[eng[d]][q] # 0
      BY <1>2, <1>8, <2>2
    <3>2. Flag[q] \in obs[d]
      BY <1>1, <1>8, <3>1 DEF FiredFlagged
    <3> QED
      BY <1>6, <3>2
  <2> QED
    BY <2>1, <2>2
<1>9. ASSUME NEW k \in Key, NEW q \in Rule, store[k] # NoState, \A d \in Connection : Live(d) => KeyFor(d) # k,
             store[k].eng \in Engagements, fires'[store[k].eng][q] # 0
      PROVE  Flag[q] \in store[k].obs
  <2>1. store[k].eng # eng[c]
    BY <1>1, <1>4, <1>9 DEF OneKey
  <2>2. fires[store[k].eng][q] # 0
    BY <1>2, <1>9, <2>1
  <2> QED
    BY <1>1, <1>9, <2>2 DEF FiredFlagged
<1> QED
  BY <1>3, <1>7, <1>8, <1>9 DEF FiredFlagged, Up, Live, KeyFor, NoState

LEMMA OpenOnce ==
    ASSUME TypeOK, LoopInv, TurnInv, OnceInv, NEW c \in Connection, NEW id \in Identity, Open(c, id), Undisturbed', Undisturbed
    PROVE  FiredFlagged'
<1>1. PICK k \in Key :
             /\ k = KeyOf[id] /\ KeyFor(c)' = k /\ phase[c] = "new" /\ phase'[c] = "up" /\ step'[c] = "idle"
             /\ conns'[c] = store[k].conns + 1
             /\ \/ store[k] # NoState /\ eng'[c] = store[k].eng /\ nextEng' = nextEng
                \/ store[k] = NoState /\ eng'[c] = nextEng /\ nextEng' = nextEng + 1
             /\ \A d \in Connection : Up(d) => KeyFor(d) # k
             /\ \A d \in Connection \ {c} : /\ phase'[d] = phase[d] /\ KeyFor(d)' = KeyFor(d) /\ step'[d] = step[d]
                                            /\ eng'[d] = eng[d] /\ conns'[d] = conns[d] /\ obs'[d] = obs[d]
             /\ UNCHANGED store
  BY OpenShape
<1>2. FiredFlagged /\ fires' = fires /\ nextEng \in Nat /\ nextEng' \in Nat /\ nextEng <= nextEng'
  BY <1>1 DEF OnceInv, Open, TypeOK
<1>3. \A e \in Engagements, q \in Rule : fires'[e][q] <= 1 /\ (fires'[e][q] # 0 => e < nextEng')
  BY <1>1, <1>2 DEF FiredFlagged, Engagements
<1>4. ASSUME NEW q \in Rule, eng'[c] \in Engagements, fires[eng'[c]][q] # 0 PROVE Flag[q] \in obs'[c]
  <2>1. CASE store[k] # NoState
    <3>1. \A d \in Connection : Live(d) => KeyFor(d) # k
      BY <1>1 DEF Live, Up
    <3>2. Flag[q] \in store[k].obs
      BY <1>1, <1>2, <1>4, <2>1, <3>1 DEF FiredFlagged
    <3>3. store[k].obs \subseteq Template
      BY DEF TypeOK, EngState
    <3>4. obs'[c] = Deserialize(store[k].obs)
      BY <1>1, <2>1 DEF Open, TypeOK
    <3> QED
      BY <3>2, <3>3, <3>4 DEF Deserialize
  <2>2. CASE store[k] = NoState
    BY <1>1, <1>2, <1>4, <2>2 DEF FiredFlagged
  <2> QED
    BY <2>1, <2>2
<1>5. ASSUME NEW d \in Connection, NEW q \in Rule, Up(d)', eng'[d] \in Engagements, fires[eng'[d]][q] # 0
      PROVE  Flag[q] \in obs'[d]
  BY <1>1, <1>2, <1>4, <1>5 DEF FiredFlagged, Up
<1>6. Live(c)' /\ \A d \in Connection \ {c} : Live(d)' <=> Live(d)
  BY <1>1 DEF Live
<1>7. ASSUME NEW j \in Key, NEW q \in Rule, store[j] # NoState, \A d \in Connection : Live(d)' => KeyFor(d)' # j,
             store[j].eng \in Engagements, fires[store[j].eng][q] # 0
      PROVE  Flag[q] \in store[j].obs
  <2>1. \A d \in Connection : Live(d) => KeyFor(d) # j
    BY <1>1, <1>6, <1>7 DEF Live
  <2> QED
    BY <1>2, <1>7, <2>1 DEF FiredFlagged
<1> QED
  BY <1>1, <1>2, <1>3, <1>5, <1>7 DEF FiredFlagged, NoState

LEMMA LostOnce ==
    ASSUME TypeOK, LoopInv, TurnInv, OnceInv, NEW c \in Connection, Lost(c), Undisturbed, faults' = faults
    PROVE  FiredFlagged'
<1>1. PICK k \in Key :
             /\ k = KeyFor(c) /\ phase[c] = "up" /\ step[c] \in {"idle", "await"} /\ step'[c] = "closing"
             /\ store'[k] = PersistentState(c) /\ \A j \in Key \ {k} : store'[j] = store[j]
             /\ \A d \in Connection \ {c} : step'[d] = step[d]
             /\ UNCHANGED <<phase, who, eng, conns, nextEng, obs, acts, logged, fires>>
  BY LostShape
<1>2. FiredFlagged /\ store'[k].eng = eng[c] /\ store'[k].obs = obs[c] /\ Up(c)
  BY <1>1 DEF OnceInv, PersistentState, Up
<1>3. \A d \in Connection \ {c} : Live(d)' <=> Live(d)
  BY <1>1 DEF Live
<1>4. ASSUME NEW j \in Key, NEW q \in Rule, store'[j] # NoState, \A d \in Connection : Live(d)' => KeyFor(d) # j,
             store'[j].eng \in Engagements, fires[store'[j].eng][q] # 0
      PROVE  Flag[q] \in store'[j].obs
  <2>1. CASE j = k
    BY <1>2, <1>4, <2>1 DEF FiredFlagged
  <2>2. CASE j # k
    BY <1>1, <1>2, <1>3, <1>4, <2>2 DEF FiredFlagged
  <2> QED
    BY <2>1, <2>2
<1> QED
  BY <1>1, <1>2, <1>4 DEF FiredFlagged, Up, KeyFor, NoState

LEMMA OnceNext == TypeOK /\ LoopInv /\ TurnInv /\ OnceInv /\ [Next]_vars => OnceInv'
<1> SUFFICES ASSUME TypeOK, LoopInv, TurnInv, OnceInv, [Next]_vars PROVE OnceInv'
  OBVIOUS
<1>1. fires' \in [Engagements -> [Rule -> Nat]]
  <2>1. UNCHANGED fires \/ \E c \in Connection, r \in Rule : FireRule(c, r)
    BY DEF Next, ConnectionStep, Open, Lost, Closed, Command, EndPass, DispatchLocal, DispatchLlm, LlmReturns,
           LogWritten, TimePasses, Crash, vars, obsVars
  <2> QED
    BY <2>1, FireCounts DEF OnceInv
<1>2. SUFFICES ASSUME Undisturbed' PROVE FiredFlagged'
  BY <1>1 DEF OnceInv
<1>3. Undisturbed /\ ~Crash /\ faults' = faults
  BY <1>2, CalmBefore
<1>4. FiredFlagged
  BY <1>3 DEF OnceInv
<1>5. ASSUME NEW c \in Connection, Inside(c) PROVE FiredFlagged'
  <2>1. CASE \E r \in Rule : FireRule(c, r)
    BY <1>3, <2>1, FireOnce
  <2>2. CASE \A r \in Rule : ~FireRule(c, r)
    <3>1. /\ UNCHANGED <<store, phase, who, eng, nextEng, fires>> /\ \A d \in Connection : obs[d] \subseteq obs'[d]
          /\ \A d \in Connection : step'[d] = "closing" <=> step[d] = "closing"
      BY <1>5, <2>2, InsideQuiet, InsideObserves
    <3>2. \A d \in Connection : (Live(d)' <=> Live(d)) /\ KeyFor(d)' = KeyFor(d) /\ (Up(d)' <=> Up(d))
      BY <3>1 DEF Live, KeyFor, Up
    <3> QED
      BY <1>4, <3>1, <3>2 DEF FiredFlagged, NoState
  <2> QED
    BY <2>1, <2>2
<1>6. ASSUME NEW c \in Connection, Closed(c) PROVE FiredFlagged'
  <2>1. /\ phase' = [phase EXCEPT ![c] = "lost"] /\ step[c] = "closing" /\ step' = [step EXCEPT ![c] = "done"]
        /\ UNCHANGED <<store, who, eng, nextEng, obs, fires>>
    BY <1>6 DEF Closed, obsVars
  <2>2. \A d \in Connection : (Live(d)' <=> Live(d)) /\ KeyFor(d)' = KeyFor(d) /\ (Up(d)' => Up(d))
    BY <2>1 DEF Live, KeyFor, Up, TypeOK
  <2> QED
    BY <1>4, <2>1, <2>2 DEF FiredFlagged, NoState
<1>7. CASE UNCHANGED vars
  BY <1>4, <1>7 DEF FiredFlagged, NoState, vars, connVars, obsVars, Up, Live, KeyFor
<1> QED
  BY <1>3, <1>2, <1>5, <1>6, <1>7, OpenOnce, LostOnce DEF Next, ConnectionStep, Inside

\* A rule fires once in the life of an engagement and its connections are
\* numbered apart, for any number of connections, identities and rules' worth
\* of observations, as long as they take turns and nothing fails: the flag
\* survives the save and the restore (to_persistent_state, decide_action).
THEOREM AlwaysOnceIfUndisturbed == Spec => []OnceIfUndisturbed
<1>1. Spec => [](TypeOK /\ LoopInv)
  BY DrainInvHolds, PTL DEF DrainInv
<1>2. Init => OnceInv
  <2> SUFFICES ASSUME Init PROVE OnceInv
    OBVIOUS
  <2>1. fires = [e \in Engagements |-> [r \in Rule |-> 0]]
    BY DEF Init
  <2>2. fires \in [Engagements -> [Rule -> Nat]] /\ \A e \in Engagements, r \in Rule : fires[e][r] = 0
    BY <2>1
  <2>3. \A c \in Connection : ~Up(c)
    BY DEF Init, Up
  <2>4. \A k \in Key : store[k] = NoState
    BY DEF Init
  <2> QED
    BY <2>2, <2>3, <2>4 DEF OnceInv, FiredFlagged
<1>3. TypeOK /\ LoopInv /\ TurnInv /\ OnceInv => OnceIfUndisturbed
  <2> SUFFICES ASSUME TypeOK, TurnInv, OnceInv, Undisturbed PROVE OnceIfUndisturbed
    BY DEF OnceIfUndisturbed
  <2>1. Numbered /\ Apart /\ FiredFlagged
    BY DEF TurnInv, OnceInv
  <2>2. \A c, d \in Connection : c # d /\ eng[c] = eng[d] /\ eng[c] # 0 => conns[c] # conns[d]
    BY <2>1 DEF Numbered, Apart
  <2> QED
    BY <2>1, <2>2 DEF FiredFlagged, OnceIfUndisturbed
<1> QED
  BY <1>1, <1>2, <1>3, TurnInvHolds, OnceNext, PTL DEF Spec

-----------------------------------------------------------------------------
(* What is remembered is logged                                            *)

LEMMA RuleNames ==
    Rule = {"reverse_shell", "ssh_persistence", "honeytoken_tamper", "dns_exfil", "llm_proven", "llm_detected",
            "lateral_decoy", "log_tampering", "credential_exfil", "decoy_swallowed", "credential_search",
            "payload_staging", "plant_sudo", "spawn_mysql", "isolate", "plant_aws"}
<1>1. Rule = {Ladder[i] : i \in 1..16}
  BY LadderLength DEF Rule
<1>2. \A i \in 1..16 : i = 1 \/ i = 2 \/ i = 3 \/ i = 4 \/ i = 5 \/ i = 6 \/ i = 7 \/ i = 8 \/ i = 9 \/ i = 10
                       \/ i = 11 \/ i = 12 \/ i = 13 \/ i = 14 \/ i = 15 \/ i = 16
  OBVIOUS
<1>3. /\ Ladder[1] = "reverse_shell" /\ Ladder[2] = "ssh_persistence" /\ Ladder[3] = "honeytoken_tamper"
      /\ Ladder[4] = "dns_exfil" /\ Ladder[5] = "llm_proven" /\ Ladder[6] = "llm_detected"
      /\ Ladder[7] = "lateral_decoy" /\ Ladder[8] = "log_tampering" /\ Ladder[9] = "credential_exfil"
      /\ Ladder[10] = "decoy_swallowed" /\ Ladder[11] = "credential_search" /\ Ladder[12] = "payload_staging"
      /\ Ladder[13] = "plant_sudo" /\ Ladder[14] = "spawn_mysql" /\ Ladder[15] = "isolate" /\ Ladder[16] = "plant_aws"
  BY DEF Ladder
<1> QED
  BY <1>1, <1>2, <1>3

\* No two rules share a flag, and no flag is an observation.
LEMMA FlagsApart ==
    /\ \A r, q \in Rule : Flag[r] = Flag[q] => r = q
    /\ \A r \in Rule : Flag[r] \notin Signals
<1>1. \A r, q \in Rule : Flag[r] = Flag[q] => r = q
  BY RuleNames DEF Flag
<1>2. \A r \in Rule, n \in DOMAIN Needs : Flag[r] # Needs[n]
  BY RuleNames DEF Flag, Needs
<1>3. \A r \in Rule : Flag[r] \notin PayloadDrops
  BY RuleNames DEF Flag, PayloadDrops
<1> QED
  BY <1>1, <1>2, <1>3 DEF Signals

\* Only its own alert sets the flag of one of these rules.
LEMMA FlagFrom ==
    ASSUME TypeOK, NEW c \in Connection, Inside(c), NEW r \in Own, Flag[r] \in obs'[c]
    PROVE  Flag[r] \in obs[c] \/ r \in acts'[c]
<1>1. r \in Rule /\ r # "plant_aws" /\ r # "llm_detected" /\ {"plant_aws", "llm_detected"} \subseteq Rule
  BY RuleNames DEF Own
<1>2. ASSUME NEW q \in Rule, FireRule(c, q) PROVE Flag[r] \in obs[c] \/ r \in acts'[c]
  <2>1. obs'[c] = Fire(q, obs[c]) /\ acts'[c] = acts[c] \union {q}
    BY <1>2 DEF FireRule, TypeOK
  <2>2. Flag[r] # Flag["llm_detected"]
    BY <1>1, FlagsApart
  <2>3. Flag[r] \in obs[c] \/ Flag[r] = Flag[q]
    BY <2>1, <2>2 DEF Fire
  <2> QED
    BY <1>1, <2>1, <2>3, FlagsApart
<1>3. CASE Command(c)
  <2>1. PICK raised \in SUBSET CmdObs : obs' = [obs EXCEPT ![c] = obs[c] \union raised]
    BY <1>3 DEF Command
  <2>2. Flag["plant_aws"] = "found_crown_jewel"
    BY DEF Flag
  <2>3. Flag[r] \notin raised
    BY <1>1, <2>1, <2>2, FlagsApart, ObsAssumption
  <2> QED
    BY <2>1, <2>3 DEF TypeOK
<1>4. CASE DispatchLocal(c)
  <2>1. "decoys_swallowed" \in Signals /\ "credential_files_read" \in Signals
    <3>1. Needs["decoy_swallowed"] = "decoys_swallowed" /\ "decoy_swallowed" \in DOMAIN Needs
      BY DEF Needs
    <3>2. Needs["credential_exfil"] = "credential_files_read" /\ "credential_exfil" \in DOMAIN Needs
      BY DEF Needs
    <3> QED
      BY <3>1, <3>2 DEF Signals
  <2>2. PICK raised : raised \subseteq Signals /\ obs' = [obs EXCEPT ![c] = obs[c] \union raised]
    BY <1>4, <2>1, ObsAssumption DEF DispatchLocal, DecoyRead
  <2>3. Flag[r] \notin raised
    BY <1>1, <2>2, FlagsApart
  <2> QED
    BY <2>2, <2>3 DEF TypeOK
<1>5. CASE UNCHANGED obs
  BY <1>5
<1> QED
  BY <1>2, <1>3, <1>4, <1>5 DEF Inside, EndPass, DispatchLlm, LlmReturns, LogWritten, TimePasses

\* A log that is finished stays as it is.
LEMMA LogsStay ==
    ASSUME TypeOK, LoopInv, [Next]_vars, NEW e, NEW r, InLog(e, r) PROVE InLog(e, r)'
<1>1. PICK d \in Connection : phase[d] = "lost" /\ eng[d] = e /\ r \in logged[d]
  BY DEF InLog
<1>2. step[d] = "done"
  BY <1>1 DEF LoopInv
<1>3. ASSUME NEW c \in Connection, ConnectionStep(c) PROVE phase'[d] = "lost" /\ eng'[d] = eng[d] /\ logged'[d] = logged[d]
  <2>1. CASE Inside(c)
    BY <1>1, <2>1, InsideQuiet
  <2>2. ASSUME NEW id \in Identity, Open(c, id) PROVE phase'[d] = "lost" /\ eng'[d] = eng[d] /\ logged'[d] = logged[d]
    BY <1>1, <2>2 DEF Open, TypeOK
  <2>3. CASE Lost(c)
    BY <1>1, <2>3 DEF Lost
  <2>4. CASE Closed(c)
    BY <1>1, <1>2, <2>4 DEF Closed, TypeOK
  <2> QED
    BY <1>3, <2>1, <2>2, <2>3, <2>4 DEF ConnectionStep, Inside
<1>4. CASE Crash
  BY <1>1, <1>4 DEF InLog, Crash, Up, TypeOK
<1>5. CASE UNCHANGED vars
  BY <1>1, <1>5 DEF InLog, vars, connVars
<1> QED
  BY <1>1, <1>3, <1>4, <1>5 DEF InLog, Next

LEMMA OpenLog ==
    ASSUME TypeOK, LoopInv, TurnInv, LogInv, NEW c \in Connection, NEW id \in Identity, Open(c, id), Undisturbed', Undisturbed
    PROVE  FlaggedLogged'
<1>1. PICK k \in Key :
             /\ k = KeyOf[id] /\ KeyFor(c)' = k /\ phase[c] = "new" /\ phase'[c] = "up" /\ step'[c] = "idle"
             /\ conns'[c] = store[k].conns + 1
             /\ \/ store[k] # NoState /\ eng'[c] = store[k].eng /\ nextEng' = nextEng
                \/ store[k] = NoState /\ eng'[c] = nextEng /\ nextEng' = nextEng + 1
             /\ \A d \in Connection : Up(d) => KeyFor(d) # k
             /\ \A d \in Connection \ {c} : /\ phase'[d] = phase[d] /\ KeyFor(d)' = KeyFor(d) /\ step'[d] = step[d]
                                            /\ eng'[d] = eng[d] /\ conns'[d] = conns[d] /\ obs'[d] = obs[d]
             /\ UNCHANGED store
  BY OpenShape
<1>2. FlaggedLogged /\ UNCHANGED <<acts, logged>> /\ run = NoOne
  BY DEF LogInv, Open
<1>3. \A e, r : InLog(e, r) => InLog(e, r)'
  BY LogsStay DEF Next, ConnectionStep
<1>4. \A d \in Connection : step[d] # "closing"
  BY <1>2, NoOneAssumption DEF LoopInv
<1>5. \A j \in Key, r \in Own : Flag[r] \in store[j].obs => InLog(store[j].eng, r)
  BY <1>2, <1>4 DEF FlaggedLogged
<1>6. ASSUME NEW r \in Own, Flag[r] \in obs'[c] PROVE InLog(eng'[c], r)
  <2>1. CASE store[k] # NoState
    <3>1. obs'[c] = Deserialize(store[k].obs)
      BY <1>1, <2>1 DEF Open, TypeOK
    <3> QED
      BY <1>1, <1>5, <1>6, <2>1, <3>1 DEF Deserialize
  <2>2. CASE store[k] = NoState
    <3>1. obs'[c] = {}
      BY <1>1, <2>2 DEF Open, TurnInv, Numbered, NoState
    <3> QED
      BY <1>6, <3>1
  <2> QED
    BY <2>1, <2>2
<1>7. ASSUME NEW d \in Connection, NEW r \in Own, Up(d)', Flag[r] \in obs'[d] PROVE r \in acts[d] \/ InLog(eng'[d], r)
  BY <1>1, <1>2, <1>6, <1>7 DEF FlaggedLogged, Up
<1>8. ASSUME NEW d \in Connection, NEW r \in Own, Up(d)', Flag[r] \in obs'[d] PROVE r \in acts'[d] \/ InLog(eng[d], r)'
  <2>1. PICK e : e = eng'[d]
    OBVIOUS
  <2>2. r \in acts[d] \/ InLog(e, r)
    BY <1>7, <1>8, <2>1
  <2>3. r \in acts[d] \/ InLog(e, r)'
    BY <1>3, <2>2
  <2> QED
    BY <1>2, <2>1, <2>3 DEF InLog
<1>9. ASSUME NEW j \in Key, NEW r \in Own, Flag[r] \in store'[j].obs PROVE InLog(store[j].eng, r)'
  <2>1. PICK e : e = store[j].eng
    OBVIOUS
  <2>2. InLog(e, r)'
    BY <1>1, <1>3, <1>5, <1>9, <2>1
  <2> QED
    BY <1>1, <2>1, <2>2 DEF InLog
<1> QED
  BY <1>8, <1>9 DEF FlaggedLogged

LEMMA LostLog ==
    ASSUME TypeOK, LoopInv, LogInv, NEW c \in Connection, Lost(c), Undisturbed, faults' = faults
    PROVE  FlaggedLogged'
<1>1. PICK k \in Key :
             /\ k = KeyFor(c) /\ phase[c] = "up" /\ step[c] \in {"idle", "await"} /\ step'[c] = "closing"
             /\ store'[k] = PersistentState(c) /\ \A j \in Key \ {k} : store'[j] = store[j]
             /\ \A d \in Connection \ {c} : step'[d] = step[d]
             /\ UNCHANGED <<phase, who, eng, conns, nextEng, obs, acts, logged, fires>>
  BY LostShape
<1>2. FlaggedLogged /\ store'[k].eng = eng[c] /\ store'[k].obs = obs[c] /\ Up(c) /\ run = NoOne
  BY <1>1 DEF LogInv, PersistentState, Up, Lost
<1>3. \A e, r : InLog(e, r)' <=> InLog(e, r)
  BY <1>1 DEF InLog
<1>4. \A d \in Connection : step[d] # "closing"
  BY <1>2, NoOneAssumption DEF LoopInv
<1>5. ASSUME NEW d \in Connection, NEW r \in Own, Up(d)', Flag[r] \in obs'[d] PROVE r \in acts'[d] \/ InLog(eng[d], r)'
  BY <1>1, <1>2, <1>5 DEF FlaggedLogged, Up, InLog
<1>6. ASSUME NEW j \in Key, NEW r \in Own, Flag[r] \in store'[j].obs
      PROVE  \/ InLog(store[j].eng, r)'
             \/ \E d \in Connection : step'[d] = "closing" /\ eng'[d] = store'[j].eng /\ r \in acts'[d]
  <2>1. PICK e : e = store'[j].eng
    OBVIOUS
  <2>2. CASE j = k
    <3>1. e = eng[c] /\ Flag[r] \in obs[c]
      BY <1>2, <1>6, <2>1, <2>2
    <3>2. r \in acts[c] \/ InLog(e, r)
      BY <1>2, <3>1 DEF FlaggedLogged
    <3>3. (r \in acts'[c] /\ step'[c] = "closing" /\ eng'[c] = store'[j].eng) \/ InLog(e, r)'
      BY <1>1, <1>3, <2>1, <3>1, <3>2
    <3> QED
      BY <2>1, <3>3 DEF InLog
  <2>3. CASE j # k
    <3>1. InLog(e, r)
      BY <1>1, <1>2, <1>4, <1>6, <2>1, <2>3 DEF FlaggedLogged
    <3>2. InLog(e, r)'
      BY <1>3, <3>1
    <3> QED
      BY <2>1, <3>2 DEF InLog
  <2> QED
    BY <2>2, <2>3
<1> QED
  BY <1>5, <1>6 DEF FlaggedLogged

LEMMA ClosedLog ==
    ASSUME TypeOK, LoopInv, LogInv, NEW c \in Connection, Closed(c), Undisturbed, faults' = faults
    PROVE  FlaggedLogged'
<1>1. /\ phase' = [phase EXCEPT ![c] = "lost"] /\ step[c] = "closing" /\ step' = [step EXCEPT ![c] = "done"]
      /\ UNCHANGED <<store, who, eng, obs, acts>> /\ logged' = [logged EXCEPT ![c] = acts[c]] /\ run = c
  BY DEF Closed, TypeOK
<1>2. FlaggedLogged
  BY DEF LogInv
<1>3. \A e, r : InLog(e, r) => InLog(e, r)'
  BY LogsStay DEF Next, ConnectionStep
<1>4. \A r : r \in acts[c] => InLog(eng[c], r)'
  BY <1>1 DEF InLog, TypeOK
<1>5. \A d \in Connection : step[d] = "closing" => d = c
  BY <1>1 DEF LoopInv
<1>6. ASSUME NEW d \in Connection, NEW r \in Own, Up(d)', Flag[r] \in obs'[d] PROVE r \in acts'[d] \/ InLog(eng[d], r)'
  <2>1. PICK e : e = eng[d]
    OBVIOUS
  <2>2. r \in acts[d] \/ InLog(e, r)
    BY <1>1, <1>2, <1>6, <2>1 DEF FlaggedLogged, Up, TypeOK
  <2>3. r \in acts'[d] \/ InLog(e, r)'
    BY <1>1, <1>3, <2>2
  <2> QED
    BY <1>1, <2>1, <2>3 DEF InLog
<1>7. ASSUME NEW j \in Key, NEW r \in Own, Flag[r] \in store'[j].obs PROVE InLog(store[j].eng, r)'
  <2>1. PICK e : e = store[j].eng
    OBVIOUS
  <2>2. InLog(e, r) \/ (eng[c] = e /\ r \in acts[c])
    BY <1>1, <1>2, <1>5, <1>7, <2>1 DEF FlaggedLogged
  <2>3. InLog(e, r)'
    <3>1. CASE InLog(e, r)
      BY <1>3, <3>1
    <3>2. CASE eng[c] = e /\ r \in acts[c]
      BY <1>1, <3>2 DEF InLog, TypeOK
    <3> QED
      BY <2>2, <3>1, <3>2
  <2> QED
    BY <1>1, <2>1, <2>3 DEF InLog
<1> QED
  BY <1>6, <1>7 DEF FlaggedLogged

LEMMA InsideLog ==
    ASSUME TypeOK, LoopInv, LogInv, NEW c \in Connection, Inside(c), Undisturbed
    PROVE  FlaggedLogged'
<1>1. /\ UNCHANGED <<store, phase, who, eng>> /\ phase[c] = "up"
      /\ \A d \in Connection : step'[d] = "closing" <=> step[d] = "closing"
      /\ \A d \in Connection \ {c} : obs'[d] = obs[d] /\ acts'[d] = acts[d] /\ logged'[d] = logged[d]
  BY InsideQuiet
<1>2. FlaggedLogged
  BY DEF LogInv
<1>3. acts[c] \subseteq acts'[c]
  <2>1. CASE \E r \in Rule : FireRule(c, r)
    BY <2>1 DEF FireRule, TypeOK
  <2>2. CASE \A r \in Rule : ~FireRule(c, r)
    BY <2>2, InsideObserves
  <2> QED
    BY <2>1, <2>2
<1>4. \A e, r : InLog(e, r) => InLog(e, r)'
  BY <1>1 DEF InLog
<1>5. ASSUME NEW d \in Connection, NEW r \in Own, Up(d)', Flag[r] \in obs'[d] PROVE r \in acts'[d] \/ InLog(eng[d], r)'
  <2>1. PICK e : e = eng[d]
    OBVIOUS
  <2>2. Flag[r] \in obs[d] \/ r \in acts'[d]
    BY <1>1, <1>5, FlagFrom
  <2>3. Flag[r] \in obs[d] => r \in acts[d] \/ InLog(e, r)
    BY <1>1, <1>2, <1>5, <2>1 DEF FlaggedLogged, Up
  <2>4. r \in acts'[d] \/ InLog(e, r)'
    BY <1>1, <1>3, <1>4, <2>2, <2>3
  <2> QED
    BY <1>1, <2>1, <2>4 DEF InLog
<1>6. ASSUME NEW j \in Key, NEW r \in Own, Flag[r] \in store'[j].obs
      PROVE  \/ InLog(store[j].eng, r)'
             \/ \E d \in Connection : step'[d] = "closing" /\ eng'[d] = store'[j].eng /\ r \in acts'[d]
  <2>1. PICK e : e = store[j].eng
    OBVIOUS
  <2>2. InLog(e, r) \/ \E d \in Connection : step[d] = "closing" /\ eng[d] = e /\ r \in acts[d]
    BY <1>1, <1>2, <1>6, <2>1 DEF FlaggedLogged
  <2>3. InLog(e, r)' \/ \E d \in Connection : step'[d] = "closing" /\ eng'[d] = e /\ r \in acts'[d]
    BY <1>1, <1>3, <1>4, <2>2
  <2> QED
    BY <1>1, <2>1, <2>3 DEF InLog
<1> QED
  BY <1>5, <1>6 DEF FlaggedLogged

\* An alert the store remembers is in a finished log, for any number of
\* connections, keys and observations, as long as nothing fails
\* (connection_lost, write_session_log).
THEOREM RememberedAlertAlwaysLogged == Spec => []RememberedAlertIsLogged
<1>1. Spec => [](TypeOK /\ LoopInv)
  BY DrainInvHolds, PTL DEF DrainInv
<1>2. Init => LogInv
  BY DEF Init, LogInv, FlaggedLogged, Up, NoState
<1>3. TypeOK /\ LoopInv /\ TurnInv /\ LogInv /\ [Next]_vars => LogInv'
  <2> SUFFICES ASSUME TypeOK, LoopInv, TurnInv, LogInv, [Next]_vars, Undisturbed' PROVE FlaggedLogged'
    BY DEF LogInv
  <2>1. Undisturbed /\ ~Crash /\ faults' = faults
    BY CalmBefore
  <2>2. CASE UNCHANGED vars
    <3>1. UNCHANGED <<store, phase, eng, obs, acts, logged, step>>
      BY <2>2 DEF vars, connVars
    <3> QED
      BY <2>1, <3>1 DEF LogInv, FlaggedLogged, InLog, Up
  <2> QED
    BY <2>1, <2>2, OpenLog, LostLog, ClosedLog, InsideLog DEF Next, ConnectionStep, Inside
<1>4. TypeOK /\ LoopInv /\ LogInv => RememberedAlertIsLogged
  <2> SUFFICES ASSUME TypeOK, LoopInv, LogInv, Undisturbed, run = NoOne, NEW k \in Key, NEW r \in Own,
                      Flag[r] \in store[k].obs
               PROVE  \E c \in Connection : eng[c] = store[k].eng /\ r \in logged[c]
    BY DEF RememberedAlertIsLogged, Own
  <2>1. \A d \in Connection : step[d] # "closing"
    BY NoOneAssumption DEF LoopInv
  <2> QED
    BY <2>1 DEF LogInv, FlaggedLogged, InLog
<1> QED
  BY <1>1, <1>2, <1>3, <1>4, TurnInvHolds, PTL DEF Spec
=============================================================================
