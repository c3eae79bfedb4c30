------------------------------ MODULE Engagement ------------------------------
(***************************************************************************)
(* An engagement across connections: what a connection restores from the   *)
(* state store, what its commands add, which rules fire and are logged,    *)
(* and what is saved when it ends.                                         *)
(*                                                                         *)
(*   plenith/session.py, state_store.py     restore, observe, save         *)
(*   plenith/orchestrator.py                handle_command, its two passes *)
(*   plenith/responses.py                   the decoys a rule plants       *)
(*   plenith/ssh_server.py, session_logger.py   connection_lost, the log   *)
(*                                                                         *)
(* The server is one event loop: `run` is the connection whose synchronous *)
(* stretch is under way.  Only the await on the language model, and        *)
(* waiting for a line, let other connections in.  A crash can hit at any   *)
(* step.                                                                   *)
(***************************************************************************)
EXTENDS Heuristics

CONSTANTS
    Connection,  \* HoneypotSession objects; each is opened at most once
    Identity,    \* (source_ip, claimed_user) pairs
    Key,         \* file names of the state store
    KeyOf,       \* _safe_key: Identity -> Key
    CmdObs,      \* observations a command's text can raise in this instance
    EventObs,    \* observations a file event can raise in this instance
    Cap,         \* the bound of the loop in _maybe_record_action, 20
    MaxCommands, \* bound on commands
    MaxFaults,   \* bound on failed writes
    MaxCrashes,  \* bound on crashes
    NoOne        \* not a Connection

ASSUME KeyAssumption   == KeyOf \in [Identity -> Key]
ASSUME ObsAssumption   == /\ CmdObs \subseteq Signals \union {"found_crown_jewel"}
                          /\ EventObs \subseteq Signals
ASSUME CapAssumption   == /\ Cap \in Nat /\ Cap > Len(Ladder) /\ MaxCommands \in Nat
                          /\ MaxFaults \in Nat /\ MaxCrashes \in Nat
ASSUME NoOneAssumption == NoOne \notin Connection

VARIABLES
    store,     \* per key: the persisted engagement
    phase,     \* per connection: "new", "up", "lost"
    who,       \* per connection: its (ip, user)
    eng,       \* per connection: engagement_id
    conns,     \* per connection: connection_count
    obs,       \* per connection: observed
    planted,   \* per connection: observed["decoys_planted"]
    honey,     \* per connection: the decoys in honeytokens.files
    late,      \* per connection: time_elapsed > 600
    acts,      \* per connection: the rules in actions_taken
    logged,    \* per connection: the rules in its log file on disk
    step,      \* per connection: where its command is
    run,       \* the connection the event loop is running, or NoOne
    iter,      \* iterations of the running pass
    nextEng,   \* the next fresh engagement_id
    fires,     \* observer: how often each rule fired, per engagement
    shared,    \* observer: keys that two live connections shared
    commands, faults, crashes

connVars == <<phase, who, eng, conns, obs, planted, honey, late, acts, step>>
obsVars  == <<fires, shared>>
vars     == <<store, connVars, logged, run, iter, nextEng, obsVars, commands, faults, crashes>>

Engagements == 1..Cardinality(Connection)
NoState     == [eng |-> 0, conns |-> 0, obs |-> {}, planted |-> {}]
Up(c)       == phase[c] = "up"
KeyFor(c)   == KeyOf[who[c]]

-----------------------------------------------------------------------------
(* Opening and closing a connection                                        *)

\* Slip: one alerted_* flag is missing from the template of _fresh_observed.
Deserialize_DropsFlag(saved) == saved \intersect (Template \ {"alerted_reverse_shell"})

\* _deserialize_observed: keys that the template does not have are dropped.
Deserialize(saved) == saved \intersect Template

\* Session.__init__: resume the engagement filed under the key, or begin one.
\* Honeytokens are generated anew: a decoy planted earlier is not among them.
Open(c, id) ==
    LET prior == store[KeyOf[id]] IN
    /\ run = NoOne
    /\ phase[c] = "new"
    /\ phase'   = [phase EXCEPT ![c] = "up"]
    /\ who'     = [who EXCEPT ![c] = id]
    /\ \/ /\ prior # NoState
          /\ eng'     = [eng EXCEPT ![c] = prior.eng]
          /\ conns'   = [conns EXCEPT ![c] = prior.conns + 1]
          /\ obs'     = [obs EXCEPT ![c] = Deserialize(prior.obs)]
          /\ planted' = [planted EXCEPT ![c] = prior.planted]
          /\ UNCHANGED nextEng
       \/ /\ prior = NoState
          /\ eng'     = [eng EXCEPT ![c] = nextEng]
          /\ conns'   = [conns EXCEPT ![c] = 1]
          /\ nextEng' = nextEng + 1
          /\ UNCHANGED <<obs, planted>>
    /\ step'    = [step EXCEPT ![c] = "idle"]
    /\ shared'  = shared \union
                    {k \in {KeyOf[id]} : \E d \in Connection : Up(d) /\ KeyFor(d) = k}
    /\ UNCHANGED <<store, honey, late, acts, logged, run, iter, fires, commands, faults, crashes>>

\* Slip: the connection saves the count it found, not its own.
PersistentState_OldCount(c) ==
    [eng |-> eng[c], conns |-> conns[c] - 1, obs |-> obs[c], planted |-> planted[c]]

\* to_persistent_state: the record a connection leaves in the store.
PersistentState(c) ==
    [eng |-> eng[c], conns |-> conns[c], obs |-> obs[c], planted |-> planted[c]]

\* connection_lost up to the log: the worker is cancelled wherever it awaits,
\* and the state is saved (a failed save is logged and leaves the old file).
Lost(c) ==
    /\ run = NoOne
    /\ Up(c)
    /\ run'  = c
    /\ step' = [step EXCEPT ![c] = "closing"]
    /\ \/ /\ store' = [store EXCEPT ![KeyFor(c)] = PersistentState(c)]
          /\ UNCHANGED faults
       \/ /\ faults < MaxFaults
          /\ faults' = faults + 1
          /\ UNCHANGED store
    /\ UNCHANGED <<phase, who, eng, conns, obs, planted, honey, late, acts, logged, iter,
                   nextEng, obsVars, commands, crashes>>

-----------------------------------------------------------------------------
(* A command                                                               *)

\* handle_command up to the first pass: update_observations.
Command(c) ==
    /\ run = NoOne
    /\ step[c] = "idle"
    /\ commands < MaxCommands
    /\ commands' = commands + 1
    /\ \E raised \in SUBSET CmdObs :
          obs' = [obs EXCEPT ![c] = @ \union raised]
    /\ step' = [step EXCEPT ![c] = "pass1"]
    /\ run'  = c
    /\ iter' = 0
    /\ UNCHANGED <<store, phase, who, eng, conns, planted, honey, late, acts, logged,
                   nextEng, obsVars, faults, crashes>>

InPass(c) == run = c /\ step[c] \in {"pass1", "pass2"}

\* One turn of _maybe_record_action: the ladder decides a rule, the action is
\* recorded, and its executor plants its decoy (plant_decoy).
FireRule(c, r) ==
    /\ InPass(c)
    /\ iter < Cap
    /\ Decides(r, obs[c], late[c])
    /\ obs'     = [obs EXCEPT ![c] = Fire(r, @)]
    /\ acts'    = [acts EXCEPT ![c] = @ \union {r}]
    /\ planted' = [planted EXCEPT ![c] = @ \union DecoyOf(r)]
    /\ honey'   = [honey EXCEPT ![c] = @ \union (DecoyOf(r) \intersect CredentialDecoy)]
    /\ iter'    = iter + 1
    /\ fires'   = [fires EXCEPT ![eng[c]][r] = @ + 1]
    /\ UNCHANGED <<store, phase, who, eng, conns, late, logged, step, run, nextEng, shared,
                   commands, faults, crashes>>

\* A pass ends when nothing is decided or the loop is used up.  After the
\* second one the command is recorded and the log is opened for writing,
\* which truncates it; an error there is swallowed and the file keeps its old
\* contents or is left truncated.
EndPass(c) ==
    /\ InPass(c)
    /\ iter = Cap \/ DecidesNone(obs[c], late[c])
    /\ \/ /\ step[c] = "pass1"
          /\ step' = [step EXCEPT ![c] = "dispatch"]
          /\ UNCHANGED <<logged, faults, run>>
       \/ /\ step[c] = "pass2"
          /\ step' = [step EXCEPT ![c] = "logging"]
          /\ logged' = [logged EXCEPT ![c] = {}]
          /\ UNCHANGED <<faults, run>>
       \/ /\ step[c] = "pass2"
          /\ faults < MaxFaults
          /\ faults' = faults + 1
          /\ step' = [step EXCEPT ![c] = "idle"]
          /\ run' = NoOne
          /\ logged' \in {logged, [logged EXCEPT ![c] = {}]}
    /\ UNCHANGED <<store, phase, who, eng, conns, obs, planted, honey, late, acts, iter,
                   nextEng, obsVars, commands, crashes>>

\* A read of a planted decoy: swallowed, and a credential read while the
\* session's honeytokens know the file.
DecoyRead(c, d) ==
    {"decoys_swallowed"} \union (IF d \in honey[c] THEN {"credential_files_read"} ELSE {})

\* Slip: the second pass is left out.
DispatchLocal_OnePass(c) ==
    /\ run = c
    /\ step[c] = "dispatch"
    /\ \E raised \in (SUBSET EventObs) \union {DecoyRead(c, d) : d \in planted[c]} :
          obs' = [obs EXCEPT ![c] = @ \union raised]
    /\ step' = [step EXCEPT ![c] = "logging"]
    /\ UNCHANGED <<store, phase, who, eng, conns, planted, honey, late, acts, logged, run, iter,
                   nextEng, obsVars, commands, faults, crashes>>

\* _dispatch by a local handler: file events are observed, then the second pass.
DispatchLocal(c) ==
    /\ run = c
    /\ step[c] = "dispatch"
    /\ \E raised \in (SUBSET EventObs) \union {DecoyRead(c, d) : d \in planted[c]} :
          obs' = [obs EXCEPT ![c] = @ \union raised]
    /\ step' = [step EXCEPT ![c] = "pass2"]
    /\ iter' = 0
    /\ UNCHANGED <<store, phase, who, eng, conns, planted, honey, late, acts, logged, run,
                   nextEng, obsVars, commands, faults, crashes>>

\* _dispatch by the language model: the event loop is free until it answers.
DispatchLlm(c) ==
    /\ run = c
    /\ step[c] = "dispatch"
    /\ step' = [step EXCEPT ![c] = "await"]
    /\ run'  = NoOne
    /\ UNCHANGED <<store, phase, who, eng, conns, obs, planted, honey, late, acts, logged,
                   iter, nextEng, obsVars, commands, faults, crashes>>

\* The model answered, or its error became the answer: the second pass runs.
LlmReturns(c) ==
    /\ run = NoOne
    /\ step[c] = "await"
    /\ step' = [step EXCEPT ![c] = "pass2"]
    /\ run'  = c
    /\ iter' = 0
    /\ UNCHANGED <<store, phase, who, eng, conns, obs, planted, honey, late, acts, logged,
                   nextEng, obsVars, commands, faults, crashes>>

\* write_session_log: the whole session is dumped into the truncated file.
LogWritten(c) ==
    /\ run = c
    /\ step[c] = "logging"
    /\ logged' = [logged EXCEPT ![c] = acts[c]]
    /\ step' = [step EXCEPT ![c] = "idle"]
    /\ run'  = NoOne
    /\ UNCHANGED <<store, phase, who, eng, conns, obs, planted, honey, late, acts, iter,
                   nextEng, obsVars, commands, faults, crashes>>

\* Slip: connection_lost ends after the save.
Closed_NoLog(c) ==
    /\ run = c
    /\ step[c] = "closing"
    /\ phase' = [phase EXCEPT ![c] = "lost"]
    /\ step'  = [step EXCEPT ![c] = "done"]
    /\ run'   = NoOne
    /\ UNCHANGED <<store, who, eng, conns, obs, planted, honey, late, acts, logged, iter,
                   nextEng, obsVars, commands, faults, crashes>>

\* The end of connection_lost: the final log, or a logged exception.
Closed(c) ==
    /\ run = c
    /\ step[c] = "closing"
    /\ phase' = [phase EXCEPT ![c] = "lost"]
    /\ step'  = [step EXCEPT ![c] = "done"]
    /\ run'   = NoOne
    /\ \/ /\ logged' = [logged EXCEPT ![c] = acts[c]]
          /\ UNCHANGED faults
       \/ /\ faults < MaxFaults
          /\ faults' = faults + 1
          /\ logged' \in {logged, [logged EXCEPT ![c] = {}]}
    /\ UNCHANGED <<store, who, eng, conns, obs, planted, honey, late, acts, iter, nextEng,
                   obsVars, commands, crashes>>

-----------------------------------------------------------------------------
(* The environment                                                         *)

\* A connection passes its 600th second.
TimePasses(c) ==
    /\ Up(c)
    /\ ~late[c]
    /\ late' = [late EXCEPT ![c] = TRUE]
    /\ UNCHANGED <<store, phase, who, eng, conns, obs, planted, honey, acts, step, logged,
                   run, iter, nextEng, obsVars, commands, faults, crashes>>

\* The server process dies: connection_lost is not called for anyone.
Crash ==
    /\ crashes < MaxCrashes
    /\ \E c \in Connection : Up(c)
    /\ crashes' = crashes + 1
    /\ phase' = [c \in Connection |-> IF Up(c) THEN "lost" ELSE phase[c]]
    /\ step'  = [c \in Connection |-> IF Up(c) THEN "done" ELSE step[c]]
    /\ run'   = NoOne
    /\ UNCHANGED <<store, who, eng, conns, obs, planted, honey, late, acts, logged, iter,
                   nextEng, obsVars, commands, faults>>

-----------------------------------------------------------------------------
Init ==
    /\ store = [k \in Key |-> NoState]
    /\ phase = [c \in Connection |-> "new"]
    /\ who \in {[c \in Connection |-> i] : i \in Identity}
    /\ eng = [c \in Connection |-> 0]
    /\ conns = [c \in Connection |-> 0]
    /\ obs = [c \in Connection |-> {}]
    /\ planted = [c \in Connection |-> {}]
    /\ honey = [c \in Connection |-> {}]
    /\ late = [c \in Connection |-> FALSE]
    /\ acts = [c \in Connection |-> {}]
    /\ logged = [c \in Connection |-> {}]
    /\ step = [c \in Connection |-> "new"]
    /\ run = NoOne
    /\ iter = 0
    /\ nextEng = 1
    /\ fires = [e \in Engagements |-> [r \in Rule |-> 0]]
    /\ shared = {}
    /\ commands = 0
    /\ faults = 0
    /\ crashes = 0

ConnectionStep(c) ==
    \/ \E id \in Identity : Open(c, id)
    \/ Lost(c)
    \/ Closed(c)
    \/ Command(c)
    \/ \E r \in Rule : FireRule(c, r)
    \/ EndPass(c)
    \/ DispatchLocal(c)
    \/ DispatchLlm(c)
    \/ LlmReturns(c)
    \/ LogWritten(c)
    \/ TimePasses(c)

Next == Crash \/ \E c \in Connection : ConnectionStep(c)

Spec == Init /\ [][Next]_vars

-----------------------------------------------------------------------------
(* Properties                                                              *)

EngState == [eng : Nat, conns : Nat, obs : SUBSET Template, planted : SUBSET Decoy]

\* Every variable has the shape the code gives it.
TypeOK ==
    /\ store \in [Key -> EngState]
    /\ phase \in [Connection -> {"new", "up", "lost"}]
    /\ who \in [Connection -> Identity]
    /\ eng \in [Connection -> Nat]
    /\ conns \in [Connection -> Nat]
    /\ obs \in [Connection -> SUBSET Template]
    /\ planted \in [Connection -> SUBSET Decoy]
    /\ honey \in [Connection -> SUBSET Decoy]
    /\ late \in [Connection -> BOOLEAN]
    /\ acts \in [Connection -> SUBSET Rule]
    /\ logged \in [Connection -> SUBSET Rule]
    /\ step \in [Connection -> {"new", "idle", "pass1", "dispatch", "await", "pass2",
                                "logging", "closing", "done"}]
    /\ run \in Connection \union {NoOne}
    /\ iter \in 0..Cap
    /\ nextEng \in Nat
    /\ shared \in SUBSET Key
    /\ faults \in Nat /\ crashes \in Nat /\ commands \in Nat

\* Connections of the identity took turns, and nothing failed.
Undisturbed == shared = {} /\ faults = 0 /\ crashes = 0

\* A rule fires once in the life of an engagement, over any number of
\* reconnects, as long as its connections do not overlap and every save
\* succeeds: the flag outlives the connection that set it (decide_action,
\* to_persistent_state, _deserialize_observed).  Its connections are numbered
\* apart (connection_count).
OnceIfUndisturbed ==
    Undisturbed =>
        /\ \A e \in Engagements, r \in Rule : fires[e][r] <= 1
        /\ \A c, d \in Connection :
              c # d /\ eng[c] = eng[d] /\ eng[c] # 0 => conns[c] # conns[d]

\* Between commands nothing observed is waiting for its alert: two passes of at
\* most Cap rules drain the ladder, also after a reconnect and while a
\* language-model answer is outstanding (handle_command, _maybe_record_action).
\* The time rule is left out: its clock runs between commands too.
LadderDrained ==
    \A c \in Connection :
        Up(c) /\ run # c /\ step[c] \in {"idle", "await"}
            => \A r \in Rule \ {"plant_aws"} : ~Enabled(r, obs[c], late[c])

\* An alert the store remembers, and so will never raise again, is in a log
\* the dashboard reads: connection_lost saves before it logs, and the two agree
\* once it is over, unless one of them fails or the server dies.  The flags of
\* plant_aws and llm_detected are also set without their own alert.
RememberedAlertIsLogged ==
    Undisturbed /\ run = NoOne =>
        \A k \in Key, r \in Rule \ {"plant_aws", "llm_detected"} :
            Flag[r] \in store[k].obs =>
                \E c \in Connection : eng[c] = store[k].eng /\ r \in logged[c]
=============================================================================
