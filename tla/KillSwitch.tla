------------------------------ MODULE KillSwitch ------------------------------
(***************************************************************************)
(* The kill switch of the honeypot: operators (threads of the dashboard    *)
(* and API processes) record kill requests in one shared JSON file, and    *)
(* the SSH server's single poller reads the file into an in-memory view    *)
(* and closes the matching live connections.                               *)
(*                                                                         *)
(*   plenith/kill_queue.py   the file: request_kill, cancel, mark_killed   *)
(*   plenith/ssh_server.py   the poller, the live registry, the worker     *)
(*                                                                         *)
(* A queue operation is a load followed by an atomic rename; nothing locks *)
(* the file in between, so the two halves are separate steps here and      *)
(* other processes interleave.  Inside the SSH server everything between   *)
(* two awaits is one stretch: while `pc` is not "idle" no connection       *)
(* callback and no other worker runs, but operators and the clock do.      *)
(***************************************************************************)
EXTENDS Integers, FiniteSets

CONSTANTS
    Engagement,   \* engagement ids
    Connection,   \* HoneypotSession objects; each is opened at most once
    Operator,     \* threads of other processes that use the queue
    GcTtl,        \* _GC_TTL_SECONDS
    MaxClock,     \* bound on the clock
    MaxClicks,    \* bound on kill requests
    MaxFaults,    \* bound on failing file writes
    NoOne         \* not a Connection

ASSUME TtlAssumption   == GcTtl \in Nat
ASSUME BoundAssumption == MaxClock \in Nat /\ MaxClicks \in Nat /\ MaxFaults \in Nat
ASSUME NoOneAssumption == NoOne \notin Connection

VARIABLES
    clock,      \* time.time()
    file,       \* kill_requests.json
    opPc,       \* per operator: "idle", or "write" between load and rename
    opData,     \* per operator: the dict it is about to write
    opReq,      \* observer: the engagement an operator acts on, and when it clicked (-1: undo)
    view,       \* _PENDING_VIEW
    phase,      \* per connection: "new", "up" (in _LIVE_SESSIONS), "lost"
    eid,        \* per connection: _session.engagement_id
    started,    \* per connection: _conn_started
    closed,     \* per connection: _closed
    chanOpen,   \* per connection: the SSH channel has not been closed
    worker,     \* per connection: "none", "idle", "busy" (in handle_command), "dead"
    pc,         \* the server's event loop: "idle", "dispatch", "discard", "mark"
    by,         \* who runs _apply_kill: "tick" or "worker"
    cur,        \* the connection _apply_kill is applied to
    data,       \* the dict the server is about to write
    todo,       \* live connections the current tick has still to visit
    clicks,     \* observer: per engagement, the times Kill was clicked
    killReq,    \* observer: per connection, the requested_at it was killed for, or -1
    faults      \* observer: failed writes so far

opVars   == <<opPc, opData, opReq>>
connVars == <<phase, eid, started, closed, chanOpen, worker, killReq>>
srvVars  == <<pc, by, cur, data, todo>>
vars     == <<clock, file, opVars, view, connVars, srvVars, clicks, faults>>

Status   == {"none", "pending", "killed"}
Entry    == [status : Status, at : Nat, killedAt : Nat]
NoEntry  == [status |-> "none", at |-> 0, killedAt |-> 0]
NoFile   == [e \in Engagement |-> NoEntry]
Pending(entry) == entry.status = "pending"

Live(c) == phase[c] = "up"

-----------------------------------------------------------------------------
(* kill_queue.py                                                           *)

\* _gc: completed entries older than the TTL are dropped, pending ones never.
Gc(d) == [e \in Engagement |->
            IF d[e].status = "killed" /\ d[e].killedAt < clock - GcTtl
            THEN NoEntry ELSE d[e]]

\* The entry request_kill writes; a pending request keeps its original time.
RequestEntry(existing) ==
    [status   |-> "pending",
     at       |-> IF Pending(existing) THEN existing.at ELSE clock,
     killedAt |-> 0]

\* Slip: mark_killed leaves the time it killed unset.
WithKilled_NoTime(d, e) == [d EXCEPT ![e] = [status |-> "killed", at |-> @.at]]

\* The three mutations, from the dict that was loaded to the dict written back.
WithRequest(d, e) == [d EXCEPT ![e] = RequestEntry(d[e])]
Without(d, e)     == [d EXCEPT ![e] = NoEntry]
WithKilled(d, e)  == [d EXCEPT ![e].status = "killed", ![e].killedAt = clock]

Clicks == UNION {{<<e, t>> : t \in clicks[e]} : e \in Engagement}

\* request_kill up to its write.
RequestKill(o, e) ==
    /\ opPc[o] = "idle"
    /\ Cardinality(Clicks) < MaxClicks
    /\ opPc'   = [opPc EXCEPT ![o] = "write"]
    /\ opData' = [opData EXCEPT ![o] = WithRequest(Gc(file), e)]
    /\ opReq'  = [opReq EXCEPT ![o] = [eng |-> e, at |-> clock]]
    /\ clicks' = [clicks EXCEPT ![e] = @ \union {clock}]
    /\ UNCHANGED <<clock, file, view, connVars, srvVars, faults>>

\* cancel (the dashboard's undo) up to its write; not pending: returns False.
CancelKill(o, e) ==
    /\ opPc[o] = "idle"
    /\ Pending(Gc(file)[e])
    /\ opPc'   = [opPc EXCEPT ![o] = "write"]
    /\ opData' = [opData EXCEPT ![o] = Without(Gc(file), e)]
    /\ opReq'  = [opReq EXCEPT ![o] = [eng |-> e, at |-> -1]]
    /\ UNCHANGED <<clock, file, view, connVars, srvVars, clicks, faults>>

\* _atomic_write: the whole dict replaces the file.
OperatorWrite(o) ==
    /\ opPc[o] = "write"
    /\ opPc' = [opPc EXCEPT ![o] = "idle"]
    /\ opData' = [opData EXCEPT ![o] = NoFile]
    /\ file' = opData[o]
    /\ UNCHANGED <<clock, opReq, view, connVars, srvVars, clicks, faults>>

\* _atomic_write raises: the temporary file is unlinked, the caller sees it.
OperatorWriteFails(o) ==
    /\ opPc[o] = "write"
    /\ faults < MaxFaults
    /\ faults' = faults + 1
    /\ opPc' = [opPc EXCEPT ![o] = "idle"]
    /\ opData' = [opData EXCEPT ![o] = NoFile]
    /\ UNCHANGED <<clock, file, opReq, view, connVars, srvVars, clicks>>

-----------------------------------------------------------------------------
(* ssh_server.py                                                           *)

\* connection_made: stamp the connection, register it under its engagement
\* (restored for a returning identity, so several connections may share one),
\* start its worker.
ConnectionMade(c) ==
    /\ pc = "idle"
    /\ phase[c] = "new"
    /\ phase'    = [phase EXCEPT ![c] = "up"]
    /\ started'  = [started EXCEPT ![c] = clock]
    /\ chanOpen' = [chanOpen EXCEPT ![c] = TRUE]
    /\ worker'   = [worker EXCEPT ![c] = "idle"]
    /\ UNCHANGED <<clock, file, opVars, view, eid, closed, srvVars, clicks, killReq, faults>>

\* connection_lost: cancel the worker, leave the registry.
ConnectionLost(c) ==
    /\ pc = "idle"
    /\ phase[c] = "up"
    /\ phase'    = [phase EXCEPT ![c] = "lost"]
    /\ closed'   = [closed EXCEPT ![c] = TRUE]
    /\ chanOpen' = [chanOpen EXCEPT ![c] = FALSE]
    /\ worker'   = [worker EXCEPT ![c] = "dead"]
    /\ UNCHANGED <<clock, file, opVars, view, eid, started, srvVars, clicks, killReq, faults>>

\* Slip: the poller passes over sessions that are inside handle_command.
ToVisit_SkipBusy(v) ==
    {c \in Connection : Live(c) /\ worker[c] # "busy" /\ Pending(v[eid[c]])}

\* The first half of _kill_poll_once: one read of the queue, the pending
\* entries become the view, and every live connection of theirs is to be visited.
PendingOnly(d) == [e \in Engagement |-> IF Pending(d[e]) THEN d[e] ELSE NoEntry]
ToVisit(v) == {c \in Connection : Live(c) /\ Pending(v[eid[c]])}

PollRead ==
    /\ pc = "idle"
    /\ \E c \in Connection : phase[c] # "new"
    /\ view' = PendingOnly(Gc(file))
    /\ todo' = ToVisit(view')
    /\ pc'   = IF todo' = {} THEN "idle" ELSE "dispatch"
    /\ UNCHANGED <<clock, file, opVars, connVars, by, cur, data, clicks, faults>>

\* A tick goes on to its next connection after _apply_kill(c) returned.
NextVisit(c) ==
    /\ todo' = todo \ {c}
    /\ pc'   = IF todo \ {c} = {} THEN "idle" ELSE "dispatch"

\* _run_worker with a command in hand and nothing to kill: a blank line is
\* answered with a prompt, exit closes, anything else awaits handle_command.
RunCommand(c) ==
    \/ UNCHANGED <<closed, chanOpen, worker>>
    \/ /\ closed'   = [closed EXCEPT ![c] = TRUE]
       /\ chanOpen' = [chanOpen EXCEPT ![c] = FALSE]
       /\ worker'   = [worker EXCEPT ![c] = "dead"]
    \/ /\ worker'   = [worker EXCEPT ![c] = "busy"]
       /\ UNCHANGED <<closed, chanOpen>>

\* _apply_kill(c) returned False: a tick visits the next connection, a worker
\* goes on with the line it holds.
ResumeAlive(c, who) ==
    \/ /\ who = "tick"
       /\ NextVisit(c)
       /\ UNCHANGED <<closed, chanOpen, worker>>
    \/ /\ who = "worker"
       /\ pc' = "idle"
       /\ RunCommand(c)
       /\ UNCHANGED todo

\* Slip: the session is marked closed but chan.close() is forgotten.
ResumeKilled_NoClose(c, who) ==
    /\ \/ who = "tick" /\ NextVisit(c) /\ UNCHANGED worker
       \/ /\ who = "worker"
          /\ pc' = "idle"
          /\ worker' = [worker EXCEPT ![c] = "dead"]
          /\ UNCHANGED todo
    /\ UNCHANGED chanOpen

\* _apply_kill(c) closes the channel and returns True: a worker stops.
ResumeKilled(c, who) ==
    /\ chanOpen' = [chanOpen EXCEPT ![c] = FALSE]
    /\ \/ who = "tick" /\ NextVisit(c) /\ UNCHANGED worker
       \/ /\ who = "worker"
          /\ pc' = "idle"
          /\ worker' = [worker EXCEPT ![c] = "dead"]
          /\ UNCHANGED todo

\* The server enters the load-to-write window of cancel or mark_killed.
Loaded(c, who, where, d) ==
    /\ pc' = where
    /\ by' = who
    /\ cur' = c
    /\ data' = d

\* Slip: any pending request is honoured.
Stale_Never(c) == FALSE

Stale(c) == view[eid[c]].at < started[c]

\* _apply_kill on a request older than the connection: cancel() loads the
\* file; without a pending entry there it returns False and nothing is written.
ApplyDiscard(c, who) ==
    /\ ~closed[c]
    /\ Stale(c)
    /\ \/ /\ Pending(Gc(file)[eid[c]])
          /\ Loaded(c, who, "discard", Without(Gc(file), eid[c]))
          /\ UNCHANGED <<todo, closed, chanOpen, worker>>
       \/ /\ ~Pending(Gc(file)[eid[c]])
          /\ ResumeAlive(c, who)
          /\ UNCHANGED <<by, cur, data>>
    /\ UNCHANGED killReq

\* _apply_kill on a request raised against this connection: _closed is set,
\* mark_killed loads the file; without an entry there it writes nothing.
ApplyHonour(c, who) ==
    /\ ~closed[c]
    /\ ~Stale(c)
    /\ closed'  = [closed EXCEPT ![c] = TRUE]
    /\ killReq' = [killReq EXCEPT ![c] = view[eid[c]].at]
    /\ \/ /\ file[eid[c]].status # "none"
          /\ Loaded(c, who, "mark", WithKilled(file, eid[c]))
          /\ UNCHANGED <<todo, chanOpen, worker>>
       \/ /\ file[eid[c]].status = "none"
          /\ ResumeKilled(c, who)
          /\ UNCHANGED <<by, cur, data>>

\* The second half of _kill_poll_once: visit one connection.
Dispatch(c) ==
    /\ pc = "dispatch"
    /\ c \in todo
    /\ \/ ApplyDiscard(c, "tick")
       \/ ApplyHonour(c, "tick")
       \/ /\ closed[c]
          /\ NextVisit(c)
          /\ UNCHANGED <<closed, chanOpen, worker, killReq, by, data, cur>>
    /\ UNCHANGED <<clock, file, opVars, view, phase, eid, started, clicks, faults>>

\* The write of cancel() or mark_killed() and what follows it in _apply_kill.
ServerWrite ==
    /\ file' = data
    /\ cur' = NoOne
    /\ data' = NoFile
    /\ by' = "tick"
    /\ \/ pc = "discard" /\ ResumeAlive(cur, by)
       \/ pc = "mark"    /\ ResumeKilled(cur, by) /\ UNCHANGED closed
    /\ UNCHANGED <<clock, opVars, view, phase, eid, started, killReq, clicks, faults>>

\* The write raises out of _apply_kill: a tick is abandoned (the poller logs
\* and goes on), a worker task ends; chan.close() is not reached.
ServerWriteFails ==
    /\ pc \in {"discard", "mark"}
    /\ faults < MaxFaults
    /\ faults' = faults + 1
    /\ pc' = "idle"
    /\ todo' = {}
    /\ worker' = IF by = "worker" THEN [worker EXCEPT ![cur] = "dead"] ELSE worker
    /\ cur' = NoOne
    /\ data' = NoFile
    /\ by' = "tick"
    /\ UNCHANGED <<clock, file, opVars, view, phase, eid, started, closed, chanOpen,
                   killReq, clicks>>

\* Slip: the worker does not look at _closed before it runs the next line.
WorkerTurn_Unchecked(c) ==
    /\ pc = "idle"
    /\ worker[c] = "idle"
    /\ RunCommand(c)
    /\ UNCHANGED <<killReq, srvVars>>
    /\ UNCHANGED <<clock, file, opVars, view, phase, eid, started, clicks, faults>>

\* One turn of _run_worker with a queued line: a closed session ends the
\* worker; a request in the view goes through _apply_kill first (the fast
\* path, no file read); otherwise the line runs.
WorkerTurn(c) ==
    /\ pc = "idle"
    /\ worker[c] = "idle"
    /\ \/ /\ closed[c]
          /\ worker' = [worker EXCEPT ![c] = "dead"]
          /\ UNCHANGED <<closed, chanOpen, killReq, srvVars>>
       \/ /\ ~closed[c]
          /\ ~Pending(view[eid[c]])
          /\ RunCommand(c)
          /\ UNCHANGED <<killReq, srvVars>>
       \/ /\ Pending(view[eid[c]])
          /\ ApplyDiscard(c, "worker") \/ ApplyHonour(c, "worker")
    /\ UNCHANGED <<clock, file, opVars, view, phase, eid, started, clicks, faults>>

\* handle_command returned: the answer is written through _safe_write, which
\* marks the session closed when the pipe is broken.
CommandDone(c) ==
    /\ pc = "idle"
    /\ worker[c] = "busy"
    /\ worker' = [worker EXCEPT ![c] = "idle"]
    /\ \/ UNCHANGED closed
       \/ closed' = [closed EXCEPT ![c] = TRUE]
    /\ UNCHANGED <<clock, file, opVars, view, phase, eid, started, chanOpen, killReq,
                   srvVars, clicks, faults>>

ClockTick ==
    /\ clock < MaxClock
    /\ clock' = clock + 1
    /\ UNCHANGED <<file, opVars, view, connVars, srvVars, clicks, faults>>

-----------------------------------------------------------------------------
Init ==
    /\ clock = 0
    /\ file = NoFile
    /\ opPc = [o \in Operator |-> "idle"]
    /\ opData = [o \in Operator |-> NoFile]
    /\ opReq \in [Operator -> [eng : Engagement, at : {-1}]]
    /\ view = NoFile
    /\ phase = [c \in Connection |-> "new"]
    /\ eid \in [Connection -> Engagement]
    /\ started = [c \in Connection |-> 0]
    /\ closed = [c \in Connection |-> FALSE]
    /\ chanOpen = [c \in Connection |-> FALSE]
    /\ worker = [c \in Connection |-> "none"]
    /\ pc = "idle"
    /\ by = "tick"
    /\ cur = NoOne
    /\ data = NoFile
    /\ todo = {}
    /\ clicks = [e \in Engagement |-> {}]
    /\ killReq = [c \in Connection |-> -1]
    /\ faults = 0

ServerReturns == ServerWrite \/ ServerWriteFails
Visit == \E c \in Connection : Dispatch(c)

OperatorStep(o) ==
    \/ \E e \in Engagement : RequestKill(o, e) \/ CancelKill(o, e)
    \/ OperatorWrite(o)
    \/ OperatorWriteFails(o)

ConnectionStep(c) ==
    \/ ConnectionMade(c)
    \/ ConnectionLost(c)
    \/ WorkerTurn(c)
    \/ CommandDone(c)

Next ==
    \/ \E o \in Operator : OperatorStep(o)
    \/ \E c \in Connection : ConnectionStep(c)
    \/ PollRead
    \/ Visit
    \/ ServerReturns
    \/ ClockTick

\* The poller's loop never ends and a tick, once begun, is one synchronous
\* call whose file operations return: the server's own progress.  Operators,
\* clients and the clock promise nothing.
Fairness == WF_vars(PollRead) /\ WF_vars(Visit) /\ WF_vars(ServerReturns)

Spec     == Init /\ [][Next]_vars
FairSpec == Spec /\ Fairness

-----------------------------------------------------------------------------
(* Properties                                                              *)

File == [Engagement -> Entry]

QueueTypes ==
    /\ clock \in Nat
    /\ file \in File
    /\ opPc \in [Operator -> {"idle", "write"}]
    /\ opData \in [Operator -> File]
    /\ opReq \in [Operator -> [eng : Engagement, at : Int]]
    /\ clicks \in [Engagement -> SUBSET Nat]
    /\ faults \in Nat

ConnectionTypes ==
    /\ phase \in [Connection -> {"new", "up", "lost"}]
    /\ eid \in [Connection -> Engagement]
    /\ started \in [Connection -> Nat]
    /\ closed \in [Connection -> BOOLEAN]
    /\ chanOpen \in [Connection -> BOOLEAN]
    /\ worker \in [Connection -> {"none", "idle", "busy", "dead"}]
    /\ killReq \in [Connection -> Int]

LoopTypes ==
    /\ view \in File
    /\ pc \in {"idle", "dispatch", "discard", "mark"}
    /\ by \in {"tick", "worker"}
    /\ cur \in Connection \union {NoOne}
    /\ data \in File
    /\ todo \in SUBSET Connection

\* Every variable has the shape the code gives it: the queue and its users,
\* the connections, the server's event loop.
TypeOK == QueueTypes /\ ConnectionTypes /\ LoopTypes

\* A connection is killed only for a click made after it opened: whatever
\* operators, ticks and stale views interleave, a reconnect of the same
\* engagement never inherits the kill of its predecessor (_apply_kill).
NoInheritedKill ==
    \A c \in Connection :
        killReq[c] # -1 => \E t \in clicks[eid[c]] : t >= started[c]

\* Once a tick that saw a pending request is over, no connection older than
\* that request is left running: the tick visited every one of them, even when
\* an earlier visit of the same tick already cancelled the entry or marked it
\* killed (_kill_poll_once, _apply_kill).  A failed write aborts the tick.
SeenKillSparesNoOne ==
    pc = "idle" /\ faults = 0 =>
        \A c \in Connection :
            Live(c) /\ ~closed[c] /\ Pending(view[eid[c]])
                => view[eid[c]].at <= started[c]

\* No command starts on a session that was killed or closed: queued lines are
\* dropped; at most the command already awaited runs to its end (_run_worker).
NoCommandAfterKill ==
    [][\A c \in Connection :
        closed[c] /\ worker'[c] = "busy" => worker[c] = "busy"]_vars

\* A pending request newer than a live connection does not linger: the
\* connection ends or the request leaves the queue (_run_shared_kill_poller).
PendingKillIsServed ==
    \A c \in Connection :
        (Live(c) /\ ~closed[c] /\ Pending(file[eid[c]]) /\ file[eid[c]].at > started[c])
            ~> (closed[c] \/ ~Pending(file[eid[c]]))

\* A kill that was honoured closes the SSH channel (_apply_kill).
HonouredKillClosesChannel ==
    \A c \in Connection : (killReq[c] # -1) ~> ~chanOpen[c]

\* A kill that request_kill accepts against a live connection is one that
\* connection honours ("will terminate on next orchestrator tick").
AcceptedKillReachesLive ==
    [][\A o \in Operator :
        opPc[o] = "write" /\ opPc'[o] = "idle" /\ faults' = faults =>
            \A c \in Connection :
                Live(c) /\ eid[c] = opReq[o].eng /\ started[c] < opReq[o].at
                    => file'[eid[c]].at >= started[c]]_vars

-----------------------------------------------------------------------------
(* The inductive strengthening behind NoInheritedKill and                  *)
(* SeenKillSparesNoOne.                                                    *)

\* A pending entry, wherever a copy of it is held, carries the time of a click.
EntriesClicked(d) == \A e \in Engagement : Pending(d[e]) => d[e].at \in clicks[e]

CopiesInv ==
    /\ EntriesClicked(file)
    /\ EntriesClicked(view)
    /\ EntriesClicked(data)
    /\ \A o \in Operator : EntriesClicked(opData[o])

\* Nothing is stamped with a time to come.
TimeInv ==
    /\ \A e \in Engagement : \A t \in clicks[e] : t <= clock
    /\ \A c \in Connection : started[c] <= clock

\* What the event loop is doing agrees with what it holds.
LoopInv ==
    /\ pc = "idle" \/ by = "worker" => todo = {}
    /\ pc \in {"idle", "dispatch"} => by = "tick"
    /\ \A c \in todo : Live(c) /\ Pending(view[eid[c]])
    /\ pc = "discard" => cur \in Connection /\ Live(cur) /\ ~closed[cur] /\ Stale(cur)
    /\ pc = "mark" => cur \in Connection /\ closed[cur]
    /\ \A c \in Connection : worker[c] \in {"idle", "busy"} => Live(c)

KillInv ==
    \A c \in Connection : killReq[c] # -1 =>
        /\ phase[c] # "new"
        /\ killReq[c] \in clicks[eid[c]]
        /\ killReq[c] >= started[c]

\* In a tick, the connections already visited are ended or younger than the request.
VisitInv ==
    faults = 0 =>
        \A c \in Connection :
            Live(c) /\ ~closed[c] /\ Pending(view[eid[c]]) /\ c \notin todo
                => view[eid[c]].at <= started[c]

IInv == TypeOK /\ CopiesInv /\ TimeInv /\ LoopInv /\ KillInv /\ VisitInv
=============================================================================
