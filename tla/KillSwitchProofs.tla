--------------------------- MODULE KillSwitchProofs ---------------------------
(* Proofs that the kill switch never carries a kill over to a reconnect and *)
(* never spares a connection that a tick should have ended, for any number  *)
(* of engagements, connections, operators, clicks and failed writes.        *)
EXTENDS KillSwitch, TLAPS

USE NoOneAssumption DEF Status, Entry, NoEntry

\* _gc returns a dict of the same shape whose pending entries are untouched.
LEMMA GcKeepsPending ==
    ASSUME NEW d \in File, clock \in Nat
    PROVE  /\ Gc(d) \in File
           /\ \A e \in Engagement : Pending(Gc(d)[e]) => Gc(d)[e] = d[e]
  BY TtlAssumption DEF Gc, File, Pending

\* The three queue mutations return dicts of the same shape.
LEMMA QueueOpsType ==
    ASSUME NEW d \in File, NEW e \in Engagement, clock \in Nat
    PROVE  /\ WithRequest(d, e) \in File
           /\ Without(d, e) \in File
           /\ WithKilled(d, e) \in File
  BY DEF WithRequest, Without, WithKilled, RequestEntry, File, Pending

LEMMA NoFileType == NoFile \in File /\ (\A e \in Engagement : ~Pending(NoFile[e]))
  BY DEF NoFile, File, Pending

\* An entry's fields, and the view built from a dict.
LEMMA EntryTypes ==
    ASSUME NEW d \in File
    PROVE  /\ \A e \in Engagement : d[e] \in Entry /\ d[e].at \in Nat
           /\ PendingOnly(d) \in File
           /\ \A e \in Engagement : Pending(PendingOnly(d)[e]) =>
                Pending(d[e]) /\ PendingOnly(d)[e] = d[e]
  BY DEF File, PendingOnly, Pending

LEMMA InitIInv == Init => IInv
  <1> SUFFICES ASSUME Init PROVE IInv
    OBVIOUS
  <1>1. TypeOK
    BY NoFileType DEF Init, TypeOK, QueueTypes, ConnectionTypes, LoopTypes
  <1>2. CopiesInv /\ TimeInv /\ LoopInv /\ KillInv /\ VisitInv
    BY NoFileType DEF Init, CopiesInv, EntriesClicked, TimeInv, LoopInv, KillInv, VisitInv
  <1> QED BY <1>1, <1>2 DEF IInv

\* _apply_kill, called by a tick or by a worker, keeps the types.
LEMMA ApplyTypes ==
    ASSUME TypeOK, NEW c \in Connection, NEW who \in {"tick", "worker"},
           ApplyDiscard(c, who) \/ ApplyHonour(c, who),
           UNCHANGED <<phase, eid, started, view>>
    PROVE  ConnectionTypes' /\ LoopTypes'
  <1> DEFINE e == eid[c]
  <1>1. e \in Engagement /\ view[e].at \in Nat
    BY EntryTypes DEF TypeOK, ConnectionTypes, LoopTypes
  <1>2. Without(Gc(file), e) \in File /\ WithKilled(file, e) \in File
    BY <1>1, GcKeepsPending, QueueOpsType DEF TypeOK, QueueTypes
  <1> HIDE DEF e
  <1>3. CASE ApplyDiscard(c, who)
    <2>1. ConnectionTypes'
      BY <1>3 DEF TypeOK, ConnectionTypes, ApplyDiscard, ResumeAlive, RunCommand
    <2>2. LoopTypes'
      BY <1>2, <1>3 DEF TypeOK, LoopTypes, ApplyDiscard, ResumeAlive, Loaded, NextVisit, e
    <2> QED BY <2>1, <2>2
  <1>4. CASE ApplyHonour(c, who)
    <2>1. ConnectionTypes'
      <3>1. (killReq \in [Connection -> Int])'
        BY <1>1, <1>4 DEF TypeOK, ConnectionTypes, ApplyHonour, e
      <3>2. /\ (closed \in [Connection -> BOOLEAN])'
            /\ (chanOpen \in [Connection -> BOOLEAN])'
        BY <1>4 DEF TypeOK, ConnectionTypes, ApplyHonour, ResumeKilled
      <3>3. (worker \in [Connection -> {"none", "idle", "busy", "dead"}])'
        BY <1>4 DEF TypeOK, ConnectionTypes, ApplyHonour, ResumeKilled
      <3> QED BY <3>1, <3>2, <3>3 DEF TypeOK, ConnectionTypes
    <2>2. LoopTypes'
      BY <1>2, <1>4 DEF TypeOK, LoopTypes, ApplyHonour, ResumeKilled, Loaded, NextVisit, e
    <2> QED BY <2>1, <2>2
  <1> QED BY <1>3, <1>4

\* Every step keeps every variable in its type.
LEMMA TypeStep == TypeOK /\ LoopInv /\ [Next]_vars => TypeOK'
  <1> SUFFICES ASSUME TypeOK, LoopInv, [Next]_vars PROVE TypeOK'
    OBVIOUS
  <1> USE DEF TypeOK, opVars, connVars, srvVars
  <1>1. ASSUME NEW o \in Operator, NEW e \in Engagement, RequestKill(o, e) PROVE TypeOK'
    <2>1. QueueTypes' BY <1>1, GcKeepsPending, QueueOpsType DEF QueueTypes, LoopTypes, RequestKill
    <2>2. ConnectionTypes' BY <1>1, GcKeepsPending, QueueOpsType DEF ConnectionTypes, LoopTypes, RequestKill
    <2>3. LoopTypes' BY <1>1, GcKeepsPending, QueueOpsType DEF QueueTypes, ConnectionTypes, LoopTypes, RequestKill
    <2> QED BY <2>1, <2>2, <2>3
  <1>2. ASSUME NEW o \in Operator, NEW e \in Engagement, CancelKill(o, e) PROVE TypeOK'
    <2>1. QueueTypes' BY <1>2, GcKeepsPending, QueueOpsType DEF QueueTypes, LoopTypes, CancelKill
    <2>2. ConnectionTypes' BY <1>2, GcKeepsPending, QueueOpsType DEF ConnectionTypes, LoopTypes, CancelKill
    <2>3. LoopTypes' BY <1>2, GcKeepsPending, QueueOpsType DEF QueueTypes, ConnectionTypes, LoopTypes, CancelKill
    <2> QED BY <2>1, <2>2, <2>3
  <1>3. ASSUME NEW o \in Operator, OperatorWrite(o) PROVE TypeOK'
    <2>1. QueueTypes' BY <1>3, NoFileType DEF QueueTypes, LoopTypes, OperatorWrite
    <2>2. ConnectionTypes' BY <1>3, NoFileType DEF ConnectionTypes, LoopTypes, OperatorWrite
    <2>3. LoopTypes' BY <1>3, NoFileType DEF QueueTypes, ConnectionTypes, LoopTypes, OperatorWrite
    <2> QED BY <2>1, <2>2, <2>3
  <1>4. ASSUME NEW o \in Operator, OperatorWriteFails(o) PROVE TypeOK'
    <2>1. QueueTypes' BY <1>4, NoFileType DEF QueueTypes, LoopTypes, OperatorWriteFails
    <2>2. ConnectionTypes' BY <1>4, NoFileType DEF ConnectionTypes, LoopTypes, OperatorWriteFails
    <2>3. LoopTypes' BY <1>4, NoFileType DEF QueueTypes, ConnectionTypes, LoopTypes, OperatorWriteFails
    <2> QED BY <2>1, <2>2, <2>3
  <1>5. ASSUME NEW c \in Connection, ConnectionMade(c) PROVE TypeOK'
    <2>1. QueueTypes' BY <1>5 DEF QueueTypes, LoopTypes, ConnectionMade
    <2>2. ConnectionTypes' BY <1>5 DEF QueueTypes, ConnectionTypes, ConnectionMade
    <2>3. LoopTypes' BY <1>5 DEF QueueTypes, ConnectionTypes, LoopTypes, ConnectionMade
    <2> QED BY <2>1, <2>2, <2>3
  <1>6. ASSUME NEW c \in Connection, ConnectionLost(c) PROVE TypeOK'
    <2>1. QueueTypes' BY <1>6 DEF QueueTypes, LoopTypes, ConnectionLost
    <2>2. ConnectionTypes' BY <1>6 DEF ConnectionTypes, LoopTypes, ConnectionLost
    <2>3. LoopTypes' BY <1>6 DEF QueueTypes, ConnectionTypes, LoopTypes, ConnectionLost
    <2> QED BY <2>1, <2>2, <2>3
  <1>7. ASSUME NEW c \in Connection, WorkerTurn(c) PROVE TypeOK'
    <2>1. QueueTypes' BY <1>7 DEF QueueTypes, WorkerTurn
    <2>2. CASE ApplyDiscard(c, "worker") \/ ApplyHonour(c, "worker")
      BY <1>7, <2>1, <2>2, ApplyTypes DEF WorkerTurn
    <2>3. CASE ~(ApplyDiscard(c, "worker") \/ ApplyHonour(c, "worker"))
      BY <1>7, <2>1, <2>3 DEF ConnectionTypes, LoopTypes, WorkerTurn, RunCommand
    <2> QED BY <2>2, <2>3
  <1>8. ASSUME NEW c \in Connection, CommandDone(c) PROVE TypeOK'
    <2>1. QueueTypes' BY <1>8 DEF QueueTypes, LoopTypes, CommandDone
    <2>2. ConnectionTypes' BY <1>8 DEF ConnectionTypes, LoopTypes, CommandDone
    <2>3. LoopTypes' BY <1>8 DEF QueueTypes, ConnectionTypes, LoopTypes, CommandDone
    <2> QED BY <2>1, <2>2, <2>3
  <1>9. CASE PollRead
    <2>1. QueueTypes' BY <1>9, GcKeepsPending, NoFileType DEF QueueTypes, LoopTypes, PollRead, ToVisit
    <2>2. ConnectionTypes' BY <1>9, GcKeepsPending, NoFileType DEF ConnectionTypes, LoopTypes, PollRead, ToVisit
    <2>3. LoopTypes' BY <1>9, GcKeepsPending, EntryTypes DEF QueueTypes, ConnectionTypes, LoopTypes, PollRead, ToVisit
    <2> QED BY <2>1, <2>2, <2>3
  <1>10. ASSUME NEW c \in Connection, Dispatch(c) PROVE TypeOK'
    <2>1. QueueTypes' BY <1>10 DEF QueueTypes, Dispatch
    <2>2. CASE ApplyDiscard(c, "tick") \/ ApplyHonour(c, "tick")
      BY <1>10, <2>1, <2>2, ApplyTypes DEF Dispatch
    <2>3. CASE ~(ApplyDiscard(c, "tick") \/ ApplyHonour(c, "tick"))
      BY <1>10, <2>1, <2>3 DEF ConnectionTypes, LoopTypes, Dispatch, NextVisit
    <2> QED BY <2>2, <2>3
  <1>11. CASE ServerWrite
    <2>1. QueueTypes' BY <1>11, NoFileType DEF QueueTypes, LoopTypes, ServerWrite, ResumeAlive, ResumeKilled, NextVisit, RunCommand, LoopInv
    <2>2. ConnectionTypes' BY <1>11, NoFileType DEF ConnectionTypes, LoopTypes, ServerWrite, ResumeAlive, ResumeKilled, NextVisit, RunCommand, LoopInv
    <2>3. LoopTypes' BY <1>11, NoFileType DEF QueueTypes, ConnectionTypes, LoopTypes, ServerWrite, ResumeAlive, ResumeKilled, NextVisit, RunCommand, LoopInv
    <2> QED BY <2>1, <2>2, <2>3
  <1>12. CASE ServerWriteFails
    <2>1. QueueTypes' BY <1>12, NoFileType DEF QueueTypes, LoopTypes, ServerWriteFails
    <2>2. ConnectionTypes' BY <1>12, NoFileType DEF ConnectionTypes, LoopTypes, ServerWriteFails
    <2>3. LoopTypes' BY <1>12, NoFileType DEF QueueTypes, ConnectionTypes, LoopTypes, ServerWriteFails
    <2> QED BY <2>1, <2>2, <2>3
  <1>13. CASE ClockTick
    <2>1. QueueTypes' BY <1>13 DEF QueueTypes, LoopTypes, ClockTick
    <2>2. ConnectionTypes' BY <1>13 DEF ConnectionTypes, LoopTypes, ClockTick
    <2>3. LoopTypes' BY <1>13 DEF QueueTypes, ConnectionTypes, LoopTypes, ClockTick
    <2> QED BY <2>1, <2>2, <2>3
  <1>14. CASE UNCHANGED vars
    <2>1. QueueTypes' BY <1>14 DEF QueueTypes, LoopTypes, vars
    <2>2. ConnectionTypes' BY <1>14 DEF ConnectionTypes, LoopTypes, vars
    <2>3. LoopTypes' BY <1>14 DEF QueueTypes, ConnectionTypes, LoopTypes, vars
    <2> QED BY <2>1, <2>2, <2>3
  <1> QED
    BY <1>1, <1>2, <1>3, <1>4, <1>5, <1>6, <1>7, <1>8, <1>9, <1>10, <1>11, <1>12, <1>13, <1>14
       DEF Next, OperatorStep, ConnectionStep, Visit, ServerReturns

\* What the queue operations write carries only clicked times, the new
\* request apart.
LEMMA OpsClicked ==
    ASSUME NEW d \in File, EntriesClicked(d), NEW e \in Engagement, clock \in Nat
    PROVE  /\ EntriesClicked(Gc(d))
           /\ EntriesClicked(PendingOnly(d))
           /\ EntriesClicked(Without(d, e))
           /\ EntriesClicked(WithKilled(d, e))
           /\ \A f \in Engagement : Pending(WithRequest(d, e)[f]) =>
                WithRequest(d, e)[f].at \in clicks[f] \/ (f = e /\ WithRequest(d, e)[f].at = clock)
  <1>1. EntriesClicked(Gc(d))
    BY GcKeepsPending DEF EntriesClicked
  <1>2. EntriesClicked(PendingOnly(d))
    BY EntryTypes DEF EntriesClicked
  <1>3. EntriesClicked(Without(d, e)) /\ EntriesClicked(WithKilled(d, e))
    BY DEF EntriesClicked, Without, WithKilled, File, Pending
  <1>4. \A f \in Engagement : Pending(WithRequest(d, e)[f]) =>
          WithRequest(d, e)[f].at \in clicks[f] \/ (f = e /\ WithRequest(d, e)[f].at = clock)
    BY DEF EntriesClicked, WithRequest, RequestEntry, File, Pending
  <1> QED BY <1>1, <1>2, <1>3, <1>4

LEMMA NoFileClicked == EntriesClicked(NoFile)
  BY NoFileType DEF EntriesClicked

\* _apply_kill loads either a dict without the request or one marked killed.
LEMMA ApplyCopies ==
    ASSUME TypeOK, CopiesInv, NEW c \in Connection, NEW who \in {"tick", "worker"},
           ApplyDiscard(c, who) \/ ApplyHonour(c, who)
    PROVE  EntriesClicked(data')
  <1>1. EntriesClicked(Without(Gc(file), eid[c])) /\ EntriesClicked(WithKilled(file, eid[c]))
    BY OpsClicked, GcKeepsPending DEF TypeOK, QueueTypes, ConnectionTypes, CopiesInv
  <1>2. data' = data \/ data' = Without(Gc(file), eid[c]) \/ data' = WithKilled(file, eid[c])
    BY DEF ApplyDiscard, ApplyHonour, Loaded
  <1> QED BY <1>1, <1>2 DEF CopiesInv

LEMMA CopiesStep == TypeOK /\ CopiesInv /\ [Next]_vars => CopiesInv'
  <1> SUFFICES ASSUME TypeOK, CopiesInv, [Next]_vars PROVE CopiesInv'
    OBVIOUS
  <1> USE DEF opVars, connVars, srvVars
  <1>1. ASSUME NEW o \in Operator, NEW e \in Engagement, RequestKill(o, e) PROVE CopiesInv'
    <2>1. \A f \in Engagement : clicks[f] \subseteq clicks'[f]
      BY <1>1 DEF RequestKill, TypeOK, QueueTypes
    <2>2. clock \in clicks'[e]
      BY <1>1 DEF RequestKill, TypeOK, QueueTypes
    <2>3. Gc(file) \in File /\ EntriesClicked(Gc(file))
      BY GcKeepsPending, OpsClicked DEF TypeOK, QueueTypes, CopiesInv
    <2>4. \A f \in Engagement : Pending(opData'[o][f]) => opData'[o][f].at \in clicks'[f]
      <3>1. opData'[o] = WithRequest(Gc(file), e)
        BY <1>1 DEF RequestKill, TypeOK, QueueTypes
      <3>2. \A f \in Engagement : Pending(WithRequest(Gc(file), e)[f]) =>
                \/ WithRequest(Gc(file), e)[f].at \in clicks[f]
                \/ f = e /\ WithRequest(Gc(file), e)[f].at = clock
        BY <2>3, OpsClicked DEF TypeOK, QueueTypes
      <3> QED BY <2>1, <2>2, <3>1, <3>2
    <2>5. \A p \in Operator : p # o => opData'[p] = opData[p]
      BY <1>1 DEF RequestKill, TypeOK, QueueTypes
    <2>6. EntriesClicked(file)' /\ EntriesClicked(view)' /\ EntriesClicked(data)'
      BY <1>1, <2>1 DEF RequestKill, CopiesInv, EntriesClicked
    <2> QED BY <2>1, <2>4, <2>5, <2>6 DEF CopiesInv, EntriesClicked
  <1>2. ASSUME NEW o \in Operator, NEW e \in Engagement, CancelKill(o, e) PROVE CopiesInv'
    <2>1. EntriesClicked(Without(Gc(file), e))
      BY GcKeepsPending, OpsClicked DEF TypeOK, QueueTypes, CopiesInv
    <2> QED BY <1>2, <2>1 DEF CancelKill, CopiesInv, EntriesClicked, TypeOK, QueueTypes
  <1>3. ASSUME NEW o \in Operator, OperatorWrite(o) \/ OperatorWriteFails(o) PROVE CopiesInv'
    BY <1>3, NoFileClicked DEF OperatorWrite, OperatorWriteFails, CopiesInv, EntriesClicked,
       TypeOK, QueueTypes
  <1>4. ASSUME NEW c \in Connection,
               ConnectionMade(c) \/ ConnectionLost(c) \/ CommandDone(c)
        PROVE CopiesInv'
    BY <1>4 DEF ConnectionMade, ConnectionLost, CommandDone, CopiesInv, EntriesClicked
  <1>5. ASSUME NEW c \in Connection, WorkerTurn(c) PROVE CopiesInv'
    <2>1. EntriesClicked(data')
      BY <1>5, ApplyCopies DEF WorkerTurn, CopiesInv
    <2> QED BY <1>5, <2>1 DEF WorkerTurn, CopiesInv, EntriesClicked
  <1>6. ASSUME NEW c \in Connection, Dispatch(c) PROVE CopiesInv'
    <2>1. EntriesClicked(data')
      BY <1>6, ApplyCopies DEF Dispatch, CopiesInv
    <2> QED BY <1>6, <2>1 DEF Dispatch, CopiesInv, EntriesClicked
  <1>7. CASE PollRead
    <2>1. CASE Engagement = {}
      BY <2>1 DEF CopiesInv, EntriesClicked
    <2>2. CASE Engagement # {}
      <3>1. EntriesClicked(PendingOnly(Gc(file)))
        BY <2>2, GcKeepsPending, OpsClicked DEF TypeOK, QueueTypes, CopiesInv
      <3> QED BY <1>7, <3>1 DEF PollRead, CopiesInv, EntriesClicked
    <2> QED BY <2>1, <2>2
  <1>8. CASE ServerWrite \/ ServerWriteFails
    BY <1>8, NoFileClicked DEF ServerWrite, ServerWriteFails, CopiesInv, EntriesClicked
  <1>9. CASE ClockTick \/ UNCHANGED vars
    BY <1>9 DEF ClockTick, vars, CopiesInv, EntriesClicked
  <1> QED
    BY <1>1, <1>2, <1>3, <1>4, <1>5, <1>6, <1>7, <1>8, <1>9
       DEF Next, OperatorStep, ConnectionStep, Visit, ServerReturns

LEMMA TimeStep == TypeOK /\ TimeInv /\ [Next]_vars => TimeInv'
  <1> SUFFICES ASSUME TypeOK, TimeInv, [Next]_vars PROVE TimeInv'
    OBVIOUS
  <1> USE DEF opVars, connVars, srvVars, TypeOK, QueueTypes, ConnectionTypes, TimeInv
  <1>1. ASSUME NEW o \in Operator, NEW e \in Engagement, RequestKill(o, e) PROVE TimeInv'
    BY <1>1 DEF RequestKill
  <1>2. ASSUME NEW c \in Connection, ConnectionMade(c) PROVE TimeInv'
    BY <1>2 DEF ConnectionMade
  <1>3. CASE ClockTick
    BY <1>3 DEF ClockTick
  <1>4. CASE UNCHANGED <<clock, clicks, started>>
    BY <1>4
  <1> QED
    BY <1>1, <1>2, <1>3, <1>4
       DEF Next, OperatorStep, ConnectionStep, Visit, ServerReturns, vars, CancelKill, OperatorWrite,
           OperatorWriteFails, ConnectionLost, WorkerTurn, CommandDone, PollRead, Dispatch,
           ServerWrite, ServerWriteFails

\* What _apply_kill does to the loop, whoever calls it.
LEMMA ApplyLoop ==
    ASSUME TypeOK, LoopInv, NEW c \in Connection, NEW who \in {"tick", "worker"},
           ApplyDiscard(c, who) \/ ApplyHonour(c, who),
           UNCHANGED <<phase, eid, started, view>>,
           pc = (IF who = "tick" THEN "dispatch" ELSE "idle"),
           Live(c)
    PROVE  LoopInv'
  <1> USE DEF TypeOK, LoopTypes, ConnectionTypes, Live, Stale
  <1>1. /\ todo' \subseteq todo
        /\ pc' = "idle" \/ who = "worker" => todo' = {}
    BY DEF ApplyDiscard, ApplyHonour, ResumeAlive, ResumeKilled, NextVisit, Loaded, LoopInv
  <1>2. /\ pc' \in {"idle", "dispatch"} => by' = "tick"
        /\ pc' \in {"discard", "mark"} => by' = who /\ cur' = c
    BY DEF ApplyDiscard, ApplyHonour, ResumeAlive, ResumeKilled, NextVisit, Loaded, LoopInv
  <1>3. /\ pc' = "discard" => Stale(c) /\ ~closed'[c]
        /\ pc' = "mark" => closed'[c]
    BY DEF ApplyDiscard, ApplyHonour, ResumeAlive, ResumeKilled, NextVisit, Loaded, LoopInv
  <1>4. \A d \in Connection : worker'[d] \in {"idle", "busy"} => Live(d)
    BY DEF ApplyDiscard, ApplyHonour, ResumeAlive, ResumeKilled, RunCommand, LoopInv
  <1>5. pc' = "discard" => cur' \in Connection /\ Live(cur)' /\ ~closed'[cur'] /\ Stale(cur)'
    BY <1>2, <1>3
  <1>6. pc' = "mark" => cur' \in Connection /\ closed'[cur']
    BY <1>2, <1>3
  <1>7. (pc' = "idle" \/ by' = "worker") => todo' = {}
    BY <1>1, <1>2 DEF ApplyDiscard, ApplyHonour, ResumeAlive, ResumeKilled, NextVisit, Loaded, LoopInv
  <1>8. \A d \in todo' : Live(d)' /\ Pending(view[eid[d]])'
    BY <1>1 DEF LoopInv
  <1> QED BY <1>2, <1>4, <1>5, <1>6, <1>7, <1>8 DEF LoopInv

LEMMA LoopStep == TypeOK /\ LoopInv /\ [Next]_vars => LoopInv'
  <1> SUFFICES ASSUME TypeOK, LoopInv, [Next]_vars PROVE LoopInv'
    OBVIOUS
  <1> USE DEF opVars, connVars, srvVars
  <1>1. ASSUME NEW c \in Connection, ConnectionMade(c) \/ ConnectionLost(c) \/ CommandDone(c)
        PROVE LoopInv'
    BY <1>1 DEF ConnectionMade, ConnectionLost, CommandDone, LoopInv, Live, Stale, TypeOK,
       ConnectionTypes, LoopTypes
  <1>2. ASSUME NEW c \in Connection, WorkerTurn(c) PROVE LoopInv'
    <2>1. Live(c) /\ pc = "idle"
      BY <1>2 DEF WorkerTurn, LoopInv
    <2>2. CASE ApplyDiscard(c, "worker") \/ ApplyHonour(c, "worker")
      BY <1>2, <2>1, <2>2, ApplyLoop DEF WorkerTurn
    <2>3. CASE ~(ApplyDiscard(c, "worker") \/ ApplyHonour(c, "worker"))
      BY <1>2, <2>1, <2>3 DEF WorkerTurn, RunCommand, LoopInv, Live, Stale, TypeOK,
         ConnectionTypes, LoopTypes
    <2> QED BY <2>2, <2>3
  <1>3. ASSUME NEW c \in Connection, Dispatch(c) PROVE LoopInv'
    <2>1. Live(c) /\ pc = "dispatch" /\ by = "tick"
      BY <1>3 DEF Dispatch, LoopInv
    <2>2. CASE ApplyDiscard(c, "tick") \/ ApplyHonour(c, "tick")
      BY <1>3, <2>1, <2>2, ApplyLoop DEF Dispatch
    <2>3. CASE ~(ApplyDiscard(c, "tick") \/ ApplyHonour(c, "tick"))
      BY <1>3, <2>1, <2>3 DEF Dispatch, NextVisit, LoopInv, Live, Stale
    <2> QED BY <2>2, <2>3
  <1>4. CASE PollRead
    BY <1>4 DEF PollRead, ToVisit, LoopInv, Live, TypeOK, ConnectionTypes, LoopTypes
  <1>5. CASE ServerWrite
    <2>1. cur \in Connection /\ by' = "tick" /\ UNCHANGED <<view, phase, eid, started>>
      BY <1>5 DEF ServerWrite, LoopInv
    <2>2. /\ pc' \in {"idle", "dispatch"}
          /\ todo' \subseteq todo
          /\ pc' = "idle" => todo' = {}
      BY <1>5, <2>1 DEF ServerWrite, ResumeAlive, ResumeKilled, NextVisit, LoopInv
    <2>3. \A c \in Connection : worker'[c] \in {"idle", "busy"} => worker[c] \in {"idle", "busy"} \/ c = cur
      BY <1>5, <2>1 DEF ServerWrite, ResumeAlive, ResumeKilled, RunCommand, TypeOK, ConnectionTypes
    <2>4. worker'[cur] \in {"idle", "busy"} => Live(cur)
      BY <1>5, <2>1 DEF ServerWrite, ResumeAlive, ResumeKilled, RunCommand, TypeOK, ConnectionTypes,
         LoopInv, Live
    <2> QED BY <2>1, <2>2, <2>3, <2>4 DEF LoopInv, Live
  <1>6. CASE ServerWriteFails
    BY <1>6 DEF ServerWriteFails, LoopInv, Live, TypeOK, ConnectionTypes, LoopTypes
  <1>7. CASE UNCHANGED <<view, connVars, srvVars>>
    BY <1>7 DEF LoopInv, Live, Stale
  <1> QED
    BY <1>1, <1>2, <1>3, <1>4, <1>5, <1>6, <1>7
       DEF Next, OperatorStep, ConnectionStep, Visit, ServerReturns, vars, RequestKill, CancelKill,
           OperatorWrite, OperatorWriteFails, ClockTick

LEMMA KillStep == TypeOK /\ CopiesInv /\ LoopInv /\ KillInv /\ [Next]_vars => KillInv'
  <1> SUFFICES ASSUME TypeOK, CopiesInv, LoopInv, KillInv, [Next]_vars PROVE KillInv'
    OBVIOUS
  <1> USE DEF opVars, connVars, srvVars
  <1>1. ASSUME NEW c \in Connection, ConnectionMade(c) \/ ConnectionLost(c) PROVE KillInv'
    BY <1>1 DEF ConnectionMade, ConnectionLost, KillInv, TypeOK, ConnectionTypes
  <1>2. ASSUME NEW o \in Operator, NEW e \in Engagement, RequestKill(o, e) PROVE KillInv'
    BY <1>2 DEF RequestKill, KillInv, TypeOK, QueueTypes, ConnectionTypes
  <1>3. ASSUME NEW c \in Connection, NEW who \in {"tick", "worker"}, ApplyHonour(c, who),
               Live(c), Pending(view[eid[c]]), UNCHANGED <<phase, eid, started, clicks>>
        PROVE KillInv'
    <2>1. view[eid[c]].at \in clicks[eid[c]] /\ view[eid[c]].at >= started[c]
      <3>1. eid[c] \in Engagement /\ view[eid[c]].at \in Nat /\ started[c] \in Nat
        BY EntryTypes DEF TypeOK, ConnectionTypes, LoopTypes
      <3> QED BY <1>3, <3>1 DEF ApplyHonour, Stale, CopiesInv, EntriesClicked
    <2> QED BY <1>3, <2>1 DEF ApplyHonour, KillInv, Live, TypeOK, ConnectionTypes
  <1>4. ASSUME NEW c \in Connection, WorkerTurn(c) PROVE KillInv'
    <2>1. Live(c)
      BY <1>4 DEF WorkerTurn, LoopInv
    <2> QED BY <1>3, <1>4, <2>1 DEF WorkerTurn, KillInv, ApplyDiscard
  <1>5. ASSUME NEW c \in Connection, Dispatch(c) PROVE KillInv'
    <2>1. Live(c) /\ Pending(view[eid[c]])
      BY <1>5 DEF Dispatch, LoopInv
    <2> QED BY <1>3, <1>5, <2>1 DEF Dispatch, KillInv, ApplyDiscard
  <1>6. CASE UNCHANGED <<phase, eid, started, clicks, killReq>>
    BY <1>6 DEF KillInv
  <1> QED
    BY <1>1, <1>2, <1>4, <1>5, <1>6
       DEF Next, OperatorStep, ConnectionStep, Visit, ServerReturns, vars, CancelKill, OperatorWrite,
           OperatorWriteFails, CommandDone, PollRead, ServerWrite, ServerWriteFails, ClockTick

\* What _apply_kill leaves behind: the connection is ended, or it is younger
\* than the request, or it is still to be visited.
LEMMA ApplyVisit ==
    ASSUME TypeOK, LoopInv, VisitInv, NEW c \in Connection, NEW who \in {"tick", "worker"},
           ApplyDiscard(c, who) \/ ApplyHonour(c, who),
           UNCHANGED <<phase, eid, started, view, faults>>
    PROVE  VisitInv'
  <1>1. \A d \in Connection : closed[d] => closed'[d]
    BY DEF ApplyDiscard, ApplyHonour, ResumeAlive, RunCommand, TypeOK, ConnectionTypes
  <1>2. \A d \in todo : d \in todo' \/ d = c
    BY DEF ApplyDiscard, ApplyHonour, ResumeAlive, ResumeKilled, NextVisit, Loaded
  <1>3. closed'[c] \/ view[eid[c]].at < started[c]
    BY DEF ApplyDiscard, ApplyHonour, Stale, TypeOK, ConnectionTypes
  <1>4. view[eid[c]].at \in Nat /\ started[c] \in Nat
    BY EntryTypes DEF TypeOK, ConnectionTypes, LoopTypes
  <1>5. closed'[c] \/ view[eid[c]].at <= started[c]
    BY <1>3, <1>4
  <1> QED BY <1>1, <1>2, <1>5 DEF VisitInv, Live

LEMMA VisitStep ==
    TypeOK /\ CopiesInv /\ TimeInv /\ LoopInv /\ VisitInv /\ [Next]_vars => VisitInv'
  <1> SUFFICES ASSUME TypeOK, CopiesInv, TimeInv, LoopInv, VisitInv, [Next]_vars PROVE VisitInv'
    OBVIOUS
  <1> USE DEF opVars, connVars, srvVars
  <1>1. ASSUME NEW c \in Connection, ConnectionMade(c) PROVE VisitInv'
    <2>1. Pending(view[eid[c]]) => view[eid[c]].at <= clock
      BY DEF CopiesInv, EntriesClicked, TimeInv, TypeOK, ConnectionTypes
    <2> QED BY <1>1, <2>1 DEF ConnectionMade, VisitInv, Live, TypeOK, ConnectionTypes
  <1>2. ASSUME NEW c \in Connection, ConnectionLost(c) \/ CommandDone(c) PROVE VisitInv'
    BY <1>2 DEF ConnectionLost, CommandDone, VisitInv, Live, TypeOK, ConnectionTypes
  <1>3. ASSUME NEW c \in Connection, WorkerTurn(c) PROVE VisitInv'
    <2>1. CASE ApplyDiscard(c, "worker") \/ ApplyHonour(c, "worker")
      BY <1>3, <2>1, ApplyVisit DEF WorkerTurn
    <2>2. CASE ~(ApplyDiscard(c, "worker") \/ ApplyHonour(c, "worker"))
      BY <1>3, <2>2 DEF WorkerTurn, RunCommand, VisitInv, Live, TypeOK, ConnectionTypes
    <2> QED BY <2>1, <2>2
  <1>4. ASSUME NEW c \in Connection, Dispatch(c) PROVE VisitInv'
    <2>1. CASE ApplyDiscard(c, "tick") \/ ApplyHonour(c, "tick")
      BY <1>4, <2>1, ApplyVisit DEF Dispatch
    <2>2. CASE ~(ApplyDiscard(c, "tick") \/ ApplyHonour(c, "tick"))
      BY <1>4, <2>2 DEF Dispatch, NextVisit, VisitInv, Live
    <2> QED BY <2>1, <2>2
  <1>5. CASE PollRead
    BY <1>5 DEF PollRead, ToVisit, VisitInv, Live
  <1>6. CASE ServerWrite
    <2>1. cur \in Connection /\ UNCHANGED <<view, phase, eid, started, faults>>
      BY <1>6 DEF ServerWrite, LoopInv
    <2>2. \A d \in Connection : closed[d] => closed'[d]
      BY <1>6, <2>1 DEF ServerWrite, ResumeAlive, RunCommand, TypeOK, ConnectionTypes
    <2>3. \A d \in todo : d \in todo' \/ d = cur
      BY <1>6 DEF ServerWrite, ResumeAlive, ResumeKilled, NextVisit
    <2>4. closed[cur] \/ view[eid[cur]].at <= started[cur]
      <3>1. view[eid[cur]].at \in Nat /\ started[cur] \in Nat
        BY <2>1, EntryTypes DEF TypeOK, ConnectionTypes, LoopTypes
      <3> QED BY <1>6, <3>1 DEF ServerWrite, LoopInv, Stale
    <2> QED BY <2>1, <2>2, <2>3, <2>4 DEF VisitInv, Live
  <1>7. CASE ServerWriteFails
    BY <1>7 DEF ServerWriteFails, VisitInv, TypeOK, QueueTypes
  <1>8. ASSUME NEW o \in Operator, OperatorWriteFails(o) PROVE VisitInv'
    BY <1>8 DEF OperatorWriteFails, VisitInv, TypeOK, QueueTypes
  <1>9. CASE UNCHANGED <<view, connVars, todo, faults>>
    BY <1>9 DEF VisitInv, Live
  <1> QED
    BY <1>1, <1>2, <1>3, <1>4, <1>5, <1>6, <1>7, <1>8, <1>9
       DEF Next, OperatorStep, ConnectionStep, Visit, ServerReturns, vars, RequestKill, CancelKill,
           OperatorWrite, ClockTick

\* The strengthened invariant holds throughout.
THEOREM IInvHolds == Spec => []IInv
  <1>1. IInv /\ [Next]_vars => IInv'
    BY TypeStep, CopiesStep, TimeStep, LoopStep, KillStep, VisitStep DEF IInv
  <1> QED BY InitIInv, <1>1, PTL DEF Spec

\* Every variable of the kill switch keeps its type.
THEOREM TypeCorrect == Spec => []TypeOK
  <1>1. IInv => TypeOK BY DEF IInv
  <1> QED BY IInvHolds, <1>1, PTL

\* No reconnect inherits a kill: for any number of operators, connections and
\* engagements, and with any file writes lost or failing, a connection is killed
\* only for a click made after it opened (_apply_kill).
THEOREM NoInheritedKillHolds == Spec => []NoInheritedKill
  <1>1. IInv => NoInheritedKill
    BY DEF IInv, KillInv, NoInheritedKill
  <1> QED BY IInvHolds, <1>1, PTL

\* No tick spares a connection older than a request it saw, unless a write
\* failed in it (_kill_poll_once).
THEOREM SeenKillSparesNoOneHolds == Spec => []SeenKillSparesNoOne
  <1>1. IInv => SeenKillSparesNoOne
    BY DEF IInv, VisitInv, LoopInv, SeenKillSparesNoOne
  <1> QED BY IInvHolds, <1>1, PTL

\* No command starts on a closed session (_run_worker).
THEOREM NoCommandAfterKillHolds == Spec => NoCommandAfterKill
  <1> DEFINE Step == \A c \in Connection : closed[c] /\ worker'[c] = "busy" => worker[c] = "busy"
  <1>1. ASSUME IInv, [Next]_vars PROVE [Step]_vars
    <2> USE <1>1 DEF IInv, TypeOK, ConnectionTypes, opVars, connVars, srvVars
    <2>1. ASSUME NEW c \in Connection, ConnectionStep(c) PROVE Step
      BY <2>1 DEF ConnectionStep, ConnectionMade, ConnectionLost, CommandDone, WorkerTurn,
         RunCommand, ApplyDiscard, ApplyHonour, ResumeAlive, ResumeKilled
    <2>2. ASSUME NEW c \in Connection, Dispatch(c) PROVE Step
      BY <2>2 DEF Dispatch, ApplyDiscard, ApplyHonour, ResumeAlive, ResumeKilled
    <2>3. CASE ServerWrite
      BY <2>3 DEF ServerWrite, ResumeAlive, ResumeKilled, RunCommand, LoopInv
    <2>4. CASE ServerWriteFails
      BY <2>4 DEF ServerWriteFails
    <2>5. CASE UNCHANGED worker
      BY <2>5
    <2> QED
      BY <2>1, <2>2, <2>3, <2>4, <2>5
         DEF Next, OperatorStep, Visit, ServerReturns, vars, RequestKill, CancelKill, OperatorWrite,
             OperatorWriteFails, PollRead, ClockTick
  <1> QED BY IInvHolds, <1>1, PTL DEF Spec, NoCommandAfterKill
=============================================================================
