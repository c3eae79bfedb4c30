----------------------------- MODULE CaseOverlay -----------------------------
(***************************************************************************)
(* The analysts' overlay on the engagements: acknowledgements (acks.json), *)
(* notes (notes.json), snapshot archives and hand-written MFA decisions.   *)
(* Two processes change them, the REST API (one event loop, so one handler *)
(* at a time) and the dashboard (one thread per request), and every change *)
(* is a load of the whole file followed by an atomic replace of it.        *)
(***************************************************************************)
EXTENDS Naturals, FiniteSets

CONSTANTS
    Eng,          \* engagements
    ActionName,   \* names of the alerts that can be acknowledged
    Op,           \* operators (op_id, author)
    Api,          \* the REST API's event loop, a worker
    Thread,       \* request threads of the dashboard
    Token,        \* bearer tokens the API was configured with; {} is open mode
    Presented,    \* what callers present, "" included
    None,         \* no value
    MaxNotes,     \* bound: notes ever posted (their ids)
    MaxRequests,  \* bound: requests served
    MaxSaves,     \* bound: saves of the sessions behind the engagements
    MaxFaults,    \* bound: failed saves, damaged files, purged sessions
    MaxClock      \* bound: milliseconds two requests can tell apart

ASSUME OverlayAssumption ==
    /\ Api \notin Thread
    /\ MaxNotes \in Nat /\ MaxRequests \in Nat /\ MaxSaves \in Nat
    /\ MaxFaults \in Nat /\ MaxClock \in Nat

VARIABLES
    file,      \* acks.json and notes.json: entries with who made them
    damaged,   \* files that do not parse
    saves,     \* version of the session files behind an engagement, 0: none
    snaps,     \* archives by name (engagement, millisecond)
    decision,  \* state-docker/mfa: decisions on file for the address
    pc, req,   \* per worker: next step, request being served
    view,      \* per worker: what it has read
    counters,  \* the API's request and error counters
    served, noteIds, faults,
    promised,  \* history: entries as the answered requests left them
    clobbered, \* history: entries changed by a save from an outdated view
    standing,  \* history: entries on file ever since a worker took its request
    raced      \* history: two decision handlers have overlapped

fileVars == <<file, damaged, saves, snaps, decision>>
workVars == <<pc, req, view>>
boundVars == <<served, noteIds, faults>>
histVars == <<promised, clobbered, standing, raced>>
overlayVars == <<fileVars, workVars, counters, boundVars, histVars>>

Worker == {Api} \cup Thread
Store == {"acks", "notes"}
Name == ActionName \cup (1 .. MaxNotes)
Key == Eng \X Name
Empty == [k \in {} |-> None]
Entries == UNION {[S -> Op] : S \in SUBSET Key}
Decision == {"pass", "fail"}

-----------------------------------------------------------------------------
(* Requests *)

Idle == [verb |-> "idle"]

\* ack and batch_ack: one action name, one engagement or several.
AckRequest ==
    {[verb |-> "put", store |-> "acks", keys |-> S \X {a}, op |-> o] :
        S \in SUBSET Eng \ {{}}, a \in ActionName, o \in Op}

\* add: the note's id is a fresh uuid.
NoteRequest ==
    {[verb |-> "put", store |-> "notes", keys |-> {<<e, noteIds + 1>>}, op |-> o] :
        e \in Eng, o \in Op}

\* unack and delete.
DropRequest ==
    {[verb |-> "drop", store |-> "acks", keys |-> {<<e, a>>}, op |-> None] :
        e \in Eng, a \in ActionName}
    \cup {[verb |-> "drop", store |-> "notes", keys |-> {<<e, i>>}, op |-> None] :
        e \in Eng, i \in 1 .. noteIds}

\* The archive is named after the millisecond of the request: two requests for
\* one engagement in the same millisecond write the same file.
SnapshotRequest ==
    {[verb |-> "snapshot", eng |-> e, at |-> ms] : e \in Eng, ms \in 0 .. MaxClock}
DecideRequest == {[verb |-> "decide", decision |-> d] : d \in Decision}

Request == AckRequest \cup NoteRequest \cup DropRequest \cup SnapshotRequest
           \cup DecideRequest

\* The API checks the bearer token; without tokens it is open. The dashboard
\* checks nothing.
Check(w, presented) == w = Api /\ Token # {} => presented \in Token

-----------------------------------------------------------------------------
(* Workers *)

Fault == faults < MaxFaults /\ faults' = faults + 1

\* The API's middleware counts every answer, an exception as a 500.
Hit(w, status) ==
    counters' = IF w # Api THEN counters
                ELSE [count  |-> counters.count + 1,
                      errors |-> counters.errors + IF status >= 400 THEN 1 ELSE 0]

Reply(w, status) ==
    /\ pc' = [pc EXCEPT ![w] = "idle"]
    /\ req' = [req EXCEPT ![w] = Idle]
    /\ view' = [view EXCEPT ![w] = None]
    /\ Hit(w, status)

\* _load_raw: a file that is missing or does not parse counts as empty.
LoadRaw(s) == IF s \in damaged THEN Empty ELSE file[s]

FirstStep(r) ==
    CASE r.verb \in {"put", "drop"} -> "load"
      [] r.verb = "snapshot" -> "find"
      [] r.verb = "decide" -> "wipe"

\* A request is routed to its handler. Bad credentials or a body the handler
\* refuses (no action name, an empty note, not an address) end here.
Receive(w, r, presented, valid) ==
    /\ pc[w] = "idle"
    /\ served < MaxRequests
    /\ r.verb = "put" /\ r.store = "notes" => noteIds < MaxNotes
    /\ served' = served + 1
    /\ IF Check(w, presented) /\ valid
       THEN /\ pc' = [pc EXCEPT ![w] = FirstStep(r)]
            /\ req' = [req EXCEPT ![w] = r]
            /\ view' = view
            /\ noteIds' = IF r.verb = "put" /\ r.store = "notes"
                          THEN noteIds + 1 ELSE noteIds
            /\ standing' = [standing EXCEPT ![w] = [s \in Store |->
                  IF r.verb = "snapshot" THEN DOMAIN LoadRaw(s) ELSE {}]]
            /\ UNCHANGED counters
       ELSE /\ Reply(w, IF Check(w, presented) THEN 422 ELSE 401)
            /\ UNCHANGED <<noteIds, standing>>
    /\ UNCHANGED <<fileVars, faults, promised, clobbered, raced>>

Load(w) ==
    /\ pc[w] = "load"
    /\ pc' = [pc EXCEPT ![w] = "save"]
    /\ view' = [view EXCEPT ![w] = LoadRaw(req[w].store)]
    /\ UNCHANGED <<fileVars, req, counters, boundVars, histVars>>

\* ack, batch_ack, add: the entry of every key is set, the others stay.
Put_DropsSiblings(old, r) ==
    [k \in r.keys \cup {x \in DOMAIN old : \A y \in r.keys : x[1] # y[1]} |->
        IF k \in r.keys THEN r.op ELSE old[k]]
Put(old, r) == [k \in r.keys \cup DOMAIN old |-> IF k \in r.keys THEN r.op ELSE old[k]]

\* unack, delete: the entry goes, the engagement with its last entry.
Drop(old, r) == [k \in DOMAIN old \ r.keys |-> old[k]]

Changed(old, r) == IF r.verb = "put" THEN Put(old, r) ELSE Drop(old, r)

\* History: what the answer of a request promises of the entries.
Expected(old, r) ==
    [k \in (DOMAIN old \ r.keys) \cup (IF r.verb = "put" THEN r.keys ELSE {}) |->
        IF k \in r.keys THEN r.op ELSE old[k]]

\* Removing what the view does not hold answers removed=false and saves nothing.
NothingToDrop(w) ==
    /\ pc[w] = "save"
    /\ req[w].verb = "drop"
    /\ req[w].keys \cap DOMAIN view[w] = {}
    /\ Reply(w, 200)
    /\ UNCHANGED <<fileVars, boundVars, histVars>>

\* _atomic_write and the answer. The file is the view with the change.
Save(w) ==
    LET r == req[w]
        s == r.store
        now == LoadRaw(s)
        new == Changed(view[w], r)
        lost == {k \in Key : /\ k \in DOMAIN now \cup DOMAIN view[w]
                             /\ ~ /\ k \in DOMAIN now \cap DOMAIN view[w]
                                  /\ now[k] = view[w][k]}
    IN /\ pc[w] = "save"
       /\ r.verb = "drop" => r.keys \cap DOMAIN view[w] # {}
       /\ file' = [file EXCEPT ![s] = new]
       /\ damaged' = damaged \ {s}
       /\ Reply(w, 200)
       /\ promised' = [promised EXCEPT ![s] = Expected(@, r)]
       /\ clobbered' = [clobbered EXCEPT ![s] = (@ \cup lost) \ r.keys]
       /\ standing' = [v \in Worker |->
                         [standing[v] EXCEPT ![s] = @ \cap DOMAIN new]]
       /\ UNCHANGED <<saves, snaps, decision, boundVars, raced>>

\* The save raises: the temporary file is removed, the store is as it was.
SaveFails(w) ==
    /\ pc[w] = "save"
    /\ req[w].verb = "drop" => req[w].keys \cap DOMAIN view[w] # {}
    /\ Fault
    /\ Reply(w, 500)
    /\ UNCHANGED <<fileVars, served, noteIds, histVars>>

-----------------------------------------------------------------------------
(* SnapshotWriter.write: session files are found first, then the slices of  *)
(* acks.json and notes.json are read, then the session files are packed.    *)

SnapFind(w) ==
    /\ pc[w] = "find"
    /\ pc' = [pc EXCEPT ![w] = "slice_acks"]
    /\ view' = [view EXCEPT ![w] = [found |-> saves[req[w].eng] > 0]]
    /\ UNCHANGED <<fileVars, req, counters, boundVars, histVars>>

\* _acks_slice, _notes_slice: the entries of one engagement.
SliceOf(s, e) == {k \in DOMAIN LoadRaw(s) : k[1] = e}

SnapAcks(w) ==
    /\ pc[w] = "slice_acks"
    /\ pc' = [pc EXCEPT ![w] = "slice_notes"]
    /\ view' = [view EXCEPT ![w] = [found |-> @.found, acks |-> SliceOf("acks", req[w].eng)]]
    /\ UNCHANGED <<fileVars, req, counters, boundVars, histVars>>

SnapNotes(w) ==
    /\ pc[w] = "slice_notes"
    /\ pc' = [pc EXCEPT ![w] = "pack"]
    /\ view' = [view EXCEPT ![w] = [found |-> @.found, acks |-> @.acks,
                                     notes |-> SliceOf("notes", req[w].eng)]]
    /\ UNCHANGED <<fileVars, req, counters, boundVars, histVars>>

\* The members, the manifest over their hashes, and the archive under the
\* millisecond the request came in. A session file found and since deleted
\* raises, and no archive is written.
SnapPack(w) ==
    LET e == req[w].eng
        gone == view[w].found /\ saves[e] = 0
        archive == [acks    |-> view[w].acks,
                    notes   |-> view[w].notes,
                    session |-> IF view[w].found THEN saves[e] ELSE 0,
                    owed    |-> [s \in Store |-> {k \in standing[w][s] : k[1] = e}]]
    IN /\ pc[w] = "pack"
       /\ snaps' = IF gone THEN snaps
                   ELSE [n \in DOMAIN snaps \cup {<<e, req[w].at>>} |->
                           IF n = <<e, req[w].at>> THEN archive ELSE snaps[n]]
       /\ Reply(w, IF gone THEN 500 ELSE 200)
       /\ standing' = [standing EXCEPT ![w] = [s \in Store |-> {}]]
       /\ UNCHANGED <<file, damaged, saves, decision, boundVars, promised,
                      clobbered, raced>>

-----------------------------------------------------------------------------
(* write_mfa_decision and _handle_mfa_decision: what is on file for the     *)
(* address is removed, then the new decision is written.                    *)

DecideWipe(w) ==
    /\ pc[w] = "wipe"
    /\ pc' = [pc EXCEPT ![w] = "decide"]
    /\ decision' = {}
    /\ raced' = (raced \/ \E v \in Worker : pc[v] = "decide")
    /\ UNCHANGED <<file, damaged, saves, snaps, req, view, counters, boundVars,
                   promised, clobbered, standing>>

DecideWrite(w) ==
    /\ pc[w] = "decide"
    /\ decision' = decision \cup {req[w].decision}
    /\ Reply(w, 200)
    /\ UNCHANGED <<file, damaged, saves, snaps, boundVars, histVars>>

-----------------------------------------------------------------------------
(* The rest of the system, as far as the overlay sees it *)

\* A session behind the engagement is saved (StateStore.save, SessionLogger).
SessionSaves(e) ==
    /\ saves[e] < MaxSaves
    /\ saves' = [saves EXCEPT ![e] = @ + 1]
    /\ UNCHANGED <<file, damaged, snaps, decision, workVars, counters, boundVars,
                   histVars>>

\* Retention deletes them.
SessionPurged(e) ==
    /\ saves[e] > 0
    /\ Fault
    /\ saves' = [saves EXCEPT ![e] = 0]
    /\ UNCHANGED <<file, damaged, snaps, decision, workVars, counters,
                   served, noteIds, histVars>>

\* A file edited by hand no longer parses: its entries are gone.
Damage(s) ==
    /\ s \notin damaged
    /\ Fault
    /\ damaged' = damaged \cup {s}
    /\ clobbered' = [clobbered EXCEPT ![s] = @ \cup DOMAIN file[s]]
    /\ standing' = [v \in Worker |-> [standing[v] EXCEPT ![s] = {}]]
    /\ UNCHANGED <<file, saves, snaps, decision, workVars, counters, served,
                   noteIds, promised, raced>>

-----------------------------------------------------------------------------
OverlayInit ==
    /\ file = [s \in Store |-> Empty]
    /\ damaged = {}
    /\ saves = [e \in Eng |-> 0]
    /\ snaps = Empty
    /\ decision = {}
    /\ pc = [w \in Worker |-> "idle"]
    /\ req = [w \in Worker |-> Idle]
    /\ view = [w \in Worker |-> None]
    /\ counters = [count |-> 0, errors |-> 0]
    /\ served = 0 /\ noteIds = 0 /\ faults = 0
    /\ promised = [s \in Store |-> Empty]
    /\ clobbered = [s \in Store |-> {}]
    /\ standing = [w \in Worker |-> [s \in Store |-> {}]]
    /\ raced = FALSE

HandlerStep(w) ==
    \/ Load(w) \/ Save(w) \/ NothingToDrop(w)
    \/ SnapFind(w) \/ SnapAcks(w) \/ SnapNotes(w) \/ SnapPack(w)
    \/ DecideWipe(w) \/ DecideWrite(w)

OverlayNext ==
    \/ \E w \in Worker :
          \/ \E r \in Request, p \in Presented, valid \in BOOLEAN :
                Receive(w, r, p, valid)
          \/ HandlerStep(w)
          \/ SaveFails(w)
    \/ \E e \in Eng : SessionSaves(e) \/ SessionPurged(e)
    \/ \E s \in Store : Damage(s)

-----------------------------------------------------------------------------
(* Properties *)

(* Whatever the interleaving of the API's handlers with the dashboard's     *)
(* threads, every entry that no save from an outdated view and no damage     *)
(* touched is on file exactly as the answered requests left it: an ack of    *)
(* one alert never costs another one, and a deleted note stays deleted.  A   *)
(* snapshot archive holds every entry of its engagement that was on file all *)
(* the time it was being written, and an MFA decision replaces the one on    *)
(* file unless the handlers of two decisions overlapped.                     *)
OverlayKeepsPromises ==
    /\ \A s \in Store, k \in Key :
          k \notin clobbered[s] =>
              /\ k \in DOMAIN LoadRaw(s) <=> k \in DOMAIN promised[s]
              /\ k \in DOMAIN promised[s] => LoadRaw(s)[k] = promised[s][k]
    /\ \A n \in DOMAIN snaps :
          /\ snaps[n].owed["acks"] \subseteq snaps[n].acks
          /\ snaps[n].owed["notes"] \subseteq snaps[n].notes
    /\ ~raced => Cardinality(decision) <= 1
=============================================================================
