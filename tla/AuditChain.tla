------------------------------ MODULE AuditChain -----------------------------
(***************************************************************************)
(* The hash chain of the session logs (plenith/audit_chain.py), written by *)
(* write_session_log and read back by tools/verify_chain.py.               *)
(*                                                                         *)
(* A hash is the sequence of contents it was computed over, so that two    *)
(* hashes are equal when what they cover is; the genesis hash covers       *)
(* nothing.  A field that may be absent is a set of at most one value.     *)
(* Between two writes the file may be changed by anyone who can write to   *)
(* the directory, in the ways below; the tip is what the chain is measured *)
(* against and is kept or lost, never set to another hash.                 *)
(***************************************************************************)
EXTENDS Naturals, Sequences

CONSTANTS Deed,        \* contents of an entry of actions_taken
          Forged,      \* contents no session recorded
          MaxDeeds, MaxEdits

VARIABLES taken,       \* actions_taken of the session, as it goes on
          log,         \* its file
          written,     \* history: what the last complete write recorded
          edits,       \* history: changes since then
          report       \* the last verification

chainVars == <<taken, log, written, edits, report>>

Genesis == <<>>
NoFile == [st |-> "none", entries |-> <<>>, tip |-> {}]
NoReport == [status |-> "none", exit |-> 0, touched |-> FALSE]

ChainInit ==
    /\ taken = <<>> /\ log = NoFile /\ written = <<>> /\ edits = 0 /\ report = NoReport

-----------------------------------------------------------------------------
(* Building the chain *)

\* the hash of an entry covers its content and its prev_hash, nothing else
canonical_hash(e) == IF e.prev = {} THEN <<"unlinked", e.what>>
                     ELSE Append(CHOOSE h \in e.prev : TRUE, e.what)
chain_entry(what, prev) ==
    LET e == [what |-> what, prev |-> {prev}, hash |-> {}]
    IN  [e EXCEPT !.hash = {canonical_hash(e)}]
\* every entry is linked to the one before, whose hash covers all it follows
chain_actions(whats) ==
    [i \in DOMAIN whats |-> chain_entry(whats[i], SubSeq(whats, 1, i - 1))]
chain_tip(entries) == IF entries = <<>> THEN {Genesis} ELSE entries[Len(entries)].hash
stamp_session_chain(whats) ==
    [st |-> "whole", entries |-> chain_actions(whats), tip |-> chain_tip(chain_actions(whats))]

Takes(d) ==
    /\ Len(taken) < MaxDeeds /\ log.st # "torn"
    /\ taken' = Append(taken, d) /\ UNCHANGED <<log, written, edits, report>>
\* write_session_log truncates the file, then fills it
WriteOpens ==
    /\ log.st # "torn" /\ log' = [NoFile EXCEPT !.st = "torn"]
    /\ UNCHANGED <<taken, written, edits, report>>
WriteCloses ==
    /\ log.st = "torn" /\ log' = stamp_session_chain(taken)
    /\ written' = taken /\ edits' = 0 /\ UNCHANGED <<taken, report>>

-----------------------------------------------------------------------------
(* What can happen to the file *)

Whats(es) == [i \in DOMAIN es |-> es[i].what]
Without(s, i) == SubSeq(s, 1, i - 1) \o SubSeq(s, i + 1, Len(s))
Altered(e) ==
    {[e EXCEPT !.what = w] : w \in Deed \cup {Forged}}
      \cup {[e EXCEPT !.prev = {}], [e EXCEPT !.hash = {}], [e EXCEPT !.prev = {}, !.hash = {}]}
      \cup {[e EXCEPT !.hash = {canonical_hash(e)}]}
\* one entry altered, one gone, or one of them once more at the end
Rewritten(es) ==
    (UNION {{[es EXCEPT ![i] = e] : e \in Altered(es[i])} : i \in DOMAIN es})
      \cup {Without(es, i) : i \in DOMAIN es}
      \cup {Append(es, es[i]) : i \in DOMAIN es}
Edited == {[log EXCEPT !.entries = es] : es \in Rewritten(log.entries)} \cup {[log EXCEPT !.tip = {}]}
Edit ==
    /\ log.st = "whole" /\ edits < MaxEdits
    /\ \E l \in Edited \ {log} : log' = l
    /\ edits' = edits + 1 /\ UNCHANGED <<taken, written, report>>

-----------------------------------------------------------------------------
(* Verification *)

Bare(e) == e.prev = {} /\ e.hash = {}
\* the walk stops at the first entry that does not follow from the one before
Follows_Unlinked(e, prev) == e.prev # {} /\ e.hash # {} /\ e.hash = {canonical_hash(e)}
Follows(e, prev) == e.prev # {} /\ e.hash # {} /\ e.prev = prev /\ e.hash = {canonical_hash(e)}
verify_chain(es, expected) ==
    IF es = <<>> THEN IF expected \in {{}, {Genesis}} THEN "ok" ELSE "broken"
    ELSE IF \A i \in DOMAIN es : Bare(es[i]) THEN "legacy"
    ELSE IF /\ \A i \in DOMAIN es : Follows(es[i], IF i = 1 THEN {Genesis} ELSE es[i - 1].hash)
            /\ expected = {} \/ expected = es[Len(es)].hash
         THEN "ok" ELSE "broken"
verify_session(l) == verify_chain(l.entries, l.tip)
\* _walk_files: a directory without logs is not an error, a missing one is
verify_one(l) == CASE l.st = "none" -> "nothing"
                   [] l.st = "torn" -> "invalid_json"
                   [] l.st = "whole" -> verify_session(l)
render_table(status, allow_legacy) ==
    IF status \in {"broken", "invalid_json"} \/ (status = "legacy" /\ ~allow_legacy) THEN 1 ELSE 0
render_json(status) == IF status \in {"broken", "invalid_json"} THEN 1 ELSE 0
Verify(json, allow_legacy) ==
    /\ report' = [status |-> verify_one(log),
                  exit   |-> IF json THEN render_json(verify_one(log))
                             ELSE render_table(verify_one(log), allow_legacy),
                  touched |-> edits > 0]
    /\ UNCHANGED <<taken, log, written, edits>>

ChainNext ==
    \/ \E d \in Deed : Takes(d)
    \/ WriteOpens \/ WriteCloses \/ Edit
    \/ \E json, allow \in BOOLEAN : Verify(json, allow)

-----------------------------------------------------------------------------
\* A log that verifies, with its tip in place, tells what the session wrote: no
\* entry was changed, dropped, repeated or cut off at the end, alone or together
\* and with hashes computed anew.  And a log nobody touched verifies, unless it
\* is read while it is being written (verify_chain, stamp_session_chain).
DamageIsNoticed ==
    /\ log.st = "whole" /\ log.tip # {} /\ verify_session(log) = "ok"
         => Whats(log.entries) = written
    /\ log.st = "whole" /\ edits = 0 => verify_session(log) = "ok"
    /\ ~report.touched /\ report.status # "invalid_json" => report.exit = 0
=============================================================================
