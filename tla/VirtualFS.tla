----------------------------- MODULE VirtualFS ------------------------------
(***************************************************************************)
(* The virtual file system of an engagement and the observations its use   *)
(* leaves: plenith/vfs.py, the file handlers of plenith/orchestrator.py,   *)
(* and observe_vfs_event, plant_decoy and the restore path of              *)
(* plenith/session.py.  One connection at a time; Engagement has several.  *)
(***************************************************************************)
EXTENDS FileContents

CONSTANTS
    Live,           \* ShellFS's mark of a path whose body is still invented
    Honeytoken,     \* seeded bait files
    Credential,     \* the ones that observe_vfs_event counts as credentials
    CredentialDecoy,\* decoys planted with is_credential=True
    System,         \* /etc/passwd, /etc/group, /etc/hostname
    Placeholder,    \* the .keep files of the persona's empty directories
    Payload,        \* paths under the payload directories
    Persistence,    \* authorized_keys, .bashrc, /etc/passwd, ...
    Dir,            \* directories, named by their path
    Under,          \* per directory: the paths below it
    KeepOf,         \* per directory: its .keep
    Unprompted,     \* files whose body no prompt of the language model holds
    Rank,           \* per path: its place in sorted()
    Patterns,       \* what a grep looks for: sets of lines
    MaxOps,         \* bound on commands
    MaxPersists     \* bound on reconnects and crashes

ASSUME VfsAssumption ==
    /\ Honeytoken \subseteq Path /\ System \subseteq Path /\ Placeholder \subseteq Path
    /\ Credential \subseteq Honeytoken /\ CredentialDecoy \subseteq DecoyFile
    /\ LogFile \intersect (Honeytoken \union System \union Placeholder) = {}
    /\ DecoyFile \intersect (Honeytoken \union System \union Placeholder) = {}
    /\ Honeytoken \intersect (System \union Placeholder) = {}
    /\ System \intersect Placeholder = {}
    /\ Dir \subseteq Path
    /\ Under \in [Dir -> SUBSET Path]
    /\ KeepOf \in [Dir -> Path]
    /\ \A d \in Dir : KeepOf[d] \in Under[d] \ (Honeytoken \union DecoyFile)
    /\ Rank \in [Path -> Nat]
    /\ Patterns \subseteq SUBSET Line
    /\ Unprompted \subseteq Path
    /\ Live \notin Body \union {None}
    /\ MaxOps \in Nat /\ MaxPersists \in Nat

VARIABLES
    files,     \* _files: per path its body, None without an entry
    baseline,  \* _baseline: per path, None without an entry
    deleted,   \* _deleted
    tampered,  \* _tampered
    dynamic,   \* paths with a registered renderer
    honey,     \* the paths in session.honeytokens.files
    seen,      \* what observe_vfs_event recorded in session.observed
    planted,   \* observed["decoys_planted"]
    saved,     \* the state file of the engagement
    out,       \* per path: the lines of it the last command printed
    source,    \* who answered it: the language model, or a handler
    ops, persists

vfsVars == <<files, baseline, deleted, tampered, dynamic>>
vars    == <<vfsVars, honey, seen, planted, saved, out, source, ops, persists>>

Silent  == [p \in Path |-> None]
Exists(p) == files[p] # None /\ p \notin deleted

-----------------------------------------------------------------------------
(* vfs.py                                                                  *)

SetDefault(f, p, v) == IF f[p] = None THEN [f EXCEPT ![p] = v] ELSE f

Rendered(p) == p \in dynamic \ tampered

\* read: what it can return.  A renderer that throws falls back to _files.
ReadBodies(p) ==
    IF p \in deleted THEN {None}
    ELSE {files[p]} \union IF Rendered(p) THEN Renderings(p) ELSE {}

\* read: a rendering is cached, and the first body read becomes the baseline.
\* A deleted path, and one without a body, has no entry and gets none.
FilesAfterRead(p, body)    == [files EXCEPT ![p] = body]
BaselineAfterRead(p, body) == SetDefault(baseline, p, body)

\* write: the baseline is what the path held before, "" when it held nothing.
BaselineBefore(base, f, p) == SetDefault(base, p, IF f[p] = None THEN <<>> ELSE f[p])

\* write and touch take the tombstone away.
Undeleted(p) == deleted \ {p}

\* write after an optional read (f and base are the maps the read left).
WriteTo(f, base, p, body) ==
    /\ files'    = [f EXCEPT ![p] = body]
    /\ baseline' = BaselineBefore(base, f, p)
    /\ deleted'  = Undeleted(p)
    /\ tampered' = tampered \union {p}
    /\ UNCHANGED dynamic

\* Slip: a removal does not count as tampering.
Unlink_NotTampered(p) ==
    /\ files'    = [files EXCEPT ![p] = None]
    /\ deleted'  = deleted \union {p}
    /\ UNCHANGED <<baseline, tampered, dynamic>>

\* unlink: no baseline is taken.
Unlink(p) ==
    /\ files'    = [files EXCEPT ![p] = None]
    /\ tampered' = tampered \union {p}
    /\ deleted'  = deleted \union {p}
    /\ UNCHANGED <<baseline, dynamic>>

-----------------------------------------------------------------------------
(* session.py: what the file events leave in session.observed              *)

IsCredential(p) == p \in Credential \union CredentialDecoy

Reads(o, P) ==
    [o EXCEPT !.read = @ \union {p \in P : p \in honey /\ IsCredential(p)},
              !.swallowed = @ \union (P \intersect planted)]

\* Slip: an overwritten bait is only noticed when it is a credential.
Writes_CredentialsOnly(o, p) ==
    [o EXCEPT !.modified = @ \union ({p} \intersect honey \intersect Credential),
              !.drops = @ \union ({p} \intersect Payload),
              !.persistence = @ \/ p \in Persistence]

Writes(o, p) ==
    [o EXCEPT !.modified = @ \union ({p} \intersect honey),
              !.drops = @ \union ({p} \intersect Payload),
              !.persistence = @ \/ p \in Persistence]

Unlinks(o, p) ==
    [o EXCEPT !.modified = @ \union ({p} \intersect honey),
              !.removed = @ \union ({p} \intersect honey)]

-----------------------------------------------------------------------------
(* Commands: the handlers of orchestrator.py                               *)

Command ==
    /\ ops < MaxOps
    /\ ops' = ops + 1
    /\ source' = "builtin"
    /\ UNCHANGED <<honey, planted, saved, persists>>

NothingPrinted == out' = Silent

\* echo t > p and echo t >> p
Echo(p, t, append) ==
    /\ Command
    /\ append /\ files[p] # None => Len(files[p]) < MaxLen
    /\ WriteTo(files, baseline, p,
               IF append /\ files[p] # None THEN Append(files[p], t) ELSE <<t>>)
    /\ seen' = Writes(seen, p)
    /\ NothingPrinted

\* > p
Truncate(p) ==
    /\ Command
    /\ WriteTo(files, baseline, p, <<>>)
    /\ seen' = Writes(seen, p)
    /\ NothingPrinted

\* touch: no baseline is taken.
Touch(p) ==
    /\ Command
    /\ files'    = SetDefault(files, p, <<>>)
    /\ deleted'  = Undeleted(p)
    /\ tampered' = tampered \union {p}
    /\ seen'     = Writes(seen, p)
    /\ NothingPrinted
    /\ UNCHANGED <<baseline, dynamic>>

\* rm
Rm(p) ==
    /\ Command
    /\ Unlink(p)
    /\ seen' = Unlinks(seen, p)
    /\ NothingPrinted

\* Slip: cp does not report the read of its source.
Cp_Unread(s, d) ==
    /\ Command
    /\ \E body \in ReadBodies(s) \ {None} :
          /\ WriteTo(FilesAfterRead(s, body), BaselineAfterRead(s, body), d, body)
          /\ seen' = Writes(seen, d)
    /\ NothingPrinted

\* cp; a missing source only prints an error.
Cp(s, d) ==
    /\ Command
    /\ \E body \in ReadBodies(s) \ {None} :
          /\ WriteTo(FilesAfterRead(s, body), BaselineAfterRead(s, body), d, body)
          /\ seen' = Writes(Reads(seen, {s}), d)
    /\ NothingPrinted

\* mv: the source is unlinked last, also when it is the destination.
Mv(s, d) ==
    /\ Command
    /\ \E body \in ReadBodies(s) \ {None} :
          LET f == FilesAfterRead(s, body) IN
          /\ files'    = [[f EXCEPT ![d] = body] EXCEPT ![s] = None]
          /\ baseline' = BaselineBefore(BaselineAfterRead(s, body), f, d)
          /\ deleted'  = Undeleted(d) \union {s}
          /\ tampered' = tampered \union {s, d}
          /\ seen'     = Unlinks(Writes(Reads(seen, {s}), d), s)
    /\ NothingPrinted
    /\ UNCHANGED dynamic

\* mkdir, with or without -p: the directory gets a .keep.
Mkdir(d, pflag) ==
    /\ Command
    /\ pflag \/ ~Exists(d)
    /\ WriteTo(files, baseline, KeepOf[d], <<>>)
    /\ seen' = Writes(seen, KeepOf[d])
    /\ NothingPrinted

\* rmdir of a directory that holds a .keep and nothing else; no event.
Rmdir(d) ==
    /\ Command
    /\ {p \in Under[d] : Exists(p)} = {KeepOf[d]}
    /\ Unlink(KeepOf[d])
    /\ NothingPrinted
    /\ UNCHANGED seen

\* A read whose body comes back: what it leaves, and the lines of it printed.
Reading(p, shown) ==
    /\ Command
    /\ \E body \in ReadBodies(p) \ {None} :
          /\ files'    = FilesAfterRead(p, body)
          /\ baseline' = BaselineAfterRead(p, body)
          /\ out'      = [Silent EXCEPT ![p] = Matching(body, shown)]
    /\ seen' = Reads(seen, {p})
    /\ UNCHANGED <<deleted, tampered, dynamic>>

\* cat, less, head and their like print the body.
Cat(p) == Reading(p, Line)

\* awk and sed print some of the lines; of a program they do not support
\* nothing comes from the file, yet the read is noted before they see that.
TextProc(p, shown) == Reading(p, shown)

\* The files a grep of target opens.
GrepFiles(target, recursive) ==
    IF recursive THEN {p \in Under[target] : Exists(p)} \ {KeepOf[d] : d \in Dir}
    ELSE {target}

\* Outcomes of the renderers that a command over S runs.
RenderChoice(S) == [{p \in S : Rendered(p)} -> {"clean", "fresh", "error"}]

BodyUnder(p, how) ==
    IF p \in DOMAIN how /\ how[p] = "clean" THEN Original(p)
    ELSE IF p \in DOMAIN how /\ how[p] = "fresh" THEN Append(Original(p), Fresh)
    ELSE files[p]

\* grep [-r] pattern target: a file is noted as read once any file sorted
\* before it, or it itself, has matched.
Grep(target, recursive, pattern) ==
    LET S == GrepFiles(target, recursive) IN
    /\ Command
    /\ recursive \/ Exists(target)
    /\ \E how \in RenderChoice(S) :
          LET printed == [p \in Path |-> IF p \in S THEN Matching(BodyUnder(p, how), pattern)
                                         ELSE None]
          IN /\ out' = printed
             /\ files' = [p \in Path |-> IF p \in S THEN BodyUnder(p, how) ELSE files[p]]
             /\ baseline' = [p \in Path |-> IF p \in S /\ baseline[p] = None
                                            THEN BodyUnder(p, how) ELSE baseline[p]]
             /\ seen' = Reads(seen, {p \in S : \E q \in S : Rank[q] <= Rank[p] /\ printed[q] # None})
    /\ UNCHANGED <<deleted, tampered, dynamic>>

\* A command no handler knows goes to the language model.  Its prompt holds
\* the stored bodies of the files that exist, but for the Unprompted ones,
\* with orders to return their exact bytes, so the answer may quote any of
\* them; nothing is read through the file system and no event is noted.
ModelAnswers(S, shown) ==
    /\ ops < MaxOps
    /\ \A p \in S : Exists(p) /\ p \notin Unprompted
    /\ out' = [p \in Path |-> IF p \in S THEN Matching(files[p], shown) ELSE None]
    /\ source' = "llm"
    /\ ops' = ops + 1
    /\ UNCHANGED <<vfsVars, honey, seen, planted, saved, persists>>

-----------------------------------------------------------------------------
(* Decoys, disconnects and crashes                                         *)

\* plant_decoy, run by a response executor: written without tampering, noted,
\* and given a renderer that adds the trap once it is armed.
PlantDecoy(p) ==
    /\ p \notin planted
    /\ files'    = [files EXCEPT ![p] = Original(p)]
    /\ baseline' = BaselineBefore(baseline, files, p)
    /\ deleted'  = Undeleted(p)
    /\ dynamic'  = dynamic \union {p}
    /\ planted'  = planted \union {p}
    /\ honey'    = honey \union ({p} \intersect CredentialDecoy)
    /\ UNCHANGED <<tampered, seen, saved, out, source, ops, persists>>

\* Slip: tampering flags are not written to the state file.
ToDict_NoTampered ==
    [files |-> files, baseline |-> baseline, deleted |-> deleted, tampered |-> {},
     seen |-> seen, planted |-> planted]

\* to_dict and the parts of to_persistent_state that go with it.
ToDict ==
    [files |-> files, baseline |-> baseline, deleted |-> deleted, tampered |-> tampered,
     seen |-> seen, planted |-> planted]

\* Session.__init__ with a prior state: only the log gets its renderer back,
\* and the honeytokens are the generated ones.
Restore(state) ==
    /\ files'    = state.files
    /\ baseline' = state.baseline
    /\ deleted'  = state.deleted
    /\ tampered' = state.tampered
    /\ seen'     = state.seen
    /\ planted'  = state.planted
    /\ dynamic'  = LogFile
    /\ honey'    = Honeytoken
    /\ out'      = Silent
    /\ source'   = "builtin"

Persists ==
    /\ persists < MaxPersists
    /\ persists' = persists + 1
    /\ UNCHANGED ops

\* The connection ends, its state is saved, and the intruder comes back.
Reconnect ==
    /\ Persists
    /\ saved' = ToDict
    /\ Restore(ToDict)

\* The save failed or the server died: the intruder finds the state before.
Crash ==
    /\ Persists
    /\ Restore(saved)
    /\ UNCHANGED saved

-----------------------------------------------------------------------------
\* Session.__init__ of a fresh engagement: honeytokens through the
\* constructor, placeholders and system files through write(tamper=False),
\* whose baseline is "".
SeedFiles ==
    [p \in Path |-> IF p \in Honeytoken \union System THEN Original(p)
                    ELSE IF p \in Placeholder THEN <<>> ELSE None]
SeedBaseline ==
    [p \in Path |-> IF p \in Honeytoken THEN Original(p)
                    ELSE IF p \in Placeholder \union System THEN <<>> ELSE None]
FreshSeen == [read |-> {}, modified |-> {}, removed |-> {}, swallowed |-> {}, drops |-> {},
              persistence |-> FALSE]

Init ==
    /\ files = SeedFiles
    /\ baseline = SeedBaseline
    /\ deleted = {}
    /\ tampered = {}
    /\ dynamic = LogFile
    /\ honey = Honeytoken
    /\ seen = FreshSeen
    /\ planted = {}
    /\ saved = ToDict
    /\ out = Silent
    /\ source = "builtin"
    /\ ops = 0
    /\ persists = 0

Next ==
    \/ \E p \in Path, t \in Text, append \in BOOLEAN : Echo(p, t, append)
    \/ \E p \in Path : Truncate(p)
    \/ \E p \in Path : Touch(p)
    \/ \E p \in Path : Rm(p)
    \/ \E s, d \in Path : Cp(s, d)
    \/ \E s, d \in Path : Mv(s, d)
    \/ \E d \in Dir, pflag \in BOOLEAN : Mkdir(d, pflag)
    \/ \E d \in Dir : Rmdir(d)
    \/ \E p \in Path : Cat(p)
    \/ \E p \in Path, shown \in Patterns \union {{}} : TextProc(p, shown)
    \/ \E p \in Path, pattern \in Patterns : Grep(p, FALSE, pattern)
    \/ \E d \in Dir, pattern \in Patterns : Grep(d, TRUE, pattern)
    \/ \E S \in SUBSET Path, shown \in Patterns : ModelAnswers(S, shown)
    \/ \E p \in DecoyFile : PlantDecoy(p)
    \/ Reconnect
    \/ Crash

Spec == Init /\ [][Next]_vars

-----------------------------------------------------------------------------
(* Properties                                                              *)

\* The disk an intruder sees: invented while it is untouched.
DiskOf(f, del, tam, pl) ==
    [p \in Path |-> IF p \in del THEN None
                    ELSE IF p \in (LogFile \union pl) \ tam THEN Live
                    ELSE f[p]]

Abstract == INSTANCE ShellFS WITH
    disk <- DiskOf(files, deleted, tampered, planted),
    kept <- DiskOf(saved.files, saved.deleted, saved.tampered, saved.planted)

\* The virtual file system is the disk of ShellFS: what an intruder writes,
\* copies or removes is what every later command of this and of later
\* connections finds, and what the honeypot invents is never put in its place
\* (VirtualFS.read/write/unlink, to_dict/restore, _apply_write_ops).
ActsLikeADisk == Abstract!Spec

Entry  == Body \union {None}
SeenT  == [read : SUBSET Path, modified : SUBSET Path, removed : SUBSET Path,
           swallowed : SUBSET Path, drops : SUBSET Path, persistence : BOOLEAN]
IsVfs(f, b, del, tam, s, pl) ==
    /\ f \in [Path -> Entry] /\ b \in [Path -> Entry]
    /\ del \subseteq tam /\ tam \subseteq Path
    /\ s \in SeenT
    /\ pl \subseteq DecoyFile

\* Every variable has the shape the code gives it, in memory and in the file,
\* and a deleted path counts as tampered with.
TypeOK ==
    /\ IsVfs(files, baseline, deleted, tampered, seen, planted)
    /\ IsVfs(saved.files, saved.baseline, saved.deleted, saved.tampered, saved.seen, saved.planted)
    /\ dynamic \subseteq Path /\ honey \subseteq Path
    /\ out \in [Path -> Printed \union {None}] /\ source \in {"builtin", "llm"}
    /\ ops \in 0..MaxOps /\ persists \in 0..MaxPersists

Holds(body, line) == body # None /\ \E i \in DOMAIN body : body[i] = line

\* The planted text of p is somewhere else on the disk, or was just printed:
\* by a handler, or by anyone when the language model is never shown it.
Leaked(p) ==
    \/ \E q \in Path : q # p /\ Holds(files[q], p)
    \/ (source = "builtin" \/ p \in Unprompted) /\ \E q \in Path : Holds(out[q], p)

\* A credential or decoy whose text reached another file, or the screen
\* through one of the honeypot's own handlers, over whatever detour, has been
\* noted as read: the alert_credential_exfil and alert_decoy_swallowed rules
\* live on that.  An answer of the language model may show the bait in its
\* prompt unnoted (orchestrator.py:303-305, 876-900, 945-998), but never an
\* Unprompted file, the private key, without an earlier read of it on record.
BaitTakenIsObserved ==
    /\ \A p \in Credential : Leaked(p) => p \in seen.read
    /\ \A p \in planted : Leaked(p) => p \in seen.swallowed

\* A honeytoken that no longer reads as planted has been noted as modified,
\* and the baseline its diff is drawn against is still the planted text, also
\* after removals, copies onto it, reconnects and crashes.
TamperingIsEvident ==
    \A p \in Honeytoken :
        /\ baseline[p] = Original(p)
        /\ files[p] # Original(p) => p \in seen.modified
=============================================================================
