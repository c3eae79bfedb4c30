------------------------------- MODULE Upkeep -------------------------------
(***************************************************************************)
(* What works on the state directory beside the sessions: the retention    *)
(* purge (plan, then delete), the backup (list, hash, archive) and the     *)
(* restore (verify, then extract), against sessions that go on saving.     *)
(* None of them takes a lock. Times are in days of the retention windows.  *)
(***************************************************************************)
EXTENDS Naturals, FiniteSets, Sequences

CONSTANTS
    StateFile, LogFile, BeatFile, TempFile, \* one path of each kind
    Window,        \* retention window of every category
    Subject,       \* source addresses data can be about
    About,         \* the source_ip field of each path's content, or NoJob
    Deployment,    \* deployment ids, "" for unset
    Here,          \* PLENITH_DEPLOYMENT_ID of this installation
    Foreign,       \* archives already in the backup directory
    Keep,          \* --keep of the backup job, 0 without
    NoJob, Missing,
    MaxBody, MaxDays, MaxJobs, MaxMishaps  \* bounds

Path == {StateFile, LogFile, BeatFile, TempFile}

\* _build_default_specs: root, glob and recursion give every file one category.
\* A temporary file of StateStore.save ends in .json and lies beside its target.
Categories == <<"engagements", "persistence", "heartbeats">>
CategoryOf(p) ==
    CASE p = LogFile -> "engagements"
      [] p \in {StateFile, TempFile} -> "persistence"
      [] p = BeatFile -> "heartbeats"
Rank(p) == CHOOSE i \in DOMAIN Categories : Categories[i] = CategoryOf(p)

ASSUME UpkeepAssumption ==
    /\ \A i \in DOMAIN Categories : Window[Categories[i]] \in Nat
    /\ Keep \in Nat /\ MaxBody \in Nat /\ MaxDays \in Nat

\* The paths differ; the state and the log of an engagement carry one address;
\* the archives that are there were made by this program.
ASSUME FilesAssumption ==
    /\ LogFile \notin {StateFile, BeatFile, TempFile} /\ StateFile \notin {BeatFile, TempFile}
    /\ BeatFile # TempFile
    /\ About[LogFile] = About[StateFile]
    /\ Foreign \in Seq({Foreign[i] : i \in 1..Len(Foreign)})
    /\ \A i \in 1..Len(Foreign) : Foreign[i].whole =>
          Foreign[i].owed \subseteq DOMAIN Foreign[i].members \cap DOMAIN Foreign[i].files

VARIABLES
    disk,      \* path -> Missing or [body, at]
    clock, bodies, jobs, mishaps,
    purge,     \* the purge in progress, or NoJob
    backup,    \* the backup in progress, or NoJob
    archives,  \* files of the backup directory, oldest first
    restore,   \* the restore in progress, or NoJob
    stalePurge,  \* history: a file was deleted that changed after it was planned
    unsettled,   \* history: a planned deletion failed, or old files were restored
    session      \* the session LogFile is of: "live", "ending" (its state is being saved),
                 \* "saved", "over" (log written after that), "failed" (its save did), "lost"

upkeepVars == <<disk, clock, bodies, jobs, mishaps, purge, backup, archives, restore,
          stalePurge, unsettled, session>>
history == <<stalePurge, unsettled>>
others == <<jobs, purge, archives, restore, history>>

Present == {p \in Path : disk[p] # Missing}
NewBody == bodies < MaxBody /\ bodies' = bodies + 1
UpkeepFault == mishaps < MaxMishaps /\ mishaps' = mishaps + 1
Job == jobs < MaxJobs /\ jobs' = jobs + 1

\* History of the backup in progress: files that have not changed since it began.
Unsteady(ps) == backup' = IF backup = NoJob THEN NoJob
                          ELSE [backup EXCEPT !.steady = @ \ ps]

-----------------------------------------------------------------------------
(* Sessions: the one LogFile is of, and others of the same identity, whose   *)
(* logs are other files but whose state is the same one.                     *)

Puts(p) ==
    /\ NewBody
    /\ disk' = [disk EXCEPT ![p] = [body |-> bodies + 1, at |-> clock]]
    /\ Unsteady({p})

\* StateStore.save: a temporary file beside the target, then the rename.
SaveBegin(ends) ==
    /\ session # "ending" /\ (ends => session = "live")
    /\ disk[TempFile] = Missing /\ Puts(TempFile)
    /\ session' = IF ends THEN "ending" ELSE session
    /\ UNCHANGED <<clock, mishaps, others>>

SaveEnd ==
    /\ disk[TempFile] # Missing
    /\ disk[TempFile].at = clock
    /\ disk' = [disk EXCEPT ![StateFile] = disk[TempFile], ![TempFile] = Missing]
    /\ Unsteady({StateFile, TempFile})
    /\ session' = IF session = "ending" THEN "saved" ELSE session
    /\ UNCHANGED <<clock, bodies, mishaps, others>>

\* A save that raises takes its temporary file away and is only logged.
NotSaved ==
    /\ session = "ending"
    /\ IF disk[TempFile] = Missing THEN UNCHANGED mishaps ELSE UpkeepFault
    /\ disk' = [disk EXCEPT ![TempFile] = Missing] /\ Unsteady({TempFile})
    /\ session' = "failed"
    /\ UNCHANGED <<clock, bodies, others>>

\* write_session_log: after every command, and once more when the session ends,
\* whether its state could be saved or not.
WriteLog ==
    /\ session \in {"live", "saved", "failed"}
    /\ Puts(LogFile)
    /\ session' = CASE session = "live" -> "live"
                    [] session = "saved" -> "over"
                    [] session = "failed" -> "lost"
    /\ UNCHANGED <<clock, mishaps, others>>

\* HeartbeatWriter.write_once.
Beat ==
    /\ Puts(BeatFile)
    /\ UNCHANGED <<clock, mishaps, others, session>>

-----------------------------------------------------------------------------
(* Retention: build_plan is read-only, apply_plan deletes what it lists. *)

\* build_plan: older than the window of its category and, for a subject
\* request, with that source_ip in its content.
Expired(p) == clock - disk[p].at > Window[CategoryOf(p)]
Matches(p, filter) == filter = NoJob \/ About[p] = filter
ToDelete(filter) == {p \in Present : Expired(p) /\ Matches(p, filter)}

\* main: a filter with --apply needs --confirm, otherwise the run is refused.
StartPurge(apply, filter, confirm) ==
    /\ purge = NoJob
    /\ Job
    /\ purge' = IF filter # NoJob /\ apply /\ ~confirm THEN NoJob
                ELSE [todo   |-> ToDelete(filter), apply |-> apply,
                      now |-> clock, failed |-> 0]
    /\ UNCHANGED <<disk, clock, bodies, mishaps, backup, archives, restore, history, session>>

\* apply_plan goes through the categories in their order.
NextUp_AnyOrder(p) == p \in purge.todo
NextUp(p) == p \in purge.todo /\ \A q \in purge.todo : Rank(p) <= Rank(q)

RemoveFile(p) ==
    /\ purge # NoJob /\ NextUp(p)
    /\ IF purge.apply /\ disk[p] # Missing
       THEN /\ disk' = [disk EXCEPT ![p] = Missing]
            /\ Unsteady({p})
            /\ stalePurge' = (stalePurge \/ disk[p].at >= purge.now)
       ELSE UNCHANGED <<disk, backup, stalePurge>>
    /\ purge' = [purge EXCEPT !.todo = @ \ {p},
                              !.failed = @ + IF purge.apply /\ disk[p] = Missing
                                             THEN 1 ELSE 0]
    /\ UNCHANGED <<clock, bodies, jobs, mishaps, archives, restore, unsettled, session>>

\* A file that cannot be deleted is counted and the run goes on.
RemoveFails(p) ==
    /\ purge # NoJob /\ purge.apply /\ NextUp(p) /\ disk[p] # Missing
    /\ UpkeepFault
    /\ purge' = [purge EXCEPT !.todo = @ \ {p}, !.failed = @ + 1]
    /\ unsettled' = TRUE
    /\ UNCHANGED <<disk, clock, bodies, jobs, backup, archives, restore, stalePurge, session>>

EndPurge ==
    /\ purge # NoJob /\ purge.todo = {}
    /\ purge' = NoJob
    /\ UNCHANGED <<disk, clock, bodies, jobs, mishaps, backup, archives, restore, history, session>>

-----------------------------------------------------------------------------
(* Backup *)

\* _should_include drops *.tmp and host keys, not the sessions' .tmp_*.json.
Gather_SkipsLogs == Present \ {LogFile}
Gather == Present

StartBackup ==
    /\ backup = NoJob
    /\ Gather # {}
    /\ Job
    /\ backup' = [step |-> "hash", todo |-> Gather, entries |-> Gather,
                  files |-> <<>>, members |-> <<>>, steady |-> Present]
    /\ UNCHANGED <<disk, clock, bodies, mishaps, purge, archives, restore, history, session>>

\* A temporary file has a random name: another one is not the file gathered.
Gone(p) == disk[p] = Missing \/ (p = TempFile /\ p \notin backup.steady)

\* The function f with p mapped to x.
With(f, p, x) == [q \in DOMAIN f \cup {p} |-> IF q = p THEN x ELSE f[q]]

\* _manifest: a file that cannot be read any more is left out with a warning.
Hash(p) ==
    /\ backup # NoJob /\ backup.step = "hash" /\ p \in backup.todo
    /\ backup' = [backup EXCEPT
                    !.todo  = IF backup.todo = {p} THEN backup.entries ELSE @ \ {p},
                    !.step  = IF backup.todo = {p} THEN "add" ELSE @,
                    !.files = IF Gone(p) THEN @ ELSE With(@, p, disk[p].body)]
    /\ UNCHANGED <<disk, clock, bodies, jobs, mishaps, purge, archives, restore,
                   history, session>>

Archive(whole, members) ==
    [files |-> backup.files, members |-> members, dep |-> Here, whole |-> whole,
     owed  |-> backup.steady]

\* Rolling retention: the oldest beyond --keep go.
Rolled(found) == IF Keep = 0 \/ Len(found) <= Keep THEN found
              ELSE SubSeq(found, Len(found) - Keep + 1, Len(found))

\* tar.add of every gathered file, in or out of the manifest. One that is gone
\* raises: the job fails and what was written of the archive stays.
Add(p) ==
    LET members == With(backup.members, p, disk[p])
    IN /\ backup # NoJob /\ backup.step = "add" /\ p \in backup.todo
       /\ IF Gone(p)
          THEN /\ archives' = Append(archives, Archive(FALSE, backup.members))
               /\ backup' = NoJob
          ELSE IF backup.todo = {p}
          THEN /\ archives' = Rolled(Append(archives, Archive(TRUE, members)))
               /\ backup' = NoJob
          ELSE /\ backup' = [backup EXCEPT !.todo = @ \ {p},
                                       !.members = members]
               /\ UNCHANGED archives
       /\ UNCHANGED <<disk, clock, bodies, jobs, mishaps, purge, restore, history, session>>

-----------------------------------------------------------------------------
(* Restore *)

\* _verify_hashes: every file of the manifest is a member with that hash.
Verified(a) ==
    \A p \in DOMAIN a.files :
        p \in DOMAIN a.members /\ a.members[p].body = a.files[p]

\* Another deployment's backup needs --force; an unset id is not compared.
RightDeployment(a, force) == Here = "" \/ a.dep = "" \/ a.dep = Here \/ force

StartRestore(i, force, dryRun) ==
    /\ restore = NoJob
    /\ i \in DOMAIN archives
    /\ Job
    /\ restore' = IF RightDeployment(archives[i], force) /\ Verified(archives[i])
                     /\ ~dryRun
                  THEN [from |-> archives[i], todo |-> DOMAIN archives[i].members]
                  ELSE NoJob
    /\ UNCHANGED <<disk, clock, bodies, mishaps, purge, backup, archives, history, session>>

\* extractall: member by member, with the times of the archive, over what is
\* there; nothing is removed.
Extract(p) ==
    /\ restore # NoJob /\ p \in restore.todo
    /\ disk' = [disk EXCEPT ![p] = restore.from.members[p]]
    /\ restore' = [restore EXCEPT !.todo = @ \ {p}]
    /\ Unsteady({p})
    /\ unsettled' = TRUE
    /\ UNCHANGED <<clock, bodies, jobs, mishaps, purge, archives, stalePurge, session>>

EndRestore ==
    /\ restore # NoJob /\ restore.todo = {}
    /\ restore' = NoJob
    /\ UNCHANGED <<disk, clock, bodies, jobs, mishaps, purge, backup, archives,
                   history, session>>

\* connection_lost takes no day: one that is not through has died with its agent.
Tick ==
    /\ clock < MaxDays
    /\ clock' = clock + 1
    /\ session' = IF session \in {"ending", "saved", "failed"} THEN "lost" ELSE session
    /\ UNCHANGED <<disk, bodies, mishaps, backup, others>>

-----------------------------------------------------------------------------
\* The session has just begun, or its first commands are in the log.
UpkeepInit ==
    /\ \E there \in {{}, {LogFile}} :
          disk = [p \in Path |-> IF p \in there THEN [body |-> 0, at |-> 0] ELSE Missing]
    /\ clock = 0 /\ bodies = 0 /\ jobs = 0 /\ mishaps = 0
    /\ purge = NoJob /\ backup = NoJob /\ restore = NoJob
    /\ archives = Foreign
    /\ stalePurge = FALSE /\ unsettled = FALSE
    /\ session = "live"

UpkeepNext ==
    \/ \E ends \in BOOLEAN : SaveBegin(ends)
    \/ SaveEnd \/ NotSaved \/ WriteLog \/ Beat
    \/ \E apply, confirm \in BOOLEAN, f \in Subject \cup {NoJob} :
          StartPurge(apply, f, confirm)
    \/ \E p \in Path : RemoveFile(p) \/ RemoveFails(p)
    \/ EndPurge
    \/ StartBackup
    \/ \E p \in Path : Hash(p) \/ Add(p)
    \/ \E i \in DOMAIN archives, force, dryRun \in BOOLEAN :
          StartRestore(i, force, dryRun)
    \/ \E p \in Path : Extract(p)
    \/ EndRestore
    \/ Tick

-----------------------------------------------------------------------------
(* Properties *)

(* Retention never leaves the log of a session that ended in order without  *)
(* the engagement state it belongs to, as long as the state's window is no   *)
(* shorter than the logs', as the default one is: logs are planned no later  *)
(* and deleted first. Only a deletion that failed, a file written again      *)
(* between plan and deletion, or a restore can separate the two. A session   *)
(* that is still on, died with its agent or could not be saved has a log     *)
(* and no state of its own, and retention may leave it that way              *)
(* (retention.py, connection_lost).                                          *)
StateOutlivesLog ==
    /\ Window["engagements"] <= Window["persistence"]
    /\ session = "over" /\ disk[LogFile] # Missing /\ ~stalePurge /\ ~unsettled
    => disk[StateFile] # Missing

(* A backup that succeeded holds, and its manifest lists, every file that    *)
(* was on disk unchanged from its first step to its last; and no file is     *)
(* extracted from one that failed half way or raced a save so that a file of *)
(* its manifest is missing or another (backup.py, _verify_hashes).           *)
BackupHoldsTheSteady ==
    /\ \A i \in DOMAIN archives :
          archives[i].whole =>
              archives[i].owed \subseteq DOMAIN archives[i].members \cap DOMAIN archives[i].files
    /\ restore # NoJob =>
          \A p \in DOMAIN restore.from.files :
              p \in DOMAIN restore.from.members /\ restore.from.members[p].body = restore.from.files[p]
=============================================================================
