----------------------------- MODULE MC_Records -----------------------------
(***************************************************************************)
(* What the platform keeps on disk and reads back: the analyst overlay     *)
(* (CaseOverlay), the listings and charts over the session logs (Reports), *)
(* retention, backup and restore (Upkeep), the command chain of a log      *)
(* (AuditChain) and the heartbeats (Heartbeat).  No two of them share a    *)
(* variable, so a behaviour of this module is one of one of them.          *)
(***************************************************************************)
EXTENDS CaseOverlay, Reports, Upkeep, AuditChain, Heartbeat, TLC

\* Engagements and the dashboard's threads are interchangeable.
Symmetry == Permutations(Eng) \cup Permutations(Thread)

\* Two connections of one engagement, on two hosts, and one of another
\* engagement: two engagements share the cells of a host, more than a page of one.
Hosts == [s1 |-> "h1", s2 |-> "h2", s3 |-> "h1"]
Cases == [s1 |-> "e1", s2 |-> "e1", s3 |-> "e2"]
Raise == [s1 |-> {"shell"}, s2 |-> {"search"}, s3 |-> {}]
Commands == [s1 |-> 2, s2 |-> 1, s3 |-> 1]
Severities == [shell |-> "critical", search |-> "medium"]

\* Shorter logs than state, as in DEFAULT_WINDOWS.
Windows == [c \in {"engagements", "persistence", "heartbeats"} |->
              IF c = "persistence" THEN 1 ELSE 0]
\* State and log carry the attacker's address, a heartbeat does not.
AboutOf == [p \in Path |-> IF p = BeatFile THEN NoJob
                           ELSE CHOOSE x \in Subject : TRUE]
OtherArchive ==
    << [files |-> StateFile :> 0, members |-> StateFile :> [body |-> 0, at |-> 0],
        dep |-> "other", whole |-> TRUE, owed |-> {StateFile}] >>

VARIABLE part

RecordsInit ==
    /\ part \in {"overlay", "reports", "upkeep", "chain", "heartbeat"}
    /\ OverlayInit /\ ReportInit /\ UpkeepInit /\ ChainInit /\ HeartbeatInit

RecordsNext ==
    /\ UNCHANGED part
    /\ \/ part = "overlay" /\ OverlayNext /\ UNCHANGED <<reportVars, upkeepVars, chainVars, beatVars>>
       \/ part = "reports" /\ ReportNext /\ UNCHANGED <<overlayVars, upkeepVars, chainVars, beatVars>>
       \/ part = "upkeep" /\ UpkeepNext /\ UNCHANGED <<overlayVars, reportVars, chainVars, beatVars>>
       \/ part = "chain" /\ ChainNext /\ UNCHANGED <<overlayVars, reportVars, upkeepVars, beatVars>>
       \/ part = "heartbeat" /\ HeartbeatNext /\ UNCHANGED <<overlayVars, reportVars, upkeepVars, chainVars>>

RecordsSpec ==
    RecordsInit /\ [][RecordsNext]_<<overlayVars, reportVars, upkeepVars, chainVars, beatVars, part>>
=============================================================================
