------------------------------- MODULE Reports ------------------------------
(***************************************************************************)
(* What the console and the REST API read back: the session logs on disk,  *)
(* gathered into engagements (load_engagements of tools/audit.py,          *)
(* _load_all_engagements of plenith/api/server.py) and into charts         *)
(* (plenith/aggregations.py), while sessions keep rewriting them.          *)
(*                                                                         *)
(* A session writes its log after every command, in place; a reader opens  *)
(* the logs one by one and passes over one that does not parse.  An event  *)
(* is a command or an alert; it carries its session and a number, so that  *)
(* sets of events count like the lists of the code.  State files add       *)
(* only what the lists show beside the alerts, and are left out.           *)
(***************************************************************************)
EXTENDS Naturals, Sequences, FiniteSets, FiniteSetsExt, SequencesExt

CONSTANTS Sitting,    \* connections: each writes one log
          HostOf,     \* connection -> the host whose directory holds its log
          CaseOf,     \* connection -> its engagement
          CanRaise,   \* connection -> the alerts its commands may cause
          SevOf,      \* alert -> severity
          MaxCommands,\* connection -> bound on its commands
          Limit,      \* how many rows a reader may ask for
          MinTime, MaxTime,   \* the clock's bounds
          Day         \* its ticks per day

Host == {HostOf[c] : c \in Sitting}
Case == {CaseOf[c] : c \in Sitting}
AlertName == DOMAIN SevOf
Severity == {"critical", "high", "medium", "info"}
SevRank == [critical |-> 0, high |-> 1, medium |-> 2, info |-> 3]
ASSUME SeverityAssumption ==
    /\ \A a \in AlertName : SevOf[a] \in Severity
    /\ \A c \in Sitting : CanRaise[c] \subseteq AlertName
ASSUME FewAssumption ==
    /\ IsFiniteSet(Sitting) /\ IsFiniteSet(AlertName)
    /\ MinTime \in Nat /\ MaxTime \in Nat /\ Day \in Nat \ {0}

VARIABLES
    time,
    told,      \* what each session has seen so far
    onFile,    \* each log on disk: "none", "torn" or "whole", and its events
    scan       \* a listing in progress

reportVars == <<time, told, onFile, scan>>

NoLog == [st |-> "none", events |-> {}]
Absent == [found |-> FALSE, events |-> {}]
NoScan == [phase |-> "idle", hosts |-> {}, host |-> "-", todo |-> {}, logs |-> {},
           byId |-> [e \in Case |-> Absent], atStart |-> {}, torn |-> FALSE]

ReportInit ==
    /\ time = MinTime /\ told = [c \in Sitting |-> {}] /\ onFile = [c \in Sitting |-> NoLog]
    /\ scan = NoScan

\* the events a reader can get at now
OnDisk == UNION {onFile[c].events : c \in {d \in Sitting : onFile[d].st = "whole"}}

-----------------------------------------------------------------------------
Event(c, kind, name) == [by |-> c, n |-> Cardinality(told[c]), kind |-> kind, name |-> name, ts |-> time]

Passes == time < MaxTime /\ time' = time + 1 /\ UNCHANGED <<told, onFile, scan>>
\* a command, and the alert it may cause
Command(c) ==
    /\ Cardinality({v \in told[c] : v.kind = "command"}) < MaxCommands[c] /\ onFile[c].st # "torn"
    /\ \E a \in CanRaise[c] \cup {"-"} :
          told' = [told EXCEPT ![c] = @ \cup {Event(c, "command", "-")}
                     \cup (IF a = "-" THEN {} ELSE {Event(c, "alert", a)})]
    /\ UNCHANGED <<time, onFile, scan>>
\* write_session_log truncates the file and writes it
OpenLog(c) ==
    /\ told[c] # {} /\ onFile[c].st # "torn" /\ onFile[c].events # told[c]
    /\ onFile' = [onFile EXCEPT ![c] = [st |-> "torn", events |-> {}]]
    /\ UNCHANGED <<time, told, scan>>
CloseLog(c) ==
    /\ onFile[c].st = "torn"
    /\ onFile' = [onFile EXCEPT ![c] = [st |-> "whole", events |-> told[c]]]
    /\ UNCHANGED <<time, told, scan>>

-----------------------------------------------------------------------------
\* _load_all_engagements: host directory after host directory, in any order;
\* load_engagements reads the logs of each
BeginScan ==
    /\ scan.phase = "idle"
    /\ scan' = [NoScan EXCEPT !.phase = "host", !.hosts = Host, !.atStart = OnDisk]
    /\ UNCHANGED <<time, told, onFile>>
EnterHost(h) ==
    /\ scan.phase = "host" /\ h \in scan.hosts
    /\ scan' = [scan EXCEPT !.phase = "logs", !.hosts = @ \ {h}, !.host = h, !.logs = {},
                  !.todo = {c \in Sitting : HostOf[c] = h /\ onFile[c].st # "none"}]
    /\ UNCHANGED <<time, told, onFile>>
ReadLog(c) ==
    /\ scan.phase = "logs" /\ c \in scan.todo
    /\ scan' = [scan EXCEPT !.todo = @ \ {c},
                  !.logs = IF onFile[c].st = "whole" THEN @ \cup {[by |-> c, events |-> onFile[c].events]}
                           ELSE @,
                  !.torn = @ \/ onFile[c].st = "torn"]
    /\ UNCHANGED <<time, told, onFile>>
\* load_engagements: an engagement is there when one of its logs is
LogsOf(e) == {l \in scan.logs : CaseOf[l.by] = e}
\* the logs of an engagement met on two hosts are put together
MergeLogs_KeepsFirst(old, new) == IF old.found THEN old ELSE new
MergeLogs(old, new) ==
    [found |-> TRUE, events |-> old.events \cup new.events]
LeaveHost ==
    /\ scan.phase = "logs" /\ scan.todo = {}
    /\ scan' = [scan EXCEPT
          !.byId = [e \in Case |->
              IF LogsOf(e) = {} THEN @[e]
              ELSE MergeLogs(@[e], [found |-> TRUE,
                                    events |-> UNION {l.events : l \in LogsOf(e)}])],
          !.phase = IF scan.hosts = {} THEN "done" ELSE "host"]
    /\ UNCHANGED <<time, told, onFile>>
EndScan == scan.phase = "done" /\ scan' = NoScan /\ UNCHANGED <<time, told, onFile>>

\* _aggregate_actions and _summarize_engagement
Alerts(events) == {v \in events : v.kind = "alert"}
Worst(events) ==
    IF Alerts(events) = {} THEN "info"
    ELSE CHOOSE s \in Severity : /\ \E v \in Alerts(events) : SevOf[v.name] = s
                                 /\ \A v \in Alerts(events) : SevRank[s] <= SevRank[SevOf[v.name]]
\* what list_engagements and list_alerts find for a severity asked for; the size
\* of it is the total of the reply
EngagementsFound(want) ==
    {e \in Case : scan.byId[e].found /\ SevRank[Worst(scan.byId[e].events)] <= SevRank[want]}
AlertsFound(want) ==
    {v \in UNION {Alerts(scan.byId[e].events) : e \in Case} : SevRank[SevOf[v.name]] <= SevRank[want]}
\* a reply is cut at the limit asked for; which rows come first goes by when an
\* engagement was last seen, which its state file may say, and is left open
Pages(rows, limit) ==
    {page \in SUBSET rows : IF Cardinality(rows) <= limit THEN page = rows
                            ELSE Cardinality(page) = limit}
ListEngagements(want, limit) == Pages(EngagementsFound(want), limit)
ListAlerts(want, limit) == Pages(AlertsFound(want), limit)

ReportNext ==
    \/ Passes \/ BeginScan \/ LeaveHost \/ EndScan
    \/ \E c \in Sitting : Command(c) \/ OpenLog(c) \/ CloseLog(c) \/ ReadLog(c)
    \/ \E h \in Host : EnterHost(h)

-----------------------------------------------------------------------------
(***************************************************************************)
(* The charts, over the events E on disk.                                  *)
(***************************************************************************)
Inside_Closed(ts, start, end) == ts >= start /\ ts <= end
Inside(ts, start, end) == ts >= start /\ ts < end
Within(E, start, end) == {v \in E : Inside(v.ts, start, end)}

\* alert_rate
NBuckets(start, end, width) == Max({1, (end - start) \div width})
BucketOf(ts, start, end, width) == Min({NBuckets(start, end, width) - 1, (ts - start) \div width})
Bucket(E, start, end, width, wanted) ==
    [i \in 0..(NBuckets(start, end, width) - 1) |-> [s \in Severity |->
        Cardinality({v \in Within(Alerts(E), start, end) :
            SevOf[v.name] = s /\ s \in wanted /\ BucketOf(v.ts, start, end, width) = i})]]
Total(series) == SumFunction([p \in (DOMAIN series) \X Severity |-> series[p[1]][p[2]]])
\* compare_to="previous": the window of the same width before
Previous(E, since, until, width, wanted) == Bucket(E, since - (until - since), since, width, wanted)

\* alert_top: per alert its count and a sparkline of n buckets, the worst and
\* most frequent first
Named(E, name, since, until) == {v \in Within(Alerts(E), since, until) : v.name = name}
SparkOf(ts, since, until, n) ==
    Min({n - 1, IF until - since <= n THEN ts - since ELSE ((ts - since) * n) \div (until - since)})
Sparkline(E, name, since, until, n) ==
    [i \in 0..(n - 1) |-> Cardinality({v \in Named(E, name, since, until) : SparkOf(v.ts, since, until, n) = i})]
AlertTop(E, since, until, limit) ==
    LET names == {a \in AlertName : Named(E, a, since, until) # {}}
        count(a) == Cardinality(Named(E, a, since, until))
        before(a, b) == \/ SevRank[SevOf[a]] < SevRank[SevOf[b]]
                        \/ SevOf[a] = SevOf[b] /\ count(a) >= count(b)
        ranked == CHOOSE s \in SetToSeqs(names) :
                     \A i, j \in DOMAIN s : i < j => before(s[i], s[j])
    IN  SubSeq(ranked, 1, Min({limit, Len(ranked)}))

\* activity_heatmap and activity_cell_engagements: hosts against the hours of a day
Hour(ts) == ts % Day
Kinds(kind) == IF kind = "all" THEN {"command", "alert"} ELSE {kind}
Cell(E, h, hour, kind, since, until) ==
    {v \in Within(E, since, until) : HostOf[v.by] = h /\ Hour(v.ts) = hour /\ v.kind \in Kinds(kind)}
Heatmap(E, kind, since, until) ==
    [h \in Host |-> [hour \in 0..(Day - 1) |-> Cardinality(Cell(E, h, hour, kind, since, until))]]
\* the drill-in lists the most active engagements, up to its limit
CellEngagements(E, h, hour, kind, since, until, limit) ==
    LET mine == Cell(E, h, hour, kind, since, until)
        there == {CaseOf[v.by] : v \in mine}
        count(e) == Cardinality({v \in mine : CaseOf[v.by] = e})
    IN  {[e \in page |-> count(e)] :
            page \in {p \in Pages(there, limit) : \A e \in p, f \in there \ p : count(e) >= count(f)}}
-----------------------------------------------------------------------------
\* A reply to a listing taken while sessions keep writing has no alert no session
\* raised, and when its total is within the limit asked for, every alert that was
\* on disk when it began and the engagement of every alert listed, whatever hosts
\* an engagement was seen on and in whatever order they were read, unless a log
\* was caught in the middle of being rewritten (_load_all_engagements, list_alerts).
ListingIsWhole ==
    scan.phase = "done" => \A want \in Severity, limit \in Limit : \A page \in ListAlerts(want, limit) :
        /\ page \subseteq UNION {told[c] : c \in Sitting}
        /\ ~scan.torn =>
              /\ Cardinality(AlertsFound(want)) <= limit =>
                    {v \in Alerts(scan.atStart) : SevRank[SevOf[v.name]] <= SevRank[want]} \subseteq page
              /\ Cardinality(EngagementsFound(want)) <= limit =>
                    \A list \in ListEngagements(want, limit) : \A v \in page : CaseOf[v.by] \in list

\* The charts of the events E tell one story: the window charted and the one
\* before it split their alerts without a gap or an overlap, the totals, the top
\* list and its sparklines of n buckets and the alert cells of the heatmap add up
\* to each other, and the drill-in of a cell accounts for nothing outside it, and
\* for all of it when the cell has no more engagements than the drill-in may list.
ChartsAgree(E, since, until, width, n) ==
    LET now == Total(Bucket(E, since, until, width, Severity))
        top == AlertTop(E, since, until, Cardinality(AlertName))
        heat == Heatmap(E, "alert", since, until)
        busy == Heatmap(E, "all", since, until)
    IN  /\ now + Total(Previous(E, since, until, width, Severity))
             = Cardinality({v \in Alerts(E) : v.ts >= 2 * since - until /\ v.ts < until})
        /\ now = SumFunction([a \in Range(top) |-> SumFunction(Sparkline(E, a, since, until, n))])
        /\ now = SumFunction([h \in Host |-> SumFunction(heat[h])])
        /\ \A h \in Host, hour \in 0..(Day - 1), limit \in Limit :
              \A listed \in CellEngagements(E, h, hour, "all", since, until, limit) :
                 /\ SumFunction(listed) <= busy[h][hour]
                 /\ Cardinality({CaseOf[v.by] : v \in Cell(E, h, hour, "all", since, until)}) <= limit =>
                       SumFunction(listed) = busy[h][hour]

\* Between listings, the charts of what is on disk agree, over windows of the
\* clock that have one before them (alert_rate, alert_top, activity_heatmap,
\* activity_cell_engagements).
ChartsAddUp ==
    scan = NoScan /\ OnDisk # {} => \A since \in MinTime..MaxTime, until \in MinTime..(MaxTime + 1), width \in 1..2 :
        since < until /\ until <= 2 * since => ChartsAgree(OnDisk, since, until, width, 2)
=============================================================================
