---------------------------- MODULE AlertDelivery ----------------------------
(***************************************************************************)
(* How an alert leaves the platform: the fan-out over the SIEM and SOAR    *)
(* emitters (plenith/connectors/siem.py, soar.py), the chat connectors     *)
(* that follow it one after the other (chatops.py, tools/connectors.py     *)
(* `send`), and the escalation of an engagement (plenith/escalate.py).     *)
(*                                                                         *)
(* A sender is a coroutine that pushes one alert through the whole chain.  *)
(* Several may be under way over one fan-out, which is what the batching   *)
(* of SplunkHEC and ElasticBulk and the lock of SyslogTCP are written for. *)
(* Every await is a point where other senders may run, so the emit of each *)
(* kind of emitter is split exactly at its awaits.                         *)
(***************************************************************************)
EXTENDS Naturals, Sequences, FiniteSets, Functions

CONSTANTS
    Alert,       \* alerts that `send` pushes through every connector
    Request,     \* escalation requests of the dashboard or the API
    Batch,       \* the batching emitters (SplunkHEC, ElasticBulk)
    Tcp,         \* the SyslogTCP emitters
    Direct,      \* one request per alert: UDP, webhook, Cortex XSOAR, Splunk SOAR
    Fields,      \* the artifacts each of these adds: {} but for Splunk SOAR
    Chat,        \* the chat connectors: Slack, Teams, PagerDuty
    Pager,       \* the one of them that is PagerDuty
    Sev,         \* the severity of each alert of Alert
    BatchSize, Window,
    Logs,        \* what an escalated engagement may hold: severities in order
    MaxTime, MaxUpsets

Emitter == Batch \cup Tcp \cup Direct
Severity == {"critical", "high", "medium", "info", "low", "absent"}

ASSUME DeliveryAssumption ==
    /\ BatchSize \in Nat \ {0} /\ Window \in Nat
    /\ MaxTime \in Nat /\ MaxUpsets \in Nat /\ Logs \subseteq Seq(Severity)
    /\ Sev \in [Alert -> Severity]
    /\ Pager \in Chat
    /\ Batch \cap (Tcp \cup Direct) = {} /\ Tcp \cap Direct = {}

VARIABLES
    at,          \* where each sender is
    left,        \* the emitters its gather still waits for
    pending,     \* _pending of each batching emitter
    lastFlush,   \* _last_flush
    flight,      \* the batch a sender has taken and is posting
    holder,      \* who holds the lock of each TCP emitter
    link,        \* its connection
    sockets,     \* open sockets to each TCP peer, forgotten ones included
    got,         \* what each remote end received: how often, per alert
    lost,        \* the alerts each emitter gave up on
    arts,        \* the artifacts each Splunk SOAR case holds
    told,        \* the chat connectors each alert was posted to
    raised,      \* for each escalation, what it was about and whom it told
    time, upsets

senders == <<at, left>>
buffer == <<pending, lastFlush, flight>>
wire == <<holder, link, sockets>>
far == <<got, lost, arts>>
chats == <<told, raised>>
env == <<time, upsets>>
deliveryVars == <<senders, buffer, wire, far, chats, env>>

Nobody == "nobody"
NotRaised == [severe |-> FALSE, told |-> {}]

DeliveryInit ==
    /\ at = [a \in Alert |-> "idle"]
    /\ left = [a \in Alert |-> {}]
    /\ pending = [s \in Batch |-> <<>>]
    /\ lastFlush = [s \in Batch |-> 0]
    /\ flight = [a \in Alert |-> [s \in Batch |-> <<>>]]
    /\ holder = [s \in Tcp |-> Nobody]
    /\ link = [s \in Tcp |-> "none"]
    /\ sockets = [s \in Tcp |-> 0]
    /\ got = [s \in Emitter |-> [a \in Alert |-> 0]]
    /\ lost = [s \in Emitter |-> {}]
    /\ arts = [s \in Direct |-> [a \in Alert |-> {}]]
    /\ told = [a \in Alert |-> {}]
    /\ raised = [q \in Request |-> NotRaised]
    /\ time = 0 /\ upsets = 0

(***************************************************************************)
(* What the network does to one request: delivered, not delivered, or      *)
(* delivered with the answer lost, which the emitter takes for a failure.  *)
(***************************************************************************)
Outcome == {"ok", "refused", "unanswered"}

Reply(r) ==
    /\ upsets + (IF r = "ok" THEN 0 ELSE 1) <= MaxUpsets
    /\ upsets' = upsets + (IF r = "ok" THEN 0 ELSE 1)

\* where an alert is in a batch
At(a, batch) == {i \in DOMAIN batch : batch[i] = a}

Receive(s, batch, r) ==
    /\ got' = [got EXCEPT ![s] = [a \in Alert |-> @[a] +
                  (IF r = "refused" THEN 0 ELSE Cardinality(At(a, batch)))]]
    /\ lost' = IF r = "ok" THEN lost ELSE [lost EXCEPT ![s] = @ \cup Range(batch)]

Done(a, s) == left' = [left EXCEPT ![a] = @ \ {s}]

Emit(a) ==
    /\ at[a] = "idle"
    /\ at' = [at EXCEPT ![a] = "emit"]
    /\ left' = [left EXCEPT ![a] = Emitter]
    /\ UNCHANGED <<buffer, wire, far, chats, env>>

\* flush up to its await: the batch is taken out of _pending first
TakeBatch_ClearLater(a, s, batch) ==
    /\ flight' = [flight EXCEPT ![a][s] = batch]
    /\ lastFlush' = [lastFlush EXCEPT ![s] = time]
    /\ pending' = [pending EXCEPT ![s] = batch]
TakeBatch(a, s, batch) ==
    /\ flight' = [flight EXCEPT ![a][s] = batch]
    /\ lastFlush' = [lastFlush EXCEPT ![s] = time]
    /\ pending' = [pending EXCEPT ![s] = <<>>]

BatchEmit(a, s) ==
    /\ at[a] = "emit" /\ s \in Batch \cap left[a] /\ flight[a][s] = <<>>
    /\ LET held == Append(pending[s], a)
       IN  IF Len(held) >= BatchSize \/ time - lastFlush[s] > Window
           THEN TakeBatch(a, s, held) /\ UNCHANGED left
           ELSE /\ pending' = [pending EXCEPT ![s] = held]
                /\ Done(a, s)
                /\ UNCHANGED <<flight, lastFlush>>
    /\ UNCHANGED <<at, wire, far, chats, env>>

Flush(a, s) ==
    /\ at[a] = "flush" /\ s \in left[a] /\ flight[a][s] = <<>>
    /\ IF pending[s] = <<>>
       THEN Done(a, s) /\ UNCHANGED <<pending, lastFlush, flight>>
       ELSE TakeBatch(a, s, pending[s]) /\ UNCHANGED left
    /\ UNCHANGED <<at, wire, far, chats, env>>

\* the POST of a batch is over; a failed one is logged and its events are gone
Posted(a, s, r) ==
    /\ s \in Batch /\ flight[a][s] # <<>>
    /\ Reply(r)
    /\ Receive(s, flight[a][s], r)
    /\ flight' = [flight EXCEPT ![a][s] = <<>>]
    /\ Done(a, s)
    /\ UNCHANGED <<at, pending, lastFlush, wire, arts, chats, time>>

\* one request per alert.  Splunk SOAR alone follows it with an artifact per
\* field, once the container is answered with an id; an artifact that fails is
\* skipped on its own
DirectEmit(a, s, r, sent) ==
    /\ at[a] = "emit" /\ s \in Direct \cap left[a]
    /\ sent \subseteq Fields[s] /\ (sent # {} => r = "ok")
    /\ Reply(IF r = "ok" /\ sent # Fields[s] THEN "refused" ELSE r)
    /\ Receive(s, <<a>>, r)
    /\ arts' = [arts EXCEPT ![s][a] = sent]
    /\ Done(a, s)
    /\ UNCHANGED <<at, buffer, wire, chats, time>>

(***************************************************************************)
(* SyslogTCP.emit: the lock is held over the connect and the write.  The   *)
(* connect gives up after five seconds, the drain has no time limit.       *)
(***************************************************************************)
Acquire(a, s) ==
    /\ at[a] = "emit" /\ s \in Tcp \cap left[a]
    /\ holder[s] = Nobody
    /\ holder' = [holder EXCEPT ![s] = a]
    /\ UNCHANGED <<senders, buffer, link, sockets, far, chats, env>>

Release(a, s) == holder' = [holder EXCEPT ![s] = Nobody] /\ Done(a, s)

Connect_KeepsLock(a, s, ok) ==
    /\ holder[s] = a /\ s \in left[a]
    /\ link[s] \in {"none", "closing"}
    /\ Reply(IF ok THEN "ok" ELSE "refused")
    /\ link' = [link EXCEPT ![s] = IF ok THEN "open" ELSE "none"]
    /\ sockets' = [sockets EXCEPT ![s] = @ + (IF ok THEN 1 ELSE 0)]
    /\ IF ok THEN UNCHANGED <<left, lost>>
             ELSE Done(a, s) /\ lost' = [lost EXCEPT ![s] = @ \cup {a}]
    /\ UNCHANGED <<at, holder, buffer, got, arts, chats, time>>
Connect(a, s, ok) ==
    /\ holder[s] = a /\ s \in left[a]
    /\ link[s] \in {"none", "closing"}
    /\ Reply(IF ok THEN "ok" ELSE "refused")
    /\ link' = [link EXCEPT ![s] = IF ok THEN "open" ELSE "none"]
    /\ sockets' = [sockets EXCEPT ![s] = @ + (IF ok THEN 1 ELSE 0)]
    /\ IF ok THEN UNCHANGED <<holder, left, lost>>
             ELSE Release(a, s) /\ lost' = [lost EXCEPT ![s] = @ \cup {a}]
    /\ UNCHANGED <<at, buffer, got, arts, chats, time>>

\* a failed write forgets the writer without closing it
Send(a, s, r) ==
    /\ holder[s] = a /\ link[s] = "open"
    /\ Reply(r)
    /\ Receive(s, <<a>>, r)
    /\ link' = [link EXCEPT ![s] = IF r = "ok" THEN @ ELSE "none"]
    /\ Release(a, s)
    /\ UNCHANGED <<at, buffer, sockets, arts, chats, time>>

\* the peer closes the connection, or stops reading from it
PeerCloses(s) ==
    /\ link[s] = "open" /\ upsets < MaxUpsets
    /\ link' = [link EXCEPT ![s] = "closing"]
    /\ sockets' = [sockets EXCEPT ![s] = @ - 1]
    /\ upsets' = upsets + 1
    /\ UNCHANGED <<senders, buffer, holder, far, chats, time>>

PeerStalls(s) ==
    /\ link[s] = "open" /\ upsets < MaxUpsets
    /\ link' = [link EXCEPT ![s] = "stalled"]
    /\ upsets' = upsets + 1
    /\ UNCHANGED <<senders, buffer, holder, sockets, far, chats, time>>

\* the gather of emit is over when every emitter is; flush follows
Gathered(a) ==
    /\ at[a] = "emit" /\ left[a] = {}
    /\ at' = [at EXCEPT ![a] = "flush"]
    /\ left' = [left EXCEPT ![a] = Batch]
    /\ UNCHANGED <<buffer, wire, far, chats, env>>

(***************************************************************************)
(* Escalation.  The headline is the first of the most severe actions of    *)
(* the engagement; one without a severity ranks as info but goes out as    *)
(* high, and the third tier is always critical.                            *)
(***************************************************************************)
SevRank(v) == CASE v = "critical" -> 0 [] v = "high" -> 1 [] v = "medium" -> 2
                [] v \in {"info", "absent"} -> 3 [] OTHER -> 9

Headline_Latest(l, tier) ==
    IF tier = "L3" THEN "critical"
    ELSE IF l = <<>> \/ l[Len(l)] = "absent" THEN "high" ELSE l[Len(l)]
Headline(l, tier) ==
    IF tier = "L3" THEN "critical"
    ELSE IF l = <<>> THEN "high"
    ELSE LET top == CHOOSE i \in DOMAIN l :
                        /\ \A k \in DOMAIN l : SevRank(l[i]) <= SevRank(l[k])
                        /\ \A k \in 1..(i - 1) : SevRank(l[i]) < SevRank(l[k])
         IN  IF l[top] = "absent" THEN "high" ELSE l[top]

\* PagerDuty's threshold (minimum_severity high); a missing severity is info
ShouldPage(v) == v \in {"critical", "high"}

\* every chat connector in turn; PagerDuty below its threshold returns, and a
\* failed post is swallowed by the connector
Told(v) == {c \in Chat : c = Pager => ShouldPage(v)}

\* the end of `send`: both gathers are over, the chats are called
Chats(a) ==
    /\ at[a] = "flush" /\ left[a] = {}
    /\ at' = [at EXCEPT ![a] = "done"]
    /\ told' = [told EXCEPT ![a] = Told(Sev[a])]
    /\ UNCHANGED <<left, raised, buffer, wire, far, env>>

\* an escalation builds its own connectors and shares nothing with the rest
Escalate(q, l, tier) ==
    /\ raised[q] = NotRaised
    /\ raised' = [raised EXCEPT ![q] =
           [severe |-> \E i \in DOMAIN l : l[i] \in {"critical", "high"},
            told |-> Told(Headline(l, tier))]]
    /\ UNCHANGED <<senders, told, buffer, wire, far, env>>

SecondPasses ==
    /\ time < MaxTime
    /\ time' = time + 1
    /\ UNCHANGED <<senders, buffer, wire, far, chats, upsets>>

SendStep(a) ==
    \/ Gathered(a) \/ Chats(a)
    \/ \E s \in Batch : BatchEmit(a, s) \/ Flush(a, s)
    \/ \E s \in Batch, r \in Outcome : Posted(a, s, r)
    \/ \E s \in Direct, r \in Outcome : \E sent \in SUBSET Fields[s] : DirectEmit(a, s, r, sent)
    \/ \E s \in Tcp : Acquire(a, s)
    \/ \E s \in Tcp, ok \in BOOLEAN : Connect(a, s, ok)
    \/ \E s \in Tcp, r \in Outcome : Send(a, s, r)

DeliveryNext ==
    \/ \E a \in Alert : Emit(a) \/ SendStep(a)
    \/ \E s \in Tcp : PeerCloses(s) \/ PeerStalls(s)
    \/ SecondPasses

EscalateNext == \E q \in Request, l \in Logs, tier \in {"L2", "L3"} : Escalate(q, l, tier)

DeliverySpec == DeliveryInit /\ [][DeliveryNext \/ EscalateNext]_deliveryVars

(***************************************************************************)
(* Fairness.  Every request has a time limit (httpx timeouts, wait_for     *)
(* around the connect) and the loop runs every coroutine that is ready, so *)
(* a send that can take a step does not stay where it is for good.  A      *)
(* write to a peer that has stopped reading is not such a step: Send is    *)
(* disabled while the link stalls.                                         *)
(***************************************************************************)
DeliveryFairness == \A a \in Alert : WF_deliveryVars(SendStep(a))
-----------------------------------------------------------------------------
Accepted(a, s) ==
    \/ at[a] \in {"flush", "done"}
    \/ at[a] = "emit" /\ (s \notin left[a] \/ flight[a][s] # <<>>)
Waiting(a, s) == {<<"waiting", a, i>> : i \in At(a, pending[s])}
Posting(a, s) == UNION {{<<"posting", b, i>> : i \in At(a, flight[b][s])} : b \in Alert}
Settled(a, s) == got[s][a] > 0 \/ a \in lost[s]
Places(a, s)  == Waiting(a, s) \cup Posting(a, s)
                   \cup (IF Settled(a, s) THEN {<<"settled", a, 0>>} ELSE {})

\* An alert a batching emitter has accepted is in exactly one place: waiting,
\* in one batch under way, or settled (received or logged as lost), and was
\* received at most once, however emits and flushes of several senders overlap
\* with a POST (siem.py flush).
BatchKeepsCount ==
    \A s \in Batch, a \in Alert :
        /\ Cardinality(Places(a, s)) = IF Accepted(a, s) THEN 1 ELSE 0
        /\ got[s][a] <= 1

\* An escalation pages when the engagement holds any action severe enough to
\* page for, wherever it is in the logs (escalate.py, chatops.py).
SevereEscalationPages ==
    \A q \in Request :
        raised[q].severe => Pager \in raised[q].told

\* A send gets to its end whatever is refused or unanswered, unless a TCP peer
\* stops reading: then the drain, and the lock with it, has no time limit, but
\* every other emitter still gets through with its part of the gather ("a dead
\* Splunk doesn't block ELK", siem.py FanOut).
SendEnds ==
    \A a \in Alert :
        /\ at[a] = "emit" ~> left[a] \subseteq Tcp
        /\ at[a] = "emit" ~> (at[a] = "done" \/ \E s \in Tcp : link[s] = "stalled")
=============================================================================
