----------------------------- MODULE ConsoleFeed -----------------------------
(***************************************************************************)
(* The live feed of the SOC dashboard, both ends of it: the server's SSE   *)
(* loop (tools/dashboard.py `_gather`, `_stream`, `_enumerate_alerts`) and *)
(* the page that listens (tools/dashboard_scripts.py): the swap of the     *)
(* panels, the toasts, the chime of the row pulse, and the engagement the  *)
(* operator has selected.                                                  *)
(*                                                                         *)
(* log[e] = 0 for an engagement that has left no file yet, and n + 1 for   *)
(* one with n alerts, so <<e, n>> is an alert when 0 < n < log[e].  A log  *)
(* that is being rewritten cannot be read: a gather then misses the latest *)
(* alerts of the engagement, or the whole row.                             *)
(* The page is what the swap put there: the count on each row, the         *)
(* engagement the detail panel is about, and the one its tag names         *)
(* (data-current-eid), which the server sets to the first in the list      *)
(* whichever it rendered.                                                  *)
(* Selecting a row reopens the stream, and the new connection starts with  *)
(* a memory of its own.                                                    *)
(***************************************************************************)
EXTENDS Naturals, Sequences, FiniteSets

CONSTANTS
    Eng, NoEng, MaxLog, MaxMail,
    MaxEvents    \* bound on attacks, clicks, breaks and torn gathers together

ASSUME FeedAssumption == MaxLog \in Nat

VARIABLES
    log,         \* what each engagement has on the server's disk
    newest,      \* the engagement with the latest activity
    conn,        \* the SSE connection: hint, primed, seen and the payloads in flight
    page,        \* what #panels shows: rows, detail and tag
    lastHtml,    \* the content last swapped in (lastHtmlHash)
    prev,        \* prevCounts of the row pulse; 0 for a row never shown
    pulsed,      \* the alerts a row has flashed and chimed for
    focus,       \* the operator is inside an interactive element of #panels
    selected,    \* sessionStorage "plenith-selected-eid"
    fetches,     \* detail.html requests under way
    fetchSeq,    \* pendingFetchSeq
    failed,      \* the last of those requests failed and left another engagement shown
    keysSeen,    \* alertKeysSeen
    stored,      \* its copy in sessionStorage
    toasted,     \* how often each alert was toasted
    old,         \* the alerts on disk when the page was loaded
    known,       \* the alerts logged for a row the page was showing
    skipped,     \* those of old that this connection could not read when it primed itself
    events       \* attacks, clicks, breaks and torn gathers so far

sessionVars == <<log, newest, old, known, skipped>>
paneVars == <<page, lastHtml, prev, pulsed>>
pickVars == <<selected, fetches, fetchSeq, failed>>
toastVars == <<keysSeen, stored, toasted>>
feedVars == <<sessionVars, conn, paneVars, focus, pickVars, toastVars, events>>

Alerts(rows) == {a \in Eng \X (1..MaxLog) : a[2] < rows[a[1]]}
Unread == [rows |-> [e \in Eng |-> 0], detail |-> NoEng, tag |-> NoEng]

\* _gather: the engagements on disk with the latest first, but for what is in
\* a log that is being rewritten, which load_engagements skips
Gather(rows, first) ==
    \/ rows = log /\ first = newest
    \/ /\ \E e \in Eng, n \in 0..MaxLog : n < log[e] /\ rows = [log EXCEPT ![e] = n]
       /\ IF \E e \in Eng : rows[e] > 0 THEN first \in {e \in Eng : rows[e] > 0} ELSE first = NoEng

\* _render_main_panels: the list, and the hinted engagement or else the first;
\* the panel is tagged with the first
Html(hint, rows, first) ==
    [rows   |-> rows,
     detail |-> IF hint # NoEng /\ rows[hint] > 0 THEN hint ELSE first,
     tag    |-> first]

\* new EventSource(buildUrl()): a handler thread with an empty memory
Fresh(hint) == [hint |-> hint, primed |-> FALSE, seen |-> {}, mail |-> <<>>]

FeedInit ==
    /\ log \in [Eng -> 0..1]                           \* no alert yet
    /\ newest \in {e \in Eng : log[e] > 0} \cup {NoEng}
    /\ newest = NoEng => \A e \in Eng : log[e] = 0
    /\ conn = Fresh(NoEng)
    /\ page = Html(NoEng, log, newest) /\ lastHtml = Unread /\ prev = log /\ pulsed = {}
    /\ focus = FALSE
    /\ selected = NoEng /\ fetches = {} /\ fetchSeq = 0 /\ failed = FALSE
    /\ keysSeen = {} /\ stored = {} /\ toasted = [a \in Eng \X (1..MaxLog) |-> 0]
    /\ old = {} /\ known = {} /\ skipped = {}
    /\ events = 0

Event == events < MaxEvents /\ events' = events + 1

\* a session leaves its first file, or one more alert
Attack(e) ==
    /\ log[e] < MaxLog /\ Event
    /\ log' = [log EXCEPT ![e] = @ + 1] /\ newest' = e
    /\ known' = IF log[e] > 0 /\ page.rows[e] > 0 THEN known \cup {<<e, log[e]>>} ELSE known
    /\ UNCHANGED <<old, skipped, conn, paneVars, focus, pickVars, toastVars>>

(***************************************************************************)
(* One turn of the server's loop: gather, render, and report the alerts    *)
(* this connection has not seen.  The first turn only primes its memory.   *)
(***************************************************************************)
News_NoPriming(rows) == Alerts(rows) \ conn.seen
News(rows) == IF conn.primed THEN Alerts(rows) \ conn.seen ELSE {}

Push(rows, first) ==
    /\ Len(conn.mail) < MaxMail
    /\ Gather(rows, first)
    /\ IF rows = log THEN UNCHANGED events ELSE Event
    /\ conn' = [conn EXCEPT !.primed = TRUE, !.seen = @ \cup Alerts(rows),
                  !.mail = Append(@, [html |-> Html(conn.hint, rows, first),
                                      news |-> News(rows), all |-> Alerts(rows)])]
    /\ skipped' = IF conn.primed THEN skipped ELSE old \ Alerts(rows)
    /\ UNCHANGED <<log, newest, old, known, paneVars, focus, pickVars, toastVars>>

\* applyPulses: a row already known flashes and chimes when its count has climbed
Pulse(rows) ==
    /\ pulsed' = pulsed \cup {a \in Alerts(rows) : prev[a[1]] > 0 /\ a[2] >= prev[a[1]]}
    /\ prev' = [e \in Eng |-> IF rows[e] > 0 THEN rows[e] ELSE prev[e]]

\* loadDetail up to its await
Load(e, seq) ==
    /\ fetchSeq' = seq
    /\ fetches' = {f \in fetches : f.seq < seq} \cup {[seq |-> seq, eng |-> e]}
    /\ failed' = FALSE

\* applyEngagementSelection: when the operator's row is there and the tag
\* names another engagement, ask for the detail again
Reselect(html, seq) ==
    IF selected # NoEng /\ html.rows[selected] > 0 /\ html.tag # selected
    THEN Load(selected, seq)
    ELSE fetchSeq' = seq - 1 /\ failed' = FALSE /\ fetches' = {f \in fetches : f.seq < seq}

\* applySwap and the chain of plenithReapplyClientState
Swap(html) ==
    /\ page' = html /\ lastHtml' = html
    /\ Pulse(html.rows)
    /\ Reselect(html, fetchSeq + 1)

\* toast what is unseen first, then absorb every key of the payload; the
\* copy in sessionStorage is only brought up to date by a toast
Toast(m) ==
    LET will == m.news \ keysSeen
    IN  /\ keysSeen' = keysSeen \cup m.all
        /\ toasted' = [a \in DOMAIN toasted |-> IF a \in will THEN toasted[a] + 1 ELSE toasted[a]]
        /\ stored' = IF will # {} THEN keysSeen' ELSE stored

\* es.onmessage; the swap is skipped while the operator is inside the panels,
\* and for content that has not changed
Message ==
    /\ conn.mail # <<>>
    /\ LET m == Head(conn.mail)
       IN  /\ IF ~focus /\ m.html # lastHtml
              THEN Swap(m.html) /\ UNCHANGED selected
              ELSE UNCHANGED <<paneVars, pickVars>>
           /\ Toast(m)
    /\ conn' = [conn EXCEPT !.mail = Tail(@)]
    /\ UNCHANGED <<sessionVars, focus, events>>

\* a dropped connection is reopened by the browser with the same address
Dropped ==
    /\ Event
    /\ conn' = Fresh(conn.hint) /\ skipped' = {}
    /\ UNCHANGED <<log, newest, old, known, paneVars, focus, pickVars, toastVars>>

\* the tab is reloaded: the server renders the newest engagement, the page
\* puts the stored selection back and starts counting again
Reload(rows, first) ==
    /\ Event /\ Gather(rows, first)
    /\ conn' = Fresh(selected) /\ skipped' = {}
    /\ page' = Html(NoEng, rows, first) /\ lastHtml' = Unread /\ prev' = rows
    /\ pulsed' = {} /\ focus' = FALSE
    /\ Reselect(Html(NoEng, rows, first), 1)
    /\ keysSeen' = stored
    /\ old' = Alerts(log) /\ known' = {}
    /\ UNCHANGED <<log, newest, selected, stored, toasted>>

\* a click on a row: remember it, reopen the stream with the hint, load it
SelectRow(e) ==
    /\ page.rows[e] > 0 /\ Event
    /\ selected' = e
    /\ conn' = Fresh(e) /\ skipped' = {}
    /\ Load(e, fetchSeq + 1)
    /\ UNCHANGED <<log, newest, old, known, paneVars, focus, toastVars>>

\* the detail arrives, or fails, as it does when the server's gather misses the
\* engagement; a late answer to an earlier request is discarded
DetailArrives_Any(f, ok) ==
    /\ fetches' = fetches \ {f}
    /\ page' = IF ok THEN [page EXCEPT !.detail = f.eng, !.tag = f.eng] ELSE page
    /\ failed' = (failed \/ (~ok /\ f.seq = fetchSeq /\ page.detail # f.eng))
    /\ UNCHANGED <<sessionVars, conn, lastHtml, prev, pulsed, focus, selected, fetchSeq,
                   toastVars, events>>
DetailArrives(f, ok) ==
    /\ fetches' = fetches \ {f}
    /\ page' = IF ok /\ f.seq = fetchSeq THEN [page EXCEPT !.detail = f.eng, !.tag = f.eng]
               ELSE page
    /\ failed' = (failed \/ (~ok /\ f.seq = fetchSeq /\ page.detail # f.eng))
    /\ UNCHANGED <<sessionVars, conn, lastHtml, prev, pulsed, focus, selected, fetchSeq,
                   toastVars, events>>

\* focus enters or leaves an interactive element of the panels
Focus ==
    /\ focus' = ~focus
    /\ UNCHANGED <<sessionVars, conn, paneVars, pickVars, toastVars, events>>

FeedNext ==
    \/ \E e \in Eng : Attack(e) \/ SelectRow(e)
    \/ \E rows \in [Eng -> 0..MaxLog], first \in Eng \cup {NoEng} :
          Push(rows, first) \/ Reload(rows, first)
    \/ Message \/ Dropped \/ Focus
    \/ \E f \in fetches, ok \in BOOLEAN : DetailArrives(f, ok)
-----------------------------------------------------------------------------
\* Each alert is toasted once, and nothing that was on disk when the page was
\* loaded, however often the stream is reopened - but for an old alert whose
\* log was being rewritten when the present connection primed itself: it is
\* news to that connection at its next turn (dashboard.py _stream,
\* dashboard_scripts.py onmessage, audit.py load_engagements).
ToastsAreNews ==
    [][\A a \in DOMAIN toasted :
          toasted'[a] <= IF a \in old \ skipped THEN toasted[a] ELSE 1]_feedVars

Settled ==
    /\ conn.mail = <<>> /\ conn.primed /\ conn.seen = Alerts(log)
    /\ page.rows = log

\* Once the page shows all there is, every alert logged for a row it was
\* already showing has been announced, by a toast or by the flash and chime of
\* its row: a reopened stream that primes itself over the alert loses only
\* the toast, and a row that was missing from a swap, or short of an alert,
\* is compared with what it last showed (onmessage, applyPulses).
KnownRowsAnnounce ==
    Settled => \A a \in known : toasted[a] > 0 \/ a \in pulsed

\* The detail panel is about the row the operator clicked last, whatever the
\* order in which details, swaps and reconnections come and whatever engagement
\* is first in the list, as long as that row is on the page, unless the request
\* for it is still under way or failed with another one shown
\* (loadDetail, applyEngagementSelection).
DetailFollowsSelection ==
    /\ selected # NoEng /\ page.rows[selected] > 0
    /\ ~failed /\ (\A f \in fetches : f.seq # fetchSeq)
    => page.detail = selected

\* What the feed owes the operator once things have settled: no alert of a row
\* on the page goes by unannounced, and the detail is of the row clicked last.
FeedIsFaithful == KnownRowsAnnounce /\ DetailFollowsSelection
=============================================================================
