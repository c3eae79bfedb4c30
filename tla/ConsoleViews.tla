----------------------------- MODULE ConsoleViews ----------------------------
(***************************************************************************)
(* The fragments of the dashboard page that fetch their own content        *)
(* (tools/dashboard_scripts.py): the alert-rate chart, the DNS feed and    *)
(* the activity heatmap, each with controls kept in localStorage, and the  *)
(* preview modals (file diff, heatmap cell, export).  A request has two    *)
(* answers, its headers and then its body, and any number may be under     *)
(* way; a swap of the panels puts the server's default view back, except   *)
(* for the chart, whose nodes it keeps.                                    *)
(***************************************************************************)
EXTENDS Naturals

CONSTANTS Fragment, Setting, Default, Thing, Blank, MaxPicks, MaxSwaps

ASSUME ViewsAssumption == "dns" \in Fragment

VARIABLES
    pick,      \* localStorage: the setting chosen for each fragment
    shown,     \* the setting each fragment's content was made for
    inFlight,  \* the sequence number each fragment's refresh takes
    reqs,      \* refresh requests: w, seq, pick, stage
    cool,      \* the fragments not refreshed within their minimum interval
    astray,    \* the last refresh failed, or a swap came too soon after it
    modal,     \* the preview modal: open, title, body
    loads,     \* its requests
    overlap,   \* two of them have been under way at once since it was opened
    swaps

fragVars == <<pick, shown, inFlight, reqs, cool, astray>>
modalVars == <<modal, loads, overlap>>
viewsVars == <<fragVars, modalVars, swaps>>

ViewsInit ==
    /\ pick = [w \in Fragment |-> Default] /\ shown = [w \in Fragment |-> Default]
    /\ inFlight = [w \in Fragment |-> 0] /\ reqs = {}
    /\ cool = Fragment /\ astray = {}
    /\ modal = [open |-> FALSE, title |-> Blank, body |-> Blank]
    /\ loads = {} /\ overlap = FALSE /\ swaps = 0

\* refresh up to its await, for the fragments ws; the stale ones are left out
Refreshed(ws, p, stale) ==
    /\ inFlight' = [w \in Fragment |-> inFlight[w] + (IF w \in ws THEN 1 ELSE 0)]
    /\ reqs' = reqs \cup {[w |-> w, seq |-> inFlight[w] + 1, pick |-> p[w], stage |-> "sent"] : w \in ws}
    /\ cool' = cool \ ws
    /\ astray' = (astray \ ws) \cup stale

\* a chip is clicked here, or in another tab whose storage event arrives
Pick(w, s) ==
    /\ inFlight[w] < MaxPicks
    /\ pick' = [pick EXCEPT ![w] = IF s = @ /\ w = "dns" THEN Default ELSE s]
    /\ Refreshed({w}, pick', {})
    /\ UNCHANGED <<shown, modalVars, swaps>>

Current(r) == r.seq = inFlight[r.w]
Advance(r, stage) == reqs' = (reqs \ {r}) \cup {[r EXCEPT !.stage = stage]}

\* the chart and the heatmap look whether a newer request superseded theirs
\* when the headers are in, then wait for the body
Headers(r) ==
    /\ r.stage = "sent"
    /\ IF r.w # "dns" /\ ~Current(r) THEN reqs' = reqs \ {r} ELSE Advance(r, "body")
    /\ UNCHANGED <<pick, shown, inFlight, cool, astray, modalVars, swaps>>

\* the DNS feed looks when it has the bodies
Wanted_NoCheck(r) == TRUE
Wanted(r) == r.w = "dns" => Current(r)

\* the fragment the server renders is of the settings in the request
Fetched(r) == r.pick

Body(r) ==
    /\ r.stage = "body"
    /\ reqs' = reqs \ {r}
    /\ shown' = IF Wanted(r) THEN [shown EXCEPT ![r.w] = Fetched(r)] ELSE shown
    /\ UNCHANGED <<pick, inFlight, cool, astray, modalVars, swaps>>

\* the request fails: the view stays as it is
Lost(r) ==
    /\ reqs' = reqs \ {r}
    /\ astray' = IF Current(r) THEN astray \cup {r.w} ELSE astray
    /\ UNCHANGED <<pick, shown, inFlight, cool, modalVars, swaps>>

\* a swap brings the default view of all but the chart, and the reapply chain
\* fetches again what was not fetched a moment ago
SwapViews ==
    /\ swaps < MaxSwaps /\ swaps' = swaps + 1
    /\ shown' = [w \in Fragment |-> IF w = "rate" THEN shown[w] ELSE Default]
    /\ Refreshed(cool, pick, Fragment \ cool)
    /\ UNCHANGED <<pick, modalVars>>

Cool(w) ==
    /\ w \notin cool
    /\ cool' = cool \cup {w}
    /\ UNCHANGED <<pick, shown, inFlight, reqs, astray, modalVars, swaps>>
-----------------------------------------------------------------------------
\* openFileDiffModal, openCellModal, openInModal: the title at once, the body
\* when it comes; there is no sequence number
Open(t) ==
    /\ ~modal.open /\ t \notin loads
    /\ modal' = [open |-> TRUE, title |-> t, body |-> Blank]
    /\ overlap' = (loads # {})
    /\ loads' = loads \cup {t}
    /\ UNCHANGED <<fragVars, swaps>>

Loaded(l, ok) ==
    /\ loads' = loads \ {l}
    /\ modal' = [modal EXCEPT !.body = IF ok THEN l ELSE Blank]
    /\ UNCHANGED <<fragVars, overlap, swaps>>

Close ==
    /\ modal.open
    /\ modal' = [modal EXCEPT !.open = FALSE]
    /\ UNCHANGED <<fragVars, loads, overlap, swaps>>

ViewsNext ==
    \/ \E w \in Fragment : Cool(w) \/ \E s \in Setting : Pick(w, s)
    \/ \E r \in reqs : Headers(r) \/ Body(r) \/ Lost(r)
    \/ SwapViews
    \/ \E t \in Thing : Open(t)
    \/ \E l \in loads, ok \in BOOLEAN : Loaded(l, ok)
    \/ Close
-----------------------------------------------------------------------------
\* A view is of what it says it is of: with no request under way the DNS feed
\* shows what its chip says, in whatever order answers, clicks in two tabs and
\* swaps came, unless the last request failed or a swap came within its minimum
\* interval; and the preview shows what its title names, nothing yet or a failure,
\* unless it was closed and opened again while one was loading (load, openPreview).
ViewsAreOfTheirTitles ==
    /\ "dns" \notin astray /\ (~\E r \in reqs : r.w = "dns") => shown["dns"] = pick["dns"]
    /\ modal.open /\ ~overlap => modal.body \in {Blank, modal.title}
=============================================================================
