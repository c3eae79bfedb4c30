----------------------------- MODULE ConsoleDesk -----------------------------
(***************************************************************************)
(* What the operator does to the selected engagement from the dashboard    *)
(* page (tools/dashboard_scripts.py): acknowledging alerts one by one or   *)
(* all at once with an undo toast, writing notes, and holding the Kill     *)
(* button.  Every click is a request that another thread of the dashboard  *)
(* server answers later, or never, while the stream keeps swapping the     *)
(* panels under the operator's hands - unless focus is inside them.  The   *)
(* detail panel, where all of this is, is also replaced by the answer to a *)
(* detail request (loadDetail), and that looks at no focus: a row was      *)
(* clicked, or a swap came with another engagement first in the list.      *)
(*                                                                         *)
(* Content is what the page renders of the engagement: the acknowledged    *)
(* alerts, the notes and whether a kill is requested.  A note's text is a  *)
(* number that every keystroke increases; 0 is the empty box.              *)
(***************************************************************************)
EXTENDS Naturals

CONSTANTS
    Alert, NoCall, MaxCalls, MaxText,
    Loop       \* the runs of the ack-all handler that can be under way at once

\* The local state of a run of the ack-all handler; none is no such state.
Loops == [todo : SUBSET Alert, wanted : SUBSET Alert, failed : BOOLEAN, got : SUBSET Alert,
          live : BOOLEAN]
ASSUME DeskAssumption == NoCall \notin Loops \cup Loop

VARIABLES
    srv,       \* the server: acked, notes, kill
    dom,       \* the page: acked (its buttons), pending (the ack-all list), off and allOff
               \* (the buttons that are disabled)
    lastSeen,  \* the content last swapped in (lastHtmlHash)
    post,      \* the contents the stream has under way, one at most
    coming,    \* the detail renderings under way, one at most
    inside,    \* focus is on an interactive element of the detail panel
    calls,     \* acknowledge requests under way
    spent,     \* requests made
    undo,      \* the undo toast's request, or NoCall
    loop,      \* per run of the ack-all handler: its state, or NoCall
    crossed,   \* the page may have missed a change of the server's acks since the last swap
    box,       \* the note being written
    saving,    \* the note request under way, or NoCall
    typed,
    hold,      \* the Kill button held: by, attached, lost (to a detail), released; or NoCall
    fired      \* the kills requested by a hold, as the hold was then

ackVars == <<calls, spent, undo, loop, crossed>>
noteVars == <<box, saving, typed>>
killVars == <<hold, fired>>
deskVars == <<srv, dom, lastSeen, post, coming, inside, ackVars, noteVars, killVars>>

DeskInit ==
    /\ srv = [acked |-> {}, notes |-> {}, kill |-> FALSE]
    /\ dom = [acked |-> {}, pending |-> Alert, off |-> {}, allOff |-> FALSE]
    /\ lastSeen = srv /\ post = {} /\ coming = {} /\ inside = FALSE
    /\ calls = {} /\ spent = 0 /\ undo = NoCall /\ crossed = FALSE
    /\ loop = [l \in Loop |-> NoCall]
    /\ box = 0 /\ saving = NoCall /\ typed = 0
    /\ hold = NoCall /\ fired = {}
-----------------------------------------------------------------------------
\* applyAckStateLocally: the alert's button, and the ack-all list recomputed
\* from the buttons, which also enables the ack-all button as long as it has one
ApplyLocally(a, acked) ==
    LET shown == IF acked THEN dom.acked \cup {a} ELSE dom.acked \ {a}
    IN  [dom EXCEPT !.acked = shown, !.pending = Alert \ shown, !.off = @ \ {a},
                    !.allOff = Alert \subseteq shown]

\* by is a button, the undo toast, or a run of the ack-all handler
Call(a, acked, by, l) ==
    [alert |-> a, acked |-> acked, by |-> by, loop |-> l, id |-> spent, answer |-> "none"]
Send(a, acked, by, l) ==
    /\ spent < MaxCalls
    /\ spent' = spent + 1
    /\ calls' = calls \cup {Call(a, acked, by, l)}
    /\ crossed' = (crossed \/ \E c \in calls : c.alert = a)

\* the click on Acknowledge / Un-ack: the button says which of the two it is
ClickAck(a) ==
    /\ a \notin dom.off
    /\ Send(a, a \notin dom.acked, "button", NoCall)
    /\ dom' = [dom EXCEPT !.off = @ \cup {a}]
    /\ inside' = TRUE
    /\ UNCHANGED <<srv, lastSeen, post, coming, undo, loop, noteVars, killVars>>

\* the toast's Undo asks the server for the reverse and leaves the page alone
ClickUndo ==
    /\ undo # NoCall
    /\ Send(undo.alert, undo.acked, "undo", NoCall)
    /\ undo' = NoCall
    /\ UNCHANGED <<srv, dom, lastSeen, post, coming, inside, loop, noteVars, killVars>>

UndoExpires ==
    /\ undo # NoCall
    /\ undo' = NoCall
    /\ UNCHANGED <<srv, dom, lastSeen, post, coming, inside, calls, spent, loop, crossed, noteVars,
                   killVars>>

\* Acknowledge all: the list is read once, the requests go one after the
\* other.  The button is disabled, but the first answer enables it again.
ClickAckAll(l) ==
    /\ loop[l] = NoCall /\ ~dom.allOff /\ dom.pending # {} /\ spent < MaxCalls
    /\ loop' = [loop EXCEPT ![l] = [todo |-> dom.pending, wanted |-> dom.pending,
                                    failed |-> FALSE, got |-> {}, live |-> TRUE]]
    /\ dom' = [dom EXCEPT !.allOff = TRUE]
    /\ inside' = TRUE
    /\ UNCHANGED <<srv, lastSeen, post, coming, calls, spent, undo, crossed, noteVars, killVars>>

Waits(l) == \E c \in calls : c.loop = l

LoopSends(l) ==
    /\ loop[l] # NoCall /\ ~Waits(l)
    /\ \E a \in loop[l].todo :
         /\ Send(a, TRUE, "all", l)
         /\ loop' = [loop EXCEPT ![l].todo = @ \ {a}]
    /\ UNCHANGED <<srv, dom, lastSeen, post, coming, inside, undo, noteVars, killVars>>

\* the button of the click is enabled, if it is still the one on the page
LoopEnds(l) ==
    /\ loop[l] # NoCall /\ loop[l].todo = {} /\ ~Waits(l)
    /\ loop' = [loop EXCEPT ![l] = NoCall]
    /\ dom' = [dom EXCEPT !.allOff = @ /\ ~loop[l].live]
    /\ UNCHANGED <<srv, lastSeen, post, coming, inside, calls, spent, undo, crossed, noteVars,
                   killVars>>

\* a thread of the server handles the request; its answer may be lost on the
\* way back, and the request may never have arrived
Serve(c, arrives, answered) ==
    /\ c.answer = "none" /\ (answered => arrives)
    /\ srv' = IF ~arrives THEN srv
              ELSE IF c.acked THEN [srv EXCEPT !.acked = @ \cup {c.alert}]
              ELSE [srv EXCEPT !.acked = @ \ {c.alert}]
    /\ calls' = (calls \ {c}) \cup {[c EXCEPT !.answer = IF answered THEN "ok" ELSE "failed"]}
    /\ crossed' = (crossed \/ (arrives /\ (c.by = "undo" \/ ~answered)))
    /\ UNCHANGED <<dom, lastSeen, post, coming, inside, spent, undo, loop, noteVars, killVars>>

\* the page after its await: a button shows the new state and offers the
\* reverse, the loop counts, a failure changes nothing on the page
Shown_AnyAnswer(c) == IF c.by = "undo" THEN dom ELSE ApplyLocally(c.alert, c.acked)
Shown(c) ==
    IF c.by = "undo" THEN dom
    ELSE IF c.answer = "ok" THEN ApplyLocally(c.alert, c.acked)
    ELSE [dom EXCEPT !.off = @ \ {c.alert}]

Counted(c) ==
    IF c.by # "all" THEN loop
    ELSE IF c.answer = "ok" THEN [loop EXCEPT ![c.loop].got = @ \cup {c.alert}]
    ELSE [loop EXCEPT ![c.loop].failed = TRUE]

Answered(c) ==
    /\ c.answer # "none"
    /\ calls' = calls \ {c}
    /\ dom' = Shown(c)
    /\ loop' = Counted(c)
    /\ undo' = IF c.by = "button" /\ c.answer = "ok"
               THEN [alert |-> c.alert, acked |-> ~c.acked] ELSE undo
    /\ UNCHANGED <<srv, lastSeen, post, coming, inside, spent, crossed, noteVars, killVars>>

\* another operator, from another page or through the API
Colleague(a) ==
    /\ spent < MaxCalls /\ spent' = spent + 1
    /\ srv' = [srv EXCEPT !.acked = IF a \in @ THEN @ \ {a} ELSE @ \cup {a}]
    /\ crossed' = TRUE
    /\ UNCHANGED <<dom, lastSeen, post, coming, inside, calls, undo, loop, noteVars, killVars>>
-----------------------------------------------------------------------------
\* The notes: typing, Save, its answer.  A save that fails leaves the text.
Type ==
    /\ typed < MaxText
    /\ typed' = typed + 1 /\ box' = typed + 1
    /\ inside' = TRUE
    /\ UNCHANGED <<srv, dom, lastSeen, post, coming, ackVars, saving, killVars>>

ClickSave ==
    /\ saving = NoCall /\ box # 0
    /\ saving' = [text |-> box, live |-> TRUE, answer |-> "none"]
    /\ inside' = TRUE
    /\ UNCHANGED <<srv, dom, lastSeen, post, coming, ackVars, box, typed, killVars>>

ServeSave(arrives, answered) ==
    /\ saving # NoCall /\ saving.answer = "none" /\ (answered => arrives)
    /\ srv' = IF arrives THEN [srv EXCEPT !.notes = @ \cup {saving.text}] ELSE srv
    /\ saving' = [saving EXCEPT !.answer = IF answered THEN "ok" ELSE "failed"]
    /\ UNCHANGED <<dom, lastSeen, post, coming, inside, ackVars, box, typed, killVars>>

\* the box of the click is emptied, unless a swap has put another in its place
SaveReturns_ClearsAlways ==
    /\ saving # NoCall /\ saving.answer # "none"
    /\ box' = IF saving.live THEN 0 ELSE box
    /\ saving' = NoCall
    /\ UNCHANGED <<srv, dom, lastSeen, post, coming, inside, ackVars, typed, killVars>>
SaveReturns ==
    /\ saving # NoCall /\ saving.answer # "none"
    /\ box' = IF saving.answer = "ok" /\ saving.live THEN 0 ELSE box
    /\ saving' = NoCall
    /\ UNCHANGED <<srv, dom, lastSeen, post, coming, inside, ackVars, typed, killVars>>

DeleteNote(n) ==
    /\ n \in srv.notes /\ spent < MaxCalls /\ spent' = spent + 1
    /\ srv' = [srv EXCEPT !.notes = @ \ {n}]
    /\ inside' = TRUE
    /\ UNCHANGED <<dom, lastSeen, post, coming, calls, undo, loop, crossed, noteVars, killVars>>
-----------------------------------------------------------------------------
\* _startKillHold: a second on the button, by pointer or by key, then a kill is
\* posted.  A key reaches the button only with focus on it; whether a pointer
\* gives it focus is the browser's choice.
HoldKill(by, focused) ==
    /\ hold = NoCall /\ spent < MaxCalls
    /\ by = "key" => focused
    /\ hold' = [by |-> by, attached |-> TRUE, lost |-> FALSE, released |-> FALSE]
    /\ inside' = focused
    /\ UNCHANGED <<srv, dom, lastSeen, post, coming, ackVars, noteVars, fired>>

\* the release is heard by the button itself, as long as it is in the page
Release ==
    /\ hold # NoCall /\ ~hold.released
    /\ hold' = IF hold.attached THEN NoCall ELSE [hold EXCEPT !.released = TRUE]
    /\ UNCHANGED <<srv, dom, lastSeen, post, coming, inside, ackVars, noteVars, fired>>

HoldFires(arrives) ==
    /\ hold # NoCall /\ spent < MaxCalls /\ spent' = spent + 1
    /\ srv' = [srv EXCEPT !.kill = @ \/ arrives]
    /\ fired' = fired \cup {hold}
    /\ hold' = NoCall
    /\ UNCHANGED <<dom, lastSeen, post, coming, inside, calls, undo, loop, crossed, noteVars>>
-----------------------------------------------------------------------------
\* the stream: a content rendered now arrives later
Render ==
    /\ post = {}
    /\ post' = {srv}
    /\ UNCHANGED <<srv, dom, lastSeen, coming, inside, ackVars, noteVars, killVars>>

\* loadDetail up to its await, and the server's rendering of it
RenderDetail ==
    /\ coming = {}
    /\ coming' = {srv}
    /\ UNCHANGED <<srv, dom, lastSeen, post, coming, inside, ackVars, noteVars, killVars>>

\* new nodes come in: buttons enabled, an empty note box, and a Kill button
\* that is not the one being held
NewNodes(c) ==
    /\ dom' = [acked |-> c.acked, pending |-> Alert \ c.acked, off |-> {},
               allOff |-> Alert \subseteq c.acked]
    /\ box' = 0
    /\ saving' = IF saving = NoCall THEN saving ELSE [saving EXCEPT !.live = FALSE]
    /\ loop' = [l \in Loop |-> IF loop[l] = NoCall THEN NoCall ELSE [loop[l] EXCEPT !.live = FALSE]]
Skips_Never(c) == c = lastSeen
Skips(c) == inside \/ c = lastSeen

Arrive(c) ==
    /\ post' = {}
    /\ IF Skips(c) THEN UNCHANGED <<lastSeen, dom, box, saving, loop, hold, crossed>>
       ELSE /\ NewNodes(c)
            /\ lastSeen' = c /\ crossed' = (crossed /\ calls # {})
            /\ hold' = IF hold = NoCall THEN hold ELSE [hold EXCEPT !.attached = FALSE]
    /\ UNCHANGED <<srv, coming, inside, calls, spent, undo, typed, fired>>

\* loadDetail after its await: what is below the panel's header goes, whatever
\* has the focus.  Whether a focused button that goes hears a blur is the
\* browser's choice.
DetailComes(c) ==
    /\ coming' = {}
    /\ NewNodes(c)
    /\ crossed' = (crossed \/ c.acked # srv.acked)
    /\ inside' = FALSE
    /\ \/ hold # NoCall /\ hold' = [hold EXCEPT !.attached = FALSE, !.lost = TRUE]
       \/ (hold # NoCall => hold.by = "key" /\ hold.attached) /\ hold' = NoCall
    /\ UNCHANGED <<srv, lastSeen, post, coming, calls, spent, undo, typed, fired>>

\* focus leaves the panels; a key held on the Kill button is let go by it
Leave ==
    /\ inside
    /\ inside' = FALSE
    /\ hold' = IF hold # NoCall /\ hold.by = "key" /\ hold.attached THEN NoCall ELSE hold
    /\ UNCHANGED <<srv, dom, lastSeen, post, coming, ackVars, noteVars, fired>>

DeskNext ==
    \/ \E a \in Alert : ClickAck(a) \/ Colleague(a)
    \/ ClickUndo \/ UndoExpires
    \/ \E l \in Loop : ClickAckAll(l) \/ LoopSends(l) \/ LoopEnds(l)
    \/ \E c \in calls, x, y \in BOOLEAN : Serve(c, x, y)
    \/ \E c \in calls : Answered(c)
    \/ Type \/ ClickSave \/ SaveReturns
    \/ \E x, y \in BOOLEAN : ServeSave(x, y)
    \/ \E n \in srv.notes : DeleteNote(n)
    \/ \E by \in {"key", "pointer"}, f \in BOOLEAN : HoldKill(by, f)
    \/ \E x \in BOOLEAN : HoldFires(x)
    \/ Release \/ Render \/ RenderDetail \/ Leave
    \/ \E c \in post : Arrive(c)
    \/ \E c \in coming : DetailComes(c)
-----------------------------------------------------------------------------
\* When nothing is under way and the page holds the latest content, its buttons
\* say what the server has, unless something crossed: an undo, a colleague, a
\* lost answer or a second request for the same alert can bring the server
\* back to the content last swapped in, and a detail that was rendered before
\* an answer and comes after it takes the answer off the page.  The page then
\* keeps its own view, because an equal content is not swapped in again
\* (onmessage, fp, loadDetail).
PageCatchesUp ==
    calls = {} /\ lastSeen = srv /\ ~crossed => dom.acked = srv.acked

\* A run of the ack-all handler reports success only when each alert it listed at
\* its click was acknowledged by the server in this very run, whatever swaps,
\* details, undos, lost answers and other such runs came between (quick action
\* "ack-all").
AckAllIsHonest ==
    \A l \in Loop :
        loop[l] # NoCall /\ loop[l].todo = {} /\ ~loop[l].failed /\ ~Waits(l)
            => loop[l].got = loop[l].wanted

\* Text in the note box disappears only once the server has that text, by a swap
\* while the operator is outside the panel, when it was typed ahead of the
\* answer to an earlier Save, or by a detail that arrives: that one does not
\* wait for the operator to leave, as the swaps do (notes: save,
\* shouldSkipSwap, loadDetail).
NoteTextKept ==
    [][box # 0 /\ box' = 0 =>
         \/ ~inside
         \/ saving # NoCall /\ saving.answer = "ok" /\ saving.text <= box
         \/ coming # {} /\ coming' = {}]_deskVars

\* A Kill held by key fires only while it is held: releasing early, leaving the
\* button and a swap of the panels all end it.  Only a detail that takes the
\* held button off the page leaves the hold without an end, when the browser
\* tells the button nothing (_startKillHold, teardown, loadDetail).
KeyHoldIsDeliberate ==
    \A h \in fired : h.by = "key" /\ h.released => h.lost

\* The acknowledgements on the page are the server's once all is quiet, and the
\* ack-all loop never claims one the server did not give.
AcksAreHonest == PageCatchesUp /\ AckAllIsHonest
=============================================================================
