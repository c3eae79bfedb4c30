---------------------------- MODULE ConsoleProofs ----------------------------
(***************************************************************************)
(* The dashboard page, for any number of alerts, requests, notes,          *)
(* settings, rows, panels and swaps.  Its scripts share none of each       *)
(* other's state, so each has a specification of its own here, with all    *)
(* of its operations interleaved.                                          *)
(***************************************************************************)
EXTENDS ConsoleFeed, ConsoleDesk, ConsoleViews, ConsoleList, FiniteSetTheorems, SequenceTheorems, TLAPS

DeskSpec == DeskInit /\ [][DeskNext]_deskVars

-----------------------------------------------------------------------------
(* The Kill button: a key is held only with the focus on it, so no swap    *)
(* takes the button away and its release is heard, unless a detail took it *)
(* away.                                                                   *)

HoldFields == {"by", "attached", "lost", "released"}

KeyIsOnButton ==
    hold # NoCall => /\ DOMAIN hold = HoldFields
                     /\ hold.by = "key" => hold.lost \/ (inside /\ hold.attached /\ ~hold.released)

KillInv == KeyIsOnButton /\ KeyHoldIsDeliberate

LEMMA HoldKept == ASSUME KillInv, UNCHANGED killVars, inside => inside' PROVE KillInv'
BY DEF KillInv, KeyIsOnButton, KeyHoldIsDeliberate, killVars

\* A Kill held by key fires only while it is held, unless a detail has taken
\* the held button off the page (_startKillHold, loadDetail).
THEOREM KeyHoldIsAlwaysDeliberate == DeskSpec => []KeyHoldIsDeliberate
<1>1. DeskInit => KillInv
  BY DEF DeskInit, KillInv, KeyIsOnButton, KeyHoldIsDeliberate
<1>2. KillInv /\ [DeskNext]_deskVars => KillInv'
  <2>1. SUFFICES ASSUME KillInv, [DeskNext]_deskVars PROVE KillInv'
    OBVIOUS
  <2>2. ASSUME NEW by \in {"key", "pointer"}, NEW f \in BOOLEAN, HoldKill(by, f) PROVE KillInv'
    <3>1. /\ hold' = [by |-> by, attached |-> TRUE, lost |-> FALSE, released |-> FALSE]
          /\ inside' = f /\ (by = "key" => f) /\ UNCHANGED fired
      BY <2>2 DEF HoldKill
    <3>2. DOMAIN hold' = HoldFields /\ hold'.by = by /\ hold'.attached = TRUE /\ hold'.released = FALSE
      BY <3>1 DEF HoldFields
    <3> QED
      BY <2>1, <3>1, <3>2 DEF KillInv, KeyIsOnButton, KeyHoldIsDeliberate
  <2>3. CASE Release
    <3>1. /\ hold # NoCall /\ UNCHANGED <<inside, fired>>
          /\ hold' = IF hold.attached THEN NoCall ELSE [hold EXCEPT !.released = TRUE]
      BY <2>3 DEF Release
    <3>2. CASE hold.attached
      BY <2>1, <3>1, <3>2 DEF KillInv, KeyIsOnButton, KeyHoldIsDeliberate
    <3>3. CASE ~hold.attached
      <4>1. DOMAIN hold' = HoldFields /\ hold'.by = hold.by /\ hold'.lost = hold.lost
            /\ (hold.by = "key" => hold.lost)
        BY <2>1, <3>1, <3>3 DEF KillInv, KeyIsOnButton, HoldFields
      <4> QED
        BY <2>1, <3>1, <4>1 DEF KillInv, KeyIsOnButton, KeyHoldIsDeliberate
    <3> QED
      BY <3>2, <3>3
  <2>4. ASSUME NEW x \in BOOLEAN, HoldFires(x) PROVE KillInv'
    BY <2>1, <2>4 DEF HoldFires, KillInv, KeyIsOnButton, KeyHoldIsDeliberate
  <2>5. CASE Leave
    BY <2>1, <2>5 DEF Leave, KillInv, KeyIsOnButton, KeyHoldIsDeliberate
  <2>6. ASSUME NEW c \in post, Arrive(c) PROVE KillInv'
    <3>1. CASE Skips(c)
      BY <2>1, <2>6, <3>1 DEF Arrive, KillInv, KeyIsOnButton, KeyHoldIsDeliberate
    <3>2. CASE ~Skips(c)
      <4>1. ~inside /\ UNCHANGED <<inside, fired>>
            /\ hold' = IF hold = NoCall THEN hold ELSE [hold EXCEPT !.attached = FALSE]
        BY <2>6, <3>2 DEF Arrive, Skips
      <4>2. hold # NoCall => /\ DOMAIN hold' = HoldFields /\ hold'.by = hold.by
                             /\ hold'.lost = hold.lost /\ (hold.by = "key" => hold.lost)
        BY <2>1, <4>1 DEF KillInv, KeyIsOnButton, HoldFields
      <4> QED
        BY <2>1, <4>1, <4>2 DEF KillInv, KeyIsOnButton, KeyHoldIsDeliberate
    <3> QED
      BY <3>1, <3>2
  <2>7. ASSUME \/ \E a \in Alert : ClickAck(a) \/ Colleague(a)
               \/ ClickUndo \/ UndoExpires \/ \E l \in Loop : ClickAckAll(l) \/ LoopSends(l) \/ LoopEnds(l)
               \/ \E c \in calls, x, y \in BOOLEAN : Serve(c, x, y)
               \/ \E c \in calls : Answered(c)
               \/ Type \/ ClickSave \/ SaveReturns
               \/ \E x, y \in BOOLEAN : ServeSave(x, y)
               \/ \E n \in srv.notes : DeleteNote(n)
               \/ Render \/ RenderDetail
               \/ UNCHANGED deskVars
        PROVE  KillInv'
    <3>1. UNCHANGED killVars /\ (inside' = inside \/ inside' = TRUE)
      BY <2>7 DEF ClickAck, Colleague, ClickUndo, UndoExpires, ClickAckAll, LoopSends, LoopEnds, Serve,
                  Answered, Type, ClickSave, SaveReturns, ServeSave, DeleteNote, Render, RenderDetail,
                  deskVars
    <3> QED
      BY <2>1, <3>1, HoldKept
  <2>8. ASSUME NEW c \in coming, DetailComes(c) PROVE KillInv'
    <3>1. CASE hold' = NoCall
      BY <2>1, <2>8, <3>1 DEF DetailComes, KillInv, KeyIsOnButton, KeyHoldIsDeliberate
    <3>2. CASE hold # NoCall /\ hold' = [hold EXCEPT !.attached = FALSE, !.lost = TRUE]
      <4>1. DOMAIN hold' = HoldFields /\ hold'.lost = TRUE
        BY <2>1, <3>2 DEF KillInv, KeyIsOnButton, HoldFields
      <4> QED
        BY <2>1, <2>8, <4>1 DEF DetailComes, KillInv, KeyIsOnButton, KeyHoldIsDeliberate
    <3> QED
      BY <2>8, <3>1, <3>2 DEF DetailComes
  <2> QED
    BY <2>1, <2>2, <2>3, <2>4, <2>5, <2>6, <2>7, <2>8 DEF DeskNext
<1>3. KillInv => KeyHoldIsDeliberate
  BY DEF KillInv
<1> QED
  BY <1>1, <1>2, <1>3, PTL DEF DeskSpec

-----------------------------------------------------------------------------
(* Notes: the box holds the text of the save under way or a later one, as  *)
(* long as it is the box that was there at the click.                      *)

SaveFields == {"text", "live", "answer"}

BoxIsLater ==
    /\ box \in Nat /\ typed \in Nat /\ box <= typed
    /\ saving # NoCall => /\ DOMAIN saving = SaveFields /\ saving.text \in Nat /\ saving.text <= typed
                          /\ saving.live /\ box # 0 => saving.text <= box

LEMMA BoxKept == ASSUME BoxIsLater, UNCHANGED noteVars PROVE BoxIsLater'
BY DEF BoxIsLater, noteVars

LEMMA BoxAlwaysLater == BoxIsLater /\ [DeskNext]_deskVars => BoxIsLater'
<1> SUFFICES ASSUME BoxIsLater, [DeskNext]_deskVars PROVE BoxIsLater'
  OBVIOUS
<1>1. CASE Type
  BY <1>1 DEF Type, BoxIsLater
<1>2. CASE ClickSave
  <2>1. saving' = [text |-> box, live |-> TRUE, answer |-> "none"] /\ UNCHANGED <<box, typed>>
    BY <1>2 DEF ClickSave
  <2>2. DOMAIN saving' = SaveFields /\ saving'.text = box
    BY <2>1 DEF SaveFields
  <2> QED
    BY <2>1, <2>2 DEF BoxIsLater
<1>3. CASE SaveReturns
  BY <1>3 DEF SaveReturns, BoxIsLater
<1>4. ASSUME NEW x \in BOOLEAN, NEW y \in BOOLEAN, ServeSave(x, y) PROVE BoxIsLater'
  <2>1. /\ saving # NoCall /\ UNCHANGED <<box, typed>>
        /\ saving' = [saving EXCEPT !.answer = IF y THEN "ok" ELSE "failed"]
    BY <1>4 DEF ServeSave
  <2>2. DOMAIN saving' = SaveFields /\ saving'.text = saving.text /\ saving'.live = saving.live
    BY <2>1 DEF BoxIsLater, SaveFields
  <2> QED
    BY <2>1, <2>2 DEF BoxIsLater
<1>5. ASSUME NEW c \in post, Arrive(c) PROVE BoxIsLater'
  <2>1. CASE Skips(c)
    BY <1>5, <2>1 DEF Arrive, BoxIsLater
  <2>2. CASE ~Skips(c)
    <3>1. /\ box' = 0 /\ UNCHANGED typed
          /\ saving' = IF saving = NoCall THEN saving ELSE [saving EXCEPT !.live = FALSE]
      BY <1>5, <2>2 DEF Arrive, NewNodes
    <3>2. saving # NoCall => DOMAIN saving' = SaveFields /\ saving'.text = saving.text
      BY <3>1 DEF BoxIsLater, SaveFields
    <3> QED
      BY <3>1, <3>2 DEF BoxIsLater
  <2> QED
    BY <2>1, <2>2
<1>6. ASSUME \/ \E a \in Alert : ClickAck(a) \/ Colleague(a)
             \/ ClickUndo \/ UndoExpires \/ \E l \in Loop : ClickAckAll(l) \/ LoopSends(l) \/ LoopEnds(l)
             \/ \E c \in calls, x, y \in BOOLEAN : Serve(c, x, y)
             \/ \E c \in calls : Answered(c)
             \/ \E n \in srv.notes : DeleteNote(n)
             \/ \E by \in {"key", "pointer"}, f \in BOOLEAN : HoldKill(by, f)
             \/ \E x \in BOOLEAN : HoldFires(x)
             \/ Release \/ Render \/ RenderDetail \/ Leave
             \/ UNCHANGED deskVars
      PROVE  UNCHANGED noteVars
  BY <1>6 DEF ClickAck, Colleague, ClickUndo, UndoExpires, ClickAckAll, LoopSends, LoopEnds, Serve,
              Answered, DeleteNote, HoldKill, HoldFires, Release, Render, RenderDetail, Leave, deskVars
<1>7. ASSUME NEW c \in coming, DetailComes(c) PROVE BoxIsLater'
  <2>1. /\ box' = 0 /\ UNCHANGED typed
        /\ saving' = IF saving = NoCall THEN saving ELSE [saving EXCEPT !.live = FALSE]
    BY <1>7 DEF DetailComes, NewNodes
  <2>2. saving # NoCall => DOMAIN saving' = SaveFields /\ saving'.text = saving.text
    BY <2>1 DEF BoxIsLater, SaveFields
  <2> QED
    BY <2>1, <2>2 DEF BoxIsLater
<1> QED
  BY <1>1, <1>2, <1>3, <1>4, <1>5, <1>6, <1>7, BoxKept DEF DeskNext

\* Text leaves the note box only when the server has it, when the operator is
\* elsewhere, when it was typed ahead of an answer, or when a detail arrives
\* (shouldSkipSwap, loadDetail).
THEOREM NoteTextIsAlwaysKept == DeskSpec => NoteTextKept
<1> DEFINE Kept == box # 0 /\ box' = 0 =>
                      \/ ~inside
                      \/ saving # NoCall /\ saving.answer = "ok" /\ saving.text <= box
                      \/ coming # {} /\ coming' = {}
<1>1. DeskInit => BoxIsLater
  BY DEF DeskInit, BoxIsLater
<1>2. BoxIsLater /\ [DeskNext]_deskVars => [Kept]_deskVars
  <2> SUFFICES ASSUME BoxIsLater, DeskNext, box # 0, box' = 0
               PROVE  \/ ~inside \/ (saving # NoCall /\ saving.answer = "ok" /\ saving.text <= box)
                      \/ coming # {} /\ coming' = {}
    OBVIOUS
  <2>1. CASE SaveReturns
    BY <2>1 DEF SaveReturns, BoxIsLater
  <2>2. CASE \E c \in post : Arrive(c)
    BY <2>2 DEF Arrive, Skips
  <2>3. ASSUME \/ \E a \in Alert : ClickAck(a) \/ Colleague(a)
               \/ ClickUndo \/ UndoExpires \/ \E l \in Loop : ClickAckAll(l) \/ LoopSends(l) \/ LoopEnds(l)
               \/ \E c \in calls, x, y \in BOOLEAN : Serve(c, x, y)
               \/ \E c \in calls : Answered(c)
               \/ ClickSave
               \/ \E x, y \in BOOLEAN : ServeSave(x, y)
               \/ \E n \in srv.notes : DeleteNote(n)
               \/ \E by \in {"key", "pointer"}, f \in BOOLEAN : HoldKill(by, f)
               \/ \E x \in BOOLEAN : HoldFires(x)
               \/ Release \/ Render \/ RenderDetail \/ Leave
        PROVE  UNCHANGED box
    BY <2>3 DEF ClickAck, Colleague, ClickUndo, UndoExpires, ClickAckAll, LoopSends, LoopEnds, Serve,
                Answered, ClickSave, ServeSave, DeleteNote, HoldKill, HoldFires, Release, Render, RenderDetail,
                Leave, noteVars
  <2>4. CASE Type
    BY <2>4 DEF Type, BoxIsLater
  <2>5. CASE \E c \in coming : DetailComes(c)
    BY <2>5 DEF DetailComes
  <2> QED
    BY <2>1, <2>2, <2>3, <2>4, <2>5 DEF DeskNext
<1> QED
  BY <1>1, <1>2, BoxAlwaysLater, PTL DEF DeskSpec, NoteTextKept

-----------------------------------------------------------------------------
(* Acknowledgements                                                        *)
(*                                                                         *)
(* A run of ack-all: an alert it wants is still to be sent, under way or   *)
(* counted, unless a request failed.  The page: as long as nothing         *)
(* crossed, an alert stands as the server has it or as the last swap       *)
(* brought it, but for one whose answer is on its way, and that answer is  *)
(* the server's.                                                           *)

CallFields == {"alert", "acked", "by", "loop", "id", "answer"}
DomFields == {"acked", "pending", "off", "allOff"}

AckTypes ==
    /\ DOMAIN srv = {"acked", "notes", "kill"} /\ DOMAIN dom = DomFields
    /\ dom.pending \subseteq Alert
    /\ \A c \in calls : /\ DOMAIN c = CallFields
                        /\ c.loop # NoCall => c.by = "all"
                        /\ c.by = "all" => c.loop \in Loop
    /\ loop \in [Loop -> Loops \cup {NoCall}]

RunInv(l) ==
    /\ loop[l] = NoCall => ~Waits(l)
    /\ loop[l] # NoCall =>
          /\ loop[l].todo \subseteq loop[l].wanted /\ loop[l].got \subseteq loop[l].wanted
          /\ \A c \in calls : c.loop = l => c.alert \in loop[l].wanted
          /\ ~loop[l].failed => \A a \in loop[l].wanted : \/ a \in loop[l].todo \cup loop[l].got
                                                         \/ \E c \in calls : c.loop = l /\ c.alert = a

LoopInv == \A l \in Loop : RunInv(l)

AsServer(a) == a \in dom.acked <=> a \in srv.acked
AsSwapped(a) == a \in dom.acked <=> a \in lastSeen.acked

CrossInv ==
    ~crossed =>
        /\ \A c, d \in calls : c.alert = d.alert => c = d
        /\ \A c \in calls : c.answer = "ok" => c.by # "undo" /\ (c.alert \in srv.acked <=> c.acked)
        /\ \A a : (\A c \in calls : c.alert = a => c.answer # "ok") => AsServer(a) \/ AsSwapped(a)

AckInv == AckTypes /\ LoopInv /\ CrossInv

\* A run that has sent nothing and heard nothing: its button may be another now.
LEMMA RunKept ==
    ASSUME NEW l \in Loop, RunInv(l), loop[l] = NoCall <=> loop'[l] = NoCall,
           loop[l] # NoCall => /\ loop'[l].todo = loop[l].todo /\ loop'[l].wanted = loop[l].wanted
                               /\ loop'[l].got = loop[l].got /\ loop'[l].failed = loop[l].failed,
           \A c \in calls : c.loop = l => \E d \in calls' : d.loop = l /\ d.alert = c.alert,
           \A d \in calls' : d.loop = l => \E c \in calls : c.loop = l /\ c.alert = d.alert
    PROVE  RunInv(l)'
BY DEF RunInv, Waits

\* New nodes leave the runs to themselves.
LEMMA RunsDetached ==
    ASSUME AckTypes, LoopInv, UNCHANGED calls,
           loop' = [l \in Loop |-> IF loop[l] = NoCall THEN NoCall ELSE [loop[l] EXCEPT !.live = FALSE]]
    PROVE  loop' \in [Loop -> Loops \cup {NoCall}] /\ LoopInv'
<1>1. ASSUME NEW l \in Loop
      PROVE  /\ loop'[l] \in Loops \cup {NoCall} /\ (loop[l] = NoCall <=> loop'[l] = NoCall)
             /\ loop[l] # NoCall => /\ loop'[l].todo = loop[l].todo /\ loop'[l].wanted = loop[l].wanted
                                    /\ loop'[l].got = loop[l].got /\ loop'[l].failed = loop[l].failed
  <2>1. CASE loop[l] = NoCall
    BY <2>1
  <2>2. CASE loop[l] # NoCall
    <3>1. loop[l] \in Loops /\ loop'[l] = [loop[l] EXCEPT !.live = FALSE]
      BY <2>2 DEF AckTypes
    <3> QED
      BY <3>1, <2>2, DeskAssumption DEF Loops
  <2> QED
    BY <2>1, <2>2
<1>2. ASSUME NEW l \in Loop PROVE RunInv(l)'
  BY <1>1, RunKept DEF LoopInv
<1> QED
  BY <1>1, <1>2 DEF LoopInv

LEMMA AcksIdle ==
    ASSUME AckInv, UNCHANGED <<dom, lastSeen, calls, loop, crossed>>,
           DOMAIN srv' = DOMAIN srv, srv'.acked = srv.acked
    PROVE  AckInv'
<1>1. AckTypes' /\ LoopInv'
  BY DEF AckInv, AckTypes, LoopInv, RunInv, Waits
<1>2. CrossInv'
  BY DEF AckInv, CrossInv, AsServer, AsSwapped
<1> QED
  BY <1>1, <1>2 DEF AckInv

\* A request more: for an alert that has one already, something crosses.
LEMMA SendKeeps ==
    ASSUME AckInv, NEW a, NEW ack, NEW by, NEW l, Send(a, ack, by, l),
           l # NoCall => by = "all", by = "all" => l \in Loop,
           UNCHANGED <<srv, lastSeen>>, DOMAIN dom' = DOMAIN dom, dom'.acked = dom.acked,
           dom'.pending = dom.pending, loop' \in [Loop -> Loops \cup {NoCall}]
    PROVE  AckTypes' /\ CrossInv'
<1> DEFINE n == Call(a, ack, by, l)
<1>1. calls' = calls \cup {n} /\ crossed' = (crossed \/ \E c \in calls : c.alert = a)
  BY DEF Send
<1>2. DOMAIN n = CallFields /\ n.alert = a /\ n.answer = "none" /\ n.by = by /\ n.loop = l
  BY DEF Call, CallFields
<1> HIDE DEF n
<1>3. AckTypes'
  BY <1>1, <1>2 DEF AckInv, AckTypes
<1>4. CrossInv'
  <2> SUFFICES ASSUME ~crossed' PROVE CrossInv'
    BY DEF CrossInv
  <2>1. ~crossed /\ \A c \in calls : c.alert # a
    BY <1>1
  <2>2. \A c, d \in calls' : c.alert = d.alert => c = d
    BY <1>1, <1>2, <2>1 DEF AckInv, CrossInv
  <2>3. \A c \in calls' : c.answer = "ok" => c.by # "undo" /\ (c.alert \in srv'.acked <=> c.acked)
    BY <1>1, <1>2, <2>1 DEF AckInv, CrossInv
  <2>4. ASSUME NEW x, \A c \in calls' : c.alert = x => c.answer # "ok" PROVE (AsServer(x) \/ AsSwapped(x))'
    BY <1>1, <2>1, <2>4 DEF AckInv, CrossInv, AsServer, AsSwapped
  <2> QED
    BY <2>2, <2>3, <2>4 DEF CrossInv
<1> QED
  BY <1>3, <1>4

LEMMA ClickKeeps ==
    ASSUME AckInv, (\E a \in Alert : ClickAck(a)) \/ ClickUndo PROVE AckInv'
<1>1. ASSUME NEW a, NEW ack, NEW by, Send(a, ack, by, NoCall), UNCHANGED loop PROVE LoopInv'
  <2>1. PICK n : calls' = calls \cup {n} /\ n.loop = NoCall
    <3>1. calls' = calls \cup {Call(a, ack, by, NoCall)} /\ Call(a, ack, by, NoCall).loop = NoCall
      BY <1>1 DEF Send, Call
    <3> QED
      BY <3>1
  <2>2. ASSUME NEW l \in Loop PROVE RunInv(l)'
    <3>1. n.loop # l
      BY <2>1, DeskAssumption
    <3>2. RunInv(l)
      BY DEF AckInv, LoopInv
    <3> QED
      BY <1>1, <2>1, <3>1, <3>2, RunKept
  <2> QED
    BY <2>2 DEF LoopInv
<1>2. ASSUME NEW a \in Alert, ClickAck(a) PROVE AckInv'
  <2>1. /\ Send(a, a \notin dom.acked, "button", NoCall) /\ UNCHANGED <<srv, lastSeen, loop>>
        /\ dom' = [dom EXCEPT !.off = dom.off \cup {a}]
    BY <1>2 DEF ClickAck
  <2>2. DOMAIN dom' = DOMAIN dom /\ dom'.acked = dom.acked /\ dom'.pending = dom.pending
    BY <2>1 DEF AckInv, AckTypes, DomFields
  <2>3. PICK ack : Send(a, ack, "button", NoCall)
    BY <2>1
  <2>4. loop' \in [Loop -> Loops \cup {NoCall}] /\ NoCall \notin Loop
    BY <2>1, DeskAssumption DEF AckInv, AckTypes
  <2>5. AckTypes' /\ CrossInv'
    BY <2>1, <2>2, <2>3, <2>4, SendKeeps
  <2> QED
    BY <1>1, <2>1, <2>3, <2>5 DEF AckInv
<1>3. CASE ClickUndo
  <2>1. Send(undo.alert, undo.acked, "undo", NoCall) /\ UNCHANGED <<srv, dom, lastSeen, loop>>
    BY <1>3 DEF ClickUndo
  <2>2. PICK a, ack : Send(a, ack, "undo", NoCall)
    BY <2>1
  <2>3. loop' \in [Loop -> Loops \cup {NoCall}] /\ NoCall \notin Loop
    BY <2>1, DeskAssumption DEF AckInv, AckTypes
  <2>4. AckTypes' /\ CrossInv'
    BY <2>1, <2>2, <2>3, SendKeeps
  <2> QED
    BY <1>1, <2>1, <2>2, <2>4 DEF AckInv
<1> QED
  BY <1>2, <1>3

LEMMA RunStarts == ASSUME AckInv, NEW l \in Loop, ClickAckAll(l) PROVE AckInv'
<1> DEFINE n == [todo |-> dom.pending, wanted |-> dom.pending, failed |-> FALSE, got |-> {}, live |-> TRUE]
<1>1. /\ loop[l] = NoCall /\ UNCHANGED <<srv, lastSeen, calls, crossed>>
      /\ loop' = [loop EXCEPT ![l] = n] /\ dom' = [dom EXCEPT !.allOff = TRUE]
  BY DEF ClickAckAll
<1>2. n \in Loops /\ n.todo = n.wanted /\ n.got = {}
  BY DEF AckInv, AckTypes, Loops
<1> HIDE DEF n
<1>3. DOMAIN dom' = DOMAIN dom /\ dom'.acked = dom.acked /\ dom'.pending = dom.pending
  BY <1>1 DEF AckInv, AckTypes, DomFields
<1>4. loop \in [Loop -> Loops \cup {NoCall}] /\ \A k \in Loop : RunInv(k)
  BY DEF AckInv, AckTypes, LoopInv
<1>5. loop' \in [Loop -> Loops \cup {NoCall}] /\ loop'[l] = n /\ \A k \in Loop \ {l} : loop'[k] = loop[k]
  BY <1>1, <1>2, <1>4
<1>6. RunInv(l)'
  BY <1>1, <1>2, <1>4, <1>5 DEF RunInv, Waits
<1>7. \A k \in Loop \ {l} : RunInv(k)'
  BY <1>1, <1>4, <1>5 DEF RunInv, Waits
<1>8. AckTypes' /\ CrossInv'
  BY <1>1, <1>3, <1>5 DEF AckInv, AckTypes, CrossInv, AsServer, AsSwapped
<1> QED
  BY <1>6, <1>7, <1>8 DEF AckInv, LoopInv

LEMMA RunSends == ASSUME AckInv, NEW l \in Loop, LoopSends(l) PROVE AckInv'
<1>1. PICK a \in loop[l].todo : Send(a, TRUE, "all", l) /\ loop' = [loop EXCEPT ![l].todo = loop[l].todo \ {a}]
  BY DEF LoopSends
<1>2. loop[l] # NoCall /\ (\A c \in calls : c.loop # l) /\ UNCHANGED <<srv, dom, lastSeen>>
  BY DEF LoopSends, Waits
<1>3. loop \in [Loop -> Loops \cup {NoCall}] /\ (\A k \in Loop : RunInv(k)) /\ loop[l] \in Loops
  BY <1>2 DEF AckInv, AckTypes, LoopInv
<1>4. PICK n : n = [loop[l] EXCEPT !.todo = loop[l].todo \ {a}]
  OBVIOUS
<1>5. /\ n \in Loops /\ n.todo = loop[l].todo \ {a} /\ n.wanted = loop[l].wanted
      /\ n.failed = loop[l].failed /\ n.got = loop[l].got /\ n # NoCall
  BY <1>3, <1>4, DeskAssumption DEF Loops
<1>6. loop' = [loop EXCEPT ![l] = n]
  BY <1>1, <1>4
<1>7. loop' \in [Loop -> Loops \cup {NoCall}] /\ loop'[l] = n /\ \A k \in Loop \ {l} : loop'[k] = loop[k]
  BY <1>3, <1>5, <1>6
<1>8. AckTypes' /\ CrossInv'
  BY <1>1, <1>2, <1>7, SendKeeps
<1>9. PICK m : calls' = calls \cup {m} /\ m.loop = l /\ m.alert = a
  <2>1. calls' = calls \cup {Call(a, TRUE, "all", l)}
    BY <1>1 DEF Send
  <2>2. Call(a, TRUE, "all", l).loop = l /\ Call(a, TRUE, "all", l).alert = a
    BY DEF Call
  <2> QED
    BY <2>1, <2>2
<1>10. RunInv(l)'
  <2>1. RunInv(l)
    BY <1>3
  <2> QED
    BY <1>1, <1>2, <1>5, <1>7, <1>9, <2>1 DEF RunInv, Waits
<1>11. ASSUME NEW k \in Loop, k # l PROVE RunInv(k)'
  BY <1>3, <1>7, <1>9, <1>11, RunKept
<1> QED
  BY <1>8, <1>10, <1>11 DEF AckInv, LoopInv

LEMMA RunEnds == ASSUME AckInv, NEW l \in Loop, LoopEnds(l) PROVE AckInv'
<1>1. /\ loop' = [loop EXCEPT ![l] = NoCall] /\ ~Waits(l) /\ UNCHANGED <<srv, lastSeen, calls, crossed>>
      /\ dom' = [dom EXCEPT !.allOff = dom.allOff /\ ~loop[l].live]
  BY DEF LoopEnds
<1>2. DOMAIN dom' = DOMAIN dom /\ dom'.acked = dom.acked /\ dom'.pending = dom.pending
  BY <1>1 DEF AckInv, AckTypes, DomFields
<1>3. loop \in [Loop -> Loops \cup {NoCall}] /\ \A k \in Loop : RunInv(k)
  BY DEF AckInv, AckTypes, LoopInv
<1>4. loop' \in [Loop -> Loops \cup {NoCall}] /\ loop'[l] = NoCall /\ \A k \in Loop \ {l} : loop'[k] = loop[k]
  BY <1>1, <1>3
<1>5. \A k \in Loop : RunInv(k)'
  BY <1>1, <1>3, <1>4 DEF RunInv, Waits
<1>6. AckTypes' /\ CrossInv'
  BY <1>1, <1>2, <1>4 DEF AckInv, AckTypes, CrossInv, AsServer, AsSwapped
<1> QED
  BY <1>5, <1>6 DEF AckInv, LoopInv

LEMMA ServeKeeps ==
    ASSUME AckInv, NEW c \in calls, NEW arrives \in BOOLEAN, NEW answered \in BOOLEAN,
           Serve(c, arrives, answered)
    PROVE  AckInv'
<1> DEFINE n == [c EXCEPT !.answer = IF answered THEN "ok" ELSE "failed"]
<1>1. /\ c.answer = "none" /\ (answered => arrives) /\ UNCHANGED <<dom, lastSeen, loop>>
      /\ calls' = (calls \ {c}) \cup {n}
      /\ crossed' = (crossed \/ (arrives /\ (c.by = "undo" \/ ~answered)))
  BY DEF Serve
<1>2. srv' = IF ~arrives THEN srv
             ELSE IF c.acked THEN [srv EXCEPT !.acked = srv.acked \cup {c.alert}]
             ELSE [srv EXCEPT !.acked = srv.acked \ {c.alert}]
  BY DEF Serve
<1>3. /\ DOMAIN n = CallFields /\ n.alert = c.alert /\ n.by = c.by /\ n.acked = c.acked /\ n.loop = c.loop
      /\ n.answer = IF answered THEN "ok" ELSE "failed"
  BY DEF AckInv, AckTypes, CallFields
<1>4. /\ DOMAIN srv' = DOMAIN srv
      /\ ~arrives => srv'.acked = srv.acked
      /\ arrives => (c.alert \in srv'.acked <=> c.acked)
      /\ \A a : a # c.alert => (a \in srv'.acked <=> a \in srv.acked)
  BY <1>2 DEF AckInv, AckTypes
<1> HIDE DEF n
<1>5. AckTypes'
  BY <1>1, <1>3, <1>4 DEF AckInv, AckTypes
<1>6. LoopInv'
  <2>1. ASSUME NEW l \in Loop PROVE RunInv(l)'
    <3>1. \A d \in calls : d.loop = l => \E x \in calls' : x.loop = l /\ x.alert = d.alert
      BY <1>1, <1>3
    <3>2. \A d \in calls' : d.loop = l => \E x \in calls : x.loop = l /\ x.alert = d.alert
      BY <1>1, <1>3
    <3> QED
      BY <1>1, <3>1, <3>2, RunKept DEF AckInv, LoopInv
  <2> QED
    BY <2>1 DEF LoopInv
<1>7. CrossInv'
  <2> SUFFICES ASSUME ~crossed' PROVE CrossInv'
    BY DEF CrossInv
  <2>1. /\ ~crossed /\ (arrives => c.by # "undo" /\ answered)
        /\ \A x, y \in calls : x.alert = y.alert => x = y
    BY <1>1 DEF AckInv, CrossInv
  <2>2. \A x \in calls' : x = n \/ (x \in calls /\ x # c /\ x.alert # c.alert)
    BY <1>1, <2>1
  <2>3. \A x, y \in calls' : x.alert = y.alert => x = y
    BY <1>3, <2>1, <2>2
  <2>4. \A x \in calls' : x.answer = "ok" => x.by # "undo" /\ (x.alert \in srv'.acked <=> x.acked)
    BY <1>1, <1>3, <1>4, <2>1, <2>2 DEF AckInv, CrossInv
  <2>5. ASSUME NEW a, \A x \in calls' : x.alert = a => x.answer # "ok" PROVE (AsServer(a) \/ AsSwapped(a))'
    <3>1. \A x \in calls : x.alert = a => x.answer # "ok"
      BY <1>1, <2>5
    <3>2. AsServer(a) \/ AsSwapped(a)
      BY <2>1, <3>1 DEF AckInv, CrossInv
    <3>3. a \in srv'.acked <=> a \in srv.acked
      BY <1>1, <1>3, <1>4, <2>1, <2>5
    <3> QED
      BY <1>1, <3>2, <3>3 DEF AsServer, AsSwapped
  <2> QED
    BY <2>3, <2>4, <2>5 DEF CrossInv
<1> QED
  BY <1>5, <1>6, <1>7 DEF AckInv

LEMMA AnswerKeeps == ASSUME AckInv, NEW c \in calls, Answered(c) PROVE AckInv'
<1>1. /\ c.answer # "none" /\ calls' = calls \ {c} /\ dom' = Shown(c) /\ loop' = Counted(c)
      /\ UNCHANGED <<srv, lastSeen, crossed>>
  BY DEF Answered
<1>2. /\ DOMAIN dom' = DomFields /\ dom'.pending \subseteq Alert
      /\ c.answer # "ok" \/ c.by = "undo" => dom'.acked = dom.acked
      /\ c.answer = "ok" /\ c.by # "undo" =>
            /\ c.alert \in dom'.acked <=> c.acked
            /\ \A a : a # c.alert => (a \in dom'.acked <=> a \in dom.acked)
  <2>1. DOMAIN dom = DomFields /\ dom.pending \subseteq Alert
    BY DEF AckInv, AckTypes
  <2>2. CASE c.by = "undo"
    BY <1>1, <2>1, <2>2 DEF Shown
  <2>3. CASE c.by # "undo" /\ c.answer = "ok"
    BY <1>1, <2>1, <2>3 DEF Shown, ApplyLocally, DomFields
  <2>4. CASE c.by # "undo" /\ c.answer # "ok"
    <3>1. dom' = [dom EXCEPT !.off = dom.off \ {c.alert}]
      BY <1>1, <2>4 DEF Shown
    <3> QED
      BY <2>1, <2>4, <3>1 DEF DomFields
  <2> QED
    BY <2>2, <2>3, <2>4
<1>3. loop' \in [Loop -> Loops \cup {NoCall}] /\ LoopInv'
  <2>0. loop \in [Loop -> Loops \cup {NoCall}] /\ \A k \in Loop : RunInv(k)
    BY DEF AckInv, AckTypes, LoopInv
  <2>1. CASE c.by # "all"
    <3>1. loop' = loop /\ c.loop = NoCall
      BY <1>1, <2>1 DEF Counted, AckInv, AckTypes
    <3>2. ASSUME NEW k \in Loop PROVE RunInv(k)'
      BY <1>1, <2>0, <3>1, RunKept, DeskAssumption
    <3> QED
      BY <2>0, <3>1, <3>2 DEF LoopInv
  <2>2. CASE c.by = "all"
    <3>1. PICK l \in Loop : l = c.loop
      BY <2>2 DEF AckInv, AckTypes
    <3>2. /\ loop[l] \in Loops /\ loop[l].todo \subseteq loop[l].wanted /\ loop[l].got \subseteq loop[l].wanted
          /\ c.alert \in loop[l].wanted /\ loop[l] # NoCall
      BY <2>0, <3>1 DEF RunInv, Waits
    <3>3. PICK n : n = IF c.answer = "ok" THEN [loop[l] EXCEPT !.got = loop[l].got \cup {c.alert}]
                       ELSE [loop[l] EXCEPT !.failed = TRUE]
      OBVIOUS
    <3>4. loop' = [loop EXCEPT ![l] = n]
      <4>1. CASE c.answer = "ok"
        BY <1>1, <2>2, <3>1, <3>3, <4>1 DEF Counted
      <4>2. CASE c.answer # "ok"
        BY <1>1, <2>2, <3>1, <3>3, <4>2 DEF Counted
      <4> QED
        BY <4>1, <4>2
    <3>5. /\ n \in Loops /\ n # NoCall /\ n.todo = loop[l].todo /\ n.wanted = loop[l].wanted
          /\ c.answer = "ok" => n.got = loop[l].got \cup {c.alert} /\ n.failed = loop[l].failed
          /\ c.answer # "ok" => n.got = loop[l].got /\ n.failed
      <4>1. CASE c.answer = "ok"
        BY <3>2, <3>3, <4>1, DeskAssumption DEF Loops
      <4>2. CASE c.answer # "ok"
        BY <3>2, <3>3, <4>2, DeskAssumption DEF Loops
      <4> QED
        BY <4>1, <4>2
    <3>6. loop' \in [Loop -> Loops \cup {NoCall}] /\ loop'[l] = n /\ \A k \in Loop \ {l} : loop'[k] = loop[k]
      BY <2>0, <3>4, <3>5
    <3>7. RunInv(l)'
      <4>1. RunInv(l)
        BY <2>0
      <4>2. /\ n.todo \subseteq n.wanted /\ n.got \subseteq n.wanted
            /\ \A d \in calls' : d.loop = l => d.alert \in n.wanted
        BY <1>1, <3>2, <3>5, <4>1 DEF RunInv
      <4>3. ASSUME ~n.failed, NEW a \in n.wanted, a \notin n.todo, a \notin n.got
            PROVE  \E d \in calls' : d.loop = l /\ d.alert = a
        <5>1. a # c.alert /\ \E d \in calls : d.loop = l /\ d.alert = a
          BY <3>2, <3>5, <4>1, <4>3 DEF RunInv
        <5> QED
          BY <1>1, <5>1
      <4> QED
        BY <3>5, <3>6, <4>2, <4>3 DEF RunInv
    <3>8. ASSUME NEW k \in Loop, k # l PROVE RunInv(k)'
      BY <1>1, <2>0, <3>1, <3>6, <3>8, RunKept
    <3> QED
      BY <3>6, <3>7, <3>8 DEF LoopInv
  <2> QED
    BY <2>1, <2>2
<1>4. AckTypes'
  BY <1>1, <1>2, <1>3 DEF AckInv, AckTypes
<1>5. CrossInv'
  <2> SUFFICES ASSUME ~crossed' PROVE CrossInv'
    BY DEF CrossInv
  <2>1. /\ ~crossed
        /\ \A x, y \in calls : x.alert = y.alert => x = y
        /\ \A x \in calls : x.answer = "ok" => x.by # "undo" /\ (x.alert \in srv.acked <=> x.acked)
    BY <1>1 DEF AckInv, CrossInv
  <2>2. ASSUME NEW a, \A x \in calls' : x.alert = a => x.answer # "ok" PROVE (AsServer(a) \/ AsSwapped(a))'
    <3>1. CASE a = c.alert /\ c.answer = "ok"
      BY <1>1, <1>2, <2>1, <3>1 DEF AsServer
    <3>2. CASE a # c.alert \/ c.answer # "ok"
      <4>1. \A x \in calls : x.alert = a => x.answer # "ok"
        BY <1>1, <2>2, <3>2
      <4>2. a \in dom'.acked <=> a \in dom.acked
        BY <1>2, <2>1, <3>2
      <4> QED
        BY <1>1, <2>1, <4>1, <4>2 DEF AckInv, CrossInv, AsServer, AsSwapped
    <3> QED
      BY <3>1, <3>2
  <2> QED
    BY <1>1, <2>1, <2>2 DEF CrossInv
<1> QED
  BY <1>3, <1>4, <1>5 DEF AckInv

LEMMA SwapKeeps == ASSUME AckInv, NEW c \in post, Arrive(c) PROVE AckInv'
<1>1. CASE Skips(c)
  BY <1>1, AcksIdle DEF Arrive
<1>2. CASE ~Skips(c)
  <2>1. /\ lastSeen' = c /\ crossed' = (crossed /\ calls # {}) /\ UNCHANGED <<srv, calls>> /\ NewNodes(c)
    BY <1>2 DEF Arrive
  <2>2. DOMAIN dom' = DomFields /\ dom'.pending \subseteq Alert /\ dom'.acked = lastSeen'.acked
    BY <2>1 DEF NewNodes, DomFields
  <2>3. loop' \in [Loop -> Loops \cup {NoCall}] /\ LoopInv'
    BY <2>1, RunsDetached DEF NewNodes, AckInv
  <2>4. AckTypes'
    BY <2>1, <2>2, <2>3 DEF AckInv, AckTypes
  <2>5. CrossInv'
    BY <2>1, <2>2 DEF AckInv, CrossInv, AsSwapped
  <2> QED
    BY <2>3, <2>4, <2>5 DEF AckInv
<1> QED
  BY <1>1, <1>2

\* A detail brings the acks of its rendering: another set than the server's by
\* then crosses something.
LEMMA DetailKeeps == ASSUME AckInv, NEW c \in coming, DetailComes(c) PROVE AckInv'
<1>1. UNCHANGED <<srv, lastSeen, calls>> /\ NewNodes(c) /\ crossed' = (crossed \/ c.acked # srv.acked)
  BY DEF DetailComes
<1>2. DOMAIN dom' = DomFields /\ dom'.pending \subseteq Alert /\ dom'.acked = c.acked
  BY <1>1 DEF NewNodes, DomFields
<1>3. loop' \in [Loop -> Loops \cup {NoCall}] /\ LoopInv'
  BY <1>1, RunsDetached DEF NewNodes, AckInv
<1>4. AckTypes'
  BY <1>1, <1>2, <1>3 DEF AckInv, AckTypes
<1>5. CrossInv'
  BY <1>1, <1>2 DEF AckInv, CrossInv, AsServer
<1> QED
  BY <1>3, <1>4, <1>5 DEF AckInv

\* Once all is quiet the page shows the server's acknowledgements, and the
\* ack-all loop claims only what the server gave, in whatever order requests,
\* answers, swaps and colleagues come (applyAckStateLocally, "ack-all").
THEOREM AcksAreAlwaysHonest == DeskSpec => []AcksAreHonest
<1>1. DeskInit => AckInv
  BY DEF DeskInit, AckInv, AckTypes, LoopInv, RunInv, Waits, CrossInv, AsServer, DomFields
<1>2. AckInv /\ [DeskNext]_deskVars => AckInv'
  <2>1. SUFFICES ASSUME AckInv, [DeskNext]_deskVars PROVE AckInv'
    OBVIOUS
  <2>2. ASSUME NEW a \in Alert, Colleague(a) PROVE AckInv'
    <3>1. crossed' = TRUE /\ UNCHANGED <<dom, lastSeen, calls, loop>> /\ DOMAIN srv' = DOMAIN srv
      BY <2>2 DEF Colleague
    <3> QED
      BY <2>1, <3>1 DEF AckInv, AckTypes, LoopInv, RunInv, Waits, CrossInv
  <2>3. ASSUME \/ UndoExpires \/ Type \/ ClickSave \/ SaveReturns \/ Release \/ Render \/ RenderDetail \/ Leave
               \/ \E by \in {"key", "pointer"}, f \in BOOLEAN : HoldKill(by, f)
               \/ UNCHANGED deskVars
        PROVE  AckInv'
    <3>1. UNCHANGED <<srv, dom, lastSeen, calls, loop, crossed>>
      BY <2>3 DEF UndoExpires, Type, ClickSave, SaveReturns, Release, Render, RenderDetail, Leave, HoldKill,
                  deskVars, ackVars
    <3> QED
      BY <2>1, <3>1, AcksIdle
  <2>4. ASSUME NEW x \in BOOLEAN, NEW y \in BOOLEAN, ServeSave(x, y) PROVE AckInv'
    <3>1. DOMAIN srv' = DOMAIN srv /\ srv'.acked = srv.acked
      BY <2>1, <2>4 DEF ServeSave, AckInv, AckTypes
    <3> QED
      BY <2>1, <2>4, <3>1, AcksIdle DEF ServeSave, ackVars
  <2>5. ASSUME NEW n \in srv.notes, DeleteNote(n) PROVE AckInv'
    <3>1. DOMAIN srv' = DOMAIN srv /\ srv'.acked = srv.acked
      BY <2>1, <2>5 DEF DeleteNote, AckInv, AckTypes
    <3> QED
      BY <2>1, <2>5, <3>1, AcksIdle DEF DeleteNote
  <2>6. ASSUME NEW x \in BOOLEAN, HoldFires(x) PROVE AckInv'
    <3>1. DOMAIN srv' = DOMAIN srv /\ srv'.acked = srv.acked
      BY <2>1, <2>6 DEF HoldFires, AckInv, AckTypes
    <3> QED
      BY <2>1, <2>6, <3>1, AcksIdle DEF HoldFires
  <2>7. CASE \E c \in calls, x, y \in BOOLEAN : Serve(c, x, y)
    BY <2>1, <2>7, ServeKeeps
  <2>8. CASE \E c \in calls : Answered(c)
    BY <2>1, <2>8, AnswerKeeps
  <2>9. CASE \E c \in post : Arrive(c)
    BY <2>1, <2>9, SwapKeeps
  <2>10. CASE \E c \in coming : DetailComes(c)
    BY <2>1, <2>10, DetailKeeps
  <2>11. CASE \E l \in Loop : ClickAckAll(l) \/ LoopSends(l) \/ LoopEnds(l)
    BY <2>1, <2>11, RunStarts, RunSends, RunEnds
  <2> QED
    BY <2>1, <2>2, <2>3, <2>4, <2>5, <2>6, <2>7, <2>8, <2>9, <2>10, <2>11, ClickKeeps DEF DeskNext
<1>3. AckInv => AcksAreHonest
  <2> SUFFICES ASSUME AckInv PROVE AcksAreHonest
    OBVIOUS
  <2>1. AckAllIsHonest
    <3> SUFFICES ASSUME NEW l \in Loop, loop[l] # NoCall, loop[l].todo = {}, ~loop[l].failed, ~Waits(l)
                 PROVE  loop[l].got = loop[l].wanted
      BY DEF AckAllIsHonest
    <3>1. RunInv(l)
      BY DEF AckInv, LoopInv
    <3>2. loop[l].wanted \subseteq loop[l].got /\ loop[l].got \subseteq loop[l].wanted
      BY <3>1 DEF RunInv, Waits
    <3> QED
      BY <3>2
  <2>2. PageCatchesUp
    <3> SUFFICES ASSUME calls = {}, lastSeen = srv, ~crossed PROVE dom.acked = srv.acked
      BY DEF PageCatchesUp
    <3>1. \A a : a \in dom.acked <=> a \in srv.acked
      BY DEF AckInv, CrossInv, AsServer, AsSwapped
    <3> QED
      BY <3>1
  <2> QED
    BY <2>1, <2>2 DEF AcksAreHonest
<1> QED
  BY <1>1, <1>2, <1>3, PTL DEF DeskSpec

-----------------------------------------------------------------------------
(* Views: the request with the latest number asks for what the chip says,  *)
(* and only its answer is shown; a preview opened on its own has nothing   *)
(* but its own content to wait for.                                        *)

ViewsSpec == ViewsInit /\ [][ViewsNext]_viewsVars

ReqFields == {"w", "seq", "pick", "stage"}
ForDns(r) == r.w = "dns"

FragTypes ==
    /\ inFlight \in [Fragment -> Nat] /\ DOMAIN pick = Fragment /\ DOMAIN shown = Fragment
    /\ \A r \in reqs : DOMAIN r = ReqFields /\ (ForDns(r) => r.seq \in Nat /\ r.seq <= inFlight["dns"])

LatestIsPicked == \A r \in reqs : ForDns(r) /\ Current(r) => r.pick = pick["dns"]

ShownOrComing ==
    "dns" \notin astray => shown["dns"] = pick["dns"] \/ \E r \in reqs : ForDns(r) /\ Current(r)

FragInv == FragTypes /\ LatestIsPicked /\ ShownOrComing

ModalInv ==
    /\ DOMAIN modal = {"open", "title", "body"}
    /\ modal.open /\ ~overlap => loads \subseteq {modal.title} /\ modal.body \in {Blank, modal.title}

LEMMA RefreshKeeps ==
    ASSUME FragInv, NEW ws, NEW p, NEW st, Refreshed(ws, p, st),
           DOMAIN pick' = Fragment, DOMAIN shown' = Fragment, pick'["dns"] = p["dns"],
           "dns" \notin ws => /\ pick'["dns"] = pick["dns"]
                              /\ "dns" \in st \/ shown'["dns"] = shown["dns"]
    PROVE  FragInv'
<1> DEFINE new(w) == [w |-> w, seq |-> inFlight[w] + 1, pick |-> p[w], stage |-> "sent"]
<1>1. /\ inFlight' = [w \in Fragment |-> inFlight[w] + (IF w \in ws THEN 1 ELSE 0)]
      /\ reqs' = reqs \cup {new(w) : w \in ws} /\ astray' = (astray \ ws) \cup st
  BY DEF Refreshed
<1>2. \A w : DOMAIN new(w) = ReqFields /\ new(w).w = w /\ new(w).seq = inFlight[w] + 1 /\ new(w).pick = p[w]
  BY DEF ReqFields
<1> HIDE DEF new
<1>3. /\ inFlight \in [Fragment -> Nat] /\ inFlight["dns"] \in Nat /\ inFlight' \in [Fragment -> Nat]
      /\ inFlight'["dns"] = inFlight["dns"] + (IF "dns" \in ws THEN 1 ELSE 0)
  BY <1>1, ViewsAssumption DEF FragInv, FragTypes
<1>4. \A r \in reqs' : \/ r \in reqs
                       \/ DOMAIN r = ReqFields /\ (ForDns(r) => "dns" \in ws /\ r = new("dns"))
  BY <1>1, <1>2 DEF ForDns
<1>5. FragTypes'
  BY <1>2, <1>3, <1>4 DEF FragInv, FragTypes, ForDns
<1>6. LatestIsPicked'
  <2> SUFFICES ASSUME NEW r \in reqs', ForDns(r), Current(r)' PROVE r.pick = pick'["dns"]
    BY DEF LatestIsPicked
  <2>1. r.seq = inFlight'["dns"] /\ r.w = "dns"
    BY DEF Current, ForDns
  <2>2. CASE r \in reqs
    <3>1. r.seq \in Nat /\ r.seq <= inFlight["dns"]
      BY <2>2 DEF FragInv, FragTypes
    <3>2. "dns" \notin ws /\ Current(r)
      BY <1>3, <2>1, <3>1 DEF Current
    <3> QED
      BY <2>2, <3>2 DEF FragInv, LatestIsPicked
  <2>3. CASE r \notin reqs
    BY <1>2, <1>4, <2>3
  <2> QED
    BY <2>2, <2>3
<1>7. ShownOrComing'
  <2>1. CASE "dns" \in ws
    <3>1. PICK n : n = new("dns")
      OBVIOUS
    <3>2. n \in reqs' /\ n.w = "dns" /\ n.seq = inFlight'["dns"]
      BY <1>1, <1>2, <1>3, <2>1, <3>1
    <3> QED
      BY <3>2 DEF ShownOrComing, ForDns, Current
  <2>2. CASE "dns" \notin ws /\ "dns" \notin st
    <3>1. reqs \subseteq reqs' /\ \A r \in reqs : ForDns(r) /\ Current(r) => Current(r)'
      BY <1>1, <1>3, <2>2 DEF ForDns, Current
    <3> QED
      BY <1>1, <2>2, <3>1 DEF FragInv, ShownOrComing
  <2>3. CASE "dns" \in st
    BY <1>1, <2>3 DEF ShownOrComing
  <2> QED
    BY <2>1, <2>2, <2>3
<1> QED
  BY <1>5, <1>6, <1>7 DEF FragInv

LEMMA FragKept == ASSUME FragInv, UNCHANGED fragVars PROVE FragInv'
BY DEF FragInv, FragTypes, LatestIsPicked, ShownOrComing, Current, fragVars

LEMMA AnswersKeep == ASSUME FragInv, NEW r \in reqs, Headers(r) \/ Body(r) \/ Lost(r) PROVE FragInv'
<1>0. UNCHANGED <<pick, inFlight>> /\ FragTypes /\ LatestIsPicked /\ ShownOrComing
  BY DEF Headers, Body, Lost, FragInv
<1>1. CASE Headers(r) /\ reqs' = reqs \ {r} /\ r.w # "dns"
  BY <1>0, <1>1 DEF Headers, FragInv, FragTypes, LatestIsPicked, ShownOrComing, Current, ForDns
<1>2. CASE Headers(r) /\ Advance(r, "body")
  <2> DEFINE n == [r EXCEPT !.stage = "body"]
  <2>1. reqs' = (reqs \ {r}) \cup {n} /\ UNCHANGED <<shown, astray>>
    BY <1>2 DEF Advance, Headers
  <2>2. DOMAIN n = ReqFields /\ n.w = r.w /\ n.seq = r.seq /\ n.pick = r.pick
    BY <1>0 DEF FragTypes, ReqFields
  <2> HIDE DEF n
  <2>3. FragTypes' /\ LatestIsPicked'
    BY <1>0, <2>1, <2>2 DEF FragTypes, LatestIsPicked, Current, ForDns
  <2>4. ASSUME NEW x \in reqs, ForDns(x), Current(x)
        PROVE  \E y \in reqs' : ForDns(y) /\ y.seq = inFlight'[y.w]
    <3>1. CASE x = r
      BY <1>0, <2>1, <2>2, <2>4, <3>1 DEF ForDns, Current
    <3>2. CASE x # r
      BY <1>0, <2>1, <2>4, <3>2 DEF ForDns, Current
    <3> QED
      BY <3>1, <3>2
  <2>5. ShownOrComing'
    BY <1>0, <2>1, <2>4 DEF ShownOrComing, Current
  <2> QED
    BY <2>3, <2>5 DEF FragInv
<1>3. CASE Body(r)
  <2>1. /\ reqs' = reqs \ {r} /\ UNCHANGED astray
        /\ shown' = IF Wanted(r) THEN [shown EXCEPT ![r.w] = r.pick] ELSE shown
    BY <1>3 DEF Body, Fetched
  <2>2. FragTypes' /\ LatestIsPicked'
    BY <1>0, <2>1 DEF FragTypes, LatestIsPicked, Current, ForDns
  <2>3. CASE ForDns(r) /\ Current(r)
    <3>1. shown'["dns"] = pick["dns"]
      BY <1>0, <2>1, <2>3, ViewsAssumption DEF FragTypes, LatestIsPicked, Wanted, ForDns
    <3> QED
      BY <1>0, <2>2, <3>1 DEF FragInv, ShownOrComing
  <2>4. CASE ~(ForDns(r) /\ Current(r))
    <3>1. shown'["dns"] = shown["dns"]
      BY <1>0, <2>1, <2>4, ViewsAssumption DEF FragTypes, Wanted, ForDns
    <3>2. \A x \in reqs : ForDns(x) /\ Current(x) => x \in reqs' /\ Current(x)'
      BY <1>0, <2>1, <2>4 DEF ForDns, Current
    <3> QED
      BY <1>0, <2>1, <2>2, <3>1, <3>2 DEF FragInv, ShownOrComing
  <2> QED
    BY <2>3, <2>4
<1>4. CASE Lost(r)
  <2>1. reqs' = reqs \ {r} /\ UNCHANGED shown /\ astray' = IF Current(r) THEN astray \cup {r.w} ELSE astray
    BY <1>4 DEF Lost
  <2>2. FragTypes' /\ LatestIsPicked'
    BY <1>0, <2>1 DEF FragTypes, LatestIsPicked, Current, ForDns
  <2>3. "dns" \notin astray' => \A x \in reqs : ForDns(x) /\ Current(x) => x \in reqs' /\ Current(x)'
    BY <1>0, <2>1 DEF ForDns, Current
  <2> QED
    BY <1>0, <2>1, <2>2, <2>3 DEF FragInv, ShownOrComing
<1> QED
  BY <1>1, <1>2, <1>3, <1>4 DEF Headers

\* The DNS feed shows what its chip says and a preview what its title names,
\* for any fragments, settings, clicks, swaps and order of the answers.
THEOREM ViewsAreAlwaysOfTheirTitles == ViewsSpec => []ViewsAreOfTheirTitles
<1>1. ViewsInit => FragInv /\ ModalInv
  BY ViewsAssumption DEF ViewsInit, FragInv, FragTypes, LatestIsPicked, ShownOrComing, ModalInv
<1>2. FragInv /\ ModalInv /\ [ViewsNext]_viewsVars => FragInv' /\ ModalInv'
  <2>1. SUFFICES ASSUME FragInv, ModalInv, [ViewsNext]_viewsVars PROVE FragInv' /\ ModalInv'
    OBVIOUS
  <2>2. ASSUME UNCHANGED modalVars PROVE ModalInv'
    BY <2>1, <2>2 DEF ModalInv, modalVars
  <2>3. ASSUME NEW w \in Fragment, NEW s \in Setting, Pick(w, s) PROVE FragInv' /\ ModalInv'
    <3>1. /\ UNCHANGED <<shown, modalVars>> /\ Refreshed({w}, pick', {})
          /\ DOMAIN pick' = DOMAIN pick /\ \A x \in DOMAIN pick : x # w => pick'[x] = pick[x]
      BY <2>3 DEF Pick
    <3>2. PICK p : p = pick' /\ Refreshed({w}, p, {})
      BY <3>1
    <3>3. FragTypes
      BY <2>1 DEF FragInv
    <3>4. FragInv'
      BY <2>1, <3>1, <3>2, <3>3, RefreshKeeps, ViewsAssumption DEF FragTypes
    <3> QED
      BY <2>2, <3>1, <3>4
  <2>4. CASE SwapViews
    <3>1. /\ UNCHANGED <<pick, modalVars>> /\ Refreshed(cool, pick, Fragment \ cool)
          /\ shown' = [w \in Fragment |-> IF w = "rate" THEN shown[w] ELSE Default]
      BY <2>4 DEF SwapViews
    <3>2. PICK ws, p, st : ws = cool /\ p = pick /\ st = Fragment \ cool /\ Refreshed(ws, p, st)
      BY <3>1
    <3>3. FragTypes
      BY <2>1 DEF FragInv
    <3>4. FragInv'
      BY <2>1, <3>1, <3>2, <3>3, RefreshKeeps, ViewsAssumption DEF FragTypes
    <3> QED
      BY <2>2, <3>1, <3>4
  <2>5. ASSUME NEW r \in reqs, Headers(r) \/ Body(r) \/ Lost(r) PROVE FragInv' /\ ModalInv'
    BY <2>1, <2>2, <2>5, AnswersKeep DEF Headers, Body, Lost
  <2>6. ASSUME NEW w \in Fragment, Cool(w) PROVE FragInv' /\ ModalInv'
    <3>1. FragInv'
      BY <2>1, <2>6 DEF Cool, FragInv, FragTypes, LatestIsPicked, ShownOrComing, Current
    <3> QED
      BY <2>2, <2>6, <3>1 DEF Cool
  <2>7. ASSUME NEW t \in Thing, Open(t) PROVE FragInv' /\ ModalInv'
    <3>1. /\ UNCHANGED fragVars /\ modal' = [open |-> TRUE, title |-> t, body |-> Blank]
          /\ overlap' = (loads # {}) /\ loads' = loads \cup {t}
      BY <2>7 DEF Open
    <3>2. ModalInv'
      BY <3>1 DEF ModalInv
    <3> QED
      BY <2>1, <3>1, <3>2, FragKept
  <2>8. ASSUME NEW l \in loads, NEW ok \in BOOLEAN, Loaded(l, ok) PROVE FragInv' /\ ModalInv'
    <3>1. UNCHANGED <<fragVars, overlap>> /\ loads' = loads \ {l}
          /\ modal' = [modal EXCEPT !.body = IF ok THEN l ELSE Blank]
      BY <2>8 DEF Loaded
    <3>2. /\ DOMAIN modal' = {"open", "title", "body"} /\ modal'.open = modal.open
          /\ modal'.title = modal.title /\ modal'.body \in {l, Blank}
      BY <2>1, <3>1 DEF ModalInv
    <3>3. ModalInv'
      BY <2>1, <3>1, <3>2 DEF ModalInv
    <3> QED
      BY <2>1, <3>1, <3>3, FragKept
  <2>9. CASE Close
    <3>1. UNCHANGED fragVars /\ modal' = [modal EXCEPT !.open = FALSE]
      BY <2>9 DEF Close
    <3>2. ModalInv'
      BY <2>1, <3>1 DEF ModalInv
    <3> QED
      BY <2>1, <3>1, <3>2, FragKept
  <2>10. CASE UNCHANGED viewsVars
    BY <2>1, <2>2, <2>10, FragKept DEF viewsVars
  <2> QED
    BY <2>1, <2>3, <2>4, <2>5, <2>6, <2>7, <2>8, <2>9, <2>10 DEF ViewsNext
<1>3. FragInv /\ ModalInv => ViewsAreOfTheirTitles
  BY DEF FragInv, ShownOrComing, ModalInv, ViewsAreOfTheirTitles, ForDns
<1> QED
  BY <1>1, <1>2, <1>3, PTL DEF ViewsSpec

-----------------------------------------------------------------------------
(* The live feed                                                           *)
(*                                                                         *)
(* The argument: no content is ahead of the log, and what a row last       *)
(* showed is remembered over a swap that misses it, so an alert of a row   *)
(* that was shown is ahead of that memory until the swap that flashes it.  *)
(* The latest detail request is for the selected row, and a content in     *)
(* flight that has this row has its detail.                                *)

FeedSpec == FeedInit /\ [][FeedNext]_feedVars

ConnFields == {"hint", "primed", "seen", "mail"}
PageFields == {"rows", "detail", "tag"}
NoneBehind(r, s) == \A e \in Eng : r[e] <= s[e]

FeedTypes ==
    /\ log \in [Eng -> Nat] /\ DOMAIN conn = ConnFields /\ \E S : conn.mail \in Seq(S)
    /\ DOMAIN page = PageFields /\ page.rows \in [Eng -> Nat] /\ prev \in [Eng -> Nat]

RowsRemembered ==
    /\ NoneBehind(prev, log)
    /\ \A e \in Eng : page.rows[e] > 0 => prev[e] = page.rows[e]

IsContent(html) == DOMAIN html = PageFields /\ html.rows \in [Eng -> Nat]
MailInv == \A i \in DOMAIN conn.mail : IsContent(conn.mail[i].html) /\ NoneBehind(conn.mail[i].html.rows, log)

FeedInv == FeedTypes /\ RowsRemembered /\ MailInv

KnownInv ==
    \A a \in known :
        /\ a \in Alerts(log)
        /\ a \in pulsed \/ (prev[a[1]] > 0 /\ prev[a[1]] <= a[2])

HasDetail(html, e) == html.rows[e] > 0 => html.detail = e

FetchInv ==
    /\ fetchSeq \in Nat /\ \A f \in fetches : f.seq \in Nat /\ 1 <= f.seq
    /\ selected # NoEng => selected \in Eng
    /\ \A f \in fetches : f.seq = fetchSeq => f.eng = selected
    /\ selected # NoEng /\ ~failed => HasDetail(page, selected) \/ \E f \in fetches : f.seq = fetchSeq

MailHasDetail ==
    selected # NoEng => /\ conn.hint = selected
                        /\ \A i \in DOMAIN conn.mail : HasDetail(conn.mail[i].html, selected)

DetailInv == FetchInv /\ MailHasDetail

LEMMA HtmlIs ==
    ASSUME NEW hint, NEW read, NEW first, NEW html, html = Html(hint, read, first)
    PROVE  /\ DOMAIN html = PageFields /\ html.rows = read /\ html.tag = first
           /\ html.detail = IF hint # NoEng /\ read[hint] > 0 THEN hint ELSE first
BY DEF Html, PageFields

LEMMA GatherIs ==
    ASSUME FeedTypes, NEW read, NEW first, Gather(read, first)
    PROVE  read \in [Eng -> Nat] /\ NoneBehind(read, log)
<1>1. CASE read = log
  BY <1>1 DEF FeedTypes, NoneBehind
<1>2. CASE \E e \in Eng, n \in 0..MaxLog : n < log[e] /\ read = [log EXCEPT ![e] = n]
  <2>1. PICK e \in Eng, n \in 0..MaxLog : n < log[e] /\ read = [log EXCEPT ![e] = n]
    BY <1>2
  <2>2. log \in [Eng -> Nat] /\ n \in Nat
    BY FeedAssumption DEF FeedTypes
  <2> QED
    BY <2>1, <2>2 DEF NoneBehind
<1> QED
  BY <1>1, <1>2 DEF Gather

\* A connection that starts anew has no mail.
LEMMA FreshIs ==
    ASSUME NEW hint, conn' = Fresh(hint)
    PROVE  /\ DOMAIN conn' = ConnFields /\ conn'.hint = hint /\ conn'.primed = FALSE /\ conn'.seen = {}
           /\ conn'.mail = <<>> /\ DOMAIN conn'.mail = {} /\ conn'.mail \in Seq({})
<1>1. DOMAIN conn' = ConnFields /\ conn'.hint = hint /\ conn'.primed = FALSE /\ conn'.seen = {} /\ conn'.mail = <<>>
  BY DEF Fresh, ConnFields
<1>2. <<>> \in Seq({}) /\ DOMAIN <<>> = {}
  OBVIOUS
<1> QED
  BY <1>1, <1>2

LEMMA AttackFeed == ASSUME FeedInv, NEW e \in Eng, Attack(e)
                    PROVE  FeedInv' /\ NoneBehind(log, log')
<1>1. log' = [log EXCEPT ![e] = log[e] + 1] /\ UNCHANGED <<conn, page, prev>>
  BY DEF Attack, paneVars
<1>2. log' \in [Eng -> Nat] /\ NoneBehind(log, log')
  BY <1>1 DEF FeedInv, FeedTypes, NoneBehind
<1>3. FeedTypes'
  BY <1>1, <1>2 DEF FeedInv, FeedTypes
<1>4. ASSUME NEW r \in [Eng -> Nat], NoneBehind(r, log) PROVE NoneBehind(r, log')
  BY <1>2, <1>4 DEF NoneBehind, FeedInv, FeedTypes
<1>5. NoneBehind(prev, log')
  BY <1>4 DEF FeedInv, FeedTypes, RowsRemembered
<1>6. RowsRemembered'
  BY <1>1, <1>5 DEF FeedInv, RowsRemembered, NoneBehind
<1>7. MailInv'
  BY <1>1, <1>4 DEF FeedInv, MailInv, IsContent, NoneBehind
<1> QED
  BY <1>2, <1>3, <1>6, <1>7 DEF FeedInv

\* One turn of the server: the mail is longer by one content.
LEMMA PushIs ==
    ASSUME FeedTypes, NEW read, NEW first, Push(read, first)
    PROVE  /\ UNCHANGED <<log, old, known, page, prev, pulsed>> /\ UNCHANGED <<pickVars, toastVars>>
           /\ DOMAIN conn' = ConnFields /\ conn'.hint = conn.hint /\ conn'.primed = TRUE
           /\ conn'.seen = conn.seen \cup Alerts(read) /\ \E S : conn'.mail \in Seq(S)
           /\ read \in [Eng -> Nat] /\ NoneBehind(read, log)
           /\ \A i \in DOMAIN conn'.mail :
                 \/ i \in DOMAIN conn.mail /\ conn'.mail[i] = conn.mail[i]
                 \/ /\ conn'.mail[i].html = Html(conn.hint, read, first)
                    /\ conn'.mail[i].news = News(read) /\ conn'.mail[i].all = Alerts(read)
<1>1. PICK m : m = [html |-> Html(conn.hint, read, first), news |-> News(read), all |-> Alerts(read)]
  OBVIOUS
<1>2. /\ conn' = [conn EXCEPT !.primed = TRUE, !.seen = conn.seen \cup Alerts(read), !.mail = Append(conn.mail, m)]
      /\ UNCHANGED <<log, old, known, page, prev, pulsed>> /\ UNCHANGED <<pickVars, toastVars>>
      /\ Gather(read, first)
  BY <1>1 DEF Push, paneVars
<1>3. m.html = Html(conn.hint, read, first) /\ m.news = News(read) /\ m.all = Alerts(read)
  BY <1>1
<1>4. /\ DOMAIN conn' = ConnFields /\ conn'.hint = conn.hint /\ conn'.primed = TRUE
      /\ conn'.seen = conn.seen \cup Alerts(read) /\ conn'.mail = Append(conn.mail, m)
  BY <1>2 DEF FeedTypes, ConnFields
<1>5. PICK S : conn.mail \in Seq(S)
  BY DEF FeedTypes
<1>6. conn'.mail \in Seq(S \cup {m})
  BY <1>4, <1>5
<1>7. \A i \in DOMAIN conn'.mail : (i \in DOMAIN conn.mail /\ conn'.mail[i] = conn.mail[i]) \/ conn'.mail[i] = m
  BY <1>4, <1>5
<1>8. read \in [Eng -> Nat] /\ NoneBehind(read, log)
  BY <1>2, GatherIs
<1> QED
  BY <1>2, <1>3, <1>4, <1>6, <1>7, <1>8

LEMMA PushFeed == ASSUME FeedInv, NEW read, NEW first, Push(read, first) PROVE FeedInv'
<1>1. FeedTypes
  BY DEF FeedInv
<1>2. PICK html : html = Html(conn.hint, read, first)
  OBVIOUS
<1>3. IsContent(html) /\ NoneBehind(html.rows, log)
  <2>1. read \in [Eng -> Nat] /\ NoneBehind(read, log)
    BY <1>1, PushIs
  <2>2. DOMAIN html = PageFields /\ html.rows = read
    BY <1>2, HtmlIs
  <2> QED
    BY <2>1, <2>2 DEF IsContent
<1>4. FeedTypes' /\ RowsRemembered'
  BY <1>1, PushIs DEF FeedInv, FeedTypes, RowsRemembered, NoneBehind
<1>5. \A i \in DOMAIN conn'.mail : \/ i \in DOMAIN conn.mail /\ conn'.mail[i] = conn.mail[i]
                                   \/ conn'.mail[i].html = html
  BY <1>1, <1>2, PushIs
<1>6. log' = log
  BY <1>1, PushIs
<1>7. MailInv'
  BY <1>3, <1>5, <1>6 DEF FeedInv, MailInv, NoneBehind
<1> QED
  BY <1>4, <1>7 DEF FeedInv

\* A payload read: the mail is shorter by the first.
LEMMA MessageIs ==
    ASSUME FeedTypes, Message
    PROVE  /\ UNCHANGED <<log, old, known, skipped>> /\ DOMAIN conn' = ConnFields
           /\ conn'.hint = conn.hint /\ conn'.primed = conn.primed /\ conn'.seen = conn.seen
           /\ \E S : conn'.mail \in Seq(S)
           /\ 1 \in DOMAIN conn.mail /\ Head(conn.mail) = conn.mail[1]
           /\ \A i \in DOMAIN conn'.mail : i + 1 \in DOMAIN conn.mail /\ conn'.mail[i] = conn.mail[i + 1]
           /\ (Swap(conn.mail[1].html) /\ UNCHANGED selected) \/ UNCHANGED <<paneVars, pickVars>>
<1>1. /\ conn.mail # <<>> /\ conn' = [conn EXCEPT !.mail = Tail(conn.mail)]
      /\ UNCHANGED <<log, old, known, skipped>>
      /\ (Swap(Head(conn.mail).html) /\ UNCHANGED selected) \/ UNCHANGED <<paneVars, pickVars>>
  BY DEF Message, sessionVars
<1>2. /\ DOMAIN conn' = ConnFields /\ conn'.hint = conn.hint /\ conn'.primed = conn.primed
      /\ conn'.seen = conn.seen /\ conn'.mail = Tail(conn.mail)
  BY <1>1 DEF FeedTypes, ConnFields
<1>3. PICK S : conn.mail \in Seq(S)
  BY DEF FeedTypes
<1>4. /\ Len(conn.mail) \in Nat /\ DOMAIN conn.mail = 1..Len(conn.mail) /\ Len(conn.mail) > 0
      /\ Head(conn.mail) = conn.mail[1]
      /\ conn'.mail \in Seq(S) /\ DOMAIN conn'.mail = 1..(Len(conn.mail) - 1)
      /\ \A i \in 1..(Len(conn.mail) - 1) : conn'.mail[i] = conn.mail[i + 1]
  BY <1>1, <1>2, <1>3
<1>5. \A i \in DOMAIN conn'.mail : i + 1 \in DOMAIN conn.mail /\ conn'.mail[i] = conn.mail[i + 1]
  BY <1>4
<1>6. 1 \in DOMAIN conn.mail
  BY <1>4
<1>7. (Swap(conn.mail[1].html) /\ UNCHANGED selected) \/ UNCHANGED <<paneVars, pickVars>>
  BY <1>1, <1>4
<1> QED
  BY <1>1, <1>2, <1>4, <1>5, <1>6, <1>7

\* The page takes a content: what it last showed of a row is what the content
\* has of it, or what it was when the content has not that row.
LEMMA SwapIs ==
    ASSUME FeedTypes, NEW html, Swap(html), IsContent(html)
    PROVE  /\ page' = html /\ prev' \in [Eng -> Nat]
           /\ \A e \in Eng : prev'[e] = IF html.rows[e] > 0 THEN html.rows[e] ELSE prev[e]
           /\ pulsed' = pulsed \cup {a \in Alerts(html.rows) : prev[a[1]] > 0 /\ a[2] >= prev[a[1]]}
<1>1. /\ page' = html /\ prev' = [e \in Eng |-> IF html.rows[e] > 0 THEN html.rows[e] ELSE prev[e]]
      /\ pulsed' = pulsed \cup {a \in Alerts(html.rows) : prev[a[1]] > 0 /\ a[2] >= prev[a[1]]}
  BY DEF Swap, Pulse
<1>2. \A e \in Eng : html.rows[e] \in Nat /\ prev[e] \in Nat
  BY DEF FeedTypes, IsContent
<1> QED
  BY <1>1, <1>2

LEMMA MessageFeed == ASSUME FeedInv, Message PROVE FeedInv'
<1>1. FeedTypes
  BY DEF FeedInv
<1>2. /\ log' = log /\ 1 \in DOMAIN conn.mail /\ DOMAIN conn' = ConnFields /\ \E S : conn'.mail \in Seq(S)
      /\ \A i \in DOMAIN conn'.mail : i + 1 \in DOMAIN conn.mail /\ conn'.mail[i] = conn.mail[i + 1]
      /\ Swap(conn.mail[1].html) \/ UNCHANGED <<page, prev>>
  BY <1>1, MessageIs DEF paneVars
<1>3. MailInv'
  BY <1>2 DEF FeedInv, MailInv, NoneBehind
<1>4. CASE UNCHANGED <<page, prev>>
  <2>1. FeedTypes' /\ RowsRemembered'
    BY <1>2, <1>4 DEF FeedInv, FeedTypes, RowsRemembered, NoneBehind
  <2> QED
    BY <1>3, <2>1 DEF FeedInv
<1>5. CASE Swap(conn.mail[1].html)
  <2>1. PICK html : html = conn.mail[1].html
    OBVIOUS
  <2>2. Swap(html) /\ IsContent(html) /\ NoneBehind(html.rows, log)
    BY <1>2, <1>5, <2>1 DEF FeedInv, MailInv
  <2>3. /\ page' = html /\ prev' \in [Eng -> Nat]
        /\ \A e \in Eng : prev'[e] = IF html.rows[e] > 0 THEN html.rows[e] ELSE prev[e]
    BY <1>1, <2>2, SwapIs
  <2>4. FeedTypes'
    BY <1>1, <1>2, <2>2, <2>3 DEF FeedTypes, IsContent
  <2>5. RowsRemembered'
    BY <1>2, <2>2, <2>3 DEF FeedInv, RowsRemembered, NoneBehind
  <2> QED
    BY <1>3, <2>4, <2>5 DEF FeedInv
<1> QED
  BY <1>2, <1>4, <1>5

LEMMA ReloadFeed == ASSUME FeedInv, NEW read, NEW first, Reload(read, first) PROVE FeedInv'
<1>1. PICK html : html = Html(NoEng, read, first)
  OBVIOUS
<1>2. /\ conn' = Fresh(selected) /\ log' = log /\ page' = html /\ prev' = read
      /\ read \in [Eng -> Nat] /\ NoneBehind(read, log)
  BY <1>1, GatherIs DEF Reload, FeedInv
<1>3. DOMAIN html = PageFields /\ html.rows = read
  BY <1>1, HtmlIs
<1>4. DOMAIN conn' = ConnFields /\ DOMAIN conn'.mail = {} /\ conn'.mail \in Seq({})
  BY <1>2, FreshIs
<1>5. FeedTypes'
  BY <1>2, <1>3, <1>4 DEF FeedInv, FeedTypes
<1>6. RowsRemembered' /\ MailInv'
  BY <1>2, <1>3, <1>4 DEF RowsRemembered, MailInv, NoneBehind
<1> QED
  BY <1>5, <1>6 DEF FeedInv

LEMMA ReopenFeed == ASSUME FeedInv, Dropped \/ \E e \in Eng : SelectRow(e) PROVE FeedInv'
<1>1. PICK hint : conn' = Fresh(hint)
  BY DEF Dropped, SelectRow
<1>2. UNCHANGED <<log, page, prev>>
  BY DEF Dropped, SelectRow, paneVars
<1>3. DOMAIN conn' = ConnFields /\ DOMAIN conn'.mail = {} /\ conn'.mail \in Seq({})
  BY <1>1, FreshIs
<1>4. FeedTypes'
  BY <1>2, <1>3 DEF FeedInv, FeedTypes
<1>5. RowsRemembered' /\ MailInv'
  BY <1>2, <1>3 DEF FeedInv, RowsRemembered, MailInv, NoneBehind
<1> QED
  BY <1>4, <1>5 DEF FeedInv

\* The steps that leave the log, the connection and the rows alone.
LEMMA QuietFeed ==
    ASSUME FeedInv, UNCHANGED <<log, conn, prev>>, DOMAIN page' = PageFields, page'.rows = page.rows PROVE FeedInv'
<1>1. FeedTypes' /\ RowsRemembered'
  BY DEF FeedInv, FeedTypes, RowsRemembered, NoneBehind
<1>2. MailInv'
  BY DEF FeedInv, MailInv, NoneBehind
<1> QED
  BY <1>1, <1>2 DEF FeedInv

LEMMA DetailIs ==
    ASSUME FeedTypes, NEW f \in fetches, NEW ok \in BOOLEAN, DetailArrives(f, ok)
    PROVE  /\ UNCHANGED <<log, conn, prev, pulsed, old, known, skipped>> /\ UNCHANGED toastVars
           /\ DOMAIN page' = PageFields /\ page'.rows = page.rows
           /\ page'.detail = IF ok /\ f.seq = fetchSeq THEN f.eng ELSE page.detail
<1>1. /\ UNCHANGED <<log, conn, prev, pulsed, old, known, skipped>> /\ UNCHANGED toastVars
      /\ page' = IF ok /\ f.seq = fetchSeq THEN [page EXCEPT !.detail = f.eng, !.tag = f.eng] ELSE page
  BY DEF DetailArrives, sessionVars
<1> QED
  BY <1>1 DEF FeedTypes, PageFields

LEMMA FeedNextInv == FeedInv /\ [FeedNext]_feedVars => FeedInv'
<1> SUFFICES ASSUME FeedInv, [FeedNext]_feedVars PROVE FeedInv'
  OBVIOUS
<1>1. CASE Focus \/ UNCHANGED feedVars
  <2>1. UNCHANGED <<log, conn, prev, page>>
    BY <1>1 DEF Focus, feedVars, sessionVars, paneVars
  <2> QED
    BY <2>1, QuietFeed DEF FeedInv, FeedTypes
<1>2. CASE \E f \in fetches, ok \in BOOLEAN : DetailArrives(f, ok)
  <2>1. FeedTypes
    BY DEF FeedInv
  <2> QED
    BY <1>2, <2>1, DetailIs, QuietFeed
<1> QED
  BY <1>1, <1>2, AttackFeed, PushFeed, MessageFeed, ReopenFeed, ReloadFeed DEF FeedNext

LEMMA FeedInitInv == FeedInit => FeedInv
<1> SUFFICES ASSUME FeedInit PROVE FeedInv
  OBVIOUS
<1>1. log \in [Eng -> Nat] /\ conn = Fresh(NoEng) /\ page = Html(NoEng, log, newest) /\ prev = log
  BY DEF FeedInit
<1>2. DOMAIN page = PageFields /\ page.rows = log
  BY <1>1 DEF Html, PageFields
<1>3. DOMAIN conn = ConnFields /\ conn.mail = <<>> /\ <<>> \in Seq({}) /\ DOMAIN conn.mail = {}
  BY <1>1 DEF Fresh, ConnFields
<1>4. FeedTypes
  BY <1>1, <1>2, <1>3 DEF FeedTypes
<1>5. RowsRemembered /\ MailInv
  BY <1>1, <1>2, <1>3 DEF RowsRemembered, MailInv, NoneBehind
<1> QED
  BY <1>4, <1>5 DEF FeedInv

\* Swapping in a content flashes what it has beyond the row's last showing.
LEMMA SwapAnnounces ==
    ASSUME FeedTypes, KnownInv, NEW html, Swap(html), IsContent(html), UNCHANGED <<log, known>>
    PROVE  KnownInv'
<1>1. /\ \A e \in Eng : prev'[e] = IF html.rows[e] > 0 THEN html.rows[e] ELSE prev[e]
      /\ pulsed' = pulsed \cup {a \in Alerts(html.rows) : prev[a[1]] > 0 /\ a[2] >= prev[a[1]]}
  BY SwapIs
<1>2. \A a \in known : a \in Alerts(log)'
  BY DEF KnownInv, Alerts
<1>3. ASSUME NEW a \in known, a \notin pulsed' PROVE prev'[a[1]] > 0 /\ prev'[a[1]] <= a[2]
  <2>1. /\ a \in Eng \X (1..MaxLog) /\ a[1] \in Eng /\ a[2] \in Nat
        /\ prev[a[1]] > 0 /\ prev[a[1]] <= a[2]
    BY <1>1, <1>3, FeedAssumption DEF KnownInv, Alerts
  <2>2. a \notin Alerts(html.rows)
    BY <1>1, <1>3, <2>1
  <2>3. html.rows[a[1]] <= a[2] /\ html.rows[a[1]] \in Nat /\ prev[a[1]] \in Nat
    BY <2>1, <2>2 DEF Alerts, IsContent, FeedTypes
  <2> QED
    BY <1>1, <2>1, <2>3
<1> QED
  BY <1>2, <1>3 DEF KnownInv

LEMMA AlertsGrow ==
    ASSUME NEW r \in [Eng -> Nat], NEW s \in [Eng -> Nat], NoneBehind(r, s) PROVE Alerts(r) \subseteq Alerts(s)
<1> SUFFICES ASSUME NEW a \in Alerts(r) PROVE a \in Alerts(s)
  OBVIOUS
<1>1. a \in Eng \X (1..MaxLog) /\ a[1] \in Eng /\ a[2] \in Nat /\ a[2] < r[a[1]]
  BY FeedAssumption DEF Alerts
<1>2. a[2] < s[a[1]]
  BY <1>1 DEF NoneBehind
<1> QED
  BY <1>1, <1>2 DEF Alerts

LEMMA AttackKnown == ASSUME FeedInv, KnownInv, NEW e \in Eng, Attack(e) PROVE KnownInv'
<1>1. /\ log[e] < MaxLog /\ log' = [log EXCEPT ![e] = log[e] + 1] /\ UNCHANGED <<prev, pulsed>>
      /\ known' = IF log[e] > 0 /\ page.rows[e] > 0 THEN known \cup {<<e, log[e]>>} ELSE known
  BY DEF Attack, paneVars
<1>2. log \in [Eng -> Nat] /\ page.rows \in [Eng -> Nat] /\ prev[e] <= log[e] /\ (page.rows[e] > 0 => prev[e] > 0)
  BY DEF FeedInv, FeedTypes, RowsRemembered, NoneBehind
<1>3. Alerts(log) \subseteq Alerts(log')
  BY AlertsGrow, AttackFeed DEF FeedInv, FeedTypes
<1>4. ASSUME log[e] > 0 PROVE <<e, log[e]>> \in Alerts(log')
  <2>1. <<e, log[e]>> \in Eng \X (1..MaxLog)
    BY <1>1, <1>2, <1>4, FeedAssumption
  <2> QED
    BY <1>1, <1>2, <2>1 DEF Alerts
<1>5. \A a \in known' : a \in known \/ (a = <<e, log[e]>> /\ log[e] > 0 /\ page.rows[e] > 0)
  BY <1>1
<1>6. \A a \in known' : a \in Alerts(log')
  BY <1>3, <1>4, <1>5 DEF KnownInv
<1>7. ASSUME NEW a \in known' PROVE a \in pulsed' \/ (prev[a[1]] > 0 /\ prev[a[1]] <= a[2])
  <2>1. CASE a \in known
    BY <1>1, <2>1 DEF KnownInv
  <2>2. CASE a = <<e, log[e]>> /\ page.rows[e] > 0
    <3>1. a[1] = e /\ a[2] = log[e]
      BY <2>2
    <3> QED
      BY <1>2, <2>2, <3>1
  <2> QED
    BY <1>5, <1>7, <2>1, <2>2
<1>8. prev' = prev
  BY <1>1
<1> QED
  BY <1>6, <1>7, <1>8 DEF KnownInv

LEMMA KnownNext == FeedInv /\ KnownInv /\ [FeedNext]_feedVars => KnownInv'
<1> SUFFICES ASSUME FeedInv, KnownInv, [FeedNext]_feedVars PROVE KnownInv'
  OBVIOUS
<1>1. ASSUME UNCHANGED <<log, known, pulsed, prev>> PROVE KnownInv'
  BY <1>1 DEF KnownInv, Alerts
<1>2. FeedTypes
  BY DEF FeedInv
<1>3. CASE Message
  <2>1. PICK html : html = conn.mail[1].html
    OBVIOUS
  <2>2. UNCHANGED <<log, known>> /\ 1 \in DOMAIN conn.mail /\ (Swap(html) \/ UNCHANGED <<prev, pulsed>>)
    BY <1>2, <1>3, <2>1, MessageIs DEF paneVars
  <2>3. IsContent(html)
    BY <2>1, <2>2 DEF FeedInv, MailInv
  <2> QED
    BY <1>1, <1>2, <2>2, <2>3, SwapAnnounces
<1>4. ASSUME NEW read, NEW first, Reload(read, first) PROVE KnownInv'
  BY <1>4 DEF Reload, KnownInv
<1>5. ASSUME NEW read, NEW first, Push(read, first) PROVE KnownInv'
  BY <1>1, <1>2, <1>5, PushIs
<1>6. CASE Dropped \/ Focus \/ (\E e \in Eng : SelectRow(e)) \/ UNCHANGED feedVars
  <2>1. UNCHANGED <<log, known, pulsed, prev>>
    BY <1>6 DEF Dropped, Focus, SelectRow, feedVars, sessionVars, paneVars
  <2> QED
    BY <1>1, <2>1
<1>7. ASSUME NEW f \in fetches, NEW ok \in BOOLEAN, DetailArrives(f, ok) PROVE KnownInv'
  BY <1>1, <1>2, <1>7, DetailIs
<1> QED
  BY <1>3, <1>4, <1>5, <1>6, <1>7, AttackKnown DEF FeedNext

\* After a new content, or a reload, the detail is the selected row's or asked
\* for: when the tag is the row's, so is the detail of that content.
LEMMA ReselectKeeps ==
    ASSUME NEW html, NEW seq \in Nat, 1 <= seq, Reselect(html, seq), UNCHANGED selected, page' = html,
           \A f \in fetches : f.seq \in Nat /\ 1 <= f.seq,
           selected # NoEng => selected \in Eng /\ (html.tag = selected => HasDetail(html, selected)),
           \A f \in fetches : f.seq = seq - 1 => f.eng = selected
    PROVE  FetchInv'
<1>1. CASE Load(selected, seq)
  <2> DEFINE n == [seq |-> seq, eng |-> selected]
  <2>1. fetchSeq' = seq /\ fetches' = {f \in fetches : f.seq < seq} \cup {n} /\ n.seq = seq /\ n.eng = selected
    BY <1>1 DEF Load
  <2> HIDE DEF n
  <2>2. \A f \in fetches' : f.seq \in Nat /\ 1 <= f.seq /\ (f.seq = seq => f.eng = selected)
    BY <2>1
  <2>3. \E f \in fetches' : f.seq = seq
    BY <2>1
  <2> QED
    BY <2>1, <2>2, <2>3 DEF FetchInv
<1>2. CASE ~(selected # NoEng /\ html.rows[selected] > 0 /\ html.tag # selected)
  <2>1. fetchSeq' = seq - 1 /\ fetches' = {f \in fetches : f.seq < seq}
    BY <1>2 DEF Reselect
  <2>2. selected # NoEng => HasDetail(html, selected)
    BY <1>2 DEF HasDetail
  <2>3. fetchSeq' \in Nat
    BY <2>1
  <2> QED
    BY <2>1, <2>2, <2>3 DEF FetchInv, HasDetail
<1> QED
  BY <1>1, <1>2 DEF Reselect

\* The hint of the stream is the selected row, so each content has its detail.
LEMMA MailKeepsDetail ==
    ASSUME FeedInv, DetailInv, [FeedNext]_feedVars PROVE MailHasDetail'
<1>1. FeedTypes
  BY DEF FeedInv
<1>2. ASSUME UNCHANGED <<conn, selected>> PROVE MailHasDetail'
  BY <1>2 DEF DetailInv, MailHasDetail
<1>3. ASSUME NEW read, NEW first, Push(read, first) PROVE MailHasDetail'
  <2>1. PICK html : html = Html(conn.hint, read, first)
    OBVIOUS
  <2>2. selected' = selected /\ conn'.hint = conn.hint
    BY <1>1, <1>3, PushIs DEF pickVars
  <2>3. \A i \in DOMAIN conn'.mail : (i \in DOMAIN conn.mail /\ conn'.mail[i] = conn.mail[i]) \/ conn'.mail[i].html = html
    BY <1>1, <1>3, <2>1, PushIs
  <2>4. html.rows = read /\ html.detail = IF conn.hint # NoEng /\ read[conn.hint] > 0 THEN conn.hint ELSE first
    BY <2>1, HtmlIs
  <2>5. selected # NoEng => HasDetail(html, selected) /\ conn.hint = selected
    BY <2>4 DEF HasDetail, DetailInv, MailHasDetail
  <2> QED
    BY <2>2, <2>3, <2>5 DEF DetailInv, MailHasDetail
<1>4. CASE Message
  <2>1. /\ conn'.hint = conn.hint /\ 1 \in DOMAIN conn.mail
        /\ \A i \in DOMAIN conn'.mail : i + 1 \in DOMAIN conn.mail /\ conn'.mail[i] = conn.mail[i + 1]
        /\ selected' = selected
    BY <1>1, <1>4, MessageIs DEF pickVars
  <2> QED
    BY <2>1 DEF DetailInv, MailHasDetail
<1>5. ASSUME NEW hint, conn' = Fresh(hint), selected' # NoEng => hint = selected' PROVE MailHasDetail'
  BY <1>5, FreshIs DEF MailHasDetail
<1>6. CASE Dropped
  <2>1. conn' = Fresh(conn.hint) /\ selected' = selected
    BY <1>6 DEF Dropped, pickVars
  <2> QED
    BY <1>5, <2>1 DEF DetailInv, MailHasDetail
<1>7. CASE (\E e \in Eng : SelectRow(e)) \/ \E read \in [Eng -> 0..MaxLog], first \in Eng \cup {NoEng} : Reload(read, first)
  <2>1. conn' = Fresh(selected')
    BY <1>7 DEF SelectRow, Reload
  <2> QED
    BY <1>5, <2>1
<1>8. CASE Focus \/ UNCHANGED feedVars \/ (\E e \in Eng : Attack(e)) \/ \E f \in fetches, ok \in BOOLEAN : DetailArrives(f, ok)
  BY <1>2, <1>8 DEF Focus, feedVars, Attack, DetailArrives, pickVars
<1> QED
  BY <1>3, <1>4, <1>6, <1>7, <1>8 DEF FeedNext

LEMMA DetailNext == FeedInv /\ DetailInv /\ [FeedNext]_feedVars => DetailInv'
<1> SUFFICES ASSUME FeedInv, DetailInv, [FeedNext]_feedVars PROVE FetchInv'
  BY MailKeepsDetail DEF DetailInv
<1>1. ASSUME UNCHANGED <<page, pickVars>> PROVE FetchInv'
  BY <1>1 DEF DetailInv, FetchInv, pickVars, HasDetail
<1>2. FeedTypes /\ FetchInv
  BY DEF FeedInv, DetailInv
<1>3. CASE Message
  <2>1. PICK html, seq : html = conn.mail[1].html /\ seq = fetchSeq + 1
    OBVIOUS
  <2>2. 1 \in DOMAIN conn.mail /\ ((Swap(html) /\ UNCHANGED selected) \/ UNCHANGED <<page, pickVars>>)
    BY <1>2, <1>3, <2>1, MessageIs DEF paneVars
  <2>3. selected # NoEng => selected \in Eng /\ HasDetail(html, selected)
    BY <2>1, <2>2 DEF DetailInv, FetchInv, MailHasDetail
  <2>4. CASE Swap(html) /\ UNCHANGED selected
    <3>1. page' = html /\ Reselect(html, seq) /\ seq \in Nat /\ 1 <= seq /\ seq - 1 = fetchSeq
      BY <1>2, <2>1, <2>4 DEF Swap, FetchInv
    <3> QED
      BY <1>2, <2>3, <2>4, <3>1, ReselectKeeps DEF FetchInv
  <2> QED
    BY <1>1, <2>2, <2>4
<1>4. ASSUME NEW read, NEW first, Reload(read, first) PROVE FetchInv'
  <2>1. PICK html : html = Html(NoEng, read, first)
    OBVIOUS
  <2>2. page' = html /\ Reselect(html, 1) /\ UNCHANGED selected
    BY <1>4, <2>1 DEF Reload
  <2>3. html.tag = html.detail
    BY <2>1, HtmlIs
  <2>4. selected # NoEng => selected \in Eng /\ (html.tag = selected => HasDetail(html, selected))
    BY <1>2, <2>3 DEF FetchInv, HasDetail
  <2>5. \A f \in fetches : f.seq \in Nat /\ 1 <= f.seq /\ (f.seq = 1 - 1 => f.eng = selected)
    BY <1>2 DEF FetchInv
  <2> QED
    BY <2>2, <2>4, <2>5, ReselectKeeps
<1>5. ASSUME NEW e \in Eng, SelectRow(e) PROVE FetchInv'
  <2> DEFINE n == [seq |-> fetchSeq + 1, eng |-> e]
  <2>1. /\ selected' = e /\ fetchSeq' = fetchSeq + 1
        /\ fetches' = {f \in fetches : f.seq < fetchSeq + 1} \cup {n}
    BY <1>5 DEF SelectRow, Load
  <2>2. n.seq = fetchSeq + 1 /\ n.eng = e
    OBVIOUS
  <2> HIDE DEF n
  <2> QED
    BY <1>2, <2>1, <2>2 DEF FetchInv
<1>6. ASSUME NEW f \in fetches, NEW ok \in BOOLEAN, DetailArrives(f, ok) PROVE FetchInv'
  <2>1. /\ fetches' = fetches \ {f} /\ UNCHANGED <<selected, fetchSeq>>
        /\ failed' = (failed \/ (~ok /\ f.seq = fetchSeq /\ page.detail # f.eng))
    BY <1>6 DEF DetailArrives
  <2>2. page'.rows = page.rows /\ page'.detail = IF ok /\ f.seq = fetchSeq THEN f.eng ELSE page.detail
    BY <1>2, <1>6, DetailIs
  <2>3. CASE f.seq = fetchSeq
    BY <1>2, <2>1, <2>2, <2>3 DEF FetchInv, HasDetail
  <2>4. CASE f.seq # fetchSeq
    BY <1>2, <2>1, <2>2, <2>4 DEF FetchInv, HasDetail
  <2> QED
    BY <2>3, <2>4
<1>7. ASSUME NEW read, NEW first, Push(read, first) PROVE FetchInv'
  BY <1>1, <1>2, <1>7, PushIs
<1>8. CASE (\E e \in Eng : Attack(e)) \/ Dropped \/ Focus \/ UNCHANGED feedVars
  <2>1. UNCHANGED <<page, pickVars>>
    BY <1>8 DEF Attack, Dropped, Focus, feedVars, paneVars
  <2> QED
    BY <1>1, <2>1
<1> QED
  BY <1>3, <1>4, <1>5, <1>6, <1>7, <1>8 DEF FeedNext

\* No alert of a row on the page goes by unannounced and the detail is of the
\* row clicked last, for any engagements, any mail in flight, any logs found
\* half written and any number of reconnections, reloads and clicks
\* (onmessage, applyPulses, loadDetail, load_engagements).
THEOREM FeedIsAlwaysFaithful == FeedSpec => []FeedIsFaithful
<1>1. FeedInit => FeedInv /\ KnownInv /\ DetailInv
  <2>1. FeedInit => KnownInv /\ DetailInv
    BY DEF FeedInit, KnownInv, DetailInv, FetchInv, MailHasDetail
  <2> QED
    BY <2>1, FeedInitInv
<1>2. FeedInv /\ KnownInv /\ DetailInv /\ [FeedNext]_feedVars => FeedInv' /\ KnownInv' /\ DetailInv'
  BY FeedNextInv, KnownNext, DetailNext
<1>3. FeedInv /\ KnownInv /\ DetailInv => FeedIsFaithful
  <2> SUFFICES ASSUME FeedInv, KnownInv, DetailInv PROVE FeedIsFaithful
    OBVIOUS
  <2>1. KnownRowsAnnounce
    <3> SUFFICES ASSUME page.rows = log, NEW a \in known PROVE a \in pulsed
      BY DEF KnownRowsAnnounce, Settled
    <3>1. a \in Alerts(log) /\ (a \in pulsed \/ prev[a[1]] <= a[2])
      BY DEF KnownInv
    <3>2. a[1] \in Eng /\ a[2] \in Nat /\ a[2] < log[a[1]] /\ log[a[1]] \in Nat
      BY <3>1, FeedAssumption DEF Alerts, FeedInv, FeedTypes
    <3>3. prev[a[1]] = log[a[1]]
      BY <3>2 DEF FeedInv, RowsRemembered
    <3> QED
      BY <3>1, <3>2, <3>3
  <2>2. DetailFollowsSelection
    BY DEF DetailInv, FetchInv, DetailFollowsSelection, HasDetail
  <2> QED
    BY <2>1, <2>2 DEF FeedIsFaithful
<1> QED
  BY <1>1, <1>2, <1>3, PTL DEF FeedSpec

-----------------------------------------------------------------------------
(* The toasts                                                              *)
(*                                                                         *)
(* The argument: what has been toasted is in the copy of the keys that     *)
(* survives a reload, and a connection that has primed itself remembers    *)
(* everything that was on disk when the page was loaded, but for what it   *)
(* could not read then.                                                    *)

KeysKept ==
    /\ DOMAIN toasted = Eng \X (1..MaxLog) /\ stored \subseteq keysSeen
    /\ \A a \in DOMAIN toasted : toasted[a] \in Nat /\ toasted[a] <= 1 /\ (toasted[a] # 0 => a \in stored)

MailIsNews ==
    /\ conn.primed => old \ skipped \subseteq conn.seen
    /\ ~conn.primed => DOMAIN conn.mail = {}
    /\ \A i \in DOMAIN conn.mail :
          conn.mail[i].news \subseteq conn.mail[i].all /\ conn.mail[i].news \cap (old \ skipped) = {}

ToastInv == KeysKept /\ MailIsNews
NoOldToast == \A a \in DOMAIN toasted : toasted'[a] <= IF a \in old \ skipped THEN toasted[a] ELSE 1

LEMMA KeysUntouched ==
    ASSUME KeysKept, UNCHANGED <<stored, toasted>>, stored \subseteq keysSeen' PROVE KeysKept' /\ NoOldToast
BY DEF KeysKept, NoOldToast

LEMMA MailUntouched == ASSUME MailIsNews, UNCHANGED <<old, skipped, conn>> PROVE MailIsNews'
BY DEF MailIsNews

LEMMA FreshNews == ASSUME NEW hint, conn' = Fresh(hint) PROVE MailIsNews'
<1>1. conn'.primed = FALSE /\ DOMAIN conn'.mail = {}
  BY FreshIs
<1>2. ~conn'.primed
  BY <1>1, Zenon
<1> QED
  BY <1>1, <1>2 DEF MailIsNews

\* Reading a payload toasts nothing that is old and nothing twice.
LEMMA MessageToasts == ASSUME FeedInv, ToastInv, Message PROVE ToastInv' /\ NoOldToast
<1>1. /\ 1 \in DOMAIN conn.mail /\ Head(conn.mail) = conn.mail[1]
      /\ \A i \in DOMAIN conn'.mail : i + 1 \in DOMAIN conn.mail /\ conn'.mail[i] = conn.mail[i + 1]
      /\ conn'.primed = conn.primed /\ conn'.seen = conn.seen /\ UNCHANGED <<old, skipped>>
  BY MessageIs DEF FeedInv
<1>2. PICK m : m = conn.mail[1]
  OBVIOUS
<1>3. Toast(m)
  BY <1>1, <1>2 DEF Message
<1>4. m.news \subseteq m.all /\ m.news \cap (old \ skipped) = {}
  BY <1>1, <1>2 DEF ToastInv, MailIsNews
<1>5. PICK will : will = m.news \ keysSeen
  OBVIOUS
<1>6. /\ keysSeen' = keysSeen \cup m.all
      /\ toasted' = [a \in DOMAIN toasted |-> IF a \in will THEN toasted[a] + 1 ELSE toasted[a]]
      /\ stored' = keysSeen' \/ (stored' = stored /\ will = {})
  BY <1>3, <1>5 DEF Toast
<1>7. KeysKept
  BY DEF ToastInv
<1>8. stored \subseteq stored' /\ stored' \subseteq keysSeen' /\ will \subseteq stored' /\ DOMAIN toasted' = DOMAIN toasted
  BY <1>4, <1>5, <1>6, <1>7 DEF KeysKept
<1>9. ASSUME NEW a \in DOMAIN toasted
      PROVE  /\ toasted'[a] \in Nat /\ toasted'[a] <= 1 /\ (toasted'[a] # 0 => a \in stored')
             /\ toasted'[a] <= IF a \in old \ skipped THEN toasted[a] ELSE 1
  <2>1. toasted[a] \in Nat /\ toasted[a] <= 1 /\ (toasted[a] # 0 => a \in stored) /\ stored \subseteq keysSeen
    BY <1>7 DEF KeysKept
  <2>2. CASE a \in will
    <3>1. a \notin stored /\ a \notin old \ skipped
      BY <1>4, <1>5, <2>1, <2>2
    <3>2. toasted[a] = 0 /\ toasted'[a] = 1
      BY <1>6, <2>1, <2>2, <3>1
    <3> QED
      BY <1>8, <2>2, <3>1, <3>2
  <2>3. CASE a \notin will
    BY <1>6, <1>8, <2>1, <2>3
  <2> QED
    BY <2>2, <2>3
<1>10. KeysKept' /\ NoOldToast
  BY <1>7, <1>8, <1>9 DEF KeysKept, NoOldToast
<1>11. conn.primed
  BY <1>1, Zenon DEF ToastInv, MailIsNews
<1>12. MailIsNews'
  <2>1. conn'.primed
    BY <1>1, <1>11, Zenon
  <2>2. \A i \in DOMAIN conn'.mail :
            conn'.mail[i].news \subseteq conn'.mail[i].all /\ conn'.mail[i].news \cap (old' \ skipped') = {}
    BY <1>1 DEF ToastInv, MailIsNews
  <2>3. old' \ skipped' \subseteq conn'.seen
    BY <1>1, <1>11 DEF ToastInv, MailIsNews
  <2> QED
    BY <2>1, <2>2, <2>3 DEF MailIsNews
<1> QED
  BY <1>10, <1>12 DEF ToastInv

LEMMA PushToasts == ASSUME FeedInv, MailIsNews, NEW read, NEW first, Push(read, first) PROVE MailIsNews'
<1>1. FeedTypes
  BY DEF FeedInv
<1>2. /\ old' = old /\ conn'.primed = TRUE /\ conn'.seen = conn.seen \cup Alerts(read)
      /\ \A i \in DOMAIN conn'.mail : \/ i \in DOMAIN conn.mail /\ conn'.mail[i] = conn.mail[i]
                                      \/ /\ conn'.mail[i].news = News(read)
                                         /\ conn'.mail[i].all = Alerts(read)
  BY <1>1, PushIs
<1>3. conn'.primed
  BY <1>2, Zenon
<1>4. skipped' = IF conn.primed THEN skipped ELSE old \ Alerts(read)
  BY DEF Push
<1>5. News(read) \subseteq Alerts(read)
  BY DEF News
<1>6. CASE conn.primed
  <2>1. skipped' = skipped
    BY <1>4, <1>6
  <2>2. old \ skipped \subseteq conn.seen /\ News(read) = Alerts(read) \ conn.seen
    BY <1>6 DEF MailIsNews, News
  <2>3. \A i \in DOMAIN conn'.mail :
            conn'.mail[i].news \subseteq conn'.mail[i].all /\ conn'.mail[i].news \cap (old \ skipped) = {}
    BY <1>2, <1>5, <2>2 DEF MailIsNews
  <2> QED
    BY <1>2, <1>3, <2>1, <2>2, <2>3 DEF MailIsNews
<1>7. CASE ~conn.primed
  <2>1. skipped' = old \ Alerts(read) /\ News(read) = {} /\ DOMAIN conn.mail = {}
    BY <1>4, <1>7 DEF News, MailIsNews
  <2>2. \A i \in DOMAIN conn'.mail :
            conn'.mail[i].news \subseteq conn'.mail[i].all /\ conn'.mail[i].news \cap (old' \ skipped') = {}
    BY <1>2, <1>5, <2>1
  <2> QED
    BY <1>2, <1>3, <2>1, <2>2 DEF MailIsNews
<1> QED
  BY <1>6, <1>7

LEMMA ToastNext == FeedInv /\ ToastInv /\ [FeedNext]_feedVars => ToastInv' /\ NoOldToast
<1> SUFFICES ASSUME FeedInv, ToastInv, [FeedNext]_feedVars PROVE ToastInv' /\ NoOldToast
  OBVIOUS
<1>1. KeysKept /\ MailIsNews /\ FeedTypes
  BY DEF ToastInv, FeedInv
<1>2. ASSUME UNCHANGED toastVars PROVE KeysKept' /\ NoOldToast
  BY <1>1, <1>2, KeysUntouched DEF toastVars, KeysKept
<1>3. ASSUME NEW read, NEW first, Push(read, first) PROVE ToastInv' /\ NoOldToast
  BY <1>1, <1>2, <1>3, PushToasts, PushIs DEF ToastInv
<1>4. CASE Message
  BY <1>4, MessageToasts
<1>5. CASE Dropped \/ \E e \in Eng : SelectRow(e)
  <2>1. PICK hint : conn' = Fresh(hint) /\ UNCHANGED toastVars
    BY <1>5 DEF Dropped, SelectRow
  <2> QED
    BY <1>2, <2>1, FreshNews DEF ToastInv
<1>6. ASSUME NEW read, NEW first, Reload(read, first) PROVE ToastInv' /\ NoOldToast
  <2>1. conn' = Fresh(selected) /\ UNCHANGED <<stored, toasted>> /\ keysSeen' = stored
    BY <1>6 DEF Reload
  <2>2. KeysKept' /\ NoOldToast
    BY <1>1, <2>1, KeysUntouched
  <2> QED
    BY <2>1, <2>2, FreshNews DEF ToastInv
<1>7. CASE Focus \/ UNCHANGED feedVars \/ (\E e \in Eng : Attack(e)) \/ \E f \in fetches, ok \in BOOLEAN : DetailArrives(f, ok)
  <2>1. UNCHANGED <<old, skipped, conn>> /\ UNCHANGED toastVars
    BY <1>7 DEF Focus, feedVars, sessionVars, DetailArrives, Attack
  <2> QED
    BY <1>1, <1>2, <2>1, MailUntouched DEF ToastInv
<1> QED
  BY <1>3, <1>4, <1>5, <1>6, <1>7 DEF FeedNext

\* Neither what was on disk when the page was loaded nor what was toasted
\* before is toasted again, for any alerts and any number of reconnections,
\* reloads and reselections, unless its log was half written when the
\* connection primed itself (_stream, onmessage, sessionStorage).
THEOREM ToastsAreAlwaysNews == FeedSpec => ToastsAreNews
<1>1. FeedInit => FeedInv /\ ToastInv
  <2> SUFFICES ASSUME FeedInit PROVE ToastInv
    BY FeedInitInv
  <2>1. KeysKept
    BY FeedAssumption DEF FeedInit, KeysKept
  <2>2. conn.primed = FALSE /\ conn.mail = <<>> /\ DOMAIN <<>> = {}
    BY DEF FeedInit, Fresh
  <2>3. ~conn.primed
    BY <2>2, Zenon
  <2>4. MailIsNews
    BY <2>2, <2>3 DEF MailIsNews
  <2> QED
    BY <2>1, <2>4 DEF ToastInv
<1>2. FeedInv /\ ToastInv /\ [FeedNext]_feedVars => FeedInv' /\ ToastInv' /\ NoOldToast
  BY FeedNextInv, ToastNext
<1>3. ASSUME NoOldToast
      PROVE  [\A a \in DOMAIN toasted : toasted'[a] <= IF a \in old \ skipped THEN toasted[a] ELSE 1]_feedVars
  BY <1>3 DEF NoOldToast
<1> QED
  BY <1>1, <1>2, <1>3, PTL DEF FeedSpec, ToastsAreNews, NoOldToast

-----------------------------------------------------------------------------
(* The list                                                                *)
(*                                                                         *)
(* Ascending places each number by how many are smaller.  The count is     *)
(* strictly monotone, so it is one to one into as many places as there are *)
(* numbers, and by the pigeonhole every place is taken.                    *)

ListSpec == ListInit /\ [][ListNext]_consoleListVars

\* the numbers of a set below n
Fewer(ns, n) == {m \in ns : m < n}

LEMMA FewerCount ==
    ASSUME NEW ns \in SUBSET Nat, IsFiniteSet(ns), NEW n \in ns
    PROVE  Cardinality(Fewer(ns, n)) \in 0..(Cardinality(ns) - 1) /\ IsFiniteSet(Fewer(ns, n))
<1>1. Fewer(ns, n) \in SUBSET ns /\ n \notin Fewer(ns, n)
  BY DEF Fewer
<1>2. /\ IsFiniteSet(Fewer(ns, n)) /\ Cardinality(Fewer(ns, n)) <= Cardinality(ns)
      /\ Cardinality(ns) # Cardinality(Fewer(ns, n))
  BY <1>1, FS_Subset
<1>3. Cardinality(ns) \in Nat /\ Cardinality(Fewer(ns, n)) \in Nat
  BY <1>2, FS_CardinalityType
<1> QED
  BY <1>2, <1>3

LEMMA FewerGrows ==
    ASSUME NEW ns \in SUBSET Nat, IsFiniteSet(ns), NEW n \in ns, NEW m \in ns, m < n
    PROVE  Cardinality(Fewer(ns, m)) < Cardinality(Fewer(ns, n))
<1>1. Fewer(ns, m) \in SUBSET Fewer(ns, n) /\ m \in Fewer(ns, n) /\ m \notin Fewer(ns, m)
  <2>1. ~(m < m) /\ \A k \in ns : k < m => k < n
    <3>1. m \in Nat /\ n \in Nat /\ \A k \in ns : k \in Nat
      OBVIOUS
    <3> QED
      BY <3>1
  <2> QED
    BY <2>1 DEF Fewer
<1>2. /\ IsFiniteSet(Fewer(ns, n))
      /\ Cardinality(Fewer(ns, m)) \in Nat /\ Cardinality(Fewer(ns, n)) \in Nat
  BY FewerCount
<1>3. /\ Cardinality(Fewer(ns, m)) <= Cardinality(Fewer(ns, n))
      /\ Cardinality(Fewer(ns, m)) # Cardinality(Fewer(ns, n))
  BY <1>1, <1>2, FS_Subset
<1> QED
  BY <1>2, <1>3

\* Ascending puts the numbers of a finite set in order, each once.
LEMMA AscendingInOrder ==
    ASSUME NEW ns \in SUBSET Nat, IsFiniteSet(ns)
    PROVE  /\ Ascending(ns) \in Seq(ns) /\ Len(Ascending(ns)) = Cardinality(ns)
           /\ Range(Ascending(ns)) = ns
           /\ \A i, j \in DOMAIN Ascending(ns) : i < j => Ascending(ns)[i] < Ascending(ns)[j]
<1> DEFINE c == Cardinality(ns)
           at == [n \in ns |-> Cardinality(Fewer(ns, n))]
           s == Ascending(ns)
<1>1. c \in Nat
  BY FS_CardinalityType
<1>2. IsFiniteSet(0..(c - 1)) /\ Cardinality(0..(c - 1)) = c
  <2>1. c - 1 \in Int /\ (0 > c - 1 => c = 0) /\ (c - 1) - 0 + 1 = c
    BY <1>1
  <2> QED
    BY <2>1, FS_Interval
<1>3. at \in [ns -> 0..(c - 1)]
  BY FewerCount
<1>4. \A m, n \in ns : m < n => at[m] < at[n]
  BY FewerGrows
<1>5. \A m, n \in ns : at[m] = at[n] => m = n
  <2>1. SUFFICES ASSUME NEW m \in ns, NEW n \in ns, at[m] = at[n] PROVE m = n
    OBVIOUS
  <2>2. m \in Nat /\ n \in Nat /\ at[m] \in Nat /\ at[n] \in Nat
    BY <1>1, <1>3
  <2>3. ~(m < n) /\ ~(n < m)
    BY <1>4, <2>1, <2>2
  <2> QED
    BY <2>2, <2>3
<1>6. at \in Injection(ns, 0..(c - 1))
  BY <1>3, <1>5 DEF Injection, IsInjective
<1>7. at \in Surjection(ns, 0..(c - 1))
  BY <1>2, <1>6, FS_Injection
<1>8. ASSUME NEW k \in 1..c PROVE \E n \in ns : at[n] = k - 1
  <2>1. k - 1 \in 0..(c - 1)
    BY <1>1
  <2> HIDE DEF at, c
  <2> QED
    BY <1>7, <2>1 DEF Surjection
<1>9. ASSUME NEW k \in 1..c PROVE s[k] \in ns /\ at[s[k]] = k - 1
  <2>1. s[k] = CHOOSE n \in ns : Cardinality({m \in ns : m < n}) = k - 1
    BY DEF Ascending
  <2>2. \A n \in ns : at[n] = Cardinality({m \in ns : m < n})
    BY DEF Fewer
  <2> HIDE DEF s, at
  <2>3. \E n \in ns : Cardinality({m \in ns : m < n}) = k - 1
    BY <1>8, <2>2
  <2> QED
    BY <2>1, <2>2, <2>3
<1>10. DOMAIN s = 1..c
  BY DEF Ascending
<1> HIDE DEF s, at, c
<1>11. s \in Seq(ns) /\ Len(s) = c
  <2>1. s = [k \in 1..c |-> CHOOSE n \in ns : Cardinality({m \in ns : m < n}) = k - 1]
    BY Zenon DEF s, c, Ascending
  <2>2. s \in [1..c -> ns]
    <3> DEFINE nth(k) == CHOOSE n \in ns : Cardinality({m \in ns : m < n}) = k - 1
    <3>1. s = [k \in 1..c |-> nth(k)]
      BY <2>1, Zenon
    <3> HIDE DEF nth
    <3> QED
      BY <1>9, <3>1
  <2> QED
    BY <1>1, <2>2
<1>12. ASSUME NEW n \in ns PROVE \E k \in DOMAIN s : s[k] = n
  <2>1. at[n] + 1 \in 1..c
    BY <1>1, <1>3
  <2>2. s[at[n] + 1] = n
    <3>1. s[at[n] + 1] \in ns /\ at[s[at[n] + 1]] = (at[n] + 1) - 1
      BY <1>9, <2>1
    <3>2. at[n] \in Nat
      BY <1>1, <1>3
    <3>3. (at[n] + 1) - 1 = at[n]
      BY <3>2
    <3> QED
      BY <1>5, <3>1, <3>3
  <2> QED
    BY <1>10, <2>1, <2>2
<1>13. Range(s) = ns
  BY <1>9, <1>10, <1>12 DEF Range
<1>14. ASSUME NEW i \in DOMAIN s, NEW j \in DOMAIN s, i < j PROVE s[i] < s[j]
  <2>1. /\ s[i] \in ns /\ s[j] \in ns /\ at[s[i]] = i - 1 /\ at[s[j]] = j - 1
        /\ i \in Nat /\ j \in Nat
    BY <1>1, <1>9, <1>10
  <2>2. s[i] # s[j]
    BY <1>14, <2>1
  <2>3. s[i] \in Nat /\ s[j] \in Nat
    BY <2>1
  <2>4. ~(s[j] < s[i])
    <3>1. ~(at[s[j]] < at[s[i]])
      BY <1>14, <2>1
    <3> QED
      BY <1>4, <2>1, <3>1
  <2> QED
    BY <2>2, <2>3, <2>4
<1> QED
  BY <1>11, <1>13, <1>14 DEF s, c

LEMMA SortedInOrder ==
    ASSUME NEW ns \in SUBSET Nat, IsFiniteSet(ns), NEW up \in BOOLEAN
    PROVE  /\ Sorted(ns, up) \in Seq(ns) /\ Len(Sorted(ns, up)) = Cardinality(ns)
           /\ Range(Sorted(ns, up)) = ns
           /\ \A i, j \in DOMAIN Sorted(ns, up) : i < j =>
                IF up THEN Sorted(ns, up)[i] < Sorted(ns, up)[j]
                      ELSE Sorted(ns, up)[i] > Sorted(ns, up)[j]
<1>1. CASE up
  BY <1>1, AscendingInOrder DEF Sorted
<1>2. CASE ~up
  <2> DEFINE a == Ascending(ns)
             s == Sorted(ns, up)
  <2>1. /\ a \in Seq(ns) /\ Len(a) = Cardinality(ns) /\ Range(a) = ns
        /\ \A i, j \in DOMAIN a : i < j => a[i] < a[j]
    BY AscendingInOrder
  <2>2. s = [i \in 1..Len(a) |-> a[(Len(a) - i) + 1]]
    BY <1>2 DEF Sorted, Reverse
  <2> HIDE DEF a, s
  <2>3. Len(a) \in Nat /\ DOMAIN a = 1..Len(a)
    BY <2>1
  <2>4. \A i \in 1..Len(a) : (Len(a) - i) + 1 \in 1..Len(a) /\ (Len(a) - ((Len(a) - i) + 1)) + 1 = i
    BY <2>3
  <2>5. s \in Seq(ns) /\ Len(s) = Len(a) /\ DOMAIN s = 1..Len(a)
    <3>1. \A i \in 1..Len(a) : a[(Len(a) - i) + 1] \in ns
      BY <2>1, <2>3, <2>4
    <3>2. s \in [1..Len(a) -> ns]
      BY <2>2, <3>1
    <3> QED
      BY <2>3, <3>2
  <2>6. Range(s) = Range(a)
    <3>1. \A i \in DOMAIN s : s[i] \in Range(a)
      BY <2>2, <2>3, <2>4, <2>5 DEF Range
    <3>2. \A i \in DOMAIN a : a[i] \in Range(s)
      <4>1. SUFFICES ASSUME NEW i \in DOMAIN a PROVE \E j \in DOMAIN s : s[j] = a[i]
        BY DEF Range
      <4> QED
        BY <2>2, <2>3, <2>4, <2>5
    <3> QED
      BY <3>1, <3>2 DEF Range
  <2>7. ASSUME NEW i \in DOMAIN s, NEW j \in DOMAIN s, i < j PROVE s[i] > s[j]
    <3>1. (Len(a) - j) + 1 < (Len(a) - i) + 1
      BY <2>3, <2>5, <2>7
    <3>2. a[(Len(a) - j) + 1] < a[(Len(a) - i) + 1]
      BY <2>1, <2>3, <2>4, <2>5, <3>1
    <3>3. a[(Len(a) - j) + 1] \in Nat /\ a[(Len(a) - i) + 1] \in Nat
      <4>1. a[(Len(a) - j) + 1] \in ns /\ a[(Len(a) - i) + 1] \in ns
        BY <2>1, <2>3, <2>4, <2>5
      <4> QED
        BY <4>1
    <3> QED
      BY <2>2, <2>5, <3>2, <3>3
  <2> QED
    BY <1>2, <2>1, <2>5, <2>6, <2>7 DEF s
<1> QED
  BY <1>1, <1>2

LEMMA CeilGrows ==
    ASSUME NEW m \in Nat, NEW n \in Nat, m <= n
    PROVE  Ceil(m, PageSize) \in Nat /\ Ceil(n, PageSize) \in Nat /\ Ceil(m, PageSize) <= Ceil(n, PageSize)
<1> DEFINE x == m + PageSize - 1
           y == n + PageSize - 1
<1>1. x \in Nat /\ y \in Nat /\ x <= y /\ PageSize \in Nat /\ PageSize > 0
  BY ListAssumption
<1> HIDE DEF x, y
<1>2. x \div PageSize \in Nat /\ y \div PageSize \in Nat
  BY <1>1
<1>3. x \div PageSize <= y \div PageSize
  BY <1>1, <1>2
<1> QED
  BY <1>2, <1>3 DEF Ceil, x, y

\* What the filter rejects is hidden, the page line is of the page stored, and
\* all rows together fill at least that page.
ListInv ==
    /\ rows \in SUBSET Nat /\ IsFiniteSet(rows) /\ asc \in BOOLEAN
    /\ FilterHides(rows, filter) \subseteq hidden /\ hidden \subseteq rows
    /\ pageNo \in Nat \ {0} /\ pageNo <= AtLeast1(Ceil(Cardinality(rows), PageSize))
    /\ info.page = pageNo
    /\ order = Sorted(rows, asc)

\* what applyEngSortAndPage leaves of rows rs of which hid were hidden
PagedWell(p, rs, hid, up) ==
    /\ p.order = Sorted(rs, up) /\ hid \subseteq p.hidden /\ p.hidden \subseteq rs
    /\ p.page \in Nat \ {0} /\ p.page <= AtLeast1(Ceil(Cardinality(rs), PageSize))
    /\ p.info.page = p.page

\* Sort and page: what was hidden stays hidden, and the page is one that all
\* rows, and not just the visible ones, would fill.
LEMMA PagedOf ==
    ASSUME NEW rs \in SUBSET Nat, IsFiniteSet(rs), NEW hid \in SUBSET rs, NEW up \in BOOLEAN,
           NEW n \in Nat \ {0}
    PROVE  PagedWell(Paged(rs, hid, up, n), rs, hid, up)
<1> DEFINE visible == Sorted(rs \ hid, up)
           max == AtLeast1(Ceil(Len(visible), PageSize))
           q == IF n > max THEN max ELSE n
           on == {visible[i] : i \in {j \in DOMAIN visible :
                                        (q - 1) * PageSize < j /\ j <= q * PageSize}}
           p == Paged(rs, hid, up, n)
<1>1. rs \ hid \in SUBSET rs /\ rs \ hid \in SUBSET Nat
  OBVIOUS
<1>2. IsFiniteSet(rs \ hid) /\ Cardinality(rs \ hid) <= Cardinality(rs)
  BY <1>1, FS_Subset
<1>3. Len(visible) = Cardinality(rs \ hid) /\ Len(visible) \in Nat /\ Cardinality(rs) \in Nat
  BY <1>1, <1>2, SortedInOrder, FS_CardinalityType
<1>4. p = [order |-> Sorted(rs, up), hidden |-> hid \cup (rs \ on), page |-> q,
           info |-> [total |-> Len(visible), page |-> q, max |-> max]]
  BY DEF Paged
<1>5. p.order = Sorted(rs, up) /\ p.hidden = hid \cup (rs \ on) /\ p.page = q /\ p.info.page = q
  BY <1>4
<1> HIDE DEF visible, p, on
<1>6. /\ Ceil(Len(visible), PageSize) \in Nat /\ Ceil(Cardinality(rs), PageSize) \in Nat
      /\ Ceil(Len(visible), PageSize) <= Ceil(Cardinality(rs), PageSize)
  BY <1>2, <1>3, CeilGrows
<1>7. max \in Nat \ {0} /\ max <= AtLeast1(Ceil(Cardinality(rs), PageSize))
  BY <1>6 DEF AtLeast1
<1>8. AtLeast1(Ceil(Cardinality(rs), PageSize)) \in Nat
  BY <1>6 DEF AtLeast1
<1> HIDE DEF max
<1>9. q \in Nat \ {0} /\ q <= AtLeast1(Ceil(Cardinality(rs), PageSize))
  BY <1>7, <1>8
<1> HIDE DEF q
<1> QED
  BY <1>5, <1>9 DEF p, PagedWell

LEMMA SetListKeeps ==
    ASSUME NEW rs \in SUBSET Nat, IsFiniteSet(rs), NEW hid \in SUBSET rs, NEW up \in BOOLEAN,
           NEW n \in Nat \ {0}, SetList(rs, hid, up, n), rows' = rs, asc' = up,
           FilterHides(rs, filter') \subseteq hid
    PROVE  ListInv'
<1> DEFINE p == Paged(rs, hid, up, n)
<1>1. order' = p.order /\ hidden' = p.hidden /\ pageNo' = p.page /\ info' = p.info
  BY DEF SetList
<1>2. PagedWell(p, rs, hid, up)
  BY PagedOf
<1> HIDE DEF p
<1> QED
  BY <1>1, <1>2 DEF ListInv, PagedWell

LEMMA ListStarts == ASSUME ListInit PROVE ListInv
<1> DEFINE rs == 1..(PageSize + 1)
           p == Paged(rs, {}, FALSE, 1)
<1>1. rs \in SUBSET Nat /\ IsFiniteSet(rs)
  <2>1. PageSize + 1 \in Int
    BY ListAssumption
  <2> QED
    BY <2>1, FS_Interval
<1>2. /\ rows = rs /\ filter = 0 /\ asc = FALSE
      /\ order = p.order /\ hidden = p.hidden /\ pageNo = p.page /\ info = p.info
  BY DEF ListInit
<1>3. FilterHides(rs, 0) = {}
  BY <1>1, ListAssumption DEF FilterHides, Matching
<1>4. {} \in SUBSET rs /\ FALSE \in BOOLEAN /\ 1 \in Nat \ {0}
  OBVIOUS
<1> HIDE DEF rs
<1>5. PagedWell(p, rs, {}, FALSE)
  BY <1>1, <1>4, PagedOf
<1> HIDE DEF p
<1> QED
  BY <1>1, <1>2, <1>3, <1>5 DEF ListInv, PagedWell

LEMMA ListKept == ASSUME ListInv, UNCHANGED listVars PROVE ListInv'
BY DEF ListInv, listVars

LEMMA ListHolds == ASSUME ListInv, [ListNext]_consoleListVars PROVE ListInv'
<1>1. ASSUME NEW f \in 0..1, Filter(f) PROVE ListInv'
  <2>1. /\ hidden' = FilterHides(rows, f) /\ filter' = f
        /\ UNCHANGED <<rows, order, asc, pageNo, info>>
    BY <1>1 DEF Filter
  <2> QED
    BY <2>1 DEF ListInv, FilterHides
<1>2. CASE SortClick
  <2>1. /\ SetList(rows, hidden, ~asc, 1) /\ asc' = ~asc /\ rows' = rows /\ filter' = filter
    BY <1>2 DEF SortClick
  <2>2. hidden \in SUBSET rows /\ 1 \in Nat \ {0}
    BY DEF ListInv
  <2>4. (~asc) \in BOOLEAN
    BY Zenon DEF ListInv
  <2>3. rows \in SUBSET Nat /\ IsFiniteSet(rows) /\ FilterHides(rows, filter') \subseteq hidden
    BY <2>1 DEF ListInv
  <2> QED
    BY <2>1, <2>2, <2>3, <2>4, SetListKeeps
<1>3. ASSUME NEW step \in {"next", "prev"}, Turn(step) PROVE ListInv'
  <2> DEFINE to == IF step = "next" THEN pageNo + 1 ELSE pageNo - 1
  <2>1. /\ SetList(rows, hidden, asc, to) /\ asc' = asc /\ rows' = rows /\ filter' = filter
        /\ step = "next" \/ info.page > 1
    BY <1>3 DEF Turn
  <2>2. to \in Nat \ {0}
    BY <2>1 DEF ListInv
  <2>3. /\ rows \in SUBSET Nat /\ IsFiniteSet(rows) /\ FilterHides(rows, filter') \subseteq hidden
        /\ hidden \in SUBSET rows /\ asc \in BOOLEAN
    BY <2>1 DEF ListInv
  <2> QED
    BY <2>1, <2>2, <2>3, SetListKeeps
<1>4. ASSUME NEW rs \in SUBSET Nat, IsFiniteSet(rs), NEW g, Reapply(rs, g), rows' = rs, UNCHANGED <<filter, asc>>
      PROVE  ListInv'
  <2>1. SetList(rs, FilterHides(rs, filter), asc, pageNo)
    BY <1>4 DEF Reapply
  <2>2. /\ FilterHides(rs, filter) \in SUBSET rs /\ FilterHides(rs, filter') \subseteq FilterHides(rs, filter)
        /\ asc \in BOOLEAN /\ pageNo \in Nat \ {0}
    BY <1>4 DEF ListInv, FilterHides
  <2> QED
    BY <1>4, <2>1, <2>2, SetListKeeps
<1>5. CASE ClearChecks
  <2>1. Reapply(rows, grid) /\ UNCHANGED <<rows, filter, asc>> /\ rows \in SUBSET Nat /\ IsFiniteSet(rows)
    BY <1>5 DEF ClearChecks, ListInv
  <2> QED
    BY <1>4, <2>1
<1>6. ASSUME NEW n \in PageSize..MaxRow, SwapList(1..n) PROVE ListInv'
  <2>1. 1..n \in SUBSET Nat /\ IsFiniteSet(1..n)
    <3>1. n \in Int
      BY ListAssumption
    <3> QED
      BY <3>1, FS_Interval
  <2>2. Reapply(1..n, DefaultGrid) /\ rows' = 1..n /\ UNCHANGED <<filter, asc>>
    BY <1>6 DEF SwapList
  <2> QED
    BY <1>4, <2>1, <2>2
<1>7. ASSUME NEW r \in rows, Check(r) PROVE ListInv'
  BY <1>7 DEF Check, ListInv
<1>8. ASSUME NEW p \in Panel, NEW q \in Panel, MovePanel(p, q) \/ OtherTab(p, q) \/ Fold(p) PROVE ListInv'
  BY <1>8, ListKept DEF MovePanel, OtherTab, Fold
<1>9. ASSUME NEW a \in named, RestoreLayout(a) \/ DeleteLayout(a) PROVE ListInv'
  BY <1>9, ListKept DEF RestoreLayout, DeleteLayout
<1>10. CASE SaveLayout \/ ResetLayout \/ ToggleTv \/ Visibility
  BY <1>10, ListKept DEF SaveLayout, ResetLayout, ToggleTv, Visibility
<1>11. CASE UNCHANGED consoleListVars
  BY <1>11, ListKept DEF consoleListVars
<1> QED
  BY <1>1, <1>2, <1>3, <1>5, <1>6, <1>7, <1>8, <1>9, <1>10, <1>11 DEF ListNext

-----------------------------------------------------------------------------
(* The grid                                                                *)
(*                                                                         *)
(* insertBefore takes a panel out and puts it in before another, so both   *)
(* shift places.  A swap is followed place by place: the first move puts p *)
(* right behind q, the second puts q where p stood, whichever of the two   *)
(* came first and also when they are neighbours.                           *)

\* element by element, what taking out and putting in do to a row
LEMMA Removed ==
    ASSUME NEW S, NEW s \in Seq(S), NEW j \in 1..Len(s)
    PROVE  /\ RemoveAt(s, j) \in Seq(S) /\ Len(RemoveAt(s, j)) = Len(s) - 1
           /\ \A k \in 1..(Len(s) - 1) : RemoveAt(s, j)[k] = IF k < j THEN s[k] ELSE s[k + 1]
<1> DEFINE f == SubSeq(s, 1, j - 1)
           b == SubSeq(s, j + 1, Len(s))
<1>1. /\ Len(s) \in Nat /\ j \in Nat
      /\ f \in Seq(S) /\ Len(f) = j - 1 /\ \A k \in 1..(j - 1) : f[k] = s[k]
      /\ b \in Seq(S) /\ Len(b) = Len(s) - j /\ \A k \in 1..(Len(s) - j) : b[k] = s[k + j]
  BY SubSeqProperties
<1>2. RemoveAt(s, j) = f \o b
  BY DEF RemoveAt
<1> HIDE DEF f, b
<1>3. /\ f \o b \in Seq(S) /\ Len(f \o b) = Len(s) - 1
  <2>1. f \o b \in Seq(S) /\ Len(f \o b) = Len(f) + Len(b)
    BY <1>1, ConcatProperties
  <2> QED
    BY <1>1, <2>1
<1>4. ASSUME NEW k \in 1..(Len(s) - 1) PROVE (f \o b)[k] = IF k < j THEN s[k] ELSE s[k + 1]
  BY <1>1
<1> QED
  BY <1>2, <1>3, <1>4

OneMore(S, t, s, j, e) ==
    /\ t \in Seq(S) /\ Len(t) = Len(s) + 1
    /\ \A k \in 1..(Len(s) + 1) : t[k] = IF k < j THEN s[k] ELSE IF k = j THEN e ELSE s[k - 1]

LEMMA Inserted ==
    ASSUME NEW S, NEW s \in Seq(S), NEW j \in 1..(Len(s) + 1), NEW e \in S
    PROVE  OneMore(S, InsertAt(s, j, e), s, j, e)
<1> DEFINE f == SubSeq(s, 1, j - 1)
           b == SubSeq(s, j, Len(s))
<1>1. /\ Len(s) \in Nat /\ j \in Nat
      /\ f \in Seq(S) /\ Len(f) = j - 1 /\ \A k \in 1..(j - 1) : f[k] = s[k]
      /\ b \in Seq(S) /\ Len(b) = Len(s) - j + 1 /\ \A k \in 1..(Len(s) - j + 1) : b[k] = s[k + j - 1]
  BY SubSeqProperties
<1>2. InsertAt(s, j, e) = f \o <<e>> \o b
  BY DEF InsertAt
<1> HIDE DEF f, b
<1>3. /\ f \o <<e>> \in Seq(S) /\ Len(f \o <<e>>) = j
      /\ \A k \in 1..j : (f \o <<e>>)[k] = IF k < j THEN s[k] ELSE e
  BY <1>1
<1> DEFINE h == f \o <<e>>
<1> HIDE DEF h
<1>4. h \in Seq(S) /\ Len(h) = j /\ \A k \in 1..j : h[k] = IF k < j THEN s[k] ELSE e
  BY <1>3 DEF h
<1>5. /\ h \o b \in Seq(S) /\ Len(h \o b) = Len(s) + 1
  <2>1. h \o b \in Seq(S) /\ Len(h \o b) = Len(h) + Len(b)
    BY <1>1, <1>4, ConcatProperties
  <2> QED
    BY <1>1, <1>4, <2>1
<1>6. ASSUME NEW k \in 1..(Len(s) + 1)
      PROVE  (h \o b)[k] = IF k < j THEN s[k] ELSE IF k = j THEN e ELSE s[k - 1]
  <2>1. CASE k <= j
    <3>1. (h \o b)[k] = h[k]
      BY <1>1, <1>4, <2>1
    <3> QED
      BY <1>1, <1>4, <2>1, <3>1
  <2>2. CASE k > j
    <3>1. k - j \in 1..(Len(s) - j + 1) /\ (k - j) + j - 1 = k - 1
      BY <1>1, <2>2
    <3>2. (h \o b)[k] = b[k - j]
      BY <1>1, <1>4, <2>2
    <3> QED
      <4>1. b[k - j] = s[(k - j) + j - 1]
        BY <1>1, <3>1
      <4>2. ~(k < j) /\ k # j
        BY <1>1, <2>2
      <4> QED
        BY <3>1, <3>2, <4>1, <4>2
  <2>3. k <= j \/ k > j
    BY <1>1
  <2> QED
    BY <2>1, <2>2, <2>3
<1>7. OneMore(S, h \o b, s, j, e)
  BY <1>5, <1>6 DEF OneMore
<1> QED
  BY <1>2, <1>7 DEF h

\* no panel stands in two places
Distinct(g) ==
    /\ g \in [DOMAIN DefaultGrid -> Seq(Panel)]
    /\ \A i, k \in DOMAIN DefaultGrid : \A j \in DOMAIN g[i], l \in DOMAIN g[k] :
          g[i][j] = g[k][l] => i = k /\ j = l

Stands(g, i, j) == i \in DOMAIN DefaultGrid /\ j \in DOMAIN g[i]

\* the grid with a place taken out, and with a panel put in
TakenOut(g, i, j) == [g EXCEPT ![i] = RemoveAt(g[i], j)]
PutIn(h, i, j, p) == [h EXCEPT ![i] = InsertAt(h[i], j, p)]

Absent(g, p) == \A i \in DOMAIN DefaultGrid : \A j \in DOMAIN g[i] : g[i][j] # p

\* A panel is where it stands.
LEMMA Located ==
    ASSUME NEW g, Distinct(g), NEW i, NEW j, Stands(g, i, j)
    PROVE  RowOf(g, g[i][j]) = i /\ PlaceOf(g[i], g[i][j]) = j
<1> DEFINE p == g[i][j]
<1>1. /\ i \in DOMAIN g /\ j \in DOMAIN g[i]
      /\ \A k \in DOMAIN g : \A l \in DOMAIN g[k] : g[k][l] = p => k = i /\ l = j
  BY DEF Distinct, Stands
<1>2. \A k \in DOMAIN g : p \in Range(g[k]) <=> k = i
  BY <1>1 DEF Range
<1>3. \A l \in DOMAIN g[i] : g[i][l] = p <=> l = j
  BY <1>1
<1> HIDE DEF p
<1>4. RowOf(g, p) = i
  BY <1>1, <1>2 DEF RowOf
<1>5. PlaceOf(g[i], p) = j
  BY <1>1, <1>3 DEF PlaceOf
<1> QED
  BY <1>4, <1>5 DEF p

LEMMA Taken ==
    ASSUME NEW g, Distinct(g), NEW i, NEW j, Stands(g, i, j)
    PROVE  /\ Without(g, g[i][j]) = TakenOut(g, i, j)
           /\ Distinct(TakenOut(g, i, j)) /\ Absent(TakenOut(g, i, j), g[i][j])
<1> DEFINE h == [g EXCEPT ![i] = RemoveAt(g[i], j)]
<1>1. Without(g, g[i][j]) = h
  <2> DEFINE p == g[i][j]
  <2>1. RowOf(g, p) = i /\ PlaceOf(g[i], p) = j
    BY Located
  <2>2. Without(g, p) = [g EXCEPT ![RowOf(g, p)] = RemoveAt(g[RowOf(g, p)], PlaceOf(g[RowOf(g, p)], p))]
    BY DEF Without
  <2> HIDE DEF p
  <2>3. Without(g, p) = h
    BY <2>1, <2>2
  <2> QED
    BY <2>3 DEF p
<1>2. /\ i \in DOMAIN DefaultGrid /\ g[i] \in Seq(Panel) /\ j \in 1..Len(g[i]) /\ Len(g[i]) \in Nat
      /\ g \in [DOMAIN DefaultGrid -> Seq(Panel)]
  BY DEF Distinct, Stands
<1>3. /\ RemoveAt(g[i], j) \in Seq(Panel) /\ Len(RemoveAt(g[i], j)) = Len(g[i]) - 1
      /\ \A k \in 1..(Len(g[i]) - 1) : RemoveAt(g[i], j)[k] = IF k < j THEN g[i][k] ELSE g[i][k + 1]
  BY <1>2, Removed
<1>4. /\ h \in [DOMAIN DefaultGrid -> Seq(Panel)] /\ h[i] = RemoveAt(g[i], j)
      /\ \A k \in DOMAIN DefaultGrid : k # i => h[k] = g[k]
  BY <1>2, <1>3
<1> HIDE DEF h
\* where what stands in h stood in g
<1> DEFINE from(k, l) == IF k = i /\ l >= j THEN l + 1 ELSE l
<1>5. ASSUME NEW k \in DOMAIN DefaultGrid, NEW l \in DOMAIN h[k]
      PROVE  /\ from(k, l) \in DOMAIN g[k] /\ h[k][l] = g[k][from(k, l)] /\ l \in Nat
             /\ k # i \/ from(k, l) # j
  <2>1. CASE k = i
    <3>1. DOMAIN h[i] = 1..(Len(g[i]) - 1) /\ DOMAIN g[i] = 1..Len(g[i])
      BY <1>2, <1>3, <1>4
    <3> QED
      BY <1>2, <1>3, <1>4, <2>1, <3>1
  <2>2. CASE k # i
    <3>1. h[k] = g[k] /\ h[k] \in Seq(Panel)
      BY <1>4, <2>2
    <3> QED
      BY <2>2, <3>1
  <2> QED
    BY <2>1, <2>2
<1>6. Distinct(h)
  <2>1. SUFFICES ASSUME NEW k \in DOMAIN DefaultGrid, NEW l \in DOMAIN DefaultGrid,
                        NEW m \in DOMAIN h[k], NEW n \in DOMAIN h[l], h[k][m] = h[l][n]
                 PROVE  k = l /\ m = n
    BY <1>4 DEF Distinct
  <2>2. k = l /\ from(k, m) = from(l, n)
    BY <1>5, <2>1 DEF Distinct
  <2> QED
    BY <1>2, <1>5, <2>2
<1>7. Absent(h, g[i][j])
  <2>1. SUFFICES ASSUME NEW k \in DOMAIN DefaultGrid, NEW l \in DOMAIN h[k], h[k][l] = g[i][j] PROVE FALSE
    BY DEF Absent
  <2>2. k = i /\ from(k, l) = j
    BY <1>2, <1>5, <2>1 DEF Distinct
  <2> QED
    BY <1>5, <2>2
<1> QED
  BY <1>1, <1>6, <1>7 DEF h, TakenOut

LEMMA Placed ==
    ASSUME NEW h, Distinct(h), NEW p \in Panel, Absent(h, p), NEW i \in DOMAIN DefaultGrid,
           NEW j \in 1..(Len(h[i]) + 1)
    PROVE  Distinct(PutIn(h, i, j, p))
<1> DEFINE g == [h EXCEPT ![i] = InsertAt(h[i], j, p)]
<1>1. h[i] \in Seq(Panel) /\ Len(h[i]) \in Nat /\ h \in [DOMAIN DefaultGrid -> Seq(Panel)] /\ j \in Nat
  BY DEF Distinct
<1>2. /\ InsertAt(h[i], j, p) \in Seq(Panel) /\ Len(InsertAt(h[i], j, p)) = Len(h[i]) + 1
      /\ \A k \in 1..(Len(h[i]) + 1) :
            InsertAt(h[i], j, p)[k] = IF k < j THEN h[i][k] ELSE IF k = j THEN p ELSE h[i][k - 1]
  <2>1. OneMore(Panel, InsertAt(h[i], j, p), h[i], j, p)
    BY <1>1, Inserted
  <2> QED
    BY <2>1 DEF OneMore
<1>3. /\ g \in [DOMAIN DefaultGrid -> Seq(Panel)] /\ g[i] = InsertAt(h[i], j, p)
      /\ \A k \in DOMAIN DefaultGrid : k # i => g[k] = h[k]
  BY <1>1, <1>2
<1> HIDE DEF g
<1> DEFINE from(k, l) == IF k = i /\ l > j THEN l - 1 ELSE l
           New(k, l) == k = i /\ l = j
<1>4. ASSUME NEW k \in DOMAIN DefaultGrid, NEW l \in DOMAIN g[k]
      PROVE  /\ l \in Nat
             /\ New(k, l) => g[k][l] = p
             /\ ~New(k, l) => from(k, l) \in DOMAIN h[k] /\ g[k][l] = h[k][from(k, l)]
  <2>1. CASE k = i
    <3>1. DOMAIN g[i] = 1..(Len(h[i]) + 1) /\ DOMAIN h[i] = 1..Len(h[i])
      BY <1>1, <1>2, <1>3
    <3> QED
      BY <1>1, <1>2, <1>3, <2>1, <3>1
  <2>2. CASE k # i
    <3>1. g[k] = h[k] /\ g[k] \in Seq(Panel)
      BY <1>3, <2>2
    <3> QED
      BY <2>2, <3>1
  <2> QED
    BY <2>1, <2>2
<1>5. SUFFICES ASSUME NEW k \in DOMAIN DefaultGrid, NEW l \in DOMAIN DefaultGrid,
                      NEW m \in DOMAIN g[k], NEW n \in DOMAIN g[l], g[k][m] = g[l][n]
               PROVE  k = l /\ m = n
  BY <1>3 DEF Distinct, g, PutIn
<1>6. CASE New(k, m) /\ New(l, n)
  BY <1>6
<1>7. CASE New(k, m) /\ ~New(l, n)
  BY <1>4, <1>5, <1>7 DEF Absent
<1>8. CASE ~New(k, m) /\ New(l, n)
  BY <1>4, <1>5, <1>8 DEF Absent
<1>9. CASE ~New(k, m) /\ ~New(l, n)
  <2>1. k = l /\ from(k, m) = from(l, n)
    BY <1>4, <1>5, <1>9 DEF Distinct
  <2> QED
    BY <1>1, <1>4, <1>9, <2>1
<1> QED
  BY <1>6, <1>7, <1>8, <1>9

LEMMA Gap ==
    ASSUME NEW g, Distinct(g), NEW i, NEW j, Stands(g, i, j)
    PROVE  /\ TakenOut(g, i, j) \in [DOMAIN DefaultGrid -> Seq(Panel)]
           /\ \A k \in DOMAIN DefaultGrid :
                /\ Len(TakenOut(g, i, j)[k]) = IF k = i THEN Len(g[k]) - 1 ELSE Len(g[k])
                /\ \A l \in 1..Len(TakenOut(g, i, j)[k]) :
                     TakenOut(g, i, j)[k][l] = IF k = i /\ l >= j THEN g[k][l + 1] ELSE g[k][l]
<1> DEFINE h == TakenOut(g, i, j)
<1>1. /\ i \in DOMAIN DefaultGrid /\ g[i] \in Seq(Panel) /\ j \in 1..Len(g[i]) /\ Len(g[i]) \in Nat
      /\ g \in [DOMAIN DefaultGrid -> Seq(Panel)]
  BY DEF Distinct, Stands
<1>2. /\ RemoveAt(g[i], j) \in Seq(Panel) /\ Len(RemoveAt(g[i], j)) = Len(g[i]) - 1
      /\ \A k \in 1..(Len(g[i]) - 1) : RemoveAt(g[i], j)[k] = IF k < j THEN g[i][k] ELSE g[i][k + 1]
  BY <1>1, Removed
<1>3. /\ h \in [DOMAIN DefaultGrid -> Seq(Panel)] /\ h[i] = RemoveAt(g[i], j)
      /\ \A k \in DOMAIN DefaultGrid : k # i => h[k] = g[k]
  BY <1>1, <1>2 DEF TakenOut
<1> HIDE DEF h
<1>4. \A l \in 1..(Len(g[i]) - 1) : l >= j <=> ~(l < j)
  BY <1>1
<1> QED
  BY <1>1, <1>2, <1>3, <1>4 DEF h

HasNew(g, h, i, j, p) ==
    /\ g \in [DOMAIN DefaultGrid -> Seq(Panel)]
    /\ \A k \in DOMAIN DefaultGrid :
         /\ Len(g[k]) = IF k = i THEN Len(h[k]) + 1 ELSE Len(h[k])
         /\ \A l \in 1..Len(g[k]) :
              g[k][l] = IF k = i /\ l = j THEN p ELSE IF k = i /\ l > j THEN h[k][l - 1] ELSE h[k][l]

LEMMA Filled ==
    ASSUME NEW h, Distinct(h), NEW p \in Panel, NEW i \in DOMAIN DefaultGrid,
           NEW j \in 1..(Len(h[i]) + 1)
    PROVE  HasNew(PutIn(h, i, j, p), h, i, j, p)
<1> DEFINE g == PutIn(h, i, j, p)
<1>1. h[i] \in Seq(Panel) /\ Len(h[i]) \in Nat /\ h \in [DOMAIN DefaultGrid -> Seq(Panel)] /\ j \in Nat
  BY DEF Distinct
<1>2. /\ InsertAt(h[i], j, p) \in Seq(Panel) /\ Len(InsertAt(h[i], j, p)) = Len(h[i]) + 1
      /\ \A k \in 1..(Len(h[i]) + 1) :
            InsertAt(h[i], j, p)[k] = IF k < j THEN h[i][k] ELSE IF k = j THEN p ELSE h[i][k - 1]
  <2>1. OneMore(Panel, InsertAt(h[i], j, p), h[i], j, p)
    BY <1>1, Inserted
  <2> QED
    BY <2>1 DEF OneMore
<1>3. /\ g \in [DOMAIN DefaultGrid -> Seq(Panel)] /\ g[i] = InsertAt(h[i], j, p)
      /\ \A k \in DOMAIN DefaultGrid : k # i => g[k] = h[k]
  BY <1>1, <1>2 DEF PutIn
<1> HIDE DEF g
<1>4. \A l \in 1..(Len(h[i]) + 1) : (l > j <=> ~(l < j) /\ l # j)
  BY <1>1
<1> QED
  BY <1>1, <1>2, <1>3, <1>4 DEF g, HasNew

LEMMA Sibling ==
    ASSUME NEW g, Distinct(g), NEW i, NEW j, Stands(g, i, j)
    PROVE  NextSibling(g, g[i][j]) = IF j < Len(g[i]) THEN g[i][j + 1] ELSE "end"
<1> DEFINE p == g[i][j]
<1>1. RowOf(g, p) = i /\ PlaceOf(g[i], p) = j
  BY Located
<1> HIDE DEF p
<1>2. NextSibling(g, p) = IF PlaceOf(g[RowOf(g, p)], p) < Len(g[RowOf(g, p)])
                          THEN g[RowOf(g, p)][PlaceOf(g[RowOf(g, p)], p) + 1] ELSE "end"
  BY DEF NextSibling
<1>3. NextSibling(g, p) = IF j < Len(g[i]) THEN g[i][j + 1] ELSE "end"
  BY <1>1, <1>2
<1> QED
  BY <1>3 DEF p

\* insertBefore takes a panel out and puts it where the reference then stands.
LEMMA Carried ==
    ASSUME NEW g, Distinct(g), NEW i, NEW j, Stands(g, i, j),
           NEW r \in DOMAIN DefaultGrid, NEW ref, NEW k \in 1..(Len(TakenOut(g, i, j)[r]) + 1),
           ref = IF k = Len(TakenOut(g, i, j)[r]) + 1 THEN "end" ELSE TakenOut(g, i, j)[r][k]
    PROVE  /\ InsertBefore(g, r, g[i][j], ref) = PutIn(TakenOut(g, i, j), r, k, g[i][j])
           /\ Distinct(TakenOut(g, i, j)) /\ Distinct(InsertBefore(g, r, g[i][j], ref))
<1> DEFINE h == TakenOut(g, i, j)
           p == g[i][j]
<1>1. Without(g, p) = h /\ Distinct(h) /\ Absent(h, p)
  BY Taken
<1>2. p \in Panel /\ h[r] \in Seq(Panel) /\ Len(h[r]) \in Nat
  BY <1>1 DEF Distinct, Stands
<1>3. k \in 1..(Len(h[r]) + 1) /\ ref = IF k = Len(h[r]) + 1 THEN "end" ELSE h[r][k]
  OBVIOUS
<1> HIDE DEF p, h
<1>4. k = IF ref = "end" THEN Len(h[r]) + 1 ELSE PlaceOf(h[r], ref)
  <2>1. CASE k = Len(h[r]) + 1
    BY <1>3, <2>1
  <2>2. CASE k # Len(h[r]) + 1
    <3>1. Stands(h, r, k) /\ ref = h[r][k]
      BY <1>3, <1>2, <2>2 DEF Stands
    <3>2. ref \in Panel /\ ref # "end"
      BY <1>2, <3>1, GridAssumption DEF Stands
    <3>3. PlaceOf(h[r], h[r][k]) = k
      BY <1>1, <3>1, Located
    <3> QED
      BY <3>1, <3>2, <3>3
  <2> QED
    BY <2>1, <2>2
<1>5. InsertBefore(g, r, p, ref) = [Without(g, p) EXCEPT ![r] = InsertAt(Without(g, p)[r],
                                      IF ref = "end" THEN Len(Without(g, p)[r]) + 1
                                      ELSE PlaceOf(Without(g, p)[r], ref), p)]
  BY DEF InsertBefore
<1>6. InsertBefore(g, r, p, ref) = PutIn(h, r, k, p)
  BY <1>1, <1>4, <1>5 DEF PutIn
<1>7. Distinct(PutIn(h, r, k, p))
  BY <1>3, <1>1, <1>2, Placed
<1> QED
  BY <1>1, <1>6, <1>7 DEF p, h

\* the grid with p and q in each other's places
Exchanged(g, p, q) ==
    [i \in DOMAIN g |-> [j \in DOMAIN g[i] |->
        IF g[i][j] = p THEN q ELSE IF g[i][j] = q THEN p ELSE g[i][j]]]

\* _swapPanels moves two panels and no other: each ends where the other stood,
\* in one row or in two, next to each other or not.
LEMMA Exchanging ==
    ASSUME NEW g, Distinct(g), NEW rp, NEW jp, Stands(g, rp, jp), NEW rq, NEW jq, Stands(g, rq, jq),
           g[rp][jp] # g[rq][jq]
    PROVE  SwapPanels(g, g[rp][jp], g[rq][jq]) = Exchanged(g, g[rp][jp], g[rq][jq])
<1> DEFINE p == g[rp][jp]
           q == g[rq][jq]
           nextP == NextSibling(g, p)
           nextQ == NextSibling(g, q)
           ref1 == IF nextQ = p THEN nextP ELSE nextQ
           g1 == InsertBefore(g, rq, p, ref1)
           ref2 == IF nextP = q THEN NextSibling(g1, q) ELSE nextP
           g2 == InsertBefore(g1, rp, q, ref2)
           h == TakenOut(g, rp, jp)
           jh == IF rq = rp /\ jp < jq THEN jq - 1 ELSE jq
           h1 == TakenOut(g1, rq, jh)
<1>1. /\ rp \in DOMAIN DefaultGrid /\ rq \in DOMAIN DefaultGrid /\ p # q
      /\ jp \in 1..Len(g[rp]) /\ jq \in 1..Len(g[rq]) /\ Len(g[rp]) \in Nat /\ Len(g[rq]) \in Nat
      /\ jp \in Nat /\ jq \in Nat /\ g[rp] \in Seq(Panel) /\ g[rq] \in Seq(Panel)
      /\ p \in Panel /\ q \in Panel /\ "end" \notin Panel
      /\ (rp = rq => jp # jq)
  BY GridAssumption DEF Distinct, Stands
<1>2. RowOf(g, p) = rp /\ RowOf(g, q) = rq
  BY Located
<1>3. SwapPanels(g, p, q) = g2
  BY <1>2 DEF SwapPanels
<1>4. /\ nextP = IF jp < Len(g[rp]) THEN g[rp][jp + 1] ELSE "end"
      /\ nextQ = IF jq < Len(g[rq]) THEN g[rq][jq + 1] ELSE "end"
  BY Sibling
<1>5. /\ nextQ = p <=> rp = rq /\ jp = jq + 1
      /\ nextP = q <=> rp = rq /\ jq = jp + 1
  BY <1>1, <1>4 DEF Distinct, Stands
<1>6. /\ h \in [DOMAIN DefaultGrid -> Seq(Panel)]
      /\ \A k \in DOMAIN DefaultGrid :
           /\ Len(h[k]) = IF k = rp THEN Len(g[k]) - 1 ELSE Len(g[k])
           /\ \A l \in 1..Len(h[k]) : h[k][l] = IF k = rp /\ l >= jp THEN g[k][l + 1] ELSE g[k][l]
  BY Gap
<1>7. /\ Len(h[rq]) = IF rq = rp THEN Len(g[rq]) - 1 ELSE Len(g[rq])
      /\ \A l \in 1..Len(h[rq]) : h[rq][l] = IF rq = rp /\ l >= jp THEN g[rq][l + 1] ELSE g[rq][l]
  <2> HIDE DEF h
  <2> QED
    BY <1>1, <1>6
<1>8. jh \in 1..Len(h[rq]) /\ h[rq][jh] = q
  <2> HIDE DEF h
  <2> QED
    BY <1>1, <1>7
<1>9. jh + 1 \in 1..(Len(h[rq]) + 1) /\ ref1 = IF jh + 1 = Len(h[rq]) + 1 THEN "end" ELSE h[rq][jh + 1]
  <2> HIDE DEF p, q, nextP, nextQ, h
  <2>1. CASE rp # rq
    <3>1. jh = jq /\ ref1 = nextQ /\ Len(h[rq]) = Len(g[rq])
      BY <1>5, <1>7, <2>1
    <3>2. jq < Len(g[rq]) => h[rq][jq + 1] = g[rq][jq + 1]
      BY <1>1, <1>7, <2>1
    <3> HIDE DEF jh, ref1
    <3> QED
      BY <1>1, <1>4, <3>1, <3>2
  <2>2. CASE rp = rq /\ jp < jq
    <3>1. jh = jq - 1 /\ ref1 = nextQ /\ Len(h[rq]) = Len(g[rq]) - 1
      BY <1>1, <1>5, <1>7, <2>2
    <3>2. ASSUME jq < Len(g[rq]) PROVE h[rq][jq] = g[rq][jq + 1]
      <4>1. jq \in 1..Len(h[rq]) /\ jq >= jp /\ rq = rp
        BY <1>1, <2>2, <3>1, <3>2
      <4>2. \A l \in 1..Len(h[rq]) : h[rq][l] = IF rq = rp /\ l >= jp THEN g[rq][l + 1] ELSE g[rq][l]
        BY <1>7
      <4> HIDE DEF jh, ref1
      <4> QED
        BY <4>1, <4>2
    <3> HIDE DEF jh, ref1
    <3> QED
      BY <1>1, <1>4, <2>2, <3>1, <3>2
  <2>3. CASE rp = rq /\ jp = jq + 1
    <3>1. jh = jq /\ ref1 = nextP /\ Len(h[rq]) = Len(g[rq]) - 1
      BY <1>1, <1>5, <1>7, <2>3
    <3>2. jp < Len(g[rq]) => h[rq][jp] = g[rq][jp + 1]
      BY <1>1, <1>7, <2>3
    <3> HIDE DEF jh, ref1
    <3> QED
      BY <1>1, <1>4, <2>3, <3>1, <3>2
  <2>4. CASE rp = rq /\ jp > jq + 1
    <3>1. jh = jq /\ ref1 = nextQ /\ Len(h[rq]) = Len(g[rq]) - 1
      BY <1>1, <1>5, <1>7, <2>4
    <3>2. jq < Len(g[rq]) /\ h[rq][jq + 1] = g[rq][jq + 1]
      <4>1. jq < Len(g[rq]) /\ jq + 1 \in 1..Len(h[rq]) /\ ~(jq + 1 >= jp)
        BY <1>1, <2>4, <3>1
      <4> QED
        BY <1>7, <4>1
    <3> HIDE DEF jh, ref1
    <3> QED
      BY <1>1, <1>4, <2>4, <3>1, <3>2
  <2> QED
    BY <1>1, <2>1, <2>2, <2>3, <2>4
<1>10. g1 = PutIn(h, rq, jh + 1, p) /\ Distinct(h) /\ Distinct(g1)
  <2> HIDE DEF ref1, jh
  <2> QED
    BY <1>1, <1>9, Carried
<1>11. /\ g1 \in [DOMAIN DefaultGrid -> Seq(Panel)]
       /\ \A k \in DOMAIN DefaultGrid :
            /\ Len(g1[k]) = IF k = rq THEN Len(h[k]) + 1 ELSE Len(h[k])
            /\ \A l \in 1..Len(g1[k]) :
                 g1[k][l] = IF k = rq /\ l = jh + 1 THEN p
                            ELSE IF k = rq /\ l > jh + 1 THEN h[k][l - 1] ELSE h[k][l]
  <2> DEFINE k1 == jh + 1
  <2>1. k1 \in 1..(Len(h[rq]) + 1)
    BY <1>9
  <2> HIDE DEF g1, jh, p, h, k1
  <2>2. HasNew(PutIn(h, rq, k1, p), h, rq, k1, p)
    <3>1. Distinct(h) /\ p \in Panel /\ rq \in DOMAIN DefaultGrid
      BY <1>1, <1>10
    <3> QED
      BY <2>1, <3>1, Filled
  <2> QED
    BY <1>10, <2>2 DEF k1, HasNew
<1>12. Stands(g1, rq, jh) /\ g1[rq][jh] = q /\ jh + 1 <= Len(g1[rq]) /\ g1[rq][jh + 1] = p /\ jh \in Nat
  <2> HIDE DEF g1, h, jh, p, q
  <2> QED
    <3>1. /\ Len(g1[rq]) = Len(h[rq]) + 1 /\ g1[rq] \in Seq(Panel) /\ Len(h[rq]) \in Nat
          /\ \A l \in 1..Len(g1[rq]) : g1[rq][l] = IF l = jh + 1 THEN p
                                                   ELSE IF l > jh + 1 THEN h[rq][l - 1] ELSE h[rq][l]
      BY <1>1, <1>6, <1>11
    <3> QED
      BY <1>1, <1>8, <3>1 DEF Stands
<1>13. /\ h1 \in [DOMAIN DefaultGrid -> Seq(Panel)]
       /\ \A k \in DOMAIN DefaultGrid :
            /\ Len(h1[k]) = IF k = rq THEN Len(g1[k]) - 1 ELSE Len(g1[k])
            /\ \A l \in 1..Len(h1[k]) : h1[k][l] = IF k = rq /\ l >= jh THEN g1[k][l + 1] ELSE g1[k][l]
  <2> HIDE DEF g1, jh
  <2> QED
    BY <1>10, <1>12, Gap
<1>14. ASSUME NEW k \in DOMAIN DefaultGrid
       PROVE  /\ Len(h1[k]) = Len(h[k]) /\ Len(h[k]) \in Nat
              /\ \A l \in 1..Len(h[k]) : h1[k][l] = IF k = rq /\ l = jh THEN p ELSE h[k][l]
  <2> HIDE DEF g1, h1, h, jh, p
  <2>1. h[k] \in Seq(Panel) /\ Len(h[k]) \in Nat
    BY <1>6
  <2> QED
    <3>1. CASE k = rq
      <4>1. /\ Len(g1[k]) = Len(h[k]) + 1 /\ Len(h1[k]) = Len(g1[k]) - 1
            /\ \A l \in 1..Len(g1[k]) : g1[k][l] = IF l = jh + 1 THEN p
                                                   ELSE IF l > jh + 1 THEN h[k][l - 1] ELSE h[k][l]
            /\ \A l \in 1..Len(h1[k]) : h1[k][l] = IF l >= jh THEN g1[k][l + 1] ELSE g1[k][l]
        BY <1>11, <1>13, <3>1
      <4>2. Len(h1[k]) = Len(h[k]) /\ jh \in Nat
        BY <1>12, <2>1, <4>1
      <4>3. ASSUME NEW l \in 1..Len(h[k]) PROVE h1[k][l] = IF l = jh THEN p ELSE h[k][l]
        <5>1. l \in 1..Len(h1[k]) /\ l \in 1..Len(g1[k]) /\ l + 1 \in 1..Len(g1[k]) /\ l \in Nat
          BY <2>1, <4>1, <4>2
        <5>2. CASE l < jh
          <6>1. ~(l >= jh) /\ l # jh + 1 /\ ~(l > jh + 1) /\ l # jh
            BY <4>2, <5>1, <5>2
          <6> QED
            BY <4>1, <5>1, <6>1
        <5>3. CASE l = jh
          BY <4>1, <4>2, <5>1, <5>3
        <5>4. CASE l > jh
          <6>1. l >= jh /\ l + 1 # jh + 1 /\ l + 1 > jh + 1 /\ l # jh /\ (l + 1) - 1 = l
            BY <4>2, <5>1, <5>4
          <6> QED
            BY <4>1, <5>1, <6>1
        <5> QED
          BY <4>2, <5>1, <5>2, <5>3, <5>4
      <4> QED
        BY <2>1, <3>1, <4>2, <4>3
    <3>2. CASE k # rq
      BY <1>11, <1>13, <2>1, <3>2
    <3> QED
      BY <3>1, <3>2
<1>15. /\ Len(h[rp]) = Len(g[rp]) - 1 /\ h[rp] \in Seq(Panel)
       /\ \A l \in 1..Len(h[rp]) : h[rp][l] = IF l >= jp THEN g[rp][l + 1] ELSE g[rp][l]
  <2> HIDE DEF h
  <2> QED
    BY <1>1, <1>6
<1>16. jp \in 1..(Len(h1[rp]) + 1) /\ ref2 = IF jp = Len(h1[rp]) + 1 THEN "end" ELSE h1[rp][jp]
  <2>1. NextSibling(g1, q) = p
    <3>1. NextSibling(g1, g1[rq][jh]) = IF jh < Len(g1[rq]) THEN g1[rq][jh + 1] ELSE "end"
      <4> HIDE DEF g1, jh
      <4> QED
        BY <1>10, <1>12, Sibling
    <3>2. jh < Len(g1[rq])
      <4> HIDE DEF g1, jh
      <4>1. g1[rq] \in Seq(Panel)
        BY <1>1, <1>11
      <4> QED
        BY <1>12, <4>1
    <3> HIDE DEF g1, jh, p, q
    <3> QED
      BY <1>12, <3>1, <3>2
  <2> HIDE DEF g1, h1, h, p, q, nextP, nextQ
  <2>2. Len(h1[rp]) = Len(h[rp]) /\ \A l \in 1..Len(h[rp]) : h1[rp][l] = IF rp = rq /\ l = jh THEN p ELSE h[rp][l]
    BY <1>1, <1>14
  <2>3. jp \in 1..(Len(h1[rp]) + 1)
    BY <1>1, <1>15, <2>2
  <2>4. CASE nextP = q
    <3>1. rp = rq /\ jq = jp + 1 /\ jh = jp /\ ref2 = p
      BY <1>1, <1>5, <2>1, <2>4
    <3>2. jp \in 1..Len(h[rp]) /\ Len(h1[rp]) \in Nat
      BY <1>8, <1>15, <2>2, <3>1
    <3>3. h1[rp][jp] = p
      BY <2>2, <3>1, <3>2
    <3> HIDE DEF jh, ref2
    <3>4. jp # Len(h1[rp]) + 1
      BY <2>2, <3>2
    <3> QED
      BY <2>3, <3>1, <3>3, <3>4
  <2>5. CASE nextP # q
    <3>1. ref2 = nextP /\ ~(rp = rq /\ jp = jh)
      <4>1. rp = rq /\ jp = jh => jq = jp + 1
        BY <1>1
      <4> QED
        BY <1>5, <2>5, <4>1
    <3> HIDE DEF jh, ref2
    <3>2. CASE jp < Len(g[rp])
      <4>1. jp \in 1..Len(h[rp]) /\ jp # Len(h1[rp]) + 1 /\ jp >= jp
        BY <1>1, <1>15, <2>2, <3>2
      <4>2. h[rp][jp] = g[rp][jp + 1]
        BY <1>15, <4>1
      <4>3. h1[rp][jp] = h[rp][jp]
        BY <2>2, <3>1, <4>1
      <4> QED
        BY <1>4, <2>3, <3>1, <3>2, <4>1, <4>2, <4>3
    <3>3. CASE ~(jp < Len(g[rp]))
      <4>1. jp = Len(h1[rp]) + 1
        BY <1>1, <1>15, <2>2, <3>3
      <4> QED
        BY <1>4, <2>3, <3>1, <3>3, <4>1
    <3> QED
      BY <3>2, <3>3
  <2> QED
    BY <2>4, <2>5
<1>17. g2 = PutIn(h1, rp, jp, q) /\ Distinct(h1)
  <2>1. /\ InsertBefore(g1, rp, g1[rq][jh], ref2) = PutIn(TakenOut(g1, rq, jh), rp, jp, g1[rq][jh])
        /\ Distinct(TakenOut(g1, rq, jh))
    <3>1. jp \in 1..(Len(TakenOut(g1, rq, jh)[rp]) + 1)
          /\ ref2 = IF jp = Len(TakenOut(g1, rq, jh)[rp]) + 1 THEN "end" ELSE TakenOut(g1, rq, jh)[rp][jp]
      BY <1>16
    <3> HIDE DEF g1, jh, ref2
    <3> QED
      BY <1>1, <1>10, <1>12, <3>1, Carried
  <2>2. g1[rq][jh] = q
    BY <1>12
  <2> HIDE DEF g1, jh, ref2, q
  <2> QED
    BY <2>1, <2>2
<1>18. HasNew(g2, h1, rp, jp, q)
  <2> HIDE DEF h1, g2, q
  <2> QED
    BY <1>1, <1>16, <1>17, Filled
<1>19. ASSUME NEW k \in DOMAIN DefaultGrid, NEW l \in DOMAIN g[k]
       PROVE  g2[k][l] = IF g[k][l] = p THEN q ELSE IF g[k][l] = q THEN p ELSE g[k][l]
  <2> HIDE DEF g1, g2, h, h1
  <2>1. /\ g[k][l] = p <=> k = rp /\ l = jp
        /\ g[k][l] = q <=> k = rq /\ l = jq
    BY <1>1, <1>19 DEF Distinct, Stands
  <2>2. g[k] \in Seq(Panel) /\ Len(g[k]) \in Nat /\ l \in 1..Len(g[k]) /\ l \in Nat
    BY DEF Distinct
  <2> HIDE DEF p, q
  <2>3. CASE k # rp
    <3>1. Len(g2[k]) = Len(g[k]) /\ h1[k][l] = IF k = rq /\ l = jq THEN p ELSE g[k][l]
      BY <1>6, <1>14, <1>18, <2>2, <2>3 DEF HasNew
    <3>2. g2[k][l] = h1[k][l]
      BY <1>18, <2>2, <2>3, <3>1 DEF HasNew
    <3> QED
      BY <2>1, <2>3, <3>1, <3>2
  <2>4. CASE k = rp
    <3>1. /\ Len(h[rp]) = Len(g[rp]) - 1 /\ Len(h1[rp]) = Len(h[rp]) /\ Len(g2[rp]) = Len(h1[rp]) + 1
          /\ \A m \in 1..Len(h[rp]) : h[rp][m] = IF m >= jp THEN g[rp][m + 1] ELSE g[rp][m]
          /\ \A m \in 1..Len(h[rp]) : h1[rp][m] = IF rp = rq /\ m = jh THEN p ELSE h[rp][m]
          /\ \A m \in 1..Len(g2[rp]) : g2[rp][m] = IF m = jp THEN q ELSE IF m > jp THEN h1[rp][m - 1] ELSE h1[rp][m]
      BY <1>1, <1>14, <1>15, <1>18 DEF HasNew
    <3>2. l \in 1..Len(g2[rp])
      BY <2>2, <2>4, <3>1
    <3>3. CASE l = jp
      BY <2>1, <2>4, <3>1, <3>2, <3>3
    <3>4. CASE l < jp
      <4>1. l \in 1..Len(h[rp]) /\ l # jp /\ ~(l > jp) /\ ~(l >= jp)
        BY <1>1, <2>2, <2>4, <3>1, <3>4
      <4>2. g2[rp][l] = IF rp = rq /\ l = jh THEN p ELSE g[rp][l]
        BY <3>1, <3>2, <4>1
      <4>3. rp = rq => (l = jh <=> l = jq)
        BY <1>1, <3>4, <4>1
      <4> QED
        BY <1>1, <2>1, <2>4, <4>1, <4>2, <4>3
    <3>5. CASE l > jp
      <4>1. /\ l - 1 \in 1..Len(h[rp]) /\ l # jp /\ l - 1 >= jp /\ (l - 1) + 1 = l
        BY <1>1, <2>2, <2>4, <3>1, <3>5
      <4>2. g2[rp][l] = IF rp = rq /\ l - 1 = jh THEN p ELSE g[rp][l]
        BY <3>1, <3>2, <3>5, <4>1
      <4>3. rp = rq => (l - 1 = jh <=> l = jq)
        BY <1>1, <2>2, <3>5, <4>1
      <4> QED
        BY <1>1, <2>1, <2>4, <4>1, <4>2, <4>3
    <3> QED
      BY <1>1, <2>2, <3>3, <3>4, <3>5
  <2> QED
    BY <2>3, <2>4
<1>20. ASSUME NEW k \in DOMAIN DefaultGrid PROVE DOMAIN g2[k] = DOMAIN g[k] /\ g2[k] \in Seq(Panel)
  <2> HIDE DEF g1, g2, h, h1
  <2>1. Len(h1[k]) = Len(h[k]) /\ Len(h[k]) = IF k = rp THEN Len(g[k]) - 1 ELSE Len(g[k])
    BY <1>6, <1>14
  <2>2. Len(g2[k]) = IF k = rp THEN Len(h1[k]) + 1 ELSE Len(h1[k])
    BY <1>18 DEF HasNew
  <2>3. g2[k] \in Seq(Panel) /\ g[k] \in Seq(Panel) /\ Len(g[k]) \in Nat
    BY <1>18 DEF HasNew, Distinct
  <2>4. Len(g2[k]) = Len(g[k])
    BY <2>1, <2>2, <2>3
  <2> QED
    BY <2>3, <2>4
<1>21. g2 = Exchanged(g, p, q)
  <2>1. g2 = [k \in DOMAIN DefaultGrid |-> g2[k]] /\ DOMAIN g = DOMAIN DefaultGrid
    BY <1>18 DEF HasNew, Distinct
  <2> HIDE DEF g2, p, q
  <2>2. \A k \in DOMAIN DefaultGrid :
           g2[k] = [l \in DOMAIN g[k] |-> IF g[k][l] = p THEN q ELSE IF g[k][l] = q THEN p ELSE g[k][l]]
    BY <1>19, <1>20
  <2> QED
    BY <2>1, <2>2 DEF Exchanged
<1> QED
  BY <1>3, <1>21

\* every panel in one place, each row as long as it was served
IsLayout(g) ==
    /\ Distinct(g)
    /\ \A i \in DOMAIN DefaultGrid : Len(g[i]) = Len(DefaultGrid[i])
    /\ \A p \in Panel : \E i \in DOMAIN DefaultGrid : \E j \in DOMAIN g[i] : g[i][j] = p

LEMMA DefaultIsLayout == IsLayout(DefaultGrid) /\ DOMAIN DefaultGrid # {}
<1>1. DefaultGrid \in Seq(Seq(Panel)) /\ DefaultGrid # <<>>
  BY GridAssumption
<1>2. DefaultGrid \in [DOMAIN DefaultGrid -> Seq(Panel)] /\ DOMAIN DefaultGrid # {}
  <2>1. DOMAIN DefaultGrid = 1..Len(DefaultGrid) /\ Len(DefaultGrid) \in Nat
    BY <1>1
  <2>2. Len(DefaultGrid) # 0
    BY <1>1, EmptySeq
  <2>3. 1 \in DOMAIN DefaultGrid
    BY <2>1, <2>2
  <2>4. DefaultGrid \in [DOMAIN DefaultGrid -> Seq(Panel)]
    BY <1>1, <2>1
  <2> QED
    BY <2>3, <2>4
<1>3. Distinct(DefaultGrid)
  BY <1>2, GridAssumption DEF Distinct
<1>4. \A p \in Panel : \E i \in DOMAIN DefaultGrid : \E j \in DOMAIN DefaultGrid[i] : DefaultGrid[i][j] = p
  BY DEF Panel, Range
<1> QED
  BY <1>2, <1>3, <1>4 DEF IsLayout

LEMMA ExchangedIsLayout ==
    ASSUME NEW g, IsLayout(g), NEW p \in Panel, NEW q \in Panel
    PROVE  IsLayout(Exchanged(g, p, q))
<1> DEFINE h == Exchanged(g, p, q)
           other(r) == IF r = p THEN q ELSE IF r = q THEN p ELSE r
<1>1. DOMAIN g = DOMAIN DefaultGrid /\ \A i \in DOMAIN DefaultGrid : g[i] \in Seq(Panel)
  BY DEF IsLayout, Distinct
<1>2. /\ DOMAIN h = DOMAIN DefaultGrid /\ h = [i \in DOMAIN DefaultGrid |-> h[i]]
      /\ \A i \in DOMAIN DefaultGrid : h[i] = [j \in DOMAIN g[i] |-> other(g[i][j])]
  BY <1>1 DEF Exchanged
<1> HIDE DEF h
<1>3. /\ \A r \in Panel : other(r) \in Panel /\ other(other(r)) = r
      /\ \A r, s \in Panel : other(r) = other(s) => r = s
  OBVIOUS
<1> HIDE DEF other
<1>4. ASSUME NEW i \in DOMAIN DefaultGrid
      PROVE  /\ h[i] \in Seq(Panel) /\ Len(h[i]) = Len(g[i]) /\ DOMAIN h[i] = DOMAIN g[i]
             /\ \A j \in DOMAIN g[i] : h[i][j] = other(g[i][j]) /\ g[i][j] \in Panel
  <2>1. g[i] \in Seq(Panel) /\ DOMAIN g[i] = 1..Len(g[i]) /\ Len(g[i]) \in Nat
    BY <1>1
  <2>2. \A j \in 1..Len(g[i]) : g[i][j] \in Panel /\ other(g[i][j]) \in Panel
    BY <1>3, <2>1
  <2>3. h[i] \in [1..Len(g[i]) -> Panel]
    BY <1>2, <2>1, <2>2
  <2> QED
    BY <1>2, <2>1, <2>2, <2>3
<1>5. h \in [DOMAIN DefaultGrid -> Seq(Panel)]
  BY <1>2, <1>4
<1>6. ASSUME NEW i \in DOMAIN DefaultGrid, NEW k \in DOMAIN DefaultGrid,
             NEW j \in DOMAIN h[i], NEW l \in DOMAIN h[k], h[i][j] = h[k][l]
      PROVE  i = k /\ j = l
  <2>1. j \in DOMAIN g[i] /\ l \in DOMAIN g[k] /\ g[i][j] = g[k][l]
    BY <1>3, <1>4, <1>6
  <2> QED
    BY <2>1 DEF IsLayout, Distinct
<1>7. ASSUME NEW r \in Panel PROVE \E i \in DOMAIN DefaultGrid : \E j \in DOMAIN h[i] : h[i][j] = r
  <2>1. PICK i \in DOMAIN DefaultGrid : \E j \in DOMAIN g[i] : g[i][j] = other(r)
    BY <1>3 DEF IsLayout
  <2>2. PICK j \in DOMAIN g[i] : g[i][j] = other(r)
    BY <2>1
  <2>3. j \in DOMAIN h[i] /\ h[i][j] = r
    BY <1>3, <1>4, <2>2
  <2> QED
    BY <2>3
<1>8. Distinct(h)
  BY <1>5, <1>6 DEF Distinct
<1>9. \A i \in DOMAIN DefaultGrid : Len(h[i]) = Len(DefaultGrid[i])
  BY <1>4 DEF IsLayout
<1>10. IsLayout(h)
  BY <1>7, <1>8, <1>9 DEF IsLayout
<1> QED
  BY <1>10 DEF h

LEMMA SwappedIsLayout ==
    ASSUME NEW g, IsLayout(g), NEW p \in Panel, NEW q \in Panel, p # q
    PROVE  SwapPanels(g, p, q) = Exchanged(g, p, q) /\ IsLayout(SwapPanels(g, p, q))
<1>1. PICK rp, jp : Stands(g, rp, jp) /\ g[rp][jp] = p
  BY DEF IsLayout, Stands
<1>2. PICK rq, jq : Stands(g, rq, jq) /\ g[rq][jq] = q
  BY DEF IsLayout, Stands
<1>3. Distinct(g) /\ Stands(g, rp, jp) /\ Stands(g, rq, jq) /\ g[rp][jp] # g[rq][jq]
  BY <1>1, <1>2 DEF IsLayout
<1>4. SwapPanels(g, g[rp][jp], g[rq][jq]) = Exchanged(g, g[rp][jp], g[rq][jq])
  BY <1>3, Exchanging
<1>5. SwapPanels(g, p, q) = Exchanged(g, p, q)
  BY <1>1, <1>2, <1>4
<1> QED
  BY <1>5, ExchangedIsLayout

\* A stored arrangement of all panels replaces whatever stood on the page.
LEMMA AppliedIsStored ==
    ASSUME NEW g, IsLayout(g), NEW a, IsLayout(a)
    PROVE  Applied(g, a) = a
<1>1. /\ DOMAIN g = DOMAIN DefaultGrid /\ \A i \in DOMAIN DefaultGrid : g[i] \in Seq(Panel) /\ a[i] \in Seq(Panel)
      /\ DOMAIN a = DOMAIN DefaultGrid /\ a = [i \in DOMAIN DefaultGrid |-> a[i]]
  BY DEF IsLayout, Distinct
<1>2. \A p \in Panel : p \in Listed(a)
  BY <1>1 DEF IsLayout, Listed, Range
<1>3. Ascending({}) = <<>>
  <2>1. 1..Cardinality({}) = {}
    BY FS_EmptySet
  <2> QED
    BY <2>1 DEF Ascending
<1>4. ASSUME NEW i \in DOMAIN DefaultGrid PROVE Others(g[i], a) \o a[i] = a[i]
  <2>1. {j \in DOMAIN g[i] : g[i][j] \notin Listed(a)} = {}
    BY <1>1, <1>2
  <2>2. Others(g[i], a) = <<>>
    <3>1. Others(g[i], a) = [k \in DOMAIN Ascending({j \in DOMAIN g[i] : g[i][j] \notin Listed(a)}) |->
                               g[i][Ascending({j \in DOMAIN g[i] : g[i][j] \notin Listed(a)})[k]]]
      BY DEF Others
    <3>2. Others(g[i], a) = [k \in DOMAIN <<>> |-> g[i][<<>>[k]]]
      BY <1>3, <2>1, <3>1
    <3> QED
      BY <3>2
  <2>3. a[i] \in Seq(Panel)
    BY <1>1
  <2> QED
    BY <2>2, <2>3, ConcatEmptySeq
<1> QED
  BY <1>1, <1>4 DEF Applied

\* Everything on the page or in storage is a layout, and the page follows the
\* storage unless another tab wrote it since.
GridInv ==
    /\ IsLayout(grid) /\ \A a \in named : IsLayout(a)
    /\ saved # <<>> => IsLayout(saved)
    /\ foreign \in BOOLEAN /\ (foreign => saved # <<>>)
    /\ ~foreign => grid = Arranged(DefaultGrid, saved)

LEMMA LayoutNotEmpty == ASSUME NEW a, IsLayout(a) PROVE a # <<>>
BY DefaultIsLayout DEF IsLayout, Distinct

LEMMA ArrangedIs ==
    ASSUME NEW g, IsLayout(g), NEW a, a # <<>> => IsLayout(a)
    PROVE  Arranged(g, a) = (IF a = <<>> THEN g ELSE a) /\ IsLayout(Arranged(g, a))
BY AppliedIsStored DEF Arranged

LEMMA GridKept == ASSUME GridInv, UNCHANGED gridVars PROVE GridInv'
BY DEF GridInv, gridVars

LEMMA GridStarts == ASSUME ListInit PROVE GridInv
BY DefaultIsLayout DEF ListInit, GridInv, Arranged

LEMMA GridHolds == ASSUME GridInv, [ListNext]_consoleListVars PROVE GridInv'
<1>1. ASSUME NEW a, IsLayout(a), saved' = a, grid' = a, foreign' = FALSE, \A b \in named' : IsLayout(b) PROVE GridInv'
  BY <1>1, ArrangedIs, LayoutNotEmpty, DefaultIsLayout DEF GridInv
<1>2. ASSUME NEW p \in Panel, NEW q \in Panel, MovePanel(p, q) PROVE GridInv'
  <2>1. p # q /\ grid' = SwapPanels(grid, p, q) /\ saved' = grid' /\ foreign' = FALSE /\ named' = named
    BY <1>2 DEF MovePanel
  <2>2. IsLayout(grid')
    BY <2>1, SwappedIsLayout DEF GridInv
  <2> QED
    BY <1>1, <2>1, <2>2 DEF GridInv
<1>3. ASSUME NEW p \in Panel, NEW q \in Panel, OtherTab(p, q) PROVE GridInv'
  <2> DEFINE a == Arranged(DefaultGrid, saved)
  <2>1. p # q /\ saved' = SwapPanels(a, p, q) /\ foreign' = TRUE /\ UNCHANGED <<grid, named>>
    BY <1>3 DEF OtherTab
  <2>2. IsLayout(a)
    BY ArrangedIs, DefaultIsLayout DEF GridInv
  <2> HIDE DEF a
  <2>3. IsLayout(saved') /\ saved' # <<>>
    BY <2>1, <2>2, SwappedIsLayout, LayoutNotEmpty
  <2> QED
    BY <2>1, <2>3 DEF GridInv
<1>4. CASE SaveLayout
  BY <1>4 DEF SaveLayout, GridInv
<1>5. CASE ResetLayout
  BY <1>5, DefaultIsLayout DEF ResetLayout, GridInv, Arranged
<1>6. ASSUME NEW a \in named, RestoreLayout(a) PROVE GridInv'
  <2>1. IsLayout(a) /\ Applied(grid, a) = a
    BY AppliedIsStored DEF GridInv
  <2>2. grid' = Applied(grid, a) /\ saved' = a /\ foreign' = FALSE /\ named' = named
    BY <1>6 DEF RestoreLayout
  <2> QED
    BY <1>1, <2>1, <2>2 DEF GridInv
<1>7. ASSUME NEW a \in named, DeleteLayout(a) PROVE GridInv'
  BY <1>7 DEF DeleteLayout, GridInv
<1>8. ASSUME NEW rs, NEW g, Reapply(rs, g), IsLayout(g), saved = <<>> => g = DefaultGrid, UNCHANGED <<saved, named>>
      PROVE  GridInv'
  <2>1. grid' = Arranged(g, saved) /\ foreign' = FALSE
    BY <1>8 DEF Reapply
  <2>2. IsLayout(grid') /\ grid' = Arranged(DefaultGrid, saved)
    BY <1>8, <2>1, ArrangedIs, DefaultIsLayout DEF GridInv
  <2> QED
    BY <1>8, <2>1, <2>2 DEF GridInv
<1>9. CASE ClearChecks
  <2>1. Reapply(rows, grid) /\ UNCHANGED <<saved, named>>
    BY <1>9 DEF ClearChecks
  <2>2. IsLayout(grid) /\ (saved = <<>> => grid = DefaultGrid)
    BY DEF GridInv, Arranged
  <2> QED
    BY <1>8, <2>1, <2>2
<1>10. ASSUME NEW n \in PageSize..MaxRow, SwapList(1..n) PROVE GridInv'
  <2>1. Reapply(1..n, DefaultGrid) /\ UNCHANGED <<saved, named>>
    BY <1>10 DEF SwapList
  <2> QED
    BY <1>8, <2>1, DefaultIsLayout
<1>11. ASSUME NEW p \in Panel, Fold(p) PROVE GridInv'
  BY <1>11 DEF Fold, GridInv
<1>12. ASSUME NEW f \in 0..1, Filter(f) PROVE GridInv'
  BY <1>12, GridKept DEF Filter
<1>13. ASSUME NEW r \in rows, Check(r) PROVE GridInv'
  BY <1>13, GridKept DEF Check
<1>14. CASE SortClick \/ Turn("next") \/ Turn("prev") \/ ToggleTv \/ Visibility
  BY <1>14, GridKept DEF SortClick, Turn, ToggleTv, Visibility
<1>15. CASE UNCHANGED consoleListVars
  BY <1>15, GridKept DEF consoleListVars
<1> QED
  BY <1>2, <1>3, <1>4, <1>5, <1>6, <1>7, <1>9, <1>10, <1>11, <1>12, <1>13, <1>14, <1>15 DEF ListNext

TvInv == tv \in BOOLEAN /\ away \in BOOLEAN /\ RotatesWhileWatched

LEMMA TvKept == ASSUME TvInv, UNCHANGED tvVars PROVE TvInv'
BY DEF TvInv, RotatesWhileWatched, tvVars

LEMMA TvHolds == ASSUME TvInv, [ListNext]_consoleListVars PROVE TvInv'
<1>1. CASE ToggleTv
  BY <1>1 DEF ToggleTv, TvInv, RotatesWhileWatched
<1>2. CASE Visibility
  BY <1>2 DEF Visibility, TvInv, RotatesWhileWatched
<1>3. CASE SortClick \/ Turn("next") \/ Turn("prev") \/ ClearChecks \/ SaveLayout \/ ResetLayout
  BY <1>3, TvKept DEF SortClick, Turn, ClearChecks, SaveLayout, ResetLayout
<1>4. ASSUME NEW p \in Panel, NEW q \in Panel, MovePanel(p, q) \/ OtherTab(p, q) \/ Fold(p) PROVE TvInv'
  BY <1>4, TvKept DEF MovePanel, OtherTab, Fold
<1>5. ASSUME NEW a \in named, RestoreLayout(a) \/ DeleteLayout(a) PROVE TvInv'
  BY <1>5, TvKept DEF RestoreLayout, DeleteLayout
<1>6. ASSUME NEW f \in 0..1, Filter(f) PROVE TvInv'
  BY <1>6, TvKept DEF Filter
<1>7. ASSUME NEW r \in rows, Check(r) PROVE TvInv'
  BY <1>7, TvKept DEF Check
<1>8. ASSUME NEW n \in PageSize..MaxRow, SwapList(1..n) PROVE TvInv'
  BY <1>8, TvKept DEF SwapList
<1>9. CASE UNCHANGED consoleListVars
  BY <1>9, TvKept DEF consoleListVars
<1> QED
  BY <1>1, <1>2, <1>3, <1>4, <1>5, <1>6, <1>7, <1>8, <1>9 DEF ListNext

LEMMA ArrangementIsInOrder == ASSUME ListInv, GridInv, TvInv PROVE PageStaysInOrder
<1>1. ListKeepsToFilter
  <2>1. Matching(rows, filter) \cup hidden = rows
    BY DEF ListInv, FilterHides, Matching
  <2>2. /\ Range(order) = rows
        /\ \A i, j \in DOMAIN order : i < j => IF asc THEN order[i] < order[j] ELSE order[i] > order[j]
    <3>1. rows \in SUBSET Nat /\ IsFiniteSet(rows) /\ asc \in BOOLEAN /\ order = Sorted(rows, asc)
      BY DEF ListInv
    <3> QED
      BY <3>1, SortedInOrder
  <2> QED
    BY <2>1, <2>2 DEF ListInv, ListKeepsToFilter
<1>2. LayoutSticks
  <2>1. DOMAIN grid = DOMAIN DefaultGrid /\ \A i \in DOMAIN grid : grid[i] \in Seq(Panel)
    BY DEF GridInv, IsLayout, Distinct
  <2>2. UNION {Range(grid[i]) : i \in DOMAIN grid} = Panel
    <3>1. \A i \in DOMAIN grid : Range(grid[i]) \subseteq Panel
      BY <2>1 DEF Range
    <3>2. \A p \in Panel : \E i \in DOMAIN grid : p \in Range(grid[i])
      BY <2>1 DEF GridInv, IsLayout, Range
    <3> QED
      BY <3>1, <3>2
  <2> QED
    BY <2>1, <2>2 DEF LayoutSticks, GridInv, IsLayout
<1> QED
  BY <1>1, <1>2 DEF PageStaysInOrder, TvInv


\* List, panels and TV mode keep to what the operator set, whatever is clicked,
\* typed, swapped in or stored by another tab (applyEngSortAndPage,
\* _swapPanels, applyArrangement).
THEOREM PageAlwaysStaysInOrder == ListSpec => []PageStaysInOrder
<1>1. ListInit => ListInv /\ GridInv /\ TvInv
  <2>1. ListInit => TvInv
    BY DEF ListInit, TvInv, RotatesWhileWatched
  <2> QED
    BY <2>1, ListStarts, GridStarts
<1>2. ListInv /\ GridInv /\ TvInv /\ [ListNext]_consoleListVars => (ListInv /\ GridInv /\ TvInv)'
  BY ListHolds, GridHolds, TvHolds
<1>3. ListInv /\ GridInv /\ TvInv => PageStaysInOrder
  BY ArrangementIsInOrder
<1> QED
  BY <1>1, <1>2, <1>3, PTL DEF ListSpec

DragExchanges ==
    \A p, q \in Panel :
      /\ MovePanel(p, q) => grid' = Exchanged(grid, p, q)
      /\ OtherTab(p, q) => saved' = Exchanged(Arranged(DefaultGrid, saved), p, q)

\* A drag puts each of two panels where the other stood and moves no third,
\* though it is two moves of the DOM and the first shifts what the second
\* refers to (_swapPanels).
THEOREM DragsExchangePanels == ListSpec => [][DragExchanges]_consoleListVars
<1>1. ListInit => GridInv
  BY GridStarts
<1>2. GridInv /\ [ListNext]_consoleListVars => GridInv'
  BY GridHolds
<1>3. GridInv => DragExchanges
  <2>1. SUFFICES ASSUME GridInv, NEW p \in Panel, NEW q \in Panel
                 PROVE  /\ MovePanel(p, q) => grid' = Exchanged(grid, p, q)
                        /\ OtherTab(p, q) => saved' = Exchanged(Arranged(DefaultGrid, saved), p, q)
    BY DEF DragExchanges
  <2>2. IsLayout(grid) /\ IsLayout(Arranged(DefaultGrid, saved))
    BY <2>1, ArrangedIs, DefaultIsLayout DEF GridInv
  <2>3. MovePanel(p, q) => grid' = SwapPanels(grid, p, q) /\ p # q
    BY DEF MovePanel
  <2>4. OtherTab(p, q) => saved' = SwapPanels(Arranged(DefaultGrid, saved), p, q) /\ p # q
    BY DEF OtherTab
  <2> QED
    BY <2>2, <2>3, <2>4, SwappedIsLayout
<1> QED
  BY <1>1, <1>2, <1>3, PTL DEF ListSpec
=============================================================================
