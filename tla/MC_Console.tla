------------------------------ MODULE MC_Console -----------------------------
(***************************************************************************)
(* The dashboard page for TLC.  Its scripts share the page and the         *)
(* browser's storage but none of each other's state, so one part of it is  *)
(* exercised in each behaviour, chosen at the start: the live feed, the    *)
(* acknowledgements, the notes, the Kill button, the fetched fragments,    *)
(* the preview modal, the list or the grid.                                *)
(***************************************************************************)
EXTENDS ConsoleFeed, ConsoleDesk, ConsoleViews, ConsoleList

VARIABLE part

Grid == << <<"engagements", "detail">>, <<"rate", "dns">> >>

allVars == <<feedVars, deskVars, viewsVars, consoleListVars, part>>

Init ==
    /\ part \in {"feed", "acks", "notes", "kill", "fragments", "modal", "list", "grid"}
    /\ FeedInit /\ DeskInit /\ ViewsInit /\ ListInit
    /\ part # "feed" => newest = NoEng

Next ==
    /\ UNCHANGED part
    /\ \/ part = "feed" /\ FeedNext /\ UNCHANGED <<deskVars, viewsVars, consoleListVars>>
       \/ /\ part = "acks" /\ DeskNext /\ UNCHANGED <<feedVars, viewsVars, consoleListVars>>
          /\ UNCHANGED <<noteVars, killVars>>
       \/ /\ part = "notes" /\ DeskNext /\ UNCHANGED <<feedVars, viewsVars, consoleListVars>>
          /\ UNCHANGED <<calls, undo, loop, killVars>>
       \/ /\ part = "kill" /\ DeskNext /\ UNCHANGED <<feedVars, viewsVars, consoleListVars>>
          /\ UNCHANGED <<calls, undo, loop, noteVars>>
       \/ /\ part = "fragments" /\ ViewsNext
          /\ UNCHANGED <<modalVars, feedVars, deskVars, consoleListVars>>
       \/ /\ part = "modal" /\ ViewsNext
          /\ UNCHANGED <<fragVars, feedVars, deskVars, consoleListVars>>
       \/ /\ part = "list" /\ ListNext
          /\ UNCHANGED <<gridVars, tvVars, feedVars, deskVars, viewsVars>>
       \/ /\ part = "grid" /\ ListNext
          /\ UNCHANGED <<listVars, feedVars, deskVars, viewsVars>>

Spec == Init /\ [][Next]_allVars
=============================================================================
