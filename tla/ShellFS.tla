------------------------------ MODULE ShellFS -------------------------------
(***************************************************************************)
(* The file system an intruder believes in: a disk that keeps what is      *)
(* written until it is overwritten or removed, over any number of          *)
(* reconnects.  A path is Live while the honeypot still invents its body.  *)
(* VirtualFS, the implementation, is shown to behave like this.            *)
(***************************************************************************)
EXTENDS FileContents

CONSTANT Live  \* not a body: any rendering of the path

VARIABLES
    disk,   \* per path: its body, None, or Live
    kept,   \* the disk the next connection finds
    out     \* per path: the lines of it the last command printed

Silent == [p \in Path |-> None]

\* The bodies a reader of p can be given (a renderer that fails finds nothing).
Bodies(p) == IF disk[p] = Live THEN Renderings(p) \union {None} ELSE {disk[p]}

Put(p, body) ==
    /\ disk' = [disk EXCEPT ![p] = body]
    /\ out' = Silent
    /\ UNCHANGED kept

\* Appending to a Live path keeps the rendering last shown, or starts over
\* when none was.
AppendTo(p, t) ==
    /\ \E b \in (IF disk[p] \in {Live, None} THEN {<<>>} ELSE {}) \union (Bodies(p) \ {None}) :
          disk' = [disk EXCEPT ![p] = Append(b, t)]
    /\ out' = Silent
    /\ UNCHANGED kept

Create(p) ==
    /\ \E b \in (IF disk[p] \in {Live, None} THEN {<<>>} ELSE {}) \union (Bodies(p) \ {None}) :
          disk' = [disk EXCEPT ![p] = b]
    /\ out' = Silent
    /\ UNCHANGED kept

Remove(p) ==
    /\ disk' = [disk EXCEPT ![p] = None]
    /\ out' = Silent
    /\ UNCHANGED kept

Copy(s, d) ==
    /\ \E b \in Bodies(s) \ {None} : disk' = [disk EXCEPT ![d] = b]
    /\ out' = Silent
    /\ UNCHANGED kept

Move(s, d) ==
    /\ \E b \in Bodies(s) \ {None} : disk' = [disk EXCEPT ![d] = b, ![s] = None]
    /\ out' = Silent
    /\ UNCHANGED kept

\* A decoy appears, Live unless the intruder used its path before.
Plant(p) ==
    /\ p \in DecoyFile
    /\ disk' \in {[disk EXCEPT ![p] = b] : b \in {Live, Original(p)}}
    /\ UNCHANGED <<kept, out>>

\* A command that prints lines of some files and changes none of them.
Look ==
    /\ out' \in [Path -> Printed \union {None}]
    /\ \A p \in Path :
          out'[p] # None => \E b \in Bodies(p) \ {None} :
                               \E pattern \in SUBSET Range(b) : out'[p] = Matching(b, pattern)
    /\ UNCHANGED <<disk, kept>>

\* The connection ends and the next one finds the disk as it was...
Reconnect ==
    /\ kept' = disk
    /\ out' = Silent
    /\ UNCHANGED disk

\* ... or as it was kept before, when nothing could be saved.
Rollback ==
    /\ disk' = kept
    /\ out' = Silent
    /\ UNCHANGED kept

\* The disk of a fresh engagement is any with the log files Live.
Init ==
    /\ \A p \in LogFile : disk[p] = Live
    /\ kept = disk
    /\ out = Silent

Next ==
    \/ \E p \in Path : \/ \E body \in {<<>>} \union {<<t>> : t \in Text} : Put(p, body)
                       \/ \E t \in Text : AppendTo(p, t)
                       \/ Create(p) \/ Remove(p) \/ Plant(p)
    \/ \E s, d \in Path : Copy(s, d) \/ Move(s, d)
    \/ Look
    \/ Reconnect
    \/ Rollback

Spec == Init /\ [][Next]_<<disk, kept, out>>
=============================================================================
