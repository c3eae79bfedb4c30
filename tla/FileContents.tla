---------------------------- MODULE FileContents ----------------------------
(***************************************************************************)
(* What the files of the simulated host can hold.  A body is a sequence of *)
(* lines; a line is a line the intruder typed, the planted text of a file  *)
(* (named by its path), or Fresh, which only a renderer adds.              *)
(***************************************************************************)
EXTENDS Naturals, Sequences, FiniteSets, Functions

CONSTANTS
    Path,      \* canonical absolute paths
    LogFile,   \* rendered when read: /var/log/auth.log
    DecoyFile, \* planted by the response executors
    Text,      \* lines the intruder writes
    Fresh,     \* a newer login in the log, or the counter-AI trap in a decoy
    None,      \* no such file, no such entry
    MaxLen     \* bound on the lines of a body

ASSUME ContentAssumption ==
    /\ LogFile \subseteq Path /\ DecoyFile \subseteq Path
    /\ LogFile \intersect DecoyFile = {}
    /\ Text \intersect Path = {}
    /\ Fresh \notin Path \union Text
    /\ None \notin UNION {[1..n -> Path \union Text \union {Fresh}] : n \in 0..MaxLen}
    /\ MaxLen \in Nat \ {0, 1}

Line   == Path \union Text \union {Fresh}
Body   == UNION {[1..n -> Line] : n \in 0..MaxLen}
Printed == UNION {[S -> Line] : S \in SUBSET (1..MaxLen)}

\* The text a path was planted with.
Original(p) == <<p>>

\* What a renderer can return for p: auth.log with fewer or more logins
\* (gen_auth_log_from_logins), a decoy without or with the trap
\* (maybe_inject_trap).
Renderings(p) == {Original(p), Append(Original(p), Fresh)}

\* The lines of a body a search selects, at their places in it, None when
\* there is none.
Matching(body, pattern) ==
    IF body = None \/ \A i \in DOMAIN body : body[i] \notin pattern THEN None
    ELSE Restrict(body, {i \in DOMAIN body : body[i] \in pattern})
=============================================================================
