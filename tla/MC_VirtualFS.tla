---------------------------- MODULE MC_VirtualFS ----------------------------
(* Instances of VirtualFS for TLC. *)
EXTENDS VirtualFS

CONSTANTS cred, token, passwd, log, decoy, tmp, keep, w

\* ~ holds everything but the log; the scratch directory holds its .keep.
UnderHome == [d \in Dir |-> {cred, token, decoy, keep} \intersect Path]
KeepOfAll == [d \in Dir |-> keep]
Sorted    == <<token, cred, decoy, passwd, keep, log, tmp>>
RankOf    == [p \in Path |-> CHOOSE i \in 1..Len(Sorted) : Sorted[i] = p]
\* Everything, and a line of one file only.
SomePatterns == {Line, {token} \intersect Line}
=============================================================================
