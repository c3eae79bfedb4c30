----------------------------- MODULE MfaRouting -----------------------------
(***************************************************************************)
(* Step-up authentication: three programs that share a directory and a     *)
(* clock and nothing else.                                                 *)
(*                                                                         *)
(*   linux-fork/mfa/push_sim.py             push requests and their expiry *)
(*   linux-fork/mfa/mfa_gateway.py          the challenge, one event loop, *)
(*                                          which writes <ip>.pass/.fail   *)
(*   linux-fork/routing/score_and_route.lua nginx workers, which consume   *)
(*                                          the decision or score          *)
(***************************************************************************)
EXTENDS Integers, FiniteSets

CONSTANTS
    Challenge,        \* _MFASession objects
    Inbound,          \* connections the identity proxy routes
    Ip,
    Context,          \* what the risk signals say of a connection
    PushTimeout,      \* MFA_PUSH_TIMEOUT, also the ttl of the push
    ChallengeTimeout, \* MFA_CHALLENGE_TIMEOUT
    Ttl,              \* MFA_TTL_SECONDS
    Lines,            \* what clients type: "valid", "wrong", "empty"
    AutoStatus,       \* statuses the auto policy can give a new push
    MaxClock,         \* bound on time
    MaxFaults,        \* bound on failed calls
    NoOne             \* not a Challenge

ASSUME MfaAssumption ==
    /\ PushTimeout \in Nat /\ ChallengeTimeout \in Nat /\ Ttl \in Nat
    /\ MaxClock \in Nat /\ MaxFaults \in Nat
    /\ AutoStatus \subseteq {"pending", "approved", "denied"}
    /\ Lines \subseteq {"valid", "wrong", "empty"}
    /\ NoOne \notin Challenge
    /\ Ip # {}

ASSUME FiniteAssumption == IsFiniteSet(Challenge) /\ IsFiniteSet(Inbound)

Decision == {"pass", "fail"}
Absent   == -1   \* no decision file
Blank    == -2   \* opened for writing, nothing in it yet
Time     == 0..MaxClock

VARIABLES
    clock,
    push,     \* per challenge: the status of its push request
    pushAt,   \* per challenge: created_at
    pc,       \* per challenge: where _run_challenge is
    src,      \* per challenge: source_ip
    limit,    \* per challenge: the deadline of the wait under way
    typed,    \* per challenge: _submitted
    gone,     \* per challenge: the client has left, writes to it raise
    verdict,  \* per challenge: the decision it writes
    wroteAt,  \* per challenge: the ts it wrote
    gw,       \* the challenge in _write_decision, or NoOne
    gwStep,   \* where it is in there
    gwTry,    \* 2 in the call of the exception handler
    files,    \* per ip and decision: the ts in its file
    rpc,      \* per inbound: where main() is
    rip,      \* per inbound: its address
    rts,      \* per inbound: the ts it read, and
    readAt,   \* when
    took,     \* per inbound: the decision it consumed
    pool,     \* per inbound: the upstream it was routed to
    overlap,  \* observer: addresses that two inbounds were routed for at once
    leftover, \* observer: per ip: how often a used decision could not be removed
    faults

simVars  == <<push, pushAt>>
chVars   == <<pc, src, limit, typed, gone, verdict, wroteAt>>
gwVars   == <<gw, gwStep, gwTry>>
rtVars   == <<rpc, rip, rts, readAt, took, pool, overlap, leftover>>
vars     == <<clock, simVars, chVars, gwVars, files, rtVars, faults>>

Open  == {"request", "poll", "asleep", "totp"}
Fault == faults < MaxFaults /\ faults' = faults + 1

-----------------------------------------------------------------------------
(* push_sim.py                                                             *)

Expired(s) == clock >= pushAt[s] + PushTimeout

\* create_push, with the auto policy applied.
CreatePush(s, status) ==
    /\ pc[s] = "request"
    /\ push[s] = "none"
    /\ push'   = [push EXCEPT ![s] = status]
    /\ pushAt' = [pushAt EXCEPT ![s] = clock]
    /\ UNCHANGED <<clock, chVars, gwVars, files, rtVars, faults>>

\* approve and deny: refused once the push expired or went the other way.
Answer(s, status) ==
    /\ push[s] = "pending"
    /\ ~Expired(s)
    /\ push' = [push EXCEPT ![s] = status]
    /\ UNCHANGED <<clock, pushAt, chVars, gwVars, files, rtVars, faults>>

\* What /push/poll reports: an expired push is "expired" whatever was answered.
Polled(s) == IF Expired(s) THEN "expired" ELSE push[s]

-----------------------------------------------------------------------------
(* mfa_gateway.py: a challenge                                             *)

\* Everything up to the next await runs undivided in the gateway's one loop.
Loop == gw = NoOne /\ UNCHANGED <<clock, simVars, files, rtVars>>

\* A deadline; none lies beyond the modelled time.
Deadline(span) == IF clock + span > MaxClock THEN MaxClock ELSE clock + span

\* connection_made of the session: the client was routed here some time ago
\* and has got through the first factor since.
OpenChallenge(s, ip) ==
    /\ Loop
    /\ pc[s] = "new"
    /\ pc'  = [pc EXCEPT ![s] = "request"]
    /\ src' = [src EXCEPT ![s] = ip]
    /\ UNCHANGED <<limit, typed, gone, verdict, wroteAt, gwVars, faults>>

\* The message to the client comes first; if the client has left, that raises
\* and the handler writes "fail".
Decide(s, d) ==
    /\ pc'      = [pc EXCEPT ![s] = "writing"]
    /\ verdict' = [verdict EXCEPT ![s] = IF gone[s] THEN "fail" ELSE d]
    /\ gw'      = s
    /\ gwStep'  = "wipe_pass"
    /\ gwTry'   = IF gone[s] THEN 2 ELSE 1
    /\ UNCHANGED <<src, limit, typed, gone, wroteAt>>

\* The push did not settle it: prompt for the code, unless the user is not
\* enrolled (MFA_STRICT_ENROLLMENT) or has left.
FallBack(s) ==
    \/ Decide(s, "fail")
    \/ /\ ~gone[s]
       /\ pc'    = [pc EXCEPT ![s] = "totp"]
       /\ limit' = [limit EXCEPT ![s] = Deadline(ChallengeTimeout)]
       /\ UNCHANGED <<src, typed, gone, verdict, wroteAt, gwVars>>

\* push_request got its token: the polling deadline starts now.  If the client
\* left, printing the URLs raises.
PushOpened(s) ==
    /\ Loop
    /\ pc[s] = "request"
    /\ push[s] # "none"
    /\ \/ /\ gone[s]
          /\ Decide(s, "fail")
       \/ /\ ~gone[s]
          /\ pc'    = [pc EXCEPT ![s] = "poll"]
          /\ limit' = [limit EXCEPT ![s] = Deadline(PushTimeout)]
          /\ UNCHANGED <<src, typed, gone, verdict, wroteAt, gwVars>>
    /\ UNCHANGED faults

\* The push service did not answer, or its answer was lost.
PushUnreachable(s) ==
    /\ Loop
    /\ pc[s] \in {"request", "poll"}
    /\ Fault
    /\ FallBack(s)

\* push_poll_until_decision: a poll is answered; a pending push is slept on.
Poll(s) ==
    /\ Loop
    /\ pc[s] = "poll"
    /\ \/ Polled(s) = "approved" /\ Decide(s, "pass")
       \/ Polled(s) = "denied"   /\ Decide(s, "fail")
       \/ Polled(s) = "expired"  /\ FallBack(s)
       \/ /\ Polled(s) = "pending"
          /\ pc' = [pc EXCEPT ![s] = "asleep"]
          /\ UNCHANGED <<src, limit, typed, gone, verdict, wroteAt, gwVars>>
    /\ UNCHANGED faults

\* Slip: the loop has no deadline.
Wake_Endless(s) ==
    /\ Loop
    /\ pc[s] = "asleep"
    /\ pc' = [pc EXCEPT ![s] = "poll"]
    /\ UNCHANGED <<src, limit, typed, gone, verdict, wroteAt, gwVars, faults>>

\* push_poll_until_decision: after the sleep the deadline is looked at before
\* the push.
Wake(s) ==
    /\ Loop
    /\ pc[s] = "asleep"
    /\ \/ clock >= limit[s] /\ FallBack(s)
       \/ /\ clock < limit[s]
          /\ pc' = [pc EXCEPT ![s] = "poll"]
          /\ UNCHANGED <<src, limit, typed, gone, verdict, wroteAt, gwVars>>
    /\ UNCHANGED faults

\* data_received: the first line counts, whenever it comes.  ^C makes it
\* empty at any time; end of file only if nothing was typed.
Type(s, line) ==
    /\ Loop
    /\ pc[s] \in Open
    /\ ~gone[s]
    /\ typed[s] = "none" \/ (line = "empty" /\ typed[s] # "empty")
    /\ typed' = [typed EXCEPT ![s] = line]
    /\ UNCHANGED <<pc, src, limit, gone, verdict, wroteAt, gwVars, faults>>

\* The client goes away; _run_challenge is not told.
Leave(s) ==
    /\ Loop
    /\ pc[s] \in Open
    /\ ~gone[s]
    /\ gone' = [gone EXCEPT ![s] = TRUE]
    /\ UNCHANGED <<pc, src, limit, typed, verdict, wroteAt, gwVars, faults>>

\* Slip: a timeout is written as a decision of its own.
Code_OwnVerdict(s) ==
    /\ Loop
    /\ pc[s] = "totp"
    /\ \/ typed[s] = "valid" /\ Decide(s, "pass")
       \/ typed[s] \in {"wrong", "empty"} /\ Decide(s, "fail")
       \/ typed[s] = "none" /\ clock >= limit[s] /\ Decide(s, "timeout")
    /\ UNCHANGED faults

\* The wait for the code ends with a line or with the timeout; when both are
\* there, the line wins.
Code(s) ==
    /\ Loop
    /\ pc[s] = "totp"
    /\ \/ typed[s] = "valid" /\ Decide(s, "pass")
       \/ typed[s] \in {"wrong", "empty"} /\ Decide(s, "fail")
       \/ typed[s] = "none" /\ clock >= limit[s] /\ Decide(s, "fail")
    /\ UNCHANGED faults

-----------------------------------------------------------------------------
(* mfa_gateway.py: _write_decision, step by step as the workers see it     *)

Writing(step) == gw # NoOne /\ gwStep = step /\ UNCHANGED <<clock, simVars, rtVars>>

\* Slip: earlier decisions for the address are left in place.
Wipe_Nothing(d) ==
    /\ Writing(IF d = "pass" THEN "wipe_pass" ELSE "wipe_fail")
    /\ gwStep' = IF d = "pass" THEN "wipe_fail" ELSE "create"
    /\ UNCHANGED <<chVars, files, faults, gw, gwTry>>

\* An earlier decision for the address is unlinked; an error is ignored.
Wipe(d) ==
    /\ Writing(IF d = "pass" THEN "wipe_pass" ELSE "wipe_fail")
    /\ gwStep' = IF d = "pass" THEN "wipe_fail" ELSE "create"
    /\ \/ /\ files' = [files EXCEPT ![src[gw]][d] = Absent]
          /\ UNCHANGED faults
       \/ /\ Fault
          /\ UNCHANGED files
    /\ UNCHANGED <<chVars, gw, gwTry>>

\* write_text: the body, with its ts, is made, and the file is opened...
Create ==
    /\ Writing("create")
    /\ gwStep'  = "fill"
    /\ wroteAt' = [wroteAt EXCEPT ![gw] = clock]
    /\ files'   = [files EXCEPT ![src[gw]][verdict[gw]] = Blank]
    /\ UNCHANGED <<pc, src, limit, typed, gone, verdict, gw, gwTry, faults>>

\* ... and written, and the channel is closed.
Fill ==
    /\ Writing("fill")
    /\ files'  = [files EXCEPT ![src[gw]][verdict[gw]] = wroteAt[gw]]
    /\ pc'     = [pc EXCEPT ![gw] = "done"]
    /\ gw'     = NoOne
    /\ gwStep' = "none"
    /\ UNCHANGED <<src, limit, typed, gone, verdict, wroteAt, gwTry, faults>>

\* The write fails: the handler tries once to write "fail", then gives up.
WriteFails ==
    /\ gw # NoOne
    /\ gwStep \in {"create", "fill"}
    /\ Fault
    /\ \/ /\ gwTry = 1
          /\ gwTry'   = 2
          /\ gwStep'  = "wipe_pass"
          /\ verdict' = [verdict EXCEPT ![gw] = "fail"]
          /\ UNCHANGED <<pc, gw>>
       \/ /\ gwTry = 2
          /\ pc'     = [pc EXCEPT ![gw] = "done"]
          /\ gw'     = NoOne
          /\ gwStep' = "none"
          /\ UNCHANGED <<gwTry, verdict>>
    /\ UNCHANGED <<clock, simVars, src, limit, typed, gone, wroteAt, files, rtVars>>

-----------------------------------------------------------------------------
(* score_and_route.lua                                                     *)

Worker == UNCHANGED <<clock, simVars, chVars, gwVars>>
Routing(w) == rpc[w] \notin {"new", "done"}

\* compute_score: a context has the geography, the reputation (0..100), the
\* Tor flag, the recent failures and the odd hour.
Score(x) ==
    (CASE x.geo = "risky" -> 2 [] x.geo = "foreign" -> 1 [] OTHER -> 0)
    + (IF x.reputation >= 75 THEN 3 ELSE 0)
    + (IF x.tor THEN 2 ELSE 0)
    + (IF x.fails > 5 THEN (IF x.fails - 5 < 3 THEN x.fails - 5 ELSE 3) ELSE 0)
    + (IF x.odd THEN 1 ELSE 0)

\* pick_upstream
PickUpstream(score) ==
    IF score >= 6 THEN "plenith" ELSE IF score >= 3 THEN "mfa_relay" ELSE "real_prod"

\* main: a connection arrives.
Arrive(w, ip) ==
    /\ Worker
    /\ rpc[w] = "new"
    /\ rpc' = [rpc EXCEPT ![w] = "pass"]
    /\ rip' = [rip EXCEPT ![w] = ip]
    /\ overlap' = overlap \union {i \in {ip} : \E v \in Inbound : Routing(v) /\ rip[v] = i}
    /\ UNCHANGED <<rts, readAt, took, pool, leftover, files, faults>>

\* Slip: the age of a decision is not looked at.
Stale_Never(ts) == FALSE

Stale(ts) == clock - ts > Ttl

Dropping(d)  == IF d = "pass" THEN "drop_pass" ELSE "drop_fail"
Taking(d)    == IF d = "pass" THEN "take_pass" ELSE "take_fail"
AfterMiss(d) == IF d = "pass" THEN "fail" ELSE "score"

\* _consume_decision up to os.remove: a missing or unfinished file is passed
\* over, another one will be removed.
Read(w, d) ==
    LET ts == files[rip[w]][d] IN
    /\ Worker
    /\ rpc[w] = d
    /\ rts' = [rts EXCEPT ![w] = ts]
    /\ readAt' = [readAt EXCEPT ![w] = clock]
    /\ rpc' = [rpc EXCEPT ![w] = IF ts \in {Absent, Blank} THEN AfterMiss(d)
                                 ELSE IF Stale(ts) THEN Dropping(d) ELSE Taking(d)]
    /\ UNCHANGED <<rip, took, pool, overlap, leftover, files, faults>>

\* os.remove, by name: what is there now goes.  It may fail, and nobody looks.
Remove(w, d) == files' = [files EXCEPT ![rip[w]][d] = Absent]

\* A stale decision is removed and not used.
Drop(w, d) ==
    /\ Worker
    /\ rpc[w] = Dropping(d)
    /\ Remove(w, d) \/ UNCHANGED files
    /\ rpc' = [rpc EXCEPT ![w] = AfterMiss(d)]
    /\ UNCHANGED <<rip, rts, readAt, took, pool, overlap, leftover, faults>>

\* Slip: the decision is used but not removed.
Take_Keeps(w, d) ==
    /\ Worker
    /\ rpc[w] = Taking(d)
    /\ took'  = [took EXCEPT ![w] = d]
    /\ pool'  = [pool EXCEPT ![w] = IF d = "pass" THEN "real_prod" ELSE "plenith"]
    /\ rpc'   = [rpc EXCEPT ![w] = "done"]
    /\ UNCHANGED <<rip, rts, readAt, overlap, leftover, files, faults>>

\* A fresh decision is removed and decides the pool.
Take(w, d) ==
    /\ Worker
    /\ rpc[w] = Taking(d)
    /\ \/ Remove(w, d) /\ UNCHANGED leftover
       \/ UNCHANGED files /\ leftover' = [leftover EXCEPT ![rip[w]] = @ + 1]
    /\ took'  = [took EXCEPT ![w] = d]
    /\ pool'  = [pool EXCEPT ![w] = IF d = "pass" THEN "real_prod" ELSE "plenith"]
    /\ rpc'   = [rpc EXCEPT ![w] = "done"]
    /\ UNCHANGED <<rip, rts, readAt, overlap, faults>>

\* No decision: the score decides.
ScoreAndRoute(w, x) ==
    /\ Worker
    /\ rpc[w] = "score"
    /\ pool' = [pool EXCEPT ![w] = PickUpstream(Score(x))]
    /\ rpc'  = [rpc EXCEPT ![w] = "done"]
    /\ UNCHANGED <<rip, rts, readAt, took, overlap, leftover, files, faults>>

\* pcall caught an error in the pipeline: to the MFA relay.
RouteFails(w) ==
    /\ Worker
    /\ Routing(w)
    /\ Fault
    /\ pool' = [pool EXCEPT ![w] = "mfa_relay"]
    /\ rpc'  = [rpc EXCEPT ![w] = "done"]
    /\ UNCHANGED <<rip, rts, readAt, took, overlap, leftover, files>>

Tick ==
    /\ clock < MaxClock
    /\ clock' = clock + 1
    /\ UNCHANGED <<simVars, chVars, gwVars, files, rtVars, faults>>

-----------------------------------------------------------------------------
Init ==
    /\ clock = 0
    /\ push = [s \in Challenge |-> "none"]
    /\ pushAt = [s \in Challenge |-> 0]
    /\ pc = [s \in Challenge |-> "new"]
    /\ src = [s \in Challenge |-> CHOOSE i \in Ip : TRUE]  \* not known yet
    /\ limit = [s \in Challenge |-> 0]
    /\ typed = [s \in Challenge |-> "none"]
    /\ gone = [s \in Challenge |-> FALSE]
    /\ verdict = [s \in Challenge |-> "none"]
    /\ wroteAt = [s \in Challenge |-> Absent]
    /\ gw = NoOne
    /\ gwStep = "none"
    /\ gwTry = 1
    /\ files = [i \in Ip |-> [d \in Decision |-> Absent]]
    /\ rpc = [w \in Inbound |-> "new"]
    /\ rip = [w \in Inbound |-> CHOOSE i \in Ip : TRUE]
    /\ rts = [w \in Inbound |-> Absent]
    /\ readAt = [w \in Inbound |-> 0]
    /\ took = [w \in Inbound |-> "none"]
    /\ pool = [w \in Inbound |-> "none"]
    /\ overlap = {}
    /\ leftover = [i \in Ip |-> 0]
    /\ faults = 0

PushStep(s) ==
    \/ \E status \in AutoStatus : CreatePush(s, status)
    \/ \E status \in {"approved", "denied"} : Answer(s, status)

ClientStep(s) ==
    \/ \E ip \in Ip : OpenChallenge(s, ip)
    \/ \E line \in Lines : Type(s, line)
    \/ Leave(s)

GatewayStep(s) == PushOpened(s) \/ Poll(s) \/ Wake(s) \/ Code(s)

WriterStep == (\E d \in Decision : Wipe(d)) \/ Create \/ Fill

WorkerStep(w) ==
    \/ \E d \in Decision : Read(w, d) \/ Drop(w, d) \/ Take(w, d)
    \/ \E x \in Context : ScoreAndRoute(w, x)

Next ==
    \/ \E s \in Challenge : PushStep(s) \/ ClientStep(s) \/ GatewayStep(s) \/ PushUnreachable(s)
    \/ WriterStep
    \/ WriteFails
    \/ \E w \in Inbound : WorkerStep(w) \/ RouteFails(w) \/ \E ip \in Ip : Arrive(w, ip)
    \/ Tick

Spec == Init /\ [][Next]_vars

\* The gateway and the push service run, and time passes; clients, phones and
\* inbound connections owe nothing.
Fairness ==
    /\ WF_vars(Tick)
    /\ WF_vars(WriterStep)
    /\ \A s \in Challenge :
          /\ WF_vars(GatewayStep(s))
          /\ WF_vars(\E status \in AutoStatus : CreatePush(s, status))

FairSpec == Spec /\ Fairness

-----------------------------------------------------------------------------
(* Properties                                                              *)

PushTypes ==
    /\ clock \in Time
    /\ push \in [Challenge -> {"none", "pending", "approved", "denied"}]
    /\ pushAt \in [Challenge -> Time]
    /\ faults \in 0..MaxFaults

ChallengeTypes ==
    /\ pc \in [Challenge -> {"new", "request", "poll", "asleep", "totp", "writing", "done"}]
    /\ src \in [Challenge -> Ip]
    /\ limit \in [Challenge -> Nat]
    /\ typed \in [Challenge -> {"none", "valid", "wrong", "empty"}]
    /\ gone \in [Challenge -> BOOLEAN]
    /\ verdict \in [Challenge -> Decision \union {"none"}]
    /\ wroteAt \in [Challenge -> Time \union {Absent}]

WriterTypes ==
    /\ gw \in Challenge \union {NoOne}
    /\ gwStep \in {"none", "wipe_pass", "wipe_fail", "create", "fill"}
    /\ gwTry \in {1, 2}
    /\ files \in [Ip -> [Decision -> Time \union {Absent, Blank}]]

RouteTypes ==
    /\ rpc \in [Inbound -> {"new", "pass", "fail", "drop_pass", "drop_fail", "take_pass",
                            "take_fail", "score", "done"}]
    /\ rip \in [Inbound -> Ip]
    /\ rts \in [Inbound -> Time \union {Absent, Blank}]
    /\ readAt \in [Inbound -> Time]
    /\ took \in [Inbound -> Decision \union {"none"}]
    /\ pool \in [Inbound -> {"none", "real_prod", "mfa_relay", "plenith"}]
    /\ overlap \subseteq Ip
    /\ leftover \in [Ip -> Nat]

\* Every variable has the shape the code gives it.
TypeOK == PushTypes /\ ChallengeTypes /\ WriterTypes /\ RouteTypes

\* A connection that was let into production on a decision got it from a
\* challenge of its own address that a second factor had passed, written no
\* longer than the grace period before it was read (_run_challenge,
\* _write_decision, _consume_decision).
GrantIsEarned ==
    \A w \in Inbound : took[w] = "pass" =>
        /\ readAt[w] - rts[w] <= Ttl
        /\ \E s \in Challenge :
              /\ src[s] = rip[w]
              /\ verdict[s] = "pass" /\ wroteAt[s] = rts[w]
              /\ push[s] = "approved" \/ typed[s] = "valid"

\* An address never has a readable .pass beside a readable .fail as long as
\* the gateway's calls work, whether or not the workers' removals do:
\* "shouldn't happen since the gateway clears old decisions before writing the
\* new one" (check_mfa_decision, _write_decision).
OneDecisionOnFile ==
    faults = 0 => \A i \in Ip : ~(files[i]["pass"] \in Time /\ files[i]["fail"] \in Time)

\* As long as the connections of an address are routed one after another, as
\* many of them consume a decision as its challenges wrote, and one more for
\* each time a used decision could not be removed: the removal is all that
\* makes it single, and its failure is not looked at (_consume_decision).
SingleUseIfSerial ==
    \A i \in Ip \ overlap :
        Cardinality({w \in Inbound : rip[w] = i /\ took[w] # "none"})
            <= Cardinality({s \in Challenge : src[s] = i /\ wroteAt[s] # Absent}) + leftover[i]

\* A challenge that was opened writes its decision, or fails twice to: the
\* deadlines bound every wait, also when the phone is silent and the client has
\* gone (push_poll_until_decision, _run_challenge).
ChallengeEnds == \A s \in Challenge : (pc[s] = "request") ~> (pc[s] = "done")

\* "a single decision authorizes exactly one inbound session", also where every
\* removal of a used decision works.
SingleUse ==
    \A i \in Ip : leftover[i] = 0 =>
        Cardinality({w \in Inbound : rip[w] = i /\ took[w] # "none"})
            <= Cardinality({s \in Challenge : src[s] = i /\ wroteAt[s] # Absent})
=============================================================================
