-------------------------- MODULE MfaRoutingProofs --------------------------
(***************************************************************************)
(* That a grant is earned, that no worker finds two decisions of an        *)
(* address while every call works, and that connections routed one after   *)
(* another use each decision once, for any number of challenges,           *)
(* addresses and workers and any timeouts; the first and the last of them  *)
(* for any failures.                                                       *)
(***************************************************************************)
EXTENDS MfaRouting, FiniteSetTheorems, TLAPS

\* A second factor of the challenge was good.
Proven(s) == push[s] = "approved" \/ typed[s] = "valid"

\* A finished challenge of address i passed and wrote ts.
Earned(i, ts) ==
    \E s \in Challenge :
        /\ src[s] = i /\ pc[s] = "done"
        /\ verdict[s] = "pass" /\ wroteAt[s] = ts
        /\ Proven(s)

\* The challenge in _write_decision stays there until it is done, and is about
\* to write a pass only with a good factor.
WriterInv ==
    gw # NoOne =>
        /\ pc[gw] = "writing"
        /\ verdict[gw] \in Decision
        /\ verdict[gw] = "pass" => Proven(gw)

\* A complete .pass is an earned one.
FileInv == \A i \in Ip : files[i]["pass"] \in Time => Earned(i, files[i]["pass"])

Granted(w) == readAt[w] - rts[w] <= Ttl /\ Earned(rip[w], rts[w])

\* So is one that a worker has read, before and after it has removed it.
WorkerInv ==
    \A w \in Inbound :
        /\ rpc[w] = "take_pass" => Granted(w)
        /\ took[w] = "pass" => rpc[w] = "done" /\ Granted(w)

GrantInv == TypeOK /\ WriterInv /\ FileInv /\ WorkerInv

LEMMA Times == Time \subseteq Int /\ Absent \in Int /\ Blank \in Int
               /\ Absent \notin Time /\ Blank \notin Time /\ Ttl \in Int
BY MfaAssumption DEF Time, Absent, Blank

-----------------------------------------------------------------------------
(* Types                                                                   *)

LEMMA TypeInit == Init => TypeOK
<1> SUFFICES ASSUME Init PROVE TypeOK
  OBVIOUS
<1>0. (CHOOSE i \in Ip : TRUE) \in Ip
  BY MfaAssumption
<1>1. PushTypes
  BY MfaAssumption DEF Init, PushTypes, Time
<1>2. ChallengeTypes
  BY <1>0 DEF Init, ChallengeTypes
<1>3. WriterTypes
  BY DEF Init, WriterTypes
<1>4. RouteTypes
  BY <1>0, MfaAssumption DEF Init, RouteTypes, Time
<1> QED
  BY <1>1, <1>2, <1>3, <1>4 DEF TypeOK

LEMMA DeadlineType == TypeOK => Deadline(PushTimeout) \in Nat /\ Deadline(ChallengeTimeout) \in Nat
BY MfaAssumption DEF TypeOK, PushTypes, Time, Deadline

\* A decision file that is replaced, or removed, leaves the rest as it was.
LEMMA FileType ==
    ASSUME TypeOK, NEW i \in Ip, NEW d \in Decision, NEW ts \in Time \union {Absent, Blank}
    PROVE  [files EXCEPT ![i][d] = ts] \in [Ip -> [Decision -> Time \union {Absent, Blank}]]
BY DEF TypeOK, WriterTypes

LEMMA FaultType == TypeOK /\ Fault => faults' \in 0..MaxFaults
BY MfaAssumption DEF TypeOK, PushTypes, Fault

\* A decision and a fallback keep the types of challenge and writer.
LEMMA DecideTypes ==
    ASSUME TypeOK, NEW s \in Challenge, NEW d \in Decision, Decide(s, d), UNCHANGED files
    PROVE  ChallengeTypes' /\ WriterTypes'
<1>1. ChallengeTypes'
  BY DEF TypeOK, ChallengeTypes, Decide, Decision
<1>2. WriterTypes'
  BY DEF TypeOK, WriterTypes, Decide
<1> QED
  BY <1>1, <1>2

\* A challenge that goes on to wait, for the phone or for a line, keeps its type.
LEMMA WaitTypes ==
    ASSUME TypeOK, NEW s \in Challenge, NEW p \in {"poll", "totp"}, NEW until \in Nat,
           pc' = [pc EXCEPT ![s] = p], limit' = [limit EXCEPT ![s] = until],
           UNCHANGED <<src, typed, gone, verdict, wroteAt, gwVars, files>>
    PROVE  ChallengeTypes' /\ WriterTypes'
<1>1. pc' \in [Challenge -> {"new", "request", "poll", "asleep", "totp", "writing", "done"}]
  BY DEF TypeOK, ChallengeTypes
<1>2. limit' \in [Challenge -> Nat]
  BY DEF TypeOK, ChallengeTypes
<1>3. ChallengeTypes'
  BY <1>1, <1>2 DEF TypeOK, ChallengeTypes
<1>4. WriterTypes'
  BY DEF TypeOK, WriterTypes, gwVars
<1> QED
  BY <1>3, <1>4

\* Falling back to the code, or to "fail", keeps them too (_run_challenge).
LEMMA FallBackTypes ==
    ASSUME TypeOK, NEW s \in Challenge, FallBack(s), UNCHANGED files
    PROVE  ChallengeTypes' /\ WriterTypes'
<1>1. CASE Decide(s, "fail")
  BY <1>1, DecideTypes DEF Decision
<1>2. CASE ~Decide(s, "fail")
  <2>1. /\ pc' = [pc EXCEPT ![s] = "totp"]
        /\ limit' = [limit EXCEPT ![s] = Deadline(ChallengeTimeout)]
        /\ UNCHANGED <<src, typed, gone, verdict, wroteAt, gwVars>>
    BY <1>2 DEF FallBack
  <2>2. Deadline(ChallengeTimeout) \in Nat
    BY DeadlineType
  <2> QED
    BY <2>1, <2>2, WaitTypes
<1> QED
  BY <1>1, <1>2

LEMMA TypeNext == TypeOK /\ WriterInv /\ [Next]_vars => TypeOK'
<1> SUFFICES ASSUME TypeOK, WriterInv, [Next]_vars PROVE TypeOK'
  OBVIOUS
<1> USE DEF Loop
<1>1. ASSUME NEW s \in Challenge, PushStep(s) PROVE TypeOK'
  <2>1. UNCHANGED <<clock, chVars, gwVars, files, rtVars, faults>>
    BY <1>1 DEF PushStep, CreatePush, Answer
  <2>2. push' \in [Challenge -> {"none", "pending", "approved", "denied"}]
    BY <1>1, MfaAssumption DEF PushStep, CreatePush, Answer, TypeOK, PushTypes
  <2>3. pushAt' \in [Challenge -> Time]
    BY <1>1 DEF PushStep, CreatePush, Answer, TypeOK, PushTypes
  <2> QED
    BY <2>1, <2>2, <2>3 DEF TypeOK, PushTypes, ChallengeTypes, WriterTypes, RouteTypes,
                            chVars, gwVars, rtVars
<1>2. ASSUME NEW s \in Challenge, ClientStep(s) PROVE TypeOK'
  <2>1. UNCHANGED <<clock, simVars, gwVars, files, rtVars, faults, limit, verdict, wroteAt>>
    BY <1>2 DEF ClientStep, OpenChallenge, Type, Leave
  <2>2. ChallengeTypes'
    <3>1. CASE \E ip \in Ip : OpenChallenge(s, ip)
      BY <3>1 DEF OpenChallenge, TypeOK, ChallengeTypes
    <3>2. CASE \E line \in Lines : Type(s, line)
      BY <3>2, MfaAssumption DEF Type, TypeOK, ChallengeTypes
    <3>3. CASE Leave(s)
      BY <3>3 DEF Leave, TypeOK, ChallengeTypes
    <3> QED
      BY <3>1, <3>2, <3>3, <1>2 DEF ClientStep
  <2> QED
    BY <2>1, <2>2 DEF TypeOK, PushTypes, WriterTypes, RouteTypes, simVars, gwVars, rtVars
<1>3. ASSUME NEW s \in Challenge, GatewayStep(s) PROVE TypeOK'
  <2>1. UNCHANGED <<clock, simVars, files, rtVars, faults>>
    BY <1>3 DEF GatewayStep, PushOpened, Poll, Wake, Code
  <2>2. ChallengeTypes' /\ WriterTypes'
    <3>0. ASSUME NEW d \in Decision, Decide(s, d) PROVE ChallengeTypes' /\ WriterTypes'
      BY <3>0, <2>1, DecideTypes
    <3>00. "pass" \in Decision /\ "fail" \in Decision
      BY DEF Decision
    <3>a. ASSUME FallBack(s) PROVE ChallengeTypes' /\ WriterTypes'
      BY <3>a, <2>1, FallBackTypes
    <3>1. CASE PushOpened(s)
      <4>1. CASE gone[s]
        BY <3>1, <3>0, <3>00, <4>1 DEF PushOpened
      <4>2. CASE ~gone[s]
        <5>1. /\ pc' = [pc EXCEPT ![s] = "poll"]
              /\ limit' = [limit EXCEPT ![s] = Deadline(PushTimeout)]
              /\ UNCHANGED <<src, typed, gone, verdict, wroteAt, gwVars>>
          BY <3>1, <4>2 DEF PushOpened
        <5>2. Deadline(PushTimeout) \in Nat
          BY DeadlineType
        <5> QED
          BY <5>1, <5>2, <2>1, WaitTypes
      <4> QED
        BY <4>1, <4>2
    <3>2. CASE Poll(s)
      <4>1. CASE Polled(s) = "pending"
        BY <3>2, <4>1, <2>1 DEF Poll, TypeOK, ChallengeTypes, WriterTypes, gwVars
      <4>2. CASE Polled(s) # "pending"
        BY <3>2, <3>0, <3>00, <3>a, <4>2 DEF Poll
      <4> QED
        BY <4>1, <4>2
    <3>3. CASE Wake(s)
      <4>1. CASE FallBack(s)
        BY <4>1, <3>a
      <4>2. CASE ~FallBack(s)
        BY <3>3, <4>2, <2>1 DEF Wake, TypeOK, ChallengeTypes, WriterTypes, gwVars
      <4> QED
        BY <4>1, <4>2
    <3>4. CASE Code(s)
      BY <3>4, <3>0, <3>00 DEF Code
    <3> QED
      BY <1>3, <3>1, <3>2, <3>3, <3>4 DEF GatewayStep
  <2> QED
    BY <2>1, <2>2 DEF TypeOK, PushTypes, RouteTypes, simVars, rtVars
<1>4. ASSUME NEW s \in Challenge, PushUnreachable(s) PROVE TypeOK'
  <2>1. UNCHANGED <<clock, simVars, files, rtVars>> /\ faults' \in 0..MaxFaults
    BY <1>4, FaultType DEF PushUnreachable
  <2>2. ChallengeTypes' /\ WriterTypes'
    BY <1>4, <2>1, FallBackTypes DEF PushUnreachable
  <2> QED
    BY <2>1, <2>2 DEF TypeOK, PushTypes, RouteTypes, simVars, rtVars
<1>5. ASSUME NEW d \in Decision, Wipe(d) PROVE TypeOK'
  <2>1. UNCHANGED <<clock, simVars, chVars, rtVars, gw, gwTry>> /\ faults' \in 0..MaxFaults
    BY <1>5, FaultType DEF Wipe, Writing, TypeOK, PushTypes
  <2>2. gw \in Challenge /\ src[gw] \in Ip
    BY <1>5 DEF Wipe, Writing, TypeOK, WriterTypes, ChallengeTypes
  <2>3. files' \in [Ip -> [Decision -> Time \union {Absent, Blank}]]
    <3>1. UNCHANGED files \/ files' = [files EXCEPT ![src[gw]][d] = Absent]
      BY <1>5 DEF Wipe
    <3>2. CASE UNCHANGED files
      BY <3>2 DEF TypeOK, WriterTypes
    <3>3. CASE files' = [files EXCEPT ![src[gw]][d] = Absent]
      BY <2>2, <3>3, FileType
    <3> QED
      BY <3>1, <3>2, <3>3
  <2>4. WriterTypes'
    BY <1>5, <2>1, <2>3 DEF Wipe, TypeOK, WriterTypes
  <2> QED
    BY <2>1, <2>4 DEF TypeOK, PushTypes, ChallengeTypes, RouteTypes, simVars, chVars, rtVars
<1>6. CASE Create \/ Fill
  <2>1. UNCHANGED <<clock, simVars, rtVars, faults>> /\ gw \in Challenge
    BY <1>6 DEF Create, Fill, Writing, TypeOK, WriterTypes
  <2>2. ChallengeTypes'
    BY <1>6, <2>1 DEF Create, Fill, TypeOK, ChallengeTypes, PushTypes
  <2>3. src[gw] \in Ip /\ wroteAt[gw] \in Time \union {Absent, Blank}
    BY <2>1 DEF TypeOK, ChallengeTypes
  <2>4. verdict[gw] \in Decision
    BY <1>6 DEF Create, Fill, Writing, WriterInv
  <2>5. files' \in [Ip -> [Decision -> Time \union {Absent, Blank}]]
    <3>1. PICK ts \in Time \union {Absent, Blank} : files' = [files EXCEPT ![src[gw]][verdict[gw]] = ts]
      BY <1>6, <2>3 DEF Create, Fill
    <3> QED
      BY <2>3, <2>4, <3>1, FileType
  <2>6. WriterTypes'
    BY <1>6, <2>1, <2>5 DEF Create, Fill, TypeOK, WriterTypes
  <2> QED
    BY <2>1, <2>2, <2>6 DEF TypeOK, PushTypes, RouteTypes, simVars, rtVars
<1>7. CASE WriteFails
  <2>1. UNCHANGED <<clock, simVars, rtVars, files>> /\ gw \in Challenge /\ faults' \in 0..MaxFaults
    BY <1>7, FaultType DEF WriteFails, TypeOK, WriterTypes
  <2>2. ChallengeTypes'
    BY <1>7, <2>1 DEF WriteFails, TypeOK, ChallengeTypes, Decision
  <2>3. WriterTypes'
    BY <1>7, <2>1 DEF WriteFails, TypeOK, WriterTypes
  <2> QED
    BY <2>1, <2>2, <2>3 DEF TypeOK, PushTypes, RouteTypes, simVars, rtVars
<1>8. ASSUME NEW w \in Inbound, WorkerStep(w) \/ RouteFails(w) \/ \E ip \in Ip : Arrive(w, ip)
      PROVE TypeOK'
  <2>1. UNCHANGED <<clock, simVars, chVars, gwVars>> /\ faults' \in 0..MaxFaults
    BY <1>8, FaultType DEF WorkerStep, RouteFails, Arrive, Read, Drop, Take, ScoreAndRoute, Worker,
                           TypeOK, PushTypes
  <2>2. RouteTypes' /\ files' \in [Ip -> [Decision -> Time \union {Absent, Blank}]]
    <3>1. ASSUME NEW d \in Decision, Read(w, d) PROVE RouteTypes' /\ UNCHANGED files
      BY <3>1 DEF Read, TypeOK, RouteTypes, WriterTypes, PushTypes, AfterMiss, Dropping, Taking
    <3>2. ASSUME NEW d \in Decision, Drop(w, d) \/ Take(w, d)
          PROVE  RouteTypes' /\ files' \in [Ip -> [Decision -> Time \union {Absent, Blank}]]
      <4>1. rip[w] \in Ip /\ Absent \in Time \union {Absent, Blank}
        BY DEF TypeOK, RouteTypes
      <4>2. files' \in [Ip -> [Decision -> Time \union {Absent, Blank}]]
        <5>1. files' = [files EXCEPT ![rip[w]][d] = Absent] \/ UNCHANGED files
          BY <3>2 DEF Drop, Take, Remove
        <5>2. files \in [Ip -> [Decision -> Time \union {Absent, Blank}]]
          BY DEF TypeOK, WriterTypes
        <5>3. CASE files' = [files EXCEPT ![rip[w]][d] = Absent]
          <6> HIDE DEF Absent, Blank, Time, Decision
          <6>1. d \in Decision
            BY <3>2
          <6> QED
            BY <5>2, <5>3, <6>1, <4>1, FileType
        <5> QED
          BY <5>1, <5>2, <5>3
      <4>3. CASE Drop(w, d)
        BY <4>2, <4>3 DEF Drop, TypeOK, RouteTypes, AfterMiss
      <4>4. CASE Take(w, d)
        BY <4>2, <4>4 DEF Take, TypeOK, RouteTypes
      <4> QED
        BY <3>2, <4>3, <4>4
    <3>3. ASSUME NEW x \in Context, ScoreAndRoute(w, x) PROVE RouteTypes' /\ UNCHANGED files
      <4>1. PickUpstream(Score(x)) \in {"real_prod", "mfa_relay", "plenith"}
        BY DEF PickUpstream
      <4> QED
        BY <3>3, <4>1 DEF ScoreAndRoute, TypeOK, RouteTypes
    <3>4. ASSUME RouteFails(w) PROVE RouteTypes' /\ UNCHANGED files
      BY <3>4 DEF RouteFails, TypeOK, RouteTypes
    <3>5. ASSUME NEW ip \in Ip, Arrive(w, ip) PROVE RouteTypes' /\ UNCHANGED files
      BY <3>5 DEF Arrive, TypeOK, RouteTypes
    <3>6. files \in [Ip -> [Decision -> Time \union {Absent, Blank}]]
      BY DEF TypeOK, WriterTypes
    <3> QED
      BY <1>8, <3>1, <3>2, <3>3, <3>4, <3>5, <3>6 DEF WorkerStep
  <2> QED
    BY <2>1, <2>2 DEF TypeOK, PushTypes, ChallengeTypes, WriterTypes, simVars, chVars, gwVars
<1>9. CASE Tick
  <2>1. clock' \in Time
    BY <1>9, MfaAssumption DEF Tick, TypeOK, PushTypes, Time
  <2> QED
    BY <1>9, <2>1 DEF Tick, TypeOK, PushTypes, ChallengeTypes, WriterTypes, RouteTypes, simVars,
                      chVars, gwVars, rtVars
<1>10. CASE UNCHANGED vars
  BY <1>10 DEF vars, TypeOK, PushTypes, ChallengeTypes, WriterTypes, RouteTypes, simVars,
               chVars, gwVars, rtVars
<1> QED
  BY <1>1, <1>2, <1>3, <1>4, <1>5, <1>6, <1>7, <1>8, <1>9, <1>10 DEF Next, WriterStep

-----------------------------------------------------------------------------
(* What a finished challenge has shown stays                               *)

\* A challenge that is done, or being written, is not touched by its client or
\* by its phone any more, and a done one not at all.
Kept(s) ==
    /\ pc[s] = "done" => pc'[s] = "done" /\ verdict'[s] = verdict[s] /\ wroteAt'[s] = wroteAt[s]
    /\ pc[s] \in {"writing", "done"} => src'[s] = src[s] /\ (Proven(s) => Proven(s)')

LEMMA ChallengesKept == TypeOK /\ WriterInv /\ [Next]_vars => \A t \in Challenge : Kept(t)
<1> SUFFICES ASSUME TypeOK, WriterInv, [Next]_vars, NEW t \in Challenge PROVE Kept(t)
  OBVIOUS
<1> USE DEF Kept, Proven, Loop
<1>1. ASSUME NEW s \in Challenge, PushStep(s) PROVE Kept(t)
  BY <1>1 DEF PushStep, CreatePush, Answer, chVars, TypeOK, PushTypes
<1>2. ASSUME NEW s \in Challenge, ClientStep(s) PROVE Kept(t)
  BY <1>2 DEF ClientStep, OpenChallenge, Type, Leave, Open, simVars, TypeOK, ChallengeTypes
<1>3. ASSUME NEW s \in Challenge, pc[s] \notin {"writing", "done"},
             FallBack(s) \/ \E d \in Decision : Decide(s, d), UNCHANGED simVars
      PROVE  Kept(t)
  BY <1>3 DEF FallBack, Decide, simVars, TypeOK, ChallengeTypes
<1>4. ASSUME NEW s \in Challenge, GatewayStep(s) \/ PushUnreachable(s) PROVE Kept(t)
  <2>1. pc[s] \notin {"writing", "done"} /\ UNCHANGED simVars
    BY <1>4 DEF GatewayStep, PushOpened, Poll, Wake, Code, PushUnreachable
  <2>2. CASE FallBack(s) \/ \E d \in Decision : Decide(s, d)
    BY <2>1, <2>2, <1>3
  <2>3. CASE ~(FallBack(s) \/ \E d \in Decision : Decide(s, d))
    BY <1>4, <2>1, <2>3 DEF GatewayStep, PushOpened, Poll, Wake, Code, PushUnreachable, Decision,
                            simVars, TypeOK, ChallengeTypes
  <2> QED
    BY <2>2, <2>3
<1>5. CASE WriterStep
  BY <1>5 DEF WriterStep, Wipe, Create, Fill, Writing, WriterInv, chVars, simVars, TypeOK,
              ChallengeTypes
<1>6. CASE WriteFails
  BY <1>6 DEF WriteFails, WriterInv, simVars, TypeOK, ChallengeTypes
<1>7. ASSUME NEW w \in Inbound, WorkerStep(w) \/ RouteFails(w) \/ \E ip \in Ip : Arrive(w, ip)
      PROVE  Kept(t)
  BY <1>7 DEF WorkerStep, RouteFails, Arrive, Read, Drop, Take, ScoreAndRoute, Worker, chVars,
              simVars
<1>8. CASE Tick \/ UNCHANGED vars
  BY <1>8 DEF Tick, vars, chVars, simVars
<1> QED
  BY <1>1, <1>2, <1>4, <1>5, <1>6, <1>7, <1>8 DEF Next

LEMMA EarnedKept ==
    ASSUME TypeOK, WriterInv, [Next]_vars, NEW i \in Ip, NEW ts, Earned(i, ts)
    PROVE  Earned(i, ts)'
<1>1. PICK s \in Challenge : /\ src[s] = i /\ pc[s] = "done"
                             /\ verdict[s] = "pass" /\ wroteAt[s] = ts
                             /\ Proven(s)
  BY DEF Earned
<1>2. src'[s] = i /\ pc'[s] = "done" /\ verdict'[s] = "pass" /\ wroteAt'[s] = ts /\ Proven(s)'
  BY <1>1, ChallengesKept DEF Kept
<1> QED
  BY <1>2 DEF Earned

-----------------------------------------------------------------------------
(* The inductive invariant                                                 *)

LEMMA WriterNext == TypeOK /\ WriterInv /\ [Next]_vars => WriterInv'
<1> SUFFICES ASSUME TypeOK, WriterInv, [Next]_vars PROVE WriterInv'
  OBVIOUS
<1> USE DEF Loop
<1>0. gw \in Challenge \union {NoOne} /\ NoOne \notin Challenge /\ \A t \in Challenge : Kept(t)
  BY MfaAssumption, ChallengesKept DEF TypeOK, WriterTypes
<1>1. ASSUME gw' = gw, gw # NoOne => pc'[gw] = pc[gw] /\ verdict'[gw] = verdict[gw] PROVE WriterInv'
  BY <1>0, <1>1 DEF WriterInv, Kept, Proven
<1>2. ASSUME NEW s \in Challenge, NEW d \in Decision, Decide(s, d), UNCHANGED simVars,
             d = "pass" => Proven(s)
      PROVE  WriterInv'
  BY <1>2 DEF Decide, WriterInv, Proven, simVars, Decision, TypeOK, ChallengeTypes
<1>3. ASSUME gw' = NoOne PROVE WriterInv'
  BY <1>3 DEF WriterInv
<1>4. ASSUME NEW s \in Challenge, FallBack(s), UNCHANGED simVars, gw = NoOne PROVE WriterInv'
  <2>1. CASE Decide(s, "fail")
    BY <2>1, <1>4, <1>2 DEF Decision
  <2>2. CASE ~Decide(s, "fail")
    BY <2>2, <1>4, <1>3 DEF FallBack, gwVars
  <2> QED
    BY <2>1, <2>2
<1>5. ASSUME NEW s \in Challenge, PushStep(s) PROVE WriterInv'
  BY <1>5, <1>1 DEF PushStep, CreatePush, Answer, chVars, gwVars
<1>6. ASSUME NEW s \in Challenge, ClientStep(s) PROVE WriterInv'
  BY <1>6, <1>3 DEF ClientStep, OpenChallenge, Type, Leave, gwVars
<1>7. ASSUME NEW s \in Challenge, GatewayStep(s) PROVE WriterInv'
  <2>0. gw = NoOne /\ UNCHANGED simVars /\ "pass" \in Decision /\ "fail" \in Decision
    BY <1>7 DEF GatewayStep, PushOpened, Poll, Wake, Code, Decision
  <2>1. CASE PushOpened(s)
    BY <2>0, <2>1, <1>2, <1>3 DEF PushOpened, gwVars
  <2>2. CASE Poll(s)
    <3>1. Polled(s) = "approved" => Proven(s)
      BY DEF Polled, Proven
    <3> QED
      BY <2>0, <2>2, <3>1, <1>2, <1>3, <1>4 DEF Poll, gwVars
  <2>3. CASE Wake(s)
    BY <2>0, <2>3, <1>3, <1>4 DEF Wake, gwVars
  <2>4. CASE Code(s)
    BY <2>0, <2>4, <1>2 DEF Code, Proven
  <2> QED
    BY <1>7, <2>1, <2>2, <2>3, <2>4 DEF GatewayStep
<1>8. ASSUME NEW s \in Challenge, PushUnreachable(s) PROVE WriterInv'
  BY <1>8, <1>4 DEF PushUnreachable
<1>9. CASE WriterStep
  BY <1>9, <1>1, <1>3 DEF WriterStep, Wipe, Create, Fill, chVars
<1>10. CASE WriteFails
  BY <1>10, <1>0, <1>3 DEF WriteFails, WriterInv, Decision, TypeOK, ChallengeTypes
<1>11. ASSUME NEW w \in Inbound, WorkerStep(w) \/ RouteFails(w) \/ \E ip \in Ip : Arrive(w, ip)
       PROVE  WriterInv'
  BY <1>11, <1>1 DEF WorkerStep, RouteFails, Arrive, Read, Drop, Take, ScoreAndRoute, Worker,
                     chVars, gwVars
<1>12. CASE Tick \/ UNCHANGED vars
  BY <1>12, <1>1 DEF Tick, vars, chVars, gwVars
<1> QED
  BY <1>5, <1>6, <1>7, <1>8, <1>9, <1>10, <1>11, <1>12 DEF Next

\* A .pass is completed by Fill alone, for a challenge that is then done; every
\* other step leaves it, empties it or removes it.
LEMMA FileNext == TypeOK /\ WriterInv /\ FileInv /\ [Next]_vars => FileInv'
<1> SUFFICES ASSUME TypeOK, WriterInv, FileInv, [Next]_vars, NEW i \in Ip,
                    files'[i]["pass"] \in Time
             PROVE  Earned(i, files[i]["pass"])'
  BY DEF FileInv
<1> USE DEF Loop
<1>0. "pass" \in Decision /\ files \in [Ip -> [Decision -> Time \union {Absent, Blank}]]
  BY DEF TypeOK, WriterTypes, Decision
<1>1. CASE files'[i]["pass"] = files[i]["pass"]
  <2>1. Earned(i, files[i]["pass"])
    BY <1>1 DEF FileInv
  <2>2. PICK ts : ts = files[i]["pass"]
    OBVIOUS
  <2>3. Earned(i, ts)'
    BY <2>1, <2>2, EarnedKept
  <2> QED
    BY <2>2, <2>3, <1>1
<1>2. ASSUME NEW j \in Ip, NEW d \in Decision, NEW ts, ts \notin Time,
             files' = [files EXCEPT ![j][d] = ts]
      PROVE  files'[i]["pass"] = files[i]["pass"]
  BY <1>2, <1>0
<1>3. CASE Fill
  <2>1. gw \in Challenge /\ src[gw] \in Ip /\ verdict[gw] \in Decision
    BY <1>3 DEF Fill, Writing, WriterInv, TypeOK, WriterTypes, ChallengeTypes
  <2>2. CASE src[gw] = i /\ verdict[gw] = "pass"
    <3>1. files'[i]["pass"] = wroteAt[gw]
      BY <1>0, <1>3, <2>1, <2>2 DEF Fill
    <3>2. pc'[gw] = "done" /\ UNCHANGED <<src, verdict, wroteAt, push, typed>>
      BY <1>3, <2>1 DEF Fill, Writing, simVars, TypeOK, ChallengeTypes
    <3>3. push[gw] = "approved" \/ typed[gw] = "valid"
      BY <1>3, <2>2 DEF Fill, Writing, WriterInv, Proven
    <3> QED
      BY <2>1, <2>2, <3>1, <3>2, <3>3 DEF Earned, Proven
  <2>3. CASE ~(src[gw] = i /\ verdict[gw] = "pass")
    BY <1>0, <1>1, <1>3, <2>1, <2>3 DEF Fill
  <2> QED
    BY <2>2, <2>3
<1>4. CASE Create
  <2>1. src[gw] \in Ip /\ verdict[gw] \in Decision
    BY <1>4 DEF Create, Writing, WriterInv, TypeOK, WriterTypes, ChallengeTypes
  <2> QED
    BY <1>1, <1>2, <1>4, <2>1, Times DEF Create
<1>5. ASSUME NEW d \in Decision, Wipe(d) PROVE files'[i]["pass"] = files[i]["pass"]
  <2>1. src[gw] \in Ip
    BY <1>5 DEF Wipe, Writing, TypeOK, WriterTypes, ChallengeTypes
  <2> QED
    BY <1>2, <1>5, <2>1, Times DEF Wipe
<1>6. ASSUME NEW w \in Inbound, WorkerStep(w) \/ RouteFails(w) \/ \E ip \in Ip : Arrive(w, ip)
      PROVE  files'[i]["pass"] = files[i]["pass"]
  <2>1. rip[w] \in Ip
    BY DEF TypeOK, RouteTypes
  <2>2. ASSUME NEW d \in Decision, Drop(w, d) \/ Take(w, d)
        PROVE  files'[i]["pass"] = files[i]["pass"]
    <3>1. files' = [files EXCEPT ![rip[w]][d] = Absent] \/ UNCHANGED files
      BY <2>2 DEF Drop, Take, Remove
    <3> QED
      BY <3>1, <1>2, <2>1, Times
  <2>3. CASE UNCHANGED files
    BY <2>3
  <2> QED
    BY <1>6, <2>2, <2>3 DEF WorkerStep, RouteFails, Arrive, Read, ScoreAndRoute
<1>7. CASE UNCHANGED files
  BY <1>1, <1>7
<1>8. ASSUME NEW s \in Challenge, PushStep(s) \/ ClientStep(s) \/ GatewayStep(s) \/ PushUnreachable(s)
      PROVE  UNCHANGED files
  BY <1>8 DEF PushStep, CreatePush, Answer, ClientStep, OpenChallenge, Type, Leave, GatewayStep,
              PushOpened, Poll, Wake, Code, PushUnreachable
<1>9. CASE WriteFails \/ Tick \/ UNCHANGED vars
  BY <1>7, <1>9 DEF WriteFails, Tick, vars
<1> QED
  BY <1>1, <1>3, <1>4, <1>5, <1>6, <1>7, <1>8, <1>9 DEF Next, WriterStep

\* A worker takes up a .pass as it reads it, fresh and earned, and keeps both
\* what it read and the decision when it is done.
LEMMA WorkerNext == GrantInv /\ [Next]_vars => WorkerInv'
<1> SUFFICES ASSUME GrantInv, [Next]_vars, NEW v \in Inbound
             PROVE  /\ rpc'[v] = "take_pass" => Granted(v)'
                    /\ took'[v] = "pass" => rpc'[v] = "done" /\ Granted(v)'
  BY DEF WorkerInv
<1> USE DEF GrantInv, Loop
<1>1. ASSUME Granted(v), UNCHANGED <<rip[v], rts[v], readAt[v]>> PROVE Granted(v)'
  <2>1. rip[v] \in Ip
    BY DEF TypeOK, RouteTypes
  <2>2. PICK i \in Ip, ts \in {rts[v]} : i = rip[v]
    BY <2>1
  <2>3. Earned(i, ts)'
    BY <1>1, <2>2, EarnedKept DEF Granted
  <2> QED
    BY <1>1, <2>2, <2>3 DEF Granted
<1>2. ASSUME UNCHANGED <<rip[v], rts[v], readAt[v]>>,
             rpc'[v] = "take_pass" => rpc[v] = "take_pass",
             took'[v] = "pass" => \/ took[v] = "pass" /\ rpc'[v] = rpc[v]
                                  \/ rpc[v] = "take_pass" /\ rpc'[v] = "done"
      PROVE  /\ rpc'[v] = "take_pass" => Granted(v)'
             /\ took'[v] = "pass" => rpc'[v] = "done" /\ Granted(v)'
  BY <1>1, <1>2 DEF WorkerInv
<1>3. CASE UNCHANGED rtVars
  BY <1>2, <1>3 DEF rtVars
<1>4. ASSUME NEW s \in Challenge, PushStep(s) \/ ClientStep(s) \/ GatewayStep(s) \/ PushUnreachable(s)
      PROVE  UNCHANGED rtVars
  BY <1>4 DEF PushStep, CreatePush, Answer, ClientStep, OpenChallenge, Type, Leave, GatewayStep,
              PushOpened, Poll, Wake, Code, PushUnreachable
<1>5. CASE WriterStep \/ WriteFails \/ Tick \/ UNCHANGED vars
  BY <1>3, <1>5 DEF WriterStep, Wipe, Create, Fill, Writing, WriteFails, Tick, vars
<1>6. ASSUME NEW w \in Inbound, NEW ip \in Ip, Arrive(w, ip)
      PROVE  /\ rpc'[v] = "take_pass" => Granted(v)'
             /\ took'[v] = "pass" => rpc'[v] = "done" /\ Granted(v)'
  <2>1. CASE v = w
    BY <1>6, <2>1 DEF Arrive, WorkerInv, TypeOK, RouteTypes
  <2>2. CASE v # w
    BY <1>2, <1>6, <2>2 DEF Arrive, TypeOK, RouteTypes
  <2> QED
    BY <2>1, <2>2
<1>7. ASSUME NEW w \in Inbound, NEW d \in Decision, Read(w, d)
      PROVE  /\ rpc'[v] = "take_pass" => Granted(v)'
             /\ took'[v] = "pass" => rpc'[v] = "done" /\ Granted(v)'
  <2>1. CASE v = w
    <3>1. rpc[v] # "done" /\ UNCHANGED <<took, rip, files>>
      BY <1>7, <2>1 DEF Read, Decision
    <3>2. took'[v] # "pass"
      BY <3>1 DEF WorkerInv
    <3>3. ASSUME rpc'[v] = "take_pass" PROVE Granted(v)'
      <4>1. d = "pass"
        BY <1>7, <2>1, <3>3 DEF Read, AfterMiss, Dropping, Taking, Decision, TypeOK, RouteTypes
      <4>2. files[rip[v]]["pass"] \in Time
        <5>1. files[rip[v]]["pass"] \in Time \union {Absent, Blank}
          <6>1. rip[v] \in Ip /\ "pass" \in Decision
            BY DEF TypeOK, RouteTypes, Decision
          <6>2. files[rip[v]] \in [Decision -> Time \union {Absent, Blank}]
            BY <6>1 DEF TypeOK, WriterTypes
          <6> QED
            BY <6>1, <6>2
        <5>2. files[rip[v]]["pass"] \notin {Absent, Blank}
          BY <1>7, <2>1, <3>3, <4>1 DEF Read, AfterMiss, TypeOK, RouteTypes
        <5> QED
          BY <5>1, <5>2
      <4>3. rts'[v] = files[rip[v]]["pass"] /\ readAt'[v] = clock
        BY <1>7, <2>1, <4>1 DEF Read, TypeOK, RouteTypes
      <4>4. ~Stale(files[rip[v]]["pass"])
        BY <1>7, <2>1, <3>3, <4>1, <4>2, Times
        DEF Read, AfterMiss, Dropping, Taking, TypeOK, RouteTypes
      <4>5. readAt'[v] - rts'[v] <= Ttl
        <5>1. clock \in Int /\ Ttl \in Int /\ files[rip[v]]["pass"] \in Int
          BY <4>2, Times DEF TypeOK, PushTypes
        <5>2. clock - files[rip[v]]["pass"] <= Ttl
          BY <4>4, <5>1 DEF Stale
        <5> QED
          BY <4>3, <5>2
      <4>6. PICK i \in Ip, ts \in Time : i = rip[v] /\ ts = files[rip[v]]["pass"]
        BY <4>2 DEF TypeOK, RouteTypes
      <4>7. Earned(i, ts)'
        BY <4>2, <4>6, EarnedKept DEF FileInv
      <4> QED
        BY <3>1, <4>3, <4>5, <4>6, <4>7 DEF Granted
    <3> QED
      BY <3>2, <3>3
  <2>2. CASE v # w
    BY <1>2, <1>7, <2>2 DEF Read, TypeOK, RouteTypes
  <2> QED
    BY <2>1, <2>2
<1>8. ASSUME NEW w \in Inbound, NEW d \in Decision, Drop(w, d)
      PROVE  /\ rpc'[v] = "take_pass" => Granted(v)'
             /\ took'[v] = "pass" => rpc'[v] = "done" /\ Granted(v)'
  BY <1>2, <1>8 DEF Drop, WorkerInv, AfterMiss, Dropping, Decision, TypeOK, RouteTypes
<1>9. ASSUME NEW w \in Inbound, NEW d \in Decision, Take(w, d)
      PROVE  /\ rpc'[v] = "take_pass" => Granted(v)'
             /\ took'[v] = "pass" => rpc'[v] = "done" /\ Granted(v)'
  BY <1>2, <1>9 DEF Take, WorkerInv, Taking, Decision, TypeOK, RouteTypes
<1>10. ASSUME NEW w \in Inbound, RouteFails(w) \/ \E x \in Context : ScoreAndRoute(w, x)
      PROVE  /\ rpc'[v] = "take_pass" => Granted(v)'
             /\ took'[v] = "pass" => rpc'[v] = "done" /\ Granted(v)'
  BY <1>2, <1>10 DEF RouteFails, Routing, ScoreAndRoute, WorkerInv, TypeOK, RouteTypes
<1> QED
  BY <1>3, <1>4, <1>5, <1>6, <1>7, <1>8, <1>9, <1>10 DEF Next, WorkerStep

LEMMA GrantInit == Init => GrantInv
<1> SUFFICES ASSUME Init PROVE GrantInv
  OBVIOUS
<1>1. WriterInv
  BY DEF Init, WriterInv
<1>2. FileInv
  BY Times DEF Init, FileInv, Decision
<1>3. WorkerInv
  BY DEF Init, WorkerInv
<1> QED
  BY <1>1, <1>2, <1>3, TypeInit DEF GrantInv

\* Whatever the clients, phones, workers and failures do, a connection that is
\* let into production on a decision has a challenge of its own address behind
\* it that a second factor passed (_run_challenge, _consume_decision).
THEOREM GrantIsAlwaysEarned == Spec => []GrantIsEarned
<1>1. GrantInv /\ [Next]_vars => GrantInv'
  BY TypeNext, WriterNext, FileNext, WorkerNext DEF GrantInv
<1>2. GrantInv => GrantIsEarned
  BY DEF GrantInv, WorkerInv, Granted, Earned, Proven, GrantIsEarned
<1> QED
  BY GrantInit, <1>1, <1>2, PTL DEF Spec

-----------------------------------------------------------------------------
(* One decision on file                                                    *)

\* While no call has failed: never two readable decisions of an address, and
\* none is left of what the gateway has unlinked for the one it writes.
OneInv ==
    faults = 0 =>
        /\ \A i \in Ip : ~(files[i]["pass"] \in Time /\ files[i]["fail"] \in Time)
        /\ gw # NoOne =>
              /\ gwStep \in {"wipe_fail", "create", "fill"} => files[src[gw]]["pass"] \notin Time
              /\ gwStep \in {"create", "fill"} => files[src[gw]]["fail"] \notin Time

\* Every step but Fill leaves at most the readable files there were.
NoneAppears == \A i \in Ip, d \in Decision : files'[i][d] \in Time => files[i][d] \in Time

\* Removing or emptying a file makes none readable (os.remove, unlink, open).
LEMMA LossAppears ==
    ASSUME TypeOK, NEW j \in Ip, NEW d \in Decision, NEW ts, ts \notin Time,
           files' = [files EXCEPT ![j][d] = ts]
    PROVE  NoneAppears
<1>1. files \in [Ip -> [Decision -> Time \union {Absent, Blank}]]
  BY DEF TypeOK, WriterTypes
<1> QED
  BY <1>1 DEF NoneAppears

\* A worker only ever takes files away (_consume_decision).
LEMMA WorkerTakesAway ==
    ASSUME TypeOK, NEW w \in Inbound,
           WorkerStep(w) \/ RouteFails(w) \/ \E ip \in Ip : Arrive(w, ip)
    PROVE  NoneAppears
<1>1. rip[w] \in Ip
  BY DEF TypeOK, RouteTypes
<1>2. ASSUME NEW d \in Decision, Drop(w, d) \/ Take(w, d) PROVE NoneAppears
  <2>1. files' = [files EXCEPT ![rip[w]][d] = Absent] \/ UNCHANGED files
    BY <1>2 DEF Drop, Take, Remove
  <2>2. CASE UNCHANGED files
    BY <2>2 DEF NoneAppears
  <2> QED
    BY <1>1, <2>1, <2>2, Times, LossAppears
<1>3. CASE UNCHANGED files
  BY <1>3 DEF NoneAppears
<1> QED
  BY <1>2, <1>3 DEF WorkerStep, RouteFails, Arrive, Read, ScoreAndRoute

\* Challenges, phones and clients write no decision file (_run_challenge).
LEMMA ChallengeWritesNone ==
    ASSUME NEW s \in Challenge, PushStep(s) \/ ClientStep(s) \/ GatewayStep(s) \/ PushUnreachable(s)
    PROVE  UNCHANGED files
BY DEF PushStep, CreatePush, Answer, ClientStep, OpenChallenge, Type, Leave, GatewayStep, PushOpened,
       Poll, Wake, Code, PushUnreachable, Loop

\* A challenge that starts to write starts with the first unlink
\* (_run_challenge, _write_decision).
LEMMA ChallengeStartsToWrite ==
    ASSUME TypeOK, NEW s \in Challenge,
           PushStep(s) \/ ClientStep(s) \/ GatewayStep(s) \/ PushUnreachable(s)
    PROVE  \/ UNCHANGED gwVars /\ (gw # NoOne => UNCHANGED src)
           \/ gwStep' = "wipe_pass"
<1> USE DEF Loop
<1>1. CASE PushStep(s)
  BY <1>1 DEF PushStep, CreatePush, Answer, chVars
<1>2. CASE ClientStep(s)
  BY <1>2 DEF ClientStep, OpenChallenge, Type, Leave
<1>3. ASSUME FallBack(s) \/ (\E d \in Decision : Decide(s, d)) PROVE UNCHANGED gwVars \/ gwStep' = "wipe_pass"
  BY <1>3 DEF FallBack, Decide
<1>4. CASE GatewayStep(s) \/ PushUnreachable(s)
  <2>1. gw = NoOne
    BY <1>4 DEF GatewayStep, PushOpened, Poll, Wake, Code, PushUnreachable
  <2>2. UNCHANGED gwVars \/ gwStep' = "wipe_pass"
    BY <1>4, <1>3 DEF GatewayStep, PushOpened, Poll, Wake, Code, PushUnreachable, Decision
  <2> QED
    BY <2>1, <2>2
<1> QED
  BY <1>1, <1>2, <1>4

\* Every step keeps the invariant; the writer is what it follows (_write_decision).
LEMMA OneNext == TypeOK /\ WriterInv /\ OneInv /\ [Next]_vars => OneInv'
<1> SUFFICES ASSUME TypeOK, WriterInv, OneInv, [Next]_vars, faults' = 0
             PROVE  /\ \A i \in Ip : ~(files'[i]["pass"] \in Time /\ files'[i]["fail"] \in Time)
                    /\ gw' # NoOne =>
                          /\ gwStep' \in {"wipe_fail", "create", "fill"} => files'[src'[gw']]["pass"] \notin Time
                          /\ gwStep' \in {"create", "fill"} => files'[src'[gw']]["fail"] \notin Time
  BY DEF OneInv
<1> DEFINE Goal == /\ \A i \in Ip : ~(files'[i]["pass"] \in Time /\ files'[i]["fail"] \in Time)
                   /\ gw' # NoOne =>
                          /\ gwStep' \in {"wipe_fail", "create", "fill"} => files'[src'[gw']]["pass"] \notin Time
                          /\ gwStep' \in {"create", "fill"} => files'[src'[gw']]["fail"] \notin Time
<1>0. ~Fault /\ "pass" \in Decision /\ "fail" \in Decision
  BY DEF Fault, TypeOK, PushTypes, Decision
<1>t. /\ files \in [Ip -> [Decision -> Time \union {Absent, Blank}]] /\ src \in [Challenge -> Ip]
      /\ gw \in Challenge \union {NoOne}
  BY DEF TypeOK, WriterTypes, ChallengeTypes
<1>1. ASSUME faults = 0, NoneAppears, UNCHANGED <<gw, gwStep>>, gw # NoOne => src' = src PROVE Goal
  BY <1>0, <1>t, <1>1 DEF OneInv, NoneAppears
<1>2. ASSUME faults = 0, NoneAppears, gwStep' \notin {"wipe_fail", "create", "fill"} PROVE Goal
  BY <1>0, <1>2 DEF OneInv, NoneAppears
<1>3. ASSUME NEW s \in Challenge, PushStep(s) \/ ClientStep(s) \/ GatewayStep(s) \/ PushUnreachable(s)
      PROVE  Goal
  <2>1. NoneAppears
    BY <1>3, ChallengeWritesNone DEF NoneAppears
  <2>2. faults = 0
    BY <1>3, <1>0 DEF PushStep, CreatePush, Answer, ClientStep, OpenChallenge, Type, Leave,
                      GatewayStep, PushOpened, Poll, Wake, Code, PushUnreachable
  <2> QED
    BY <1>3, <2>1, <2>2, <1>1, <1>2, ChallengeStartsToWrite DEF gwVars
<1>4. ASSUME NEW w \in Inbound, WorkerStep(w) \/ RouteFails(w) \/ \E ip \in Ip : Arrive(w, ip)
      PROVE  Goal
  <2>1. faults = 0 /\ UNCHANGED <<gw, gwStep, src>>
    BY <1>4, <1>0 DEF WorkerStep, RouteFails, Arrive, Read, Drop, Take, ScoreAndRoute, Worker, gwVars, chVars
  <2> QED
    BY <1>1, <1>4, <2>1, WorkerTakesAway
<1>5. CASE Tick \/ UNCHANGED vars
  <2>1. faults = 0 /\ UNCHANGED <<gw, gwStep, src, files>>
    BY <1>5 DEF Tick, vars, gwVars, chVars
  <2> QED
    BY <1>1, <2>1 DEF NoneAppears
<1>6. CASE WriteFails
  BY <1>0, <1>6 DEF WriteFails
<1>7. ASSUME NEW d \in Decision, Wipe(d) PROVE Goal
  <2>1. /\ gw # NoOne /\ gw \in Challenge /\ src[gw] \in Ip /\ faults = 0 /\ UNCHANGED <<gw, src>>
        /\ files' = [files EXCEPT ![src[gw]][d] = Absent]
        /\ gwStep = (IF d = "pass" THEN "wipe_pass" ELSE "wipe_fail")
        /\ gwStep' = (IF d = "pass" THEN "wipe_fail" ELSE "create")
    BY <1>7, <1>0, <1>t DEF Wipe, Writing, chVars
  <2>2. NoneAppears
    BY <2>1, Times, LossAppears
  <2>3. files'[src[gw]][d] \notin Time
    BY <2>1, <1>t, Times
  <2>4. \A i \in Ip : ~(files'[i]["pass"] \in Time /\ files'[i]["fail"] \in Time)
    BY <2>1, <2>2, <1>0 DEF OneInv, NoneAppears
  <2>5. d # "pass" => files'[src[gw]]["pass"] \notin Time /\ d = "fail"
    <3>1. d # "pass" => d = "fail" /\ files[src[gw]]["pass"] \notin Time
      BY <2>1 DEF OneInv, Decision
    <3> QED
      BY <3>1, <2>1, <2>2, <1>0 DEF NoneAppears
  <2> QED
    BY <2>1, <2>3, <2>4, <2>5
<1>8. CASE Create
  <2>1. /\ gw \in Challenge /\ src[gw] \in Ip /\ verdict[gw] \in Decision /\ faults = 0
        /\ UNCHANGED <<gw, src>> /\ files' = [files EXCEPT ![src[gw]][verdict[gw]] = Blank]
        /\ gwStep = "create" /\ gwStep' = "fill"
    BY <1>8, <1>t DEF Create, Writing, WriterInv
  <2>2. NoneAppears
    BY <2>1, Times, LossAppears
  <2> QED
    BY <2>1, <2>2, <1>0 DEF OneInv, NoneAppears
<1>9. CASE Fill
  <2>1. /\ gw \in Challenge /\ src[gw] \in Ip /\ verdict[gw] \in Decision /\ faults = 0
        /\ gw' = NoOne /\ files' = [files EXCEPT ![src[gw]][verdict[gw]] = wroteAt[gw]]
        /\ gwStep = "fill" /\ gw # NoOne
    BY <1>9, <1>t DEF Fill, Writing, WriterInv
  <2>2. files[src[gw]]["pass"] \notin Time /\ files[src[gw]]["fail"] \notin Time
    BY <2>1 DEF OneInv
  <2>3. ASSUME NEW i \in Ip, files'[i]["pass"] \in Time, files'[i]["fail"] \in Time PROVE FALSE
    <3>1. CASE i = src[gw]
      BY <2>1, <2>2, <2>3, <3>1, <1>t DEF Decision
    <3>2. CASE i # src[gw]
      BY <2>1, <2>3, <3>2, <1>t DEF OneInv
    <3> QED
      BY <3>1, <3>2
  <2> QED
    BY <2>1, <2>3
<1> QED
  BY <1>3, <1>4, <1>5, <1>6, <1>7, <1>8, <1>9 DEF Next, WriterStep

\* While every call works, a worker never finds a .pass and a .fail of one
\* address, for any number of challenges and workers (_write_decision,
\* check_mfa_decision).
THEOREM OneDecisionAlways == Spec => []OneDecisionOnFile
<1>1. Init => TypeOK /\ WriterInv /\ OneInv
  <2>1. Init => OneInv
    BY Times DEF Init, OneInv, Decision
  <2> QED
    BY <2>1, GrantInit DEF GrantInv
<1>2. TypeOK /\ WriterInv /\ OneInv /\ [Next]_vars => (TypeOK /\ WriterInv /\ OneInv)'
  BY TypeNext, WriterNext, OneNext
<1>3. OneInv => OneDecisionOnFile
  BY DEF OneInv, OneDecisionOnFile
<1> QED
  BY <1>1, <1>2, <1>3, PTL DEF Spec
-----------------------------------------------------------------------------
(* As many uses as decisions                                               *)

\* A worker uses a decision from the moment it has read it.
Claims(w)    == took[w] # "none" \/ rpc[w] \in {"take_pass", "take_fail"}
Claimants(i) == {w \in Inbound : rip[w] = i /\ Claims(w)}
Wrote(i)     == {s \in Challenge : src[s] = i /\ wroteAt[s] # Absent}

\* A decision nobody uses yet: a readable file that no worker is about to
\* remove, or one whose ts the gateway has made and not yet written.
OnFile(i, d) == files[i][d] \in Time /\ \A w \in Inbound : rip[w] = i => rpc[w] # Taking(d)
InHand(i)    == gw # NoOne /\ src[gw] = i /\ wroteAt[gw] # Absent

One(p)  == IF p THEN 1 ELSE 0
Used(i) == Cardinality(Claimants(i)) + One(OnFile(i, "pass")) + One(OnFile(i, "fail")) + One(InHand(i))

\* A challenge has a ts only from _write_decision on, and has one when it
\* fills the file; a worker that consumed a decision is done.
StageInv ==
    /\ \A s \in Challenge : pc[s] \notin {"writing", "done"} => wroteAt[s] = Absent
    /\ gw # NoOne /\ gwStep = "fill" => wroteAt[gw] \in Time
    /\ \A w \in Inbound : took[w] # "none" => rpc[w] = "done"

\* Connections of an address that were routed one after another are: one at
\* a time is in main().
AloneInv ==
    \A v, w \in Inbound :
        Routing(v) /\ Routing(w) /\ rip[v] = rip[w] /\ rip[v] \notin overlap => v = w

BudgetInv == \A i \in Ip \ overlap : Used(i) <= Cardinality(Wrote(i)) + leftover[i]

SerialInv == TypeOK /\ WriterInv /\ StageInv /\ AloneInv /\ BudgetInv

LEMMA Counts ==
    ASSUME NEW i
    PROVE  /\ IsFiniteSet(Claimants(i)) /\ Cardinality(Claimants(i)) \in Nat
           /\ IsFiniteSet(Wrote(i)) /\ Cardinality(Wrote(i)) \in Nat
<1>1. Claimants(i) \in SUBSET Inbound /\ Wrote(i) \in SUBSET Challenge
  BY DEF Claimants, Wrote
<1> QED
  BY <1>1, FiniteAssumption, FS_Subset, FS_CardinalityType

\* A step that makes no new use of a decision keeps within the budget.
LEMMA NothingSpent ==
    ASSUME NEW i, NEW b \in Nat, Used(i) <= Cardinality(Wrote(i)) + b,
           Claimants(i)' = Claimants(i), Wrote(i)' = Wrote(i),
           OnFile(i, "pass")' => OnFile(i, "pass"), OnFile(i, "fail")' => OnFile(i, "fail"),
           InHand(i)' => InHand(i)
    PROVE  Used(i)' <= Cardinality(Wrote(i))' + b
<1>1. Cardinality(Claimants(i)') = Cardinality(Claimants(i)) /\ Cardinality(Wrote(i)') = Cardinality(Wrote(i))
  OBVIOUS
<1> QED
  BY <1>1, Counts DEF Used, One

\* The same with a list of what the step leaves alone.
LEMMA WorkersAside ==
    ASSUME NEW i, UNCHANGED rtVars
    PROVE  /\ Claimants(i)' = Claimants(i)
           /\ \A d \in Decision : (files'[i][d] \in Time => files[i][d] \in Time)
                                  => (OnFile(i, d)' => OnFile(i, d))
BY DEF rtVars, Claimants, Claims, OnFile, Taking

LEMMA GatewayAside ==
    ASSUME NEW i, UNCHANGED <<chVars, gwVars>>
    PROVE  Wrote(i)' = Wrote(i) /\ InHand(i)' = InHand(i)
BY DEF chVars, gwVars, Wrote, InHand

\* What a step of a challenge does to what the count looks at: it never
\* touches a ts, and only an open challenge starts to write or gets an address.
LEMMA ChallengeMoves ==
    ASSUME TypeOK, NEW s \in Challenge,
           PushStep(s) \/ ClientStep(s) \/ GatewayStep(s) \/ PushUnreachable(s)
    PROVE  /\ UNCHANGED <<rtVars, files, wroteAt>>
           /\ \/ UNCHANGED <<gw, gwStep>>
              \/ gw = NoOne /\ gw' = s /\ gwStep' = "wipe_pass" /\ pc[s] \in Open
           /\ \/ UNCHANGED <<pc, src>>
              \/ /\ pc[s] \notin {"writing", "done"}
                 /\ \A t \in Challenge \ {s} : pc'[t] = pc[t] /\ src'[t] = src[t]
                 /\ src'[s] # src[s] => gw = NoOne /\ UNCHANGED gw
<1> USE DEF TypeOK, ChallengeTypes
<1> DEFINE Moved == /\ UNCHANGED <<wroteAt, src>>
                    /\ \A t \in Challenge \ {s} : pc'[t] = pc[t]
                    /\ \/ UNCHANGED <<gw, gwStep>>
                       \/ gw' = s /\ gwStep' = "wipe_pass"
<1>1. CASE PushStep(s)
  BY <1>1 DEF PushStep, CreatePush, Answer, chVars, gwVars
<1>2. CASE ClientStep(s)
  BY <1>2 DEF ClientStep, OpenChallenge, Type, Leave, Loop, gwVars
<1>3. ASSUME NEW d, Decide(s, d) PROVE Moved
  BY <1>3 DEF Decide
<1>4. ASSUME FallBack(s) PROVE Moved
  BY <1>3, <1>4 DEF FallBack, gwVars
<1>5. ASSUME GatewayStep(s) \/ PushUnreachable(s)
      PROVE  gw = NoOne /\ pc[s] \in Open /\ UNCHANGED <<rtVars, files>>
  BY <1>5 DEF GatewayStep, PushOpened, Poll, Wake, Code, PushUnreachable, Loop, Open
<1>6. ASSUME GatewayStep(s) \/ PushUnreachable(s) PROVE Moved
  <2>1. CASE PushOpened(s)
    BY <2>1, <1>3 DEF PushOpened, gwVars
  <2>2. CASE Poll(s)
    BY <2>2, <1>3, <1>4 DEF Poll, gwVars
  <2>3. CASE Wake(s)
    BY <2>3, <1>4 DEF Wake, gwVars
  <2>4. CASE Code(s)
    BY <2>4, <1>3 DEF Code
  <2>5. CASE PushUnreachable(s)
    BY <2>5, <1>4 DEF PushUnreachable
  <2> QED
    BY <1>6, <2>1, <2>2, <2>3, <2>4, <2>5 DEF GatewayStep
<1>7. CASE GatewayStep(s) \/ PushUnreachable(s)
  BY <1>5, <1>6, <1>7 DEF Open
<1> QED
  BY <1>1, <1>2, <1>7

LEMMA StageNext == TypeOK /\ WriterInv /\ StageInv /\ [Next]_vars => StageInv'
<1> SUFFICES ASSUME TypeOK, WriterInv, StageInv, [Next]_vars PROVE StageInv'
  OBVIOUS
<1> USE DEF StageInv
<1>t. /\ pc \in [Challenge -> {"new", "request", "poll", "asleep", "totp", "writing", "done"}]
      /\ wroteAt \in [Challenge -> Time \union {Absent}] /\ clock \in Time /\ NoOne \notin Challenge
      /\ rpc \in [Inbound -> {"new", "pass", "fail", "drop_pass", "drop_fail", "take_pass",
                            "take_fail", "score", "done"}]
      /\ took \in [Inbound -> Decision \union {"none"}]
      /\ gw \in Challenge \union {NoOne}
  BY MfaAssumption DEF TypeOK, ChallengeTypes, PushTypes, RouteTypes, WriterTypes
<1>1. ASSUME NEW s \in Challenge, PushStep(s) \/ ClientStep(s) \/ GatewayStep(s) \/ PushUnreachable(s)
      PROVE  StageInv'
  <2>1. \A t \in Challenge : pc'[t] \notin {"writing", "done"} => wroteAt'[t] = Absent
    BY <1>1, ChallengeMoves
  <2>2. gw' # NoOne /\ gwStep' = "fill" => wroteAt'[gw'] \in Time
    BY <1>1, ChallengeMoves
  <2>3. \A w \in Inbound : took'[w] # "none" => rpc'[w] = "done"
    BY <1>1, ChallengeMoves DEF rtVars
  <2> QED
    BY <2>1, <2>2, <2>3
<1>2. ASSUME NEW d \in Decision, Wipe(d) PROVE StageInv'
  BY <1>2 DEF Wipe, Writing, chVars, rtVars
<1>3. CASE Create
  BY <1>3, <1>t DEF Create, Writing, rtVars, WriterInv
<1>4. CASE Fill
  BY <1>4, <1>t DEF Fill, Writing, rtVars
<1>5. CASE WriteFails
  BY <1>5, <1>t DEF WriteFails, rtVars
<1>6. ASSUME NEW w \in Inbound, WorkerStep(w) \/ RouteFails(w) \/ \E ip \in Ip : Arrive(w, ip)
      PROVE  StageInv'
  <2>1. UNCHANGED <<pc, wroteAt, gw, gwStep>>
    BY <1>6 DEF WorkerStep, RouteFails, Arrive, Read, Drop, Take, ScoreAndRoute, Worker, chVars, gwVars
  <2>2. \A v \in Inbound : took'[v] # "none" => rpc'[v] = "done"
    <3>1. ASSUME NEW d \in Decision, Read(w, d) \/ Drop(w, d) PROVE rpc[w] # "done" /\ UNCHANGED took
      BY <3>1 DEF Read, Drop, Dropping, Decision
    <3>2. ASSUME NEW ip \in Ip, Arrive(w, ip) PROVE rpc[w] # "done" /\ UNCHANGED took
      BY <3>2 DEF Arrive
    <3>3. ASSUME rpc[w] # "done", UNCHANGED took, \A v \in Inbound \ {w} : rpc'[v] = rpc[v]
          PROVE  \A v \in Inbound : took'[v] # "none" => rpc'[v] = "done"
      BY <3>3
    <3>4. ASSUME NEW d \in Decision, Take(w, d) PROVE \A v \in Inbound : took'[v] # "none" => rpc'[v] = "done"
      BY <3>4, <1>t DEF Take
    <3>5. ASSUME NEW x \in Context, ScoreAndRoute(w, x)
          PROVE  \A v \in Inbound : took'[v] # "none" => rpc'[v] = "done"
      BY <3>5, <1>t DEF ScoreAndRoute
    <3>6. ASSUME RouteFails(w) PROVE \A v \in Inbound : took'[v] # "none" => rpc'[v] = "done"
      BY <3>6, <1>t DEF RouteFails
    <3>7. ASSUME NEW d \in Decision, Read(w, d) \/ Drop(w, d) PROVE \A v \in Inbound \ {w} : rpc'[v] = rpc[v]
      BY <3>7, <1>t DEF Read, Drop
    <3>8. ASSUME NEW ip \in Ip, Arrive(w, ip) PROVE \A v \in Inbound \ {w} : rpc'[v] = rpc[v]
      BY <3>8, <1>t DEF Arrive
    <3> QED
      BY <1>6, <3>1, <3>2, <3>3, <3>4, <3>5, <3>6, <3>7, <3>8 DEF WorkerStep
  <2> QED
    BY <2>1, <2>2
<1>7. CASE Tick \/ UNCHANGED vars
  BY <1>7 DEF Tick, vars, chVars, gwVars, rtVars
<1> QED
  BY <1>1, <1>2, <1>3, <1>4, <1>5, <1>6, <1>7 DEF Next, WriterStep

\* A worker that comes while another of its address is in main() puts the
\* address among the overlapping ones.
LEMMA AloneNext == TypeOK /\ AloneInv /\ [Next]_vars => AloneInv'
<1> SUFFICES ASSUME TypeOK, AloneInv, [Next]_vars PROVE AloneInv'
  OBVIOUS
<1>t. /\ rpc \in [Inbound -> {"new", "pass", "fail", "drop_pass", "drop_fail", "take_pass",
                            "take_fail", "score", "done"}]
      /\ rip \in [Inbound -> Ip]
  BY DEF TypeOK, RouteTypes
<1>1. CASE UNCHANGED rtVars
  BY <1>1 DEF rtVars, AloneInv, Routing
<1>2. ASSUME NEW w \in Inbound, WorkerStep(w) \/ RouteFails(w) PROVE AloneInv'
  <2>1. UNCHANGED <<rip, overlap>> /\ Routing(w) /\ \A v \in Inbound \ {w} : rpc'[v] = rpc[v]
    BY <1>2, <1>t DEF WorkerStep, RouteFails, Read, Drop, Take, ScoreAndRoute, Dropping, Taking, Routing, Decision
  <2> QED
    BY <2>1 DEF AloneInv, Routing
<1>3. ASSUME NEW w \in Inbound, NEW ip \in Ip, Arrive(w, ip) PROVE AloneInv'
  <2>1. /\ rpc' = [rpc EXCEPT ![w] = "pass"] /\ rip' = [rip EXCEPT ![w] = ip]
        /\ overlap \subseteq overlap'
        /\ (\E v \in Inbound : Routing(v) /\ rip[v] = ip) => ip \in overlap'
    BY <1>3 DEF Arrive
  <2>2. SUFFICES ASSUME NEW v \in Inbound, NEW u \in Inbound, Routing(v)', Routing(u)', rip'[v] = rip'[u],
                        rip'[v] \notin overlap'
                 PROVE  v = u
    BY DEF AloneInv
  <2>3. CASE v # w /\ u # w
    BY <2>1, <2>2, <2>3, <1>t DEF AloneInv, Routing
  <2>4. CASE v = w /\ u # w
    BY <2>1, <2>2, <2>4, <1>t DEF Routing
  <2>5. CASE u = w /\ v # w
    BY <2>1, <2>2, <2>5, <1>t DEF Routing
  <2> QED
    BY <2>3, <2>4, <2>5
<1>4. ASSUME NEW s \in Challenge, PushStep(s) \/ ClientStep(s) \/ GatewayStep(s) \/ PushUnreachable(s)
      PROVE  UNCHANGED rtVars
  BY <1>4, ChallengeMoves
<1>5. ASSUME WriterStep \/ WriteFails \/ Tick \/ UNCHANGED vars PROVE UNCHANGED rtVars
  BY <1>5 DEF WriterStep, Wipe, Create, Fill, Writing, WriteFails, Tick, vars
<1> QED
  BY <1>1, <1>2, <1>3, <1>4, <1>5 DEF Next

\* A challenge that gets an address or starts to write has no ts yet.
LEMMA ChallengeBudget ==
    ASSUME TypeOK, StageInv, NEW i, NEW b \in Nat, Used(i) <= Cardinality(Wrote(i)) + b, NEW s \in Challenge,
           PushStep(s) \/ ClientStep(s) \/ GatewayStep(s) \/ PushUnreachable(s)
    PROVE  Used(i)' <= Cardinality(Wrote(i))' + b
<1>1. UNCHANGED <<rtVars, files, wroteAt>>
  BY ChallengeMoves
<1>2. \A t \in Challenge : src'[t] # src[t] => wroteAt[t] = Absent
  BY ChallengeMoves DEF StageInv
<1>3. Wrote(i)' = Wrote(i)
  BY <1>1, <1>2 DEF Wrote
<1>4. InHand(i)' => InHand(i)
  <2>1. SUFFICES ASSUME InHand(i)' PROVE InHand(i)
    OBVIOUS
  <2>2. gw' = s => wroteAt[s] # Absent
    BY <1>1, <2>1 DEF InHand
  <2>3. gw' = gw /\ gw # NoOne
    BY <2>1, <2>2, ChallengeMoves DEF InHand, StageInv, Open
  <2>4. gw \in Challenge
    BY <2>3 DEF TypeOK, WriterTypes
  <2> QED
    BY <1>1, <1>2, <2>1, <2>3, <2>4 DEF InHand
<1>5. "pass" \in Decision /\ "fail" \in Decision
  BY DEF Decision
<1>6. /\ Claimants(i)' = Claimants(i)
      /\ OnFile(i, "pass")' => OnFile(i, "pass")
      /\ OnFile(i, "fail")' => OnFile(i, "fail")
  BY <1>1, <1>5, WorkersAside
<1> QED
  BY <1>3, <1>4, <1>6, NothingSpent

\* Unlinking, failing and the clock use nothing.
LEMMA IdleBudget ==
    ASSUME TypeOK, NEW i \in Ip, NEW b \in Nat, Used(i) <= Cardinality(Wrote(i)) + b,
           \/ \E d \in Decision : Wipe(d)
           \/ WriteFails \/ Tick \/ UNCHANGED vars
    PROVE  Used(i)' <= Cardinality(Wrote(i))' + b
<1>1. UNCHANGED <<rtVars, src, wroteAt>> /\ gw' \in {gw, NoOne}
  BY DEF Wipe, Writing, WriteFails, Tick, vars, chVars, gwVars
<1>2. NoneAppears
  <2>1. ASSUME NEW d \in Decision, Wipe(d) PROVE NoneAppears
    <3>1. gw \in Challenge /\ src[gw] \in Ip
      BY <2>1 DEF Wipe, Writing, TypeOK, WriterTypes, ChallengeTypes
    <3>2. CASE UNCHANGED files
      BY <3>2 DEF NoneAppears
    <3>3. CASE files' = [files EXCEPT ![src[gw]][d] = Absent]
      BY <3>1, <3>3, Times, LossAppears
    <3> QED
      BY <2>1, <3>2, <3>3 DEF Wipe
  <2>2. CASE WriteFails \/ Tick \/ UNCHANGED vars
    BY <2>2 DEF WriteFails, Tick, vars, NoneAppears
  <2> QED
    BY <2>1, <2>2
<1>3. Wrote(i)' = Wrote(i)
  BY <1>1 DEF Wrote
<1>4. InHand(i)' => InHand(i)
  BY <1>1 DEF InHand
<1>5. "pass" \in Decision /\ "fail" \in Decision
  BY DEF Decision
<1>6. /\ Claimants(i)' = Claimants(i)
      /\ OnFile(i, "pass")' => OnFile(i, "pass")
      /\ OnFile(i, "fail")' => OnFile(i, "fail")
  BY <1>1, <1>2, <1>5, WorkersAside DEF NoneAppears
<1> QED
  BY <1>3, <1>4, <1>6, NothingSpent

\* Making the ts is one more decision, and it is in hand.
LEMMA CreateBudget ==
    ASSUME TypeOK, NEW i \in Ip, NEW b \in Nat, Used(i) <= Cardinality(Wrote(i)) + b, WriterInv, Create
    PROVE  Used(i)' <= Cardinality(Wrote(i))' + b
<1>1. /\ UNCHANGED <<rtVars, src, gw>> /\ gw \in Challenge /\ gw # NoOne /\ src[gw] \in Ip
      /\ verdict[gw] \in Decision
      /\ wroteAt' = [wroteAt EXCEPT ![gw] = clock] /\ clock # Absent
      /\ wroteAt \in [Challenge -> Time \union {Absent}]
      /\ files' = [files EXCEPT ![src[gw]][verdict[gw]] = Blank]
  BY Times DEF Create, Writing, WriterInv, TypeOK, WriterTypes, ChallengeTypes, PushTypes
<1>2. NoneAppears
  BY <1>1, Times, LossAppears
<1>3. "pass" \in Decision /\ "fail" \in Decision
  BY DEF Decision
<1>4. /\ Claimants(i)' = Claimants(i)
      /\ OnFile(i, "pass")' => OnFile(i, "pass")
      /\ OnFile(i, "fail")' => OnFile(i, "fail")
  BY <1>1, <1>2, <1>3, WorkersAside DEF NoneAppears
<1>5. CASE src[gw] # i \/ wroteAt[gw] # Absent
  <2>1. Wrote(i)' = Wrote(i)
    BY <1>1, <1>5 DEF Wrote
  <2>2. InHand(i)' => InHand(i)
    BY <1>1, <1>5 DEF InHand
  <2> QED
    BY <1>4, <2>1, <2>2, NothingSpent
<1>6. CASE src[gw] = i /\ wroteAt[gw] = Absent
  <2>1. Wrote(i)' = Wrote(i) \union {gw} /\ gw \notin Wrote(i)
    BY <1>1, <1>6 DEF Wrote
  <2>2. ~InHand(i)
    BY <1>6 DEF InHand
  <2>3. Cardinality(Wrote(i))' = Cardinality(Wrote(i)) + 1
    BY <2>1, Counts, FS_AddElement
  <2>4. Cardinality(Claimants(i)') = Cardinality(Claimants(i))
    BY <1>4
  <2> QED
    BY <1>4, <2>2, <2>3, <2>4, Counts DEF Used, One
<1> QED
  BY <1>5, <1>6

\* Filling the file puts the decision in hand on file.
LEMMA FillBudget ==
    ASSUME TypeOK, NEW i \in Ip, NEW b \in Nat, Used(i) <= Cardinality(Wrote(i)) + b, WriterInv, StageInv, Fill
    PROVE  Used(i)' <= Cardinality(Wrote(i))' + b
<1>1. /\ UNCHANGED <<rtVars, src, wroteAt>> /\ gw \in Challenge /\ gw # NoOne /\ src[gw] \in Ip
      /\ verdict[gw] \in Decision /\ gw' = NoOne /\ wroteAt[gw] \in Time
      /\ files' = [files EXCEPT ![src[gw]][verdict[gw]] = wroteAt[gw]]
      /\ files \in [Ip -> [Decision -> Time \union {Absent, Blank}]]
  BY DEF Fill, Writing, WriterInv, StageInv, TypeOK, WriterTypes, ChallengeTypes
<1>2. "pass" \in Decision /\ "fail" \in Decision
  BY DEF Decision
<1>3. Claimants(i)' = Claimants(i) /\ Wrote(i)' = Wrote(i) /\ ~InHand(i)'
  BY <1>1 DEF rtVars, Claimants, Claims, Wrote, InHand
<1>4. ASSUME NEW d \in Decision, i # src[gw] \/ d # verdict[gw] PROVE OnFile(i, d)' => OnFile(i, d)
  <2>1. files'[i][d] = files[i][d]
    BY <1>1, <1>4
  <2> QED
    BY <1>1, <2>1, WorkersAside
<1>5. CASE i # src[gw]
  BY <1>2, <1>3, <1>4, <1>5, NothingSpent
<1>6. CASE i = src[gw]
  <2>1. InHand(i)
    BY <1>1, <1>6, Times DEF InHand
  <2>2. \/ OnFile(i, "pass")' => OnFile(i, "pass")
        \/ OnFile(i, "fail")' => OnFile(i, "fail")
    BY <1>1, <1>2, <1>4
  <2>3. /\ Cardinality(Claimants(i)') = Cardinality(Claimants(i))
        /\ Cardinality(Wrote(i)') = Cardinality(Wrote(i))
    BY <1>3
  <2> QED
    BY <1>3, <2>1, <2>2, <2>3, Counts DEF Used, One
<1> QED
  BY <1>5, <1>6

\* Reading a decision that counts turns the one on file into a claim.
LEMMA ReadBudget ==
    ASSUME TypeOK, NEW i \in Ip, NEW b \in Nat, Used(i) <= Cardinality(Wrote(i)) + b, StageInv, AloneInv, i \notin overlap,
           NEW w \in Inbound, NEW d \in Decision, Read(w, d)
    PROVE  Used(i)' <= Cardinality(Wrote(i))' + b
<1>1. /\ UNCHANGED <<chVars, gwVars, rip, took, files>> /\ rpc[w] = d /\ Routing(w)
      /\ rpc' = [rpc EXCEPT ![w] = rpc'[w]]
      /\ rpc'[w] \in {AfterMiss(d), Dropping(d), Taking(d)}
      /\ rpc'[w] = Taking(d) => files[rip[w]][d] \in Time
  <2>1. /\ rpc \in [Inbound -> {"new", "pass", "fail", "drop_pass", "drop_fail", "take_pass",
                            "take_fail", "score", "done"}]
        /\ files[rip[w]][d] \in Time \union {Absent, Blank}
    BY DEF TypeOK, RouteTypes, WriterTypes
  <2>2. Taking(d) # AfterMiss(d) /\ Taking(d) # Dropping(d)
    BY DEF Taking, AfterMiss, Dropping
  <2>3. rpc' = [rpc EXCEPT ![w] = IF files[rip[w]][d] \in {Absent, Blank} THEN AfterMiss(d)
                                  ELSE IF Stale(files[rip[w]][d]) THEN Dropping(d) ELSE Taking(d)]
    BY DEF Read
  <2>4. rpc'[w] = Taking(d) => files[rip[w]][d] \in Time
    BY <2>1, <2>2, <2>3
  <2>5. rpc'[w] \in {AfterMiss(d), Dropping(d), Taking(d)} /\ rpc' = [rpc EXCEPT ![w] = rpc'[w]]
    BY <2>1, <2>3
  <2> QED
    BY <2>4, <2>5 DEF Read, Worker, Routing, Decision
<1>2. rpc \in [Inbound -> {"new", "pass", "fail", "drop_pass", "drop_fail", "take_pass",
                            "take_fail", "score", "done"}]
  BY DEF TypeOK, RouteTypes
<1>3. Wrote(i)' = Wrote(i) /\ InHand(i)' = InHand(i)
  BY <1>1, GatewayAside
<1>4. took[w] = "none" /\ rpc[w] \notin {"take_pass", "take_fail"}
  BY <1>1 DEF StageInv, Decision
<1>5. ASSUME NEW e \in Decision, rip[w] # i \/ rpc'[w] # Taking(e) PROVE OnFile(i, e)' => OnFile(i, e)
  <2>1. ASSUME NEW v \in Inbound, rip[v] = i, rpc[v] = Taking(e) PROVE rpc'[v] = Taking(e)
    <3>1. v # w
      BY <1>4, <2>1 DEF Taking
    <3> QED
      BY <1>1, <1>2, <2>1, <3>1
  <2> QED
    BY <1>1, <2>1 DEF OnFile, Taking
<1>6. "pass" \in Decision /\ "fail" \in Decision
  BY DEF Decision
<1>7. CASE rip[w] # i \/ rpc'[w] # Taking(d)
  <2>1. rip[w] # i \/ rpc'[w] \notin {"take_pass", "take_fail"}
    BY <1>1, <1>7 DEF AfterMiss, Dropping, Taking
  <2>2. Claimants(i)' = Claimants(i)
    BY <1>1, <1>2, <1>4, <2>1 DEF Claimants, Claims
  <2>3. rip[w] # i \/ (rpc'[w] # Taking("pass") /\ rpc'[w] # Taking("fail"))
    BY <2>1 DEF Taking
  <2> QED
    BY <1>3, <1>5, <1>6, <2>2, <2>3, NothingSpent
<1>8. CASE rip[w] = i /\ rpc'[w] = Taking(d)
  <2>1. Claimants(i)' = Claimants(i) \union {w} /\ w \notin Claimants(i)
    BY <1>1, <1>2, <1>4, <1>8 DEF Claimants, Claims, Taking
  <2>2. Cardinality(Claimants(i)') = Cardinality(Claimants(i)) + 1
    BY <2>1, Counts, FS_AddElement
  <2>3. OnFile(i, d)
    <3>1. ASSUME NEW v \in Inbound, rip[v] = i PROVE rpc[v] # Taking(d)
      <4>1. SUFFICES ASSUME rpc[v] = Taking(d) PROVE FALSE
        OBVIOUS
      <4>2. Routing(v)
        BY <4>1 DEF Routing, Taking
      <4>3. v = w
        BY <1>1, <1>8, <3>1, <4>2 DEF AloneInv
      <4> QED
        BY <1>4, <4>1, <4>3 DEF Taking
    <3> QED
      BY <1>1, <1>8, <3>1 DEF OnFile
  <2>4. ~OnFile(i, d)'
    BY <1>1, <1>8 DEF OnFile, Taking
  <2>5. \A e \in Decision : e # d => (OnFile(i, e)' => OnFile(i, e))
    <3>1. ASSUME NEW e \in Decision, e # d PROVE Taking(e) # Taking(d)
      BY <3>1 DEF Taking, Decision
    <3> QED
      BY <1>5, <1>8, <3>1
  <2>6. CASE d = "pass"
    BY <1>3, <1>6, <2>2, <2>3, <2>4, <2>5, <2>6, Counts DEF Used, One
  <2>7. CASE d = "fail"
    BY <1>3, <1>6, <2>2, <2>3, <2>4, <2>5, <2>7, Counts DEF Used, One
  <2> QED
    BY <2>6, <2>7 DEF Decision
<1> QED
  BY <1>7, <1>8

\* Removing a file by name: a stale one, or the one that was claimed.
LEMMA RemoveBudget ==
    ASSUME TypeOK, NEW i \in Ip, NEW b \in Nat, Used(i) <= Cardinality(Wrote(i)) + b, StageInv,
           NEW w \in Inbound, NEW d \in Decision, Drop(w, d) \/ Take(w, d), Remove(w, d)
    PROVE  Used(i)' <= Cardinality(Wrote(i))' + b
<1>1. /\ UNCHANGED <<chVars, gwVars, rip>> /\ rpc[w] \in {Dropping(d), Taking(d)}
      /\ files' = [files EXCEPT ![rip[w]][d] = Absent]
      /\ \/ rpc[w] = Dropping(d) /\ UNCHANGED took /\ rpc' = [rpc EXCEPT ![w] = AfterMiss(d)]
         \/ rpc[w] = Taking(d) /\ took' = [took EXCEPT ![w] = d] /\ rpc' = [rpc EXCEPT ![w] = "done"]
  BY DEF Drop, Take, Remove, Worker
<1>2. /\ rpc \in [Inbound -> {"new", "pass", "fail", "drop_pass", "drop_fail", "take_pass",
                            "take_fail", "score", "done"}]
      /\ took \in [Inbound -> Decision \union {"none"}] /\ rip[w] \in Ip
      /\ files \in [Ip -> [Decision -> Time \union {Absent, Blank}]]
  BY DEF TypeOK, RouteTypes, WriterTypes
<1>3. Wrote(i)' = Wrote(i) /\ InHand(i)' = InHand(i)
  BY <1>1, GatewayAside
<1>4. Claimants(i)' = Claimants(i)
  <2>1. CASE rpc[w] = Dropping(d)
    <3>1. /\ Dropping(d) \notin {"take_pass", "take_fail", "done", Taking(d)}
          /\ AfterMiss(d) \notin {"take_pass", "take_fail"}
      BY DEF Dropping, Taking, AfterMiss
    <3> QED
      BY <1>1, <1>2, <2>1, <3>1 DEF Claimants, Claims
  <2>2. CASE rpc[w] = Taking(d)
    <3>1. Taking(d) \in {"take_pass", "take_fail"} /\ Taking(d) # Dropping(d) /\ d # "none"
      BY DEF Taking, Dropping, Decision
    <3> QED
      BY <1>1, <1>2, <2>2, <3>1 DEF Claimants, Claims
  <2> QED
    BY <1>1, <2>1, <2>2
<1>5. ASSUME NEW e \in Decision, i # rip[w] \/ e # d PROVE OnFile(i, e)' => OnFile(i, e)
  <2>1. files'[i][e] = files[i][e]
    BY <1>1, <1>2, <1>5
  <2>2. ASSUME NEW v \in Inbound, rip[v] = i, rpc[v] = Taking(e) PROVE rpc'[v] = Taking(e)
    <3>1. Taking(e) # Dropping(d) /\ (e # d => Taking(e) # Taking(d))
      BY DEF Taking, Dropping, Decision
    <3>2. v # w
      BY <1>1, <1>5, <2>2, <3>1
    <3> QED
      BY <1>1, <1>2, <2>2, <3>2
  <2> QED
    BY <1>1, <2>1, <2>2 DEF OnFile, Taking
<1>6. i = rip[w] => ~OnFile(i, d)'
  BY <1>1, <1>2, Times DEF OnFile
<1>7. "pass" \in Decision /\ "fail" \in Decision
  BY DEF Decision
<1> QED
  BY <1>3, <1>4, <1>5, <1>6, <1>7, NothingSpent

\* A removal that failed leaves a stale file, or the one that was claimed: that
\* one is on file again, and it was counted as left over.
LEMMA LeftoverBudget ==
    ASSUME TypeOK, NEW i \in Ip, NEW b \in Nat, Used(i) <= Cardinality(Wrote(i)) + b, StageInv,
           NEW w \in Inbound, NEW d \in Decision, Drop(w, d) \/ Take(w, d), UNCHANGED files
    PROVE  Used(i)' <= Cardinality(Wrote(i))' + (IF Take(w, d) /\ i = rip[w] THEN b + 1 ELSE b)
<1>1. /\ UNCHANGED <<chVars, gwVars, rip, files>> /\ rpc[w] \in {Dropping(d), Taking(d)}
      /\ \/ rpc[w] = Dropping(d) /\ UNCHANGED took /\ rpc' = [rpc EXCEPT ![w] = AfterMiss(d)]
         \/ Take(w, d) /\ rpc[w] = Taking(d) /\ took' = [took EXCEPT ![w] = d] /\ rpc' = [rpc EXCEPT ![w] = "done"]
  BY DEF Drop, Take, Worker
<1>2. /\ rpc \in [Inbound -> {"new", "pass", "fail", "drop_pass", "drop_fail", "take_pass",
                            "take_fail", "score", "done"}]
      /\ took \in [Inbound -> Decision \union {"none"}] /\ rip[w] \in Ip
  BY DEF TypeOK, RouteTypes
<1>3. Wrote(i)' = Wrote(i) /\ InHand(i)' = InHand(i)
  BY <1>1, GatewayAside
<1>4. Claimants(i)' = Claimants(i)
  <2>1. CASE rpc[w] = Dropping(d)
    <3>1. /\ Dropping(d) \notin {"take_pass", "take_fail", "done", Taking(d)}
          /\ AfterMiss(d) \notin {"take_pass", "take_fail"}
      BY DEF Dropping, Taking, AfterMiss
    <3> QED
      BY <1>1, <1>2, <2>1, <3>1 DEF Claimants, Claims
  <2>2. CASE rpc[w] = Taking(d)
    <3>1. Taking(d) \in {"take_pass", "take_fail"} /\ Taking(d) # Dropping(d) /\ d # "none"
      BY DEF Taking, Dropping, Decision
    <3> QED
      BY <1>1, <1>2, <2>2, <3>1 DEF Claimants, Claims
  <2> QED
    BY <1>1, <2>1, <2>2
<1>5. ASSUME NEW e \in Decision, i # rip[w] \/ e # d \/ ~Take(w, d) PROVE OnFile(i, e)' => OnFile(i, e)
  <2>1. ASSUME NEW v \in Inbound, rip[v] = i, rpc[v] = Taking(e) PROVE rpc'[v] = Taking(e)
    <3>1. Taking(e) # Dropping(d) /\ (e # d => Taking(e) # Taking(d))
      BY DEF Taking, Dropping, Decision
    <3>2. v # w
      BY <1>1, <1>5, <2>1, <3>1
    <3> QED
      BY <1>1, <1>2, <2>1, <3>2
  <2> QED
    BY <1>1, <2>1 DEF OnFile, Taking
<1>6. "pass" \in Decision /\ "fail" \in Decision /\ d \in {"pass", "fail"}
  BY DEF Decision
<1>7. CASE ~(Take(w, d) /\ i = rip[w])
  BY <1>3, <1>4, <1>5, <1>6, <1>7, NothingSpent
<1>8. CASE Take(w, d) /\ i = rip[w]
  <2>1. \/ OnFile(i, "pass")' => OnFile(i, "pass")
        \/ OnFile(i, "fail")' => OnFile(i, "fail")
    BY <1>5, <1>6
  <2>2. /\ Cardinality(Claimants(i)') = Cardinality(Claimants(i))
        /\ Cardinality(Wrote(i)') = Cardinality(Wrote(i))
    BY <1>3, <1>4
  <2>3. Used(i)' <= Used(i) + 1 /\ Used(i) \in Nat /\ Used(i)' \in Nat
    BY <1>3, <2>1, <2>2, Counts DEF Used, One
  <2>4. Used(i)' <= Cardinality(Wrote(i))' + (b + 1)
    BY <2>2, <2>3, Counts
  <2> QED
    BY <1>8, <2>4
<1> QED
  BY <1>7, <1>8

\* A worker whose pipeline raises gives up what it claimed.
LEMMA FailBudget ==
    ASSUME TypeOK, NEW i \in Ip, NEW b \in Nat, Used(i) <= Cardinality(Wrote(i)) + b, StageInv, NEW w \in Inbound, RouteFails(w)
    PROVE  Used(i)' <= Cardinality(Wrote(i))' + b
<1>1. /\ UNCHANGED <<chVars, gwVars, rip, took, files>> /\ rpc[w] # "done"
      /\ rpc' = [rpc EXCEPT ![w] = "done"]
  BY DEF RouteFails, Worker, Routing
<1>2. rpc \in [Inbound -> {"new", "pass", "fail", "drop_pass", "drop_fail", "take_pass",
                            "take_fail", "score", "done"}]
  BY DEF TypeOK, RouteTypes
<1>3. Wrote(i)' = Wrote(i) /\ InHand(i)' = InHand(i) /\ took[w] = "none"
  BY <1>1, GatewayAside DEF StageInv
<1>4. "pass" \in Decision /\ "fail" \in Decision
  BY DEF Decision
<1>5. ASSUME NEW e \in Decision, rip[w] # i \/ rpc[w] # Taking(e) PROVE OnFile(i, e)' => OnFile(i, e)
  <2>1. ASSUME NEW v \in Inbound, rip[v] = i, rpc[v] = Taking(e) PROVE rpc'[v] = Taking(e)
    BY <1>1, <1>2, <1>5, <2>1
  <2> QED
    BY <1>1, <2>1 DEF OnFile, Taking
<1>6. CASE rip[w] # i \/ rpc[w] \notin {"take_pass", "take_fail"}
  <2>1. Claimants(i)' = Claimants(i)
    BY <1>1, <1>2, <1>3, <1>6 DEF Claimants, Claims
  <2>2. rip[w] # i \/ (rpc[w] # Taking("pass") /\ rpc[w] # Taking("fail"))
    BY <1>6 DEF Taking
  <2> QED
    BY <1>3, <1>4, <1>5, <2>1, <2>2, NothingSpent
<1>7. CASE rip[w] = i /\ rpc[w] \in {"take_pass", "take_fail"}
  <2>1. Claimants(i)' = Claimants(i) \ {w} /\ w \in Claimants(i)
    BY <1>1, <1>2, <1>3, <1>7 DEF Claimants, Claims
  <2>2. Cardinality(Claimants(i)') = Cardinality(Claimants(i)) - 1
    BY <2>1, Counts, FS_RemoveElement
  <2>3. \/ OnFile(i, "pass")' => OnFile(i, "pass")
        \/ OnFile(i, "fail")' => OnFile(i, "fail")
    <3>1. Taking("pass") # Taking("fail")
      BY DEF Taking
    <3> QED
      BY <1>4, <1>5, <3>1
  <2> QED
    BY <1>3, <2>2, <2>3, Counts DEF Used, One
<1> QED
  BY <1>6, <1>7

\* Arriving and being scored use nothing.
LEMMA PassingBudget ==
    ASSUME TypeOK, NEW i \in Ip, NEW b \in Nat, Used(i) <= Cardinality(Wrote(i)) + b, StageInv, NEW w \in Inbound,
           \/ \E ip \in Ip : Arrive(w, ip)
           \/ \E x \in Context : ScoreAndRoute(w, x)
    PROVE  Used(i)' <= Cardinality(Wrote(i))' + b
<1>1. /\ UNCHANGED <<chVars, gwVars, took, files>> /\ rpc[w] \in {"new", "score"}
      /\ rpc' = [rpc EXCEPT ![w] = rpc'[w]] /\ rpc'[w] \in {"pass", "done"}
      /\ \A v \in Inbound \ {w} : rip'[v] = rip[v]
  <2>1. rpc \in [Inbound -> {"new", "pass", "fail", "drop_pass", "drop_fail", "take_pass",
                            "take_fail", "score", "done"}] /\ rip \in [Inbound -> Ip]
    BY DEF TypeOK, RouteTypes
  <2> QED
    BY <2>1 DEF Arrive, ScoreAndRoute, Worker
<1>2. rpc \in [Inbound -> {"new", "pass", "fail", "drop_pass", "drop_fail", "take_pass",
                            "take_fail", "score", "done"}]
  BY DEF TypeOK, RouteTypes
<1>3. took[w] = "none"
  BY <1>1 DEF StageInv
<1>4. Claimants(i)' = Claimants(i)
  BY <1>1, <1>2, <1>3 DEF Claimants, Claims
<1>5. ASSUME NEW e \in Decision PROVE OnFile(i, e)' => OnFile(i, e)
  <2>1. ASSUME NEW v \in Inbound, rip[v] = i, rpc[v] = Taking(e) PROVE rip'[v] = i /\ rpc'[v] = Taking(e)
    <3>1. v # w
      BY <1>1, <2>1 DEF Taking
    <3> QED
      BY <1>1, <1>2, <2>1, <3>1
  <2> QED
    BY <1>1, <2>1 DEF OnFile, Taking
<1>6. Wrote(i)' = Wrote(i) /\ InHand(i)' = InHand(i)
  BY <1>1, GatewayAside
<1> QED
  BY <1>4, <1>5, <1>6, NothingSpent DEF Decision

LEMMA BudgetNext == SerialInv /\ [Next]_vars => BudgetInv'
<1> SUFFICES ASSUME SerialInv, [Next]_vars, NEW i \in Ip, i \notin overlap'
             PROVE  Used(i)' <= Cardinality(Wrote(i))' + leftover'[i]
  BY DEF BudgetInv
<1>1. TypeOK /\ WriterInv /\ StageInv /\ AloneInv
  BY DEF SerialInv
<1>t. leftover \in [Ip -> Nat]
  BY <1>1 DEF TypeOK, RouteTypes
<1>2. i \notin overlap
  <2>1. ASSUME NEW s \in Challenge, PushStep(s) \/ ClientStep(s) \/ GatewayStep(s) \/ PushUnreachable(s)
        PROVE  UNCHANGED overlap
    BY <1>1, <2>1, ChallengeMoves DEF rtVars
  <2>2. ASSUME WriterStep \/ WriteFails \/ Tick \/ UNCHANGED vars PROVE UNCHANGED overlap
    BY <2>2 DEF WriterStep, Wipe, Create, Fill, Writing, WriteFails, Tick, vars, rtVars
  <2>3. ASSUME NEW w \in Inbound, WorkerStep(w) \/ RouteFails(w) \/ \E ip \in Ip : Arrive(w, ip)
        PROVE  overlap \subseteq overlap'
    BY <2>3 DEF WorkerStep, RouteFails, Arrive, Read, Drop, Take, ScoreAndRoute
  <2> QED
    BY <2>1, <2>2, <2>3 DEF Next
<1>b. PICK b \in Nat : b = leftover[i]
  BY <1>t
<1>3. Used(i) <= Cardinality(Wrote(i)) + b
  BY <1>2, <1>b DEF SerialInv, BudgetInv
<1>4. ASSUME Used(i)' <= Cardinality(Wrote(i))' + b, UNCHANGED leftover
      PROVE  Used(i)' <= Cardinality(Wrote(i))' + leftover'[i]
  BY <1>4, <1>b
<1>5. CASE \E s \in Challenge : PushStep(s) \/ ClientStep(s) \/ GatewayStep(s) \/ PushUnreachable(s)
  <2>1. UNCHANGED leftover
    BY <1>1, <1>5, ChallengeMoves DEF rtVars
  <2> QED
    BY <1>1, <1>3, <1>4, <1>5, <2>1, ChallengeBudget
<1>6. CASE WriterStep \/ WriteFails \/ Tick \/ UNCHANGED vars
  <2>1. UNCHANGED leftover
    BY <1>6 DEF WriterStep, Wipe, Create, Fill, Writing, WriteFails, Tick, vars, rtVars
  <2> QED
    BY <1>1, <1>3, <1>4, <1>6, <2>1, IdleBudget, CreateBudget, FillBudget DEF WriterStep
<1>7. ASSUME NEW w \in Inbound, WorkerStep(w) \/ RouteFails(w) \/ \E ip \in Ip : Arrive(w, ip)
      PROVE  Used(i)' <= Cardinality(Wrote(i))' + leftover'[i]
  <2>1. ASSUME NEW d \in Decision, Read(w, d) PROVE Used(i)' <= Cardinality(Wrote(i))' + leftover'[i]
    BY <1>1, <1>2, <1>3, <1>4, <2>1, ReadBudget DEF Read
  <2>2. ASSUME NEW d \in Decision, Drop(w, d) \/ Take(w, d)
        PROVE  Used(i)' <= Cardinality(Wrote(i))' + leftover'[i]
    <3>1. CASE UNCHANGED leftover /\ Remove(w, d)
      BY <1>1, <1>3, <1>4, <2>2, <3>1, RemoveBudget
    <3>2. CASE Drop(w, d) /\ UNCHANGED <<files, leftover>>
      <4>1. ~Take(w, d)
        BY <3>2 DEF Drop, Take, Dropping, Taking
      <4> QED
        BY <1>1, <1>3, <1>4, <3>2, <4>1, LeftoverBudget
    <3>3. CASE Take(w, d) /\ UNCHANGED files /\ leftover' = [leftover EXCEPT ![rip[w]] = @ + 1]
      <4>1. leftover'[i] = IF i = rip[w] THEN b + 1 ELSE b
        BY <3>3, <1>t, <1>b
      <4>2. Used(i)' <= Cardinality(Wrote(i))' + (IF Take(w, d) /\ i = rip[w] THEN b + 1 ELSE b)
        BY <1>1, <1>3, <3>3, LeftoverBudget
      <4> QED
        BY <3>3, <4>1, <4>2
    <3> QED
      BY <2>2, <3>1, <3>2, <3>3 DEF Drop, Take
  <2>3. CASE RouteFails(w)
    BY <1>1, <1>3, <1>4, <2>3, FailBudget DEF RouteFails
  <2>4. CASE \E ip \in Ip : Arrive(w, ip)
    BY <1>1, <1>3, <1>4, <2>4, PassingBudget DEF Arrive
  <2>5. CASE \E x \in Context : ScoreAndRoute(w, x)
    BY <1>1, <1>3, <1>4, <2>5, PassingBudget DEF ScoreAndRoute
  <2> QED
    BY <1>7, <2>1, <2>2, <2>3, <2>4, <2>5 DEF WorkerStep
<1> QED
  BY <1>5, <1>6, <1>7 DEF Next

\* As long as the connections of an address are routed one after another, they
\* use no more decisions than its challenges wrote and failed removals left
\* behind, for any number of challenges and workers and any failures
\* (_consume_decision).
THEOREM SerialUseIsSingle == Spec => []SingleUseIfSerial
<1>1. Init => SerialInv
  <2>1. SUFFICES ASSUME Init PROVE SerialInv
    OBVIOUS
  <2>2. TypeOK /\ WriterInv
    BY <2>1, GrantInit DEF GrantInv
  <2>3. StageInv /\ AloneInv
    BY <2>1 DEF Init, StageInv, AloneInv, Routing
  <2>4. ASSUME NEW i \in Ip PROVE Used(i) <= Cardinality(Wrote(i)) + leftover[i]
    <3>1. Claimants(i) = {} /\ leftover[i] = 0
      BY <2>1 DEF Init, Claimants, Claims
    <3>2. ~OnFile(i, "pass") /\ ~OnFile(i, "fail") /\ ~InHand(i)
      BY <2>1, Times DEF Init, OnFile, InHand, Decision
    <3> QED
      BY <3>1, <3>2, FS_EmptySet, Counts DEF Used, One
  <2> QED
    BY <2>2, <2>3, <2>4 DEF SerialInv, BudgetInv
<1>2. SerialInv /\ [Next]_vars => SerialInv'
  BY TypeNext, WriterNext, StageNext, AloneNext, BudgetNext DEF SerialInv
<1>3. SerialInv => SingleUseIfSerial
  <2>1. SUFFICES ASSUME SerialInv, NEW i \in Ip \ overlap
                 PROVE  Cardinality({w \in Inbound : rip[w] = i /\ took[w] # "none"})
                            <= Cardinality(Wrote(i)) + leftover[i]
    BY DEF SingleUseIfSerial, Wrote
  <2>2. {w \in Inbound : rip[w] = i /\ took[w] # "none"} \in SUBSET Claimants(i)
    BY DEF Claimants, Claims
  <2>3. /\ Cardinality({w \in Inbound : rip[w] = i /\ took[w] # "none"}) <= Cardinality(Claimants(i))
        /\ Cardinality({w \in Inbound : rip[w] = i /\ took[w] # "none"}) \in Nat
    BY <2>2, Counts, FS_Subset, FS_CardinalityType
  <2>4. Cardinality(Claimants(i)) <= Used(i) /\ Used(i) \in Nat
    BY Counts DEF Used, One
  <2> QED
    BY <2>1, <2>3, <2>4, Counts DEF SerialInv, BudgetInv, TypeOK, RouteTypes
<1> QED
  BY <1>1, <1>2, <1>3, PTL DEF Spec
=============================================================================
