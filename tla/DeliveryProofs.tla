--------------------------- MODULE DeliveryProofs ---------------------------
(***************************************************************************)
(* That an escalation pages when it must, and that a batching emitter      *)
(* keeps every alert in one place, for any number of alerts, emitters and  *)
(* failures and any batch size.                                            *)
(***************************************************************************)
EXTENDS AlertDelivery, FiniteSetTheorems, WellFoundedInduction, TLAPS

-----------------------------------------------------------------------------
(* Escalations                                                             *)
(*                                                                         *)
(* The argument: the log is not empty, so it has a least rank and a first  *)
(* action of that rank; if any action is severe, that one is.              *)

\* Every set of natural numbers has a least one.
LEMMA LeastNatural ==
    ASSUME NEW S \in SUBSET Nat, S # {} PROVE \E m \in S : \A n \in S : m <= n
<1>1. PICK R : R = OpToRel(<, Nat)
  OBVIOUS
<1>2. IsWellFoundedOn(R, Nat)
  BY <1>1, NatLessThanWellFounded
<1>3. PICK m \in S : \A n \in S : ~(<<n, m>> \in R)
  BY <1>2, WFMin
<1>4. \A x, y \in Nat : x < y => <<x, y>> \in R
  BY <1>1 DEF OpToRel
<1>5. ASSUME NEW n \in S PROVE m <= n
  <2>1. n \in Nat /\ m \in Nat /\ ~(<<n, m>> \in R)
    BY <1>3
  <2>2. ~(n < m)
    BY <2>1, <1>4
  <2> QED
    BY <2>1, <2>2
<1> QED
  BY <1>3, <1>5

Ranks == {0, 1, 2, 3, 9}

LEMMA RankIsKnown ==
    \A v \in Severity : SevRank(v) \in Ranks /\ (v \in {"critical", "high"} <=> SevRank(v) <= 1)
BY DEF Severity, SevRank, Ranks

\* A log that is not empty has a headline.
LEMMA HeadlineExists ==
    ASSUME NEW l \in Seq(Severity), l # <<>>
    PROVE  \E i \in DOMAIN l : /\ \A k \in DOMAIN l : SevRank(l[i]) <= SevRank(l[k])
                               /\ \A k \in 1..(i - 1) : SevRank(l[i]) < SevRank(l[k])
<1>1. DOMAIN l = 1..Len(l) /\ Len(l) \in Nat /\ 1 \in DOMAIN l
  OBVIOUS
<1>2. \A k \in DOMAIN l : l[k] \in Severity
  OBVIOUS
<1>3. \A k \in DOMAIN l : SevRank(l[k]) \in Nat
  BY <1>2, RankIsKnown DEF Ranks
<1>4. PICK R : R = {SevRank(l[k]) : k \in DOMAIN l}
  OBVIOUS
<1>5. R \in SUBSET Nat /\ R # {}
  BY <1>1, <1>3, <1>4
<1>6. PICK m \in R : \A n \in R : m <= n
  BY <1>5, LeastNatural
<1>7. PICK F : F = {k \in DOMAIN l : SevRank(l[k]) = m}
  OBVIOUS
<1>8. F \in SUBSET Nat /\ F # {}
  BY <1>1, <1>4, <1>6, <1>7
<1>9. PICK i \in F : \A k \in F : i <= k
  BY <1>8, LeastNatural
<1>10. i \in DOMAIN l /\ SevRank(l[i]) = m /\ i \in Nat
  BY <1>7, <1>8, <1>9
<1>11. \A k \in DOMAIN l : SevRank(l[i]) <= SevRank(l[k])
  BY <1>4, <1>6, <1>10
<1>12. ASSUME NEW k \in 1..(i - 1) PROVE SevRank(l[i]) < SevRank(l[k])
  <2>1. k \in DOMAIN l /\ k < i /\ k \in Nat
    BY <1>1, <1>10
  <2>2. k \notin F
    BY <2>1, <1>9, <1>10
  <2>3. SevRank(l[k]) # m /\ SevRank(l[k]) \in Nat /\ m \in Nat
    BY <2>1, <2>2, <1>7, <1>3, <1>10
  <2> QED
    BY <2>1, <2>3, <1>10, <1>11
<1> QED
  BY <1>10, <1>11, <1>12

LEMMA SevereHeadline ==
    ASSUME NEW l \in Seq(Severity), NEW tier, \E i \in DOMAIN l : l[i] \in {"critical", "high"}
    PROVE  Headline(l, tier) \in {"critical", "high"}
<1>1. CASE tier = "L3"
  BY <1>1 DEF Headline
<1>2. CASE tier # "L3"
  <2>1. l # <<>> /\ \A k \in DOMAIN l : l[k] \in Severity
    OBVIOUS
  <2>2. PICK top : top = CHOOSE i \in DOMAIN l :
                        /\ \A k \in DOMAIN l : SevRank(l[i]) <= SevRank(l[k])
                        /\ \A k \in 1..(i - 1) : SevRank(l[i]) < SevRank(l[k])
    OBVIOUS
  <2>3. top \in DOMAIN l /\ \A k \in DOMAIN l : SevRank(l[top]) <= SevRank(l[k])
    BY <2>1, <2>2, HeadlineExists
  <2>4. PICK k \in DOMAIN l : l[k] \in {"critical", "high"}
    OBVIOUS
  <2>5. SevRank(l[k]) <= 1 /\ SevRank(l[k]) \in Ranks /\ SevRank(l[top]) \in Ranks
    BY <2>1, <2>3, <2>4, RankIsKnown
  <2>6. SevRank(l[top]) <= 1
    BY <2>3, <2>5 DEF Ranks
  <2>7. l[top] \in {"critical", "high"}
    BY <2>1, <2>3, <2>6, RankIsKnown
  <2> QED
    BY <1>2, <2>1, <2>2, <2>7 DEF Headline
<1> QED
  BY <1>1, <1>2

PageInv ==
    /\ DOMAIN raised = Request
    /\ SevereEscalationPages

LEMMA PageStep == PageInv /\ [DeliveryNext \/ EscalateNext]_deliveryVars => PageInv'
<1> SUFFICES ASSUME PageInv, [DeliveryNext \/ EscalateNext]_deliveryVars PROVE PageInv'
  OBVIOUS
<1>1. CASE UNCHANGED raised
  BY <1>1 DEF PageInv, SevereEscalationPages
<1>2. ASSUME NEW q \in Request, NEW l \in Logs, NEW tier \in {"L2", "L3"}, Escalate(q, l, tier)
      PROVE  PageInv'
  <2>1. l \in Seq(Severity) /\ Pager \in Chat
    BY DeliveryAssumption
  <2>2. raised' = [raised EXCEPT ![q] =
           [severe |-> \E i \in DOMAIN l : l[i] \in {"critical", "high"},
            told |-> Told(Headline(l, tier))]]
    BY <1>2 DEF Escalate
  <2>3. ASSUME \E i \in DOMAIN l : l[i] \in {"critical", "high"}
        PROVE  Pager \in Told(Headline(l, tier))
    BY <2>1, <2>3, SevereHeadline DEF Told, ShouldPage
  <2>4. DOMAIN raised' = Request /\ \A p \in Request \ {q} : raised'[p] = raised[p]
    BY <2>2 DEF PageInv
  <2>5. raised'[q].severe => Pager \in raised'[q].told
    BY <2>2, <2>3 DEF PageInv
  <2> QED
    BY <2>4, <2>5 DEF PageInv, SevereEscalationPages
<1>3. CASE EscalateNext
  BY <1>2, <1>3 DEF EscalateNext
<1>4. CASE DeliveryNext
  <2>1. \A a, s :
          /\ (Emit(a) \/ Gathered(a) \/ Chats(a) \/ BatchEmit(a, s) \/ Flush(a, s) \/ Acquire(a, s)) => UNCHANGED raised
          /\ (PeerCloses(s) \/ PeerStalls(s) \/ SecondPasses) => UNCHANGED raised
    BY DEF Emit, Gathered, Chats, BatchEmit, Flush, Acquire, PeerCloses, PeerStalls, SecondPasses, chats
  <2>2. \A a, s, r, sent :
          (Posted(a, s, r) \/ DirectEmit(a, s, r, sent) \/ Connect(a, s, r) \/ Send(a, s, r)) => UNCHANGED raised
    BY DEF Posted, DirectEmit, Connect, Send, chats
  <2>3. UNCHANGED raised
    BY <1>4, <2>1, <2>2, Zenon DEF DeliveryNext, SendStep
  <2> QED
    BY <2>3, <1>1
<1>5. CASE UNCHANGED deliveryVars
  BY <1>1, <1>5 DEF deliveryVars, chats
<1> QED
  BY <1>3, <1>4, <1>5

\* An escalation pages when the engagement holds any action severe enough to
\* page for, however long its logs are and wherever it is in them
\* (escalate.py, PagerDuty's threshold in chatops.py).
THEOREM SevereAlwaysPages == DeliverySpec => []SevereEscalationPages
<1>1. DeliveryInit => PageInv
  BY DEF DeliveryInit, PageInv, SevereEscalationPages, NotRaised
<1>2. PageInv => SevereEscalationPages
  BY DEF PageInv
<1> QED
  BY <1>1, <1>2, PageStep, PTL DEF DeliverySpec

-----------------------------------------------------------------------------
(* Batches                                                                 *)
(*                                                                         *)
(* The argument: no batch, waiting or under way, holds an alert twice, no  *)
(* two of them share one, what is settled is in none, and an alert has     *)
(* been accepted just when it is in one of these.  A batch under way       *)
(* belongs to a sender whose gather still waits for the emitter.           *)

InSeq(x, q) == \E i \in DOMAIN q : q[i] = x
Uniq(q) == \A i, j \in DOMAIN q : q[i] = q[j] => i = j

InFlight(x, s) == \E b \in Alert : InSeq(x, flight[b][s])

DeliveryTypes ==
    /\ at \in [Alert -> {"idle", "emit", "flush", "done"}]
    /\ left \in [Alert -> SUBSET Emitter]
    /\ pending \in [Batch -> Seq(Alert)]
    /\ flight \in [Alert -> [Batch -> Seq(Alert)]]
    /\ got \in [Emitter -> [Alert -> Nat]]
    /\ lost \in [Emitter -> SUBSET Alert]

PostsBelong ==
    \A a \in Alert, s \in Batch : flight[a][s] # <<>> => at[a] \in {"emit", "flush"} /\ s \in left[a]

OnePlace(x, s) ==
    /\ \A b, c \in Alert : InSeq(x, flight[b][s]) /\ InSeq(x, flight[c][s]) => b = c
    /\ InSeq(x, pending[s]) => ~InFlight(x, s)
    /\ Settled(x, s) => ~InSeq(x, pending[s]) /\ ~InFlight(x, s)
    /\ Accepted(x, s) <=> InSeq(x, pending[s]) \/ InFlight(x, s) \/ Settled(x, s)
    /\ got[s][x] <= 1

Sound(s) ==
    /\ Uniq(pending[s]) /\ \A b \in Alert : Uniq(flight[b][s])
    /\ \A x \in Alert : OnePlace(x, s)

BatchInv == DeliveryTypes /\ PostsBelong /\ \A s \in Batch : Sound(s)

LEMMA NothingIn == Uniq(<<>>) /\ \A x : ~InSeq(x, <<>>)
BY DEF Uniq, InSeq

LEMMA OneMore ==
    ASSUME NEW q \in Seq(Alert), NEW a \in Alert, Uniq(q), ~InSeq(a, q)
    PROVE  /\ Append(q, a) \in Seq(Alert) /\ Append(q, a) # <<>>
           /\ Uniq(Append(q, a))
           /\ \A x : InSeq(x, Append(q, a)) <=> InSeq(x, q) \/ x = a
<1>1. Append(q, a) \in Seq(Alert) /\ Len(Append(q, a)) = Len(q) + 1 /\ Len(q) \in Nat
  OBVIOUS
<1>2. PICK n \in Nat : n = Len(q) /\ DOMAIN q = 1..n
  OBVIOUS
<1>3. /\ DOMAIN Append(q, a) = 1..(n + 1) /\ Append(q, a)[n + 1] = a
      /\ \A i \in 1..n : Append(q, a)[i] = q[i]
  BY <1>2
<1>4. PICK b : b = Append(q, a)
  OBVIOUS
<1>5. DOMAIN b = 1..(n + 1) /\ b[n + 1] = a /\ \A i \in 1..n : b[i] = q[i]
  BY <1>3, <1>4, Zenon
<1>6. b # <<>> /\ Uniq(b)
  BY <1>2, <1>5 DEF Uniq, InSeq
<1>7. \A x : InSeq(x, b) <=> InSeq(x, q) \/ x = a
  BY <1>2, <1>5 DEF InSeq
<1> QED
  BY <1>1, <1>4, <1>6, <1>7, Zenon

\* How often a batch without repetitions holds an alert.
LEMMA CountIn ==
    ASSUME NEW q, Uniq(q), NEW x
    PROVE  /\ Cardinality(At(x, q)) = IF InSeq(x, q) THEN 1 ELSE 0
           /\ x \in Range(q) <=> InSeq(x, q)
<1>1. CASE InSeq(x, q)
  <2>1. PICK i \in DOMAIN q : q[i] = x
    BY <1>1 DEF InSeq
  <2>2. At(x, q) = {i}
    BY <2>1 DEF At, Uniq
  <2>3. Cardinality(At(x, q)) = 1
    BY <2>2, FS_Singleton
  <2> QED
    BY <2>3, <1>1 DEF Range, InSeq
<1>2. CASE ~InSeq(x, q)
  <2>1. At(x, q) = {}
    BY <1>2 DEF At, InSeq
  <2>2. Cardinality(At(x, q)) = 0
    BY <2>1, FS_EmptySet
  <2> QED
    BY <2>2, <1>2 DEF Range, InSeq
<1> QED
  BY <1>1, <1>2

\* The invariant gives the property.
LEMMA OnePlaceCounts ==
    ASSUME BatchInv PROVE BatchKeepsCount
<1> SUFFICES ASSUME NEW s \in Batch, NEW x \in Alert
             PROVE  Cardinality(Places(x, s)) = IF Accepted(x, s) THEN 1 ELSE 0
  BY DEF BatchInv, Sound, OnePlace, BatchKeepsCount
<1>1. Uniq(pending[s]) /\ (\A b \in Alert : Uniq(flight[b][s])) /\ OnePlace(x, s)
  BY DEF BatchInv, Sound
<1>2. \A w : w \in Places(x, s) <=>
          \/ \E i \in At(x, pending[s]) : w = <<"waiting", x, i>>
          \/ \E b \in Alert : \E i \in At(x, flight[b][s]) : w = <<"posting", b, i>>
          \/ Settled(x, s) /\ w = <<"settled", x, 0>>
  <2>1. PICK W, P, Z : /\ W = Waiting(x, s) /\ P = Posting(x, s)
                       /\ Z = IF Settled(x, s) THEN {<<"settled", x, 0>>} ELSE {}
    OBVIOUS
  <2>2. Places(x, s) = W \cup P \cup Z
    BY <2>1 DEF Places
  <2>3. \A w : w \in W <=> \E i \in At(x, pending[s]) : w = <<"waiting", x, i>>
    BY <2>1 DEF Waiting
  <2>4. ASSUME NEW w
        PROVE  w \in P <=> \E b \in Alert : \E i \in At(x, flight[b][s]) : w = <<"posting", b, i>>
    <3>1. PICK U : U = {{<<"posting", b, i>> : i \in At(x, flight[b][s])} : b \in Alert}
      OBVIOUS
    <3>2. w \in P <=> \E T \in U : w \in T
      BY <2>1, <3>1 DEF Posting
    <3>3. (\E T \in U : w \in T) <=> \E b \in Alert : w \in {<<"posting", b, i>> : i \in At(x, flight[b][s])}
      BY <3>1
    <3>4. \A b \in Alert : w \in {<<"posting", b, i>> : i \in At(x, flight[b][s])}
                             <=> \E i \in At(x, flight[b][s]) : w = <<"posting", b, i>>
      OBVIOUS
    <3> QED
      BY <3>2, <3>3, <3>4
  <2>5. \A w : w \in Z <=> Settled(x, s) /\ w = <<"settled", x, 0>>
    BY <2>1
  <2> QED
    BY <2>2, <2>3, <2>4, <2>5, Zenon
<1>3. CASE InSeq(x, pending[s])
  <2>1. PICK i \in DOMAIN pending[s] : pending[s][i] = x
    BY <1>3 DEF InSeq
  <2>2. At(x, pending[s]) = {i}
    BY <2>1, <1>1 DEF At, Uniq
  <2>3. ~Settled(x, s) /\ \A b \in Alert : At(x, flight[b][s]) = {}
    BY <1>3, <1>1 DEF OnePlace, InFlight, InSeq, At
  <2>4. Places(x, s) = {<<"waiting", x, i>>}
    BY <1>2, <2>2, <2>3
  <2> QED
    BY <2>4, <1>3, <1>1, FS_Singleton DEF OnePlace
<1>4. CASE InFlight(x, s)
  <2>1. PICK b \in Alert : InSeq(x, flight[b][s])
    BY <1>4 DEF InFlight
  <2>2. PICK i \in DOMAIN flight[b][s] : flight[b][s][i] = x
    BY <2>1 DEF InSeq
  <2>3. At(x, flight[b][s]) = {i}
    BY <2>2, <1>1 DEF At, Uniq
  <2>4. \A c \in Alert \ {b} : At(x, flight[c][s]) = {}
    BY <2>1, <1>1 DEF OnePlace, InSeq, At
  <2>5. ~Settled(x, s) /\ At(x, pending[s]) = {}
    BY <1>4, <1>1 DEF OnePlace, InSeq, At
  <2>6. Places(x, s) = {<<"posting", b, i>>}
    BY <1>2, <2>3, <2>4, <2>5
  <2> QED
    BY <2>6, <1>4, <1>1, FS_Singleton DEF OnePlace
<1>5. CASE ~InSeq(x, pending[s]) /\ ~InFlight(x, s)
  <2>1. At(x, pending[s]) = {} /\ \A b \in Alert : At(x, flight[b][s]) = {}
    BY <1>5 DEF InFlight, InSeq, At
  <2>2. CASE Settled(x, s)
    <3>1. Places(x, s) = {<<"settled", x, 0>>}
      BY <1>2, <2>1, <2>2
    <3> QED
      BY <3>1, <2>2, <1>1, FS_Singleton DEF OnePlace
  <2>3. CASE ~Settled(x, s)
    <3>1. Places(x, s) = {}
      BY <1>2, <2>1, <2>3
    <3>2. ~Accepted(x, s)
      BY <1>5, <2>3, <1>1 DEF OnePlace
    <3> QED
      BY <3>1, <3>2, FS_EmptySet
  <2> QED
    BY <2>2, <2>3
<1> QED
  BY <1>3, <1>4, <1>5

LEMMA BatchInit == DeliveryInit => BatchInv
<1> SUFFICES ASSUME DeliveryInit PROVE BatchInv
  OBVIOUS
<1>1. DeliveryTypes /\ PostsBelong
  BY DEF DeliveryInit, DeliveryTypes, PostsBelong, Emitter
<1>2. ASSUME NEW s \in Batch PROVE Sound(s)
  <2>1. /\ pending[s] = <<>> /\ \A b \in Alert : flight[b][s] = <<>> /\ at[b] = "idle"
        /\ \A x \in Alert : got[s][x] = 0 /\ x \notin lost[s]
    BY DEF DeliveryInit, Emitter
  <2>2. ASSUME NEW x \in Alert PROVE OnePlace(x, s)
    <3>1. ~InSeq(x, pending[s]) /\ ~InFlight(x, s) /\ ~Settled(x, s) /\ ~Accepted(x, s) /\ got[s][x] <= 1
      BY <2>1, NothingIn DEF InFlight, Settled, Accepted
    <3> QED
      BY <3>1 DEF OnePlace, InFlight
  <2> QED
    BY <2>1, <2>2, NothingIn DEF Sound
<1> QED
  BY <1>1, <1>2 DEF BatchInv

\* An emitter that a step does not concern stays sound.
LEMMA OtherEmitter ==
    ASSUME NEW s \in Batch, Sound(s), pending'[s] = pending[s], \A b \in Alert : flight'[b][s] = flight[b][s],
           got'[s] = got[s], lost'[s] = lost[s],
           \A x \in Alert : Accepted(x, s)' <=> Accepted(x, s)
    PROVE  Sound(s)'
<1>1. \A x \in Alert : InFlight(x, s)' <=> InFlight(x, s)
  BY DEF InFlight, InSeq
<1>2. \A x \in Alert : Settled(x, s)' <=> Settled(x, s)
  BY DEF Settled
<1>3. \A x \in Alert : OnePlace(x, s)'
  BY <1>1, <1>2 DEF Sound, OnePlace, InSeq
<1> QED
  BY <1>3 DEF Sound, Uniq

\* A step of sender a with an emitter that does not batch, or with none.
LEMMA OtherStep ==
    ASSUME BatchInv, DeliveryTypes', UNCHANGED <<pending, flight>>,
           \A s \in Batch : got'[s] = got[s] /\ lost'[s] = lost[s],
           \A x \in Alert, s \in Batch : /\ Accepted(x, s)' <=> Accepted(x, s)
                                         /\ flight[x][s] # <<>> => at'[x] = at[x] /\ s \in left'[x]
    PROVE  BatchInv'
<1>1. PostsBelong'
  BY DEF BatchInv, PostsBelong
<1>2. \A s \in Batch : Sound(s)'
  BY OtherEmitter DEF BatchInv
<1> QED
  BY <1>1, <1>2 DEF BatchInv

\* A sender takes the batch, its own alert in it or not.
LEMMA TakeKeepsPlaces ==
    ASSUME BatchInv, NEW a \in Alert, NEW s \in Batch, NEW batch \in Seq(Alert), batch # <<>>,
           flight[a][s] = <<>>, TakeBatch(a, s, batch), at[a] \in {"emit", "flush"}, s \in left[a],
           Uniq(batch), \A x \in Alert : InSeq(x, batch) <=> InSeq(x, pending[s]) \/ (at[a] = "emit" /\ x = a),
           at[a] = "emit" => ~Accepted(a, s),
           UNCHANGED <<at, left, got, lost>>
    PROVE  BatchInv'
<1>t. DeliveryTypes
  BY DEF BatchInv
<1>1. /\ pending' = [pending EXCEPT ![s] = <<>>]
      /\ flight' = [flight EXCEPT ![a][s] = batch]
  BY DEF TakeBatch
<1>2. DeliveryTypes'
  BY <1>1, <1>t DEF DeliveryTypes
<1>3. /\ pending'[s] = <<>> /\ flight'[a][s] = batch
      /\ \A z \in Batch \ {s} : pending'[z] = pending[z] /\ \A b \in Alert : flight'[b][z] = flight[b][z]
      /\ \A b \in Alert \ {a} : flight'[b][s] = flight[b][s]
  BY <1>1, <1>t DEF DeliveryTypes
<1>4. PostsBelong'
  <2> SUFFICES ASSUME NEW b \in Alert, NEW z \in Batch, flight'[b][z] # <<>>
               PROVE  at'[b] \in {"emit", "flush"} /\ z \in left'[b]
    BY DEF PostsBelong
  <2> QED
    BY <1>3 DEF BatchInv, PostsBelong
<1>5. ASSUME NEW z \in Batch \ {s} PROVE Sound(z)'
  <2>1. \A x \in Alert : Accepted(x, z)' <=> Accepted(x, z)
    BY <1>3, <1>5 DEF Accepted
  <2> QED
    BY <1>3, <1>5, <2>1, OtherEmitter DEF BatchInv
<1>6. Sound(s)'
  <2>1. Sound(s)
    BY DEF BatchInv
  <2>2. Uniq(pending'[s]) /\ \A b \in Alert : Uniq(flight'[b][s])
    BY <1>3, <2>1, NothingIn DEF Sound
  <2>3. ASSUME NEW x \in Alert PROVE OnePlace(x, s)'
    <3>1. OnePlace(x, s) /\ ~InSeq(x, pending'[s]) /\ ~InSeq(x, flight[a][s])
      BY <2>1, <1>3, NothingIn DEF Sound
    <3>2. Settled(x, s)' <=> Settled(x, s)
      BY DEF Settled
    <3>3. InSeq(x, batch) <=> InSeq(x, pending[s]) \/ (at[a] = "emit" /\ x = a)
      OBVIOUS
    <3>4. \A b \in Alert \ {a} : InSeq(x, flight'[b][s]) <=> InSeq(x, flight[b][s])
      BY <1>3
    <3>5. InSeq(x, flight'[a][s]) <=> InSeq(x, batch)
      BY <1>3
    <3>6. InSeq(x, batch) => ~InFlight(x, s) /\ ~Settled(x, s)
      BY <3>1, <3>3 DEF OnePlace
    <3>7. \A b, c \in Alert : InSeq(x, flight'[b][s]) /\ InSeq(x, flight'[c][s]) => b = c
      BY <3>1, <3>4, <3>5, <3>6 DEF OnePlace, InFlight
    <3>8. InFlight(x, s)' <=> InFlight(x, s) \/ InSeq(x, batch)
      BY <3>1, <3>4, <3>5 DEF InFlight
    <3>9. Accepted(x, s)' <=> Accepted(x, s) \/ (at[a] = "emit" /\ x = a)
      <4>1. CASE x = a
        BY <4>1, <1>3 DEF Accepted
      <4>2. CASE x # a
        BY <4>2, <1>3 DEF Accepted
      <4> QED
        BY <4>1, <4>2
    <3> QED
      BY <3>1, <3>2, <3>3, <3>6, <3>7, <3>8, <3>9 DEF OnePlace
  <2> QED
    BY <2>2, <2>3 DEF Sound
<1> QED
  BY <1>2, <1>4, <1>5, <1>6 DEF BatchInv

\* The emitter keeps the alert for a later batch.
LEMMA WaitKeepsPlaces ==
    ASSUME BatchInv, NEW a \in Alert, NEW s \in Batch, flight[a][s] = <<>>, at[a] = "emit", s \in left[a],
           pending' = [pending EXCEPT ![s] = Append(pending[s], a)], Done(a, s),
           UNCHANGED <<at, flight, got, lost>>
    PROVE  BatchInv'
<1>t. DeliveryTypes
  BY DEF BatchInv
<1>1. Sound(s) /\ OnePlace(a, s) /\ ~Accepted(a, s) /\ ~InSeq(a, pending[s]) /\ ~InFlight(a, s) /\ ~Settled(a, s)
  BY DEF BatchInv, Sound, OnePlace, Accepted
<1>2. PICK held : held = Append(pending[s], a)
  OBVIOUS
<1>3. /\ held \in Seq(Alert) /\ Uniq(held)
      /\ \A x : InSeq(x, held) <=> InSeq(x, pending[s]) \/ x = a
  <2>1. pending[s] \in Seq(Alert) /\ Uniq(pending[s])
    BY <1>1, <1>t DEF DeliveryTypes, Sound
  <2> QED
    BY <2>1, <1>1, <1>2, OneMore, Zenon
<1>4. pending' = [pending EXCEPT ![s] = held] /\ left' = [left EXCEPT ![a] = @ \ {s}]
  BY <1>2, Zenon DEF Done
<1>5. DeliveryTypes'
  BY <1>3, <1>4, <1>t DEF DeliveryTypes
<1>6. /\ pending'[s] = held /\ \A z \in Batch \ {s} : pending'[z] = pending[z]
      /\ left'[a] = left[a] \ {s} /\ \A b \in Alert \ {a} : left'[b] = left[b]
  BY <1>4, <1>t DEF DeliveryTypes
<1>7. PostsBelong'
  BY <1>6 DEF BatchInv, PostsBelong
<1>8. ASSUME NEW z \in Batch \ {s} PROVE Sound(z)'
  <2>1. \A x \in Alert : Accepted(x, z)' <=> Accepted(x, z)
    BY <1>6, <1>8 DEF Accepted
  <2> QED
    BY <1>6, <1>8, <2>1, OtherEmitter DEF BatchInv
<1>9. ASSUME NEW x \in Alert PROVE OnePlace(x, s)'
  <2>1. OnePlace(x, s)
    BY <1>1 DEF Sound
  <2>2. (Settled(x, s)' <=> Settled(x, s)) /\ (InFlight(x, s)' <=> InFlight(x, s))
    BY DEF Settled, InFlight
  <2>3. Accepted(x, s)' <=> Accepted(x, s) \/ x = a
    <3>1. CASE x = a
      BY <3>1, <1>6 DEF Accepted
    <3>2. CASE x # a
      BY <3>2, <1>6 DEF Accepted
    <3> QED
      BY <3>1, <3>2
  <2>4. InSeq(x, pending'[s]) <=> InSeq(x, pending[s]) \/ x = a
    BY <1>3, <1>6
  <2> QED
    BY <1>1, <2>1, <2>2, <2>3, <2>4 DEF OnePlace
<1>10. Sound(s)'
  BY <1>1, <1>3, <1>6, <1>9 DEF Sound
<1> QED
  BY <1>5, <1>7, <1>8, <1>10 DEF BatchInv

\* A POST is over: what was in the batch is settled.
LEMMA PostKeepsPlaces ==
    ASSUME BatchInv, NEW a \in Alert, NEW s \in Batch, NEW r \in Outcome, Posted(a, s, r)
    PROVE  BatchInv'
<1>t. DeliveryTypes /\ s \in Emitter
  BY DEF BatchInv, Emitter
<1>1. PICK batch : batch = flight[a][s]
  OBVIOUS
<1>2. /\ batch # <<>> /\ batch \in Seq(Alert) /\ Uniq(batch) /\ at[a] \in {"emit", "flush"} /\ s \in left[a] /\ Sound(s)
  BY <1>1, <1>t DEF Posted, BatchInv, PostsBelong, Sound, DeliveryTypes
<1>3. /\ flight' = [flight EXCEPT ![a][s] = <<>>] /\ left' = [left EXCEPT ![a] = @ \ {s}]
      /\ got' = [got EXCEPT ![s] = [x \in Alert |-> got[s][x] +
                  (IF r = "refused" THEN 0 ELSE Cardinality(At(x, batch)))]]
      /\ lost' = IF r = "ok" THEN lost ELSE [lost EXCEPT ![s] = @ \cup Range(batch)]
      /\ UNCHANGED <<at, pending>>
  BY <1>1, <1>t DEF Posted, Done, Receive, DeliveryTypes
<1>4. \A x \in Alert : /\ Cardinality(At(x, batch)) = IF InSeq(x, batch) THEN 1 ELSE 0
                       /\ x \in Range(batch) <=> InSeq(x, batch)
  BY <1>2, CountIn
<1>5. Range(batch) \subseteq Alert
  BY <1>2 DEF Range
<1>6. /\ flight'[a][s] = <<>> /\ \A b \in Alert \ {a} : flight'[b][s] = flight[b][s]
      /\ \A z \in Batch \ {s} : \A b \in Alert : flight'[b][z] = flight[b][z]
      /\ left'[a] = left[a] \ {s} /\ \A b \in Alert \ {a} : left'[b] = left[b]
      /\ \A z \in Emitter \ {s} : got'[z] = got[z] /\ lost'[z] = lost[z]
  BY <1>3, <1>t DEF DeliveryTypes
<1>7. ASSUME NEW x \in Alert
      PROVE  /\ got'[s][x] = got[s][x] + (IF r = "refused" \/ ~InSeq(x, batch) THEN 0 ELSE 1)
             /\ x \in lost'[s] <=> x \in lost[s] \/ (r # "ok" /\ InSeq(x, batch))
  <2>1. got'[s][x] = got[s][x] + (IF r = "refused" THEN 0 ELSE Cardinality(At(x, batch)))
    BY <1>3, <1>t DEF DeliveryTypes
  <2>2. x \in lost'[s] <=> x \in lost[s] \/ (r # "ok" /\ x \in Range(batch))
    BY <1>3, <1>t DEF DeliveryTypes
  <2>3. (Cardinality(At(x, batch)) = IF InSeq(x, batch) THEN 1 ELSE 0) /\ (x \in Range(batch) <=> InSeq(x, batch))
    BY <1>4
  <2> QED
    BY <2>1, <2>2, <2>3
<1>8. DeliveryTypes'
  <2>0. \A x \in Alert : got[s][x] \in Nat
    BY <1>t DEF DeliveryTypes
  <2>1. \A x \in Alert : got'[s][x] \in Nat
    BY <1>7, <2>0
  <2>2. got' \in [Emitter -> [Alert -> Nat]]
    BY <2>1, <1>3, <1>t DEF DeliveryTypes
  <2>3. lost' \in [Emitter -> SUBSET Alert]
    BY <1>3, <1>5, <1>t DEF DeliveryTypes
  <2> QED
    BY <2>2, <2>3, <1>3, <1>t DEF DeliveryTypes
<1>9. PostsBelong'
  <2> SUFFICES ASSUME NEW b \in Alert, NEW z \in Batch, flight'[b][z] # <<>>
               PROVE  at'[b] \in {"emit", "flush"} /\ z \in left'[b]
    BY DEF PostsBelong
  <2> QED
    BY <1>3, <1>6 DEF BatchInv, PostsBelong
<1>10. ASSUME NEW z \in Batch \ {s} PROVE Sound(z)'
  <2>1. \A x \in Alert : Accepted(x, z)' <=> Accepted(x, z)
    BY <1>3, <1>6, <1>10 DEF Accepted
  <2>2. got'[z] = got[z] /\ lost'[z] = lost[z] /\ pending'[z] = pending[z]
    BY <1>3, <1>6 DEF Emitter
  <2> QED
    BY <1>6, <1>10, <2>1, <2>2, OtherEmitter DEF BatchInv
<1>11. ASSUME NEW x \in Alert PROVE OnePlace(x, s)'
  <2>1. OnePlace(x, s) /\ got[s][x] \in Nat
    BY <1>2, <1>t DEF Sound, DeliveryTypes
  <2>2. Accepted(x, s)' <=> Accepted(x, s)
    <3>1. CASE x = a
      BY <3>1, <1>1, <1>2, <1>3, <1>6 DEF Accepted
    <3>2. CASE x # a
      BY <3>2, <1>3, <1>6 DEF Accepted
    <3> QED
      BY <3>1, <3>2
  <2>3. InFlight(x, s)' <=> InFlight(x, s) /\ ~InSeq(x, batch)
    BY <1>1, <1>6, <2>1, NothingIn DEF InFlight, OnePlace
  <2>4. InSeq(x, batch) => InFlight(x, s)
    BY <1>1 DEF InFlight
  <2>5. Settled(x, s)' <=> Settled(x, s) \/ InSeq(x, batch)
    BY <1>7, <2>1 DEF Settled, Outcome
  <2>6. got'[s][x] <= 1
    <3>1. CASE InSeq(x, batch)
      <4>1. got[s][x] = 0
        BY <3>1, <2>1, <2>4 DEF OnePlace, Settled
      <4> QED
        BY <4>1, <1>7
    <3>2. CASE ~InSeq(x, batch)
      BY <3>2, <1>7, <2>1 DEF OnePlace
    <3> QED
      BY <3>1, <3>2
  <2>7. \A b, c \in Alert : InSeq(x, flight'[b][s]) /\ InSeq(x, flight'[c][s]) => b = c
    BY <1>6, <2>1, NothingIn DEF OnePlace
  <2>8. InSeq(x, pending'[s]) <=> InSeq(x, pending[s])
    BY <1>3
  <2> QED
    BY <2>1, <2>2, <2>3, <2>4, <2>5, <2>6, <2>7, <2>8 DEF OnePlace
<1>12. Sound(s)'
  BY <1>2, <1>3, <1>6, <1>11, NothingIn DEF Sound
<1> QED
  BY <1>8, <1>9, <1>10, <1>12 DEF BatchInv

\* Every step keeps the invariant.
LEMMA BatchStep == BatchInv /\ [DeliveryNext \/ EscalateNext]_deliveryVars => BatchInv'
<1> SUFFICES ASSUME BatchInv, [DeliveryNext \/ EscalateNext]_deliveryVars PROVE BatchInv'
  OBVIOUS
<1>t. DeliveryTypes
  BY DEF BatchInv
<1>b. \A a \in Alert, s \in Batch : flight[a][s] # <<>> => at[a] \in {"emit", "flush"} /\ s \in left[a]
  BY DEF BatchInv, PostsBelong
<1>0. CASE UNCHANGED <<at, left, pending, flight, got, lost>>
  BY <1>0 DEF BatchInv, DeliveryTypes, PostsBelong, Sound, OnePlace, InFlight, Settled, Accepted
<1>1. ASSUME NEW a \in Alert, Emit(a) PROVE BatchInv'
  <2>1. /\ at[a] = "idle" /\ at' = [at EXCEPT ![a] = "emit"] /\ left' = [left EXCEPT ![a] = Emitter]
        /\ UNCHANGED <<pending, flight, got, lost>>
    BY <1>1 DEF Emit, buffer, far
  <2>2. DeliveryTypes'
    BY <2>1, <1>t DEF DeliveryTypes
  <2>3. /\ at'[a] = "emit" /\ left'[a] = Emitter
        /\ \A x \in Alert \ {a} : at'[x] = at[x] /\ left'[x] = left[x]
    BY <2>1, <1>t DEF DeliveryTypes
  <2>4. ASSUME NEW x \in Alert, NEW s \in Batch
        PROVE  /\ Accepted(x, s)' <=> Accepted(x, s)
               /\ flight[x][s] # <<>> => at'[x] = at[x] /\ s \in left'[x]
    <3>1. CASE x = a
      <4>1. flight[a][s] = <<>> /\ s \in Emitter
        BY <2>1, <1>b DEF Emitter
      <4> QED
        BY <3>1, <4>1, <2>1, <2>3 DEF Accepted
    <3>2. CASE x # a
      BY <3>2, <2>1, <2>3, <1>b DEF Accepted
    <3> QED
      BY <3>1, <3>2
  <2> QED
    BY <2>1, <2>2, <2>4, OtherStep
<1>2. ASSUME NEW a \in Alert, Gathered(a) \/ Chats(a) PROVE BatchInv'
  <2>1. /\ left[a] = {} /\ UNCHANGED <<pending, flight, got, lost>>
        /\ \/ at[a] = "emit" /\ at' = [at EXCEPT ![a] = "flush"] /\ left' = [left EXCEPT ![a] = Batch]
           \/ at[a] = "flush" /\ at' = [at EXCEPT ![a] = "done"] /\ left' = left
    BY <1>2 DEF Gathered, Chats, buffer, far
  <2>2. DeliveryTypes'
    BY <2>1, <1>t DEF DeliveryTypes, Emitter
  <2>3. \A x \in Alert \ {a} : at'[x] = at[x] /\ left'[x] = left[x]
    BY <2>1, <1>t DEF DeliveryTypes
  <2>4. at[a] \in {"emit", "flush"} /\ at'[a] \in {"flush", "done"}
    BY <2>1, <1>t DEF DeliveryTypes
  <2>5. ASSUME NEW x \in Alert, NEW s \in Batch
        PROVE  /\ Accepted(x, s)' <=> Accepted(x, s)
               /\ flight[x][s] # <<>> => at'[x] = at[x] /\ s \in left'[x]
    <3>1. CASE x = a
      <4>1. flight[a][s] = <<>>
        BY <2>1, <1>b
      <4> QED
        BY <3>1, <4>1, <2>1, <2>4 DEF Accepted
    <3>2. CASE x # a
      BY <3>2, <2>1, <2>3, <1>b DEF Accepted
    <3> QED
      BY <3>1, <3>2
  <2> QED
    BY <2>1, <2>2, <2>5, OtherStep
<1>3. ASSUME NEW a \in Alert, NEW s \in Batch, BatchEmit(a, s) PROVE BatchInv'
  <2>1. at[a] = "emit" /\ s \in left[a] /\ flight[a][s] = <<>> /\ UNCHANGED <<at, got, lost>>
    BY <1>3 DEF BatchEmit, far
  <2>2. ~Accepted(a, s) /\ ~InSeq(a, pending[s]) /\ pending[s] \in Seq(Alert) /\ Uniq(pending[s])
    BY <2>1, <1>t DEF BatchInv, Sound, OnePlace, Accepted, DeliveryTypes
  <2>3. PICK held : held = Append(pending[s], a)
    OBVIOUS
  <2>4. /\ held \in Seq(Alert) /\ held # <<>> /\ Uniq(held)
        /\ \A x : InSeq(x, held) <=> InSeq(x, pending[s]) \/ x = a
    BY <2>2, <2>3, OneMore, Zenon
  <2>5. CASE TakeBatch(a, s, held) /\ UNCHANGED left
    BY <2>1, <2>2, <2>4, <2>5, TakeKeepsPlaces
  <2>6. CASE pending' = [pending EXCEPT ![s] = Append(pending[s], a)] /\ Done(a, s) /\ UNCHANGED flight
    BY <2>1, <2>6, WaitKeepsPlaces
  <2>7. \/ TakeBatch(a, s, held) /\ UNCHANGED left
        \/ pending' = [pending EXCEPT ![s] = Append(pending[s], a)] /\ Done(a, s) /\ UNCHANGED flight
    BY <1>3, <2>3, Zenon DEF BatchEmit
  <2> QED
    BY <2>5, <2>6, <2>7
<1>4. ASSUME NEW a \in Alert, NEW s \in Batch, Flush(a, s) PROVE BatchInv'
  <2>1. at[a] = "flush" /\ s \in left[a] /\ flight[a][s] = <<>> /\ UNCHANGED <<at, got, lost>>
    BY <1>4 DEF Flush, far
  <2>2. CASE pending[s] = <<>>
    <3>1. left' = [left EXCEPT ![a] = @ \ {s}] /\ UNCHANGED <<pending, flight>>
      BY <2>2, <1>4 DEF Flush, Done
    <3>2. DeliveryTypes'
      BY <2>1, <3>1, <1>t DEF DeliveryTypes
    <3>3. left'[a] = left[a] \ {s} /\ \A x \in Alert \ {a} : left'[x] = left[x]
      BY <3>1, <1>t DEF DeliveryTypes
    <3>4. ASSUME NEW x \in Alert, NEW z \in Batch
          PROVE  /\ Accepted(x, z)' <=> Accepted(x, z)
                 /\ flight[x][z] # <<>> => at'[x] = at[x] /\ z \in left'[x]
      <4>1. CASE x = a
        BY <4>1, <2>1, <3>1, <3>3, <1>b DEF Accepted
      <4>2. CASE x # a
        BY <4>2, <2>1, <3>1, <3>3, <1>b DEF Accepted
      <4> QED
        BY <4>1, <4>2
    <3> QED
      BY <2>1, <3>1, <3>2, <3>4, OtherStep
  <2>3. CASE pending[s] # <<>>
    <3>1. TakeBatch(a, s, pending[s]) /\ UNCHANGED left
      BY <2>3, <1>4 DEF Flush
    <3>2. PICK batch : batch = pending[s]
      OBVIOUS
    <3>3. batch \in Seq(Alert) /\ batch # <<>> /\ Uniq(batch) /\ TakeBatch(a, s, batch)
      BY <2>3, <3>1, <3>2, <1>t DEF DeliveryTypes, BatchInv, Sound
    <3>4. \A x \in Alert : InSeq(x, batch) <=> InSeq(x, pending[s]) \/ (at[a] = "emit" /\ x = a)
      BY <3>2, <2>1
    <3> QED
      BY <2>1, <3>1, <3>3, <3>4, TakeKeepsPlaces
  <2> QED
    BY <2>2, <2>3
<1>5. ASSUME NEW a \in Alert, NEW s \in Batch, NEW r \in Outcome, Posted(a, s, r) PROVE BatchInv'
  BY <1>5, PostKeepsPlaces
<1>6. ASSUME NEW a \in Alert, NEW s \in Tcp \cup Direct, UNCHANGED <<at, pending, flight>>,
             left' = left \/ left' = [left EXCEPT ![a] = @ \ {s}],
             got' = got \/ got' = [got EXCEPT ![s] = got'[s]], got' = got \/ got'[s] \in [Alert -> Nat],
             lost' = lost \/ lost' = [lost EXCEPT ![s] = lost'[s]], lost' = lost \/ lost'[s] \subseteq Alert
      PROVE  BatchInv'
  <2>1. s \in Emitter /\ s \notin Batch /\ Batch \subseteq Emitter
    BY DeliveryAssumption DEF Emitter
  <2>2. (left' \in [Alert -> SUBSET Emitter]) /\ \A x \in Alert, z \in Batch : z \in left'[x] <=> z \in left[x]
    <3>1. left \in [Alert -> SUBSET Emitter]
      BY <1>t DEF DeliveryTypes
    <3>2. CASE left' = left
      BY <3>1, <3>2
    <3>3. CASE left' = [left EXCEPT ![a] = @ \ {s}]
      BY <3>1, <3>3, <2>1
    <3> QED
      BY <3>2, <3>3, <1>6
  <2>3. got' \in [Emitter -> [Alert -> Nat]] /\ \A z \in Batch : got'[z] = got[z]
    BY <1>6, <2>1, <1>t DEF DeliveryTypes
  <2>4. lost' \in [Emitter -> SUBSET Alert] /\ \A z \in Batch : lost'[z] = lost[z]
    BY <1>6, <2>1, <1>t DEF DeliveryTypes
  <2>5. DeliveryTypes'
    BY <1>6, <2>2, <2>3, <2>4, <1>t DEF DeliveryTypes
  <2>6. ASSUME NEW x \in Alert, NEW z \in Batch
        PROVE  /\ Accepted(x, z)' <=> Accepted(x, z)
               /\ flight[x][z] # <<>> => at'[x] = at[x] /\ z \in left'[x]
    BY <1>6, <2>2, <1>b DEF Accepted
  <2> QED
    BY <1>6, <2>3, <2>4, <2>5, <2>6, OtherStep
<1>7. ASSUME NEW a \in Alert, NEW s \in Tcp \cup Direct, NEW r, Receive(s, <<a>>, r), Done(a, s),
             UNCHANGED <<at, pending, flight>>
      PROVE  BatchInv'
  <2>1. s \in Emitter
    BY DEF Emitter
  <2>2. PICK one : one = <<a>>
    OBVIOUS
  <2>3. Uniq(one) /\ Range(one) \subseteq Alert
    BY <2>2 DEF Uniq, Range
  <2>4. \A x : Cardinality(At(x, one)) \in Nat
    BY <2>3, CountIn
  <2>5. PICK more : more = [x \in Alert |-> got[s][x] + (IF r = "refused" THEN 0 ELSE Cardinality(At(x, one)))]
    OBVIOUS
  <2>6. more \in [Alert -> Nat]
    BY <2>1, <2>4, <2>5, <1>t DEF DeliveryTypes
  <2>7. got' = [got EXCEPT ![s] = more]
    BY <1>7, <2>1, <2>2, <2>5, <1>t DEF Receive, DeliveryTypes
  <2>8. lost' = lost \/ lost' = [lost EXCEPT ![s] = lost[s] \cup Range(one)]
    BY <1>7, <2>2 DEF Receive
  <2>9. got' = [got EXCEPT ![s] = got'[s]] /\ got'[s] \in [Alert -> Nat]
    BY <2>1, <2>6, <2>7, <1>t DEF DeliveryTypes
  <2>10. lost' = lost \/ (lost' = [lost EXCEPT ![s] = lost'[s]] /\ lost'[s] \subseteq Alert)
    BY <2>1, <2>3, <2>8, <1>t DEF DeliveryTypes
  <2> QED
    BY <1>7, <2>9, <2>10, <1>6 DEF Done
<1>8. ASSUME NEW a \in Alert, NEW s \in Direct, NEW r \in Outcome, NEW sent, DirectEmit(a, s, r, sent) PROVE BatchInv'
  BY <1>7, <1>8 DEF DirectEmit, buffer
<1>9. ASSUME NEW a \in Alert, NEW s \in Tcp, NEW r \in Outcome, Send(a, s, r) PROVE BatchInv'
  BY <1>7, <1>9 DEF Send, buffer, Release
<1>10. ASSUME NEW a \in Alert, NEW s \in Tcp, NEW ok \in BOOLEAN, Connect(a, s, ok) PROVE BatchInv'
  <2>1. UNCHANGED <<at, pending, flight, got>> /\ s \in Emitter
    BY <1>10 DEF Connect, buffer, Emitter
  <2>2. left' = left \/ left' = [left EXCEPT ![a] = @ \ {s}]
    BY <1>10 DEF Connect, Release, Done
  <2>3. lost' = lost \/ lost' = [lost EXCEPT ![s] = lost[s] \cup {a}]
    BY <1>10 DEF Connect
  <2>4. lost' = lost \/ (lost' = [lost EXCEPT ![s] = lost'[s]] /\ lost'[s] \subseteq Alert)
    BY <2>1, <2>3, <1>t DEF DeliveryTypes
  <2> QED
    BY <2>1, <2>2, <2>4, <1>6
<1>11. ASSUME NEW a \in Alert, NEW s \in Tcp, Acquire(a, s) PROVE BatchInv'
  BY <1>0, <1>11 DEF Acquire, senders, buffer, far
<1>12. ASSUME NEW s \in Tcp, PeerCloses(s) \/ PeerStalls(s) PROVE BatchInv'
  BY <1>0, <1>12 DEF PeerCloses, PeerStalls, senders, buffer, far
<1>13. CASE SecondPasses
  BY <1>0, <1>13 DEF SecondPasses, senders, buffer, far
<1>14. CASE EscalateNext
  BY <1>0, <1>14 DEF EscalateNext, Escalate, senders, buffer, far
<1>15. CASE UNCHANGED deliveryVars
  BY <1>0, <1>15 DEF deliveryVars, senders, buffer, far
<1>16. ASSUME NEW a \in Alert, SendStep(a) PROVE BatchInv'
  BY <1>2, <1>3, <1>4, <1>5, <1>8, <1>9, <1>10, <1>11, <1>16, Zenon DEF SendStep
<1> QED
  BY <1>1, <1>12, <1>13, <1>14, <1>15, <1>16, Zenon DEF DeliveryNext

\* An alert a batching emitter has accepted waits, is in one batch under way,
\* or is settled, in one of these places only, and reaches the collector at
\* most once, for any number of senders, emitters, failures and any batch size
\* (SplunkHEC and ElasticBulk emit and flush in siem.py).
THEOREM BatchAlwaysKeepsCount == DeliverySpec => []BatchKeepsCount
<1>1. BatchInv => BatchKeepsCount
  BY OnePlaceCounts
<1> QED
  BY <1>1, BatchInit, BatchStep, PTL DEF DeliverySpec
=============================================================================
