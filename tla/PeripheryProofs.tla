--------------------------- MODULE PeripheryProofs ---------------------------
(***************************************************************************)
(* The parts around the agent: the PROXY listener, one-time codes and      *)
(* pushes, the detection of language models, the start with its secrets    *)
(* and plugins, the trained policy, the decoy services beside SSH and the  *)
(* training of the policy, for any number of clients, users, logins,       *)
(* probes, actions, connections and commands and any bounds.  The parts    *)
(* share no state, so each has a specification of its own here.            *)
(***************************************************************************)
EXTENDS ProxyFront, MfaIdentity, CounterAI, Startup, TrainedPolicy, Decoys, Training, FiniteSetTheorems, TLAPS

-----------------------------------------------------------------------------
(* The PROXY listener                                                      *)
(*                                                                         *)
(* The argument: a port that is filed is held by a bridge; so a client     *)
(* whose port no other bridge holds finds there what its own listener      *)
(* filed, or nothing yet.                                                  *)

ProxySpec == ProxyInit /\ [][ProxyNext]_proxyVars

Connected(c) == inner[c] = "connected"
Bridged(c)   == front[c] = "bridged"

ProxyTypes ==
    /\ site \in {"gateway", "agent"}
    /\ front \in [Client -> {"waiting", "dialling", "bridged", "closed"}]
    /\ port \in [Client -> Port \cup {Nowhere}]
    /\ inner \in [Client -> {"none", "connected", "closed"}]
    /\ half \in [Client -> SUBSET {"up", "down"}]
    /\ filed \in [Port -> Client \cup {ProxyAddr, Nowhere}]
    /\ addr \in [Client -> Client \cup {ProxyAddr, Loopback, Nowhere}]
    /\ shared \subseteq Client

\* Where a client's task can be when its inner socket is in a state.
Stages ==
    \A c \in Client :
        /\ Connected(c) => front[c] \in {"dialling", "bridged"} /\ port[c] \in Port
        /\ Bridged(c) => inner[c] # "none" /\ port[c] \in Port
        /\ inner[c] = "closed" => front[c] \in {"bridged", "closed"}
        /\ half[c] # {} => inner[c] = "closed"

\* The kernel gives a port once at a time.
OwnPort == \A c, d \in Client : Connected(c) /\ Connected(d) /\ port[c] = port[d] => c = d

\* No other bridge holds on to the port of a client that is not in shared.
Unshared ==
    \A c, d \in Client : Connected(c) /\ c \notin shared /\ Bridged(d) /\ port[c] = port[d] => c = d

\* An entry has a bridge that will remove it.
FiledIsHeld ==
    \A p \in Port : filed[p] # Nowhere => \E d \in Client : Bridged(d) /\ port[d] = p

OwnEntry ==
    \A c \in Client : Connected(c) /\ Bridged(c) /\ c \notin shared => filed[port[c]] = RealIp(c)

ProxyInv == /\ ProxyTypes /\ Stages /\ OwnPort /\ Unshared /\ FiledIsHeld /\ OwnEntry
            /\ NobodyElsesAddress

LEMMA RealIpType == \A c \in Client : RealIp(c) \in Client \cup {ProxyAddr} /\ RealIp(c) # Nowhere
BY ProxyAssumption DEF RealIp

LEMMA ProxyInvInit == ProxyInit => ProxyInv
BY DEF ProxyInit, ProxyInv, ProxyTypes, Stages, OwnPort, Unshared, FiledIsHeld, OwnEntry,
       NobodyElsesAddress, Connected, Bridged

\* A client that is not in shared and is connected reads its own entry, or
\* none while its listener has not filed it (_resolve_real_ip).
LEMMA OwnOrNone ==
    ASSUME ProxyInv, NEW c \in Client, Connected(c), c \notin shared
    PROVE  filed[port[c]] = IF Bridged(c) THEN RealIp(c) ELSE Nowhere
<1>1. port[c] \in Port
  BY DEF ProxyInv, Stages
<1>2. CASE Bridged(c)
  BY <1>2 DEF ProxyInv, OwnEntry
<1>3. CASE ~Bridged(c)
  BY <1>1, <1>3 DEF ProxyInv, FiledIsHeld, Unshared
<1> QED
  BY <1>2, <1>3

LEMMA DialKeeps == ASSUME ProxyInv, NEW c \in Client, NEW p \in Port, Dial(c, p) PROVE ProxyInv'
<1> USE DEF ProxyInv, Connected, Bridged
<1>1. /\ front[c] = "dialling" /\ inner[c] = "none"
      /\ \A d \in Client : Connected(d) => port[d] # p
      /\ port' = [port EXCEPT ![c] = p] /\ inner' = [inner EXCEPT ![c] = "connected"]
      /\ shared' \in {shared, shared \cup {c}}
      /\ \A d \in Client : Bridged(d) /\ ~Connected(d) /\ port[d] = p => c \in shared'
      /\ UNCHANGED <<site, front, header, half, filed, addr>>
  BY DEF Dial, InUse, Lingers, Stages, ProxyTypes
<1>2. ProxyTypes'
  BY <1>1 DEF ProxyTypes
<1>3. Stages'
  BY <1>1 DEF ProxyTypes, Stages
<1>4. OwnPort'
  BY <1>1 DEF ProxyTypes, OwnPort
<1>5. Unshared'
  BY <1>1 DEF ProxyTypes, Unshared
<1>6. FiledIsHeld'
  BY <1>1 DEF ProxyTypes, FiledIsHeld
<1>7. OwnEntry'
  BY <1>1 DEF ProxyTypes, OwnEntry, RealIp
<1>8. NobodyElsesAddress'
  BY <1>1 DEF ProxyTypes, NobodyElsesAddress, RealIp
<1> QED
  BY <1>2, <1>3, <1>4, <1>5, <1>6, <1>7, <1>8

LEMMA FileAddressKeeps == ASSUME ProxyInv, NEW c \in Client, FileAddress(c) PROVE ProxyInv'
<1> USE DEF ProxyInv, Connected, Bridged
<1>1. /\ front[c] = "dialling" /\ inner[c] = "connected" /\ port[c] \in Port
      /\ filed' = [filed EXCEPT ![port[c]] = RealIp(c)]
      /\ front' = [front EXCEPT ![c] = "bridged"]
      /\ UNCHANGED <<site, header, port, inner, half, addr, shared>>
  BY DEF FileAddress, Stages
<1>2. ProxyTypes'
  BY <1>1, RealIpType DEF ProxyTypes
<1>3. Stages'
  BY <1>1 DEF ProxyTypes, Stages
<1>4. OwnPort'
  BY <1>1 DEF ProxyTypes, OwnPort
<1>5. Unshared'
  BY <1>1 DEF ProxyTypes, Unshared, OwnPort
<1>6. FiledIsHeld'
  BY <1>1 DEF ProxyTypes, FiledIsHeld
<1>7. OwnEntry'
  <2>1. ASSUME NEW d \in Client, Connected(d), Bridged(d)', d \notin shared PROVE filed'[port[d]] = RealIp(d)
    <3>1. CASE d = c
      BY <1>1, <3>1 DEF ProxyTypes
    <3>2. CASE d # c
      BY <1>1, <2>1, <3>2 DEF ProxyTypes, OwnEntry, OwnPort, Stages
    <3> QED
      BY <3>1, <3>2
  <2> QED
    BY <1>1, <2>1 DEF OwnEntry, RealIp
<1>8. NobodyElsesAddress'
  BY <1>1 DEF NobodyElsesAddress, RealIp
<1> QED
  BY <1>2, <1>3, <1>4, <1>5, <1>6, <1>7, <1>8

LEMMA MadeKeeps == ASSUME ProxyInv, NEW c \in Client, Made(c) PROVE ProxyInv'
<1>1. /\ Connected(c) /\ port[c] \in Port /\ addr[c] = Nowhere /\ (site = "agent" => Bridged(c))
      /\ addr' = [addr EXCEPT ![c] = ResolveRealIp(port[c])]
      /\ UNCHANGED <<site, front, header, port, inner, half, filed, shared>>
  BY DEF Made, ProxyInv, Stages, Connected, Bridged
<1>2. ProxyTypes'
  BY <1>1 DEF ProxyInv, ProxyTypes, ResolveRealIp
<1>3. (Stages /\ OwnPort /\ Unshared /\ FiledIsHeld /\ OwnEntry)'
  BY <1>1 DEF ProxyInv, Stages, OwnPort, Unshared, FiledIsHeld, OwnEntry, Connected, Bridged, RealIp
<1>4. NobodyElsesAddress'
  <2>1. c \notin shared => \/ addr'[c] = RealIp(c)
                           \/ site # "agent" /\ addr'[c] = Loopback
    BY <1>1, OwnOrNone, RealIpType DEF ResolveRealIp, ProxyInv, ProxyTypes
  <2> QED
    BY <1>1, <2>1 DEF NobodyElsesAddress, ProxyInv, ProxyTypes, RealIp
<1> QED
  BY <1>2, <1>3, <1>4 DEF ProxyInv

LEMMA ForgetKeeps == ASSUME ProxyInv, NEW c \in Client, Forget(c) PROVE ProxyInv'
<1> USE DEF ProxyInv, Connected, Bridged
<1>1. /\ front[c] = "bridged" /\ inner[c] = "closed" /\ port[c] \in Port
      /\ filed' = [filed EXCEPT ![port[c]] = Nowhere]
      /\ front' = [front EXCEPT ![c] = "closed"]
      /\ UNCHANGED <<site, header, port, inner, half, addr, shared>>
  BY DEF Forget, Stages
<1>2. ProxyTypes' /\ Stages'
  BY <1>1 DEF ProxyTypes, Stages
<1>3. OwnPort' /\ Unshared'
  BY <1>1 DEF ProxyTypes, OwnPort, Unshared
<1>4. FiledIsHeld'
  BY <1>1 DEF ProxyTypes, FiledIsHeld
<1>5. OwnEntry'
  BY <1>1 DEF ProxyTypes, OwnEntry, Unshared, Stages, RealIp
<1>6. NobodyElsesAddress'
  BY <1>1 DEF NobodyElsesAddress, RealIp
<1> QED
  BY <1>2, <1>3, <1>4, <1>5, <1>6

\* The steps that do not touch the table.
LEMMA TaskKeeps ==
    ASSUME ProxyInv, NEW c \in Client,
           ReadHeader(c) \/ HeaderLate(c) \/ DialFails(c) \/ \E way \in {"up", "down"} : CopyEnds(c, way)
    PROVE  ProxyInv'
<1> USE DEF ProxyInv, Connected, Bridged
<1>1. ASSUME ReadHeader(c) \/ HeaderLate(c) \/ DialFails(c)
      PROVE  /\ front[c] \in {"waiting", "dialling"} /\ inner[c] = "none"
             /\ \E f \in {"dialling", "closed"} : front' = [front EXCEPT ![c] = f]
             /\ UNCHANGED <<site, header, port, inner, half, filed, addr, shared>>
  <2>1. front[c] = "waiting" => inner[c] = "none"
    BY DEF Stages, ProxyTypes
  <2> QED
    BY <1>1, <2>1 DEF ReadHeader, HeaderLate, DialFails
<1>2. CASE ReadHeader(c) \/ HeaderLate(c) \/ DialFails(c)
  <2>1. ProxyTypes' /\ Stages'
    BY <1>1, <1>2 DEF ProxyTypes, Stages
  <2>2. OwnPort' /\ Unshared' /\ NobodyElsesAddress'
    BY <1>1, <1>2 DEF ProxyTypes, OwnPort, Unshared, NobodyElsesAddress, RealIp
  <2>3. FiledIsHeld' /\ OwnEntry'
    BY <1>1, <1>2 DEF ProxyTypes, FiledIsHeld, OwnEntry, RealIp
  <2> QED
    BY <2>1, <2>2, <2>3
<1>3. ASSUME NEW way \in {"up", "down"}, CopyEnds(c, way) PROVE ProxyInv'
  <2>1. /\ front[c] = "bridged" /\ half' = [half EXCEPT ![c] = half[c] \cup {way}]
        /\ inner' = [inner EXCEPT ![c] = "closed"]
        /\ UNCHANGED <<site, front, header, port, filed, addr, shared>>
    BY <1>3 DEF CopyEnds
  <2>2. ProxyTypes' /\ Stages'
    BY <2>1 DEF ProxyTypes, Stages
  <2>3. OwnPort' /\ Unshared' /\ NobodyElsesAddress'
    BY <2>1 DEF ProxyTypes, OwnPort, Unshared, NobodyElsesAddress, RealIp
  <2>4. FiledIsHeld' /\ OwnEntry'
    BY <2>1 DEF ProxyTypes, FiledIsHeld, OwnEntry, RealIp
  <2> QED
    BY <2>2, <2>3, <2>4
<1> QED
  BY <1>2, <1>3

\* No session is ever put down to a stranger's address, for any number of
\* clients and ports (_resolve_real_ip, _proxy_strip_and_forward).
THEOREM AddressIsAlwaysOnesOwn == ProxySpec => []NobodyElsesAddress
<1>1. ProxyInv /\ [ProxyNext]_proxyVars => ProxyInv'
  <2>1. ASSUME ProxyInv, UNCHANGED proxyVars PROVE ProxyInv'
    BY <2>1 DEF proxyVars, ProxyInv, ProxyTypes, Stages, OwnPort, Unshared, FiledIsHeld, OwnEntry,
                NobodyElsesAddress, Connected, Bridged, RealIp
  <2> QED
    BY <2>1, TaskKeeps, DialKeeps, FileAddressKeeps, MadeKeeps, ForgetKeeps DEF ProxyNext
<1>2. ProxyInv => NobodyElsesAddress
  BY DEF ProxyInv
<1> QED
  BY ProxyInvInit, <1>1, <1>2, PTL DEF ProxySpec

-----------------------------------------------------------------------------
(* One-time codes                                                          *)
(*                                                                         *)
(* The argument: a retired secret has a number that was issued, a user who *)
(* is enrolled again gets the next number, and a verification remembers    *)
(* only what was retired before it read the store.                         *)

TotpSpec == IdentityInit /\ [][TotpNext]_identityVars

TotpTypes ==
    /\ users \in [User -> Nat] /\ unreadable \in BOOLEAN /\ issued \in Nat
    /\ DOMAIN login = Login

Numbered(k) == k.n \in 1..issued

\* No secret in the store is a retired one, and neither is the next.
StoreInv ==
    /\ \A u \in User : users[u] <= issued
    /\ \A k \in retired : Numbered(k)
    /\ \A u \in User : users[u] # 0 => Secret(users[u], u) \notin retired

\* A verification holds no secret that was retired before it began.
LoginInv ==
    \A l \in Login :
        /\ login[l].before \subseteq retired
        /\ login[l].secret \notin login[l].before
        /\ login[l].phase = "enrolled" => login[l].user \in User

TotpInv == TotpTypes /\ StoreInv /\ LoginInv /\ RetiredSecretIsDead

LEMMA GetIsUsers == ASSUME TotpTypes, NEW u \in User, Get(u) # 0 PROVE Get(u) = users[u]
BY DEF Get, ReadUsers, TotpTypes

\* Number 0 is nobody's and the demo secret: it is never retired (revoke).
LEMMA ZeroIsNotRetired == ASSUME StoreInv, TotpTypes, NEW u PROVE Secret(0, u) \notin retired
BY DEF StoreInv, TotpTypes, Numbered, Secret

LEMMA AddKeeps == ASSUME TotpInv, NEW u \in User, Add(u) PROVE TotpInv'
<1>1. /\ issued' = issued + 1 /\ unreadable' = FALSE
      /\ users' = [ReadUsers EXCEPT ![u] = issued + 1]
      /\ ReadUsers \in [User -> Nat] /\ \A v \in User : ReadUsers[v] \in {0, users[v]}
      /\ UNCHANGED <<retired, login, accepted>>
  BY DEF Add, ReadUsers, TotpInv, TotpTypes
<1>2. TotpTypes'
  <2>1. issued' \in Nat /\ users' \in [User -> Nat]
    BY <1>1 DEF TotpInv, TotpTypes
  <2> QED
    BY <1>1, <2>1 DEF TotpInv, TotpTypes
<1>3. Secret(issued + 1, u) \notin retired
  BY DEF TotpInv, TotpTypes, StoreInv, Numbered, Secret
<1>4. StoreInv'
  <2>1. \A v \in User : users'[v] <= issued'
    BY <1>1 DEF TotpInv, TotpTypes, StoreInv
  <2>2. \A k \in retired' : Numbered(k)'
    BY <1>1 DEF TotpInv, TotpTypes, StoreInv, Numbered
  <2>3. \A v \in User : users'[v] # 0 => Secret(users'[v], v) \notin retired'
    BY <1>1, <1>3 DEF TotpInv, StoreInv
  <2> QED
    BY <2>1, <2>2, <2>3 DEF StoreInv
<1>5. LoginInv' /\ RetiredSecretIsDead'
  BY <1>1 DEF TotpInv, LoginInv, RetiredSecretIsDead
<1> QED
  BY <1>2, <1>4, <1>5 DEF TotpInv

LEMMA RevokeKeeps == ASSUME TotpInv, NEW u \in User, Revoke(u) PROVE TotpInv'
<1>1. /\ users[u] # 0 /\ retired' = retired \cup {Secret(users[u], u)}
      /\ users' = [users EXCEPT ![u] = 0]
      /\ UNCHANGED <<unreadable, issued, login, accepted>>
  BY DEF Revoke, ReadUsers
<1>2. TotpTypes'
  BY <1>1 DEF TotpInv, TotpTypes
<1>3. StoreInv'
  <2>1. \A v \in User : users'[v] <= issued'
    BY <1>1 DEF TotpInv, TotpTypes, StoreInv
  <2>2. \A k \in retired' : Numbered(k)'
    BY <1>1 DEF TotpInv, TotpTypes, StoreInv, Numbered, Secret
  <2>3. \A v \in User : users'[v] # 0 => Secret(users'[v], v) \notin retired'
    BY <1>1 DEF TotpInv, TotpTypes, StoreInv, Secret
  <2> QED
    BY <2>1, <2>2, <2>3 DEF StoreInv
<1>4. LoginInv' /\ RetiredSecretIsDead'
  BY <1>1 DEF TotpInv, LoginInv, RetiredSecretIsDead
<1> QED
  BY <1>2, <1>3, <1>4 DEF TotpInv

\* The two readings of the store by a verification.
LEMMA ReadingKeeps ==
    ASSUME TotpInv, NEW l \in Login, SecretBytes(l) \/ \E u \in User : ResolveSecret(l, u)
    PROVE  TotpInv'
<1>1. UNCHANGED <<users, unreadable, issued, retired, accepted>>
  BY DEF SecretBytes, ResolveSecret
<1>2. StoreInv' /\ RetiredSecretIsDead'
  BY <1>1 DEF TotpInv, StoreInv, RetiredSecretIsDead, Numbered
<1>3. ASSUME NEW u \in User, ResolveSecret(l, u) PROVE TotpTypes' /\ LoginInv'
  <2>1. /\ login'[l].before = retired /\ login'[l].secret = Secret(0, u) /\ login'[l].user = u
        /\ \A m \in Login \ {l} : login'[m] = login[m]
        /\ DOMAIN login' = Login
    BY <1>3 DEF ResolveSecret, TotpInv, TotpTypes
  <2> QED
    BY <1>1, <2>1, ZeroIsNotRetired DEF TotpInv, TotpTypes, LoginInv
<1>4. ASSUME SecretBytes(l) PROVE TotpTypes' /\ LoginInv'
  <2> DEFINE new == IF Get(login[l].user) = 0 THEN NoSecret
                    ELSE Secret(Get(login[l].user), login[l].user)
  <2>1. new \notin retired
    <3>1. CASE Get(login[l].user) = 0
      BY <3>1, ZeroIsNotRetired DEF TotpInv, NoSecret
    <3>2. CASE Get(login[l].user) # 0
      <4>1. login[l].user \in User
        BY <1>4 DEF SecretBytes, TotpInv, LoginInv
      <4> QED
        BY <3>2, <4>1, GetIsUsers DEF TotpInv, StoreInv
    <3> QED
      BY <3>1, <3>2
  <2>2. /\ login'[l].before = login[l].before /\ login'[l].secret = new /\ login'[l].phase = "ready"
        /\ \A m \in Login \ {l} : login'[m] = login[m]
        /\ DOMAIN login' = Login
    BY <1>4 DEF SecretBytes, TotpInv, TotpTypes
  <2> HIDE DEF new
  <2> QED
    BY <1>1, <2>1, <2>2 DEF TotpInv, TotpTypes, LoginInv
<1> QED
  BY <1>2, <1>3, <1>4 DEF TotpInv

LEMMA VerifyKeeps ==
    ASSUME TotpInv, NEW l \in Login, NEW k, NEW step, Verify(l, k, step) PROVE TotpInv'
<1>1. /\ UNCHANGED <<users, unreadable, issued, retired>>
      /\ \/ UNCHANGED accepted
         \/ accepted' = [secret |-> login[l].secret, before |-> login[l].before]
      /\ login' = [login EXCEPT ![l] = NoLogin]
  BY DEF Verify
<1>2. StoreInv' /\ TotpTypes'
  BY <1>1 DEF TotpInv, TotpTypes, StoreInv, Numbered
<1>3. LoginInv'
  BY <1>1 DEF TotpInv, TotpTypes, LoginInv, NoLogin
<1>4. RetiredSecretIsDead'
  BY <1>1 DEF TotpInv, LoginInv, RetiredSecretIsDead
<1> QED
  BY <1>2, <1>3, <1>4 DEF TotpInv

\* A secret that was revoked before a verification began never opens it, for
\* any users and any number of enrollments, revocations and verifications
\* (EnrollmentStore.add, revoke, get, resolve_secret).
THEOREM RetiredSecretStaysDead == TotpSpec => []RetiredSecretIsDead
<1>1. IdentityInit => TotpInv
  <2>1. IdentityInit => TotpTypes
    <3>1. IdentityInit => users \in [User -> Nat] /\ issued \in Nat
      BY DEF IdentityInit
    <3>2. IdentityInit => unreadable \in BOOLEAN
      BY Zenon DEF IdentityInit
    <3>3. IdentityInit => DOMAIN login = Login
      BY DEF IdentityInit
    <3> QED
      BY <3>1, <3>2, <3>3 DEF TotpTypes
  <2>2. IdentityInit => StoreInv
    BY DEF IdentityInit, StoreInv
  <2>3. IdentityInit => LoginInv /\ RetiredSecretIsDead
    BY DEF IdentityInit, LoginInv, RetiredSecretIsDead, NoLogin, Nothing
  <2> QED
    BY <2>1, <2>2, <2>3 DEF TotpInv
<1>2. ASSUME TotpInv, Tick \/ Damage \/ UNCHANGED identityVars PROVE TotpInv'
  <2>1. UNCHANGED <<users, issued, retired, login, accepted>> /\ unreadable' \in BOOLEAN
    BY <1>2 DEF Tick, Damage, identityVars, totpVars, TotpInv, TotpTypes
  <2> QED
    BY <1>2, <2>1 DEF TotpInv, TotpTypes, StoreInv, LoginInv, RetiredSecretIsDead, Numbered
<1>3. TotpInv /\ [TotpNext]_identityVars => TotpInv'
  BY <1>2, AddKeeps, RevokeKeeps, ReadingKeeps, VerifyKeeps DEF TotpNext, CmdAdd, CmdRevoke
<1>4. TotpInv => RetiredSecretIsDead
  BY DEF TotpInv
<1> QED
  BY <1>1, <1>3, <1>4, PTL DEF TotpSpec

-----------------------------------------------------------------------------
(* Pushes                                                                  *)
(*                                                                         *)
(* The argument: the push a token leads to is of the same user and was      *)
(* answered for no earlier than the login's own, since the response to an   *)
(* Okta request replaces the entry of its token, and no other login's        *)
(* response changes when this one's came; a poll under way keeps the push it  *)
(* asked after; and only a tap makes a provider say yes.                     *)

PushSpec == IdentityInit /\ [][PushNext]_identityVars

PushWord == {"waiting", "yes", "no", "late"}
PushRecord == [user : User, said : PushWord, reply : Nat]
PushFields == {"token", "provider", "user", "since", "asks", "answer"}

PushTypes ==
    /\ pushes \in Seq(PushRecord) /\ replies \in Nat
    /\ \A n \in DOMAIN pushes : pushes[n].reply <= replies
    /\ DOMAIN wait = Login /\ \A l \in Login : DOMAIN wait[l] = PushFields

\* Every login has a push of its own.
OwnPushes ==
    \A l, m \in Login : l # m /\ wait[l].since # 0 => wait[l].since # wait[m].since

\* Okta's entries name pushes, each under the token of its user.
StateInv ==
    \A s \in state : /\ s[2] \in DOMAIN pushes
                     /\ s[1] = [user |-> pushes[s[2]].user, n |-> 0]

\* A pending login can be asked after, and what it would be told of was
\* answered for no earlier than its own request.
Leads(w) ==
    /\ w.since # 0
    /\ w.provider = "okta" =>
          /\ w.token = [user |-> w.user, n |-> 0]
          /\ \E s \in state : s[1] = w.token
          /\ \A s \in state : s[1] = w.token => pushes[s[2]].reply >= pushes[w.since].reply
    /\ w.provider # "okta" => w.token.n = w.since /\ pushes[w.since].user = w.user

LoginSound(w) ==
    /\ w.since \in {0} \cup DOMAIN pushes
    /\ w.answer = "requested" => w.since # 0 /\ w.asks = 0 /\ pushes[w.since].user = w.user
    /\ w.answer = "pending" => Leads(w)
    /\ w.asks # 0 => w.answer = "pending" /\ Vouches(w.asks, w)
    /\ w.answer = "approved" =>
          w.since # 0 /\ \E n \in DOMAIN pushes : Vouches(n, w) /\ pushes[n].said = "yes"

PushInv == PushTypes /\ OwnPushes /\ StateInv /\ \A l \in Login : LoginSound(wait[l])

\* No provider's word but the one for a tap reads as an approval (poll).
LEMMA OnlyYesApproves ==
    ASSUME NEW p, NEW said \in PushWord, Said(p, ProviderWord(p)[said]) = "approved"
    PROVE  said = "yes"
BY DEF Said, ProviderWord, DuoPoll, OktaPoll, TwilioPoll, PushSimPoll, PushWord

LEMMA SeqElement == ASSUME NEW R, NEW q \in Seq(R), NEW i \in DOMAIN q PROVE q[i] \in R
OBVIOUS

LEMMA SeqUpdate ==
    ASSUME NEW R, NEW q \in Seq(R), NEW i \in DOMAIN q, NEW x \in R
    PROVE  LET r == [q EXCEPT ![i] = x]
           IN  r \in Seq(R) /\ Len(r) = Len(q) /\ DOMAIN r = DOMAIN q
OBVIOUS

\* A push is made, tapped or answered for: none goes away or changes hands.
PushesGoOn ==
    \A i \in DOMAIN pushes :
        /\ i \in DOMAIN pushes' /\ pushes'[i].user = pushes[i].user
        /\ pushes[i].said = "yes" => pushes'[i].said = "yes"
        /\ pushes[i].reply \in Nat /\ pushes'[i].reply \in Nat /\ pushes'[i].reply >= pushes[i].reply

\* Okta's entries are kept or replaced, by the push that was answered for last.
StateGoesOn ==
    /\ \A s \in state : \E t \in state' : t[1] = s[1]
    /\ \A t \in state' : \/ t \in state
                         \/ \A i \in DOMAIN pushes' : pushes'[t[2]].reply >= pushes'[i].reply

\* A login a step does not touch stays sound when its own push keeps its place.
LEMMA OthersStaySound ==
    ASSUME PushInv, PushesGoOn, StateGoesOn, NEW m \in Login, wait'[m] = wait[m],
           wait[m].since # 0 => pushes'[wait[m].since].reply = pushes[wait[m].since].reply
    PROVE  LoginSound(wait[m])'
<1> DEFINE w == wait[m]
<1>0. LoginSound(w) /\ w' = w /\ StateInv
  BY DEF PushInv
<1>1. w.since \in {0} \cup DOMAIN pushes'
  BY <1>0 DEF LoginSound, PushesGoOn
<1>2. w.since # 0 => /\ w.since \in DOMAIN pushes /\ pushes'[w.since].user = pushes[w.since].user
                     /\ pushes'[w.since].reply = pushes[w.since].reply /\ pushes[w.since].reply \in Nat
  BY <1>0 DEF LoginSound, PushesGoOn
<1>3. ASSUME w.since # 0, NEW n, Vouches(n, w)
      PROVE  /\ n \in DOMAIN pushes' /\ pushes'[n].user = w.user
             /\ IF w.provider = "okta" THEN pushes'[n].reply >= pushes'[w.since].reply ELSE n = w.since
             /\ pushes[n].said = "yes" => pushes'[n].said = "yes"
  <2>1. /\ n \in DOMAIN pushes /\ pushes[n].user = w.user
        /\ IF w.provider = "okta" THEN pushes[n].reply >= pushes[w.since].reply ELSE n = w.since
    BY <1>3 DEF Vouches
  <2>2. /\ n \in DOMAIN pushes' /\ pushes'[n].user = pushes[n].user
        /\ pushes[n].said = "yes" => pushes'[n].said = "yes"
        /\ pushes[n].reply \in Nat /\ pushes'[n].reply \in Nat /\ pushes'[n].reply >= pushes[n].reply
    BY <2>1 DEF PushesGoOn
  <2>3. pushes[w.since].reply \in Nat /\ pushes'[w.since].reply = pushes[w.since].reply
    BY <1>2, <1>3
  <2> HIDE DEF w
  <2> QED
    BY <2>1, <2>2, <2>3
<1>4. Leads(w) => Leads(w)'
  <2> SUFFICES ASSUME Leads(w) PROVE Leads(w)'
    OBVIOUS
  <2>1. w.since # 0
    BY DEF Leads
  <2>2. CASE w.provider = "okta"
    <3>1. /\ w.token = [user |-> w.user, n |-> 0]
          /\ \E s \in state : s[1] = w.token
          /\ \A s \in state : s[1] = w.token => pushes[s[2]].reply >= pushes[w.since].reply
      BY <2>2 DEF Leads
    <3>2. \E s \in state' : s[1] = w.token
      BY <3>1 DEF StateGoesOn
    <3>3. ASSUME NEW t \in state', t[1] = w.token PROVE pushes'[t[2]].reply >= pushes'[w.since].reply
      <4>1. CASE t \in state
        <5>1. pushes[t[2]].reply >= pushes[w.since].reply /\ t[2] \in DOMAIN pushes
          BY <1>0, <3>1, <3>3, <4>1 DEF StateInv
        <5>2. pushes[t[2]].reply \in Nat /\ pushes'[t[2]].reply \in Nat
              /\ pushes'[t[2]].reply >= pushes[t[2]].reply
          BY <5>1 DEF PushesGoOn
        <5>3. pushes[w.since].reply \in Nat /\ pushes'[w.since].reply = pushes[w.since].reply
          BY <1>2, <2>1
        <5> HIDE DEF w
        <5> QED
          BY <5>1, <5>2, <5>3
      <4>2. CASE t \notin state
        BY <1>1, <2>1, <3>3, <4>2 DEF StateGoesOn
      <4> QED
        BY <4>1, <4>2
    <3> QED
      BY <1>0, <2>1, <2>2, <3>1, <3>2, <3>3 DEF Leads
  <2>3. CASE w.provider # "okta"
    <3>1. w.token.n = w.since /\ pushes'[w.since].user = w.user
      BY <1>2, <2>1, <2>3 DEF Leads
    <3> QED
      BY <1>0, <2>1, <2>3, <3>1 DEF Leads
  <2> QED
    BY <2>2, <2>3
<1>5. w.asks # 0 => w.since # 0 /\ w.answer = "pending" /\ Vouches(w.asks, w)'
  BY <1>0, <1>3 DEF LoginSound, Leads, Vouches
<1>6. w.answer = "approved" =>
        w.since # 0 /\ \E n \in DOMAIN pushes' : Vouches(n, w)' /\ pushes'[n].said = "yes"
  <2> SUFFICES ASSUME w.answer = "approved"
               PROVE  w.since # 0 /\ \E n \in DOMAIN pushes' : Vouches(n, w)' /\ pushes'[n].said = "yes"
    OBVIOUS
  <2>1. PICK n \in DOMAIN pushes : Vouches(n, w) /\ pushes[n].said = "yes" /\ w.since # 0
    BY <1>0 DEF LoginSound
  <2>2. n \in DOMAIN pushes' /\ Vouches(n, w)' /\ pushes'[n].said = "yes"
    BY <1>0, <1>3, <2>1 DEF Vouches
  <2> QED
    BY <2>1, <2>2
<1>7. w.answer = "requested" => w.since # 0 /\ w.asks = 0 /\ pushes'[w.since].user = w.user
  BY <1>0, <1>2 DEF LoginSound
<1>8. w.answer = "pending" => Leads(w)'
  BY <1>0, <1>4 DEF LoginSound
<1> HIDE DEF w
<1> QED
  BY <1>0, <1>1, <1>5, <1>6, <1>7, <1>8 DEF LoginSound, w

\* A new push is nobody else's.
LEMMA RequestKeeps ==
    ASSUME PushInv, NEW l \in Login, NEW p \in Provider, NEW u \in User, RequestPush(l, p, u)
    PROVE  PushInv'
<1> DEFINE k == Len(pushes) + 1
           x == [user |-> u, said |-> "waiting", reply |-> 0]
           w == [NoPush EXCEPT !.provider = p, !.user = u, !.since = k, !.answer = "requested"]
<1>1. /\ pushes' = Append(pushes, x) /\ wait' = [wait EXCEPT ![l] = w] /\ UNCHANGED <<replies, state>>
  BY DEF RequestPush
<1>2. /\ DOMAIN w = PushFields /\ w.since = k /\ w.asks = 0 /\ w.answer = "requested" /\ w.user = u
      /\ w.provider = p
  BY DEF NoPush, PushFields
<1>3. /\ pushes \in Seq(PushRecord) /\ Len(pushes) \in Nat /\ DOMAIN pushes = 1..Len(pushes)
      /\ replies \in Nat /\ x \in PushRecord
  BY DEF PushInv, PushTypes, PushRecord, PushWord
<1>4. /\ k \in Nat \ {0} /\ k \notin DOMAIN pushes
  BY <1>3
<1> HIDE DEF w
<1>5. /\ pushes' \in Seq(PushRecord) /\ DOMAIN pushes' = 1..k /\ pushes'[k] = x
      /\ \A i \in DOMAIN pushes : i \in DOMAIN pushes' /\ pushes'[i] = pushes[i]
      /\ \A i \in DOMAIN pushes' : i = k \/ i \in DOMAIN pushes
  BY <1>1, <1>3
<1>6. /\ DOMAIN wait' = Login /\ wait'[l] = w /\ \A m \in Login : m # l => wait'[m] = wait[m]
  BY <1>1 DEF PushInv, PushTypes
<1>7. PushTypes'
  <2>1. \A i \in DOMAIN pushes' : pushes'[i].reply <= replies'
    <3>1. x.reply <= replies'
      BY <1>1, <1>3
    <3> QED
      BY <1>1, <1>5, <3>1 DEF PushInv, PushTypes
  <2>2. \A m \in Login : DOMAIN wait'[m] = PushFields
    BY <1>2, <1>6 DEF PushInv, PushTypes
  <2> QED
    BY <1>1, <1>3, <1>5, <1>6, <2>1, <2>2 DEF PushTypes
<1>8. \A m \in Login : wait[m].since \in {0} \cup DOMAIN pushes /\ wait[m].since # k
  BY <1>4 DEF PushInv, LoginSound
<1>9. OwnPushes'
  BY <1>2, <1>4, <1>6, <1>8 DEF PushInv, OwnPushes
<1>10. StateInv'
  BY <1>1, <1>5 DEF PushInv, StateInv
<1>11. PushesGoOn /\ StateGoesOn
  <2>1. ASSUME NEW i \in DOMAIN pushes PROVE pushes[i].reply \in Nat
    <3>1. pushes[i] \in PushRecord
      BY <1>3, <2>1, SeqElement
    <3> QED
      BY <3>1 DEF PushRecord
  <2>2. \A r \in Nat : r >= r
    OBVIOUS
  <2> QED
    BY <1>1, <1>5, <2>1, <2>2 DEF PushesGoOn, StateGoesOn
<1>12. ASSUME NEW m \in Login PROVE LoginSound(wait[m])'
  <2>1. CASE m = l
    <3>1. k \in DOMAIN pushes' /\ k # 0 /\ pushes'[k].user = u
      BY <1>4, <1>5
    <3> QED
      BY <1>2, <1>6, <2>1, <3>1 DEF LoginSound
  <2>2. CASE m # l
    <3>1. wait[m].since # 0 => pushes'[wait[m].since] = pushes[wait[m].since]
      BY <1>5, <1>8
    <3> QED
      BY <1>6, <1>11, <2>2, <3>1, OthersStaySound
  <2> QED
    BY <2>1, <2>2
<1> QED
  BY <1>7, <1>9, <1>10, <1>12 DEF PushInv

\* A response makes its push the one answered for last, and Okta's entry.
LEMMA AnswerKeeps == ASSUME PushInv, NEW l \in Login, PushAnswered(l) PROVE PushInv'
<1> DEFINE o == wait[l]
           k == o.since
           t == Token(o.provider, o.user, k)
           x == [pushes[k] EXCEPT !.reply = replies + 1]
           w == [o EXCEPT !.token = t, !.answer = "pending"]
<1>1. /\ o.answer = "requested" /\ replies' = replies + 1
      /\ pushes' = [pushes EXCEPT ![k] = x] /\ wait' = [wait EXCEPT ![l] = w]
      /\ state' = IF o.provider = "okta" THEN OktaState(t, k) ELSE state
  BY DEF PushAnswered
<1>2. /\ k \in DOMAIN pushes /\ k # 0 /\ o.asks = 0 /\ pushes[k].user = o.user /\ DOMAIN o = PushFields
  BY <1>1 DEF PushInv, PushTypes, LoginSound
<1>3. /\ pushes \in Seq(PushRecord) /\ pushes[k] \in PushRecord /\ replies \in Nat
  BY <1>2, SeqElement DEF PushInv, PushTypes
<1>4. x \in PushRecord /\ x.reply = replies + 1 /\ x.user = pushes[k].user /\ x.said = pushes[k].said
  BY <1>3 DEF PushRecord
<1>5. /\ DOMAIN w = PushFields /\ w.token = t /\ w.answer = "pending" /\ w.since = k /\ w.asks = 0
      /\ w.user = o.user /\ w.provider = o.provider
  BY <1>2 DEF PushFields
<1>6. /\ o.provider = "okta" => t = [user |-> o.user, n |-> 0]
      /\ o.provider # "okta" => t.n = k
  BY DEF Token
<1> HIDE DEF o, k, t, x, w
<1>7. /\ pushes' \in Seq(PushRecord) /\ DOMAIN pushes' = DOMAIN pushes
  BY <1>1, <1>2, <1>3, <1>4, SeqUpdate
<1>8. pushes'[k] = x /\ \A i \in DOMAIN pushes : i # k => pushes'[i] = pushes[i]
  BY <1>1, <1>2, <1>3
<1>9. /\ DOMAIN wait' = Login /\ wait'[l] = w /\ \A m \in Login : m # l => wait'[m] = wait[m]
  BY <1>1 DEF PushInv, PushTypes
<1>10. \A i \in DOMAIN pushes : /\ pushes[i] \in PushRecord /\ pushes[i].reply \in Nat
                                /\ pushes[i].reply <= replies /\ pushes'[i].reply <= replies + 1
  <2>1. ASSUME NEW i \in DOMAIN pushes
        PROVE  pushes[i] \in PushRecord /\ pushes[i].reply \in Nat /\ pushes[i].reply <= replies
    <3>1. pushes[i] \in PushRecord
      BY <1>3, <2>1, SeqElement
    <3>2. pushes[i].reply \in Nat
      BY <3>1 DEF PushRecord
    <3> QED
      BY <2>1, <3>1, <3>2 DEF PushInv, PushTypes
  <2>2. ASSUME NEW i \in DOMAIN pushes PROVE pushes'[i].reply <= replies + 1
    <3>1. pushes'[i].reply \in {pushes[i].reply, replies + 1}
      BY <1>4, <1>8
    <3>2. pushes[i].reply \in Nat /\ pushes[i].reply <= replies
      BY <2>1
    <3> QED
      BY <1>3, <3>1, <3>2
  <2> QED
    BY <2>1, <2>2
<1>11. PushTypes'
  <2>1. \A m \in Login : DOMAIN wait'[m] = PushFields
    BY <1>5, <1>9 DEF PushInv, PushTypes
  <2>2. replies' \in Nat /\ \A i \in DOMAIN pushes' : pushes'[i].reply <= replies'
    BY <1>1, <1>3, <1>7, <1>10
  <2> QED
    BY <1>7, <1>9, <2>1, <2>2 DEF PushTypes
<1>12. OwnPushes'
  <2>1. \A m \in Login : wait'[m].since = wait[m].since
    BY <1>5, <1>9 DEF k, o
  <2> QED
    BY <2>1 DEF PushInv, OwnPushes
<1>13. \A i \in DOMAIN pushes : pushes'[i].user = pushes[i].user
  BY <1>4, <1>8
<1>14. \A s \in state' : s \in state \/ (o.provider = "okta" /\ s = <<t, k>>)
  BY <1>1 DEF OktaState
<1>15. StateInv'
  <2>1. ASSUME NEW s \in state' PROVE s[2] \in DOMAIN pushes' /\ s[1] = [user |-> pushes'[s[2]].user, n |-> 0]
    <3>1. CASE s \in state
      BY <1>7, <1>13, <3>1 DEF PushInv, StateInv
    <3>2. CASE o.provider = "okta" /\ s = <<t, k>>
      BY <1>2, <1>6, <1>7, <1>13, <3>2
    <3> QED
      BY <1>14, <3>1, <3>2
  <2> QED
    BY <2>1 DEF StateInv
<1>16. PushesGoOn
  <2>1. ASSUME NEW i \in DOMAIN pushes PROVE pushes'[i].reply \in Nat /\ pushes'[i].reply >= pushes[i].reply
    <3>1. pushes[i].reply \in Nat /\ pushes[i].reply <= replies /\ pushes'[i].reply \in {pushes[i].reply, replies + 1}
      BY <1>4, <1>8, <1>10
    <3> QED
      BY <1>3, <3>1
  <2>2. ASSUME NEW i \in DOMAIN pushes, pushes[i].said = "yes" PROVE pushes'[i].said = "yes"
    BY <1>4, <1>8, <2>2
  <2> QED
    BY <1>7, <1>10, <1>13, <2>1, <2>2 DEF PushesGoOn
<1>17. StateGoesOn
  <2>1. ASSUME NEW s \in state PROVE \E r \in state' : r[1] = s[1]
    <3>1. CASE o.provider = "okta" /\ s[1] = t
      <4>1. <<t, k>> \in state' /\ <<t, k>>[1] = t
        BY <1>1, <3>1 DEF OktaState
      <4> QED
        BY <3>1, <4>1
    <3>2. CASE ~(o.provider = "okta" /\ s[1] = t)
      BY <1>1, <3>2 DEF OktaState
    <3> QED
      BY <3>1, <3>2
  <2>2. ASSUME NEW s \in state', s \notin state PROVE \A i \in DOMAIN pushes' : pushes'[s[2]].reply >= pushes'[i].reply
    <3>1. s = <<t, k>> /\ s[2] = k
      BY <1>14, <2>2
    <3>2. pushes'[k].reply = replies + 1
      BY <1>4, <1>8
    <3>3. \A i \in DOMAIN pushes' : pushes'[i].reply \in Nat /\ pushes'[i].reply <= replies + 1
      BY <1>7, <1>10, <1>16 DEF PushesGoOn
    <3> QED
      BY <1>3, <3>1, <3>2, <3>3
  <2> QED
    BY <2>1, <2>2 DEF StateGoesOn
<1>18. Leads(wait[l])'
  <2>1. CASE o.provider = "okta"
    <3>1. \E s \in state' : s[1] = t
      <4>1. <<t, k>> \in state' /\ <<t, k>>[1] = t
        BY <1>1, <2>1 DEF OktaState
      <4> QED
        BY <4>1
    <3>2. ASSUME NEW s \in state', s[1] = t PROVE pushes'[s[2]].reply >= pushes'[k].reply
      <4>1. s = <<t, k>> /\ s[2] = k
        BY <1>1, <2>1, <3>2 DEF OktaState
      <4>2. pushes'[k].reply = replies + 1
        BY <1>4, <1>8
      <4> QED
        BY <1>3, <4>1, <4>2
    <3> QED
      BY <1>2, <1>5, <1>6, <1>9, <2>1, <3>1, <3>2 DEF Leads
  <2>2. CASE o.provider # "okta"
    BY <1>2, <1>5, <1>6, <1>9, <1>13, <2>2 DEF Leads
  <2> QED
    BY <2>1, <2>2
<1>19. ASSUME NEW m \in Login PROVE LoginSound(wait[m])'
  <2>1. CASE m = l
    BY <1>2, <1>5, <1>7, <1>9, <1>18, <2>1 DEF LoginSound
  <2>2. CASE m # l
    <3>1. wait[m].since # 0 => wait[m].since \in DOMAIN pushes /\ wait[m].since # k
      BY <2>2 DEF PushInv, LoginSound, OwnPushes, k, o
    <3>2. wait[m].since # 0 => pushes'[wait[m].since] = pushes[wait[m].since]
      BY <1>8, <3>1
    <3> QED
      BY <1>9, <1>16, <1>17, <2>2, <3>2, OthersStaySound
  <2> QED
    BY <2>1, <2>2
<1> QED
  BY <1>11, <1>12, <1>15, <1>19 DEF PushInv

\* A tap changes what one push says, once.
LEMMA PhoneKeeps ==
    ASSUME PushInv, NEW k, NEW said \in {"yes", "no", "late"}, Phone(k, said) PROVE PushInv'
<1>1. /\ k \in DOMAIN pushes /\ pushes[k].said = "waiting"
      /\ pushes' = [pushes EXCEPT ![k] = [pushes[k] EXCEPT !.said = said]]
      /\ UNCHANGED <<replies, state, wait>>
  BY DEF Phone
<1>2. /\ pushes \in Seq(PushRecord) /\ said \in PushWord /\ pushes[k] \in PushRecord
  BY <1>1, SeqElement DEF PushInv, PushTypes, PushWord
<1> DEFINE x == [pushes[k] EXCEPT !.said = said]
<1>3. x \in PushRecord /\ x.user = pushes[k].user /\ x.reply = pushes[k].reply
  BY <1>2 DEF PushRecord
<1> HIDE DEF x
<1>4. /\ pushes' \in Seq(PushRecord) /\ DOMAIN pushes' = DOMAIN pushes
  BY <1>1, <1>2, <1>3, SeqUpdate DEF x
<1>5. pushes'[k] = x /\ \A i \in DOMAIN pushes : i # k => pushes'[i] = pushes[i]
  BY <1>1, <1>2 DEF x
<1>6. ASSUME NEW i \in DOMAIN pushes
      PROVE  /\ pushes'[i].user = pushes[i].user /\ pushes'[i].reply = pushes[i].reply
             /\ pushes[i].reply \in Nat /\ (pushes[i].said = "yes" => pushes'[i].said = "yes")
  <2>1. pushes[i] \in PushRecord
    BY <1>2, SeqElement
  <2> QED
    BY <1>1, <1>3, <1>5, <2>1 DEF PushRecord
<1>7. PushTypes' /\ OwnPushes' /\ StateInv'
  BY <1>1, <1>4, <1>6 DEF PushInv, PushTypes, OwnPushes, StateInv
<1>8. PushesGoOn
  <2>1. \A r \in Nat : r >= r
    OBVIOUS
  <2> QED
    BY <1>4, <1>6, <2>1 DEF PushesGoOn
<1>9. StateGoesOn
  BY <1>1 DEF StateGoesOn
<1>10. ASSUME NEW m \in Login PROVE LoginSound(wait[m])'
  <2>1. wait[m].since # 0 => pushes'[wait[m].since].reply = pushes[wait[m].since].reply
    BY <1>6 DEF PushInv, LoginSound
  <2> QED
    BY <1>1, <1>8, <1>9, <2>1, OthersStaySound
<1> QED
  BY <1>7, <1>10 DEF PushInv

\* The push a poll looks up vouches for the login.
LEMMA PollLeads ==
    ASSUME PushInv, NEW l \in Login, Leads(wait[l]) PROVE Vouches(PushOf(wait[l]), wait[l])
<1> DEFINE w == wait[l]
<1>0. w.since \in DOMAIN pushes /\ StateInv
  BY DEF PushInv, LoginSound, Leads
<1>1. CASE w.provider = "okta"
  <2>1. PICK t \in state : t[1] = w.token
    BY <1>1 DEF Leads
  <2> DEFINE s == CHOOSE e \in state : e[1] = w.token
  <2>2. s \in state /\ s[1] = w.token
    BY <2>1
  <2>3. PushOf(w) = s[2]
    BY <1>1 DEF PushOf
  <2> HIDE DEF s
  <2>4. w.token = [user |-> w.user, n |-> 0] /\ pushes[s[2]].reply >= pushes[w.since].reply
    BY <1>1, <2>2 DEF Leads
  <2>5. s[2] \in DOMAIN pushes /\ s[1] = [user |-> pushes[s[2]].user, n |-> 0]
    BY <1>0, <2>2 DEF StateInv
  <2>6. pushes[s[2]].user = w.user
    <3>1. [user |-> pushes[s[2]].user, n |-> 0].user = [user |-> w.user, n |-> 0].user
      BY <2>2, <2>4, <2>5
    <3> QED
      BY <3>1
  <2> QED
    BY <1>1, <2>3, <2>4, <2>5, <2>6 DEF Vouches
<1>2. CASE w.provider # "okta"
  <2>1. PushOf(w) = w.since /\ pushes[w.since].user = w.user
    BY <1>2 DEF Leads, PushOf
  <2> QED
    BY <1>0, <1>2, <2>1 DEF Vouches
<1> QED
  BY <1>1, <1>2

\* What a login does on its own changes nothing but that login, whose push stays
\* its own.
LEMMA OneLogin ==
    ASSUME PushInv, NEW l \in Login, NEW w, DOMAIN w = PushFields, wait' = [wait EXCEPT ![l] = w],
           w.since \in {0, wait[l].since}, UNCHANGED <<pushes, replies, state>>, LoginSound(w)
    PROVE  PushInv'
<1>1. /\ DOMAIN wait' = Login /\ wait'[l] = w /\ \A m \in Login : m # l => wait'[m] = wait[m]
  BY DEF PushInv, PushTypes
<1>2. PushTypes'
  BY <1>1 DEF PushInv, PushTypes
<1>3. OwnPushes'
  BY <1>1 DEF PushInv, OwnPushes
<1>4. StateInv'
  BY DEF PushInv, StateInv
<1>5. ASSUME NEW m \in Login PROVE LoginSound(wait[m])'
  <2>1. LoginSound(wait'[m])
    BY <1>1 DEF PushInv
  <2> QED
    BY <2>1 DEF LoginSound, Leads, Vouches
<1> QED
  BY <1>2, <1>3, <1>4, <1>5 DEF PushInv

LEMMA WaitKeeps ==
    ASSUME PushInv, NEW l \in Login, RequestFails(l) \/ PollBegin(l) \/ PushOver(l)
    PROVE  PushInv'
<1> DEFINE o == wait[l]
<1>0. LoginSound(o) /\ DOMAIN o = PushFields
  BY DEF PushInv, PushTypes
<1>1. CASE RequestFails(l)
  <2> DEFINE w == [o EXCEPT !.answer = "unavailable"]
  <2>1. /\ wait' = [wait EXCEPT ![l] = w] /\ UNCHANGED <<pushes, replies, state>>
        /\ o = NoPush \/ o.answer = "requested"
    BY <1>1 DEF RequestFails
  <2>2. DOMAIN w = PushFields /\ w.since = o.since /\ w.asks = o.asks /\ w.answer = "unavailable"
    BY <1>0 DEF PushFields
  <2>3. o.asks = 0
    BY <1>0, <2>1 DEF LoginSound, NoPush
  <2> HIDE DEF w
  <2>4. LoginSound(w)
    BY <1>0, <2>2, <2>3 DEF LoginSound
  <2> QED
    BY <2>1, <2>2, <2>4, OneLogin
<1>2. CASE PushOver(l)
  <2>1. wait' = [wait EXCEPT ![l] = NoPush] /\ UNCHANGED <<pushes, replies, state>>
    BY <1>2 DEF PushOver
  <2>2. DOMAIN NoPush = PushFields /\ NoPush.since = 0 /\ NoPush.asks = 0 /\ NoPush.answer = "none"
    BY DEF NoPush, PushFields
  <2>3. LoginSound(NoPush)
    BY <2>2 DEF LoginSound
  <2> QED
    BY <2>1, <2>2, <2>3, OneLogin
<1>3. CASE PollBegin(l)
  <2> DEFINE q == PushOf(o)
             w == [o EXCEPT !.asks = q]
  <2>1. /\ wait' = [wait EXCEPT ![l] = w] /\ UNCHANGED <<pushes, replies, state>> /\ o.answer = "pending"
    BY <1>3 DEF PollBegin
  <2>2. /\ DOMAIN w = PushFields /\ w.since = o.since /\ w.asks = q /\ w.answer = o.answer
        /\ w.token = o.token /\ w.provider = o.provider /\ w.user = o.user
    BY <1>0 DEF PushFields
  <2>3. Leads(o) /\ Vouches(q, o)
    BY <1>0, <2>1, PollLeads DEF LoginSound
  <2> HIDE DEF w, q, o
  <2>4. Leads(w)
    BY <2>2, <2>3 DEF Leads
  <2>5. Vouches(q, w)
    BY <2>2, <2>3 DEF Vouches
  <2>6. LoginSound(w)
    BY <1>0, <2>1, <2>2, <2>4, <2>5 DEF LoginSound
  <2> QED
    BY <2>1, <2>2, <2>6, OneLogin DEF o
<1> QED
  BY <1>1, <1>2, <1>3

\* A word that reads as an approval is what a tapped push says.
LEMMA PollKeeps ==
    ASSUME PushInv, NEW l \in Login, NEW works \in BOOLEAN, PollAnswer(l, works) PROVE PushInv'
<1> DEFINE o == wait[l]
           a == IF works THEN Said(o.provider, ProviderWord(o.provider)[pushes[o.asks].said]) ELSE "expired"
           w == [o EXCEPT !.asks = 0, !.answer = a]
<1>1. /\ wait' = [wait EXCEPT ![l] = w] /\ UNCHANGED <<pushes, replies, state>> /\ o.asks # 0
  BY DEF PollAnswer
<1>2. LoginSound(o) /\ DOMAIN o = PushFields
  BY DEF PushInv, PushTypes
<1>3. /\ DOMAIN w = PushFields /\ w.since = o.since /\ w.asks = 0 /\ w.answer = a
      /\ w.token = o.token /\ w.provider = o.provider /\ w.user = o.user
  BY <1>2 DEF PushFields
<1>4. Leads(o) /\ Vouches(o.asks, o) /\ o.since \in DOMAIN pushes /\ o.since # 0
  BY <1>1, <1>2 DEF LoginSound, Leads
<1>5. o.asks \in DOMAIN pushes /\ pushes[o.asks].said \in PushWord
  <2>1. o.asks \in DOMAIN pushes
    BY <1>4 DEF Vouches
  <2>2. pushes[o.asks] \in PushRecord
    BY <2>1, SeqElement DEF PushInv, PushTypes
  <2> QED
    BY <2>1, <2>2 DEF PushRecord
<1>6. a # "requested" /\ (a = "approved" => pushes[o.asks].said = "yes" /\ o.asks \in DOMAIN pushes)
  <2>1. \A p, said : said \in PushWord => Said(p, ProviderWord(p)[said]) # "requested"
    BY DEF Said, DuoPoll, OktaPoll, TwilioPoll, PushSimPoll, ProviderWord, PushWord
  <2> QED
    BY <1>5, <2>1, OnlyYesApproves
<1> HIDE DEF w, a, o
<1>7. Leads(w)
  BY <1>3, <1>4 DEF Leads
<1>8. \A n : Vouches(n, o) => Vouches(n, w)
  BY <1>3 DEF Vouches
<1>9. LoginSound(w)
  BY <1>2, <1>3, <1>4, <1>5, <1>6, <1>7, <1>8 DEF LoginSound
<1> QED
  BY <1>1, <1>3, <1>9, OneLogin DEF o

\* An approval is always a yes to a challenge of the same user, whose response
\* came no earlier than this login's own did, for any users, logins and
\* providers, any number of pushes, and requests, responses, taps and polls in
\* any order (OktaVerifyClient.request_push, poll).
THEOREM ApprovalIsAlwaysFresh == PushSpec => []ApprovalIsFresh
<1>1. IdentityInit => PushInv
  <2>1. SUFFICES ASSUME IdentityInit PROVE PushInv
    OBVIOUS
  <2>2. pushes = <<>> /\ replies = 0 /\ state = {} /\ wait = [l \in Login |-> NoPush]
    BY <2>1 DEF IdentityInit
  <2>3. DOMAIN NoPush = PushFields /\ NoPush.since = 0 /\ NoPush.asks = 0 /\ NoPush.answer = "none"
    BY DEF NoPush, PushFields
  <2>4. \A l \in Login : wait[l] = NoPush
    BY <2>2
  <2>5. PushTypes
    BY <2>2, <2>3, <2>4 DEF PushTypes
  <2>6. LoginSound(NoPush)
    BY <2>3 DEF LoginSound
  <2> QED
    BY <2>2, <2>3, <2>4, <2>5, <2>6 DEF PushInv, StateInv, OwnPushes
<1>2. ASSUME PushInv, UNCHANGED identityVars PROVE PushInv'
  BY <1>2 DEF identityVars, pushVars, PushInv, PushTypes, OwnPushes, StateInv, LoginSound, Leads, Vouches
<1>3. PushInv /\ [PushNext]_identityVars => PushInv'
  BY <1>2, RequestKeeps, AnswerKeeps, PhoneKeeps, WaitKeeps, PollKeeps DEF PushNext
<1>4. PushInv => ApprovalIsFresh
  BY DEF PushInv, LoginSound, ApprovalIsFresh
<1> QED
  BY <1>1, <1>3, <1>4, PTL DEF PushSpec

-----------------------------------------------------------------------------
(* The detector of language models                                         *)
(*                                                                         *)
(* The argument: what a connection holds, or will be restored to from the   *)
(* file, is in step with its line; whatever came from one engagement has    *)
(* the same marker, or none, and nobody has a marker no decoy could carry;  *)
(* and while nothing went wrong there is one such line.                     *)

CounterAISpec == CounterAIInit /\ [][CounterAINext]_caiVars

CaiFields == {"recent", "injections", "marker", "armed", "leaked"}
SeenFields == {"likely", "proven", "detectedAlert", "provenAlert", "planted"}
DecoyFields == {"planted", "bait", "live"}
SessionFields == {"up", "id", "cai", "seen", "decoy", "line"}

\* The marker a connection has, or will make with its first command.
Mark(x) == StateOf(x).marker

\* The detector's state s is that of the line of x.
Engaged(s, x) ==
    /\ DOMAIN s = CaiFields /\ s.recent = x.line.typed /\ s.injections = x.line.probes
    /\ x.decoy.bait \in {0, s.marker} /\ (s.leaked <=> x.line.echoed)

SoundSession(x) ==
    /\ DOMAIN x = SessionFields /\ DOMAIN x.seen = SeenFields /\ DOMAIN x.decoy = DecoyFields
    /\ x.cai \subseteq {StateOf(x)} /\ Engaged(StateOf(x), x)
    /\ x.cai = {} => x.decoy.bait = 0
    /\ (x.seen.proven <=> x.line.echoed) /\ (x.seen.provenAlert <=> x.line.echoed)
    /\ x.line.high \in Nat /\ x.line.high <= IF x.seen.detectedAlert THEN 1 ELSE 0
    /\ x.line.critical = IF x.line.echoed THEN 1 ELSE 0

\* The connections there are, and the one the file makes.
Sources == {sessions[c] : c \in Live} \cup {Restored(p) : p \in stateFile}

MarksAgree ==
    /\ engagements \in Nat
    /\ \A x \in Sources :
          /\ x.id \in 1..engagements /\ Mark(x) \in {0, x.id}
          /\ x.id \in got => Mark(x) = x.id
    /\ \A x, y \in Sources : x.id = y.id => Mark(x) = Mark(y)

\* An engagement without a command is one connection's.
BlankIsAlone ==
    \A c \in Live : sessions[c].cai = {} =>
        /\ sessions[c].id \notin got
        /\ \A d \in Live : d # c => sessions[d].id # sessions[c].id
        /\ \A p \in stateFile : p.engagement_id # sessions[c].id

OneLine ==
    /\ \A c, d \in Live : c = d
    /\ \A c \in Live : sessions[c].line = ever
    /\ Live = {} => /\ stateFile = {} => ever = Told
                    /\ \A p \in stateFile : p.line = ever

EchoInv ==
    /\ \A x \in Sources : SoundSession(x)
    /\ got \subseteq 1..engagements /\ MarksAgree /\ BlankIsAlone /\ (~broken => OneLine)

LEMMA ObservedState ==
    ASSUME NEW s, DOMAIN s = CaiFields, NEW k, NEW pause, NEW m
    PROVE  LET t == Observed(s, k, pause, m).state
           IN  /\ DOMAIN t = CaiFields /\ t.marker = s.marker
               /\ t.recent = Trim(Append(s.recent, [lex |-> Lex[k], pause |-> pause]))
               /\ t.injections = s.injections + IF k \in Probes THEN 1 ELSE 0
               /\ t.leaked <=> s.leaked \/ (s.marker # 0 /\ s.marker = m)
BY DEF Observed, CaiFields

\* What a command k does to a connection x: y is as sound, of the same
\* engagement and marker, and its line has grown by what the command tells.
Grown(x, y, k, pause, m) ==
    /\ SoundSession(y) /\ y.id = x.id /\ y.up = x.up /\ y.cai # {} /\ Mark(y) = Mark(x)
    /\ y.decoy.bait \in {0, Mark(x)}
    /\ y.line = [typed |-> Trim(Append(x.line.typed, [lex |-> Lex[k], pause |-> pause])),
                 probes |-> x.line.probes + (IF k \in Probes THEN 1 ELSE 0),
                 echoed |-> x.line.echoed \/ m = x.id,
                 high |-> y.line.high, critical |-> y.line.critical]
    /\ x.line.high \in Nat /\ y.line.high \in Nat
    /\ x.line.critical \in Nat /\ y.line.critical \in Nat

LEMMA HandledIsSound ==
    ASSUME NEW x, SoundSession(x), x.id \in Nat \ {0}, Mark(x) \in {0, x.id},
           NEW k, NEW pause, NEW m, m = x.id => Mark(x) = x.id
    PROVE  Grown(x, Handled(x, k, pause, m), k, pause, m)
<1> DEFINE s == StateOf(x)
           ob == observe_command(x, k, pause, m)
           t == ob.state
           o == [x.seen EXCEPT !.likely = ob.likely, !.proven = x.seen.proven \/ t.leaked]
           plants == k = "sudo" /\ ~x.seen.planted
           d == IF plants THEN plant_decoy ELSE IF k = "cat" THEN Reads(x.decoy, t) ELSE x.decoy
           e == [Ladder(o) EXCEPT !.planted = Ladder(o).planted \/ plants]
           h == Tells(x.line, k, pause, m = x.id, o)
           y == [x EXCEPT !.cai = {t}, !.seen = e, !.decoy = d, !.line = h]
<1>1. Handled(x, k, pause, m) = y
  BY Zenon DEF Handled
<1>2. /\ DOMAIN s = CaiFields /\ s.recent = x.line.typed /\ s.injections = x.line.probes
      /\ x.decoy.bait \in {0, s.marker} /\ (s.leaked <=> x.line.echoed) /\ s.marker = Mark(x)
  BY DEF SoundSession, Engaged, Mark
<1>3. /\ DOMAIN t = CaiFields /\ t.marker = s.marker
      /\ t.recent = Trim(Append(s.recent, [lex |-> Lex[k], pause |-> pause]))
      /\ t.injections = s.injections + IF k \in Probes THEN 1 ELSE 0
      /\ t.leaked <=> s.leaked \/ (s.marker # 0 /\ s.marker = m)
  BY <1>2, ObservedState DEF observe_command
<1>4. DOMAIN x = SessionFields /\ DOMAIN x.seen = SeenFields /\ DOMAIN x.decoy = DecoyFields
  BY DEF SoundSession
<1> HIDE DEF s, t, ob
<1>5. DOMAIN d = DecoyFields /\ d.bait \in {0, t.marker}
  BY <1>2, <1>3, <1>4 DEF Reads, plant_decoy, maybe_inject_trap, DecoyFields
<1>6. /\ DOMAIN o = SeenFields /\ (o.proven <=> x.seen.proven \/ t.leaked)
      /\ o.provenAlert = x.seen.provenAlert /\ o.detectedAlert = x.seen.detectedAlert
  BY <1>4 DEF SeenFields
<1> HIDE DEF o, d
<1>7. /\ DOMAIN e = SeenFields /\ (e.proven <=> o.proven)
      /\ (e.provenAlert <=> o.provenAlert \/ Provens(o))
      /\ (e.detectedAlert <=> o.detectedAlert \/ Provens(o) \/ Detects(o))
  BY <1>6 DEF Ladder, SeenFields
<1>8. /\ h.typed = t.recent /\ h.probes = t.injections /\ (h.echoed <=> x.line.echoed \/ m = x.id)
      /\ h.high = x.line.high + (IF Detects(o) THEN 1 ELSE 0)
      /\ h.critical = x.line.critical + (IF Provens(o) THEN 1 ELSE 0)
      /\ h = [typed |-> Trim(Append(x.line.typed, [lex |-> Lex[k], pause |-> pause])),
              probes |-> x.line.probes + (IF k \in Probes THEN 1 ELSE 0),
              echoed |-> x.line.echoed \/ m = x.id,
              high |-> h.high, critical |-> h.critical]
  BY <1>2, <1>3 DEF Tells
<1> HIDE DEF e, h
<1>9. /\ DOMAIN y = SessionFields /\ y.up = x.up /\ y.id = x.id /\ y.cai = {t} /\ y.seen = e
      /\ y.decoy = d /\ y.line = h
  BY <1>4 DEF SessionFields
<1> HIDE DEF y
<1>10. t.leaked <=> h.echoed
  BY <1>2, <1>3, <1>8
<1>11. StateOf(y) = t
  BY <1>9 DEF StateOf
<1>12. Engaged(StateOf(y), y)
  BY <1>3, <1>5, <1>8, <1>9, <1>10, <1>11 DEF Engaged
<1>13. /\ (x.seen.proven <=> x.line.echoed) /\ (x.seen.provenAlert <=> x.line.echoed)
       /\ x.line.high \in Nat /\ x.line.high <= IF x.seen.detectedAlert THEN 1 ELSE 0
       /\ x.line.critical = IF x.line.echoed THEN 1 ELSE 0
  BY DEF SoundSession
<1>14. (x.line.echoed => h.echoed) /\ (Provens(o) <=> h.echoed /\ ~x.line.echoed)
  BY <1>6, <1>8, <1>10, <1>13 DEF Provens
<1>15. (e.proven <=> h.echoed) /\ (e.provenAlert <=> h.echoed)
  BY <1>6, <1>7, <1>10, <1>13, <1>14
<1>16. h.high \in Nat /\ h.high <= IF e.detectedAlert THEN 1 ELSE 0
  <2>1. Detects(o) => ~x.seen.detectedAlert
    BY <1>6 DEF Detects
  <2> QED
    BY <1>6, <1>7, <1>8, <1>13, <2>1
<1>17. h.critical = IF h.echoed THEN 1 ELSE 0
  BY <1>8, <1>13, <1>14
<1>18. SoundSession(y)
  BY <1>4, <1>5, <1>7, <1>9, <1>11, <1>12, <1>15, <1>16, <1>17 DEF SoundSession
<1>19. Mark(y) = Mark(x)
  BY <1>2, <1>3, <1>11 DEF Mark
<1>20. x.line.critical \in Nat /\ h.critical \in Nat
  BY <1>13, <1>17
<1> QED
  BY <1>1, <1>2, <1>3, <1>5, <1>8, <1>9, <1>13, <1>16, <1>18, <1>19, <1>20 DEF Grown

\* One connection becomes y; a live one is then that or as it was.
OneMoves(c, y) ==
    \A d \in Live' : \/ d \in Live /\ d # c /\ sessions'[d] = sessions[d]
                     \/ d = c /\ sessions'[d] = y /\ y.up

LEMMA OneSessionMoves ==
    ASSUME NEW c, NEW y, sessions' = [sessions EXCEPT ![c] = y] PROVE OneMoves(c, y)
BY DEF Live, OneMoves

LEMMA CommandKeepsEcho ==
    ASSUME EchoInv, NEW c \in Live, NEW k, NEW pause, NEW m, HandleCommand(c, k, pause, m)
    PROVE  EchoInv'
<1> DEFINE x == sessions[c]
           y == Handled(x, k, pause, m)
<1>1. /\ sessions' = [sessions EXCEPT ![c] = y] /\ (IF k = "echo" THEN m \in got ELSE m = 0)
      /\ got' = got \cup (IF k = "cat" THEN {y.decoy.bait} \ {0} ELSE {})
      /\ ever' = [typed |-> Trim(Append(ever.typed, [lex |-> Lex[k], pause |-> pause])),
                 probes |-> ever.probes + (IF k \in Probes THEN 1 ELSE 0),
                 echoed |-> ever.echoed \/ m = x.id,
                 high |-> ever.high + (y.line.high - x.line.high),
                 critical |-> ever.critical + (y.line.critical - x.line.critical)]
      /\ UNCHANGED <<engagements, stateFile, broken>>
  BY Zenon DEF HandleCommand
<1>2. x \in Sources /\ c \in DOMAIN sessions
  BY DEF Sources, Live
<1>3. /\ SoundSession(x) /\ x.id \in 1..engagements /\ Mark(x) \in {0, x.id}
      /\ (x.id \in got => Mark(x) = x.id) /\ engagements \in Nat
  BY <1>2 DEF EchoInv, MarksAgree
<1>4. Grown(x, y, k, pause, m)
  <2>1. x.id \in Nat \ {0} /\ (m = x.id => Mark(x) = x.id)
    BY <1>1, <1>3
  <2> QED
    BY <1>3, <2>1, HandledIsSound
<1> HIDE DEF x, y
<1>0. OneMoves(c, y)
  BY <1>1, OneSessionMoves
<1>5. /\ SoundSession(y) /\ y.id = x.id /\ y.cai # {} /\ Mark(y) = Mark(x)
      /\ y.decoy.bait \in {0, Mark(x)}
  BY <1>4 DEF Grown
<1>6. \A z \in Sources' : z \in Sources \/ z = y
  BY <1>1, <1>0 DEF Sources, Live, OneMoves
<1>7. got' \subseteq got \cup {x.id} /\ (x.id \in got' => Mark(x) = x.id)
  BY <1>1, <1>3, <1>5
<1>8. MarksAgree'
  <2>1. ASSUME NEW z \in Sources'
        PROVE  /\ z.id \in 1..engagements' /\ Mark(z) \in {0, z.id} /\ (z.id \in got' => Mark(z) = z.id)
               /\ z.id = x.id => Mark(z) = Mark(x)
    <3>1. CASE z \in Sources
      <4>1. /\ z.id \in 1..engagements /\ Mark(z) \in {0, z.id} /\ (z.id \in got => Mark(z) = z.id)
            /\ z.id = x.id => Mark(z) = Mark(x)
        BY <1>2, <3>1 DEF EchoInv, MarksAgree
      <4> QED
        BY <1>1, <1>7, <4>1
    <3>2. CASE z = y
      BY <1>1, <1>3, <1>5, <1>7, <3>2
    <3> QED
      BY <1>6, <2>1, <3>1, <3>2
  <2>2. ASSUME NEW z \in Sources', NEW u \in Sources', z.id = u.id PROVE Mark(z) = Mark(u)
    <3>1. CASE z \in Sources /\ u \in Sources
      BY <2>2, <3>1 DEF EchoInv, MarksAgree
    <3>2. CASE z = y \/ u = y
      BY <1>5, <2>1, <2>2, <3>2
    <3> QED
      BY <1>6, <2>2, <3>1, <3>2
  <2>3. engagements' \in Nat
    BY <1>1, <1>3
  <2> QED
    BY <2>1, <2>2, <2>3 DEF MarksAgree
<1>9. ASSUME NEW d \in Live', sessions'[d].cai = {}
      PROVE  /\ sessions'[d].id \notin got'
             /\ \A e \in Live' : e # d => sessions'[e].id # sessions'[d].id
             /\ \A p \in stateFile' : p.engagement_id # sessions'[d].id
  <2>1. d \in Live /\ d # c /\ sessions'[d] = sessions[d]
    BY <1>1, <1>5, <1>9, <1>0 DEF OneMoves
  <2>2. /\ sessions[d].id \notin got /\ sessions[d].id # x.id
        /\ \A e \in Live : e # d => sessions[e].id # sessions[d].id
        /\ \A p \in stateFile : p.engagement_id # sessions[d].id
    BY <1>9, <2>1 DEF EchoInv, BlankIsAlone, x
  <2>3. ASSUME NEW e \in Live', e # d PROVE sessions'[e].id # sessions'[d].id
    BY <1>1, <1>5, <2>1, <2>2, <2>3, <1>0 DEF OneMoves
  <2> QED
    BY <1>1, <1>7, <2>1, <2>2, <2>3
<1>10. ASSUME ~broken' PROVE OneLine'
  <2>1. OneLine
    BY <1>1, <1>10 DEF EchoInv
  <2>2. c \in Live' /\ \A d \in Live' : d \in Live
    BY <1>1, <1>2, <1>4, <1>0 DEF Live, Grown, x, OneMoves
  <2>3. \A d \in Live' : d = c /\ sessions'[d] = y
    BY <1>1, <2>1, <2>2, <1>0 DEF OneLine, OneMoves
  <2>4. x.line = ever
    BY <2>1 DEF OneLine, x
  <2>5. y.line = ever'
    <3>1. /\ y.line = [typed |-> Trim(Append(ever.typed, [lex |-> Lex[k], pause |-> pause])),
                       probes |-> ever.probes + (IF k \in Probes THEN 1 ELSE 0),
                       echoed |-> ever.echoed \/ m = x.id,
                       high |-> y.line.high, critical |-> y.line.critical]
          /\ ever.high \in Nat /\ y.line.high \in Nat
          /\ ever.critical \in Nat /\ y.line.critical \in Nat
      BY <1>4, <2>4 DEF Grown
    <3>2. PICK hi \in Nat, cr \in Nat : hi = y.line.high /\ cr = y.line.critical
      BY <3>1
    <3>3. ever.high + (hi - ever.high) = hi /\ ever.critical + (cr - ever.critical) = cr
      BY <3>1, <3>2
    <3> QED
      BY <1>1, <2>4, <3>1, <3>2, <3>3
  <2> QED
    BY <2>2, <2>3, <2>5 DEF OneLine
<1>11. \A z \in Sources' : SoundSession(z)
  BY <1>5, <1>6 DEF EchoInv
<1>12. got' \subseteq 1..engagements'
  BY <1>1, <1>3, <1>7 DEF EchoInv
<1> QED
  BY <1>8, <1>9, <1>10, <1>11, <1>12 DEF EchoInv, BlankIsAlone

\* A connection finds what is on file, or is the first of a new engagement.
LEMMA ReconnectKeepsEcho == ASSUME EchoInv, SessionStarts PROVE EchoInv'
<1> DEFINE fresh == [Closed EXCEPT !.up = TRUE, !.id = engagements + 1]
<1>1. /\ UNCHANGED <<stateFile, got, ever>> /\ (~broken' => ~broken /\ Live = {})
  BY DEF SessionStarts
<1>2. MarksAgree /\ engagements \in Nat
  BY DEF EchoInv, MarksAgree
<1>3. \A x \in Sources : x.id \in 1..engagements
  BY DEF EchoInv, MarksAgree
<1>4. \A c \in Live : sessions[c] \in Sources
  BY DEF Sources
<1>5. \A p \in stateFile : Restored(p) \in Sources /\ Restored(p).id = p.engagement_id /\ Restored(p).line = p.line
                           /\ Restored(p).cai # {} /\ Restored(p).up
  BY DEF Sources, Restored
<1>6. CASE stateFile = {}
  <2>1. engagements' = engagements + 1 /\ sessions' = [sessions EXCEPT ![conns + 1] = fresh]
    BY <1>6 DEF SessionStarts
  <2>2. /\ DOMAIN fresh = SessionFields /\ fresh.id = engagements + 1 /\ fresh.cai = {} /\ fresh.line = Told
        /\ fresh.seen = _fresh_observed /\ fresh.decoy = NoDecoy
    BY DEF Closed, SessionFields
  <2> HIDE DEF fresh
  <2>0. OneMoves(conns + 1, fresh)
    BY <2>1, OneSessionMoves
  <2>3. StateOf(fresh) = [Blank EXCEPT !.marker = engagements + 1]
    BY <2>2 DEF StateOf
  <2>4. /\ DOMAIN StateOf(fresh) = CaiFields /\ StateOf(fresh).marker = engagements + 1
        /\ StateOf(fresh).recent = <<>> /\ StateOf(fresh).injections = 0 /\ ~StateOf(fresh).leaked
    BY <2>3 DEF Blank, CaiFields
  <2>5. SoundSession(fresh)
    BY <2>2, <2>4 DEF SoundSession, Engaged, _fresh_observed, NoDecoy, Told, SeenFields, DecoyFields
  <2>6. Mark(fresh) = fresh.id /\ fresh.id = engagements + 1
    BY <2>2, <2>4 DEF Mark
  <2>7. \A z \in Sources' : z \in Sources \/ z = fresh
    BY <1>1, <2>1, <2>0 DEF Sources, Live, OneMoves
  <2>8. /\ \A z \in Sources : z.id # fresh.id /\ z.id \in 1..(engagements + 1)
        /\ fresh.id \in 1..(engagements + 1)
    BY <1>2, <1>3, <2>6
  <2>9. MarksAgree'
    <3>1. ASSUME NEW z \in Sources'
          PROVE  z.id \in 1..engagements' /\ Mark(z) \in {0, z.id} /\ (z.id \in got' => Mark(z) = z.id)
      BY <1>1, <1>2, <2>1, <2>6, <2>7, <2>8, <3>1 DEF MarksAgree
    <3>2. ASSUME NEW z \in Sources', NEW u \in Sources', z.id = u.id PROVE Mark(z) = Mark(u)
      BY <1>2, <2>7, <2>8, <3>2 DEF MarksAgree
    <3>3. engagements' \in Nat
      BY <1>2, <2>1
    <3> QED
      BY <3>1, <3>2, <3>3 DEF MarksAgree
  <2>10. fresh.id \notin got
    BY <1>2, <2>6 DEF EchoInv
  <2>11. BlankIsAlone'
    <3>1. ASSUME NEW d \in Live', sessions'[d].cai = {}
          PROVE  /\ sessions'[d].id \notin got'
                 /\ \A e \in Live' : e # d => sessions'[e].id # sessions'[d].id
                 /\ \A p \in stateFile' : p.engagement_id # sessions'[d].id
      <4>1. CASE d = conns + 1
        <5>1. sessions'[d] = fresh /\ \A e \in Live' : e # d => e \in Live /\ sessions'[e] = sessions[e]
          BY <2>1, <3>1, <4>1, <2>0 DEF OneMoves
        <5> QED
          BY <1>1, <1>4, <1>6, <2>8, <2>10, <5>1
      <4>2. CASE d # conns + 1
        <5>1. d \in Live /\ sessions'[d] = sessions[d]
          BY <2>1, <3>1, <4>2, <2>0 DEF OneMoves
        <5>2. /\ sessions[d].id \notin got
              /\ \A e \in Live : e # d => sessions[e].id # sessions[d].id
          BY <3>1, <5>1 DEF EchoInv, BlankIsAlone
        <5>3. sessions[d].id # fresh.id
          BY <1>4, <2>8, <5>1
        <5>4. \A e \in Live' : e # d => sessions'[e].id # sessions[d].id
          BY <2>1, <5>2, <5>3, <2>0 DEF OneMoves
        <5> QED
          BY <1>1, <1>6, <5>1, <5>2, <5>4
      <4> QED
        BY <4>1, <4>2
    <3> QED
      BY <3>1 DEF BlankIsAlone
  <2>12. ASSUME ~broken' PROVE OneLine'
    <3>1. OneLine /\ Live = {} /\ ever = Told
      BY <1>1, <1>6, <2>12 DEF EchoInv, OneLine
    <3>2. \A d \in Live' : d = conns + 1 /\ sessions'[d] = fresh
      BY <2>1, <3>1, <2>0 DEF OneMoves
    <3> QED
      BY <1>1, <1>6, <2>2, <3>1, <3>2 DEF OneLine
  <2>13. got' \subseteq 1..engagements'
    BY <1>1, <1>2, <2>1 DEF EchoInv
  <2>14. \A z \in Sources' : SoundSession(z)
    BY <2>5, <2>7 DEF EchoInv
  <2> QED
    BY <2>9, <2>11, <2>12, <2>13, <2>14 DEF EchoInv
<1>7. CASE stateFile # {}
  <2>1. PICK p \in stateFile : /\ sessions' = [sessions EXCEPT ![conns + 1] = Restored(p)]
                               /\ engagements' = engagements
    BY <1>7 DEF SessionStarts
  <2>0. OneMoves(conns + 1, Restored(p))
    BY <2>1, OneSessionMoves
  <2>2. \A z \in Sources' : z \in Sources
    BY <1>1, <1>5, <2>1, <2>0 DEF Sources, Live, OneMoves
  <2>3. MarksAgree' /\ got' \subseteq 1..engagements'
    BY <1>1, <2>1, <2>2 DEF EchoInv, MarksAgree
  <2>4. BlankIsAlone'
    <3>1. ASSUME NEW d \in Live', sessions'[d].cai = {}
          PROVE  /\ sessions'[d].id \notin got'
                 /\ \A e \in Live' : e # d => sessions'[e].id # sessions'[d].id
                 /\ \A q \in stateFile' : q.engagement_id # sessions'[d].id
      <4>1. d \in Live /\ d # conns + 1 /\ sessions'[d] = sessions[d]
        BY <1>5, <2>1, <3>1, <2>0 DEF OneMoves
      <4>2. /\ sessions[d].id \notin got
            /\ \A e \in Live : e # d => sessions[e].id # sessions[d].id
            /\ \A q \in stateFile : q.engagement_id # sessions[d].id
        BY <3>1, <4>1 DEF EchoInv, BlankIsAlone
      <4>3. \A e \in Live' : e # d => sessions'[e].id # sessions[d].id
        BY <1>5, <2>1, <4>2, <2>0 DEF OneMoves
      <4> QED
        BY <1>1, <4>1, <4>2, <4>3
    <3> QED
      BY <3>1 DEF BlankIsAlone
  <2>5. ASSUME ~broken' PROVE OneLine'
    <3>1. OneLine /\ Live = {} /\ Restored(p).line = ever
      BY <1>1, <1>5, <2>5 DEF EchoInv, OneLine
    <3>2. \A d \in Live' : d = conns + 1 /\ sessions'[d] = Restored(p)
      BY <2>1, <3>1, <2>0 DEF OneMoves
    <3> QED
      BY <1>1, <1>7, <3>1, <3>2 DEF OneLine
  <2>6. \A z \in Sources' : SoundSession(z)
    BY <2>2 DEF EchoInv
  <2> QED
    BY <2>3, <2>4, <2>5, <2>6 DEF EchoInv
<1> QED
  BY <1>6, <1>7

\* What is saved is what the connection was, but that its first command can no
\* longer make a marker.
LEMMA SavedIsSound ==
    ASSUME NEW x, SoundSession(x)
    PROVE  LET r == Restored(to_persistent_state(x))
           IN  /\ SoundSession(r) /\ r.id = x.id /\ r.line = x.line /\ r.cai # {}
               /\ Mark(r) = IF x.cai = {} THEN 0 ELSE Mark(x)
<1> DEFINE p == to_persistent_state(x)
           r == Restored(p)
<1>1. /\ p.engagement_id = x.id /\ p.counter_ai = x.cai /\ p.observed = x.seen /\ p.decoy = x.decoy
      /\ p.line = x.line
  BY DEF to_persistent_state
<1> HIDE DEF p
<1>2. /\ DOMAIN r = SessionFields /\ r.id = x.id /\ r.cai = {from_dict(x.cai)} /\ r.seen = x.seen
      /\ r.decoy = [x.decoy EXCEPT !.live = FALSE] /\ r.line = x.line
  BY <1>1 DEF Restored, _deserialize_observed, SessionFields
<1> HIDE DEF r
<1>3. DOMAIN r.decoy = DecoyFields /\ r.decoy.bait = x.decoy.bait
  BY <1>2 DEF SoundSession, DecoyFields
<1>4. StateOf(r) = from_dict(x.cai)
  BY <1>2 DEF StateOf
<1>5. CASE x.cai = {}
  <2>1. StateOf(r) = Blank /\ x.decoy.bait = 0
    BY <1>4, <1>5 DEF from_dict, SoundSession
  <2>2. /\ x.line.typed = <<>> /\ x.line.probes = 0 /\ ~x.line.echoed
    <3>1. StateOf(x) = [Blank EXCEPT !.marker = x.id]
      BY <1>5 DEF StateOf
    <3>2. StateOf(x).recent = <<>> /\ StateOf(x).injections = 0 /\ ~StateOf(x).leaked
      BY <3>1 DEF Blank
    <3> QED
      BY <3>2 DEF SoundSession, Engaged
  <2>3. Engaged(StateOf(r), r) /\ Mark(r) = 0
    BY <1>2, <1>3, <2>1, <2>2 DEF Engaged, Blank, CaiFields, Mark
  <2> QED
    BY <1>2, <1>3, <1>4, <1>5, <2>3 DEF SoundSession, r, p
<1>6. CASE x.cai # {}
  <2>1. from_dict(x.cai) = StateOf(x)
    BY <1>6 DEF from_dict, StateOf
  <2>2. Engaged(StateOf(r), r) /\ Mark(r) = Mark(x)
    BY <1>2, <1>3, <1>4, <2>1 DEF SoundSession, Engaged, Mark
  <2> QED
    BY <1>2, <1>3, <1>4, <1>6, <2>2 DEF SoundSession, r, p
<1> QED
  BY <1>5, <1>6

\* A connection ends, saved or not.
LEMMA DisconnectKeepsEcho ==
    ASSUME EchoInv, NEW c \in Live, NEW saves \in BOOLEAN, Disconnect(c, saves) PROVE EchoInv'
<1> DEFINE x == sessions[c]
           p == to_persistent_state(x)
           r == Restored(p)
<1>1. /\ sessions' = [sessions EXCEPT ![c] = Closed]
      /\ stateFile' = IF saves THEN {p} ELSE stateFile
      /\ broken' = (broken \/ ~saves) /\ UNCHANGED <<engagements, got, ever>>
  BY DEF Disconnect
<1>2. ~Closed.up
  BY DEF Closed
<1>3. \A d \in Live' : d \in Live /\ d # c /\ sessions'[d] = sessions[d]
  <2>1. OneMoves(c, Closed)
    BY <1>1, OneSessionMoves
  <2> QED
    BY <1>2, <2>1 DEF OneMoves
<1>4. x \in Sources /\ SoundSession(x)
  BY DEF Sources, EchoInv
<1>5. p.engagement_id = x.id /\ p.line = x.line
  BY DEF to_persistent_state
<1>6. /\ SoundSession(r) /\ r.id = x.id
      /\ Mark(r) = IF x.cai = {} THEN 0 ELSE Mark(x)
  BY <1>4, SavedIsSound
<1> HIDE DEF x, p, r
<1>7. /\ \A z \in Sources' : \/ z \in Sources
                             \/ saves /\ z = r
  BY <1>1, <1>3 DEF Sources, r
<1>8. saves /\ x.cai = {} => /\ x.id \notin got
                             /\ \A z \in Sources' : z = r \/ z.id # x.id
  <2>1. x.cai = {} => /\ x.id \notin got
                      /\ \A d \in Live : d # c => sessions[d].id # x.id
    BY DEF EchoInv, BlankIsAlone, x
  <2>2. saves => \A z \in Sources' : z = r \/ \E d \in Live : d # c /\ z = sessions[d]
    BY <1>1, <1>3 DEF Sources, r
  <2> QED
    BY <2>1, <2>2
<1>9. MarksAgree'
  <2>1. ASSUME NEW z \in Sources'
        PROVE  z.id \in 1..engagements /\ Mark(z) \in {0, z.id} /\ (z.id \in got => Mark(z) = z.id)
    <3>1. CASE z \in Sources
      BY <3>1 DEF EchoInv, MarksAgree
    <3>2. CASE saves /\ z = r
      BY <1>4, <1>6, <1>8, <3>2 DEF EchoInv, MarksAgree
    <3> QED
      BY <1>7, <2>1, <3>1, <3>2
  <2>2. ASSUME NEW z \in Sources', NEW u \in Sources', z.id = u.id PROVE Mark(z) = Mark(u)
    <3>1. CASE z \in Sources /\ u \in Sources
      BY <2>2, <3>1 DEF EchoInv, MarksAgree
    <3>2. ASSUME saves, NEW v \in Sources', v.id = r.id PROVE Mark(v) = Mark(r)
      <4>1. CASE x.cai = {}
        BY <1>6, <1>8, <3>2, <4>1
      <4>2. CASE x.cai # {}
        BY <1>4, <1>6, <1>7, <3>2, <4>2 DEF EchoInv, MarksAgree
      <4> QED
        BY <4>1, <4>2
    <3> QED
      BY <1>7, <2>2, <3>1, <3>2
  <2> QED
    BY <1>1, <2>1, <2>2 DEF EchoInv, MarksAgree
<1>10. BlankIsAlone'
  <2>1. ASSUME NEW d \in Live', sessions'[d].cai = {}
        PROVE  /\ sessions'[d].id \notin got'
               /\ \A e \in Live' : e # d => sessions'[e].id # sessions'[d].id
               /\ \A q \in stateFile' : q.engagement_id # sessions'[d].id
    <3>1. d \in Live /\ d # c /\ sessions'[d] = sessions[d] /\ sessions[d].cai = {}
      BY <1>3, <2>1
    <3>2. /\ sessions[d].id \notin got /\ x.id # sessions[d].id
          /\ \A e \in Live : e # d => sessions[e].id # sessions[d].id
          /\ \A q \in stateFile : q.engagement_id # sessions[d].id
      BY <3>1 DEF EchoInv, BlankIsAlone, x
    <3> QED
      BY <1>1, <1>3, <1>5, <3>1, <3>2
  <2> QED
    BY <2>1 DEF BlankIsAlone
<1>11. ASSUME ~broken' PROVE OneLine'
  <2>1. OneLine /\ saves
    BY <1>1, <1>11 DEF EchoInv
  <2>2. Live' = {}
    BY <1>3, <2>1 DEF OneLine
  <2>3. x.line = ever
    BY <2>1 DEF OneLine, x
  <2> QED
    BY <1>1, <1>5, <2>1, <2>2, <2>3 DEF OneLine
<1>12. \A z \in Sources' : SoundSession(z)
  BY <1>6, <1>7 DEF EchoInv
<1> QED
  BY <1>1, <1>9, <1>10, <1>11, <1>12 DEF EchoInv

\* With the agent its connections die; the file stays.
LEMMA DeathKeepsEcho == ASSUME EchoInv, AgentDies PROVE EchoInv'
<1>1. /\ sessions' = [c \in DOMAIN sessions |-> Closed] /\ broken'
      /\ UNCHANGED <<engagements, got, stateFile>>
  BY DEF AgentDies
<1>2. Live' = {}
  BY <1>1 DEF Live, Closed
<1>3. \A z \in Sources' : z \in Sources
  BY <1>1, <1>2 DEF Sources
<1>4. MarksAgree' /\ BlankIsAlone'
  BY <1>1, <1>2, <1>3 DEF EchoInv, MarksAgree, BlankIsAlone
<1> QED
  BY <1>1, <1>3, <1>4 DEF EchoInv

\* Whatever overlaps, fails to be saved or dies, a connection's detector is in
\* step with its line, in which a marker that came back is proven once and no
\* alert is repeated; and while none of that happens the line is all that was
\* ever typed, for any commands and number of connections (counter_ai.py).
THEOREM EchoIsAlwaysProvenOnce == CounterAISpec => []EchoIsProvenOnce
<1>1. CounterAIInit => EchoInv
  <2> SUFFICES ASSUME CounterAIInit PROVE EchoInv
    OBVIOUS
  <2>1. Live = {} /\ stateFile = {} /\ got = {} /\ engagements = 0 /\ ever = Told
    BY DEF CounterAIInit, Live, Closed
  <2>2. Sources = {}
    BY <2>1 DEF Sources
  <2> QED
    BY <2>1, <2>2 DEF EchoInv, MarksAgree, BlankIsAlone, OneLine
<1>2. ASSUME EchoInv, UNCHANGED caiVars PROVE EchoInv'
  BY <1>2 DEF caiVars, EchoInv, MarksAgree, BlankIsAlone, OneLine, Sources, Live
<1>3. EchoInv /\ [CounterAINext]_caiVars => EchoInv'
  BY <1>2, CommandKeepsEcho, ReconnectKeepsEcho, DisconnectKeepsEcho, DeathKeepsEcho DEF CounterAINext
<1>4. EchoInv => EchoIsProvenOnce
  <2> SUFFICES ASSUME EchoInv, NEW c \in Live
               PROVE  LET x == sessions[c] h == x.line IN
                      /\ \A s \in x.cai : s.recent = h.typed /\ s.injections = h.probes /\ (h.echoed => s.leaked)
                      /\ h.high <= 1 /\ h.critical = (IF h.echoed THEN 1 ELSE 0)
                      /\ ~broken => h = ever
    BY DEF EchoIsProvenOnce
  <2> DEFINE x == sessions[c]
  <2>1. SoundSession(x) /\ (~broken => x.line = ever)
    BY DEF EchoInv, Sources, OneLine
  <2> HIDE DEF x
  <2>2. \A s \in x.cai : s = StateOf(x)
    BY <2>1 DEF SoundSession
  <2>3. x.line.high <= 1
    BY <2>1 DEF SoundSession
  <2>4. \A s \in x.cai : s.recent = x.line.typed /\ s.injections = x.line.probes /\ (x.line.echoed => s.leaked)
    BY <2>1, <2>2 DEF SoundSession, Engaged
  <2>5. x.line.critical = (IF x.line.echoed THEN 1 ELSE 0)
    BY <2>1 DEF SoundSession
  <2> QED
    BY <2>1, <2>3, <2>4, <2>5 DEF x
<1> QED
  BY <1>1, <1>3, <1>4, PTL DEF CounterAISpec

-----------------------------------------------------------------------------
(* Starting the agent                                                      *)
(*                                                                         *)
(* The argument: what a reference was resolved to is in the cache, which   *)
(* is asked before the backend; every name taken is on file before the     *)
(* plugin is looked at, and a file is left only after its first was tried. *)

StartupSpec == StartupInit /\ [][StartupNext]_startupVars

SecretTypes ==
    /\ DOMAIN backend = Refs /\ \A r \in Refs : backend[r] \in Nat /\ backend[r] < Default
    /\ DOMAIN cache = Refs /\ \A r \in Refs : cache[r] \in Nat /\ cache[r] # Verbatim
    /\ values \in Seq(Nat) /\ Len(values) <= Len(Fields)
    /\ boot = "resolving" => schemes = BuiltIn

CacheRemembers ==
    \A i \in DOMAIN values :
        /\ Fields[i].scheme \in BuiltIn => values[i] # Unset /\ cache[Fields[i]] = values[i]
        /\ Fields[i].scheme \notin BuiltIn => values[i] = Verbatim

SecretInv == SecretTypes /\ CacheRemembers

PluginTypes == file \in Nat /\ item \in Nat /\ 1 <= item /\ \E P : live \in Seq(P)

NamesAreTaken ==
    /\ \A i \in DOMAIN live : PluginKey(live[i]) \in names
    /\ \A i, j \in DOMAIN live : PluginKey(live[i]) = PluginKey(live[j]) => i = j
    /\ counted = Len(live)

FirstsAreTried ==
    /\ \A n \in DOMAIN Files : n < file \/ (n = file /\ 1 < item) =>
          (Files[n][1].builds => PluginKey(Files[n][1]) \in names)
    /\ boot = "serving" => Len(Files) < file

PluginInv == PluginTypes /\ NamesAreTaken /\ FirstsAreTried

LEMMA FieldList == Len(Fields) \in Nat /\ DOMAIN Fields = 1..Len(Fields)
                   /\ \A i \in DOMAIN Fields : Fields[i] \in Refs
BY StartupAssumption DEF Refs, Range

LEMMA Provided == ASSUME SecretTypes, NEW r \in Refs
                  PROVE  Provide(r) \in Nat /\ Provide(r) < Default
BY DEF Provide, ProviderEnv, ProviderFile, ProviderVault, ProviderAwsSm, SecretTypes, Unset, Default

LEMMA FieldResolved == ASSUME SecretInv, ResolveField PROVE SecretInv'
<1> DEFINE n == Len(values) + 1
           r == Fields[n]
           v == ResolveValue(r)
<1>1. boot = "resolving" /\ Len(values) < Len(Fields) /\ UNCHANGED <<backend, schemes>>
      /\ SecretTypes /\ CacheRemembers
  BY DEF ResolveField, SecretInv
<1>2. n \in 1..Len(Fields) /\ r \in Refs /\ schemes = BuiltIn /\ Len(values) \in Nat
  BY <1>1, FieldList DEF SecretTypes
<1>3. CASE v = Unset
  <2>1. boot' = "fatal" /\ UNCHANGED <<cache, values>>
    BY <1>3 DEF ResolveField
  <2> QED
    BY <1>1, <2>1 DEF SecretInv, SecretTypes, CacheRemembers
<1>4. CASE v # Unset
  <2>1. cache' = Kept(r, v) /\ values' = Append(values, v)
    BY <1>4 DEF ResolveField
  <2>2. boot' \in {boot, "building"}
    BY <1>4 DEF ResolveField
  <2>3. /\ r.scheme \notin BuiltIn => v = Verbatim
        /\ r.scheme \in BuiltIn => v \in Nat /\ v # Verbatim /\ (cache[r] # Unset => v = cache[r])
    <3>1. Provide(r) \in Nat /\ Provide(r) < Default
      BY <1>1, <1>2, Provided
    <3>2. Looked(r) \in {Verbatim, Provide(r), Default, Unset} /\ (r.scheme \in BuiltIn => Looked(r) # Verbatim)
          /\ (r.scheme \notin BuiltIn => Looked(r) = Verbatim)
      <4>1. IsReference(r) <=> r.scheme \in BuiltIn
        BY <1>2 DEF IsReference
      <4>2. /\ ~IsReference(r) => Looked(r) = Verbatim
            /\ IsReference(r) => Looked(r) \in {Provide(r), Default, Unset}
        BY DEF Looked
      <4>3. Verbatim \notin {Provide(r), Default, Unset}
        BY <3>1 DEF Verbatim, Default, Unset
      <4> QED
        BY <4>1, <4>2, <4>3
    <3> QED
      BY <1>1, <1>2, <3>1, <3>2 DEF ResolveValue, IsReference, SecretTypes, Verbatim, Default, Unset
  <2> HIDE DEF r, v
  <2>4. /\ r.scheme \notin BuiltIn => cache' = cache
        /\ r.scheme \in BuiltIn => cache' = [cache EXCEPT ![r] = v]
    BY <2>1, <2>3 DEF Kept
  <2>5. v \in Nat
    BY <2>3 DEF Verbatim
  <2>6. /\ values' \in Seq(Nat) /\ Len(values') = n /\ DOMAIN values' = 1..n /\ values'[n] = v
        /\ \A i \in DOMAIN values : values'[i] = values[i] /\ i \in 1..Len(values)
    BY <1>1, <2>1, <2>5 DEF SecretTypes
  <2>7. SecretTypes'
    BY <1>1, <1>2, <2>2, <2>3, <2>4, <2>6 DEF SecretTypes
  <2>8. ASSUME NEW i \in DOMAIN values' PROVE /\ Fields[i].scheme \in BuiltIn => values'[i] # Unset /\ cache'[Fields[i]] = values'[i]
                                              /\ Fields[i].scheme \notin BuiltIn => values'[i] = Verbatim
    <3>1. CASE i = n
      BY <1>1, <1>2, <1>4, <2>3, <2>4, <2>6, <3>1 DEF SecretTypes, r, v
    <3>2. CASE i # n
      <4>1. i \in DOMAIN values
        BY <1>1, <1>2, <2>6, <3>2 DEF SecretTypes
      <4>2. /\ values'[i] = values[i] /\ Fields[i] \in Refs
            /\ Fields[i].scheme \in BuiltIn => values[i] # Unset /\ cache[Fields[i]] = values[i]
            /\ Fields[i].scheme \notin BuiltIn => values[i] = Verbatim
        BY <1>1, <1>2, <2>6, <4>1, FieldList DEF CacheRemembers, SecretTypes
      <4>3. Fields[i].scheme \in BuiltIn => cache'[Fields[i]] = cache[Fields[i]]
        BY <1>1, <1>2, <2>3, <2>4, <4>2 DEF SecretTypes
      <4> QED
        BY <4>2, <4>3
    <3> QED
      BY <3>1, <3>2
  <2> QED
    BY <2>7, <2>8 DEF SecretInv, CacheRemembers
<1> QED
  BY <1>3, <1>4

LEMMA ItemLoaded == ASSUME PluginInv, LoadItem PROVE PluginInv'
<1> DEFINE f == Files[file]
           p == f[item]
<1>0. /\ PluginTypes /\ NamesAreTaken /\ FirstsAreTried
      /\ boot = "discovering" /\ file <= Len(Files) /\ item <= Len(f) /\ UNCHANGED boot
      /\ Len(Files) \in Nat /\ DOMAIN Files = 1..Len(Files)
  BY StartupAssumption DEF LoadItem, PluginInv
<1>1. PICK P : live \in Seq(P)
  BY <1>0 DEF PluginTypes
<1>2. /\ names' = IF p.builds THEN names \cup {PluginKey(p)} ELSE names
      /\ live' = IF Raises(p) THEN live ELSE Append(live, p)
      /\ counted' = IF Raises(p) THEN counted ELSE counted + 1
  BY DEF LoadItem, Register, Raises
<1>3. \/ file' = file + 1 /\ item' = 1
      \/ file' = file /\ item' = item + 1
  BY DEF LoadItem, NextFile
<1>4. ~Raises(p) => p.builds /\ PluginKey(p) \notin names
  BY DEF Raises
<1>5. PluginTypes'
  <2>1. live' \in Seq(P \cup {p})
    BY <1>1, <1>2
  <2> QED
    BY <1>0, <1>3, <2>1 DEF PluginTypes
<1>6. FirstsAreTried'
  <2>1. item = 1 => p = Files[file][1]
    OBVIOUS
  <2> HIDE DEF p, f
  <2> QED
    BY <1>0, <1>2, <1>3, <2>1 DEF FirstsAreTried, PluginTypes
<1>7. NamesAreTaken'
  <2> HIDE DEF p, f
  <2>1. CASE Raises(p)
    BY <1>0, <1>2, <2>1 DEF NamesAreTaken
  <2>2. CASE ~Raises(p)
    <3>1. /\ Len(live) \in Nat /\ Len(live') = Len(live) + 1 /\ DOMAIN live' = 1..(Len(live) + 1)
          /\ live'[Len(live) + 1] = p /\ DOMAIN live = 1..Len(live)
          /\ \A i \in DOMAIN live : live'[i] = live[i]
      BY <1>1, <1>2, <2>2
    <3>2. \A i \in DOMAIN live' : i \in DOMAIN live \/ i = Len(live) + 1
      BY <3>1
    <3>3. \A i \in DOMAIN live' : PluginKey(live'[i]) \in names'
      BY <1>0, <1>2, <1>4, <2>2, <3>1, <3>2 DEF NamesAreTaken
    <3>4. ASSUME NEW i \in DOMAIN live', NEW j \in DOMAIN live', PluginKey(live'[i]) = PluginKey(live'[j])
          PROVE  i = j
      BY <1>0, <1>4, <2>2, <3>1, <3>2, <3>4 DEF NamesAreTaken
    <3>5. counted' = Len(live')
      BY <1>0, <1>2, <2>2, <3>1 DEF NamesAreTaken
    <3> QED
      BY <3>3, <3>4, <3>5 DEF NamesAreTaken
  <2> QED
    BY <2>1, <2>2
<1> QED
  BY <1>5, <1>6, <1>7 DEF PluginInv

\* Whatever fails or is rotated while the agent starts, a reference has one
\* value and a plugin that cannot be loaded costs no other file anything, for
\* any configuration and any plugin files (resolve, discover_path).
THEOREM StartIsAlwaysSound == StartupSpec => []StartIsSound
<1>1. StartupInit => SecretInv /\ PluginInv
  <2> SUFFICES ASSUME StartupInit PROVE SecretInv /\ PluginInv
    OBVIOUS
  <2>1. values = <<>> /\ live = <<>> /\ file = 1 /\ item = 1 /\ counted = 0 /\ boot = "resolving"
        /\ schemes = BuiltIn
    BY DEF StartupInit
  <2>2. SecretInv
    BY <2>1, FieldList DEF StartupInit, SecretInv, SecretTypes, CacheRemembers, Unset, Default, Verbatim
  <2>3. PluginTypes
    <3>1. <<>> \in Seq({})
      OBVIOUS
    <3> QED
      BY <2>1, <3>1 DEF PluginTypes
  <2>4. NamesAreTaken /\ FirstsAreTried
    BY <2>1, StartupAssumption DEF NamesAreTaken, FirstsAreTried
  <2> QED
    BY <2>2, <2>3, <2>4 DEF PluginInv
<1>2. SecretInv /\ PluginInv /\ [StartupNext]_startupVars => SecretInv' /\ PluginInv'
  <2> SUFFICES ASSUME SecretInv, PluginInv, [StartupNext]_startupVars PROVE SecretInv' /\ PluginInv'
    OBVIOUS
  <2>1. ASSUME UNCHANGED <<backend, cache, values>>, boot' # "resolving" \/ UNCHANGED <<boot, schemes>>
        PROVE  SecretInv'
    BY <2>1 DEF SecretInv, SecretTypes, CacheRemembers
  <2>2. ASSUME UNCHANGED pluginVars, boot' # "serving" \/ Len(Files) < file \/ UNCHANGED boot PROVE PluginInv'
    BY <2>2 DEF PluginInv, PluginTypes, NamesAreTaken, FirstsAreTried, pluginVars
  <2>3. ASSUME NEW r \in Refs, NEW v \in 0..MaxVersion, Rotate(r, v) PROVE SecretInv' /\ PluginInv'
    <3>1. backend' = [backend EXCEPT ![r] = v] /\ UNCHANGED <<boot, schemes, cache, values, pluginVars>>
      BY <2>3 DEF Rotate, secretVars
    <3>2. DOMAIN backend' = Refs /\ \A q \in Refs : backend'[q] \in Nat /\ backend'[q] < Default
      BY <3>1, StartupAssumption DEF SecretInv, SecretTypes, Default
    <3>3. SecretInv'
      BY <3>1, <3>2 DEF SecretInv, SecretTypes, CacheRemembers
    <3> QED
      BY <2>2, <3>1, <3>3
  <2>4. CASE ResolveField
    BY <2>2, <2>4, FieldResolved DEF ResolveField
  <2>5. CASE CheckOne
    BY <2>1, <2>2, <2>5 DEF CheckOne, secretVars
  <2>6. CASE BuildOrchestrator
    BY <2>1, <2>2, <2>6 DEF BuildOrchestrator, secretVars
  <2>7. CASE LoadItem
    BY <2>1, <2>7, ItemLoaded DEF LoadItem
  <2>8. CASE StartServing
    <3>1. Len(Files) < file
      BY <2>8, StartupAssumption DEF StartServing, PluginInv, PluginTypes
    <3> QED
      BY <2>1, <2>2, <2>8, <3>1 DEF StartServing, secretVars
  <2>9. ASSUME NEW fires \in BOOLEAN, RunPlugins(fires) PROVE SecretInv' /\ PluginInv'
    BY <2>1, <2>2, <2>9 DEF RunPlugins, secretVars
  <2>10. CASE UNCHANGED startupVars
    BY <2>1, <2>2, <2>10 DEF startupVars, secretVars
  <2> QED
    BY <2>3, <2>4, <2>5, <2>6, <2>7, <2>8, <2>9, <2>10 DEF StartupNext
<1>3. SecretInv /\ PluginInv => StartIsSound
  <2> SUFFICES ASSUME SecretInv, PluginInv PROVE StartIsSound
    OBVIOUS
  <2>1. OneValuePerReference
    BY DEF SecretInv, CacheRemembers, OneValuePerReference
  <2>2. boot = "serving" => \A n \in DOMAIN Files : n < file
    BY StartupAssumption DEF PluginInv, PluginTypes, FirstsAreTried
  <2>3. BadPluginSparesOthers
    BY <2>2 DEF PluginInv, NamesAreTaken, FirstsAreTried, BadPluginSparesOthers
  <2> QED
    BY <2>1, <2>3 DEF StartIsSound
<1> QED
  BY <1>1, <1>2, <1>3, PTL DEF StartupSpec

-----------------------------------------------------------------------------
(* The trained policy                                                      *)
(*                                                                         *)
(* The argument: the mask keeps actions_taken free of repetitions, so a    *)
(* pass records no more actions than there are; and a decoy that the open  *)
(* connection planted is in its actions_taken, so it is not planted again. *)

EngineSpec == EngineInit /\ [][EngineNext]_engineVars

TrapState == [state : {"none", "planted", "touched"}, by : Nat, lost : BOOLEAN]

EngineTypes ==
    /\ open \in BOOLEAN /\ visits \in Nat /\ pass \in 0..2 /\ turns \in Nat
    /\ acted \in Seq(Move)
    /\ trap \in [Plants -> TrapState]

NoRepetition == \A i, j \in DOMAIN acted : acted[i] = acted[j] => i = j

\* a pass under way has recorded its actions in this connection
PassIsRecorded ==
    /\ turns <= Len(acted)
    /\ pass = 0 => turns = 0
    /\ ~open => pass = 0

\* what this connection planted is in its actions_taken, and was not lost; no
\* decoy comes from a connection that is still to come
OwnPlants ==
    \A a \in Plants :
        /\ ~trap[a].lost /\ trap[a].by <= visits
        /\ trap[a].state # "none" /\ trap[a].by = visits => a \in fired

EngineInv == EngineTypes /\ NoRepetition /\ PassIsRecorded /\ OwnPlants

\* A sequence without repetitions is no longer than the set it draws from
\* (actions_taken against ACTION_SPACE).
LEMMA NoRepetitionIsShort ==
    ASSUME NEW s \in Seq(Move), \A i, j \in DOMAIN s : s[i] = s[j] => i = j
    PROVE  Len(s) <= Cardinality(Move)
<1>1. IsFiniteSet(Move)
    BY PolicyAssumption
<1>2. Len(s) \in Nat /\ DOMAIN s = 1..Len(s)
    OBVIOUS
<1>3. s \in Injection(1..Len(s), Move)
    BY <1>2 DEF Injection, IsInjective
<1>4. IsFiniteSet(1..Len(s)) /\ Cardinality(1..Len(s)) = Len(s)
    BY <1>2, FS_Interval
<1>5. Cardinality(1..Len(s)) <= Cardinality(Move)
    BY <1>1, <1>3, FS_Injection
<1> QED  BY <1>4, <1>5

\* What the policy answers besides noop is an action that is not yet in
\* actions_taken (the mask of TrainedRLPolicy.decide).
LEMMA DecideIsNew ==
    ASSUME NEW mass \in forward, NEW a \in decide(mass), a # "noop"
    PROVE  a \in Move /\ a \notin fired
<1>1. a \in Masked(mass)
    BY DEF decide
<1> QED  BY <1>1 DEF Masked, forward

\* Appending an action that is not there keeps actions_taken free of
\* repetitions (_maybe_record_action).
LEMMA AppendNew ==
    ASSUME EngineTypes, NoRepetition, NEW a \in Move, a \notin fired
    PROVE  /\ Append(acted, a) \in Seq(Move) /\ Len(Append(acted, a)) = Len(acted) + 1
           /\ \A i, j \in DOMAIN Append(acted, a) :
                 Append(acted, a)[i] = Append(acted, a)[j] => i = j
           /\ {Append(acted, a)[i] : i \in DOMAIN Append(acted, a)} = fired \cup {a}
<1> DEFINE s == Append(acted, a)
<1>1. /\ acted \in Seq(Move) /\ s \in Seq(Move) /\ Len(s) = Len(acted) + 1
      /\ DOMAIN acted = 1..Len(acted) /\ DOMAIN s = 1..(Len(acted) + 1) /\ Len(acted) \in Nat
    BY DEF EngineTypes
<1>2. \A i \in DOMAIN acted : i \in DOMAIN s /\ s[i] = acted[i]
    BY <1>1
<1>3. s[Len(acted) + 1] = a
    BY <1>1
<1>4. \A i \in DOMAIN s : i \in DOMAIN acted \/ i = Len(acted) + 1
    BY <1>1
<1>5. \A i \in DOMAIN acted : acted[i] # a
    BY DEF fired
<1> HIDE DEF s
<1>6. \A i, j \in DOMAIN s : s[i] = s[j] => i = j
    BY <1>2, <1>3, <1>4, <1>5 DEF NoRepetition
<1>7. {s[i] : i \in DOMAIN s} = fired \cup {a}
    BY <1>1, <1>2, <1>3, <1>4 DEF fired
<1> QED  BY <1>1, <1>6, <1>7 DEF s

\* The invariant holds when the agent starts (build_policy).
LEMMA EngineInvInit == EngineInit => EngineInv
<1> SUFFICES ASSUME EngineInit PROVE EngineInv
    OBVIOUS
<1>1. /\ open = FALSE /\ visits = 0 /\ pass = 0 /\ turns = 0 /\ acted = <<>>
      /\ trap = [a \in Plants |-> [state |-> "none", by |-> 0, lost |-> FALSE]]
    BY DEF EngineInit
<1>2. EngineTypes
    <2>1. acted \in Seq(Move)
        BY <1>1
    <2>2. open \in BOOLEAN
        BY <1>1
    <2>3. trap \in [Plants -> TrapState]
        BY <1>1 DEF TrapState
    <2> QED  BY <1>1, <2>1, <2>2, <2>3 DEF EngineTypes
<1>3. NoRepetition /\ PassIsRecorded
    BY <1>1 DEF NoRepetition, PassIsRecorded
<1>4. OwnPlants
    BY <1>1 DEF OwnPlants
<1> QED  BY <1>2, <1>3, <1>4 DEF EngineInv

\* One turn of the loop keeps the invariant, whatever the network answers
\* (_maybe_record_action, TrainedRLPolicy.decide, plant_decoy).
LEMMA TurnKeeps == ASSUME EngineInv, Turn PROVE EngineInv'
<1> USE DEF EngineInv
<1>1. PICK mass \in forward : \E a \in decide(mass) :
          IF a = "noop" THEN /\ pass' = NextPass /\ turns' = 0 /\ UNCHANGED <<acted, trap>>
          ELSE /\ acted' = Append(acted, a) /\ trap' = execute(a)
               /\ IF turns + 1 < PassCap THEN turns' = turns + 1 /\ UNCHANGED pass
                  ELSE turns' = 0 /\ pass' = NextPass
    BY DEF Turn
<1>2. PICK a \in decide(mass) :
          IF a = "noop" THEN /\ pass' = NextPass /\ turns' = 0 /\ UNCHANGED <<acted, trap>>
          ELSE /\ acted' = Append(acted, a) /\ trap' = execute(a)
               /\ IF turns + 1 < PassCap THEN turns' = turns + 1 /\ UNCHANGED pass
                  ELSE turns' = 0 /\ pass' = NextPass
    BY <1>1
<1>3. pass > 0 /\ UNCHANGED <<open, visits>> /\ open = TRUE /\ pass \in 1..2
    BY DEF Turn, PassIsRecorded, EngineTypes
<1>4. NextPass \in 0..2
    BY DEF NextPass
<1>5. CASE a = "noop"
    BY <1>2, <1>3, <1>4, <1>5
       DEF EngineTypes, NoRepetition, PassIsRecorded, OwnPlants, fired
<1>6. CASE a # "noop"
    <2>1. a \in Move /\ a \notin fired
        BY <1>6, DecideIsNew
    <2>2. acted' = Append(acted, a) /\ trap' = execute(a)
        BY <1>2, <1>6
    <2>3. /\ acted' \in Seq(Move) /\ Len(acted') = Len(acted) + 1
          /\ NoRepetition' /\ fired' = fired \cup {a}
        BY <2>1, <2>2, AppendNew DEF NoRepetition, fired
    <2>4. trap' \in [Plants -> TrapState]
        BY <2>2 DEF execute, EngineTypes, TrapState
    <2>5. /\ turns' \in Nat /\ turns' <= turns + 1 /\ pass' \in 0..2
          /\ pass' = 0 => turns' = 0
        BY <1>2, <1>3, <1>4, <1>6 DEF EngineTypes
    <2>6. EngineTypes'
        BY <1>3, <2>3, <2>4, <2>5 DEF EngineTypes
    <2>7. PassIsRecorded'
        BY <1>3, <2>3, <2>5 DEF PassIsRecorded, EngineTypes
    <2>8. OwnPlants'
        <3>1. visits' = visits /\ visits \in Nat
            BY <1>3 DEF EngineTypes
        <3>2. ASSUME NEW b \in Plants
              PROVE  /\ ~trap'[b].lost /\ trap'[b].by <= visits
                     /\ trap'[b].state # "none" /\ trap'[b].by = visits => b \in fired \cup {a}
            <4>1. trap[b] \in TrapState /\ trap \in [Plants -> TrapState]
                BY DEF EngineTypes
            <4>2. /\ ~trap[b].lost /\ trap[b].by <= visits
                  /\ trap[b].state # "none" /\ trap[b].by = visits => b \in fired
                BY DEF OwnPlants
            <4>3. CASE b = a
                <5>1. ~(trap[b].state = "touched" /\ trap[b].by = visits)
                    BY <2>1, <4>2, <4>3
                <5>2. trap'[b] = [state |-> "planted", by |-> visits, lost |-> FALSE]
                    BY <2>2, <4>1, <4>2, <4>3, <5>1 DEF execute
                <5> QED  BY <3>1, <4>3, <5>2
            <4>4. CASE b # a
                <5>1. trap'[b] = trap[b]
                    BY <2>2, <4>1, <4>4 DEF execute
                <5> QED  BY <4>2, <5>1
            <4> QED  BY <4>3, <4>4
        <3> QED  BY <2>3, <3>1, <3>2 DEF OwnPlants
    <2> QED  BY <2>3, <2>6, <2>7, <2>8
<1> QED  BY <1>5, <1>6

\* Every step keeps the invariant: connections, commands, passes and what the
\* attacker does to a decoy.
LEMMA EngineInvNext == ASSUME EngineInv, [EngineNext]_engineVars PROVE EngineInv'
<1> USE DEF EngineInv
<1>1. CASE Arrives
    <2>1. /\ visits' = visits + 1 /\ acted' = <<>> /\ open' = TRUE /\ visits \in Nat
          /\ pass = 0 /\ turns = 0 /\ UNCHANGED <<pass, turns, trap>>
        BY <1>1 DEF Arrives, EngineTypes, PassIsRecorded
    <2>2. EngineTypes' /\ NoRepetition' /\ PassIsRecorded'
        BY <2>1 DEF EngineTypes, NoRepetition, PassIsRecorded
    <2>3. ASSUME NEW a \in Plants
          PROVE  ~trap[a].lost /\ trap[a].by <= visits + 1 /\ trap[a].by # visits + 1
        <3>1. trap[a].by \in Nat /\ ~trap[a].lost /\ trap[a].by <= visits
            BY DEF OwnPlants, EngineTypes, TrapState
        <3> QED  BY <2>1, <3>1
    <2>4. OwnPlants'
        BY <2>1, <2>3 DEF OwnPlants
    <2> QED  BY <2>2, <2>4
<1>2. CASE Leaves
    <2>1. /\ open = TRUE /\ pass = 0 /\ open' = FALSE
          /\ UNCHANGED <<visits, pass, turns, acted, trap>>
        BY <1>2 DEF Leaves, EngineTypes
    <2>2. EngineTypes' /\ NoRepetition' /\ PassIsRecorded'
        BY <2>1 DEF EngineTypes, NoRepetition, PassIsRecorded
    <2>3. fired' = fired
        BY <2>1 DEF fired
    <2>4. OwnPlants'
        BY <2>1, <2>3 DEF OwnPlants
    <2> QED  BY <2>2, <2>4
<1>3. CASE Types
    BY <1>3 DEF Types, EngineTypes, NoRepetition, PassIsRecorded, OwnPlants, fired
<1>4. CASE Turn
    BY <1>4, TurnKeeps
<1>5. CASE RulesPass
    BY <1>5 DEF RulesPass, NextPass, EngineTypes, NoRepetition, PassIsRecorded, OwnPlants, fired
<1>6. ASSUME NEW a \in Plants, Touches(a) PROVE EngineInv'
    <2>1. /\ trap[a].state = "planted" /\ trap' = [trap EXCEPT ![a].state = "touched"]
          /\ UNCHANGED <<open, visits, pass, turns, acted>>
        BY <1>6 DEF Touches
    <2>2. EngineTypes' /\ NoRepetition' /\ PassIsRecorded'
        BY <2>1 DEF EngineTypes, NoRepetition, PassIsRecorded, TrapState
    <2>3. fired' = fired
        BY <2>1 DEF fired
    <2>4. ASSUME NEW b \in Plants
          PROVE  /\ trap'[b].lost = trap[b].lost /\ trap'[b].by = trap[b].by
                 /\ trap'[b].state # "none" => trap[b].state # "none"
        <3>1. trap \in [Plants -> TrapState]
            BY DEF EngineTypes
        <3>2. trap' = [trap EXCEPT ![a] = [trap[a] EXCEPT !.state = "touched"]]
            BY <2>1
        <3>3. CASE b = a
            BY <2>1, <3>1, <3>2, <3>3 DEF TrapState
        <3>4. CASE b # a
            BY <3>1, <3>2, <3>4
        <3> QED  BY <3>3, <3>4
    <2>5. OwnPlants'
        BY <2>1, <2>3, <2>4 DEF OwnPlants
    <2> QED  BY <2>2, <2>5
<1>7. CASE UNCHANGED engineVars
    BY <1>7 DEF engineVars, EngineTypes, NoRepetition, PassIsRecorded, OwnPlants, fired
<1> QED  BY <1>1, <1>2, <1>3, <1>4, <1>5, <1>6, <1>7 DEF EngineNext

\* The invariant gives the property (TrainedRLPolicy.decide).
LEMMA EngineInvImplies == EngineInv => PassEndsByItself
<1> SUFFICES ASSUME EngineInv PROVE PassEndsByItself
    OBVIOUS
<1>1. Len(acted) <= Cardinality(Move) /\ Len(acted) \in Nat /\ Cardinality(Move) \in Nat
    BY NoRepetitionIsShort, PolicyAssumption, FS_CardinalityType DEF EngineInv, EngineTypes, NoRepetition
<1>2. turns <= Cardinality(Move)
    BY <1>1 DEF EngineInv, EngineTypes, PassIsRecorded
<1> QED  BY <1>2 DEF PassEndsByItself, EngineInv, OwnPlants

\* Whatever the network answers, for any action space and any number of
\* commands and connections: a pass takes no more turns than there are actions,
\* so it ends before the loop's bound wherever that is larger, and no connection
\* plants over what the attacker did to a decoy of its own
\* (TrainedRLPolicy.decide, _maybe_record_action).
THEOREM PassAlwaysEndsByItself == EngineSpec => []PassEndsByItself
<1>1. EngineInit => EngineInv
    BY EngineInvInit
<1>2. EngineInv /\ [EngineNext]_engineVars => EngineInv'
    BY EngineInvNext
<1>3. EngineInv => PassEndsByItself
    BY EngineInvImplies
<1> QED  BY <1>1, <1>2, <1>3, PTL DEF EngineSpec

-----------------------------------------------------------------------------
(* The decoy services                                                      *)
(*                                                                         *)
(* The argument is about one connection at a time: it has answered what it *)
(* was asked, its log opens with its connect line and has a line for every *)
(* request, and it is closed by the step that writes its disconnect line.  *)

DecoySpec == DecoyInit /\ [][DecoyNext]_decoyVars

DecoyAnswer == {Answer(p, r) : p \in OT, r \in Request}
DecoyWord   == {"connect", "cotp", "request", "auth_attempt", "disconnect"}
DecoyLine   == {Line(w) : w \in DecoyWord}
DecoyLink   == [service : Handlers \cup {"none"}, phase : {"free", "handshake", "open", "closed"},
                asked : Seq(Request), got : Seq(DecoyAnswer)]
Answered(l) ==
    /\ Len(l.got) = Len(l.asked)
    /\ \A i \in DOMAIN l.asked : l.got[i] = Answer(l.service, l.asked[i]) /\ l.got[i].kind # "error"
LinkSound(l, ev, full) ==
    /\ l \in DecoyLink /\ ev \in Seq(DecoyLine) /\ Answered(l)
    /\ l.service = "none" => l.phase = "free" /\ ev = <<>>
    /\ ~full /\ l.service \in OT =>
          Begun(ev, l.asked) /\ (l.phase = "closed" => Last(ev).what = "disconnect")
DownIsEmpty == host = "down" => bound = {} /\ \A c \in Link : ~Busy(c)
DecoyInv ==
    /\ host \in {"up", "down"} /\ bound \subseteq Handlers /\ DownIsEmpty
    /\ link \in [Link -> DecoyLink] /\ events \in [Link -> Seq(DecoyLine)]
    /\ \A c \in Link : LinkSound(link[c], events[c], diskFull)

\* The places of a sequence that are marked are finitely many, and one more
\* entry adds at most its own.
LEMMA MarkedPlaces ==
    ASSUME NEW S, NEW s \in Seq(S), NEW e \in S, NEW X, X \subseteq DOMAIN s,
           NEW Y, Y = X \/ Y = X \cup {Len(s) + 1}
    PROVE  /\ IsFiniteSet(X) /\ Cardinality(X) \in Nat /\ Cardinality(Y) \in Nat
           /\ Y = X \cup {Len(s) + 1} => Cardinality(Y) = Cardinality(X) + 1
<1>1. DOMAIN s = 1..Len(s) /\ Len(s) \in Nat /\ Len(s) \in Int /\ 1 \in Int
  OBVIOUS
<1> IsFiniteSet(1..Len(s))
  BY <1>1, FS_Interval
<1>2. IsFiniteSet(X)
  BY <1>1, FS_Subset
<1>3. Cardinality(X) \in Nat
  BY <1>2, FS_CardinalityType
<1>4. Len(s) + 1 \notin X
  BY <1>1
<1>5. Cardinality(X \cup {Len(s) + 1}) = Cardinality(X) + 1
  BY <1>2, <1>4, FS_AddElement
<1>6. Cardinality(X) + 1 \in Nat
  BY <1>3
<1> QED
  BY <1>2, <1>3, <1>5, <1>6, Zenon

\* One more line keeps a log begun; the line of a request also covers it.
LEMMA LineAdded ==
    ASSUME NEW ev \in Seq(DecoyLine), NEW asked \in Seq(Request), NEW e \in DecoyLine, Begun(ev, asked)
    PROVE  /\ Append(ev, e) \in Seq(DecoyLine) /\ Begun(Append(ev, e), asked)
           /\ Last(Append(ev, e)) = e
           /\ \A r \in Request : e.what = "request" => Begun(Append(ev, e), Append(asked, r))
<1>1. PICK ev2 : ev2 = Append(ev, e)
  OBVIOUS
<1>2. /\ ev2 \in Seq(DecoyLine) /\ ev2 # <<>> /\ Len(ev2) = Len(ev) + 1 /\ ev2[Len(ev) + 1] = e
      /\ DOMAIN ev2 = 1..(Len(ev) + 1) /\ DOMAIN ev = 1..Len(ev) /\ Len(ev) \in Nat
      /\ \A i \in DOMAIN ev : ev2[i] = ev[i]
  BY <1>1
<1>3. ev2[1].what = "connect"
  BY <1>2 DEF Begun
<1>4. PICK X, Y : X = RequestLines(ev) /\ Y = RequestLines(ev2)
  OBVIOUS
<1>5. X \subseteq DOMAIN ev
  BY <1>4 DEF RequestLines
<1>6. IF e.what = "request" THEN Y = X \cup {Len(ev) + 1} ELSE Y = X
  BY <1>2, <1>4 DEF RequestLines
<1>7. /\ Cardinality(X) \in Nat /\ Cardinality(Y) \in Nat
      /\ Cardinality(Y) = IF e.what = "request" THEN Cardinality(X) + 1 ELSE Cardinality(X)
  BY <1>5, <1>6, MarkedPlaces
<1>8. Weighty(asked) \subseteq DOMAIN asked
  BY DEF Weighty
<1>9. \A r \in Request : /\ Cardinality(Weighty(asked)) \in Nat /\ Cardinality(Weighty(Append(asked, r))) \in Nat
                         /\ Cardinality(Weighty(Append(asked, r))) <= Cardinality(Weighty(asked)) + 1
  <2> SUFFICES ASSUME NEW r \in Request
               PROVE  /\ Cardinality(Weighty(asked)) \in Nat /\ Cardinality(Weighty(Append(asked, r))) \in Nat
                      /\ Cardinality(Weighty(Append(asked, r))) <= Cardinality(Weighty(asked)) + 1
    OBVIOUS
  <2>1. PICK as, U, V : as = Append(asked, r) /\ U = Weighty(asked) /\ V = Weighty(as)
    OBVIOUS
  <2>2. /\ DOMAIN as = 1..(Len(asked) + 1) /\ DOMAIN asked = 1..Len(asked) /\ Len(asked) \in Nat
        /\ as[Len(asked) + 1] = r /\ \A i \in DOMAIN asked : as[i] = asked[i]
    BY <2>1
  <2>3. U \subseteq DOMAIN asked /\ (V = U \/ V = U \cup {Len(asked) + 1})
    BY <2>1, <2>2 DEF Weighty
  <2>4. Cardinality(U) \in Nat /\ Cardinality(V) \in Nat /\ (V = U \/ Cardinality(V) = Cardinality(U) + 1)
    BY <2>3, MarkedPlaces
  <2>5. Cardinality(V) <= Cardinality(U) + 1
    BY <2>4
  <2> QED
    BY <2>1, <2>4, <2>5, Zenon
<1>10. Cardinality(Weighty(asked)) \in Nat
  <2>1. IsFiniteSet(1..Len(asked)) /\ DOMAIN asked = 1..Len(asked)
    BY FS_Interval
  <2> QED
    BY <2>1, <1>8, FS_Subset, FS_CardinalityType
<1>11. Cardinality(X) >= Cardinality(Weighty(asked))
  BY <1>4 DEF Begun
<1>12. Cardinality(Y) >= Cardinality(Weighty(asked))
  BY <1>7, <1>10, <1>11
<1>13. Begun(ev2, asked)
  BY <1>2, <1>3, <1>4, <1>12 DEF Begun
<1>14. ASSUME NEW r \in Request, e.what = "request" PROVE Begun(ev2, Append(asked, r))
  <2>1. PICK n : n = Cardinality(Weighty(Append(asked, r)))
    OBVIOUS
  <2>2. n \in Nat /\ n <= Cardinality(Weighty(asked)) + 1
    BY <1>9, <2>1, Zenon
  <2>3. Cardinality(Y) >= n
    BY <1>7, <1>10, <1>11, <1>14, <2>2
  <2> QED
    BY <1>2, <1>3, <1>4, <2>1, <2>3, Zenon DEF Begun
<1>15. Last(ev2) = e
  BY <1>2 DEF Last
<1> QED
  <2>1. \A r \in Request : e.what = "request" => Begun(ev2, Append(asked, r))
    BY <1>14, Zenon
  <2>2. ev2 \in Seq(DecoyLine)
    BY <1>2
  <2> QED
    BY <1>1, <1>13, <1>15, <2>1, <2>2, Zenon

\* An empty request adds nothing that a line is owed for.
LEMMA EmptyAsked ==
    ASSUME NEW ev, NEW asked \in Seq(Request), NEW r \in Request, r.len = 0, Begun(ev, asked)
    PROVE  Begun(ev, Append(asked, r))
<1>1. PICK as : as = Append(asked, r)
  OBVIOUS
<1>2. /\ DOMAIN as = 1..(Len(asked) + 1) /\ DOMAIN asked = 1..Len(asked) /\ Len(asked) \in Nat
      /\ as[Len(asked) + 1] = r /\ \A i \in DOMAIN asked : as[i] = asked[i]
  BY <1>1
<1>3. Weighty(as) = Weighty(asked)
  <2>1. ~(r.len > 0) /\ Len(asked) + 1 \notin DOMAIN asked
    BY <1>2
  <2>2. ASSUME NEW i PROVE i \in Weighty(as) <=> i \in Weighty(asked)
    <3>1. CASE i \in DOMAIN asked
      <4>1. as[i] = asked[i] /\ i \in DOMAIN as
        <5>1. as[i] = asked[i] /\ i \in 1..Len(asked)
          BY <1>2, <3>1, Zenon
        <5>2. i \in 1..(Len(asked) + 1)
          BY <5>1, <1>2
        <5> QED
          BY <5>1, <5>2, <1>2, Zenon
      <4> QED
        BY <3>1, <4>1, Zenon DEF Weighty
    <3>2. CASE i = Len(asked) + 1
      <4>1. as[i] = r
        BY <1>2, <3>2
      <4> QED
        BY <2>1, <3>2, <4>1, Zenon DEF Weighty
    <3>3. CASE i \notin DOMAIN asked /\ i # Len(asked) + 1
      <4>1. i \notin DOMAIN as
        BY <1>2, <3>3
      <4> QED
        BY <3>3, <4>1 DEF Weighty
    <3> QED
      BY <3>1, <3>2, <3>3
  <2> QED
    BY <2>2
<1> QED
  BY <1>1, <1>3, Zenon DEF Begun

\* What a step writes: nothing while the disk is full.
LEMMA LogGrows ==
    ASSUME DecoyInv, NEW c \in Link, NEW new, IocLog(c, new)
    PROVE  events' = [events EXCEPT ![c] = IF diskFull THEN events[c] ELSE events[c] \o new]
<1>1. events \in [Link -> Seq(DecoyLine)]
  BY DEF DecoyInv
<1>2. CASE diskFull
  BY <1>1, <1>2 DEF IocLog
<1>3. CASE ~diskFull
  BY <1>3 DEF IocLog
<1> QED
  BY <1>2, <1>3

\* A step of one connection keeps the invariant when it leaves that one sound
\* and, while the host is down, not busy.
LEMMA OneLinkMoves ==
    ASSUME DecoyInv, NEW c \in Link, NEW l, NEW ev,
           link' = [link EXCEPT ![c] = l], events' = [events EXCEPT ![c] = ev],
           host' = host, bound' = bound, diskFull' = diskFull,
           LinkSound(l, ev, diskFull),
           l.phase \in {"handshake", "open"} => host = "up"
    PROVE  DecoyInv'
<1>1. link \in [Link -> DecoyLink] /\ events \in [Link -> Seq(DecoyLine)] /\ l \in DecoyLink /\ ev \in Seq(DecoyLine)
  BY DEF DecoyInv, LinkSound
<1>2. link' \in [Link -> DecoyLink] /\ events' \in [Link -> Seq(DecoyLine)]
  BY <1>1
<1>3. \A d \in Link : IF d = c THEN link'[d] = l /\ events'[d] = ev
                      ELSE link'[d] = link[d] /\ events'[d] = events[d]
  BY <1>1
<1>4. ASSUME NEW d \in Link PROVE LinkSound(link'[d], events'[d], diskFull')
  BY <1>3, Zenon DEF DecoyInv
<1>5. DownIsEmpty'
  BY <1>3 DEF DecoyInv, DownIsEmpty, Busy
<1> QED
  BY <1>2, <1>4, <1>5 DEF DecoyInv

LEMMA LineIsLine == \A w \in DecoyWord : Line(w) \in DecoyLine /\ Line(w).what = w
<1>1. \A w \in DecoyWord : Line(w) \in DecoyLine
  BY Zenon DEF DecoyLine
<1>2. \A w : Line(w).what = w
  BY DEF Line
<1> QED
  BY <1>1, <1>2, Zenon

LEMMA AppendIsConcat ==
    ASSUME NEW S, NEW s \in Seq(S), NEW e \in S PROVE s \o <<e>> = Append(s, e) /\ s \o <<>> = s
OBVIOUS

\* A peer connects to a service that listens.
LEMMA ConnectSound ==
    ASSUME DecoyInv, NEW c \in Link, NEW s \in bound, Connect(c, s) PROVE DecoyInv'
<1>1. /\ link[c] = Down /\ s \in Handlers /\ s # "none" /\ host = "up"
      /\ host' = host /\ bound' = bound /\ diskFull' = diskFull
  BY DEF Connect, DecoyInv, DownIsEmpty, Handlers, OT
<1>2. PICK ph : ph = CASE s = "s7" -> "handshake" [] s = "mysql" /\ diskFull -> "closed" [] OTHER -> "open"
  OBVIOUS
<1>3. ph \in {"handshake", "open", "closed"} /\ (s \in OT => ph # "closed")
  BY <1>2 DEF OT
<1>4. PICK l : l = Peer(s, ph)
  OBVIOUS
<1>5. link' = [link EXCEPT ![c] = l]
  BY <1>2, <1>4, Zenon DEF Connect
<1>6. l \in DecoyLink /\ Answered(l) /\ l.service = s /\ l.phase = ph /\ l.asked = <<>>
  BY <1>1, <1>3, <1>4 DEF DecoyLink, Answered, Peer
<1>7. events[c] = <<>>
  BY <1>1 DEF DecoyInv, LinkSound, Down, Peer
<1>8. PICK e : e = Line("connect")
  OBVIOUS
<1>9. e \in DecoyLine /\ e.what = "connect"
  <2>1. "connect" \in DecoyWord
    BY DEF DecoyWord
  <2> QED
    BY <1>8, <2>1, LineIsLine, Zenon
<1>10. PICK ev \in {<<>>, <<e>>} : /\ events' = [events EXCEPT ![c] = ev]
                                   /\ ~diskFull /\ s \in OT => ev = <<e>>
  <2>1. events \in [Link -> Seq(DecoyLine)]
    BY DEF DecoyInv
  <2>2. CASE s = "http"
    <3>1. events' = events
      BY <2>2 DEF Connect
    <3>2. events' = [events EXCEPT ![c] = <<>>]
      BY <2>1, <3>1, <1>7
    <3> QED
      BY <2>2, <3>2 DEF OT
  <2>3. CASE s # "http"
    <3>1. IocLog(c, <<e>>)
      BY <2>3, <1>8, Zenon DEF Connect
    <3>2. events' = [events EXCEPT ![c] = IF diskFull THEN events[c] ELSE events[c] \o <<e>>]
      BY <3>1, LogGrows
    <3>3. PICK ev : ev = IF diskFull THEN events[c] ELSE events[c] \o <<e>>
      OBVIOUS
    <3>4. ev = IF diskFull THEN <<>> ELSE <<e>>
      BY <3>3, <1>7, <1>9
    <3>5. events' = [events EXCEPT ![c] = ev]
      BY <3>2, <3>3, Zenon
    <3> QED
      BY <3>4, <3>5
  <2> QED
    BY <2>2, <2>3
<1>11. ev \in Seq(DecoyLine)
  <2>1. <<e>> \in Seq(DecoyLine) /\ <<>> \in Seq(DecoyLine)
    BY <1>9
  <2> QED
    BY <2>1, <1>10, Zenon
<1>12. ev = <<e>> => Begun(ev, <<>>)
  <2> SUFFICES ASSUME ev = <<e>> PROVE Begun(ev, <<>>)
    OBVIOUS
  <2>1. Weighty(<<>>) = {}
    BY DEF Weighty
  <2>2. RequestLines(ev) = {}
    BY <1>9 DEF RequestLines
  <2>3. ev # <<>> /\ ev[1].what = "connect"
    BY <1>9
  <2>4. Cardinality(RequestLines(ev)) = 0 /\ Cardinality(Weighty(<<>>)) = 0
    BY <2>1, <2>2, FS_EmptySet
  <2>5. Cardinality(RequestLines(ev)) >= Cardinality(Weighty(<<>>))
    BY <2>4
  <2> QED
    BY <2>3, <2>5 DEF Begun
<1>13. LinkSound(l, ev, diskFull)
  BY <1>1, <1>3, <1>6, <1>10, <1>11, <1>12 DEF LinkSound
<1> QED
  BY <1>1, <1>5, <1>10, <1>13, OneLinkMoves

\* A connection goes on, or is closed with its disconnect line, having asked
\* nothing new; new is what the step logs.
LEMMA LinkGoesOn ==
    ASSUME DecoyInv, NEW c \in Link, Busy(c), NEW ph \in {"open", "closed"},
           link' = [link EXCEPT ![c].phase = ph], NEW new, IocLog(c, new),
           \/ new = <<>>
           \/ \E e \in DecoyLine : new = <<e>>
           \/ \E e, f \in DecoyLine : new = <<e, f>>,
           link[c].service \in OT /\ ph = "closed" =>
               new # <<>> /\ new[Len(new)].what = "disconnect",
           host' = host, bound' = bound, diskFull' = diskFull
    PROVE  DecoyInv'
<1>1. PICK l : l = [link[c] EXCEPT !.phase = ph]
  OBVIOUS
<1>2. LinkSound(link[c], events[c], diskFull) /\ host = "up"
  BY DEF DecoyInv, DownIsEmpty
<1>3. link[c].service # "none"
  BY <1>2 DEF LinkSound, Busy
<1>4. link' = [link EXCEPT ![c] = l]
  BY <1>1 DEF DecoyInv
<1>5. /\ l \in DecoyLink /\ l.service = link[c].service /\ l.asked = link[c].asked /\ l.got = link[c].got
      /\ l.phase = ph
  BY <1>1, <1>2 DEF LinkSound, DecoyLink
<1>6. Answered(l)
  BY <1>2, <1>5 DEF LinkSound, Answered
<1>7. PICK ev, asked : ev = events[c] /\ asked = link[c].asked
  OBVIOUS
<1>8. ev \in Seq(DecoyLine) /\ asked \in Seq(Request) /\ (~diskFull /\ link[c].service \in OT => Begun(ev, asked))
  BY <1>2, <1>7 DEF LinkSound, DecoyLink
<1>9. PICK ev2 : ev2 = IF diskFull THEN ev ELSE ev \o new
  OBVIOUS
<1>10. events' = [events EXCEPT ![c] = ev2]
  BY <1>7, <1>9, LogGrows, Zenon
<1>11. /\ ev2 \in Seq(DecoyLine)
       /\ ~diskFull /\ link[c].service \in OT =>
            Begun(ev2, asked) /\ (ph = "closed" => Last(ev2).what = "disconnect")
  <2>1. CASE diskFull
    BY <1>8, <1>9, <2>1
  <2>2. CASE ~diskFull /\ new = <<>>
    BY <1>8, <1>9, <2>2, AppendIsConcat
  <2>3. ASSUME ~diskFull, NEW e \in DecoyLine, new = <<e>>
        PROVE  /\ ev2 \in Seq(DecoyLine)
               /\ link[c].service \in OT =>
                    Begun(ev2, asked) /\ (ph = "closed" => Last(ev2).what = "disconnect")
    <3>1. ev2 = Append(ev, e)
      BY <1>8, <1>9, <2>3
    <3>2. link[c].service \in OT /\ ph = "closed" => e.what = "disconnect"
      BY <2>3
    <3>3. Append(ev, e) \in Seq(DecoyLine)
      BY <1>8
    <3>4. ASSUME link[c].service \in OT
          PROVE  Begun(Append(ev, e), asked) /\ Last(Append(ev, e)) = e
      BY <1>8, <2>3, <3>4, LineAdded, Zenon
    <3> QED
      BY <3>1, <3>2, <3>3, <3>4, Zenon
  <2>4. ASSUME ~diskFull, NEW e \in DecoyLine, NEW f \in DecoyLine, new = <<e, f>>
        PROVE  /\ ev2 \in Seq(DecoyLine)
               /\ link[c].service \in OT =>
                    Begun(ev2, asked) /\ (ph = "closed" => Last(ev2).what = "disconnect")
    <3>1. PICK ev1 : ev1 = Append(ev, e)
      OBVIOUS
    <3>2. ev2 = Append(ev1, f)
      BY <1>8, <1>9, <2>4, <3>1
    <3>3. link[c].service \in OT /\ ph = "closed" => f.what = "disconnect"
      BY <2>4
    <3>4. ev1 \in Seq(DecoyLine)
      BY <1>8, <3>1
    <3>5. Append(ev1, f) \in Seq(DecoyLine)
      BY <3>4
    <3>6. ASSUME link[c].service \in OT
          PROVE  Begun(Append(ev1, f), asked) /\ Last(Append(ev1, f)) = f
      <4>1. Begun(ev1, asked)
        BY <1>8, <2>4, <3>1, <3>6, LineAdded, Zenon
      <4> QED
        BY <1>8, <3>4, <4>1, LineAdded, Zenon
    <3> QED
      BY <3>2, <3>3, <3>5, <3>6, Zenon
  <2> QED
    BY <2>1, <2>2, <2>3, <2>4, Zenon
<1>12. LinkSound(l, ev2, diskFull)
  BY <1>3, <1>5, <1>6, <1>7, <1>11 DEF LinkSound
<1> QED
  BY <1>2, <1>4, <1>10, <1>12, OneLinkMoves, Zenon

LEMMA PairOfLines ==
    ASSUME NEW e \in DecoyLine, NEW f \in DecoyLine
    PROVE  Append(<<e>>, f) = <<e, f>> /\ <<e>> \o <<f>> = <<e, f>> /\ <<>> \o <<f>> = <<f>>
<1>1. PICK s, t : s = Append(<<e>>, f) /\ t = <<e, f>>
  OBVIOUS
<1>2. s \in Seq(DecoyLine) /\ t \in Seq(DecoyLine)
  BY <1>1
<1>3. Len(s) = 2 /\ Len(t) = 2 /\ s[1] = e /\ s[2] = f /\ t[1] = e /\ t[2] = f
  BY <1>1
<1>4. s = t
  <2>1. \A i \in 1..Len(s) : s[i] = t[i]
    BY <1>3
  <2> QED
    BY <1>2, <1>3, <2>1
<1>5. <<e>> \o <<f>> = Append(<<e>>, f)
  OBVIOUS
<1>6. <<>> \o <<f>> = <<f>>
  OBVIOUS
<1> QED
  BY <1>1, <1>4, <1>5, <1>6, Zenon

\* The S7 handshake, and the turns of the MySQL and HTTP stubs.
LEMMA HandshakeSound ==
    ASSUME DecoyInv, NEW c \in Link, NEW cr \in BOOLEAN, Handshake(c, cr) PROVE DecoyInv'
<1>1. PICK e : e = Line("cotp")
  OBVIOUS
<1>2. e \in DecoyLine
  BY <1>1, LineIsLine DEF DecoyWord
<1>3. /\ Busy(c) /\ link' = [link EXCEPT ![c].phase = "open"]
      /\ host' = host /\ bound' = bound /\ diskFull' = diskFull
  BY DEF Handshake, Busy
<1>4. PICK new : (new = <<>> \/ new = <<e>>) /\ IocLog(c, new)
  <2>1. CASE cr
    BY <2>1, <1>1, Zenon DEF Handshake
  <2>2. CASE ~cr
    <3>1. events \in [Link -> Seq(DecoyLine)] /\ events' = events
      BY <2>2 DEF Handshake, DecoyInv
    <3>2. events[c] \o <<>> = events[c]
      BY <3>1
    <3>3. [events EXCEPT ![c] = events[c]] = events
      BY <3>1
    <3>4. IocLog(c, <<>>)
      BY <3>1, <3>2, <3>3, Zenon DEF IocLog
    <3> QED
      BY <3>4, Zenon
  <2> QED
    BY <2>1, <2>2
<1>5. PICK ph : ph = "open"
  OBVIOUS
<1> QED
  BY <1>2, <1>3, <1>4, LinkGoesOn

LEMMA StubSound ==
    ASSUME DecoyInv, NEW c \in Link, NEW sent \in BOOLEAN, MysqlTurn(c, sent) \/ HttpTurn(c, sent)
    PROVE  DecoyInv'
<1>1. PICK e, f, g : e = Line("auth_attempt") /\ f = Line("disconnect") /\ g = Line("request")
  OBVIOUS
<1>2. e \in DecoyLine /\ f \in DecoyLine /\ g \in DecoyLine
  BY <1>1, LineIsLine DEF DecoyWord
<1>3. /\ Busy(c) /\ link' = [link EXCEPT ![c].phase = "closed"] /\ link[c].service \notin OT
      /\ host' = host /\ bound' = bound /\ diskFull' = diskFull
  BY DEF MysqlTurn, HttpTurn, Busy, OT
<1>4. PICK new : /\ new = <<>> \/ new = <<g>> \/ new = <<e, f>> \/ new = <<f>>
                 /\ IocLog(c, new)
  <2>1. CASE MysqlTurn(c, sent)
    <3>1. IocLog(c, (IF sent THEN <<e>> ELSE <<>>) \o <<f>>)
      BY <2>1, <1>1, Zenon DEF MysqlTurn
    <3>2. <<e>> \o <<f>> = <<e, f>> /\ <<>> \o <<f>> = <<f>>
      BY <1>2, PairOfLines, Zenon
    <3> QED
      BY <3>1, <3>2, Zenon
  <2>2. CASE HttpTurn(c, sent) /\ sent
    BY <2>2, <1>1, Zenon DEF HttpTurn
  <2>3. CASE HttpTurn(c, sent) /\ ~sent
    <3>1. events \in [Link -> Seq(DecoyLine)] /\ events' = events
      BY <2>3 DEF HttpTurn, DecoyInv
    <3>2. events[c] \o <<>> = events[c]
      BY <3>1
    <3>3. [events EXCEPT ![c] = events[c]] = events
      BY <3>1
    <3>4. IocLog(c, <<>>)
      BY <3>1, <3>2, <3>3, Zenon DEF IocLog
    <3> QED
      BY <3>4, Zenon
  <2> QED
    BY <2>1, <2>2, <2>3
<1> QED
  <2>1. \/ new = <<>>
        \/ \E x \in DecoyLine : new = <<x>>
        \/ \E x, y \in DecoyLine : new = <<x, y>>
    BY <1>2, <1>4, Zenon
  <2> QED
    BY <1>3, <1>4, <2>1, LinkGoesOn

\* The peer is gone: the finally clause closes and logs.
LEMMA FinishSound ==
    ASSUME DecoyInv, NEW c \in Link, Busy(c), link[c].service \in OT, NEW new, Finish(c, new),
           new = <<>> \/ \E e \in DecoyLine : new = <<e>>,
           host' = host, bound' = bound, diskFull' = diskFull
    PROVE  DecoyInv'
<1>1. PICK f : f = Line("disconnect")
  OBVIOUS
<1>2. f \in DecoyLine /\ f.what = "disconnect"
  BY <1>1, LineIsLine DEF DecoyWord
<1>3. PICK all : all = Append(new, f)
  OBVIOUS
<1>4. link' = [link EXCEPT ![c].phase = "closed"] /\ IocLog(c, all)
  BY <1>1, <1>3, Zenon DEF Finish
<1>5. CASE new = <<>>
  <2>1. all = <<f>>
    BY <1>3, <1>5
  <2>2. all # <<>> /\ all[Len(all)].what = "disconnect"
    BY <2>1, <1>2
  <2> QED
    BY <1>2, <1>4, <2>1, <2>2, LinkGoesOn
<1>6. ASSUME NEW e \in DecoyLine, new = <<e>> PROVE DecoyInv'
  <2>1. all = <<e, f>>
    BY <1>2, <1>3, <1>6, PairOfLines, Zenon
  <2>2. all # <<>> /\ all[Len(all)].what = "disconnect"
    BY <2>1, <1>2
  <2> QED
    BY <1>2, <1>4, <2>1, <2>2, LinkGoesOn
<1> QED
  BY <1>5, <1>6

\* One turn of an industrial speaker's loop.
LEMMA ServeSound ==
    ASSUME DecoyInv, NEW c \in Link, NEW r \in Request, Serve(c, r) PROVE DecoyInv'
<1>1. PICK p, a, e : p = link[c].service /\ a = Answer(p, r) /\ e = Line("request")
  OBVIOUS
<1>2. PICK line : line = IF ~(p = "modbus" /\ r.len = 0) /\ a.kind # "malformed" THEN <<e>> ELSE <<>>
  OBVIOUS
<1>3. /\ Busy(c) /\ p \in OT /\ link[c].phase = "open"
      /\ host' = host /\ bound' = bound /\ diskFull' = diskFull
  BY <1>1 DEF Serve, Busy
<1>4. IF a.kind \in {"error", "malformed"} THEN Finish(c, line)
      ELSE /\ link' = [link EXCEPT ![c].asked = Append(@, r), ![c].got = Append(@, a)]
           /\ IocLog(c, line)
  BY <1>1, <1>2, Zenon DEF Serve
<1>5. e \in DecoyLine /\ e.what = "request"
  BY <1>1, LineIsLine DEF DecoyWord
<1>6. CASE a.kind \in {"error", "malformed"}
  <2>1. Finish(c, line)
    BY <1>4, <1>6
  <2>2. line = <<>> \/ \E x \in DecoyLine : line = <<x>>
    BY <1>2, <1>5, Zenon
  <2> QED
    BY <1>1, <1>3, <2>1, <2>2, FinishSound, Zenon
<1>7. CASE a.kind \notin {"error", "malformed"}
  <2>1. /\ link' = [link EXCEPT ![c].asked = Append(@, r), ![c].got = Append(@, a)]
        /\ IocLog(c, line)
    BY <1>4, <1>7
  <2>2. LinkSound(link[c], events[c], diskFull) /\ host = "up" /\ link \in [Link -> DecoyLink]
    BY <1>3 DEF DecoyInv, DownIsEmpty
  <2>3. PICK asked, gave, ev : asked = link[c].asked /\ gave = link[c].got /\ ev = events[c]
    OBVIOUS
  <2>4. /\ asked \in Seq(Request) /\ gave \in Seq(DecoyAnswer) /\ ev \in Seq(DecoyLine)
        /\ Len(gave) = Len(asked)
        /\ \A i \in DOMAIN asked : gave[i] = Answer(p, asked[i]) /\ gave[i].kind # "error"
        /\ ~diskFull => Begun(ev, asked)
    BY <1>1, <1>3, <2>2, <2>3 DEF LinkSound, DecoyLink, Answered
  <2>5. a \in DecoyAnswer
    BY <1>1, <1>3 DEF DecoyAnswer
  <2>6. PICK as, gs : as = Append(asked, r) /\ gs = Append(gave, a)
    OBVIOUS
  <2>7. as \in Seq(Request) /\ gs \in Seq(DecoyAnswer) /\ Len(gs) = Len(as)
    BY <2>4, <2>5, <2>6
  <2>8. \A i \in DOMAIN as : gs[i] = Answer(p, as[i]) /\ gs[i].kind # "error"
    <3>1. /\ DOMAIN as = 1..(Len(asked) + 1) /\ DOMAIN asked = 1..Len(asked) /\ Len(asked) \in Nat
          /\ as[Len(asked) + 1] = r /\ gs[Len(asked) + 1] = a
          /\ \A i \in DOMAIN asked : as[i] = asked[i] /\ gs[i] = gave[i]
      BY <2>4, <2>5, <2>6
    <3>2. ASSUME NEW i \in DOMAIN as PROVE gs[i] = Answer(p, as[i]) /\ gs[i].kind # "error"
      <4>1. i \in DOMAIN asked \/ i = Len(asked) + 1
        BY <3>1
      <4>2. CASE i \in DOMAIN asked
        BY <4>2, <3>1, <2>4, Zenon
      <4>3. CASE i = Len(asked) + 1
        <5>1. as[i] = r /\ gs[i] = a /\ a.kind # "error"
          BY <4>3, <3>1, <1>7
        <5> QED
          BY <5>1, <1>1, Zenon
      <4> QED
        BY <4>1, <4>2, <4>3
    <3> QED
      BY <3>2
  <2>9. PICK l : l = [link[c] EXCEPT !.asked = as, !.got = gs]
    OBVIOUS
  <2>10. link' = [link EXCEPT ![c] = l]
    BY <2>1, <2>2, <2>3, <2>6, <2>9
  <2>11. /\ l \in DecoyLink /\ l.service = p /\ l.phase = "open" /\ l.asked = as /\ l.got = gs
    BY <1>1, <1>3, <2>2, <2>7, <2>9 DEF DecoyLink
  <2>12. Answered(l)
    BY <2>7, <2>8, <2>11, Zenon DEF Answered
  <2>13. PICK ev2 : ev2 = IF diskFull THEN ev ELSE ev \o line
    OBVIOUS
  <2>14. events' = [events EXCEPT ![c] = ev2]
    BY <2>1, <2>3, <2>13, LogGrows, Zenon
  <2>15. ev2 \in Seq(DecoyLine) /\ (~diskFull => Begun(ev2, as))
    <3>1. CASE diskFull
      BY <3>1, <2>4, <2>13
    <3>2. CASE ~diskFull /\ line = <<>>
      <4>1. ev2 = ev
        BY <3>2, <2>4, <2>13
      <4>2. <<e>> # <<>>
        OBVIOUS
      <4>3. p = "modbus" /\ r.len = 0
        BY <3>2, <4>2, <1>2, <1>7
      <4>4. Begun(ev, as)
        BY <3>2, <4>3, <2>4, <2>6, EmptyAsked, Zenon
      <4> QED
        BY <4>1, <4>4, <2>4, Zenon
    <3>3. CASE ~diskFull /\ line = <<e>>
      <4>1. ev2 = Append(ev, e)
        BY <3>3, <1>5, <2>4, <2>13
      <4> QED
        BY <3>3, <4>1, <1>5, <2>4, <2>6, LineAdded, Zenon
    <3> QED
      BY <3>1, <3>2, <3>3, <1>2, Zenon
  <2>16. LinkSound(l, ev2, diskFull)
    BY <2>11, <2>12, <2>15, <1>3 DEF LinkSound, OT
  <2> QED
    BY <1>3, <2>2, <2>10, <2>14, <2>16, OneLinkMoves, Zenon
<1> QED
  BY <1>6, <1>7

\* A port that is taken: every connection is closed, each with its line.
LEMMA ListenFailsSound ==
    ASSUME DecoyInv, NEW s, ListenFails(s) PROVE DecoyInv'
<1>1. /\ host' = "down" /\ bound' = {} /\ diskFull' = diskFull
      /\ link' = [c \in Link |-> IF Busy(c) THEN [link[c] EXCEPT !.phase = "closed"] ELSE link[c]]
      /\ events' = [c \in Link |-> IF Busy(c) /\ link[c].service # "http" /\ ~diskFull
                                   THEN Append(events[c], Line("disconnect")) ELSE events[c]]
  BY DEF ListenFails
<1>2. PICK f : f = Line("disconnect")
  OBVIOUS
<1>3. f \in DecoyLine /\ f.what = "disconnect"
  BY <1>2, LineIsLine DEF DecoyWord
<1>4. ASSUME NEW c \in Link
      PROVE  LinkSound(link'[c], events'[c], diskFull') /\ link'[c].phase \notin {"handshake", "open"}
  <2>1. LinkSound(link[c], events[c], diskFull) /\ link[c] \in DecoyLink
    BY DEF DecoyInv, LinkSound
  <2>2. CASE ~Busy(c)
    <3>1. link'[c] = link[c] /\ events'[c] = events[c]
      BY <1>1, <2>2
    <3> QED
      BY <1>1, <2>1, <2>2, <3>1 DEF Busy
  <2>3. CASE Busy(c)
    <3>1. PICK l, m : l = link[c] /\ m = [l EXCEPT !.phase = "closed"]
      OBVIOUS
    <3>2. link'[c] = m
      BY <1>1, <2>3, <3>1
    <3>3. /\ m \in DecoyLink /\ m.phase = "closed" /\ m.service = l.service /\ m.asked = l.asked
          /\ m.got = l.got /\ l.service # "none"
      BY <2>1, <2>3, <3>1 DEF DecoyLink, LinkSound, Busy
    <3>4. Answered(m)
      BY <2>1, <3>1, <3>3 DEF LinkSound, Answered
    <3>5. PICK ev : ev = events[c]
      OBVIOUS
    <3>6. PICK ev2 : ev2 = IF l.service # "http" /\ ~diskFull THEN Append(ev, f) ELSE ev
      OBVIOUS
    <3>7. events'[c] = ev2
      BY <1>1, <1>2, <2>3, <3>1, <3>5, <3>6, Zenon
    <3>8. ev \in Seq(DecoyLine) /\ l.asked \in Seq(Request) /\ (~diskFull /\ l.service \in OT => Begun(ev, l.asked))
      BY <2>1, <3>1, <3>5 DEF LinkSound, DecoyLink
    <3>9. ev2 \in Seq(DecoyLine)
      BY <1>3, <3>6, <3>8
    <3>10. ASSUME ~diskFull, l.service \in OT PROVE Begun(ev2, l.asked) /\ Last(ev2) = f
      <4>1. ev2 = Append(ev, f)
        BY <3>6, <3>10 DEF OT
      <4> QED
        BY <1>3, <3>8, <3>10, <4>1, LineAdded, Zenon
    <3>11. LinkSound(m, ev2, diskFull)
      BY <1>3, <3>3, <3>4, <3>9, <3>10 DEF LinkSound
    <3> QED
      BY <1>1, <3>2, <3>3, <3>7, <3>11
  <2> QED
    BY <2>2, <2>3
<1>5. /\ DOMAIN link' = Link /\ link' = [c \in Link |-> link'[c]]
      /\ DOMAIN events' = Link /\ events' = [c \in Link |-> events'[c]]
  BY <1>1, Zenon
<1>6. link' \in [Link -> DecoyLink] /\ events' \in [Link -> Seq(DecoyLine)]
  <2>1. \A c \in Link : link'[c] \in DecoyLink /\ events'[c] \in Seq(DecoyLine)
    BY <1>4, Zenon DEF LinkSound
  <2> QED
    BY <1>5, <2>1, Zenon
<1>7. DownIsEmpty'
  BY <1>1, <1>4 DEF DownIsEmpty, Busy
<1> QED
  BY <1>1, <1>4, <1>6, <1>7 DEF DecoyInv

LEMMA DecoysStart == DecoyInit => DecoyInv
<1> SUFFICES ASSUME DecoyInit PROVE DecoyInv
  OBVIOUS
<1>1. Down \in DecoyLink /\ Down.service = "none" /\ Down.phase = "free" /\ Answered(Down)
  BY DEF Down, Peer, DecoyLink, Answered
<1>2. LinkSound(Down, <<>>, diskFull)
  BY <1>1 DEF LinkSound, OT
<1>3. \A c \in Link : link[c] = Down /\ events[c] = <<>>
  BY DEF DecoyInit
<1>4. link \in [Link -> DecoyLink] /\ events \in [Link -> Seq(DecoyLine)]
  BY <1>1 DEF DecoyInit
<1> QED
  BY <1>2, <1>3, <1>4 DEF DecoyInit, DecoyInv, DownIsEmpty

LEMMA DecoysKept == DecoyInv /\ [DecoyNext]_decoyVars => DecoyInv'
<1> SUFFICES ASSUME DecoyInv, [DecoyNext]_decoyVars PROVE DecoyInv'
  OBVIOUS
<1>1. ASSUME NEW s \in Service, Listen(s) PROVE DecoyInv'
  BY <1>1 DEF Listen, DecoyInv, DownIsEmpty, Busy
<1>2. ASSUME NEW s \in Service, ListenFails(s) PROVE DecoyInv'
  BY <1>2, ListenFailsSound
<1>3. CASE DiskFills
  <2>1. /\ diskFull' = TRUE /\ link' = link /\ events' = events /\ host' = host /\ bound' = bound
    BY <1>3 DEF DiskFills
  <2>2. \A c \in Link : LinkSound(link[c], events[c], TRUE)
    BY DEF DecoyInv, LinkSound
  <2> QED
    BY <2>1, <2>2 DEF DecoyInv, DownIsEmpty, Busy
<1>4. ASSUME NEW c \in Link, NEW s \in bound, Connect(c, s) PROVE DecoyInv'
  BY <1>4, ConnectSound
<1>5. ASSUME NEW c \in Link, NEW b \in BOOLEAN, Handshake(c, b) \/ MysqlTurn(c, b) \/ HttpTurn(c, b) PROVE DecoyInv'
  BY <1>5, HandshakeSound, StubSound
<1>6. ASSUME NEW c \in Link, NEW r \in Request, Serve(c, r) PROVE DecoyInv'
  BY <1>6, ServeSound
<1>7. ASSUME NEW c \in Link, Hangup(c) PROVE DecoyInv'
  <2>1. PICK new : new = <<>>
    OBVIOUS
  <2>2. Busy(c) /\ link[c].service \in OT /\ Finish(c, new) /\ host' = host /\ bound' = bound /\ diskFull' = diskFull
    BY <1>7, <2>1 DEF Hangup
  <2> QED
    BY <2>1, <2>2, FinishSound
<1>8. CASE UNCHANGED decoyVars
  BY <1>8 DEF decoyVars, DecoyInv, DownIsEmpty, Busy
<1> QED
  BY <1>1, <1>2, <1>3, <1>4, <1>5, <1>6, <1>7, <1>8 DEF DecoyNext

\* A read within the limits of Modbus fits the one byte of its byte count.
LEMMA LegalReadFits ==
    ASSUME NEW r \in Request, LegalModbus(r)
    PROVE  ModbusReply(r).kind = "data" /\ 8 * ModbusReply(r).size \in WantBits(r)..(WantBits(r) + 7)
<1>1. r.fn \in Nat /\ r.len \in Nat /\ r.count \in Nat /\ r.len >= 5
  BY RequestAssumption DEF LegalModbus
<1>2. CASE r.fn \in {1, 2} /\ r.count \in 1..2000
  <2>1. ModbusReply(r) = Fits(CoilBytes(r.count), Byte, "data")
    BY <1>1, <1>2 DEF ModbusReply
  <2>2. CoilBytes(r.count) \in Nat /\ CoilBytes(r.count) <= 250
        /\ 8 * CoilBytes(r.count) \in r.count..(r.count + 7)
    <3>1. PICK n \in Nat : n = r.count
      BY <1>1
    <3>2. PICK q : q = (n + 7) \div 8
      OBVIOUS
    <3>3. q \in Nat /\ 8 * q <= n + 7 /\ n + 7 < 8 * q + 8
      BY <3>2
    <3>4. CoilBytes(n) = q
      BY <3>2 DEF CoilBytes
    <3>5. n \in Int /\ n <= 2000
      BY <1>2, <3>1
    <3>6. q <= 250 /\ 8 * q \in n..(n + 7)
      BY <3>3, <3>5
    <3> QED
      BY <3>1, <3>3, <3>4, <3>6, Zenon
  <2>3. ModbusReply(r) = Reply("data", CoilBytes(r.count))
    BY <2>1, <2>2 DEF Fits, Byte
  <2> QED
    BY <1>2, <2>2, <2>3 DEF Reply, WantBits
<1>3. CASE r.fn \in {3, 4} /\ r.count \in 1..125
  <2>1. ModbusReply(r) = Fits(2 * r.count, Byte, "data")
    BY <1>1, <1>3 DEF ModbusReply
  <2>2. ModbusReply(r) = Reply("data", 2 * r.count)
    BY <1>1, <1>3, <2>1 DEF Fits, Byte
  <2> QED
    BY <1>1, <1>3, <2>2 DEF Reply, WantBits
<1> QED
  BY <1>2, <1>3 DEF LegalModbus

\* A decoy keeps its face: a Modbus read within the protocol's limits is answered in
\* full, and the log of an industrial connection that is over tells all of it while the
\* disk takes writes, also when a listener that fails takes the process down
\* (_modbus_handle_pdu, the handlers' finally clauses, amain), for any requests.
THEOREM DecoysAlwaysKeepFace == DecoySpec => []DecoysKeepFace
<1>1. DecoyInv => DecoysKeepFace
  <2> SUFFICES ASSUME DecoyInv PROVE DecoysKeepFace
    OBVIOUS
  <2>1. LegalReadsAnswered
    <3> SUFFICES ASSUME NEW c \in Link, link[c].service = "modbus", NEW i \in DOMAIN link[c].asked,
                        LegalModbus(link[c].asked[i])
                 PROVE  /\ link[c].got[i].kind = "data"
                        /\ 8 * link[c].got[i].size \in WantBits(link[c].asked[i])..(WantBits(link[c].asked[i]) + 7)
      BY Zenon DEF LegalReadsAnswered
    <3>1. link[c].asked \in Seq(Request) /\ link[c].got[i] = Answer(link[c].service, link[c].asked[i])
      BY DEF DecoyInv, LinkSound, DecoyLink, Answered
    <3>2. link[c].asked[i] \in Request
      BY <3>1
    <3>3. \A q : Answer("modbus", q) = ModbusReply(q)
      BY DEF Answer
    <3>4. link[c].got[i] = ModbusReply(link[c].asked[i])
      BY <3>1, <3>3, Zenon
    <3> QED
      BY <3>2, <3>4, LegalReadFits, Zenon
  <2>2. StoryIsWhole
    BY DEF DecoyInv, LinkSound, StoryIsWhole
  <2> QED
    BY <2>1, <2>2 DEF DecoysKeepFace
<1> QED
  BY <1>1, DecoysStart, DecoysKept, PTL DEF DecoySpec

-----------------------------------------------------------------------------
(* Training                                                                *)
(*                                                                         *)
(* The argument: prev is what was observed when the last step ended, so    *)
(* every step pays for what it added and nothing else, and what is added   *)
(* to a finite set is counted once.                                        *)

TrainingSpec == TrainingInit /\ [][TrainingNext]_trainingVars

TrainInv ==
    /\ phase \in {"idle", "playing", "over"}
    /\ queue \in Seq(Class) /\ played \in Seq(Class)
    /\ phase = "playing" /\ job # "duel" => queue # <<>>
    /\ IsFiniteSet(observed) /\ prev = observed
    /\ ret \in Int /\ quality \in Int
    /\ ReturnIsEarned

\* The facts under a key are counted as they come.
LEMMA UnderAdds ==
    ASSUME NEW old, NEW new, IsFiniteSet(new), old \subseteq new, NEW key
    PROVE  /\ Cardinality(Under(key, new)) \in Nat /\ Cardinality(Under(key, old)) \in Nat
           /\ Cardinality(Under(key, new \ old)) \in Nat
           /\ Cardinality(Under(key, new)) = Cardinality(Under(key, old)) + Cardinality(Under(key, new \ old))
<1>1. PICK A, B : A = Under(key, old) /\ B = Under(key, new \ old)
  OBVIOUS
<1>2. Under(key, new) = A \cup B /\ A \cap B = {} /\ A \subseteq new /\ B \subseteq new
  BY <1>1 DEF Under
<1>3. IsFiniteSet(A) /\ IsFiniteSet(B)
  BY <1>2, FS_Subset
<1>4. Cardinality(A) \in Nat /\ Cardinality(B) \in Nat
  BY <1>3, FS_CardinalityType
<1>5. /\ Cardinality(A \cup B) = Cardinality(A) + Cardinality(B) - Cardinality(A \cap B)
      /\ Cardinality(A \cap B) = 0
  BY <1>2, <1>3, FS_Union, FS_EmptySet
<1>6. Cardinality(A \cup B) = Cardinality(A) + Cardinality(B) /\ Cardinality(A \cup B) \in Nat
  BY <1>4, <1>5
<1> QED
  BY <1>1, <1>2, <1>4, <1>6, Zenon

\* What two steps observe is worth what it is worth at once.
LEMMA CreditAdds ==
    ASSUME NEW old, NEW new, IsFiniteSet(new), old \subseteq new
    PROVE  /\ Credit(new) \in Int /\ Credit(old) \in Int /\ Credit(new \ old) \in Int
           /\ Credit(new) = Credit(old) + Credit(new \ old)
<1> DEFINE Count(key, facts) == Cardinality(Under(key, facts))
           Adds(key) == /\ Count(key, new) \in Nat /\ Count(key, old) \in Nat /\ Count(key, new \ old) \in Nat
                        /\ Count(key, new) = Count(key, old) + Count(key, new \ old)
<1>1. /\ Adds("credential_files_read") /\ Adds("payload_drops") /\ Adds("decoys_swallowed")
      /\ Adds("decoy_targets") /\ Adds("honeytoken_modifications")
  BY UnderAdds
<1>2. ASSUME NEW facts
      PROVE  Credit(facts) = 50 * Count("credential_files_read", facts) + 10 * Count("payload_drops", facts)
                + 80 * Count("decoys_swallowed", facts) + 40 * Count("decoy_targets", facts)
                + 30 * Count("honeytoken_modifications", facts)
  BY DEF Credit
<1> HIDE DEF Count
<1> QED
  BY <1>1, <1>2

LEMMA NothingIsWorthNothing == Credit({}) = 0
<1>1. ASSUME NEW key PROVE Cardinality(Under(key, {})) = 0
  <2>1. Under(key, {}) = {}
    BY DEF Under
  <2> QED
    BY <2>1, FS_EmptySet
<1> QED
  BY <1>1 DEF Credit

LEMMA RewardsAreNumbers ==
    /\ \A n \in Nat : \A facts : Terminal(n, facts) \in Int
    /\ \A a, old, new, slips : Judged(a, old, new, slips) \in Int
<1>1. \A key, weight, facts : Bonus(key, weight, facts) \in {weight, 0}
  BY DEF Bonus
<1>2. ASSUME NEW n \in Nat, NEW facts PROVE Terminal(n, facts) \in Int
  <2>1. /\ Bonus("reverse_shell_attempted", 60, facts) \in Int /\ Bonus("ssh_persistence_attempt", 60, facts) \in Int
        /\ Bonus("log_tampering", 40, facts) \in Int /\ Bonus("dns_exfil_attempted", 40, facts) \in Int
        /\ Bonus("attempted_sudo_elevation", 100, facts) \in Int
    BY <1>1
  <2> QED
    BY <2>1 DEF Terminal
<1>3. ASSUME NEW a, NEW old, NEW new, NEW slips PROVE Judged(a, old, new, slips) \in Int
  BY DEF Judged, Fingerprint
<1> QED
  BY <1>2, <1>3

\* A new session starts from nothing.
LEMMA FreshEarned ==
    ASSUME NEW q \in Seq(Class), q # <<>> \/ job' = "duel", Fresh(q) PROVE TrainInv'
<1>1. /\ phase' = "playing" /\ queue' = q /\ played' = <<>> /\ observed' = {} /\ prev' = {}
      /\ ret' = 0 /\ quality' = 0
  BY DEF Fresh
<1>2. IsFiniteSet({})
  BY FS_EmptySet
<1>3. ReturnIsEarned'
  BY <1>1, NothingIsWorthNothing DEF ReturnIsEarned
<1> QED
  BY <1>1, <1>2, <1>3 DEF TrainInv

\* A step pays for what it added, judges the action, and at the end of the
\* episode pays the bonus.
LEMMA EnvStepEarned ==
    ASSUME TrainInv, phase = "playing", NEW q \in Seq(Class), q # <<>>,
           NEW a, NEW add, IsFiniteSet(add), NEW slips, EnvStep(q, a, add, slips)
    PROVE  TrainInv'
<1>1. PICK new : new = observed \cup add
  OBVIOUS
<1>2. PICK done \in BOOLEAN : done = (Tail(q) = <<>> \/ Len(played) + 1 >= Cap \/ Head(q) = Exit)
  OBVIOUS
<1>3. PICK n : n = Len(played) + 1
  OBVIOUS
<1>4. /\ queue' = Tail(q) /\ played' = Append(played, Head(q)) /\ observed' = new /\ prev' = new
      /\ ret' = ret + StepReward(a, prev, new, slips) + (IF done THEN Terminal(n, new) ELSE 0)
      /\ quality' = quality + Judged(a, prev, new, slips)
      /\ phase' = IF done THEN "over" ELSE "playing"
  BY <1>1, <1>2, <1>3, Zenon DEF EnvStep, Remember
<1>5. /\ Head(q) \in Class /\ Tail(q) \in Seq(Class) /\ n \in Nat
      /\ played' \in Seq(Class) /\ Len(played') = n
  BY <1>3, <1>4 DEF TrainInv
<1>6. IsFiniteSet(new) /\ prev = observed /\ prev \subseteq new
  BY <1>1, FS_Union DEF TrainInv
<1>7. PICK c, d, j, t : /\ c = Credit(observed) /\ d = Credit(new \ observed)
                        /\ j = Judged(a, observed, new, slips) /\ t = Terminal(n, new)
  OBVIOUS
<1>8. c \in Int /\ d \in Int /\ Credit(new) = c + d
  BY <1>6, <1>7, CreditAdds, Zenon
<1>9. j \in Int /\ t \in Int
  BY <1>5, <1>7, RewardsAreNumbers, Zenon
<1>10. StepReward(a, prev, new, slips) = d + j
  BY <1>6, <1>7, Zenon DEF StepReward
<1>11. ret \in Int /\ quality \in Int /\ ret = c + quality
  <2>1. ret = Credit(observed) + quality + 0
    BY DEF TrainInv, ReturnIsEarned
  <2> QED
    BY <1>7, <1>8, <2>1 DEF TrainInv
<1>12. ret' = ret + (d + j) + (IF done THEN t ELSE 0) /\ quality' = quality + j
  BY <1>4, <1>6, <1>7, <1>10, Zenon
<1>13. ret' \in Int /\ quality' \in Int /\ ret' = (c + d) + quality' + (IF done THEN t ELSE 0)
  BY <1>8, <1>9, <1>11, <1>12
<1>14. Terminal(Len(played'), observed') = t /\ Credit(observed') = c + d
  BY <1>4, <1>5, <1>7, <1>8, Zenon
<1>15. phase' \in {"playing", "over"} /\ (phase' = "over" <=> done)
  BY <1>4
<1>16. ReturnIsEarned'
  BY <1>13, <1>14, <1>15 DEF ReturnIsEarned
<1>17. phase' = "playing" => queue' # <<>>
  BY <1>2, <1>4, <1>15
<1> QED
  BY <1>4, <1>5, <1>6, <1>13, <1>15, <1>16, <1>17 DEF TrainInv

LEMMA TrainStarts == TrainingInit => TrainInv
<1> SUFFICES ASSUME TrainingInit PROVE TrainInv
  OBVIOUS
<1>1. IsFiniteSet({})
  BY FS_EmptySet
<1> QED
  BY <1>1 DEF TrainingInit, TrainInv, ReturnIsEarned

LEMMA DrawnIsQueue ==
    ASSUME NEW q \in Drawn PROVE q \in Seq(Class) /\ q # <<>> /\ Episode(q) \in Seq(Class) /\ Episode(q) # <<>>
<1>1. PICK n \in 1..MaxQueue : q \in [1..n -> Class \ {Exit}]
  BY DEF Drawn
<1>2. n \in Nat /\ n >= 1 /\ Exit \in Class
  BY TrainingAssumption
<1>3. q \in Seq(Class) /\ Len(q) = n
  BY <1>1, <1>2
<1> QED
  BY <1>2, <1>3 DEF Episode

LEMMA TrainKept == TrainInv /\ [TrainingNext]_trainingVars => TrainInv'
<1> SUFFICES ASSUME TrainInv, [TrainingNext]_trainingVars PROVE TrainInv'
  OBVIOUS
<1>1. ASSUME NEW q \in Drawn, TrainEpisode(q) PROVE TrainInv'
  BY <1>1, DrawnIsQueue, FreshEarned DEF TrainEpisode
<1>2. ASSUME NEW q \in Drawn, CorpusEpisode(q) PROVE TrainInv'
  BY <1>2, DrawnIsQueue, FreshEarned DEF CorpusEpisode
<1>3. ASSUME NEW a \in Act, NEW slips \in BOOLEAN,
             NEW add \in SUBSET (IF queue = <<>> THEN {} ELSE Yields[Head(queue)]), Play(a, add, slips)
      PROVE  TrainInv'
  <2>1. job \in {"train", "corpus"} /\ phase = "playing" /\ EnvStep(queue, a, add, slips)
    BY <1>3 DEF Play
  <2>2. queue \in Seq(Class) /\ queue # <<>>
    BY <2>1 DEF TrainInv
  <2>3. Head(queue) \in Class /\ add \subseteq Yields[Head(queue)]
    BY <2>2
  <2>4. IsFiniteSet(add)
    BY <2>3, TrainingAssumption, FS_Subset
  <2> QED
    BY <2>1, <2>2, <2>4, EnvStepEarned
<1>4. ASSUME NEW a \in Act, NEW slips \in BOOLEAN, NEW class \in Class, NEW add \in SUBSET Yields[class],
             DuelStep(class, a, add, slips)
      PROVE  TrainInv'
  <2>1. phase = "playing" /\ EnvStep(<<class>>, a, add, slips)
    BY <1>4, Zenon DEF DuelStep
  <2>2. PICK q : q = <<class>>
    OBVIOUS
  <2>3. q \in Seq(Class) /\ q # <<>>
    BY <2>2
  <2>4. IsFiniteSet(add)
    BY TrainingAssumption, FS_Subset
  <2>5. EnvStep(q, a, add, slips)
    BY <2>1, <2>2, Zenon
  <2> QED
    BY <2>1, <2>3, <2>4, <2>5, EnvStepEarned
<1>5. CASE DuelEpisode
  <2>1. Fresh(<<>>) /\ job' = "duel"
    BY <1>5 DEF DuelEpisode
  <2>2. PICK q : q = <<>>
    OBVIOUS
  <2>3. q \in Seq(Class)
    BY <2>2
  <2>4. Fresh(q)
    BY <2>1, <2>2, Zenon
  <2> QED
    BY <2>1, <2>3, <2>4, FreshEarned
<1>6. CASE Learn \/ TrainAttacker \/ TrainDefender \/ Match
  <2>1. /\ phase' = "idle" /\ queue' = queue /\ played' = played /\ observed' = observed /\ prev' = prev
        /\ ret' = ret /\ quality' = quality
    BY <1>6 DEF Learn, TrainAttacker, TrainDefender, Match, episodeVars
  <2>2. ReturnIsEarned'
    BY <2>1 DEF ReturnIsEarned
  <2> QED
    BY <2>1, <2>2 DEF TrainInv
<1>7. CASE UNCHANGED trainingVars
  BY <1>7 DEF trainingVars, episodeVars, TrainInv, ReturnIsEarned
<1> QED
  BY <1>1, <1>2, <1>3, <1>4, <1>5, <1>6, <1>7 DEF TrainingNext

\* The return of an episode is what its outcome is worth: every observation is paid
\* for once in whatever order it came, and the terminal bonus once, at the end
\* (DeceptionEnv.step, step_reward, terminal_reward), for any commands and any cap.
THEOREM ReturnIsAlwaysEarned == TrainingSpec => []ReturnIsEarned
<1>1. TrainInv => ReturnIsEarned
  BY DEF TrainInv
<1> QED
  BY <1>1, TrainStarts, TrainKept, PTL DEF TrainingSpec
=============================================================================
