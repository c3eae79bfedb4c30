---------------------------- MODULE MfaIdentity -----------------------------
(***************************************************************************)
(* Whose code and whose push counts: the enrollment store and its command  *)
(* line (linux-fork/mfa/enrollment.py, tools/mfa_enroll.py), the TOTP      *)
(* check (linux-fork/mfa/totp.py) and the push providers                   *)
(* (plenith/connectors/mfa_providers.py).                                  *)
(*                                                                         *)
(* The store is one JSON file, rewritten whole by the command line and     *)
(* read twice by a verification.  A secret is the number it was generated  *)
(* with and its user; number 0 is the user's demo secret.  The store keeps *)
(* the number, 0 for nobody.  A code is the secret and the time step       *)
(* it was computed from.  The clock counts steps of thirty seconds.         *)
(***************************************************************************)
EXTENDS Naturals, Sequences, FiniteSets

CONSTANTS User, Login, Provider, MaxClock, MaxSecret, MaxPush

Secret(n, u) == [n |-> n, user |-> u]
NoSecret == Secret(0, "-")
Window == 1

VARIABLES
    clock,
    users,      \* the store's records: the secret of each enrolled user
    revoked,    \* the store's revoked list
    unreadable, \* the file cannot be read or parsed
    issued,     \* secrets generated so far
    retired,    \* secrets whose user was revoked
    login,      \* each verification: user, phase, the secret it holds, what was retired before it
    accepted,   \* the secret of the last code accepted, and what was retired before it
    pushes,     \* pushes at the provider: user, what the phone said, and which of the
                \* requests' responses was its own, 0 while there is none
    replies,    \* responses to requests so far
    state,      \* OktaVerifyClient._state: token -> push
    wait        \* each login's push: the token held, the answer, the push a poll is
                \* under way for

totpVars == <<clock, users, revoked, unreadable, issued, retired, login, accepted>>
pushVars == <<pushes, replies, state, wait>>
identityVars == <<totpVars, pushVars>>

NoLogin == [phase |-> "idle", user |-> "-", secret |-> NoSecret, before |-> {}]
Nothing == [secret |-> NoSecret, before |-> {}]
NoToken == [user |-> "-", n |-> 0]
NoPush == [token |-> NoToken, provider |-> "-", user |-> "-", since |-> 0, asks |-> 0, answer |-> "none"]
IdentityInit ==
    /\ clock = 0 /\ users = [u \in User |-> 0] /\ revoked = {} /\ unreadable = FALSE
    /\ issued = 0 /\ retired = {} /\ login = [l \in Login |-> NoLogin] /\ accepted = Nothing
    /\ pushes = <<>> /\ replies = 0 /\ state = {} /\ wait = [l \in Login |-> NoPush]

\* EnrollmentStore._read: what cannot be read is an empty store
ReadUsers == IF unreadable THEN [u \in User |-> 0] ELSE users
ReadRevoked == IF unreadable THEN {} ELSE revoked
\* EnrollmentStore.get
Get(u) == IF u \in ReadRevoked THEN 0 ELSE ReadUsers[u]

Tick == clock < MaxClock /\ clock' = clock + 1
        /\ UNCHANGED <<users, revoked, unreadable, issued, retired, login, accepted, pushVars>>

\* EnrollmentStore.add is idempotent, makes a fresh secret and lifts a
\* revocation; the file it writes is what it read
Add_Restores(u) ==
    /\ ReadUsers[u] = 0 /\ issued < MaxSecret
    /\ LET old == {k \in retired : k.user = u}
       IN  users' = [ReadUsers EXCEPT ![u] = IF old # {} THEN (CHOOSE k \in old : TRUE).n ELSE issued + 1]
    /\ issued' = issued + 1 /\ revoked' = ReadRevoked \ {u} /\ unreadable' = FALSE
    /\ UNCHANGED <<clock, retired, login, accepted, pushVars>>
Add(u) ==
    /\ ReadUsers[u] = 0 /\ issued < MaxSecret
    /\ issued' = issued + 1
    /\ users' = [ReadUsers EXCEPT ![u] = issued + 1]
    /\ revoked' = ReadRevoked \ {u} /\ unreadable' = FALSE
    /\ UNCHANGED <<clock, retired, login, accepted, pushVars>>
Revoke(u) ==
    /\ ReadUsers[u] # 0
    /\ retired' = retired \cup {Secret(users[u], u)}
    /\ users' = [users EXCEPT ![u] = 0] /\ revoked' = revoked \cup {u}
    /\ UNCHANGED <<clock, unreadable, issued, login, accepted, pushVars>>
\* the command line, tools/mfa_enroll.py
CmdAdd(u) == Add(u)
CmdRevoke(u) == Revoke(u)
\* the file is damaged; the next add starts a new one
Damage == ~unreadable /\ issued > 0 /\ unreadable' = TRUE
          /\ UNCHANGED <<clock, users, revoked, issued, retired, login, accepted, pushVars>>

\* resolve_secret: the record is read, or the user is given the demo secret
ResolveSecret(l, u) ==
    /\ login[l] = NoLogin
    /\ login' = [login EXCEPT ![l] = [phase |-> IF Get(u) # 0 THEN "enrolled" ELSE "ready", user |-> u,
                                       secret |-> Secret(0, u), before |-> retired]]
    /\ UNCHANGED <<clock, users, revoked, unreadable, issued, retired, accepted, pushVars>>
\* _EnrolledSecret: the secret itself is read again, and may be gone
SecretBytes(l) ==
    /\ login[l].phase = "enrolled"
    /\ login' = [login EXCEPT ![l].phase = "ready", ![l].secret =
                   IF Get(login[l].user) = 0 THEN NoSecret ELSE Secret(Get(login[l].user), login[l].user)]
    /\ UNCHANGED <<clock, users, revoked, unreadable, issued, retired, accepted, pushVars>>

\* totp_verify: any step of the window
InWindow(step) == clock <= step + Window /\ step <= clock + Window
Verify(l, secret, step) ==
    LET ok == login[l].secret # NoSecret /\ login[l].secret = secret /\ InWindow(step)
    IN  /\ login[l].phase = "ready"
        /\ accepted' = IF ok THEN [secret |-> secret, before |-> login[l].before] ELSE accepted
        /\ login' = [login EXCEPT ![l] = NoLogin]
        /\ UNCHANGED <<clock, users, revoked, unreadable, issued, retired, pushVars>>

-----------------------------------------------------------------------------
\* Duo, Twilio and the simulator name every push; Okta's token is made of the
\* user and the factor
Token(p, u, n) == IF p = "okta" THEN [user |-> u, n |-> 0] ELSE [user |-> "-", n |-> n]
\* request_push: the provider makes the push and the phone rings, while the
\* response is awaited
RequestPush(l, p, u) ==
    LET n == Len(pushes) + 1
    IN  /\ wait[l] = NoPush /\ n <= MaxPush
        /\ pushes' = Append(pushes, [user |-> u, said |-> "waiting", reply |-> 0])
        /\ wait' = [wait EXCEPT ![l] = [NoPush EXCEPT !.provider = p, !.user = u, !.since = n,
                                                      !.answer = "requested"]]
        /\ UNCHANGED <<totpVars, replies, state>>
\* the response: the token is handed out, and Okta's leads to this push from now on
OktaState_KeepsFirst(t, n) == IF \E s \in state : s[1] = t THEN state ELSE state \cup {<<t, n>>}
OktaState(t, n) == {s \in state : s[1] # t} \cup {<<t, n>>}
PushAnswered(l) ==
    LET w == wait[l]
        t == Token(w.provider, w.user, w.since)
    IN  /\ w.answer = "requested"
        /\ replies' = replies + 1
        /\ pushes' = [pushes EXCEPT ![w.since].reply = replies + 1]
        /\ wait' = [wait EXCEPT ![l].token = t, ![l].answer = "pending"]
        /\ state' = IF w.provider = "okta" THEN OktaState(t, w.since) ELSE state
        /\ UNCHANGED totpVars
\* a failed request leaves no token: a push it caused is never asked after
RequestFails(l) ==
    /\ wait[l] = NoPush \/ wait[l].answer = "requested"
    /\ wait' = [wait EXCEPT ![l].answer = "unavailable"]
    /\ UNCHANGED <<totpVars, pushes, replies, state>>
Phone(n, said) ==
    /\ n \in DOMAIN pushes /\ pushes[n].said = "waiting"
    /\ pushes' = [pushes EXCEPT ![n].said = said]
    /\ UNCHANGED <<totpVars, replies, state, wait>>

PushOf(w) == IF w.provider = "okta" THEN (CHOOSE s \in state : s[1] = w.token)[2] ELSE w.token.n
\* the word each provider has for what the phone said
ProviderWord(p) ==
    CASE p = "duo"  -> [waiting |-> "waiting", yes |-> "allow", no |-> "deny", late |-> "timeout"]
      [] p = "okta" -> [waiting |-> "WAITING", yes |-> "SUCCESS", no |-> "REJECTED", late |-> "TIMEOUT"]
      [] OTHER      -> [waiting |-> "pending", yes |-> "approved", no |-> "denied", late |-> "expired"]
\* poll: the providers' words mapped onto ours.  Duo and Twilio take a word
\* they do not know for an expiry, Okta for a push still pending, and the
\* simulator's word is passed on as it is
DuoPoll(w) == CASE w = "allow" -> "approved" [] w = "deny" -> "denied"
                [] w = "waiting" -> "pending" [] OTHER -> "expired"
OktaPoll(w) == CASE w = "SUCCESS" -> "approved" [] w = "REJECTED" -> "denied"
                 [] w = "TIMEOUT" -> "expired" [] OTHER -> "pending"
TwilioPoll(w) == IF w \in {"approved", "denied", "pending"} THEN w ELSE "expired"
PushSimPoll(w) == w
Said(p, w) == CASE p = "duo" -> DuoPoll(w) [] p = "okta" -> OktaPoll(w)
                [] p = "twilio" -> TwilioPoll(w) [] OTHER -> PushSimPoll(w)
\* poll: the push is looked up, and then asked after; a call that fails is an
\* expiry, with every provider
PollBegin(l) ==
    /\ wait[l].answer = "pending" /\ wait[l].asks = 0
    /\ wait' = [wait EXCEPT ![l].asks = PushOf(wait[l])]
    /\ UNCHANGED <<totpVars, pushes, replies, state>>
PollAnswer(l, works) ==
    LET w == wait[l]
        word == ProviderWord(w.provider)[pushes[w.asks].said]
    IN  /\ w.asks # 0
        /\ wait' = [wait EXCEPT ![l].asks = 0,
                                ![l].answer = IF works THEN Said(w.provider, word) ELSE "expired"]
        /\ UNCHANGED <<totpVars, pushes, replies, state>>
\* the gateway is done with the challenge, or tired of it; Okta's state keeps its entry
PushOver(l) ==
    /\ wait[l].answer \notin {"none", "requested"} /\ wait[l].asks = 0
    /\ wait' = [wait EXCEPT ![l] = NoPush]
    /\ UNCHANGED <<totpVars, pushes, replies, state>>

TotpNext ==
    \/ Tick \/ Damage
    \/ \E u \in User : CmdAdd(u) \/ CmdRevoke(u) \/ \E l \in Login : ResolveSecret(l, u)
    \/ \E l \in Login : SecretBytes(l)
    \/ \E l \in Login, k \in {Secret(n, u) : n \in 0..MaxSecret, u \in User}, step \in 0..MaxClock :
          Verify(l, k, step)
PushNext ==
    \/ \E l \in Login, p \in Provider, u \in User : RequestPush(l, p, u)
    \/ \E n \in 1..MaxPush, said \in {"yes", "no", "late"} : Phone(n, said)
    \/ \E l \in Login : PushAnswered(l) \/ RequestFails(l) \/ PollBegin(l) \/ PushOver(l)
                         \/ \E works \in BOOLEAN : PollAnswer(l, works)
-----------------------------------------------------------------------------
\* A secret that was revoked before a verification began is dead to it,
\* through any order of revocations, re-enrollments and damage to the store
\* (EnrollmentStore.add, revoke, get, resolve_secret).
RetiredSecretIsDead == accepted.secret \notin accepted.before

\* An approval is a yes to a challenge of the same user: with a provider that
\* names its pushes to this very challenge, with Okta, whose token is the user's, to
\* one whose response came no earlier than this challenge's did.  So a push that was
\* answered for before is dead to this login; one requested at the same time need
\* not be (OktaVerifyClient.request_push, poll).
Vouches(n, w) ==
    /\ n \in DOMAIN pushes /\ pushes[n].user = w.user
    /\ IF w.provider = "okta" THEN pushes[n].reply >= pushes[w.since].reply ELSE n = w.since
ApprovalIsFresh ==
    \A l \in Login : wait[l].answer = "approved" =>
        \E n \in DOMAIN pushes : Vouches(n, wait[l]) /\ pushes[n].said = "yes"
=============================================================================
