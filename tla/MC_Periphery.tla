----------------------------- MODULE MC_Periphery ----------------------------
(***************************************************************************)
(* The parts around the agent, for TLC.  They run in processes of their    *)
(* own and share no state, so each behaviour exercises one of them, chosen *)
(* at the start: the decoy services, the PROXY listener, one-time codes    *)
(* and enrollment, push providers, the start of the agent, training, the   *)
(* detector of language models, the trained policy.                        *)
(***************************************************************************)
EXTENDS Decoys, ProxyFront, MfaIdentity, Startup, Training, CounterAI, TrainedPolicy

VARIABLE part

Requests ==
    {[fn |-> f, len |-> 5, count |-> n, items |-> 0] : f \in {1, 3, 5}, n \in {9, 2000, 125, 126}}
      \cup {[fn |-> 16, len |-> 6, count |-> 1, items |-> 0], [fn |-> 1, len |-> 0, count |-> 0, items |-> 0]}
      \cup {[fn |-> f, len |-> 27, count |-> n, items |-> 1] : f \in {4, 28}, n \in {1, 40000}}
      \cup {[fn |-> 4, len |-> 13, count |-> 1, items |-> 1]}

GoodHeader == [bytes |-> 60, crlf |-> TRUE, prefix |-> TRUE, proto |-> "TCP4", parts |-> 5,
               port |-> 4242, dots |-> 3, colons |-> 0]
Headers == {GoodHeader,
            [GoodHeader EXCEPT !.proto = "UNKNOWN", !.parts = 0],
            [GoodHeader EXCEPT !.port = 70000]}

Ref(scheme, default) == [scheme |-> scheme, spec |-> TRUE, key |-> TRUE, json |-> TRUE, default |-> default]
ConfigFields == << Ref("vault", TRUE), Ref("env", FALSE), Ref("vault", TRUE), Ref("custom", FALSE),
                   Ref("file", TRUE), Ref("https", FALSE) >>
Plugin(cat, name) == [cat |-> cat, name |-> name, handles |-> TRUE, builds |-> TRUE,
                      throws |-> FALSE, provider |-> FALSE]
PluginFiles ==
    << << Plugin("detector", "d"), [Plugin("responder", "r") EXCEPT !.handles = FALSE], Plugin("connector", "c") >>,
       << Plugin("responder", "r") >>,
       << [Plugin("detector", "e") EXCEPT !.throws = TRUE, !.provider = TRUE], Plugin("responder", "s") >>,
       << [Plugin("policy", "ml") EXCEPT !.builds = FALSE] >>,
       << Plugin("policy", "myorg_ml") >> >>

Fact(key, n) == [key |-> key, item |-> n]
CommandYields ==
    [recon   |-> {Fact("credential_search_attempted", 0)},
     creds   |-> {Fact("credential_files_read", 1), Fact("credential_files_read", 2)},
     persist |-> {Fact("ssh_persistence_attempt", 0)},
     leave   |-> {}]

\* How much a command of each kind reads like a person's, in hundredths.
LexOf == [sudo |-> 65, probe |-> 90, cat |-> 65, echo |-> 40]
\* Commands come in a burst, until a decoy is read after a while.
PauseOf == [sudo |-> {1}, probe |-> {1}, cat |-> {20}, echo |-> {1}]

services == <<decoyVars, proxyVars, identityVars>>
engines == <<startupVars, trainingVars, caiVars, engineVars>>
peripheryVars == <<services, engines, part>>

Init ==
    /\ part \in {"decoys", "proxy", "totp", "push", "startup", "training", "counter-ai", "policy"}
    /\ DecoyInit /\ ProxyInit /\ IdentityInit /\ StartupInit /\ TrainingInit
    /\ CounterAIInit /\ EngineInit
    /\ part # "proxy" => site = "agent" /\ header = [c \in Client |-> GoodHeader]
    /\ part # "startup" => backend = [r \in Refs |-> 1]
    /\ part # "training" => job = "train"
    /\ part # "policy" => inUse = "rules"

Next ==
    /\ UNCHANGED part
    /\ \/ part = "decoys" /\ DecoyNext /\ UNCHANGED <<proxyVars, identityVars, engines>>
       \/ part = "proxy" /\ ProxyNext /\ UNCHANGED <<decoyVars, identityVars, engines>>
       \/ part = "totp" /\ TotpNext /\ UNCHANGED <<decoyVars, proxyVars, engines>>
       \/ part = "push" /\ PushNext /\ UNCHANGED <<decoyVars, proxyVars, engines>>
       \/ part = "startup" /\ StartupNext /\ UNCHANGED <<services, trainingVars, caiVars, engineVars>>
       \/ part = "training" /\ TrainingNext /\ UNCHANGED <<services, startupVars, caiVars, engineVars>>
       \/ part = "counter-ai" /\ CounterAINext /\ UNCHANGED <<services, startupVars, trainingVars, engineVars>>
       \/ part = "policy" /\ EngineNext /\ UNCHANGED <<services, startupVars, trainingVars, caiVars>>

Spec == Init /\ [][Next]_peripheryVars
=============================================================================
