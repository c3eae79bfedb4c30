------------------------------ MODULE Startup -------------------------------
(***************************************************************************)
(* Starting the agent (run.py): secret references in the configuration     *)
(* are resolved (plenith/secrets.py), the orchestrator is built with its   *)
(* policy (plenith/policy.py), plugins are discovered and registered       *)
(* (plenith/plugins.py), and then commands are served.  Beside it, the     *)
(* check of the references from the command line (tools/secrets_check.py). *)
(*                                                                         *)
(* A reference is a scheme, an address, whether it names a key, and        *)
(* whether it has a default.  The value behind it is a version number, 0   *)
(* when the backend cannot give it, and may change at any time.            *)
(***************************************************************************)
EXTENDS Naturals, Sequences, FiniteSets, SequencesExt

CONSTANTS Fields,    \* sequence of references: the strings of the configuration
          Files,     \* sequence of plugin files, each a sequence of plugins
          Engine,    \* policy.engine of the configuration
          Libs,      \* client libraries with credentials: "hvac", "boto3"
          MaxVersion

Unset == 0
Default == 100      \* the value after ?default=
Verbatim == 101     \* the string itself
BuiltIn == {"env", "file", "vault", "aws-sm"}

\* The two lists are lists, and no version is the mark of a default or of a
\* string taken as it is.
ASSUME StartupAssumption ==
    /\ Fields \in Seq(Range(Fields)) /\ Files \in Seq(Range(Files))
    /\ MaxVersion \in Nat /\ MaxVersion < Default

VARIABLES
    boot,      \* "resolving", "building", "discovering", "serving", "fatal"
    backend,   \* reference -> version
    schemes,   \* _PROVIDERS
    cache,     \* the cache of one resolve() call: reference -> value
    values,    \* the resolved fields so far
    checked,   \* what secrets_check found for each field so far
    engine,    \* the policy the orchestrator was built with
    file, item,\* the plugin to be loaded next
    names,     \* PluginRegistry._registered_names
    live,      \* the plugins registered, in order
    counted,   \* plugins counted as loaded
    ran        \* the detectors and responders that ran for the last command

secretVars == <<schemes, cache, values>>
pluginVars == <<file, item, names, live, counted>>
startupVars == <<boot, backend, secretVars, checked, engine, pluginVars, ran>>

Refs == Range(Fields)
StartupInit ==
    /\ boot = "resolving" /\ backend \in [Refs -> 0..1]
    /\ schemes = BuiltIn /\ cache = [r \in Refs |-> Unset] /\ values = <<>> /\ checked = <<>>
    /\ engine = "-" /\ file = 1 /\ item = 1 /\ names = {} /\ live = <<>> /\ counted = 0
    /\ ran = {}

\* the operator rotates a secret, or a backend fails or comes back
Rotate(r, v) ==
    /\ boot = "resolving" /\ backend' = [backend EXCEPT ![r] = v]
    /\ UNCHANGED <<boot, secretVars, checked, engine, pluginVars, ran>>

\* the built-in providers; Unset is the exception they raise
ProviderEnv(r) == backend[r]
ProviderFile(r) == IF r.spec THEN backend[r] ELSE Unset
ProviderVault(r) == IF "hvac" \in Libs /\ r.key THEN backend[r] ELSE Unset
ProviderAwsSm(r) == IF "boto3" \in Libs /\ (r.key => r.json) THEN backend[r] ELSE Unset
Provide(r) ==
    CASE r.scheme = "env" -> ProviderEnv(r) [] r.scheme = "file" -> ProviderFile(r)
      [] r.scheme = "vault" -> ProviderVault(r) [] r.scheme = "aws-sm" -> ProviderAwsSm(r)
      [] OTHER -> backend[r]

\* _parse_reference: an unknown scheme is plain text
IsReference(r) == r.scheme \in schemes
\* _resolve_value, without the cache
Looked(r) ==
    IF ~IsReference(r) THEN Verbatim
    ELSE IF Provide(r) # Unset THEN Provide(r) ELSE IF r.default THEN Default ELSE Unset
ResolveValue(r) == IF IsReference(r) /\ cache[r] # Unset THEN cache[r] ELSE Looked(r)
Kept_DefaultForgotten(r, v) == IF v \in {Verbatim, Default} THEN cache ELSE [cache EXCEPT ![r] = v]
Kept(r, v) == IF v = Verbatim THEN cache ELSE [cache EXCEPT ![r] = v]

\* resolve: the fields one by one, with one cache; the first that cannot be
\* resolved ends the process
ResolveField ==
    LET r == Fields[Len(values) + 1]
        v == ResolveValue(r)
    IN  /\ boot = "resolving" /\ Len(values) < Len(Fields)
        /\ IF v = Unset
           THEN boot' = "fatal" /\ UNCHANGED <<cache, values>>
           ELSE /\ cache' = Kept(r, v) /\ values' = Append(values, v)
                /\ boot' = IF Len(values) + 1 = Len(Fields) THEN "building" ELSE boot
        /\ UNCHANGED <<backend, schemes, checked, engine, pluginVars, ran>>

\* find_references and secrets_check --resolve: a cache for every reference
CheckOne ==
    LET r == Fields[Len(checked) + 1]
    IN  /\ boot = "resolving" /\ Len(checked) < Len(Fields)
        /\ checked' = Append(checked, IF ~IsReference(r) THEN "skipped"
                                      ELSE IF Looked(r) # Unset THEN "ok" ELSE "failed")
        /\ UNCHANGED <<boot, backend, secretVars, engine, pluginVars, ran>>
ExitCode == IF "failed" \in Range(checked) THEN 1 ELSE 0

\* Orchestrator(llm, cache, sim_bot, rotator): no policy is passed in, so it
\* is the heuristic one
BuildOrchestrator ==
    /\ boot = "building" /\ boot' = "discovering" /\ engine' = "heuristic"
    /\ UNCHANGED <<backend, secretVars, checked, pluginVars, ran>>

-----------------------------------------------------------------------------
\* PluginRegistry.register: the name is taken before the plugin is looked at.
\* A file may register a provider of secrets when it is executed.
PluginKey(p) == <<p.cat, p.name>>
Broken(p) == p.cat = "responder" /\ ~p.handles
Register(p) ==
    /\ names' = names \cup {PluginKey(p)}
    /\ live' = IF Broken(p) \/ PluginKey(p) \in names THEN live ELSE Append(live, p)
Raises(p) == ~p.builds \/ Broken(p) \/ PluginKey(p) \in names
\* discover_path: a file is executed, its plugins are registered in order, and
\* the first exception ends that file and no other
NextFile == file' = file + 1
LoadItem ==
    LET f == Files[file]
        p == f[item]
    IN  /\ boot = "discovering" /\ file <= Len(Files) /\ item <= Len(f)
        /\ schemes' = IF item = 1 /\ p.provider THEN schemes \cup {"custom"} ELSE schemes
        /\ IF p.builds THEN Register(p) ELSE UNCHANGED <<names, live>>
        /\ counted' = IF Raises(p) THEN counted ELSE counted + 1
        /\ IF Raises(p) THEN NextFile /\ item' = 1
           ELSE IF item = Len(f) THEN file' = file + 1 /\ item' = 1
           ELSE item' = item + 1 /\ UNCHANGED file
        /\ UNCHANGED <<boot, backend, cache, values, checked, engine, ran>>
StartServing ==
    /\ boot = "discovering" /\ file > Len(Files)
    /\ boot' = "serving" /\ UNCHANGED <<backend, secretVars, checked, engine, pluginVars, ran>>

\* a command: run_detectors, the policy, run_responders; one that raises is
\* passed over
RunAll(cat) == {p \in Range(live) : p.cat = cat /\ ~p.throws}
RunPlugins(fires) ==
    /\ boot = "serving"
    /\ ran' = RunAll("detector") \cup (IF fires THEN RunAll("responder") ELSE {})
    /\ UNCHANGED <<boot, backend, secretVars, checked, engine, pluginVars>>

\* build_policy: a plugin wins over the built-in engines, and what cannot be
\* built is the heuristic engine
BuildPolicy(e, model) ==
    IF (\E p \in Range(live) : p.cat = "policy" /\ p.name = e) \/ e = "rl" \/ (e = "trained_rl" /\ model)
    THEN e ELSE "heuristic"

StartupNext ==
    \/ \E r \in Refs, v \in 0..MaxVersion : Rotate(r, v)
    \/ ResolveField \/ CheckOne \/ BuildOrchestrator \/ LoadItem \/ StartServing
    \/ \E fires \in BOOLEAN : RunPlugins(fires)
-----------------------------------------------------------------------------
\* One reference used in two places has one value for the whole run, though its
\* backend fails or its secret is rotated between the two (resolve, _resolve_value).
OneValuePerReference ==
    \A i, j \in DOMAIN values : Fields[i] = Fields[j] => values[i] = values[j]

\* A plugin that cannot be loaded costs its own file and no other: the first of
\* every other file is tried.  No category has two plugins of one name, and the
\* count says how many are live
\* (PluginRegistry.register, discover_path).
BadPluginSparesOthers ==
    /\ \A i, j \in DOMAIN live : PluginKey(live[i]) = PluginKey(live[j]) => i = j
    /\ counted = Len(live)
    /\ boot = "serving" => \A n \in DOMAIN Files : Files[n][1].builds => PluginKey(Files[n][1]) \in names

\* What the agent starts with is of one piece: one value per reference, and every
\* plugin that can be loaded whatever the others do.
StartIsSound == OneValuePerReference /\ BadPluginSparesOthers
=============================================================================
