------------------------------ MODULE Heuristics ------------------------------
(***************************************************************************)
(* The rule ladder of plenith/heuristics.py and the observations it reads. *)
(*                                                                         *)
(* session.observed is the set of its truthy keys: a Boolean that is True, *)
(* or a set that is not empty.  payload_drops is the exception, its rule   *)
(* counts, so each dropped file is a key of its own; services_probed       *)
(* stands for its element "mysql", the only one a rule asks for.           *)
(***************************************************************************)
EXTENDS Naturals, Sequences, FiniteSets

PayloadDrops == {"drop1", "drop2", "drop3"}

\* The rules, in the order decide_action tries them.
Ladder == <<
    "reverse_shell", "ssh_persistence", "honeytoken_tamper", "dns_exfil",
    "llm_proven", "llm_detected", "lateral_decoy", "log_tampering",
    "credential_exfil", "decoy_swallowed", "credential_search",
    "payload_staging", "plant_sudo", "spawn_mysql", "isolate", "plant_aws">>

Rule == {Ladder[i] : i \in 1..Len(Ladder)}

\* The observation a rule waits for, where it is a single key.
Needs == [
    reverse_shell     |-> "reverse_shell_attempted",
    ssh_persistence   |-> "ssh_persistence_attempt",
    honeytoken_tamper |-> "honeytoken_modifications",
    dns_exfil         |-> "dns_exfil_attempted",
    llm_proven        |-> "attacker_llm_proven_via_trap",
    llm_detected      |-> "attacker_likely_llm",
    lateral_decoy     |-> "lateral_to_decoy",
    log_tampering     |-> "log_tampering",
    credential_exfil  |-> "credential_files_read",
    decoy_swallowed   |-> "decoys_swallowed",
    credential_search |-> "credential_search_attempted",
    plant_sudo        |-> "ran_sudo",
    spawn_mysql       |-> "services_probed",
    isolate           |-> "attempted_lateral"]

\* The flag by which a rule disables itself.
Flag == [
    reverse_shell     |-> "alerted_reverse_shell",
    ssh_persistence   |-> "alerted_ssh_persistence",
    honeytoken_tamper |-> "alerted_honeytoken_tamper",
    dns_exfil         |-> "alerted_dns_exfil",
    llm_proven        |-> "alerted_attacker_llm_proven",
    llm_detected      |-> "alerted_attacker_llm_detected",
    lateral_decoy     |-> "alerted_lateral_decoy",
    log_tampering     |-> "alerted_log_tampering",
    credential_exfil  |-> "alerted_credential_exfil",
    decoy_swallowed   |-> "alerted_decoy_swallowed",
    credential_search |-> "alerted_credential_search",
    payload_staging   |-> "alerted_payload_staging",
    plant_sudo        |-> "planted_sudo_cve",
    spawn_mysql       |-> "spawned_mysql",
    isolate           |-> "isolated",
    plant_aws         |-> "found_crown_jewel"]

Signals  == {Needs[r] : r \in DOMAIN Needs} \union PayloadDrops
Flags    == {Flag[r] : r \in Rule}

\* The keys of _fresh_observed: all that _deserialize_observed lets through.
Template == Signals \union Flags

\* A rule's condition; late says that the connection is over 600 seconds old.
Enabled(r, obs, late) ==
    /\ Flag[r] \notin obs
    /\ CASE r = "payload_staging" -> Cardinality(obs \intersect PayloadDrops) >= 3
         [] r = "plant_aws"       -> late
         [] OTHER                 -> Needs[r] \in obs

\* decide_action returns the first rule whose condition holds, or None.
Decides(r, obs, late) ==
    \E i \in 1..Len(Ladder) :
        /\ Ladder[i] = r
        /\ Enabled(r, obs, late)
        /\ \A j \in 1..(i - 1) : ~Enabled(Ladder[j], obs, late)

DecidesNone(obs, late) == \A r \in Rule : ~Enabled(r, obs, late)

\* Slip: a rule sets a flag that _fresh_observed does not know.
Fire_MisspeltFlag(r, obs) ==
    obs \union {IF r = "credential_exfil" THEN "alerted_cred_exfil" ELSE Flag[r]}

\* What a rule that fires leaves in observed: its flag, and for the proven
\* counter-AI hit the weaker rule's flag as well.
Fire(r, obs) ==
    obs \union {Flag[r]}
        \union (IF r = "llm_proven" THEN {Flag["llm_detected"]} ELSE {})

\* responses._REGISTRY: the decoy file a fired rule plants, and the ones that
\* are planted as credentials.
DecoyOf(r) ==
    CASE r = "plant_sudo"  -> {"sudoers_compat"}
      [] r = "spawn_mysql" -> {"my_cnf"}
      [] r = "plant_aws"   -> {"dev_credentials"}
      [] OTHER             -> {}

Decoy           == {"sudoers_compat", "my_cnf", "dev_credentials"}
CredentialDecoy == {"dev_credentials"}
=============================================================================
