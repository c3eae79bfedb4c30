------------------------------ MODULE Training ------------------------------
(***************************************************************************)
(* Training the action policy (plenith/training): the environment that     *)
(* plays an attacker's commands through the orchestrator and pays rewards  *)
(* (env.py, reward.py), the REINFORCE loop (train.py), and the co-         *)
(* evolution of an attacker and a defender policy (coevolve.py,            *)
(* adversary.py).                                                          *)
(*                                                                         *)
(* A policy is the number of updates its weights have seen, and picks any  *)
(* action.  A fact is an entry of session.observed: a key and, for the     *)
(* set-valued keys, an item.  What a command adds is any of the facts its  *)
(* class can yield (the orchestrator itself is modelled in Engagement).    *)
(* Rewards are in tenths.                                                  *)
(***************************************************************************)
EXTENDS Integers, Sequences, FiniteSets

CONSTANTS Yields,      \* command class -> facts a command of it may add
          Act,         \* defender actions: "noop", "isolate_session" and others
          Cap,         \* episode_cap
          MaxQueue,    \* commands of a simulated attacker, without its exit
          MaxEpisodes, \* episodes of a training run
          Rounds       \* iterations of co-evolution

Class == DOMAIN Yields
Exit == "leave"
SetKeys == {"credential_files_read", "payload_drops", "decoys_swallowed",
            "decoy_targets", "honeytoken_modifications"}
ASSUME TrainingAssumption ==
    /\ Exit \in Class /\ MaxQueue \in Nat
    /\ \A c \in Class : IsFiniteSet(Yields[c])
NewCreds(old, new) == Cardinality({f \in new \ old : f.key = "credential_files_read"})

VARIABLES
    job,       \* "train", "corpus" or "duel"
    phase,     \* "idle", "playing" or "over"
    queue,     \* env._cmd_queue
    played,    \* the commands of this episode
    observed,  \* session.observed
    prev,      \* env._prev_observed
    taken,     \* session.actions_taken
    ret,       \* the defender's rewards of this episode, added up
    quality,   \* the part of it that judges actions and answers
    adv        \* AttackerState and the attacker's rewards

episodeVars == <<queue, played, observed, prev, taken, ret, quality, adv>>

VARIABLES
    episodes,  \* episodes played
    policy,    \* updates the policy has seen
    best,      \* policy_best.npz: the return and the weights saved with it
    last,      \* policy_last.npz
    round,     \* co-evolution: iteration, stage, the two policies, their snapshots
    saved      \* defender_last.npz and attacker_last.npz

loopVars == <<episodes, policy, best, last, round, saved>>
trainingVars == <<job, phase, episodeVars, loopVars>>

NoAdversary == [steps |-> 0, last |-> "-", creds |-> 0, isolated |-> FALSE, ret |-> 0]
Start == [it |-> 1, stage |-> "attacker", defender |-> 0, attacker |-> 0, before |-> <<0, 0>>,
          undetected |-> -1, rolled |-> FALSE]
TrainingInit ==
    /\ job \in {"train", "corpus", "duel"} /\ phase = "idle"
    /\ queue = <<>> /\ played = <<>> /\ observed = {} /\ prev = {} /\ taken = <<>>
    /\ ret = 0 /\ quality = 0 /\ adv = NoAdversary
    /\ episodes = 0 /\ policy = 0 /\ best = [ret |-> -1000, policy |-> -1] /\ last = -1
    /\ round = Start /\ saved = <<-1, -1>>

-----------------------------------------------------------------------------
\* step_reward's set deltas, with the weights of RewardWeights
Under(key, facts) == {f \in facts : f.key = key}
Credit(facts) ==
    50 * Cardinality(Under("credential_files_read", facts))
      + 10 * Cardinality(Under("payload_drops", facts))
      + 80 * Cardinality(Under("decoys_swallowed", facts))
      + 40 * Cardinality(Under("decoy_targets", facts))
      + 30 * Cardinality(Under("honeytoken_modifications", facts))
\* step_reward's last two terms, and something_alert_worthy
Worthy(old, new) ==
    \E f \in new \ old : f.key \in SetKeys \cup {"ssh_persistence_attempt", "reverse_shell_attempted",
        "dns_exfil_attempted", "log_tampering", "credential_search_attempted"}
Fingerprint(slips) == IF slips THEN -100 ELSE 0
Judged(a, old, new, slips) ==
    (CASE a # "noop" /\ ~Worthy(old, new) -> -20
       [] a = "noop" /\ Worthy(old, new)  -> -30
       [] OTHER                           -> 0) + Fingerprint(slips)
StepReward(a, old, new, slips) == Credit(new \ old) + Judged(a, old, new, slips)
\* terminal_reward
Bonus(key, weight, facts) == IF Under(key, facts) # {} THEN weight ELSE 0
Terminal(n, facts) ==
    3 * n + Bonus("reverse_shell_attempted", 60, facts) + Bonus("ssh_persistence_attempt", 60, facts)
      + Bonus("log_tampering", 40, facts) + Bonus("dns_exfil_attempted", 40, facts)
      + Bonus("attempted_sudo_elevation", 100, facts)

\* env.reset: a new session
Fresh(q) ==
    /\ phase \in {"idle", "over"} /\ phase' = "playing"
    /\ queue' = q /\ played' = <<>> /\ observed' = {} /\ prev' = {} /\ taken' = <<>>
    /\ ret' = 0 /\ quality' = 0 /\ adv' = NoAdversary

\* env.step with commands q queued.  The orchestrator's own policy is a no-op
\* here, so nothing the ladder would set is set.
Remember_Never(new) == prev' = prev
Remember(new) == prev' = new
EnvStep(q, a, add, slips) ==
    LET cmd == Head(q)
        new == observed \cup add
        n == Len(played) + 1
        done == Tail(q) = <<>> \/ n >= Cap \/ cmd = Exit
    IN  /\ add \subseteq Yields[cmd]
        /\ queue' = Tail(q) /\ played' = Append(played, cmd)
        /\ observed' = new /\ Remember(new)
        /\ taken' = IF a = "noop" THEN taken ELSE Append(taken, a)
        /\ ret' = ret + StepReward(a, prev, new, slips) + (IF done THEN Terminal(n, new) ELSE 0)
        /\ quality' = quality + Judged(a, prev, new, slips)
        /\ phase' = IF done THEN "over" ELSE "playing"

-----------------------------------------------------------------------------
\* AttackerSim.episode: a replayed or a drawn sequence, always closed by exit
Episode(q) == Append(q, Exit)
Drawn == UNION {[1..n -> Class \ {Exit}] : n \in 1..MaxQueue}

\* train: an episode, then the update, then the checkpoints
TrainEpisode(q) ==
    /\ job = "train" /\ phase = "idle" /\ episodes < MaxEpisodes
    /\ Fresh(Episode(q)) /\ UNCHANGED <<job, loopVars>>
\* evaluate_on_corpus puts a recorded sequence in the queue, whatever it ends with
CorpusEpisode(q) ==
    /\ job = "corpus" /\ episodes < MaxEpisodes
    /\ Fresh(q) /\ episodes' = episodes + 1
    /\ UNCHANGED <<job, policy, best, last, round, saved>>
Play(a, add, slips) ==
    /\ job \in {"train", "corpus"} /\ phase = "playing"
    /\ EnvStep(queue, a, add, slips)
    /\ UNCHANGED <<job, adv, loopVars>>
\* the best checkpoint is written after the update
Learn ==
    /\ job = "train" /\ phase = "over"
    /\ phase' = "idle" /\ policy' = policy + 1 /\ episodes' = episodes + 1
    /\ best' = IF ret > best.ret THEN [ret |-> ret, policy |-> policy + 1] ELSE best
    /\ last' = IF episodes + 1 = MaxEpisodes THEN policy + 1 ELSE last
    /\ UNCHANGED <<job, episodeVars, round, saved>>

-----------------------------------------------------------------------------
\* AttackerState.record_action and attacker_reward, which looks at last_action
\* after record_action has set it
RecordAction(class) == [adv EXCEPT !.steps = @ + 1, !.last = class]
AttackerReward(state, class, old, new, a) ==
    2 + 50 * NewCreds(old, new)
      + (IF \E f \in new \ old : f.key = "ssh_persistence_attempt" THEN 60 ELSE 0)
      + (IF \E f \in new \ old : f.key = "dns_exfil_attempted" THEN 50 ELSE 0)
      - (IF a # "noop" THEN 15 ELSE 0)
      - (IF a = "alert_attacker_llm_detected" THEN 80 ELSE 0)
      - (IF a = "isolate_session" THEN 100 ELSE 0)
      - (IF state.last = class /\ class # Exit THEN 5 ELSE 0)
\* terminal_attacker_reward asks observed, not the attacker's own state
Isolated(facts) == \E f \in facts : f.key = "isolated"
TerminalAttacker(state, facts) ==
    (IF ~Isolated(facts) /\ state.creds >= 3 THEN 80 ELSE 0)
      - (IF state.creds = 0 /\ state.steps < 5 THEN 20 ELSE 0)

\* _run_one_episode: the queue is filled with one command before every step
DuelEpisode ==
    /\ job = "duel" /\ phase = "idle" /\ round.it <= Rounds
    /\ Fresh(<<>>) /\ UNCHANGED <<job, loopVars>>
DuelStep(class, a, add, slips) ==
    LET state == RecordAction(class)
        new == observed \cup add
        paid == AttackerReward(state, class, observed, new, a)
        after == [state EXCEPT !.creds = @ + NewCreds(observed, new),
                               !.isolated = @ \/ a = "isolate_session"]
    IN  /\ job = "duel" /\ phase = "playing" /\ adv.steps < Cap
        /\ EnvStep(<<class>>, a, add, slips)
        /\ adv' = [after EXCEPT !.ret = @ + paid
                     + (IF phase' = "over" THEN TerminalAttacker(after, new) ELSE 0)]
        /\ UNCHANGED <<job, loopVars>>

\* coevolve: the attacker is trained on its episodes, then the defender, then
\* both meet and are kept or rolled back.  One episode stands for each batch.
TrainAttacker ==
    /\ job = "duel" /\ phase = "over" /\ round.stage = "attacker"
    /\ round' = [round EXCEPT !.stage = "defender", !.attacker = @ + 1,
                              !.before = <<round.defender, round.attacker>>]
    /\ phase' = "idle" /\ UNCHANGED <<job, episodeVars, episodes, policy, best, last, saved>>
TrainDefender ==
    /\ job = "duel" /\ phase = "over" /\ round.stage = "defender"
    /\ round' = [round EXCEPT !.stage = "match", !.defender = @ + 1]
    /\ phase' = "idle" /\ UNCHANGED <<job, episodeVars, episodes, policy, best, last, saved>>
\* with one episode, the undetected rate is 0 or 1 and always off by more
\* than the threshold when it changes
Undetected == IF Isolated(observed) THEN 0 ELSE 1
Jumped == round.undetected # -1 /\ Undetected # round.undetected
Triumph(mean) == mean < 0 /\ round.undetected = 1 /\ Undetected = 0
RollsBack(mean) == Jumped /\ ~Triumph(mean) /\ mean < -100
Restore(r) == [r EXCEPT !.defender = r.before[1], !.attacker = r.before[2], !.rolled = TRUE]
Match ==
    LET r == IF RollsBack(ret) THEN Restore(round) ELSE [round EXCEPT !.rolled = FALSE]
    IN  /\ job = "duel" /\ phase = "over" /\ round.stage = "match"
        /\ round' = [r EXCEPT !.stage = "attacker", !.it = @ + 1, !.undetected = Undetected]
        /\ saved' = <<r.defender, r.attacker>>
        /\ phase' = "idle" /\ UNCHANGED <<job, episodeVars, episodes, policy, best, last>>

TrainingNext ==
    \/ \E q \in Drawn : TrainEpisode(q) \/ CorpusEpisode(q)
    \/ \E a \in Act, slips \in BOOLEAN :
          \/ \E add \in SUBSET (IF queue = <<>> THEN {} ELSE Yields[Head(queue)]) : Play(a, add, slips)
          \/ \E class \in Class : \E add \in SUBSET Yields[class] : DuelStep(class, a, add, slips)
    \/ Learn \/ DuelEpisode \/ TrainAttacker \/ TrainDefender \/ Match
-----------------------------------------------------------------------------
\* The return of an episode is what its outcome is worth: every observation is
\* paid for exactly once whatever the order it came in, the judgement of every
\* step is in it, and the terminal bonus is paid once, at the end, for the
\* commands really played (DeceptionEnv.step, step_reward, terminal_reward).
ReturnIsEarned ==
    ret = Credit(observed) + quality + (IF phase = "over" THEN Terminal(Len(played), observed) ELSE 0)
          \/ phase = "idle"
=============================================================================
