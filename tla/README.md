# Plenith: TLA+ specifications

Plenith is a deception host: an SSH server that accepts every login, answers
commands from a simulated machine (partly with a language model), observes what
the intruder does, raises alerts and plants further bait. An identity proxy in
front of it scores connections and sends them to production, to a step-up
authentication gateway, or to the decoy. These specifications cover the parts
whose correctness depends on order: files that several processes rewrite, state
that outlives a connection, awaits in the middle of a command, deadlines.

## 1. Inventory

| Component | State | Operations | Interacts with |
|---|---|---|---|
| Kill switch (`plenith/kill_queue.py`, `ssh_server.py`) | `kill_requests.json`; the server's view of it, the live connections, `_closed` per connection | `request_kill`, `cancel`, `mark_killed`, `_gc`; poll tick, `_apply_kill`, `connection_lost` | dashboard and API processes write the file, the server reads and writes it |
| SSH server (`ssh_server.py`) | connections, one command queue and one worker each | `connection_made`, `_run_worker`, `connection_lost` | session, orchestrator, kill queue, in one event loop |
| Engagement (`session.py`, `state_store.py`, `session_logger.py`) | one JSON file per (address, user); in memory `observed`, honeytokens, actions; one log per connection | restore, `update_observations`, `observe_vfs_event`, `plant_decoy`, save, log | store shared by consecutive or overlapping connections |
| Rules and policies (`heuristics.py`, `responses.py`, `policy.py`) | the `alerted_*` flags in `observed`; `actions_taken` | `decide_action`, `TrainedRLPolicy.decide`, executors | called twice per command |
| Counter-AI (`counter_ai.py`) | rolling scores, armed and proven flags, marker | `observe_command`, trap, `to_dict`/`from_dict` | session, state store |
| Orchestrator (`orchestrator.py`) | none of its own | `handle_command`, `_maybe_record_action`, about fifteen file handlers | language model (awaited), VFS, session |
| Virtual file system (`vfs.py`) | `_files`, `_baseline`, `_deleted`, `_tampered`, renderers | `read`, `write`, `append`, `touch`, `unlink`, `to_dict`, `restore` | event callback to the session |
| MFA gateway, push service, routing (`linux-fork/mfa`, `linux-fork/routing`) | challenges, push requests with a ttl, `<ip>.pass` and `<ip>.fail` | `_run_challenge`, polling, `_write_decision`; create, approve, deny, poll; `_consume_decision`, `pick_upstream` | each other, over HTTP and files |
| Codes, enrollment, providers (`totp.py`, `enrollment.py`, `mfa_providers.py`) | the enrollment file; what a provider client remembers of a push | add, rotate, revoke, `verify_totp`; `request_push`, `poll` | gateway, outside services |
| PROXY listener (`proxy_protocol.py`, gateway, agent) | real address per local port | strip, forward, look up, forget | both SSH servers |
| Connectors and escalation (`plenith/connectors/`, `escalate.py`) | batches, one TCP connection and its lock | `emit`, `flush`, fan-out, `send`, escalate | outside services |
| Analyst overlay (`acks.py`, `notes.py`, `snapshot.py`, API and dashboard handlers) | two JSON files, archives | acknowledge, undo, note, snapshot, decide | API event loop and dashboard threads |
| Logs read back (`tools/audit.py`, `aggregations.py`, listings of the API) | none | load, merge, count | sessions rewrite the logs meanwhile |
| Retention, backup, restore | plans, archives | plan, apply; archive, roll; verify, extract | live files |
| Audit chain (`audit_chain.py`, `tools/verify_chain.py`) | hashes in the log, the tip | stamp, verify | whoever can write to the directory |
| Heartbeat (`heartbeat.py`) | one file per host | beat, stop, classify | two agents in a restart, the roster |
| Dashboard page (`tools/dashboard.py`, `dashboard_scripts.py`) | page, browser storage, requests under way, stream | swap, toast, acknowledge, undo, note, hold Kill, load fragments, preview, filter, page, move panels, TV mode | dashboard threads, another tab |
| Decoy services (`linux-fork/tools`) | listeners, handshakes, event log | accept, answer, log | none |
| Start-up (`run.py`, `secrets.py`, `plugins.py`) | configuration, cache of secrets, registry | resolve, build, discover, dispatch | vaults, plugin files |
| Training (`plenith/training/`) | queue, episode, rewards, two policies | reset, step, train, duel, round | orchestrator |
| Rendering, reports, generators, tools | - | - | read-only |

`PROJECT.json` lists every component with its status and, for those left out,
the reason.

What is hard, and what must hold:

* **Kill switch.** Three processes load and replace one file without a lock; the
  server acts on a view up to a tick old; a request can outlive the connection
  it was meant for. A kill must hit every connection it was made against and no
  later one; a killed session runs no further command; a request that stays
  pending is served.
* **Engagement.** State is saved only when a connection ends, before the log, by
  whichever connection ends last; the model is awaited between two passes of
  the rules; processes crash. An alert is raised once, no alert is left waiting,
  and what the store says was alerted is in a log. What the detector and the
  trained policy know must come back with it, or not be needed.
* **Virtual file system.** A body may be invented on each read until the
  intruder touches the path, and then never again, over removals, copies,
  decoys planted on the same path, reconnects. To the intruder it must be a
  disk; to the analyst every use of bait must be on record.
* **Step-up authentication.** Two deadlines race a late answer; files are
  written in place while workers read them; clients leave without notice; a
  secret is retired while a login is being checked; a port is reused. Nobody
  gets in without a factor of their own, under their own address; every
  challenge ends.
* **Delivery of alerts.** Batches are swapped out around an await that other
  senders overtake; a remote end refuses or stops reading. No alert is counted
  twice or left nowhere, and one dead sink holds nobody else up.
* **Files with several writers and readers.** Load and replace by two processes,
  readers between truncation and write, plans that are stale when applied,
  a final beat in place. What was confirmed is there, what is reported was.
* **Dashboard page.** Answers late, lost or out of order while the stream swaps
  the panels under the operator. The page ends up showing what is so, and takes
  nothing from the operator's hands.

## 2. Modules

| Module | Models | Role |
|---|---|---|
| `KillSwitch` | kill_queue.py, ssh_server.py | state machine, FairSpec, `IInv` |
| `Heuristics` | heuristics.py, responses.py registry | the rule ladder as operators |
| `Engagement` | session.py, state_store.py, orchestrator.py `handle_command`, session_logger.py | state machine over `Heuristics` |
| `CounterAI` | counter_ai.py over the connections of an engagement | state machine |
| `TrainedPolicy` | policy.py in place of the rules | state machine |
| `FileContents` | | bodies and renderings, shared |
| `ShellFS` | | abstract specification: a plain disk |
| `VirtualFS` | vfs.py, file handlers of orchestrator.py, session.py's file observations | implementation of `ShellFS` |
| `MfaRouting` | mfa_gateway.py, push_sim.py, score_and_route.lua | composition of the three programs over the decision files and one clock |
| `MfaIdentity` | enrollment.py, mfa_enroll.py, totp.py, mfa_providers.py | codes and pushes as two state machines |
| `ProxyFront` | proxy_protocol.py and its two listeners | state machine |
| `AlertDelivery` | connectors, escalate.py | state machine split at every await |
| `CaseOverlay` | acks.py, notes.py, snapshot.py, the handlers of API and dashboard | load and replace by several workers |
| `Reports` | audit.py, aggregations.py, API listings | readers over logs being rewritten |
| `Upkeep` | retention.py, backup and restore | state machine |
| `AuditChain` | audit_chain.py, verify_chain.py | writer, edits, verifier |
| `Heartbeat` | heartbeat.py | two agents, one file |
| `ConsoleFeed`, `ConsoleDesk`, `ConsoleViews`, `ConsoleList` | dashboard.py stream, dashboard_scripts.py | the page, in four parts |
| `Decoys` | ot_decoys.py, fake_service.py | state machine |
| `Startup` | run.py, secrets.py, plugins.py, secrets_check.py | state machine |
| `Training` | plenith/training | state machine |
| `KillSwitchProofs`, `EngagementProofs`, `VirtualFSProofs`, `MfaRoutingProofs` | | proofs about the module of that name |
| `DeliveryProofs` | | proofs about `AlertDelivery` |
| `ConsoleProofs` | | proofs about `ConsoleFeed`, `ConsoleDesk`, `ConsoleViews`, `ConsoleList` |
| `RecordsProofs` | | proofs about `CaseOverlay`, `Reports`, `Upkeep`, `AuditChain`, `Heartbeat` |
| `PeripheryProofs` | | proofs about `ProxyFront`, `MfaIdentity`, `CounterAI`, `Startup`, `TrainedPolicy`, `Decoys`, `Training` |
| `MC_KillSwitch`, `MC_Engagement`, `MC_VirtualFS`, `MC_MfaRouting` | | instances |
| `MC_Ends` | | `KillSwitch` and `AlertDelivery` with their fairness |
| `MC_Records` | | `CaseOverlay`, `Reports`, `Upkeep`, `AuditChain`, `Heartbeat` |
| `MC_Console` | | the four parts of the page |
| `MC_Periphery` | | the parts around the agent |

The last four put components side by side that share no variable: `part`, chosen
in the initial state, says whose behaviour it is. Interleaving components that
cannot see each other would multiply the states and find nothing.

Definitions named `X_Y` are plausible wrong versions of `X`. No specification
uses them: put in the place of `X`, each makes the property it is kept for fail,
which is how the properties are tested.

### KillSwitch

`file` is the JSON file: per engagement an entry with status, `requested_at` and
`killed_at`. An operator's call is two steps, load and rename (`RequestKill`,
`CancelKill`, then `OperatorWrite` or `OperatorWriteFails`). In the server
`PollRead` is the tick's load (with `_gc`), `Visit` applies the kill to one live
connection, `ServerReturns` is the rename at the end of `mark_killed` or
`cancel` and what follows it (closing the channel). While `pc` is not `"idle"`
the event loop is in such a stretch and no other callback of the server runs;
operators and the clock do. `WorkerTurn` is one turn of `_run_worker` with its
fast-path check against the view. `clicks`, `killReq`, `opReq` and `faults` are
observers: no guard of the code's behaviour depends on them except through the
bounds.

### Heuristics and Engagement

`observed` is the set of its truthy keys. The sixteen rules are a sequence, each
with the key it needs and the flag it sets; `Decides` is the first enabled one.
A command is `Command` (observations from its text), a first pass of
`FireRule`/`EndPass`, the dispatch (`DispatchLocal` with its file events, or
`DispatchLlm`/`LlmReturns` with the loop free in between), a second pass, and
the log, which is truncated and then written (`EndPass`, `LogWritten`).
`Lost`/`Closed` are the two halves of `connection_lost`, `Crash` ends the
process without it. Which text raises which observation is a set of regular
expressions in the code and a free choice here, so nothing depends on them.

### FileContents, ShellFS and VirtualFS

A body is a sequence of lines; a line is typed, planted (named by its path) or
added by a renderer. `VirtualFS` has the five maps of `vfs.py` and one action
per handler: echo with `>` and `>>`, truncation, touch, rm, cp, mv, mkdir,
rmdir, cat, the text tools, grep and recursive grep, planting a decoy, reconnect
(`to_dict`, JSON, `restore`) and crash. Each action includes the file events it
raises and what `observe_vfs_event` makes of them. `ModelAnswers` is a command the
language model answers: its prompt has quoted it the bodies of files, bait
included, all but the `Unprompted` ones, so the screen may show them with no read
on record. `source` says who filled the screen. `ShellFS` knows one disk and
the copy kept for the next connection; a path whose body is still invented is
`Live`. `ActsLikeADisk` is `ShellFS!Spec` under the mapping `DiskOf`.

### MfaRouting

The gateway is one event loop; `gw` is the challenge inside `_write_decision`,
whose unlink, unlink, open and write are separate steps to the workers. A
challenge goes `new`, `request`, `poll`/`asleep`, `totp`, `writing`, `done`.
`Leave` is a client that goes away: the next message to it raises and the
handler writes "fail". A worker reads `.pass`, then `.fail`, then scores; read
and removal are separate steps. A removal may fail, which the code does not look
at; the observer `leftover` counts how often a used decision stayed. The check of
a typed code is external (`totp.py`): a line is valid or not.
Where a passed challenge lets someone in is decided here; whether a code or a
push is the user's is `MfaIdentity`.

### CounterAI and TrainedPolicy

A command is what the scores see of it: lexical purity in hundredths, probe or
not, the pause before it. The scores are the integer arithmetic of the rolling
window. Reading the decoy delivers the marker, a later echo proves it;
`to_dict`, `from_dict` and the flags in `observed` decide what a reconnect or a
crash keeps. An identity may have several connections at a time, each restored from
the same record; the last one to save wins, and a save may fail. The history `line`
of a connection is what was typed and raised in it and in those whose records it
comes from, `ever` is all of it, `broken` says that the two may differ.
In `TrainedPolicy` the network may answer anything (`forward`);
`Masked` takes out what `actions_taken` holds, and one `Turn` is one round of
the loop. `trap` keeps, per decoy, the visit that planted it last and whether that
visit wrote over what the attacker did to it.

### AlertDelivery

A sender is one coroutine going through the fan-out (batching, TCP with lock,
SOAR container and artifacts) and then the chat connectors. Each emitter is
split at its awaits, so that another sender may run between taking the batch and
the answer to its POST. Failures are refusals, silent peers and a peer that
stops reading; only the last has no time limit in the code.

### CaseOverlay, Reports, Upkeep, AuditChain, Heartbeat

`CaseOverlay`: every change is a load by one worker and a later replace, with a
token check before and an answer after; two workers may hold the same old copy.
A snapshot reads four sources one after the other. `Reports`: a log is absent,
half written or a sequence of events; a gatherer opens the logs one at a time.
`Reports` has the pages of the listings and the drill-in of a cell cut at their
limits. `Upkeep`: a purge plans, asks and deletes; a backup lists, hashes and
archives; a restore verifies and extracts. In between a session writes its log after
each command, saves its state when it ends, which may fail, and writes the log once
more (`session` says how far it is); other sessions of the identity save too.
`AuditChain`: a hash is a term naming what it covers, so equality of hashes is
equality of contents;
edits change, drop, repeat or truncate entries, with hashes recomputed or not,
and the tip is kept or lost. `Heartbeat`: `agent` is where each process is in
its loop; the farewell is the one write in place.

### The page

`ConsoleFeed` is the stream from gathering to the swap, with toasts, chime and
selection. `Gather` may miss a row, or its latest alerts, whose log is half written.
The panel is tagged with the first engagement of the list whichever is rendered in
it, so a swap may ask for the detail again. `ConsoleDesk` is the requests:
acknowledgements one by one or in runs of the ack-all handler, which may overlap,
undo, notes, the held Kill; an answer may be late or never come. The stream swaps
the panels unless the focus is inside; a detail that was asked for (`RenderDetail`,
`DetailComes`) replaces the panel wherever the focus is.
`ConsoleViews` is the fetched fragments and the preview modal, each with its own
guard against superseded answers. `ConsoleList` is the filter, pages, panel grid
and TV mode, redone after each swap. Its list is sorted by counting: a row stands
at the place given by how many rows come before it. Its grid is one sequence of
panels for each row of the page, changed by the DOM moves of the code
(`insertBefore`, `appendChild`) and not by the exchange they amount to, which is
proved.

### Decoys, ProxyFront, MfaIdentity, Startup, Training

`Decoys` answers by function code, length and count; a field too large for its
width makes the packing raise and the connection end. `ProxyFront` has the shapes
of a header the parser tells apart, the table keyed by local port, and ports
that come back while a bridge still lingers. `MfaIdentity` has a secret's number
and time step for a code, and per provider what the client remembers; a push is
requested (`RequestPush`), the response comes (`PushAnswered`) and a poll goes out
and is answered (`PollBegin`, `PollAnswer`) in steps of their own.
`Startup` goes through the configuration's references, builds the orchestrator,
then discovers plugins file by file. `Training` pays rewards in tenths for facts
that appear in any order.

## 3. Runs

| Run | Question | Bounds | Result |
|---|---|---|---|
| `kill_safety` | can a kill hit the wrong connection, miss one, or leave a command running? | 2 operators, 2 connections, 1 engagement, 3 times, 2 clicks, 1 failed write | holds |
| `engagement_reconnect` | are alerts raised once, all, and logged, over reconnects? | 3 connections, 2 commands, 1 failed write, 1 crash; an alert of the text and one of a file event | holds |
| `vfs_disk` | is the VFS a disk? | 4 paths (credential, log, decoy, scratch), 3 commands, 2 reconnects or crashes | holds |
| `vfs_bait` | is every use of bait on record? | 5 paths (honeytoken, credential, decoy, scratch, `.keep`), 3 commands, 1 reconnect | holds |
| `mfa_grant` | is a grant earned, a decision single, used once but for failed removals? | 2 challenges, 2 workers, 1 address, 2 times | holds |
| `mfa_ends` | does a challenge end? | 1 challenge, 1 worker, 2 failures, 3 times, all lines and answers, a context per pool | holds under fairness |
| `ends` | are kills served and sends finished; is every accepted alert in one place; does a severe escalation page? | kill: 1 operator, 2 connections, no failed write; delivery: 2 alerts, one emitter of each kind, 1 fault; 6 shapes of logs | holds under fairness |
| `records` | do the files keep what was confirmed and tell what was? | overlay: 2 engagements, 1 alert name, 2 notes, 2 workers, 3 requests, 1 fault; logs: 3 sessions of 2 cases on 2 hosts, 2 times, pages of 1; upkeep: 4 kinds of file, 2 bodies, 2 jobs, 1 mishap; chain: 3 entries, 2 edits; heartbeat: 2 agents, 6 seconds, 1 failed write | holds |
| `console` | does the page show what is so and take nothing away? | feed: 2 engagements, 2 alerts each, 4 attacks, clicks, breaks and torn gathers; desk: 2 alerts, 3 requests, 2 ack-all runs; 2 settings; 4 rows, 5 list moves | holds |
| `periphery` | eight parts around the agent, see below | 1 link and 2 frames; 2 clients, 2 ports; 2 users, 2 logins, 2 pushes, 4 providers; 6 references, 5 plugin files; 2 episodes; 6 commands over 3 connections; 3 actions, 3 commands over 3 connections | holds |
| `kill_reclick` | does an accepted kill reach the live connection? | 1 operator, 1 connection | violated |
| `mfa_race` | does a decision admit one session? | 1 challenge, 2 workers | violated |

What the composed runs show:

* `ends`: `PendingKillIsServed`, `HonouredKillClosesChannel` and `SendEnds`
  (liveness), `BatchKeepsCount`, `SevereEscalationPages`.
* `records`: `OverlayKeepsPromises` (what was answered "ok" is in the file unless
  another worker replaced it from an older load), `ListingIsWhole` and
  `ChartsAddUp` (readers against writers, and the charts against each other),
  `StateOutlivesLog` and `BackupHoldsTheSteady` (purge and archive against live
  saves), `DamageIsNoticed` (the chain detects what it promises to, and nothing
  else), `RosterTellsTheTruth` (clean leave, crash and life told apart).
* `console`: `FeedIsFaithful` and `ToastsAreNews` (nothing unannounced, nothing
  twice), `AcksAreHonest`, `NoteTextKept`, `KeyHoldIsDeliberate`,
  `ViewsAreOfTheirTitles`, `PageStaysInOrder`.
* `periphery`: `DecoysKeepFace`, `NobodyElsesAddress`, `RetiredSecretIsDead`,
  `ApprovalIsFresh`, `StartIsSound`, `ReturnIsEarned`, `EchoIsProvenOnce`,
  `PassEndsByItself`.

Why the bounds are enough for the cases meant: two connections of one
engagement are a predecessor and its successor, or two targets of one kill; two
operators are a click and an undo or a second click that overlap; three times
order a click before, at and after an opening. Three connections let an
engagement be saved, resumed and resumed again, with an overlapping one. Three
commands are a detour (copy bait, copy the copy, print it) or a removal, a
re-creation and a read around a reconnect. Two challenges and two workers are
the least that can overwrite and race; a grace period of 0 makes one tick
stale. Deadlines are cut off at the modelled end of time (`Deadline`), so every
wait can run out within the bound. Two senders and a batch of two let a flush by
size overtake one by window; three overlay requests are a change, one that
overlaps it and one that follows; two sessions of a case are read one before and
one after a rewrite, and with a third on the same host a cell has more
engagements than its drill-in shows; six commands fill and pass a window of four and
leave one for a second echo; a pass that could take one turn more than there are
actions is not stopped by its cap of six before; three chained entries have a first,
a middle and a last one, and two edits can hide one another; two agents overlap in a restart.
On the page, three requests are a click, its undo and one answered out of order,
and four rows with pages of two have a page that empties under a filter. Frame
sizes and counts lie on both sides of each limit in the code.

Symmetry is used in safety runs only, over connections and operators, challenges
and workers, or the overlay's engagements and threads, which are
interchangeable in the initial states and actions. Deadlock is checked for the
kill switch (`kill_safety`); the other systems may come to rest (every
connection closed, all bounds used).

Fairness. `KillSwitch`: weak fairness of the poll tick, the visits and the
returns of file calls, the server's own loop, which sleeps a fixed time and
catches every exception. `MfaRouting`: weak fairness of the clock, the gateway's
steps, its file writes and the push service's answer, all of which run on their
own. `AlertDelivery`: weak fairness of each sender's next step; the HTTP calls
have timeouts in the code, and the drain of the TCP connection, which has none,
is not fair once the peer has stopped reading. Nothing is assumed of operators,
clients, phones, inbound connections, or of failures. In `MC_Ends` each
condition is conjoined with its part, as the other part's program does not run.

### Divergences shown by runs

* **A second click keeps the first click's time** (`kill_reclick`).
  `request_kill` on a pending entry updates who and why but not
  `requested_at`; a connection that opened between the clicks finds the entry
  older than itself and discards it, although the operator was told it "will
  terminate on next orchestrator tick".
* **Two workers share a decision** (`mfa_race`). Read and `os.remove` are two
  calls and the result of the second is not looked at.

### Further divergences the models contain

No run is kept for these; they are behaviours of the modules above, and the
passing properties are stated so that they allow them.

Agent and engagement:

* The fast path of the worker judges an entry of the view and cancels in the
  file by engagement, so a newer request can be discarded for an older one
  (`WorkerTurn`, `ServerReturns`).
* Whole-file rewrites by different processes lose updates: a request of another
  engagement recorded between load and rename is gone (`OperatorWrite`).
* If `mark_killed` raises, `_closed` is set and the channel stays open; later
  ticks return early (`ServerReturns` with a fault; hence `MaxFaults = 0` in
  `ends`).
* Two overlapping connections of one identity each raise the same alert, and the
  later save drops what the other saw (hence `Undisturbed`).
* A reconnect regenerates the honeytokens: a planted credential is restored with
  the file system but not as a honeytoken (`session.py:157`, against the
  docstring at 425-427), so reading it raises no credential alert.
* The trap of a decoy is a renderer, which a reconnect does not register again
  (`session.py:166`), and a detector restored without its marker stays without one
  for good (`counter_ai.py:296-301`).
* Overlapping connections of an identity, or a save that fails, lose scores of the
  detector, and its alerts may be raised again (`ssh_server.py:303-314`; hence
  `broken` and the `line` of a connection).
* The trained policy reads what it has done from `actions_taken`, which starts
  empty in each connection, so a reconnect plants again over a decoy the attacker
  touched earlier (`policy.py:300`, against `responses.py:16-20`).
* The language model is given the bodies of bait in its prompt, with the order to
  return the exact bytes, so that a command it answers can print bait that no read
  event records (`orchestrator.py:303-305`, 876-900 and 945-998; `ModelAnswers`;
  hence `BaitTakenIsObserved` excepts such a screen, but for the private key, whose
  body no prompt holds).
* `_safe_key` is not injective: `a b` and `a_b` share an engagement (`KeyOf`).
* Seeded system files have "" as their baseline, as they were absent before
  (`BaselineBefore`; hence `TamperingIsEvident` speaks of honeytokens).
* `exists` does not know a path that only has a renderer: the login log can be
  printed but not searched before it is printed once (`Exists`).
* `matched_files` of a recursive grep accumulates, so a credential opened after
  any earlier match counts as read (`orchestrator.py:733-735`).

Authentication:

* A removal that fails is not noticed, and serial connections then use one decision
  for its whole grace period (`score_and_route.lua:132-138`; hence `leftover`).
* Decisions belong to an address: another user's abandoned challenge there
  replaces an unused pass by a fail (`Wipe`, `Create`).
* After a sleep the deadline is looked at before the push, so a late denial is
  not seen and the code prompt follows (`mfa_gateway.py:189` and 421-422).
* A line typed before the prompt counts as the code (`mfa_gateway.py:350`).
* A revoked user falls back to the demo secret; an enrollment made while the
  store is unreadable rewrites it with that user alone; a code stays good for
  its whole window and can be used twice in it.
* Okta's pushes of a user share one token, and the response that comes last decides
  which push it leads to: of two logins that overlap, the yes to the earlier push
  may approve the later one (`mfa_providers.py:209-222`).
* The gateway may look up an address before the listener filed it and then
  shows the loopback address (`mfa_gateway.py:250-264` and 503).

Alerts, files and start-up:

* The window of a batch is looked at when the next alert comes: the last ones of
  a quiet night wait (`siem.py:79`). A batch is cleared before its POST and lost
  if that fails (`siem.py:89`).
* A session has a log before it has a state: the first one until it ends, one
  resumed after its old state was purged, one that dies or cannot save
  (`ssh_server.py:208-216` and 303-316). Retention windows may also be set so that
  states go first (`retention.py:166-177`); `StateOutlivesLog` says which cases are left.
* The drill-in of a cell of the heatmap shows twenty engagements at most, so a larger
  cell does not add up with it (`aggregations.py:344`).
* A log cut at the end after its tip was lost verifies; `--json` of the verifier
  ignores `--no-allow-legacy`.
* An ambiguous id prefix is refused by some endpoints and taken as its first
  match by others (`server.py:822-832`).
* Plugins are discovered after the orchestrator and the secrets they could
  provide a policy or a backend for (`run.py:28`, 82 and 90).
* A service the host does not support, or a missing `ot_decoys`, is skipped and the
  host runs with the rest (`fake_service.py:205-223`), while one port that cannot be
  bound takes all decoys of the host down; large counts
  overflow a field and drop the connection; the first S7 frame is not logged.
* An isolation never enters the count the reward is drawn from, and the
  co-evolved policies are trained on episodes of one step.

The page:

* A Kill held by pointer whose button a swap replaces never hears the release
  (`dashboard_scripts.py:1506`).
* Text typed ahead of the answer to Save is wiped by it (1677-1690).
* A detail replaces the panel under the focus (`dashboard_scripts.py:834-840`): the
  text of an unsaved note is gone, a key held on Kill may fire after its release, and
  acknowledgements of before an answer come back.
* The first answer of an ack-all run enables its button again (1287-1288), so that
  two runs can overlap.
* A connection that primes itself while a log is half written takes the alerts it
  could not read for news at its next turn (`audit.py:209-214`).
* An alert of an engagement that appeared while the stream was down is neither
  toasted nor chimed; an undo leaves the page as it was until the next swap;
  applying the filter alone shows rows of every page; the rate chart looks
  whether it was superseded before it reads the body (3117).

## 4. Proofs

Checked by TLAPS for every value of the constants that satisfies the named
assumptions of the modules, and for behaviours of any length. The bounds
(`MaxClock`, `MaxFaults`, ...) are constants like any other, so a theorem covers
every bound. Of the runs' properties 36 are stated by a theorem: all that the code
keeps, but for the four of liveness. Components that
`MC_Records`, `MC_Console` and `MC_Periphery` put side by side have a
specification of their own in the proof module (`ProxySpec`, `ChainSpec`, ...),
from the same initial predicate and next-state action as the run.

**`KillSwitchProofs`**: `TypeOK`, `NoInheritedKill`, `SeenKillSparesNoOne` and
the action property `NoCommandAfterKill`. `NoInheritedKill` alone is not
inductive: that a kill goes back to a click made after the opening depends on
every copy of the file that is under way. `IInv` adds `CopiesInv` (every
pending entry in the file, the view, the server's and the operators' dicts
carries the time of a real click), `TimeInv` (nothing is stamped in the
future), `LoopInv` (what the event loop holds agrees with where it is),
`KillInv` and `VisitInv` (within a tick, what has been visited is settled).
Assumed: the TTL and bounds are naturals, `NoOne` is no connection.

**`EngagementProofs`**:

* `LadderDrained`. `CountInv` bounds the turns of a pass by the number of flags
  set, which a rule that fires raises (`FiringMarks`); with sixteen rules and a
  loop of more than sixteen, a pass ends only because nothing is decided.
  `IdleInv` and `SaveInv` carry the drained ladder over the await, the save and
  the restore, `LoopInv` says which connection is in a pass.
* `OnceIfUndisturbed`. `TurnInv` holds while connections of an identity take
  turns and nothing fails: engagements are `Numbered`, an engagement is filed under
  one key (`OneKey`), at most one connection of a key is up (`Alone`), and it is
  one ahead of the file (`Counted`). With it `OnceInv` says that the flag of a
  rule that has fired is where the engagement is: in the live connection, or in
  the store when there is none.
* `RememberedAlertIsLogged`. `LogInv`: a flag of an open connection has its action
  among that connection's or in a finished log of the engagement; a flag in the
  store has it in a finished log or with a connection about to write its own.

Assumed: `Cap` exceeds the length of the ladder (20 and 16 in the code), every
identity has a key, the observations of the instance are keys of the template.

**`VirtualFSProofs`**:

* `TamperingIsEvident`. `EvidentInv` says the same of the state file, because a
  reconnect or a crash makes it memory; that no renderer serves a honeytoken,
  because a read would put its output in the file's place; and that the session
  knows all its seeded honeytokens, because only those are noted.
* `BaitTakenIsObserved`. `BaitInv`: the planted text of a path is only in that
  path, or in another file or on the screen of a session that has read it, in
  memory and in the state file alike; what the language model printed was in
  its prompt (`Shown`); a decoy's text exists nowhere before the decoy is planted.
* `ActsLikeADisk`, the refinement of `ShellFS`. `DiskInv`: a path that is rendered
  or a planted decoy, and has not been tampered with, holds nothing or one of its
  renderings, a deleted path holds nothing, and only logs and planted decoys are
  rendered. Then every action maps to a step of the plain disk or to none; there is one
  lemma per kind of step (the `Mapped...` lemmas).

Assumed: honeytokens, system files, placeholders, logs and decoys are different
paths (`VfsAssumption`, `ContentAssumption`).

**`MfaRoutingProofs`**:

* `GrantIsEarned`. `WriterInv`: the challenge being written stays there and writes
  "pass" only with a good factor. `FileInv`: a complete `.pass` was written by a
  finished challenge of that address. `WorkerInv`: so was one that a worker holds.
  The lemma `ChallengesKept`, that nobody touches a challenge that is being
  written or done, makes the three inductive.
* `OneDecisionOnFile`. `OneInv`: while no call has failed, no address has two
  readable decisions, and what the gateway has unlinked stays away until it
  fills its own file.
* `SingleUseIfSerial`. `SerialInv` is a budget: workers that use a decision,
  readable files nobody is about to remove and the decision in the gateway's
  hand are together no more than the decisions written and the removals that
  failed (`BudgetInv`), for every address whose connections did not overlap
  (`AloneInv`). Without the last
  condition it is false, which `mfa_race` shows.

Nothing is assumed of timing or, but for the second, of failures. `MfaAssumption`
gives the timeouts, lines and statuses their types; `FiniteAssumption` makes
challenges and workers finitely many, so that they can be counted.

**`DeliveryProofs`**:

* `SevereEscalationPages`. A log that is not empty has a least rank and a first
  action of that rank (the least element of a set of naturals), and the headline
  is that action, so if any action is severe the headline is.
* `BatchKeepsCount`. `BatchInv`: no batch, waiting or under way, holds an alert
  twice, no two share one, what is settled is in none, and an alert was accepted
  just when it is in one of them; a batch under way belongs to a sender whose
  gather still waits for that emitter.

Assumed: the kinds of emitters are disjoint, the batch size is positive.

**`ConsoleProofs`**:

* `KeyHoldIsDeliberate`: a key is held only with the focus on the button, so no
  swap takes it away, and the hold a detail takes away is marked as lost.
  `NoteTextKept`: the box holds the text of the save under way or a later one.
* `AcksAreHonest`: `AckInv` follows, alert by alert and for each run of the ack-all
  handler, what the run still owes, what is under way and what is counted
  (`RunInv`), and says that an alert stands on the page as the server has it, unless
  its answer is on its way or something crossed (`CrossInv`).
* `ViewsAreOfTheirTitles`: the request with the latest number asks for what the
  chip says (`FragInv`), a preview waits for its own content only (`ModalInv`).
* `FeedIsFaithful` and the action property `ToastsAreNews`: no content is ahead of
  the log (`FeedInv`), and what a row last showed is remembered over swaps that miss
  it, so an alert that was not announced is not among those it showed (`KnownInv`); the detail
  shown is the one asked for last, or is under way (`DetailInv`). The keys toasted
  are in the copy that survives a reload, and a connection has seen all that was there
  at the load but what it could not read when it primed itself (`ToastInv`).

* `PageStaysInOrder`, in three invariants that no action mixes. `ListInv`: what the
  filter rejects is hidden, the page line names the page stored, and all rows
  together fill that page (which the visible ones alone may not: a filter leaves
  the page alone until the next sort or swap). That the rows stand sorted rests on
  `AscendingInOrder`: the count of smaller numbers is strictly monotone, so it
  is one to one into as many places as there are numbers, and takes them all.
  `GridInv`: the page, the arrangement in storage and every named one are layouts
  (each panel in one place, each row as long as it was served), the page follows the
  storage unless another tab wrote it since, and that cannot have left it empty.
  `TvInv`: one timer, just while TV mode is on and seen.
* `DragsExchangePanels`, an action property no run states. `_swapPanels` is two moves,
  and the first shifts the places the second refers to; `Exchanging` follows
  them place by place, in one grid row or two and for neighbours, and finds each
  panel where the other stood and no third one moved.

Assumed: the page size is positive and the page as served shows each panel once
(`ListAssumption`, `GridAssumption`).

**`RecordsProofs`**:

* `RosterTellsTheTruth`: while no two agents overlap, `BeatInv` follows the one
  that is there through its stages.
* `StateOutlivesLog`: once a session is over in order, its log is no younger than
  the state it was saved with (`RetentionInv`), so a plan that lists the state lists
  the log (`PlanTakesBoth`) and deletes it first. That the window of states is no
  shorter than that of logs, as in the defaults of the code, is a condition in the
  property and no assumption. `BackupHoldsTheSteady`: what has not changed since the
  job began was there in both of its passes (`BackupInv`).
* `OverlayKeepsPromises`: what no outdated save touched is the same in the file
  and in what was promised (`OverlayInv`).
* `DamageIsNoticed`: by induction over the places of a log of any length, the
  hash of each entry of a log that verifies covers all contents up to it.
* `ListingIsWhole`: an event that was on disk when the listing began is in a
  directory still to be entered, in a log still to be read, in one that was read
  or in what was put together (`ListingInv`).
* `ChartsAddUp`, and `ChartsAlwaysAgree` for every window, bucket width and number of
  buckets and also while listings run. `PartsAddUp` says that a finite set cut
  into parts by a function has as many members as the parts together; the buckets,
  the sparks of each alert, the cells of the heatmap and the drill-in are such
  parts of the alerts on disk (`BucketsAddUp`, `SparksAddUp`, `CellsAddUp`,
  `DrillInAddsUp`, the last for cells that the limit of the drill-in does not cut). That the top list
  leaves out no alert and counts none twice is `TopHasAll`: it is a listing of a
  finite set in some order. The invariant adds to `ListingInv` that what each
  sitting told is finite and dated (`SeenInv`). Assumed: sittings and alert names are
  finite (`FewAssumption`).

**`PeripheryProofs`**:

* `NobodyElsesAddress`: a filed port is held by a bridge, so nobody finds there
  what a stranger's listener filed (`ProxyInv`).
* `RetiredSecretIsDead` (`TotpInv`: secrets are numbered in order of issue) and
  `ApprovalIsFresh` (`PushInv`: a login asks after its own push or, with Okta, after
  one of its user whose response came no earlier: `OwnPushes`, `StateInv`,
  `LoginSound`).
* `EchoIsProvenOnce`. `EchoInv` says of every connection and of the record on file
  alike that the detector knows the line it belongs to and that flags and alerts of
  that line agree (`SoundSession` over `Sources`), and, while nothing was `broken`, that
  there is one line (`OneLine`).
* `StartIsSound` (`SecretInv`, `PluginInv`).
* `PassEndsByItself`. `NoRepetition` (no action stands twice in `actions_taken`)
  follows from the mask and gives, by counting an injection into the action space,
  the bound on a pass; `OwnPlants` says that a decoy the present connection planted
  is in it, which is why that connection does not plant it again. Assumed: the action
  space is finite and has no "noop", decoys are actions (`PolicyAssumption`).
* `DecoysKeepFace` (`DecoyInv`: each connection has answered what it was asked and
  its log has a line for each request) and `ReturnIsEarned` (`TrainInv`: the return so
  far is the credit of what has been observed; `CreditAdds` splits the credit of
  two disjoint sets of observations).

Only model-checked:

* The liveness properties `ChallengeEnds`, `PendingKillIsServed`,
  `HonouredKillClosesChannel` and `SendEnds`: fairness and `ENABLED` are out of
  the prover's reach.
* `AcceptedKillReachesLive` and `SingleUse`, which the code violates.

Where a proof needs an induction over data, the property is put in terms of a
least counterexample: the first place of a log at which a chain breaks, the
smallest set over which a sum is wrong. The models are written so that this is
possible: sums are the library's folds, of which no more is used than that a fold
takes one element after another, and sorting is a count of places, since the
library's `SortSeq` and `SelectSeq` take an operator and cannot be unfolded.

## 5. Plan

The order in which the system was taken up: the kill switch, the engagement and
its rules, the file system, step-up authentication; then delivery, the files of
the platform, the page, and the parts around the agent. Left to do:

1. Composition of `ProxyFront` with `MfaRouting`, so that a decision is filed
   under the address the listener found.
2. Overlapping connections of one identity over one file system.

## 6. Not modelled

Text (prompts, banners, alert wording and formats, narration, compliance
reports, generated content and its rotation, personas), parsing of command
lines, HMAC arithmetic, floating-point statistics, the numbers of the policy
network, TAXII (one bundle, pushed once), multitenancy (a stateless look-up),
tracing, export formats of the API, the dashboard's markup, style sheets, command
palette and chart drawing, the red team simulator and other offline tools. Paths
are canonical before they reach `VirtualFS`. Connections of one identity that
overlap share no file system model: `VirtualFS` follows one connection at a
time, `Engagement` and `CounterAI` several.
