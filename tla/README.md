# A TLA+ model of master-recovery

master-recovery splits a payload among *guardians* so that a threshold of *signers* can
authorise its recovery after a delay, during which the *owner* may cancel. Protocol v3
adds guardian epochs: a *rotation* replaces guardians, and *config witnesses* hold a
replicated register that says which epoch is active. The modules here model the
processes that keep state, one action per request handler, as the Rust code does it, and
the commands that call them, one step per attempt at a call.

## 1. Inventory

Paths are under `src/crates/`.

| Component | State | Operations | Code |
|---|---|---|---|
| Config witness (v3) | active capsule, pending successor and its ack, one-child locks, highest capsule, rotation vetoes, read nonces; one JSON file | provision, activate, finalize, cancel-rotation, read | `gp-network/src/server.rs` 578-1082, `gp-storage/src/rotation.rs` 454-536 |
| Fresh client | challenge, answers so far | read all witnesses, select the latest epoch | `gp-network/src/client.rs` 41-92, `rotation_protocol.rs` 727-830 |
| Guardian (v2) | pending, cancelled and released requests, nonces; clocks, boot id | provision, Begin, Cancel, Release | `server.rs` 1565-1601 and 1834-2016, `gp-core/src/lib.rs` 143-330 |
| Owner (v2) | one run of a command; card and owner-control file | set up a configuration; hard cancel, n-k+1 acknowledgements | `client.rs` 568-755 and 1484-1561 |
| Rotation signer (v3) | active capsule, intents, predecessor locks, votes, tombstones | Intent, Begin, Release, Activate, Abort, FinalizeAbort, FinalizeOwnerCancel | `rotation_runtime.rs`, `gp-storage/src/rotation.rs` 387-451 |
| Guardian (v3) | active, prepared and draining epochs, rotation sessions, recoveries, tombstones | rotation Begin, Cancel, repair and refresh rounds, stage, prepare, handoff, Activate, Abort, Retire; recovery Begin, Cancel, Release; aliases | `guardian_runtime.rs`, `recovery_runtime.rs`, `gp-storage/src/rotation.rs` 20-384 |
| Signer, recovery (v2, v3) | requests seen, nonces, rate limit | approve, release vote | `server.rs` 1292-1508, `recovery_runtime.rs` 31-120, `gp-storage/src/lib.rs` |
| Rotation coordinator | one run of a rotation; owner-control and rotation-control file | rotate, cancel a rotation | `rotation_coordinator.rs` |
| Recovery client | one run of a recovery | recover (v2, v3) with mirrored relays | `client.rs` 757-1368, 1563-1737 |
| Relay | registered mailboxes | register, forward | `server.rs` 293-496 |
| Config store (v2) | capsules by version | get, put | `server.rs` 499-577 |
| Core state machines | `RecoveryMachine`, `GuardianMachine`, `RotationMachine`, `EpochWitnessMachine`, `EpochRecoveryMachine` | `apply` and friends | `gp-core/src` |
| Cryptography, wire formats, transport, simulator, CLI, GUI, IPC | none of interest | | the other crates |

Components interact only by requests and replies over HTTP, forwarded by relays. A
handler reads the clocks, takes the mutex of its process's store, changes the entry in
memory, writes the whole store (`save_json`: temporary file, fsync, rename, directory
fsync) and then replies. Nothing is undone when the write fails.

What is hard: several coordinators, clients and an owner act at once, and each sees only
the replies it got; a failed write leaves memory ahead of the file; restarts take memory
back; a reboot restarts the monotonic clock; wall clocks jump; witnesses, signers and
guardians may be faulty up to a bound; old votes, acknowledgements and read quorums stay
valid after the state that justified them has gone.

What makes each component correct:

- witnesses: at most one child of a capsule is activated unless the owner vetoed the
  other; an activation and a veto of one rotation do not both complete; a fresh client
  never selects an epoch older than a completed activation; what was served or vetoed is
  durable;
- guardians: no contribution before the delay, an acknowledged cancellation excludes a
  contribution, a hard cancellation leaves fewer than k contributions, a rotation loses
  no recovery that has begun, and a released one does not hold up the retirement of its
  epoch;
- signers: one plan per predecessor at a time, one Activate vote per rotation, a finalized
  abort is final, and the lock on a predecessor goes with the tombstone of its plan;
- coordinator and owner: a rotation has one outcome, an epoch is served by witnesses only
  when all its guardians hold or have prepared their records, an undisturbed run ends;
- setup, recovery client and owner: a card stands for a complete configuration, a
  recovery and a hard cancellation of one request are never both reported, a recovery
  survives one outage, and one that has begun survives the rotations that replace its
  guardians.

Not all that the documents promise holds. Section 3 lists what fails, among it that a
timed-out plan aborts, that a signer is not taken back by old reads, and that a drained
epoch is retired in the end.

## 2. Modules

`X.tla` is the specification, `MCX.tla` its instances for TLC, `XProofs.tla` its
theorems.

### WitnessEpochs

One configuration, a set of witnesses, at most f of them faulty. `entry[w]` is the
`WitnessConfigEntry` in memory and `saved[w]` the one in the file; replies are the sets
`activation_acks` and `cancel_acks`, and `reader[r]` is what a client has. Actions:
`witness_activate` (`ActivateAgain` is the retry that is answered from the stored ack,
`ActivateFirst` the rest), `witness_finalize`, `witness_cancel_rotation`, `witness_read`,
`Restart`, `StartRead`, and `FaultyRead` for what a faulty witness may answer. Any
capsule with a signer certificate may be submitted at any time, so the coordinator's
order of calls is not assumed. `completed` and `vetoed` in a reader's state are history
for the properties.

### GuardianRecovery

The v2 guardians. `entry` and `saved` as above; `clock[g]` holds the boot, the true time
at which the monotonic clock was zero and the time the process started. A handler works
with a time sampled between the start of the process and now, because the clocks are
read before the mutex is awaited. Wall clocks may read anything. Certificates exist for
every request at all times, so signers and clients are not trusted. Actions:
`GuardianBegin`, `GuardianCancel`, `ReleaseRefused`, `GuardianRelease`, `Tick`,
`Restart`, `Reboot`. `begun` is history.

### RotationSigners

The v3 signers. Actions are the seven requests of `handle_signer_rotation_v3`, `Restart`,
`TimePasses` (one wall clock, which each plan's delay and preparation deadline and each
rotation's expiry are compared with) and two for the witnesses as signers see them: `WitnessesActivate` makes a read quorum for a
certified capsule available, `WitnessesVeto` an owner veto quorum. A certificate exists
once enough honest signers have returned their vote, faulty ones always being ready to
add theirs.

### GuardianEpochs

One v3 guardian. The other guardians, the signers, the witnesses, the coordinator, the
owner and the clients are its environment: a certificate, a grant, an activation QC or
a DPSS delivery that opens exists at all times, so none of them is trusted. `entry` is
the `GuardianRotationEntryV3` in memory, with the fields of its `GuardianEpochStore`
(`active`, `prepared`, `draining`, `pending_request_ids`, tombstones), the rotation
`sessions` and the `recoveries`; `saved` is the entry in the file, `replies` what has
left. `handle_guardian_rotation_v3` and `handle_guardian_recovery_v3` are disjunctions
with one action per request; the store's methods (`abort_prepared`,
`activate_successor`, `observe_replacement_activation`, `pending_old_recovery_ids`,
`record_for_request`) are operators on an entry.

Where a handler changes the entry and then fails, the failure is an action of its own
(`RotationCancelConflict`, `RotationAbortConflict`, `ActivateConflict`, the second
disjuncts of `repair_round1` and `repair_finalize`): `FailWith` keeps the change in
memory and writes nothing, as the code does. Rosters are the sets of plans that have
the guardian before and after (`old_roster`, `new_roster`); a `Candidate` is provisioned
without a record. Time and boots are as in GuardianRecovery. `begun` and `started` are
history. Left out: mailbox aliases, drain deadlines (compared with a time the caller
supplies), delivery sequence numbers.

### Calls

How commands call: a stage calls numbered actors in turn and ends at the first failure,
at enough answers, or after everybody has been asked. A failed attempt is repeated over
the next relay. `Answered`, `Missed`, `Declined` and `Settle` are the bodies of the loops;
a command's process is a record of the stage it is in, whom it has called and who
answered. The next three modules are built on it.

### RotationCoordinator

`rotate_v3` and `cancel_rotation_v3` as two processes over signers, guardians and
witnesses. Each of their 25 and 6 stages is an action; each attempt at a call is a step
that combines what the actor does with what the caller sees, so the two interleave
between any two attempts. `plan[r]` is what run `r` has read and planned, `owner_file` and
`control_file` are the two files. Actors are correct here and have the part of their
entries that these calls touch; their files, clocks and faults are the subject of the
modules above. A guardian's `Progress` is how far its DPSS session is, and `skewed` says
that a round was executed twice, after which the sequence numbers of the deliveries no
longer match. Environment: lost requests and replies, crashes of either process, which
may leave a file that cannot be read when they come inside `write_private_json`.

### RecoveryNetwork, with RecoveryPromise, RecoveryMachine and GuardianMachine

Protocol v2 from `setup` to `recover` and `cancel`, over relays, config stores and
signers. It EXTENDS GuardianRecovery: the guardians are that module's, with its actions,
here called by the commands. `recover` has both modes, the ordinary one and
`cancel_before_release`. Environment: time, one relay or config store that stops for
good, lost messages, killed commands, failed writes, restarts and reboots of guardians.

`RecoveryPromise` is the abstract specification of what the commands report.
`RecoveryMachine` and `GuardianMachine` are the machines of `gp-core` with their `apply`
and methods as actions. The network code does not run the first and makes a new one of
the second for every request, so that both are what it has to implement: the refinement
mappings are `ClientMachine(q)` and `GuardianMachineOf(g)`.

### EpochRecovery, with EpochRecoveryMachine

`setup_v3` and several runs of `recover_v3` while rotations replace the guardian epoch.
Signers and guardians have their recovery handlers; of a rotation there is what recovery
notices: `CollectIntent` at a signer, `FinalizeEpoch` at the witnesses, and
`ActivateGuardian`, one guardian after the other. `EpochRecoveryMachine` is gp-core's
machine for one guardian across epochs; the mapping is `EpochMachineOf(g)`.

### RotationMachine

gp-core's machine of a rotation. Guardians use it for their sessions (GuardianEpochs has
its states); here it specifies the whole rotation, and `MachineOf(r)` maps
RotationCoordinator to it. Active is the state in which 2f+1 witnesses have finalized the
epoch. GUARDIAN_ROTATION.md 919 calls it active from the QC of 2f+1 acknowledgements on;
what can happen between the two is what WitnessVetoRace and RotationCrash show.

### Common abstractions

- A transcript and its hash are identified with what they stand for; signatures are
  ideal. Lost, late and repeated calls and replies: any request may arrive at any time,
  replies stay available for ever and need not be used.
- A failed save leaves the change in memory, and the old or the new contents in the file
  (the rename may have happened before the error). A crash inside a handler is a failed
  save followed by a restart. A rename that is lost at a power failure after a reported
  success is not modelled: `save_json` syncs the directory.
- Fields that no guard reads and no property mentions are left out (sealed shares,
  routes, membership proofs).

## 3. Runs

`CHECK_DEADLOCK FALSE` throughout, since a configuration may come to rest once every
request has been handled. In the runs of WitnessEpochs and GuardianRecovery honest
processes, clients and certificates are interchangeable, and used as symmetry sets. In
the others the processes differ, or are called in the order of their numbers.

| Run | Instance | Shows |
|---|---|---|
| WitnessAgreement | 3 honest + 1 faulty witness, siblings a and b, a's successor a2, one veto, one client | `TypeOK`, `ForkNeedsVeto`, `WriteExcludesVeto`, `ReadsAreFresh` |
| WitnessDurability | same witnesses, one rotation, one veto, failing saves | `ServedEpochIsDurable`, `VetoIsDurable` |
| WitnessVetoRace | 4 honest witnesses | `VetoedIsNeverSelected` fails (finding) |
| GuardianCancelRace | 2 honest + 1 malicious guardian, k = 2, two requests under one id, failing saves, one reboot | `TypeOK`, `HardCancelIsFinal`, `ReleaseWaits` |
| SignerRotations | 2 honest + 1 faulty signer, t = 3, two rotations, three capsules, failing saves at one signer | `TypeOK`, `AbortIsFinal`, `SiblingNeedsTombstone`, `LockFollowsPlan` |
| PlanTimeout | 3 signers, t = 2, one plan | `TimedOutPlanAborts` fails (finding) |
| GuardianRotation | one v3 guardian that a rotation keeps and its sibling removes, one recovery, one failed write or reboot | `TypeOK`, `OneAnswer`, `BegunIsServable`, `PreparedIsKept`, `RotationCancelIsFinal`, `DrainsForUnreleased`, `MaterialWaits` |
| RotationRun | 3 signers, t = 2; 3 guardians, k = 2; 4 witnesses; 2 relays; two runs, one cancellation, one lost message, one crash | `TypeOK`, `OneOutcome`, `FinalizedIsHeld`, `OldEpochServes`, `UndisturbedRotationCompletes`, `RotationFollowsMachine` |
| RotationCrash | same, one run and one crash | `StoppedRotationIsServed` fails (finding) |
| RecoveryRun | 3 signers, t = 2; 3 guardians, k = 2; 2 relays, 2 config stores; one request, one cancellation, one outage, one lost message, killed command, failed write or reboot | `NetTypeOK`, `CardIsUsable`, `ReportIsTrue`, `PromiseKept`, `ClientFollowsMachine`, `GuardianFollowsMachine`, `SingleOutageIsSurvived` |
| EpochRecoveryRun | 2 signers, both needed; 3 guardians, k = 2; two rotations, one recovery, 2 relays, one lost message | `TypeOK`, `CutoverIsFinal`, `StaleReadsExpire`, `BegunIsRecovered`, `GuardianFollowsMachine` |
| DrainVote | same, one rotation, two recoveries, nothing lost | `DrainingIsServed` fails (finding) |

**Refinement.** `PromiseKept` is the specification of RecoveryPromise with the reports as
its outcome. `ClientFollowsMachine`, `RotationFollowsMachine` and the two
`GuardianFollowsMachine` say that the code keeps to the machines of gp-core: for the
client the approvals come before Begin, k acceptances and the whole delay before a
release; a rotation is ready only when every successor record is prepared, and one that
was vetoed, that failed or whose coordinator died before the witness quorum never becomes
active; a guardian's entry, from which a machine is made for each request or which no
machine ever sees, goes through the states of one machine. A v2 guardian that restarts
after a failed write reads an older entry (`Reread`), which is no step of its machine: it
forgets only what no reply has told, as `ReportIsTrue` and GuardianRecovery's theorems
show.

**Fairness.** A command that runs goes on by itself: it waits for nothing but its own
calls, each of which ends in a reply or an error, and for its sleep. So the steps of a
running command (`RotateStep`, `CancelStep`, `setup`, `recover(q)`, `cancel(q)`,
`setup_v3`, `recover_v3(q)`) and time are weakly fair. Nobody has to start a command, and
rotations, outages and losses need not happen. The liveness properties are conditional
in the way the documents are: `SingleOutageIsSurvived` assumes one outage and no lost
reply (NETWORK_GUIDE.md says that recovery after a lost reply is not guaranteed),
`UndisturbedRotationCompletes` no loss and no crash, `BegunIsRecovered` more spare
guardians than lost messages.

**Bounds.** Four witnesses is the smallest roster with f = 1, where quorums of three
overlap in one honest witness; three guardians with k = 2 need two acknowledgements while
one malicious guardian contributes. Two siblings and a grandchild cover fork, succession
and rejection. Two sibling rotations, one of which removes the guardian, reach every
refusal of the epoch store; a second recovery would only repeat the first. `MaxTime`,
`MaxReboots` and, for the v3 guardian, `MaxFaults` (failed writes and reboots together)
bound behaviours; delays are one unit, and wall clocks read before, within and after a
request's lifetime. `MaxRuns`, `MaxCancels`, `MaxLosses`, `MaxCrashes` bound how often
commands start and how much goes wrong: two runs let the second meet what a cancelled,
failed or dead first one has left behind. One loss is enough to make a call take effect
twice, since the attempt over the second relay repeats it, and two relays for the
one that stops not to be the last. In SignerRotations one
rotation expires while the other can still be prepared, and the lock, the one vote per
rotation and the tombstones of two plans meet. `FreeTime` bounds the time that passes while no client sleeps; it exceeds
the lifetime of a read. The theorems of section 4 hold without these bounds.

`WriteExcludesVeto` and `ReadsAreFresh` need rosters of exactly 3f+1, where two sets of
2f+1 share an honest witness. The code accepts larger rosters, for which they do not
hold; a roster's size is up to the owner who provisions it.

**Findings**, each with the line of the documents that says otherwise, are listed in
PROJECT.json: acks collected before a veto still finalize the vetoed epoch at a witness
that missed it; a coordinator that dies between the witnesses' finalize and the guardians'
Activate leaves an epoch that is found and not served; signers that have learnt of the new
epoch no longer vote for requests that drain in the old one; a plan that expires after Begin
keeps its predecessor lock, because every request that could release it is refused as stale.

**Other deviations** that the modules have as reachable states, without a run of their own:

- a retried activation is acknowledged from memory after a failed save (`ActivateAgain`
  in WitnessEpochs, `server.rs` 866), although the comment at 939 says that the ack is
  persisted before it is returned. `ServedEpochIsDurable` and `VetoIsDurable` do not see
  it; `ForkNeedsVeto` does not hold with it;
- an old read quorum shown with an Intent takes a signer back to a superseded capsule
  (`Intent` in RotationSigners, `rotation_runtime.rs` 83);
- a plan whose predecessor is no longer the signer's active capsule cannot be finalized
  there either, and keeps its lock; it matters only if an old read takes the signer back;
- a recovery that is cancelled after an activation stays in the draining epoch's list,
  and the epoch is never retired (`gp-storage/src/rotation.rs` 377), although
  GUARDIAN_ROTATION.md 934 has its records erased after the last request has expired;
  `DrainsForUnreleased` says only that released recoveries leave the list;
- a guardian that has signed its handoff acknowledgement signs the owner's cancellation
  of the same rotation as well (`guardian_runtime.rs` 451);
- a coordinator that dies before it has written the rotation-control file leaves locks
  and sessions that the owner's cancel command cannot name (`rotation_coordinator.rs` 376);
- a second attempt at a rotation cancel signs another certificate, which witnesses that
  stored the first refuse as conflicting (`rotation_coordinator.rs` 925);
- setup writes the card before the owner-control file (`client.rs` 678): a crash in
  between leaves a configuration that cannot be cancelled.

## 4. Proofs

All proofs are checked by TLAPS with its SMT, Zenon and LS4 back ends, for every value of
the constants and without the bounds of the runs. They assume the named assumptions of the
modules, which TLC evaluates in every run:

- finite sets of processes, numbered where commands call them in order, thresholds in
  range, at most f faulty witnesses among at least 3f+1, `None` distinct from every value
  it is compared with (`NoneAssumption`, `NoPlanAssumption`, `MachineAssumption`);
- in RotationCoordinator and EpochRecovery `guardian_threshold >= 2`: the code refuses
  smaller ones (`rotation_protocol.rs` 233, `gp-crypto/src/rotation.rs` 74, `client.rs`
  156). RotationCoordinator's rosters therefore have two members, and a guardian stays in
  every rotation;
- `RunsAssumption` in RecoveryNetwork: the guardians there are correct, and requests have
  ids and nonces of their own, since `recover` draws both at random;
- `EntryAssumption` in EpochRecovery: an entry that a rotation has removed is not added
  again, since every guardian that is added gets a fresh mailbox.

Two hypotheses stand in the theorems themselves. `ExactRoster` (3f+1 witnesses): with a
larger roster, which the code accepts, two sets of 2f+1 need not meet. `~SaveMayFail`, for
`ForksNeedVetoes` alone: after a failed write `witness_activate` repeats an acknowledgement
that is not in the file, a restart forgets the lock, and the witness acknowledges a sibling
without any veto. The theorem without it is false of the code (section 3, "Other
deviations"); WitnessAgreement checks the same case.

- `WitnessEpochsProofs`. `WitnessTypeCorrect`, `VetoesAreDurable`,
  `ServedEpochsAreDurable`; for rosters of exactly 3f+1 `WritesExcludeVetoes` and
  `ReadsAreFreshTheorem`; with writes that do not fail `ForksNeedVetoes`. The inductive
  invariant `BaseInv` relates memory and file: each entry is consistent (`EntryOK`: the lock
  of the present epoch is the pending child, older locks are of epochs that were finalized,
  a vetoed capsule is not locked), and memory `Extends` the file, so that neither vetoes nor
  finalized capsules are taken back by a restart. Replies are backed by the file. For reads,
  `ReadersOK`: for every epoch that was complete when a client sent its challenge, the
  witnesses that hold it and have told the client nothing older are a quorum for as long as
  the client waits, and any 2f+1 answers include one of them. For forks, `AcksOK`: an
  acknowledgement is backed by the lock, or by the tombstone that ended it.
- `GuardianRecoveryProofs`. `GuardianTypeCorrect`, `HardCancelTheorem`,
  `ReleaseWaitsTheorem`. `Extends` says nothing recorded is taken back; every entry
  extends its file; every reply is in the file; a released request is not cancelled; a
  pending recovery of the present boot is the last accepted Begin of its request.
  Without the file's part the properties are not inductive, since a restart would lose
  what a reply promised.
- `RotationSignersProofs`. `SignerTypeCorrect`, `AbortTheorem`, `LockTheorem`, and, when 2t
  exceeds n plus the faulty signers, `SiblingTheorem`. The invariant: an Activate vote is for a
  capsule of the begun plan, a begun plan that is not tombstoned holds its predecessor
  lock and nothing else holds one, a tombstone freezes the Activate vote, and returned votes are in the file.
  `LockTheorem` is about which plan holds the lock, not about whether a finalization is
  still accepted: that fails for expired plans, as PlanTimeout shows.
- `GuardianEpochsProofs`. `EpochTypeCorrect`, `OneAnswerTheorem`,
  `BegunIsServableTheorem`, `DrainTheorem`, `PreparedIsKeptTheorem`,
  `RotationCancelTheorem`, `MaterialWaitsTheorem`. The invariant has four parts. `EntryOK`, of memory and of the
  file: a recovery is not both cancelled and released, a tombstoned one is cancelled,
  any other has an epoch that serves it; a draining epoch
  lists only recoveries of its own that are not released; a tombstoned rotation has no session and no
  prepared record. `Extends`: memory takes back nothing of the file, except sessions and
  prepared records that went with a tombstone. `RepliesIn`: the file accounts for every
  reply. `Timed`: a recovery or session of the present boot carries the time of its last
  Begin. Each handler is one `Step` from entry to entry, proved to keep `EntryOK` and to
  extend, and the write, the failed write and the failed handler are then treated once
  for all of them. The file's part is needed because a handler that failed halfway is
  undone by a restart, and a property of memory alone would not survive that.

- `CallsProofs`, lemmas only: what a call does to the record of a command, whatever the
  stage (`Answered`, `Missed`, `Declined`, `Settle`): the process goes on in its stage, to
  the next one with enough answers, or to its failure stage, and counts nobody who did not
  answer.
- `RecoveryNetworkProofs`. `NetworkImplementsGuardians`: every step of the network is a
  step of GuardianRecovery, so the theorems above hold of the guardians as the commands
  use them. `NetTypeCorrect`; `CardTheorem` (`SetupOK`: what setup has got done, by its
  stage); `ReportTheorem` (`ReportsOK`: whoever a client or an owner counts has replied, and
  replies are never taken back); `PromiseTheorem`, the refinement of RecoveryPromise, from
  `ReportsOK` and `HardCancelTheorem`, since n-k+1 acknowledgements and k contributions
  exclude each other; `ClientMachineTheorem` (`ClientsTimed`: a client that asks for
  release votes has slept enough); `GuardianMachineTheorem`, one lemma per handler.
- `EpochRecoveryProofs`. `TypeCorrect`; `CutoverTheorem`; `StaleReadTheorem`;
  `GuardianMachineTheorem`. The invariant: `SetupOK`; `ClientOK`, a client has
  contributions only of guardians that have begun its request, and works on an epoch that
  was the latest one; `ReadOK`, which was superseded after the read; `EpochsOK`;
  `MachineOK`, a guardian has drained every epoch before its active one and is at most one
  rotation behind.
- `RotationCoordinatorProofs`. `TypeCorrect`, `OneOutcomeTheorem`, `FinalizedTheorem`,
  `OldEpochTheorem`, `MachineTheorem`, for any fault bound of the witnesses, any numbers of
  actors, runs, cancellations, losses and crashes. The invariant has five layers, each used
  for the next:
  - `Base`: types; `PlansOK`, a run plans the successor of an epoch that was planned before
    it, and rosters are never empty; `ProcsOK`, every stage has somebody to call and its
    bookkeeping is of them. Needed for the types: a stage with nobody to call would stop.
  - `Decisions`: a witness's pending child is the next epoch and not vetoed there
    (`WitnessOK`); the coordinator past `WitnessFinalize` has a quorum that has finalized its
    rotation or gone on from it, the cancel command past `Veto` has a quorum of vetoes, and
    both quorums stay for ever (`DecisionOK`). Two quorums of 2f+1 of 3f+1 meet, and no
    witness is in both: `OneOutcome`.
  - `Guardians`: a guardian is at the first epoch, at one that a quorum has finalized, or a
    candidate that serves nothing, and prepares only for rosters it is in.
  - `RecordsOK`: as long as no quorum vetoes a rotation, every record that the coordinator
    counted is held, and so are all records of an epoch that a witness has pending or
    serves. `FinalizedIsHeld` alone is not inductive: a witness finalizes what it holds as
    pending, on the strength of acknowledgements that the coordinator got much earlier.
  - `ProgressOK`: a run builds on a completed one, so no witness leaves an epoch that has
    not completed, and the quorum that made a rotation active still serves it when the
    guardians are activated. With it every step is a step of RotationMachine or none.

Every safety invariant, action property and refinement that a passing run checks is also a
theorem. Only model-checked are the three liveness properties
(`UndisturbedRotationCompletes`, `SingleOutageIsSurvived`, `BegunIsRecovered`): liveness
under fairness, and ENABLED, are out of the reach of these provers. The four properties of the violation
runs are false, and TLC's counterexamples show it. The modules have no recursive
definitions.

## 5. Plan

Done: the stores that carry the safety argument (WitnessEpochs, GuardianRecovery,
RotationSigners, GuardianEpochs); the commands that call them, with liveness and the
refinement of gp-core's machines; proofs of all their safety properties. Left:

1. Proofs: what links the detailed stores to the composed modules. RotationCoordinator has
   its own, smaller guardians, signers and witnesses; that the witnesses there are a
   behaviour of WitnessEpochs under a mapping would carry their theorems over, as
   `NetworkImplementsGuardians` does for v2.
2. Failed writes of the recovery signers, as in RotationSigners.
3. Retirement of a drained epoch by a command, once there is one that sends the notice.

## 6. Not modelled

- Cryptography, secret sharing, DPSS arithmetic, erasure codes, wire encodings and
  transport envelopes: data transformations without protocol state.
- Simulator, CLI, IPC and GUI: they drive the same protocol.
- `EpochWitnessMachine` of gp-core: its locks know no vetoes, so the witnesses of the
  network code do not implement it, and no document says they do.
- The owner's cancellation of a v3 recovery as a command: guardians handle it
  (`RecoveryCancel` in GuardianEpochs), and no command sends it.
- Versions of a v2 capsule in the config stores: no command publishes a second one.
- The delivery of a v3 card, owner-control files and admin tokens between people.
