--------------------------- MODULE GuardianEpochs ---------------------------
(***************************************************************************)
(* One guardian of a protocol v3 configuration: recoveries are begun,        *)
(* cancelled and released while rotations replace the guardian epoch.        *)
(*                                                                           *)
(* The guardian's mailbox handlers read the clocks, take the store's mutex,  *)
(* change the mailbox entry in memory, write the state file and reply.  A    *)
(* failed write leaves the change in memory; a handler that fails halfway    *)
(* leaves half of it there and writes nothing.                               *)
(*                                                                           *)
(* Data that is abstracted:                                                  *)
(*  - a plan stands for its transcript and for the capsule it activates;     *)
(*  - certificates, grants, activation QCs and DPSS deliveries that open are *)
(*    available at all times: signers, witnesses and the other guardians may *)
(*    do anything.  Delivery sequence numbers decide only whether a delivery *)
(*    opens;                                                                 *)
(*  - the wall clock may read anything, so expiry may always be met or       *)
(*    missed; drain deadlines are compared with a time the caller supplies.  *)
(***************************************************************************)
EXTENDS Integers, FiniteSets

CONSTANTS
  Plan,            \* rotation plans
  rotation_id,     \* rotation_id[p]
  Genesis,         \* the capsule the guardian is provisioned with
  predecessor,     \* predecessor[p], the capsule a plan replaces
  old_roster,      \* the plans that have this guardian in their old roster
  new_roster,      \* the plans that have it in their new roster
  Candidate,       \* whether it is provisioned without an active record
  Request,         \* recovery requests
  request_id,      \* request_id[q]
  nonce,           \* nonce[q]
  config_ref,      \* config_ref[q], the capsule of the epoch q is bound to
  recovery_delay,  \* seconds between Begin and Release of a recovery
  rotation_delay,  \* seconds between Begin and Release of a rotation
  MaxTime,         \* bound on the time a behaviour lasts
  MaxFaults,       \* bound on failed writes and reboots together
  None

Capsule == {Genesis} \cup Plan
RotationId == {rotation_id[p] : p \in Plan}
RequestId == {request_id[q] : q \in Request}

\* The RotationState of a session's machine, and the LocalDpssState it has stored.
MachineState == {"DelayPending", "Preparing", "Active", "Aborted"}
LocalState == {"RepairDealer", "OldShare", "Repaired",
               "RefreshRound1", "RefreshRound2", "Refreshed"}

\* staged is the predecessor that the staged record names.
Session == [plan : Plan, state : MachineState, not_before : Nat, boot_id : Nat,
            cancelled : BOOLEAN, local : LocalState \cup {None}, staged : Capsule \cup {None}]

Recovery == [request : Request, not_before : Nat, boot_id : Nat,
             cancelled : BOOLEAN, released : BOOLEAN]

Tombstone == [plan : Plan, state : {"Active", "Aborted", "Draining"}]

\* When, in true time, and in which boot a Begin arrived.
Arrival == [at : Nat, boot_id : Nat]

ASSUME EpochAssumption ==
  /\ predecessor \in [Plan -> Capsule]
  /\ Genesis \notin Plan
  /\ old_roster \subseteq Plan
  /\ new_roster \subseteq Plan
  /\ Candidate \in BOOLEAN
  /\ config_ref \in [Request -> Capsule]
  /\ recovery_delay \in Nat
  /\ rotation_delay \in Nat
  /\ MaxTime \in Nat
  /\ MaxFaults \in Nat

ASSUME NoneAssumption ==
  /\ None \notin Capsule
  /\ None \notin LocalState
  /\ None \notin Request
  /\ None \notin Session
  /\ None \notin Recovery
  /\ None \notin Tombstone
  /\ None \notin Arrival

VARIABLES
  now,       \* true time, in seconds
  clock,     \* what the kernel and the process know of time
  entry,     \* the GuardianRotationEntryV3 in memory
  saved,     \* the same entry in the state file
  replies,   \* what the guardian has answered so far
  begun,     \* begun[q]: when the last recovery Begin of q arrived (history)
  started,   \* started[p]: when the last rotation Begin of p arrived (history)
  failures   \* how many writes have failed

vars == <<now, clock, entry, saved, replies, begun, started, failures>>

Entry == [capsule : Capsule,                      \* provision.predecessor_capsule
          expected : Capsule,                     \* epoch_store.expected_predecessor
          active : Capsule \cup {None},
          prepared : Plan \cup {None},
          draining : SUBSET Capsule,
          pending_request_ids : [Capsule -> SUBSET RequestId],  \* of draining epochs
          activation_qc : Plan \cup {None},
          rotation_tombstones : [RotationId -> Tombstone \cup {None}],
          cancellation_tombstones : [RequestId -> Request \cup {None}],
          sessions : [RotationId -> Session \cup {None}],
          recoveries : [RequestId -> Recovery \cup {None}]]

Clock == [boot_id : Nat, booted_at : Nat, up_since : Nat]

Replies == [begun : SUBSET Request,               \* BeginAccepted
            cancelled : SUBSET Request,           \* OwnerRecoveryCancelAckV3
            contributions : [Request -> Nat],     \* how often material left
            shares : SUBSET Plan,                 \* old-share material
            prepared : SUBSET Plan,               \* NewGuardianPreparedAck
            handoff : SUBSET Plan,                \* OldGuardianHandoffAck
            rotation_cancelled : SUBSET Plan]     \* OwnerRotationCancelAck

NewEntry == [capsule |-> Genesis,
             expected |-> Genesis,
             active |-> IF Candidate THEN None ELSE Genesis,
             prepared |-> None,
             draining |-> {},
             pending_request_ids |-> [c \in Capsule |-> {}],
             activation_qc |-> None,
             rotation_tombstones |-> [r \in RotationId |-> None],
             cancellation_tombstones |-> [i \in RequestId |-> None],
             sessions |-> [r \in RotationId |-> None],
             recoveries |-> [i \in RequestId |-> None]]

-----------------------------------------------------------------------------
(* Clocks and the state file *)

monotonic_now(at) == at - clock.booted_at

\* The times a handler that runs now may have read before it got the mutex.
Sampled == clock.up_since..now

\* The handler succeeds: the store is written, and the reply leaves if that works.
Persist(e, r) ==
  /\ entry' = e
  /\ \/ saved' = e /\ replies' = r /\ UNCHANGED failures
     \/ /\ failures + clock.boot_id < MaxFaults
        /\ failures' = failures + 1
        /\ saved' \in {saved, e}
        /\ UNCHANGED replies
  /\ UNCHANGED <<now, clock>>

\* The handler fails after it has changed the entry: nothing is written.
FailWith(e) ==
  /\ entry' = e
  /\ UNCHANGED <<now, clock, saved, replies, begun, started, failures>>

Tick == /\ now < MaxTime
        /\ now' = now + 1
        /\ UNCHANGED <<clock, entry, saved, replies, begun, started, failures>>

Restart == /\ entry # saved
           /\ entry' = saved
           /\ clock' = [clock EXCEPT !.up_since = now]
           /\ UNCHANGED <<now, saved, replies, begun, started, failures>>

Reboot == /\ failures + clock.boot_id < MaxFaults
          /\ entry' = saved
          /\ clock' = [boot_id |-> clock.boot_id + 1, booted_at |-> now, up_since |-> now]
          /\ UNCHANGED <<now, saved, replies, begun, started, failures>>

-----------------------------------------------------------------------------
(* GuardianEpochStore *)

\* Mutant: the prepared record of another rotation is erased as well.
AbortAnyPrepared(e, p) == TRUE

\* abort_prepared refuses an activated rotation, and refuses while the record of
\* another rotation is prepared.
MayAbort(e, p) ==
  /\ e.activation_qc # None => rotation_id[e.activation_qc] # rotation_id[p]
  /\ e.prepared \in {None, p}

abort_prepared(e, p) ==
  [e EXCEPT !.prepared = None,
            !.rotation_tombstones[rotation_id[p]] = [plan |-> p, state |-> "Aborted"],
            !.sessions[rotation_id[p]] = None]

\* prepare_successor refuses a tombstoned rotation, a second prepared record
\* and a record that is no direct successor.
MayPrepare(e, p) ==
  /\ e.rotation_tombstones[rotation_id[p]] = None
  /\ e.prepared = None
  /\ predecessor[p] = e.expected
  /\ e.sessions[rotation_id[p]].staged = e.expected

\* Mutant: the list holds the digests of the requests and not their ids.
PendingDigests(e) ==
  {e.recoveries[i].request : i \in {j \in RequestId : e.recoveries[j] # None}}

\* Mutant: only the requests of the current boot are carried over.
PendingOfThisBoot(e) ==
  {i \in RequestId : /\ e.recoveries[i] # None
                     /\ e.recoveries[i].boot_id = clock.boot_id
                     /\ config_ref[e.recoveries[i].request] = e.capsule
                     /\ ~e.recoveries[i].cancelled /\ ~e.recoveries[i].released}

pending_old_recovery_ids(e) ==
  {i \in RequestId : /\ e.recoveries[i] # None
                     /\ config_ref[e.recoveries[i].request] = e.capsule
                     /\ ~e.recoveries[i].cancelled /\ ~e.recoveries[i].released}

\* The active record, if there is one, starts to drain.
Drain(e) ==
  IF e.active = None THEN e
  ELSE [e EXCEPT !.draining = @ \cup {e.active},
                 !.pending_request_ids[e.active] = pending_old_recovery_ids(e)]

\* activate_successor, for a guardian of the new roster.
activate_successor(e, p) ==
  [Drain(e) EXCEPT
     !.active = p,
     !.expected = p,
     !.prepared = None,
     !.activation_qc = p,
     !.rotation_tombstones[rotation_id[p]] = [plan |-> p, state |-> "Active"]]

\* observe_replacement_activation, for a guardian that the rotation removes.
observe_replacement_activation(e, p) ==
  [Drain(e) EXCEPT
     !.active = None,
     !.activation_qc = p,
     !.rotation_tombstones[rotation_id[p]] = [plan |-> p, state |-> "Draining"]]

-----------------------------------------------------------------------------
(* Rotation requests: handle_guardian_rotation_v3 *)

\* validate_rotation_plan_v3: the plan replaces the capsule the guardian knows.
ValidPlan(e, p) == predecessor[p] = e.capsule

Participant(p) == p \in old_roster \cup new_roster

session_mut(e, p) ==
  LET s == e.sessions[rotation_id[p]]
  IN s # None /\ s.plan = p /\ ~s.cancelled

\* advance_to_preparing accepts these states of the machine.
MayPrepareNow(e, p) == e.sessions[rotation_id[p]].state \in {"DelayPending", "Preparing"}

\* The delay of the rotation is over, in the boot in which it began.
DelayOver(e, p) ==
  /\ e.sessions[rotation_id[p]].boot_id = clock.boot_id
  /\ \E at \in Sampled : monotonic_now(at) >= e.sessions[rotation_id[p]].not_before

WithSession(e, p, state, local, staged) ==
  [e EXCEPT !.sessions[rotation_id[p]] =
              [@ EXCEPT !.state = state, !.local = local, !.staged = staged]]

State(e, p) == e.sessions[rotation_id[p]].state
Local(e, p) == e.sessions[rotation_id[p]].local
Staged(e, p) == e.sessions[rotation_id[p]].staged

NewSession(p, at) ==
  [plan |-> p, state |-> "DelayPending",
   not_before |-> monotonic_now(at) + rotation_delay, boot_id |-> clock.boot_id,
   cancelled |-> FALSE, local |-> None, staged |-> None]

\* Mutant: the tombstones are not consulted.
BeginDespiteTombstone(p) ==
  /\ ValidPlan(entry, p) /\ Participant(p)
  /\ entry.sessions[rotation_id[p]] = None
  /\ \E at \in Sampled :
       /\ Persist([entry EXCEPT !.sessions[rotation_id[p]] = NewSession(p, at)], replies)
       /\ started' = [started EXCEPT ![p] = [at |-> at, boot_id |-> clock.boot_id]]
  /\ UNCHANGED begun

RotationBegin(p) ==
  /\ ValidPlan(entry, p) /\ Participant(p)
  /\ entry.rotation_tombstones[rotation_id[p]] = None
  /\ entry.sessions[rotation_id[p]] = None
  /\ \E at \in Sampled :
       /\ Persist([entry EXCEPT !.sessions[rotation_id[p]] = NewSession(p, at)], replies)
       /\ started' = [started EXCEPT ![p] = [at |-> at, boot_id |-> clock.boot_id]]
  /\ UNCHANGED begun

\* A repeated Begin is answered from the session, and the store is written.
RotationBeginAgain(p) ==
  /\ ValidPlan(entry, p) /\ Participant(p)
  /\ entry.rotation_tombstones[rotation_id[p]] = None
  /\ entry.sessions[rotation_id[p]] # None
  /\ entry.sessions[rotation_id[p]].plan = p
  /\ Persist(entry, replies)
  /\ UNCHANGED <<begun, started>>

\* The owner's cancellation reaches a session, or no session, or is repeated.
CancelledSession(e, p) ==
  LET r == rotation_id[p]
  IN IF e.rotation_tombstones[r] = None /\ e.sessions[r] # None
     THEN [e EXCEPT !.sessions[r] = [@ EXCEPT !.state = "Aborted", !.cancelled = TRUE,
                                              !.local = None, !.staged = None]]
     ELSE e

MayCancel(e, p) ==
  LET r == rotation_id[p]
  IN /\ ValidPlan(e, p) /\ Participant(p)
     /\ e.rotation_tombstones[r] \in {None, [plan |-> p, state |-> "Aborted"]}
     /\ e.rotation_tombstones[r] = None /\ e.sessions[r] # None =>
          e.sessions[r].cancelled \/ e.sessions[r].state \in {"DelayPending", "Preparing"}

RotationCancel(p) ==
  /\ MayCancel(entry, p)
  /\ MayAbort(entry, p)
  /\ entry.active = None => p \in new_roster
  /\ Persist(abort_prepared(entry, p), [replies EXCEPT !.rotation_cancelled = @ \cup {p}])
  /\ UNCHANGED <<begun, started>>

\* The session is cancelled in memory before abort_prepared refuses; a guardian
\* that has no index to sign with fails after it.
RotationCancelConflict(p) ==
  /\ MayCancel(entry, p)
  /\ MayAbort(entry, p) => entry.active = None /\ p \notin new_roster
  /\ FailWith(IF MayAbort(entry, p) THEN abort_prepared(entry, p)
                                    ELSE CancelledSession(entry, p))

RotationAbort(p) ==
  /\ ValidPlan(entry, p)
  /\ session_mut(entry, p)
  /\ MayPrepareNow(entry, p)
  /\ MayAbort(entry, p)
  /\ Persist(abort_prepared(entry, p), replies)
  /\ UNCHANGED <<begun, started>>

RotationAbortConflict(p) ==
  /\ ValidPlan(entry, p)
  /\ session_mut(entry, p)
  /\ MayPrepareNow(entry, p)
  /\ ~MayAbort(entry, p)
  /\ FailWith(WithSession(entry, p, "Aborted", Local(entry, p), Staged(entry, p)))

\* The share provider may refuse the helper ids after the machine has advanced.
repair_round1(p) ==
  /\ ValidPlan(entry, p) /\ p \in old_roster
  /\ entry.active # None
  /\ session_mut(entry, p)
  /\ MayPrepareNow(entry, p)
  /\ DelayOver(entry, p)
  /\ \/ /\ Persist(WithSession(entry, p, "Preparing", "RepairDealer", Staged(entry, p)),
                   [replies EXCEPT !.shares = @ \cup {p}])
        /\ UNCHANGED <<begun, started>>
     \/ FailWith(WithSession(entry, p, "Preparing", Local(entry, p), Staged(entry, p)))

repair_round2(p) ==
  /\ p \in old_roster
  /\ session_mut(entry, p)
  /\ Local(entry, p) = "RepairDealer"
  /\ Persist(WithSession(entry, p, State(entry, p), "OldShare", Staged(entry, p)), replies)
  /\ UNCHANGED <<begun, started>>

\* The release time is inferred: neither the delay nor the boot is checked.
repair_finalize(p) ==
  /\ p \in new_roster
  /\ session_mut(entry, p)
  /\ MayPrepareNow(entry, p)
  /\ \/ /\ Persist(WithSession(entry, p, "Preparing", "Repaired", Staged(entry, p)), replies)
        /\ UNCHANGED <<begun, started>>
     \/ FailWith(WithSession(entry, p, "Preparing", Local(entry, p), Staged(entry, p)))

\* A guardian that stays proves the release and opens its old share; a new one
\* uses the share that was repaired for it.
RefreshSource(e, p) ==
  \/ ValidPlan(e, p) /\ p \in old_roster /\ e.active # None
  \/ Local(e, p) = "Repaired"

\* Mutant: the delay is not checked again.
RefreshWithoutDelay(p) ==
  /\ p \in new_roster
  /\ session_mut(entry, p)
  /\ RefreshSource(entry, p)
  /\ MayPrepareNow(entry, p)
  /\ Persist(WithSession(entry, p, "Preparing", "RefreshRound1", Staged(entry, p)),
             [replies EXCEPT !.shares = @ \cup {p}])
  /\ UNCHANGED <<begun, started>>

refresh_round1(p) ==
  /\ p \in new_roster
  /\ session_mut(entry, p)
  /\ RefreshSource(entry, p)
  /\ DelayOver(entry, p)
  /\ MayPrepareNow(entry, p)
  /\ Persist(WithSession(entry, p, "Preparing", "RefreshRound1", Staged(entry, p)),
             [replies EXCEPT !.shares = @ \cup {p}])
  /\ UNCHANGED <<begun, started>>

refresh_round2(p) ==
  /\ p \in new_roster
  /\ session_mut(entry, p)
  /\ Local(entry, p) = "RefreshRound1"
  /\ Persist(WithSession(entry, p, State(entry, p), "RefreshRound2", Staged(entry, p)), replies)
  /\ UNCHANGED <<begun, started>>

refresh_finalize(p) ==
  /\ p \in new_roster
  /\ session_mut(entry, p)
  /\ Local(entry, p) = "RefreshRound2"
  /\ Persist(WithSession(entry, p, State(entry, p), "Refreshed", Staged(entry, p)), replies)
  /\ UNCHANGED <<begun, started>>

stage_material(p) ==
  /\ p \in new_roster
  /\ session_mut(entry, p)
  /\ Local(entry, p) = "Refreshed"
  /\ Persist(WithSession(entry, p, State(entry, p), None, entry.capsule), replies)
  /\ UNCHANGED <<begun, started>>

prepare_commit(p) ==
  /\ p \in new_roster
  /\ session_mut(entry, p)
  /\ Staged(entry, p) # None
  /\ MayPrepare(entry, p)
  /\ Persist([WithSession(entry, p, State(entry, p), Local(entry, p), None)
                EXCEPT !.prepared = p],
             [replies EXCEPT !.prepared = @ \cup {p}])
  /\ UNCHANGED <<begun, started>>

handoff_complete(p) ==
  /\ p \in old_roster
  /\ session_mut(entry, p)
  /\ Persist(WithSession(entry, p, State(entry, p), None, Staged(entry, p)),
             [replies EXCEPT !.handoff = @ \cup {p}])
  /\ UNCHANGED <<begun, started>>

\* What activate requires before it advances the session's machine.
MayActivate(e, p) ==
  /\ ValidPlan(e, p)
  /\ p \in new_roster => e.prepared = p
  /\ session_mut(e, p)
  /\ MayPrepareNow(e, p)

\* What the epoch store requires after that.
StoreAccepts(e, p) ==
  /\ predecessor[p] = e.expected
  /\ IF p \in new_roster
     THEN e.active = None => pending_old_recovery_ids(e) = {}
     ELSE e.prepared = None /\ e.active # None

activate(p) ==
  /\ MayActivate(entry, p)
  /\ StoreAccepts(entry, p)
  /\ LET e == IF p \in new_roster THEN activate_successor(entry, p)
                                  ELSE observe_replacement_activation(entry, p)
     IN Persist([e EXCEPT !.capsule = p, !.sessions[rotation_id[p]] = None], replies)
  /\ UNCHANGED <<begun, started>>

\* The store refuses, as observe_replacement_activation does while another record
\* is prepared; the machine of the session has gone to Active by then.
ActivateConflict(p) ==
  /\ MayActivate(entry, p)
  /\ ~StoreAccepts(entry, p)
  /\ FailWith(WithSession(entry, p, "Active", Local(entry, p), Staged(entry, p)))

\* Both deadlines are met by a caller-supplied time.
retire(c) ==
  /\ entry.activation_qc # None
  /\ predecessor[entry.activation_qc] = c
  /\ c \in entry.draining
  /\ entry.pending_request_ids[c] = {}
  /\ Persist([entry EXCEPT !.draining = @ \ {c}], replies)
  /\ UNCHANGED <<begun, started>>

handle_guardian_rotation_v3(p) ==
  \/ RotationBegin(p) \/ RotationBeginAgain(p)
  \/ RotationCancel(p) \/ RotationCancelConflict(p)
  \/ RotationAbort(p) \/ RotationAbortConflict(p)
  \/ repair_round1(p) \/ repair_round2(p) \/ repair_finalize(p)
  \/ refresh_round1(p) \/ refresh_round2(p) \/ refresh_finalize(p)
  \/ stage_material(p) \/ prepare_commit(p) \/ handoff_complete(p)
  \/ activate(p) \/ ActivateConflict(p)

-----------------------------------------------------------------------------
(* Recovery requests: handle_guardian_recovery_v3 *)

Nonces(e) == {nonce[e.recoveries[i].request] : i \in {j \in RequestId : e.recoveries[j] # None}}

\* record_for_request: the active epoch, or a draining one that lists the request.
record_for_request(e, q) ==
  \/ e.active = config_ref[q]
  \/ /\ config_ref[q] \in e.draining
     /\ request_id[q] \in e.pending_request_ids[config_ref[q]]

\* A new Begin is for the active epoch only.
MayBegin(e, q) ==
  /\ e.active = config_ref[q]
  /\ e.capsule = config_ref[q]
  /\ e.cancellation_tombstones[request_id[q]] = None

RecoveryBegin(q) ==
  /\ MayBegin(entry, q)
  /\ entry.recoveries[request_id[q]] = None
  /\ nonce[q] \notin Nonces(entry)
  /\ \E at \in Sampled :
       LET pending == [request |-> q, not_before |-> monotonic_now(at) + recovery_delay,
                       boot_id |-> clock.boot_id, cancelled |-> FALSE, released |-> FALSE]
       IN /\ Persist([entry EXCEPT !.recoveries[request_id[q]] = pending],
                     [replies EXCEPT !.begun = @ \cup {q}])
          /\ begun' = [begun EXCEPT ![q] = [at |-> at, boot_id |-> clock.boot_id]]
  /\ UNCHANGED started

\* A repeated Begin is answered from the pending recovery, even a released one.
RecoveryBeginAgain(q) ==
  /\ MayBegin(entry, q)
  /\ entry.recoveries[request_id[q]] # None
  /\ entry.recoveries[request_id[q]].request = q
  /\ Persist(entry, [replies EXCEPT !.begun = @ \cup {q}])
  /\ UNCHANGED <<begun, started>>

\* Mutant: a cancellation is accepted although material was released.
CancelAfterRelease(q) ==
  /\ record_for_request(entry, q)
  /\ Persist([entry EXCEPT !.cancellation_tombstones[request_id[q]] = q],
             [replies EXCEPT !.cancelled = @ \cup {q}])
  /\ UNCHANGED <<begun, started>>

RecoveryCancel(q) ==
  LET i == request_id[q]
      pending == entry.recoveries[i]
  IN /\ record_for_request(entry, q)
     /\ pending # None => pending.request = q /\ ~pending.released
     /\ Persist([entry EXCEPT !.cancellation_tombstones[i] = q,
                              !.recoveries[i] = IF @ = None THEN None
                                                ELSE [@ EXCEPT !.cancelled = TRUE]],
                [replies EXCEPT !.cancelled = @ \cup {q}])
     /\ UNCHANGED <<begun, started>>

\* Mutant: the request stays on the list of its draining epoch.
ReleaseStaysListed(q) ==
  LET pending == entry.recoveries[request_id[q]]
  IN /\ record_for_request(entry, q)
     /\ pending # None
     /\ pending.request = q
     /\ ~pending.cancelled /\ ~pending.released
     /\ pending.boot_id = clock.boot_id
     /\ \E at \in Sampled : monotonic_now(at) >= pending.not_before
     /\ Persist([entry EXCEPT !.recoveries[request_id[q]] = [@ EXCEPT !.released = TRUE]],
                [replies EXCEPT !.contributions[q] = @ + 1])
     /\ UNCHANGED <<begun, started>>

RecoveryRelease(q) ==
  LET i == request_id[q]
      pending == entry.recoveries[i]
  IN /\ record_for_request(entry, q)
     /\ pending # None
     /\ pending.request = q
     /\ ~pending.cancelled /\ ~pending.released
     /\ entry.cancellation_tombstones[i] # q
     /\ pending.boot_id = clock.boot_id
     /\ \E at \in Sampled : monotonic_now(at) >= pending.not_before
     /\ Persist([entry EXCEPT !.recoveries[i] = [@ EXCEPT !.released = TRUE],
                              !.pending_request_ids[config_ref[q]] = @ \ {i}],
                [replies EXCEPT !.contributions[q] = @ + 1])
     /\ UNCHANGED <<begun, started>>

handle_guardian_recovery_v3(q) ==
  \/ RecoveryBegin(q) \/ RecoveryBeginAgain(q)
  \/ RecoveryCancel(q)
  \/ RecoveryRelease(q)

-----------------------------------------------------------------------------
Init ==
  /\ now = 0
  /\ clock = [boot_id |-> 0, booted_at |-> 0, up_since |-> 0]
  /\ entry = NewEntry
  /\ saved = NewEntry
  /\ replies = [begun |-> {}, cancelled |-> {}, contributions |-> [q \in Request |-> 0],
                shares |-> {}, prepared |-> {}, handoff |-> {},
                rotation_cancelled |-> {}]
  /\ begun = [q \in Request |-> None]
  /\ started = [p \in Plan |-> None]
  /\ failures = 0

Next ==
  \/ Tick \/ Restart \/ Reboot
  \/ \E p \in Plan : handle_guardian_rotation_v3(p)
  \/ \E c \in Capsule : retire(c)
  \/ \E q \in Request : handle_guardian_recovery_v3(q)

Spec == Init /\ [][Next]_vars

-----------------------------------------------------------------------------
(* Properties *)

TypeOK ==
  /\ now \in Nat
  /\ clock \in Clock
  /\ entry \in Entry
  /\ saved \in Entry
  /\ replies \in Replies
  /\ begun \in [Request -> Arrival \cup {None}]
  /\ started \in [Plan -> Arrival \cup {None}]
  /\ failures \in Nat

\* Material leaves at most once per request and never for a request whose
\* cancellation was acknowledged, nor is one acknowledged afterwards: across
\* rotations, failed writes, restarts and reboots.
OneAnswer ==
  \A q \in Request :
    /\ replies.contributions[q] <= 1
    /\ q \in replies.cancelled => replies.contributions[q] = 0

\* A request whose Begin was acknowledged, and that has been neither cancelled nor
\* released, can still be served: its epoch is active, or drains and lists it
\* ("a request created before activation binds the old epoch and drains there").
BegunIsServable ==
  \A q \in replies.begun :
    LET pending == entry.recoveries[request_id[q]]
    IN /\ pending # None /\ pending.request = q
       /\ pending.cancelled \/ pending.released \/ record_for_request(entry, q)

\* "All n successor records must be durably PREPARED": after the Prepared ack the
\* record stays in the file until its own rotation has ended there.
PreparedIsKept ==
  \A p \in replies.prepared :
    saved.prepared = p \/ saved.rotation_tombstones[rotation_id[p]] # None

\* A rotation whose cancellation was acknowledged has no session, record or epoch
\* left, in memory or in the file ("a permanent pre-activation tombstone").
RotationCancelIsFinal ==
  \A p \in replies.rotation_cancelled :
    \A e \in {entry, saved} :
      /\ e.sessions[rotation_id[p]] = None
      /\ e.prepared # p
      /\ p \notin {e.capsule, e.active}

\* What leaves in a step waited for its delay in the present boot.
MaterialWaited ==
  /\ \A q \in Request : replies'.contributions[q] > replies.contributions[q] =>
       /\ begun[q] # None
       /\ begun[q].boot_id = clock.boot_id
       /\ now >= begun[q].at + recovery_delay
  /\ \A p \in Plan : p \in replies'.shares \ replies.shares =>
       /\ started[p] # None
       /\ started[p].boot_id = clock.boot_id
       /\ now >= started[p].at + rotation_delay

\* Recovery contributions, and the first old-share material of a rotation, leave
\* only in the boot in which the Begin arrived, the whole delay of true time later:
\* inferred release times, rotations in between and restarts do not shorten it.
MaterialWaits == [][MaterialWaited]_vars

\* A released recovery never holds up a retirement: the list that retire_epoch waits
\* for has only recoveries of that epoch whose contribution has not left, in memory
\* and in the file, in whatever order releases, activations and failed writes come.
\* That the list empties is not said, and not so: a recovery that is cancelled after
\* the activation, or whose boot has ended, can leave it no more.
DrainsForUnreleased ==
  \A e \in {entry, saved} : \A c \in e.draining : \A i \in e.pending_request_ids[c] :
    /\ e.recoveries[i] # None
    /\ config_ref[e.recoveries[i].request] = c
    /\ ~e.recoveries[i].released

=============================================================================
