------------------------- MODULE RotationCoordinator -------------------------
(***************************************************************************)
(* The rotation coordinator (rotate_v3) and the owner's rotation cancel      *)
(* (cancel_rotation_v3) of protocol v3 as two processes that call the        *)
(* signers, guardians and witnesses of one configuration.                    *)
(*                                                                           *)
(* Each process works through its stages in the order of the code and calls  *)
(* the actors of a stage one after the other; every attempt at a call is a   *)
(* step, so the two processes interleave between any two attempts.  A call   *)
(* to a mailbox is tried again over the next relay after any error: a relay  *)
(* that is down, a lost request, a lost reply and a refusal look the same.   *)
(* The coordinator keeps its transcript in memory; it may crash anywhere,    *)
(* and every new run has a fresh rotation id.                                *)
(*                                                                           *)
(* Data that is abstracted:                                                  *)
(*  - a rotation id stands for its context, intent, plan, certificates and   *)
(*    successor capsule: they are made by one run, from what it has read;    *)
(*  - actors are correct here and appear as far as these calls see them      *)
(*    (their file writes, clocks and restarts are in RotationSigners,        *)
(*    GuardianEpochs and WitnessEpochs); preparation ends before its         *)
(*    deadline, and sleep is long enough for every delay to be over;         *)
(*  - a DPSS delivery is accepted once, and only if its sender produced it   *)
(*    in the first execution of its round (the sequence numbers).            *)
(***************************************************************************)
EXTENDS Calls

CONSTANTS
  signer_count, signer_threshold,
  guardian_count, guardian_threshold,
  witness_fault_bound,     \* f, of 3f+1 witnesses
  relay_count,             \* relays over which a mailbox can be reached
  remove_guardian,         \* remove_guardian[r]: the guardian that run r replaces
  MaxRuns,                 \* bound on runs of rotate_v3
  MaxCancels,              \* bound on runs of cancel_rotation_v3
  MaxLosses,               \* bound on lost requests and replies
  MaxCrashes,              \* bound on crashes of the coordinator
  None

Rotation == 1..MaxRuns
Genesis == 0
Epoch == {Genesis} \cup Rotation    \* an epoch is named by the rotation that made it
Signer == 1..signer_count
Witness == 1..(3 * witness_fault_bound + 1)

\* The candidate entry that run r provisions.
Added(r) == guardian_count + r
Guardian == 1..(guardian_count + MaxRuns)

ASSUME CoordinatorAssumption ==
  /\ signer_threshold \in 1..signer_count
  /\ guardian_threshold \in 2..guardian_count
  /\ signer_count \in Nat /\ guardian_count \in Nat
  /\ witness_fault_bound \in Nat \ {0}
  /\ relay_count \in Nat \ {0}
  /\ MaxRuns \in Nat /\ MaxCancels \in Nat /\ MaxLosses \in Nat /\ MaxCrashes \in Nat
  /\ remove_guardian \in [Rotation -> Nat]
  /\ None \notin Nat

VARIABLES
  proc,          \* proc["rotate"], proc["cancel"]: the two processes
  plan,          \* plan[r]: what run r plans to do
  signer,        \* signer[s]: the rotation entry of a signer
  guardian,      \* guardian[g]: the rotation entry of a guardian
  witness,       \* witness[w]: the config entry of a witness
  owner_file,    \* the epoch that the owner-control file names
  control_file,  \* the rotation that the rotation-control file describes
  completed,     \* runs of rotate_v3 that returned Ok
  cancelled,     \* rotations that were reported as permanently cancelled
  attempts,      \* runs of cancel_rotation_v3 so far
  losses, crashes

actors == <<signer, guardian, witness>>
files == <<owner_file, control_file>>
results == <<completed, cancelled>>
vars == <<proc, plan, actors, files, results, attempts, losses, crashes>>

Process == {"rotate", "cancel"}

\* The stages of the two programs; Idle before the first run.
Stages == {"NodeInfo", "Intent", "Alias", "Candidate", "BeginVotes", "Begin",
           "BeginRemoved", "Control", "Sleep", "ReleaseVotes", "RepairRound1",
           "RepairRound2", "RepairFinalize", "RefreshRound1", "RefreshRound2",
           "RefreshFinalize", "StageMaterial", "PrepareCommit", "HandoffComplete",
           "ActivateVotes", "WitnessActivate", "WitnessFinalize", "Activate",
           "ActivateRemoved", "OwnerFile",
           "Veto", "CancelOld", "CancelNew", "AbortVotes", "Abort",
           "FinalizeOwnerCancel"}

Ended == {"Idle", "Ok", "Failed", "Crashed"}

Proc == [pc : Stages \cup Ended,
         r : Rotation \cup {None},
         called : SUBSET Nat,     \* whom the present stage has called
         got : SUBSET Nat,        \* who of them answered
         acked : SUBSET Nat,      \* who answered in the stage before
         tries : Nat]             \* attempts at the present call that failed

Plan == [predecessor : Epoch, guardian_epoch : Nat, old_roster : SUBSET Nat,
         new_roster : SUBSET Nat]

ASSUME NoPlanAssumption == None \notin Plan

SignerEntry == [active_capsule : Epoch,
                predecessor_plan_locks : [Epoch -> Rotation \cup {None}],
                intents : SUBSET Rotation,
                begin_votes : SUBSET Rotation,
                release_votes : SUBSET Rotation,
                activate_votes : SUBSET Rotation,
                cancelled_rotations : SUBSET Rotation]

\* How far a guardian's session is; "spent" and "cancelled" end it.
Progress == {"none", "begun", "dealt", "summed", "repaired", "round1", "round2",
             "refreshed", "staged", "prepared", "spent", "cancelled"}

GuardianEntry == [capsule : Epoch \cup {None},    \* None: not provisioned yet
                  active : Epoch \cup {None},
                  prepared : Rotation \cup {None},
                  sessions : [Rotation -> Progress],
                  skewed : SUBSET Rotation,       \* a round was dealt twice
                  tombstones : SUBSET Rotation]

\* The pending child and, by attempt, the owner's cancellations.
WitnessEntry == [capsule : Epoch, pending : Rotation \cup {None},
                 cancellations : [Rotation -> Nat]]

-----------------------------------------------------------------------------
(* Stages: whom they call, and how their loops end *)

required_witnesses == 2 * witness_fault_bound + 1

Reply(c, x, st) == /\ proc' = [proc EXCEPT ![c] = Answered(@, x, st)]
                   /\ UNCHANGED losses

Refusal(c, x, st) == /\ proc' = [proc EXCEPT ![c] = Missed(@, x, st)]
                     /\ UNCHANGED losses

Lost(c, x, st) == /\ losses < MaxLosses
                  /\ losses' = losses + 1
                  /\ proc' = [proc EXCEPT ![c] = Missed(@, x, st)]

\* What an actor makes of a request: ok, and its entry afterwards.
Served(ok, before, after) == [ok |-> ok, entry |-> IF ok THEN after ELSE before]

\* One attempt: send_rotation_once, or a plain post to a witness.
Attempt(c, x, st, table, table2, res) ==
  \/ /\ table2 = [table EXCEPT ![x] = res.entry]
     /\ \/ res.ok /\ Reply(c, x, st)
        \/ ~res.ok /\ Refusal(c, x, st)
        \/ Lost(c, x, st)
  \/ table2 = table /\ Lost(c, x, st)

rest == <<plan, files, results, attempts, crashes>>

CallSigner(c, s, st, res) ==
  /\ Attempt(c, s, st, signer, signer', res)
  /\ UNCHANGED <<guardian, witness, rest>>

CallGuardian(c, g, st, res) ==
  /\ Attempt(c, g, st, guardian, guardian', res)
  /\ UNCHANGED <<signer, witness, rest>>

CallWitness(c, w, st, res) ==
  /\ Attempt(c, w, st, witness, witness', res)
  /\ UNCHANGED <<signer, guardian, rest>>

-----------------------------------------------------------------------------
(* rotate_v3: from the read to the control file *)

guardian_epoch(e) == IF e = Genesis THEN 1 ELSE plan[e].guardian_epoch
roster(e) == IF e = Genesis THEN 1..guardian_count ELSE plan[e].new_roster

\* read_latest_epoch_v3 with the answers of the witnesses in Q: the highest epoch,
\* unless it is ambiguous.
Selected(Q) ==
  LET served == {witness[w].capsule : w \in Q}
      highest == {e \in served : \A d \in served : guardian_epoch(d) <= guardian_epoch(e)}
  IN IF Cardinality(highest) = 1 THEN highest ELSE {}

ReadQuorums == {Q \in SUBSET Witness : Cardinality(Q) >= required_witnesses}

\* The epochs that a fresh client may find.
Readable == UNION {Selected(Q) : Q \in ReadQuorums}

\* A run starts; it reads the latest epoch and goes on only if the owner-control
\* file names the same one.
StartRotation(r) ==
  /\ proc["rotate"].pc \in Ended
  /\ plan[r] = None
  /\ \A q \in Rotation : q < r => plan[q] # None
  /\ \E e \in Readable :
       /\ owner_file = e
       /\ plan' = [plan EXCEPT ![r] =
            [predecessor |-> e,
             guardian_epoch |-> guardian_epoch(e) + 1,
             old_roster |-> roster(e),
             new_roster |-> (roster(e) \ {remove_guardian[r]}) \cup {Added(r)}]]
  /\ proc' = [proc EXCEPT !["rotate"] =
       [pc |-> "Intent", r |-> r, called |-> {}, got |-> {}, acked |-> {}, tries |-> 0]]
  /\ UNCHANGED <<actors, files, results, attempts, losses, crashes>>

\* The run of the coordinator, its plan and the guardians it leaves in place.
run == proc["rotate"].r
old_roster == plan[run].old_roster
new_roster == plan[run].new_roster
kept == old_roster \cap new_roster
removed == {remove_guardian[run]}

\* The signers, asked in turn until enough of them have voted.
Votes(next) == Stage(Signer, "enough", signer_threshold, relay_count, next)

CollectIntents ==
  \E s \in Turn(proc["rotate"], "Intent", Signer) :
    CallSigner("rotate", s, Votes("NodeInfo"),
      Served(TRUE, signer[s],
             [signer[s] EXCEPT !.intents = @ \cup {run},
                               !.active_capsule = plan[run].predecessor]))

\* A is reconstructed and the descriptor opened; the guardian to remove must be in
\* it, and the replacement must answer.
NodeInfo ==
  /\ proc["rotate"].pc = "NodeInfo"
  /\ \/ /\ proc' = [proc EXCEPT !["rotate"] =
                      Enter(@, IF removed \subseteq old_roster THEN "Alias" ELSE "Failed")]
        /\ UNCHANGED losses
     \/ /\ losses < MaxLosses
        /\ losses' = losses + 1
        /\ proc' = [proc EXCEPT !["rotate"] = Enter(@, "Failed")]
  /\ UNCHANGED <<actors, rest>>

\* provision_aliases: a fresh mailbox for every guardian that stays, at every relay.
ProvisionAliases ==
  \E g \in Turn(proc["rotate"], "Alias", kept) :
    CallGuardian("rotate", g, All(kept, 1, "Candidate"),
      Served(TRUE, guardian[g], guardian[g]))

ProvisionCandidate ==
  \E g \in Turn(proc["rotate"], "Candidate", {Added(run)}) :
    CallGuardian("rotate", g, All({Added(run)}, 1, "BeginVotes"),
      Served(TRUE, guardian[g], [guardian[g] EXCEPT !.capsule = plan[run].predecessor]))

\* The signer's side of Begin: one plan per predecessor.
MayBeginVote(e, r) ==
  /\ r \notin e.cancelled_rotations
  /\ r \in e.intents
  /\ plan[r].predecessor = e.active_capsule
  /\ e.predecessor_plan_locks[plan[r].predecessor] \in {None, r}

collect_signer_begin_votes ==
  \E s \in Turn(proc["rotate"], "BeginVotes", Signer) :
    CallSigner("rotate", s, Votes("Begin"),
      Served(MayBeginVote(signer[s], run), signer[s],
             [signer[s] EXCEPT !.predecessor_plan_locks[plan[run].predecessor] = run,
                               !.begin_votes = @ \cup {run}]))

\* The guardian's side of Begin, which may be repeated.
BeginAt(g, r) ==
  LET e == guardian[g]
  IN Served(e.capsule = plan[r].predecessor /\ r \notin e.tombstones, e,
            [e EXCEPT !.sessions[r] = IF @ = "none" THEN "begun" ELSE @])

\* Every guardian of the successor roster must accept Begin.
BeginSuccessors ==
  \E g \in Turn(proc["rotate"], "Begin", new_roster) :
    CallGuardian("rotate", g, All(new_roster, relay_count, "BeginRemoved"), BeginAt(g, run))

\* The removed guardian is told, whatever comes of it.
BeginRemoved ==
  \E g \in Turn(proc["rotate"], "BeginRemoved", removed) :
    CallGuardian("rotate", g, Stage(removed, "try", 0, relay_count, "Control"),
                 BeginAt(g, run))

\* Mutant: the file names the epoch to be replaced and not the rotation.
WriteControlOfEpoch ==
  /\ proc["rotate"].pc = "Control"
  /\ control_file' = plan[run].predecessor
  /\ proc' = [proc EXCEPT !["rotate"] = Enter(@, "Sleep")]
  /\ UNCHANGED <<plan, actors, owner_file, results, attempts, losses, crashes>>

\* write_private_json of the rotation-control file.
WriteControlFile ==
  /\ proc["rotate"].pc = "Control"
  /\ control_file' = run
  /\ proc' = [proc EXCEPT !["rotate"] = Enter(@, "Sleep")]
  /\ UNCHANGED <<plan, actors, owner_file, results, attempts, losses, crashes>>

Sleep ==
  /\ proc["rotate"].pc = "Sleep"
  /\ proc' = [proc EXCEPT !["rotate"] = Enter(@, "ReleaseVotes")]
  /\ UNCHANGED <<plan, actors, files, results, attempts, losses, crashes>>

-----------------------------------------------------------------------------
(* rotate_v3: preparation *)

\* A signer's plan is still the one it began.
BegunVote(e, r) ==
  /\ r \notin e.cancelled_rotations
  /\ r \in e.begin_votes
  /\ plan[r].predecessor = e.active_capsule

\* The first k old guardians that stay.
helper_ids ==
  {g \in kept : Cardinality({h \in kept : h < g}) < guardian_threshold}

collect_signer_release_votes ==
  \E s \in Turn(proc["rotate"], "ReleaseVotes", Signer) :
    CallSigner("rotate", s,
      Votes(IF Cardinality(helper_ids) < guardian_threshold THEN "Failed" ELSE "RepairRound1"),
      Served(BegunVote(signer[s], run), signer[s],
             [signer[s] EXCEPT !.release_votes = @ \cup {run}]))

\* session_mut: the guardian works on the rotation.
Live(e, r) == e.sessions[r] \notin {"none", "spent", "cancelled"}

\* A round moves the session of e; dealing a round twice skews the sequence numbers.
Moved(e, r, from, to) ==
  [e EXCEPT !.sessions[r] = to,
            !.skewed = IF from = to THEN @ \cup {r} ELSE @]

\* The deliveries of all senders open.
InSequence(senders, r) == \A g \in senders : r \notin guardian[g].skewed

RepairRound1 ==
  \E g \in Turn(proc["rotate"], "RepairRound1", helper_ids) :
    LET e == guardian[g]
    IN CallGuardian("rotate", g, All(helper_ids, relay_count, "RepairRound2"),
         Served(Live(e, run) /\ e.capsule = plan[run].predecessor /\ e.active # None, e,
                Moved(e, run, e.sessions[run], "dealt")))

RepairRound2 ==
  \E g \in Turn(proc["rotate"], "RepairRound2", helper_ids) :
    LET e == guardian[g]
    IN CallGuardian("rotate", g, All(helper_ids, relay_count, "RepairFinalize"),
         Served(e.sessions[run] = "dealt" /\ InSequence(helper_ids \ {g}, run), e,
                Moved(e, run, "dealt", "summed")))

RepairFinalize ==
  \E g \in Turn(proc["rotate"], "RepairFinalize", {Added(run)}) :
    LET e == guardian[g]
    IN CallGuardian("rotate", g, All({Added(run)}, relay_count, "RefreshRound1"),
         Served(e.sessions[run] = "begun", e, Moved(e, run, "begun", "repaired")))

\* A guardian that stays opens its old share; the new one has a repaired share.
RefreshRound1 ==
  \E g \in Turn(proc["rotate"], "RefreshRound1", new_roster) :
    LET e == guardian[g]
    IN CallGuardian("rotate", g, All(new_roster, relay_count, "RefreshRound2"),
         Served(/\ Live(e, run)
                /\ IF g \in kept THEN e.capsule = plan[run].predecessor /\ e.active # None
                                 ELSE e.sessions[run] = "repaired",
                e, Moved(e, run, e.sessions[run], "round1")))

RefreshRound2 ==
  \E g \in Turn(proc["rotate"], "RefreshRound2", new_roster) :
    LET e == guardian[g]
    IN CallGuardian("rotate", g, All(new_roster, relay_count, "RefreshFinalize"),
         Served(e.sessions[run] = "round1" /\ InSequence(new_roster \ {g}, run), e,
                Moved(e, run, "round1", "round2")))

RefreshFinalize ==
  \E g \in Turn(proc["rotate"], "RefreshFinalize", new_roster) :
    LET e == guardian[g]
    IN CallGuardian("rotate", g, All(new_roster, relay_count, "StageMaterial"),
         Served(e.sessions[run] = "round2", e, Moved(e, run, "round2", "refreshed")))

StageMaterial ==
  \E g \in Turn(proc["rotate"], "StageMaterial", new_roster) :
    LET e == guardian[g]
    IN CallGuardian("rotate", g, All(new_roster, relay_count, "PrepareCommit"),
         Served(e.sessions[run] = "refreshed", e, Moved(e, run, "refreshed", "staged")))

\* prepare_commit at the guardian: one prepared record at a time.
PreparedAt(g, r) ==
  LET e == guardian[g]
  IN Served(e.sessions[r] = "staged" /\ e.prepared = None, e,
            [Moved(e, r, "staged", "prepared") EXCEPT !.prepared = r])

\* Mutant: a threshold of prepared acknowledgements is enough.
PrepareThreshold ==
  \E g \in Turn(proc["rotate"], "PrepareCommit", new_roster) :
    CallGuardian("rotate", g,
      Stage(new_roster, "enough", guardian_threshold, relay_count, "HandoffComplete"),
      PreparedAt(g, run))

PrepareCommit ==
  \E g \in Turn(proc["rotate"], "PrepareCommit", new_roster) :
    CallGuardian("rotate", g, All(new_roster, relay_count, "HandoffComplete"),
                 PreparedAt(g, run))

HandoffComplete ==
  \E g \in Turn(proc["rotate"], "HandoffComplete", helper_ids) :
    CallGuardian("rotate", g, All(helper_ids, relay_count, "ActivateVotes"),
      Served(Live(guardian[g], run), guardian[g], guardian[g]))

-----------------------------------------------------------------------------
(* rotate_v3: activation *)

collect_signer_activate_votes ==
  \E s \in Turn(proc["rotate"], "ActivateVotes", Signer) :
    CallSigner("rotate", s, Votes("WitnessActivate"),
      Served(BegunVote(signer[s], run) /\ run \in signer[s].release_votes, signer[s],
             [signer[s] EXCEPT !.activate_votes = @ \cup {run}]))

\* The witness's one-child lock: the pending child, or a free predecessor.
WitnessAccepts(e, r) ==
  /\ e.cancellations[r] = 0
  /\ \/ e.pending = r
     \/ e.pending = None /\ e.capsule = plan[r].predecessor

\* The witnesses, asked in turn until 2f+1 of them have acknowledged.
WitnessActivate ==
  \E w \in Turn(proc["rotate"], "WitnessActivate", Witness) :
    CallWitness("rotate", w,
      Stage(Witness, "enough", required_witnesses, 1, "WitnessFinalize"),
      Served(WitnessAccepts(witness[w], run), witness[w],
             [witness[w] EXCEPT !.pending = run]))

\* The witness's side of finalize; a repeated call is refused.
FinalizedAt(w, r) ==
  LET e == witness[w]
  IN Served(e.pending = r /\ e.cancellations[r] = 0, e,
            [e EXCEPT !.capsule = r, !.pending = None])

\* Mutant: a failed finalize call is passed over.
FinalizeSome ==
  \E w \in Turn(proc["rotate"], "WitnessFinalize", proc["rotate"].acked) :
    CallWitness("rotate", w, Stage(proc["rotate"].acked, "try", 0, 1, "Activate"),
                FinalizedAt(w, run))

\* Every witness of the QC is told, and each must answer.
WitnessFinalize ==
  \E w \in Turn(proc["rotate"], "WitnessFinalize", proc["rotate"].acked) :
    CallWitness("rotate", w, All(proc["rotate"].acked, 1, "Activate"), FinalizedAt(w, run))

\* What a guardian makes of Activate: the record it prepared becomes active, or the
\* removed guardian lets its record drain.  The session is spent before the store
\* of a removed guardian may refuse.
ActivatedAt(g, r) ==
  LET e == guardian[g]
      staying == g \in plan[r].new_roster
      may == /\ e.capsule = plan[r].predecessor
             /\ staying => e.prepared = r
             /\ Live(e, r)
  IN IF may /\ ~staying /\ e.prepared # None
     THEN [ok |-> FALSE, entry |-> [e EXCEPT !.sessions[r] = "spent"]]
     ELSE Served(may, e,
            [e EXCEPT !.capsule = r, !.active = IF staying THEN r ELSE None,
                      !.prepared = IF staying THEN None ELSE @,
                      !.sessions[r] = "none", !.tombstones = @ \cup {r}])

ActivateSuccessors ==
  \E g \in Turn(proc["rotate"], "Activate", new_roster) :
    CallGuardian("rotate", g, All(new_roster, relay_count, "ActivateRemoved"),
                 ActivatedAt(g, run))

ActivateRemoved ==
  \E g \in Turn(proc["rotate"], "ActivateRemoved", removed) :
    CallGuardian("rotate", g, Stage(removed, "try", 0, relay_count, "OwnerFile"),
                 ActivatedAt(g, run))

\* The owner-control file moves to the new epoch, and the run returns Ok.
WriteOwnerFile ==
  /\ proc["rotate"].pc = "OwnerFile"
  /\ owner_file' = run
  /\ completed' = completed \cup {run}
  /\ proc' = [proc EXCEPT !["rotate"] = Enter(@, "Ok")]
  /\ UNCHANGED <<plan, actors, control_file, cancelled, attempts, losses, crashes>>

RotateStep ==
  \/ CollectIntents \/ NodeInfo \/ ProvisionAliases \/ ProvisionCandidate
  \/ collect_signer_begin_votes \/ BeginSuccessors \/ BeginRemoved
  \/ WriteControlFile \/ Sleep
  \/ collect_signer_release_votes
  \/ RepairRound1 \/ RepairRound2 \/ RepairFinalize
  \/ RefreshRound1 \/ RefreshRound2 \/ RefreshFinalize
  \/ StageMaterial \/ PrepareCommit \/ HandoffComplete
  \/ collect_signer_activate_votes
  \/ WitnessActivate \/ WitnessFinalize
  \/ ActivateSuccessors \/ ActivateRemoved
  \/ WriteOwnerFile

rotate_v3 == (\E r \in Rotation : StartRotation(r)) \/ RotateStep

-----------------------------------------------------------------------------
(* cancel_rotation_v3 *)

target == proc["cancel"].r

\* The two files must describe the same epoch; each attempt signs a certificate of
\* its own.
StartCancel ==
  /\ proc["cancel"].pc \in Ended
  /\ attempts < MaxCancels
  /\ control_file # None
  /\ plan[control_file].predecessor = owner_file
  /\ attempts' = attempts + 1
  /\ proc' = [proc EXCEPT !["cancel"] =
       [pc |-> "Veto", r |-> control_file, called |-> {}, got |-> {}, acked |-> {}, tries |-> 0]]
  /\ UNCHANGED <<plan, actors, files, results, losses, crashes>>

\* The witness's side: a stored certificate of another attempt is in the way.
VetoedAt(w, r) ==
  LET e == witness[w]
  IN Served(/\ e.capsule = plan[r].predecessor
            /\ e.cancellations[r] \in {0, attempts}
            /\ e.cancellations[r] = 0 => e.pending \in {None, r},
            e, [e EXCEPT !.cancellations[r] = attempts,
                         !.pending = IF @ = r THEN None ELSE @])

\* Mutant: a single veto is taken for the quorum.
OneVeto ==
  \E w \in Turn(proc["cancel"], "Veto", Witness) :
    CallWitness("cancel", w, Stage(Witness, "enough", 1, 1, "CancelOld"), VetoedAt(w, target))

VetoAtWitnesses ==
  \E w \in Turn(proc["cancel"], "Veto", Witness) :
    CallWitness("cancel", w, Stage(Witness, "enough", required_witnesses, 1, "CancelOld"),
                VetoedAt(w, target))

\* The guardian's side of Cancel: everything of the rotation is erased, unless the
\* record of another one is prepared, which is found out too late for the session.
CancelledAt(g, r) ==
  LET e == guardian[g]
      may == e.capsule = plan[r].predecessor /\ e.sessions[r] # "spent"
      stopped == IF e.sessions[r] = "none" THEN e ELSE [e EXCEPT !.sessions[r] = "cancelled"]
  IN IF may /\ e.prepared \notin {None, r}
     THEN [ok |-> FALSE, entry |-> stopped]
     ELSE Served(may, e, [e EXCEPT !.prepared = None, !.sessions[r] = "none",
                                   !.tombstones = @ \cup {r}])

\* Every old guardian is told; n-k+1 must acknowledge.
CancelAtOldGuardians ==
  LET old == plan[target].old_roster
  IN \E g \in Turn(proc["cancel"], "CancelOld", old) :
       CallGuardian("cancel", g,
         Stage(old, "try", Cardinality(old) - guardian_threshold + 1, relay_count, "CancelNew"),
         CancelledAt(g, target))

CancelAtCandidates ==
  LET new == plan[target].new_roster \ plan[target].old_roster
  IN \E g \in Turn(proc["cancel"], "CancelNew", new) :
       CallGuardian("cancel", g, Stage(new, "try", 0, relay_count, "AbortVotes"),
                    CancelledAt(g, target))

\* The signers' Abort votes; too few of them only skip the Abort calls.
collect_signer_abort_votes ==
  \E s \in Turn(proc["cancel"], "AbortVotes", Signer) :
    CallSigner("cancel", s, [Votes("Abort") EXCEPT !.otherwise = "FinalizeOwnerCancel"],
      Served(BegunVote(signer[s], target) /\ target \notin signer[s].activate_votes,
             signer[s], signer[s]))

\* The guardian's side of Abort: as Cancel, for a session that is alive.
AbortedAt(g, r) ==
  LET e == guardian[g]
  IN IF Live(e, r) /\ e.capsule = plan[r].predecessor /\ e.prepared \notin {None, r}
     THEN [ok |-> FALSE, entry |-> [e EXCEPT !.sessions[r] = "spent"]]
     ELSE Served(Live(e, r) /\ e.capsule = plan[r].predecessor, e,
                 [e EXCEPT !.prepared = None, !.sessions[r] = "none",
                           !.tombstones = @ \cup {r}])

\* A guardian that stays has two mailboxes for one entry, its old one and its alias.
\* The code sends to both; the second call finds no live session and changes nothing.
AbortAtGuardians ==
  LET everybody == plan[target].old_roster \cup plan[target].new_roster
  IN \E g \in Turn(proc["cancel"], "Abort", everybody) :
       CallGuardian("cancel", g,
         Stage(everybody, "try", 0, relay_count, "FinalizeOwnerCancel"), AbortedAt(g, target))

\* Mutant: the predecessor lock stays.
TombstoneOnly(s, r) ==
  LET e == signer[s]
  IN Served(plan[r].predecessor = e.active_capsule /\ r \in e.begin_votes, e,
            [e EXCEPT !.cancelled_rotations = @ \cup {r}])

\* The signer's tombstone, which frees its predecessor lock.
OwnerCancelledAt(s, r) ==
  LET e == signer[s]
      again == r \in e.cancelled_rotations
  IN Served(/\ plan[r].predecessor = e.active_capsule
            /\ \/ again
               \/ /\ r \in e.begin_votes
                  /\ e.predecessor_plan_locks[plan[r].predecessor] = r,
            e, IF again THEN e
               ELSE [e EXCEPT !.cancelled_rotations = @ \cup {r},
                              !.predecessor_plan_locks[plan[r].predecessor] = None])

FinalizeAtSigners ==
  /\ \E s \in Turn(proc["cancel"], "FinalizeOwnerCancel", Signer) :
       /\ Attempt("cancel", s, Stage(Signer, "try", 0, relay_count, "Ok"),
                  signer, signer', OwnerCancelledAt(s, target))
  /\ cancelled' = IF proc'["cancel"].pc = "Ok" THEN cancelled \cup {target} ELSE cancelled
  /\ UNCHANGED <<guardian, witness, plan, files, completed, attempts, crashes>>

CancelStep ==
  \/ VetoAtWitnesses
  \/ CancelAtOldGuardians \/ CancelAtCandidates
  \/ collect_signer_abort_votes \/ AbortAtGuardians
  \/ FinalizeAtSigners

cancel_rotation_v3 == StartCancel \/ CancelStep

\* A process dies.  write_private_json truncates the file before it writes, so a
\* crash of the coordinator there may leave nothing that can be read.
Crash(c) ==
  /\ proc[c].pc \notin Ended
  /\ crashes < MaxCrashes
  /\ crashes' = crashes + 1
  /\ proc' = [proc EXCEPT ![c] = Enter(@, "Crashed")]
  /\ control_file' \in {control_file} \cup (IF proc[c].pc = "Control" THEN {None} ELSE {})
  /\ owner_file' \in {owner_file} \cup (IF proc[c].pc = "OwnerFile" THEN {None} ELSE {})
  /\ UNCHANGED <<plan, actors, results, attempts, losses>>

-----------------------------------------------------------------------------
IdleProc == [pc |-> "Idle", r |-> None, called |-> {}, got |-> {}, acked |-> {}, tries |-> 0]

Init ==
  /\ proc = [c \in Process |-> IdleProc]
  /\ plan = [r \in Rotation |-> None]
  /\ signer = [s \in Signer |->
       [active_capsule |-> Genesis,
        predecessor_plan_locks |-> [e \in Epoch |-> None],
        intents |-> {}, begin_votes |-> {}, release_votes |-> {},
        activate_votes |-> {}, cancelled_rotations |-> {}]]
  /\ guardian = [g \in Guardian |->
       LET c == IF g <= guardian_count THEN Genesis ELSE None
       IN [capsule |-> c, active |-> c, prepared |-> None,
           sessions |-> [r \in Rotation |-> "none"], skewed |-> {}, tombstones |-> {}]]
  /\ witness = [w \in Witness |->
       [capsule |-> Genesis, pending |-> None, cancellations |-> [r \in Rotation |-> 0]]]
  /\ owner_file = Genesis
  /\ control_file = None
  /\ completed = {}
  /\ cancelled = {}
  /\ attempts = 0
  /\ losses = 0
  /\ crashes = 0

Next == rotate_v3 \/ cancel_rotation_v3 \/ \E c \in Process : Crash(c)

\* A process that was started goes on: nothing it waits for is outside its own
\* steps.  Nobody is bound to start one.
Spec == Init /\ [][Next]_vars /\ WF_vars(RotateStep) /\ WF_vars(CancelStep)

-----------------------------------------------------------------------------
(* Properties *)

TypeOK ==
  /\ proc \in [Process -> Proc]
  /\ plan \in [Rotation -> Plan \cup {None}]
  /\ signer \in [Signer -> SignerEntry]
  /\ guardian \in [Guardian -> GuardianEntry]
  /\ witness \in [Witness -> WitnessEntry]
  /\ owner_file \in Epoch \cup {None}
  /\ control_file \in Rotation \cup {None}
  /\ completed \subseteq Rotation
  /\ cancelled \subseteq Rotation
  /\ attempts \in Nat /\ losses \in Nat /\ crashes \in Nat

\* Once the cancel command has its veto quorum, the rotation is active at no
\* guardian and at no more than f witnesses and never completes, although the
\* coordinator goes on between any two of the command's calls: the vetoes and the
\* finalize calls to all witnesses of the QC decide between the two programs.
OneOutcome ==
  LET decided == IF proc["cancel"].pc \in {"CancelOld", "CancelNew", "AbortVotes", "Abort",
                                           "FinalizeOwnerCancel"} THEN {target} ELSE {}
  IN \A r \in cancelled \cup decided :
       /\ r \notin completed
       /\ \A g \in Guardian : guardian[g].active # r
       /\ Cardinality({w \in Witness : witness[w].capsule = r}) <= witness_fault_bound

\* An epoch that any witness has made its active one has its record, prepared or
\* active, at every guardian of its roster, or that guardian has gone on to a later
\* epoch, unless the owner has collected a veto quorum against it in between.
FinalizedIsHeld ==
  \A w \in Witness : witness[w].capsule # Genesis =>
    LET r == witness[w].capsule
        vetoed == Cardinality({x \in Witness : witness[x].cancellations[r] # 0})
    IN vetoed < required_witnesses =>
         \A g \in plan[r].new_roster :
           \/ guardian[g].prepared = r
           \/ /\ guardian[g].capsule # None
              /\ guardian_epoch(guardian[g].capsule) >= guardian_epoch(r)

\* "Old records remain ACTIVE throughout preparation": as long as some quorum of
\* witnesses still serves an epoch, no guardian of its roster has given it up.
OldEpochServes ==
  \A e \in Epoch :
    (\E Q \in ReadQuorums : \A w \in Q : witness[w].capsule = e) =>
      \A g \in roster(e) : guardian[g].active = e \/ guardian[g].prepared = e

\* The state of RotationMachine that rotation r is in.  A quorum of witnesses that
\* serve the epoch have activated it; short of that, a run that has ended or that a
\* quorum has vetoed is an aborted one.  (The documents call an epoch active from the
\* QC on, before any witness has finalized it; a QC that nobody finalizes ends in
\* "Aborted" here.)
MachineState(r) ==
  LET pc == proc["rotate"].pc
      serving == {w \in Witness : witness[w].capsule = r}
      vetoing == {w \in Witness : witness[w].cancellations[r] # 0}
  IN IF plan[r] = None THEN "Proposed"
     ELSE IF r \in completed \/ Cardinality(serving) >= required_witnesses THEN "Active"
     ELSE IF \/ run # r \/ pc \in Ended
             \/ Cardinality(vetoing) >= required_witnesses THEN "Aborted"
     ELSE IF pc \in {"Intent", "NodeInfo", "Alias", "Candidate", "BeginVotes", "Begin"}
          THEN "Proposed"
     ELSE IF pc \in {"BeginRemoved", "Control", "Sleep", "ReleaseVotes"} THEN "DelayPending"
     ELSE IF pc \in {"HandoffComplete", "ActivateVotes"} THEN "Ready"
     ELSE IF pc \in {"WitnessActivate", "WitnessFinalize"} THEN "Activating"
     ELSE "Preparing"

MachineOf(r) ==
  INSTANCE RotationMachine WITH
    elapsed <- proc["rotate"].pc = "ReleaseVotes",
    prepared <- {g \in Guardian : guardian[g].prepared = r},
    successors <- IF plan[r] = None THEN {} ELSE plan[r].new_roster,
    state <- MachineState(r),
    ambiguous <- FALSE

\* "Before activation, any ... coordinator crash, timeout, partition, cancellation ...
\* causes ABORT": every rotation goes through the states of gp-core's RotationMachine,
\* although no process runs that machine.  It is ready only when every successor
\* record is prepared, active only through a witness quorum, and a rotation that was
\* vetoed, that failed or whose coordinator died before never becomes active.
RotationFollowsMachine ==
  /\ \A r \in Rotation : MachineOf(r)!Init
  /\ [][\A r \in Rotation : [MachineOf(r)!apply]_(MachineOf(r)!vars)]_vars

\* A run that meets no fault completes unless the owner cancels it, also when an
\* earlier run was cancelled: its locks, sessions and records are gone from enough
\* signers, guardians and witnesses.
UndisturbedRotationCompletes ==
  LET Started(r) == /\ proc["rotate"].pc = "Intent"
                    /\ proc["rotate"].r = r
                    /\ proc["rotate"].called = {}
                    /\ proc["cancel"].pc \in {"Idle", "Ok"}
  IN [](losses = 0 /\ crashes = 0) => \A r \in Rotation :
       Started(r) ~> (r \in completed \/ proc["cancel"].r = r)

\* "all crash points preserve either old ACTIVE or unique new ACTIVE state": when
\* the coordinator does not run, an epoch that a fresh client may find has a
\* threshold of guardians at which it is active.
StoppedRotationIsServed ==
  proc["rotate"].pc \in Ended =>
    \A e \in Readable :
      Cardinality({g \in roster(e) : guardian[g].active = e}) >= guardian_threshold

=============================================================================
