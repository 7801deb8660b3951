---------------------------- MODULE EpochRecovery ----------------------------
(***************************************************************************)
(* Recovery of a protocol v3 configuration while rotations replace its       *)
(* guardian epoch: setup_v3, recover_v3, the signers and the guardians.      *)
(*                                                                           *)
(* Every attempt at a call is a step, and requests and replies may be lost.  *)
(* Several clients run at once, each with a request of its own.              *)
(*                                                                           *)
(* Data that is abstracted:                                                  *)
(*  - an epoch stands for its capsule; a fresh read of the witnesses gives   *)
(*    the latest one (WitnessEpochs), and of a rotation only what recovery   *)
(*    can notice is left: signer intents, the finalized epoch, Activate;     *)
(*  - certificates are what the client has collected, shares and proofs      *)
(*    belong to them, and requests do not expire (their lifetime is a week); *)
(*  - clocks show true time, and guardians do not reboot (GuardianEpochs).   *)
(***************************************************************************)
EXTENDS Calls

CONSTANTS
  Signer,                  \* numbered
  signer_threshold,
  roster,                  \* roster[e]: the numbers of the guardians of epoch e
  guardian_threshold,
  Witness,                 \* numbered
  relay_count,
  minimum_recovery_delay,
  read_lifetime,           \* for how long signers accept a read of the witnesses
  Request,                 \* recovery requests
  FreeTime,                \* bound on the time that passes while no client sleeps
  MaxLosses,               \* bound on lost messages
  None

Epoch == DOMAIN roster
Guardian == UNION {roster[e] : e \in Epoch}

ASSUME EpochRecoveryAssumption ==
  /\ Signer \subseteq Nat /\ IsFiniteSet(Signer)
  /\ Witness \subseteq Nat /\ IsFiniteSet(Witness) /\ Witness # {}
  /\ IsFiniteSet(Epoch) /\ Epoch # {} /\ Epoch = 1..Cardinality(Epoch)
  /\ \A e \in Epoch : roster[e] \subseteq Nat /\ IsFiniteSet(roster[e])
  /\ signer_threshold \in 1..Cardinality(Signer)
  /\ \A e \in Epoch : guardian_threshold \in 2..Cardinality(roster[e])
  /\ relay_count \in Nat \ {0}
  /\ minimum_recovery_delay \in Nat /\ read_lifetime \in Nat
  /\ FreeTime \in Nat /\ MaxLosses \in Nat
  /\ None \notin Nat

VARIABLES
  now,
  proc,           \* proc[c]: setup_v3 and the runs of recover_v3
  card,           \* whether the Recovery Card has been written
  latest,         \* the epoch that the witnesses serve
  superseded_at,  \* superseded_at[e]: when e was no longer the latest (history)
  config_ref,     \* config_ref[q]: the epoch that the client of q has read
  issued_at,      \* issued_at[q]: when it has read it
  wake,           \* wake[q]: when the client of q has slept enough
  signer,         \* signer[s]: the SignerRotationEntryV3 of s, or None
  guardian,       \* guardian[g]: the GuardianRotationEntryV3 of g, or None
  recovered,      \* the requests whose client has reconstructed the payload
  losses

clientvars == <<config_ref, issued_at, wake>>
vars == <<now, proc, card, latest, superseded_at, clientvars, signer, guardian, recovered,
          losses>>

Setup == <<"setup">>
Client(q) == <<"recover", q>>
Process == {Setup} \cup ({"recover"} \X Request)

Ended == {"Idle", "Ok", "Failed"}
Stages == {"Signers", "Guardians", "Witnesses", "Card",
           "Approve", "Begin", "Sleep", "Sleeping", "ReleaseVotes", "Release"}

Proc == [pc : Stages \cup Ended, called : SUBSET Nat, got : SUBSET Nat,
         acked : SUBSET Nat, tries : Nat]

At(pc) == [pc |-> pc, called |-> {}, got |-> {}, acked |-> {}, tries |-> 0]

SignerEntry == [active_capsule : Epoch, recovery_requests : SUBSET Request]

\* pending holds not_before_monotonic; pending_request_ids are those of the
\* draining epochs.
GuardianEntry == [active : Epoch \cup {None},
                  draining : SUBSET Epoch,
                  pending_request_ids : SUBSET Request,
                  pending : [Request -> Nat \cup {None}],
                  released : SUBSET Request]

NewGuardian(active) == [active |-> active, draining |-> {}, pending_request_ids |-> {},
                        pending |-> [q \in Request |-> None], released |-> {}]

\* PendingEpochRecovery of gp-core.
MachineRecovery == [not_before : Nat, state : {"DelayPending", "Releasing"}]

\* An entry that was removed does not come back: setup_v3 and rotate_v3 give every
\* guardian they add a fresh mailbox.
ASSUME EntryAssumption ==
  /\ \A e \in Epoch : e + 1 \in Epoch => roster[1] \cap roster[e + 1] \subseteq roster[e]
  /\ None \notin SignerEntry /\ None \notin GuardianEntry /\ None \notin MachineRecovery

-----------------------------------------------------------------------------
(* Calls *)

Reply(c, x, st) == /\ proc' = [proc EXCEPT ![c] = Answered(@, x, st)]
                   /\ UNCHANGED losses

Refusal(c, x, st) == /\ proc' = [proc EXCEPT ![c] = Missed(@, x, st)]
                     /\ UNCHANGED losses

Lost(c, x, st) == /\ losses < MaxLosses
                  /\ losses' = losses + 1
                  /\ proc' = [proc EXCEPT ![c] = Missed(@, x, st)]

\* send_recovery_mailbox_v3: the handler runs and replies, or refuses, or the
\* message is lost on either way.
Call(c, x, st, may, handler, others) ==
  \/ may /\ handler /\ (Reply(c, x, st) \/ Lost(c, x, st))
  \/ ~may /\ Refusal(c, x, st) /\ UNCHANGED others
  \/ Lost(c, x, st) /\ UNCHANGED others

SignerCall(c, s, st, may, after) ==
  /\ Call(c, s, st, may, signer' = [signer EXCEPT ![s] = after], signer)
  /\ UNCHANGED <<now, card, latest, superseded_at, clientvars, guardian, recovered>>

GuardianCall(c, g, st, may, after) ==
  /\ Call(c, g, st, may, guardian' = [guardian EXCEPT ![g] = after], guardian)
  /\ UNCHANGED <<now, card, latest, superseded_at, clientvars, signer>>

-----------------------------------------------------------------------------
(* setup_v3: one failed call ends it *)

ProvisionSigners ==
  \E s \in Turn(proc[Setup], "Signers", Signer) :
    /\ SignerCall(Setup, s, All(Signer, 1, "Guardians"), TRUE,
                  [active_capsule |-> 1, recovery_requests |-> {}])
    /\ UNCHANGED recovered

ProvisionGuardians ==
  /\ \E g \in Turn(proc[Setup], "Guardians", roster[1]) :
       GuardianCall(Setup, g, All(roster[1], 1, "Witnesses"), TRUE, NewGuardian(1))
  /\ UNCHANGED recovered

ProvisionWitnesses ==
  /\ \E w \in Turn(proc[Setup], "Witnesses", Witness) :
       LET st == All(Witness, 1, "Card") IN Reply(Setup, w, st) \/ Lost(Setup, w, st)
  /\ UNCHANGED <<now, card, latest, superseded_at, clientvars, signer, guardian, recovered>>

WriteCard ==
  /\ proc[Setup].pc = "Card"
  /\ card' = TRUE
  /\ proc' = [proc EXCEPT ![Setup] = Enter(@, "Ok")]
  /\ UNCHANGED <<now, latest, superseded_at, clientvars, signer, guardian, recovered, losses>>

setup_v3 == ProvisionSigners \/ ProvisionGuardians \/ ProvisionWitnesses \/ WriteCard

-----------------------------------------------------------------------------
(* Rotations, as far as recovery notices them *)

\* The intents of a rotation bring its coordinator's fresh read to the signers.
CollectIntent(s) ==
  /\ card
  /\ latest + 1 \in Epoch
  /\ signer[s].active_capsule # latest
  /\ signer' = [signer EXCEPT ![s].active_capsule = latest]
  /\ UNCHANGED <<now, proc, card, latest, superseded_at, clientvars, guardian, recovered, losses>>

\* A quorum of witnesses has finalized the successor, after the guardians of the
\* last rotation were all activated and those of this one were prepared.
FinalizeEpoch ==
  /\ card
  /\ latest + 1 \in Epoch
  /\ \A g \in roster[latest] : guardian[g].active = latest
  /\ latest' = latest + 1
  /\ superseded_at' = [superseded_at EXCEPT ![latest] = now]
  /\ guardian' = [g \in Guardian |-> IF g \in roster[latest'] /\ guardian[g] = None
                                     THEN NewGuardian(None) ELSE guardian[g]]
  /\ UNCHANGED <<now, proc, card, clientvars, signer, recovered, losses>>

pending_old_recovery_ids(e) ==
  {q \in Request : e.pending[q] # None /\ config_ref[q] = e.active /\ q \notin e.released}

\* Mutant: the requests that are pending are forgotten.
ActivateAndForget(e, successor) ==
  [e EXCEPT !.active = successor,
            !.draining = IF e.active = None THEN @ ELSE @ \cup {e.active}]

\* Mutant: a new guardian drains the record that it does not have.
ActivateFromNothing(e, successor) ==
  [e EXCEPT !.active = successor,
            !.draining = @ \cup {e.active},
            !.pending_request_ids = @ \cup pending_old_recovery_ids(e)]

\* activate_successor and observe_replacement_activation.
Activated(e, successor) ==
  IF e.active = None THEN [e EXCEPT !.active = successor]
  ELSE [e EXCEPT !.active = successor,
                 !.draining = @ \cup {e.active},
                 !.pending_request_ids = @ \cup pending_old_recovery_ids(e)]

\* The coordinator activates the successors first and then whom they replace.
ActivateGuardian ==
  LET successors == {g \in roster[latest] : guardian[g].active # latest}
      removed == {g \in Guardian \ roster[latest] :
                    guardian[g] # None /\ guardian[g].active # None}
  IN /\ latest > 1
     /\ successors \cup removed # {}
     /\ guardian' =
          IF successors # {}
          THEN [guardian EXCEPT ![First(successors)] = Activated(@, latest)]
          ELSE [guardian EXCEPT ![First(removed)] = Activated(@, None)]
     /\ UNCHANGED <<now, proc, card, latest, superseded_at, clientvars, signer, recovered, losses>>

-----------------------------------------------------------------------------
(* recover_v3: the read, the approvals and Begin *)

read_latest_epoch_v3(q) ==
  /\ card
  /\ proc[Client(q)].pc = "Idle"
  /\ config_ref' = [config_ref EXCEPT ![q] = latest]
  /\ issued_at' = [issued_at EXCEPT ![q] = now]
  /\ proc' = [proc EXCEPT ![Client(q)] = At("Approve")]
  /\ UNCHANGED <<now, card, latest, superseded_at, wake, signer, guardian, recovered, losses>>

Votes(next) == Stage(Signer, "enough", signer_threshold, relay_count, next)

\* Mutant: the age of the read is not checked.
AnyRead(q) == TRUE

\* The challenge has not expired; the request names the epoch of the reads.
FreshRead(q) == issued_at[q] <= now /\ now < issued_at[q] + read_lifetime

\* handle_signer_recovery_v3, Approve: the reads of the client decide which capsule
\* is active, and a repeated request is answered again.
Approve(q) ==
  \E s \in Turn(proc[Client(q)], "Approve", Signer) :
    /\ SignerCall(Client(q), s, Votes("Begin"), FreshRead(q),
                  [active_capsule |-> config_ref[q],
                   recovery_requests |-> signer[s].recovery_requests \cup {q}])
    /\ UNCHANGED recovered

\* The request names the epoch that is taken for the active one.
validate_recovery_request_v3(q, active) == config_ref[q] = active

\* Mutant: a draining epoch still accepts new requests.
BeginWhileDraining(e, q) == config_ref[q] \in {e.active} \cup e.draining

\* A guardian begins new requests in its active epoch only.
MayBegin(e, q) == validate_recovery_request_v3(q, e.active)

\* Mutant: a repeated Begin starts the delay anew.
BegunAnew(e, q) == [e EXCEPT !.pending[q] = now + minimum_recovery_delay]

\* The delay is counted from the first Begin; a repeated one is answered again.
Begun(e, q) ==
  [e EXCEPT !.pending[q] = IF @ = None THEN now + minimum_recovery_delay ELSE @]

Begin(q) ==
  LET guardians == roster[config_ref[q]]
  IN /\ \E g \in Turn(proc[Client(q)], "Begin", guardians) :
          GuardianCall(Client(q), g,
            Stage(guardians, "try", guardian_threshold, relay_count, "Sleep"),
            MayBegin(guardian[g], q), Begun(guardian[g], q))
     /\ UNCHANGED recovered

-----------------------------------------------------------------------------
(* recover_v3: the delay, the votes and the contributions *)

Sleep(q) ==
  /\ proc[Client(q)].pc = "Sleep"
  /\ wake' = [wake EXCEPT ![q] = now + minimum_recovery_delay + 1]
  /\ proc' = [proc EXCEPT ![Client(q)] = Enter(@, "Sleeping")]
  /\ UNCHANGED <<now, card, latest, superseded_at, config_ref, issued_at, signer, guardian,
                 recovered, losses>>

Wake(q) ==
  /\ proc[Client(q)].pc = "Sleeping"
  /\ now >= wake[q]
  /\ proc' = [proc EXCEPT ![Client(q)] = Enter(@, "ReleaseVotes")]
  /\ UNCHANGED <<now, card, latest, superseded_at, clientvars, signer, guardian, recovered, losses>>

\* handle_signer_recovery_v3, Release: the request must be of the epoch that the
\* signer thinks active, whatever it was when the signer approved.
MayVote(s, q) == /\ validate_recovery_request_v3(q, signer[s].active_capsule)
                 /\ q \in signer[s].recovery_requests

CollectReleaseVotes(q) ==
  \E s \in Turn(proc[Client(q)], "ReleaseVotes", Signer) :
    /\ SignerCall(Client(q), s, Votes("Release"), MayVote(s, q), signer[s])
    /\ UNCHANGED recovered

\* record_for_request: the active epoch, or a draining one that lists the request.
record_for_request(e, q) ==
  \/ e.active = config_ref[q]
  \/ config_ref[q] \in e.draining /\ q \in e.pending_request_ids

MayRelease(e, q) ==
  /\ record_for_request(e, q)
  /\ e.pending[q] # None
  /\ q \notin e.released
  /\ now >= e.pending[q]

Released(e, q) == [e EXCEPT !.released = @ \cup {q}, !.pending_request_ids = @ \ {q}]

\* The guardians in turn, until k contributions open; these reconstruct.
Release(q) ==
  LET guardians == roster[config_ref[q]]
  IN /\ \E g \in Turn(proc[Client(q)], "Release", guardians) :
          GuardianCall(Client(q), g,
            Stage(guardians, "enough", guardian_threshold, relay_count, "Ok"),
            MayRelease(guardian[g], q), Released(guardian[g], q))
     /\ recovered' = IF proc'[Client(q)].pc = "Ok" THEN recovered \cup {q} ELSE recovered

recover_v3(q) ==
  \/ Approve(q) \/ Begin(q)
  \/ Sleep(q) \/ Wake(q)
  \/ CollectReleaseVotes(q) \/ Release(q)

Tick ==
  /\ \/ now < FreeTime
     \/ \E q \in Request : proc[Client(q)].pc = "Sleeping" /\ now < wake[q]
  /\ now' = now + 1
  /\ UNCHANGED <<proc, card, latest, superseded_at, clientvars, signer, guardian, recovered, losses>>

-----------------------------------------------------------------------------
Init ==
  /\ now = 0
  /\ proc = [c \in Process |-> At(IF c = Setup THEN "Signers" ELSE "Idle")]
  /\ card = FALSE
  /\ latest = 1
  /\ superseded_at = [e \in Epoch |-> None]
  /\ config_ref = [q \in Request |-> None]
  /\ issued_at = [q \in Request |-> None]
  /\ wake = [q \in Request |-> 0]
  /\ signer = [s \in Signer |-> None]
  /\ guardian = [g \in Guardian |-> None]
  /\ recovered = {}
  /\ losses = 0

Next ==
  \/ setup_v3
  \/ \E s \in Signer : CollectIntent(s)
  \/ FinalizeEpoch \/ ActivateGuardian
  \/ \E q \in Request : read_latest_epoch_v3(q) \/ recover_v3(q)
  \/ Tick

\* A command that runs goes on, and time passes.
Spec ==
  /\ Init
  /\ [][Next]_vars
  /\ WF_vars(setup_v3)
  /\ \A q \in Request : WF_vars(recover_v3(q))
  /\ WF_vars(Tick)

-----------------------------------------------------------------------------
(* Properties *)

TypeOK ==
  /\ now \in Nat
  /\ proc \in [Process -> Proc]
  /\ card \in BOOLEAN
  /\ latest \in Epoch
  /\ superseded_at \in [Epoch -> Nat \cup {None}]
  /\ config_ref \in [Request -> Epoch \cup {None}]
  /\ issued_at \in [Request -> Nat \cup {None}]
  /\ wake \in [Request -> Nat]
  /\ signer \in [Signer -> SignerEntry \cup {None}]
  /\ guardian \in [Guardian -> GuardianEntry \cup {None}]
  /\ recovered \subseteq Request
  /\ losses \in 0..MaxLosses

\* The guardians that have accepted Begin for q, and whether all guardians of its
\* epoch have been activated for a later one.
Accepting(q) == {g \in Guardian : guardian[g] # None /\ guardian[g].pending[q] # None}
Closed(q) == /\ config_ref[q] # None
             /\ \A g \in roster[config_ref[q]] : guardian[g].active # config_ref[q]

\* "An isolated old guardian cannot start a stale recovery": a request that has not
\* been begun by k guardians when the last guardian of its epoch has been activated
\* for the successor is never recovered.
CutoverIsFinal ==
  [][\A q \in Request :
       Closed(q) /\ Cardinality(Accepting(q)) < guardian_threshold =>
         /\ Cardinality(Accepting(q)') < guardian_threshold
         /\ q \notin recovered']_vars

\* "An honest signer threshold will not create a new old-epoch Begin certificate":
\* once a signer's read may be that old, it approves nothing in a superseded epoch.
StaleReadsExpire ==
  [][\A s \in Signer, q \in Request :
       /\ signer[s] # None /\ q \notin signer[s].recovery_requests
       /\ q \in signer'[s].recovery_requests
       => \/ superseded_at[config_ref[q]] = None
          \/ now < superseded_at[config_ref[q]] + read_lifetime]_vars

EpochMachineOf(g) ==
  INSTANCE EpochRecoveryMachine WITH
    delay <- minimum_recovery_delay,
    active <- IF guardian[g].active = None THEN Cardinality(guardian[g].draining) + 1
              ELSE guardian[g].active,
    draining <- guardian[g].draining,
    pending <- [q \in Request |->
                  IF guardian[g].pending[q] = None THEN None
                  ELSE [not_before |-> guardian[g].pending[q],
                        state |-> IF q \in guardian[g].released THEN "Releasing"
                                  ELSE "DelayPending"]],
    cancelled <- {}

\* The server keeps a guardian's epochs, pending requests and drain lists in its entry
\* and in the epoch store: together they go through the states of gp-core's
\* EpochRecoveryMachine, where no rotation restarts a delay, admits a request of an
\* epoch that drains or releases one that was not begun.
GuardianFollowsMachine ==
  [][\A g \in roster[1] :
       IF guardian[g] = None
       THEN guardian'[g] = None \/ (EpochMachineOf(g)!New)'
       ELSE [EpochMachineOf(g)!Next]_(EpochMachineOf(g)!vars)]_vars

\* The request of a client that has slept through a rotation, while every signer
\* that approved still takes the epoch of the request for the active one.
StillActive(q) ==
  \A s \in Signer : signer[s] # None /\ q \in signer[s].recovery_requests =>
                      signer[s].active_capsule = config_ref[q]

\* "A request created before activation binds the old epoch and drains there": with
\* as many spare guardians as messages may be lost, a request that was begun is
\* recovered, whatever rotations do meanwhile, if StillActive.
BegunIsRecovered ==
  \A q \in Request :
    [](proc[Client(q)].pc \in {"Sleep", "Sleeping", "ReleaseVotes"} => StillActive(q))
      => ( /\ proc[Client(q)].pc = "Sleep"
           /\ Cardinality(proc[Client(q)].acked) >= guardian_threshold + MaxLosses
           ~> q \in recovered)

\* "Signers ... retain the state ... needed to finish ... already-begun draining
\* requests": such a request of a superseded epoch is recovered.
DrainingIsServed ==
  \A q \in Request :
    ( /\ proc[Client(q)].pc = "Sleep" /\ config_ref[q] < latest
      /\ Cardinality(proc[Client(q)].acked) >= guardian_threshold + MaxLosses
      ~> q \in recovered)

=============================================================================
