-------------------------- MODULE GuardianRecovery --------------------------
(***************************************************************************)
(* The guardians of a protocol v2 configuration while recovery requests are  *)
(* begun, cancelled by the owner and released.                               *)
(*                                                                           *)
(* A guardian is one HTTP process; its mailbox handler reads the clocks,     *)
(* takes the store's mutex, changes the mailbox entry in memory, writes the  *)
(* state file and only then replies.  The clocks are read before the mutex   *)
(* is awaited, so a handler works with any time since the process started.   *)
(* An error return before the write changes nothing; a failed write leaves   *)
(* the change in memory and the old or the new contents in the file.         *)
(*                                                                           *)
(* Data that is abstracted:                                                  *)
(*  - a request stands for its transcript and thus for its digest; several   *)
(*    requests may carry the same request id or the same nonce;              *)
(*  - Begin, Release and owner cancel certificates exist for every request   *)
(*    at all times, so nothing is assumed of signers and recovery clients;   *)
(*  - the wall clock of a guardian may read anything at any moment;          *)
(*  - a malicious guardian releases its share at once and signs any ack.     *)
(***************************************************************************)
EXTENDS Integers, FiniteSets

CONSTANTS
  Guardian,                \* the guardians of the configuration
  Malicious,               \* those that follow no rule
  guardian_threshold,      \* k contributions reconstruct the secret
  minimum_recovery_delay,  \* seconds of the guardian's own clock
  Request,                 \* recovery requests
  request_id,              \* request_id[q]
  nonce,                   \* nonce[q]
  requested_at,            \* requested_at[q], a wall time
  expiry,                  \* expiry[q], a wall time
  WallTime,                \* what a wall clock may read
  MaxTime,                 \* bound on the time a behaviour lasts
  MaxReboots,              \* bound on the reboots of one guardian
  SaveMayFail,             \* whether writing the state file may fail
  None

RequestId == {request_id[q] : q \in Request}
Nonce == {nonce[q] : q \in Request}

\* Pending is PendingNetworkRecovery; its not_before_monotonic is
\* started_monotonic + minimum_recovery_delay.
Pending == [request : Request, started_monotonic : Nat, boot_id : Nat]

\* When, in true time, and in which boot a Begin arrived.
Arrival == [at : Nat, boot_id : Nat]

ASSUME GuardianAssumption ==
  /\ IsFiniteSet(Guardian)
  /\ Malicious \subseteq Guardian
  /\ guardian_threshold \in 1..Cardinality(Guardian)
  /\ minimum_recovery_delay \in Nat
  /\ MaxTime \in Nat
  /\ MaxReboots \in Nat
  /\ SaveMayFail \in BOOLEAN

ASSUME RequestAssumption ==
  /\ None \notin Request
  /\ None \notin Pending
  /\ None \notin Arrival
  /\ WallTime \subseteq Nat
  /\ requested_at \in [Request -> Nat]
  /\ expiry \in [Request -> Nat]

VARIABLES
  now,            \* true time, in seconds
  clock,          \* clock[g]: what the kernel and the process of g know of time
  entry,          \* entry[g]: the GuardianEntry of g in memory
  saved,          \* saved[g]: the same entry in g's state file
  cancel_acks,    \* <<g, q>>: g has returned a signed OwnerCancelAck for q
  contributions,  \* <<g, q>>: g has returned its contribution for q
  begun           \* begun[g][q]: when the last accepted Begin arrived (history)

vars == <<now, clock, entry, saved, cancel_acks, contributions, begun>>

Honest == Guardian \ Malicious

Entry == [pending : [RequestId -> Pending \cup {None}],
          cancelled : [RequestId -> Request \cup {None}],
          released : [RequestId -> Request \cup {None}],
          seen_nonces : SUBSET Nonce]

Clock == [boot_id : Nat,      \* which boot this is
          booted_at : Nat,    \* true time at which the monotonic clock was 0
          up_since : Nat]     \* true time at which the process started

NewEntry == [pending |-> [i \in RequestId |-> None],
             cancelled |-> [i \in RequestId |-> None],
             released |-> [i \in RequestId |-> None],
             seen_nonces |-> {}]

-----------------------------------------------------------------------------
(* Clocks *)

\* Mutant: the uptime is rounded the wrong way and starts below zero.
MonotonicBehind(g, at) == at - clock[g].booted_at - 1

monotonic_now(g, at) == at - clock[g].booted_at

\* The times a handler that runs now may have read before it got the mutex.
Sampled(g) == clock[g].up_since..now

\* The freshness test of the three validate_..._for_policy functions.
Fresh(q, wall) == requested_at[q] <= wall /\ wall < expiry[q]

Tick == /\ now < MaxTime
        /\ now' = now + 1
        /\ UNCHANGED <<clock, entry, saved, cancel_acks, contributions, begun>>

-----------------------------------------------------------------------------
(* The state file *)

Save(g, e) == /\ entry' = [entry EXCEPT ![g] = e]
              /\ saved' = [saved EXCEPT ![g] = e]

SaveFails(g, e) == /\ SaveMayFail
                   /\ entry' = [entry EXCEPT ![g] = e]
                   /\ saved' \in {saved, [saved EXCEPT ![g] = e]}

\* The process restarts: same boot, same monotonic clock.
Restart(g) == /\ entry[g] # saved[g]
              /\ entry' = [entry EXCEPT ![g] = saved[g]]
              /\ clock' = [clock EXCEPT ![g].up_since = now]
              /\ UNCHANGED <<now, saved, cancel_acks, contributions, begun>>

\* The machine reboots: a new boot id, and the monotonic clock starts again.
Reboot(g) == /\ clock[g].boot_id < MaxReboots
             /\ entry' = [entry EXCEPT ![g] = saved[g]]
             /\ clock' = [clock EXCEPT ![g] = [boot_id |-> @.boot_id + 1,
                                               booted_at |-> now, up_since |-> now]]
             /\ UNCHANGED <<now, saved, cancel_acks, contributions, begun>>

-----------------------------------------------------------------------------
(* guardian_mailbox, by the request it carries *)

\* The entry after an accepted Begin.
Begun(e, q, started, boot) ==
  [e EXCEPT !.pending[request_id[q]] = [request |-> q, started_monotonic |-> started,
                                        boot_id |-> boot],
            !.seen_nonces = @ \cup {nonce[q]}]

\* Mutant: the tombstone is not looked at.
MayBeginCancelled(g, q) ==
  /\ \E wall \in WallTime : Fresh(q, wall)
  /\ entry[g].pending[request_id[q]] = None
  /\ nonce[q] \notin entry[g].seen_nonces

MayBegin(g, q) ==
  /\ \E wall \in WallTime : Fresh(q, wall)
  /\ entry[g].cancelled[request_id[q]] # q
  /\ entry[g].pending[request_id[q]] = None
  /\ nonce[q] \notin entry[g].seen_nonces

GuardianBegin(g, q) ==
  /\ MayBegin(g, q)
  /\ \E at \in Sampled(g) :
       LET stored == Begun(entry[g], q, monotonic_now(g, at), clock[g].boot_id)
       IN /\ Save(g, stored) \/ SaveFails(g, stored)
          /\ begun' = [begun EXCEPT ![g][q] = [at |-> at, boot_id |-> clock[g].boot_id]]
  /\ UNCHANGED <<now, clock, cancel_acks, contributions>>

\* Mutant: a cancellation is accepted although material was released.
CancelAfterRelease(g, q) ==
  LET stored == [entry[g] EXCEPT !.cancelled[request_id[q]] = q]
  IN /\ entry[g].cancelled[request_id[q]] \in {None, q}
     /\ Save(g, stored)
     /\ cancel_acks' = cancel_acks \cup {<<g, q>>}
     /\ UNCHANGED <<now, clock, contributions, begun>>

\* Mutant: a cancellation is acknowledged although material was released.
MayCancelReleased(g, q) == entry[g].cancelled[request_id[q]] \in {None, q}

MayCancel(g, q) ==
  /\ \E wall \in WallTime : Fresh(q, wall)
  /\ entry[g].released[request_id[q]] # q
  /\ entry[g].cancelled[request_id[q]] \in {None, q}

GuardianCancel(g, q) ==
  LET stored == [entry[g] EXCEPT !.cancelled[request_id[q]] = q]
  IN /\ MayCancel(g, q)
     /\ \/ /\ Save(g, stored)
           /\ cancel_acks' = cancel_acks \cup {<<g, q>>}
        \/ /\ SaveFails(g, stored)
           /\ UNCHANGED cancel_acks
     /\ UNCHANGED <<now, clock, contributions, begun>>

\* ReleaseRefused: nothing changes, but the store is written all the same.
ReleaseRefused(g, q) ==
  /\ entry[g].cancelled[request_id[q]] = q
  /\ Save(g, entry[g]) \/ SaveFails(g, entry[g])
  /\ UNCHANGED <<now, clock, cancel_acks, contributions, begun>>

\* GuardianMachine::begin_at and authorize_release_at on the stored request.
\* begin_at repeats checks that Begin passed with the stored values.
authorize_release_at(p, q, monotonic) ==
  /\ p.request = q
  /\ monotonic >= p.started_monotonic + minimum_recovery_delay

\* Mutant: a pending recovery of an earlier boot is released.
ReleaseAfterReboot(g, q) ==
  LET p == entry[g].pending[request_id[q]]
  IN /\ entry[g].cancelled[request_id[q]] # q
     /\ p # None
     /\ \E at \in Sampled(g) : authorize_release_at(p, q, monotonic_now(g, at))
     /\ Save(g, [entry[g] EXCEPT !.released[request_id[q]] = q])
     /\ contributions' = contributions \cup {<<g, q>>}
     /\ UNCHANGED <<now, clock, cancel_acks, begun>>

MayRelease(g, q) ==
  LET p == entry[g].pending[request_id[q]]
  IN /\ entry[g].cancelled[request_id[q]] # q
     /\ \E wall \in WallTime : Fresh(q, wall)
     /\ p # None
     /\ p.boot_id = clock[g].boot_id
     /\ \E at \in Sampled(g) : authorize_release_at(p, q, monotonic_now(g, at))

GuardianRelease(g, q) ==
  LET stored == [entry[g] EXCEPT !.released[request_id[q]] = q]
  IN /\ MayRelease(g, q)
     /\ \/ /\ Save(g, stored)
           /\ contributions' = contributions \cup {<<g, q>>}
        \/ /\ SaveFails(g, stored)
           /\ UNCHANGED contributions
     /\ UNCHANGED <<now, clock, cancel_acks, begun>>

guardian_mailbox(g, q) ==
  \/ GuardianBegin(g, q)
  \/ GuardianCancel(g, q)
  \/ ReleaseRefused(g, q)
  \/ GuardianRelease(g, q)

-----------------------------------------------------------------------------
(* The owner and the recovery client *)

required_cancel_acks == Cardinality(Guardian) - guardian_threshold + 1

Ackers(q) == {g \in Honest : <<g, q>> \in cancel_acks}

\* The guardians whose shares the recovery client of q can have.
Contributors(q) == {g \in Honest : <<g, q>> \in contributions} \cup Malicious

\* reconstruct_payload succeeds.
Reconstructible(q) == Cardinality(Contributors(q)) >= guardian_threshold

-----------------------------------------------------------------------------
Init ==
  /\ now = 0
  /\ clock = [g \in Honest |-> [boot_id |-> 0, booted_at |-> 0, up_since |-> 0]]
  /\ entry = [g \in Honest |-> NewEntry]
  /\ saved = [g \in Honest |-> NewEntry]
  /\ cancel_acks = {}
  /\ contributions = {}
  /\ begun = [g \in Honest |-> [q \in Request |-> None]]

Next ==
  \/ Tick
  \/ \E g \in Honest : Restart(g) \/ Reboot(g)
  \/ \E g \in Honest, q \in Request : guardian_mailbox(g, q)

Spec == Init /\ [][Next]_vars

-----------------------------------------------------------------------------
(* Properties *)

TypeOK ==
  /\ now \in Nat
  /\ clock \in [Honest -> Clock]
  /\ entry \in [Honest -> Entry]
  /\ saved \in [Honest -> Entry]
  /\ cancel_acks \subseteq Honest \X Request
  /\ contributions \subseteq Honest \X Request
  /\ begun \in [Honest -> [Request -> Arrival \cup {None}]]

\* "This leaves fewer than the k guardians needed to reconstruct DEK": once n-k+1
\* guardians that keep their promise have acknowledged the owner's cancellation,
\* the request is never reconstructed, whichever saves fail and whoever restarts.
HardCancelIsFinal ==
  \A q \in Request :
    Cardinality(Ackers(q)) >= required_cancel_acks => ~Reconstructible(q)

\* A guardian sends a contribution only in the boot in which the Begin it accepted
\* had arrived, at least the delay of true time later ("before not_before, an
\* honest guardian does not release"; a reboot during the delay fails closed).
ReleaseWaits ==
  [][\A g \in Honest, q \in Request :
       <<g, q>> \in contributions' \ contributions =>
         /\ begun[g][q] # None
         /\ begun[g][q].boot_id = clock[g].boot_id
         /\ now >= begun[g][q].at + minimum_recovery_delay]_vars

=============================================================================
