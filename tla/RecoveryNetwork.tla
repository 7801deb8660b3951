--------------------------- MODULE RecoveryNetwork ---------------------------
(***************************************************************************)
(* A protocol v2 configuration from its setup to the recovery of the secret: *)
(* the setup, recover and cancel commands, the relays, the config stores and *)
(* the signers, composed with the guardians of GuardianRecovery.             *)
(*                                                                           *)
(* Every attempt at a call is a step; requests and replies may be lost,      *)
(* relays and config stores stop, commands die, and guardians fail to write  *)
(* their files, restart and reboot.  Every run of recover draws a request of *)
(* its own; its transcript is there for the owner at once.                   *)
(*                                                                           *)
(* Data that is abstracted:                                                  *)
(*  - the two certificates of a request are what its client has collected,   *)
(*    and shares, proofs, keys and the descriptor belong to them;            *)
(*  - setup makes fresh mailbox ids, so nothing is provisioned twice;        *)
(*  - a call takes no time, the wall clocks of signers show true time and    *)
(*    requests do not expire; signers write their files before they reply.   *)
(***************************************************************************)
EXTENDS GuardianRecovery, Calls

CONSTANTS
  Signer,             \* numbered, as the guardians are
  signer_threshold,
  relay_count,        \* relays 1 to relay_count
  store_count,        \* config stores 1 to store_count
  FreeTime,           \* bound on the time that passes while no client sleeps
  MaxLosses           \* bound on lost messages, failed writes, reboots and commands
                      \* that die

Relay == 1..relay_count
Store == 1..store_count

ASSUME NetworkAssumption ==
  /\ Signer \subseteq Nat /\ IsFiniteSet(Signer)
  /\ Guardian \subseteq Nat
  /\ signer_threshold \in 1..Cardinality(Signer)
  /\ relay_count \in Nat \ {0}
  /\ store_count \in Nat \ {0}
  /\ FreeTime \in Nat /\ MaxLosses \in Nat

\* The parties of this module follow the protocol, and recover draws request id and
\* nonce at random.
ASSUME RunsAssumption ==
  /\ Malicious = {}
  /\ \A q, r \in Request : request_id[q] = request_id[r] \/ nonce[q] = nonce[r] => q = r

\* GuardianPending of gp-core.
MachineRecovery == [request : Request, not_before : Nat,
                    state : {"DelayPending", "Cancelled", "Releasing", "Expired"}]

ASSUME MachineAssumption == None \notin MachineRecovery

VARIABLES
  proc,          \* proc[c]: the commands
  racing,        \* the requests whose client runs with cancel_before_release
  wake,          \* wake[q]: when the client of q has slept enough
  signer,        \* signer[s]: the SignerState and rate limit of s
  provisioned,   \* the signers and guardians that have been provisioned
  routes,        \* routes[r]: the mailboxes registered at relay r
  published,     \* the config stores that have the capsule
  card,          \* whether the Recovery Card has been written
  owner_control, \* whether the owner-control file has been written
  stopped,       \* the relay or config store that is down
  losses,
  results        \* results[q]: what the commands have reported of q

setupvars == <<provisioned, routes, published, card, owner_control>>
netvars == <<vars, proc, racing, wake, signer, setupvars, stopped, losses, results>>

Setup == <<"setup">>
Client(q) == <<"recover", q>>
Owner(q) == <<"cancel", q>>
Process == {Setup} \cup ({"recover", "cancel"} \X Request)

Mailbox == ({"signer"} \X Signer) \cup ({"guardian"} \X Guardian)

Ended == {"Idle", "Ok", "Failed", "Crashed", "Cancelled"}
Stages == {"Signers", "Guardians", "Publish", "Card", "OwnerControl",
           "Capsule", "Approve", "Begin", "RaceVotes", "RaceCancel", "Sleep", "Sleeping",
           "ReleaseVotes", "Release", "Raced", "Cancel"}

Proc == [pc : Stages \cup Ended, called : SUBSET Nat, got : SUBSET Nat,
         acked : SUBSET Nat, tries : Nat]

At(pc) == [pc |-> pc, called |-> {}, got |-> {}, acked |-> {}, tries |-> 0]

SignerEntry == [seen_requests : [RequestId -> Request \cup {None}],
                seen_nonces : SUBSET Nonce,
                last_approval_at : Nat \cup {None}]

-----------------------------------------------------------------------------
(* Calls *)

Reply(c, x, st) == /\ proc' = [proc EXCEPT ![c] = Answered(@, x, st)]
                   /\ UNCHANGED losses

Refusal(c, x, st) == /\ proc' = [proc EXCEPT ![c] = Missed(@, x, st)]
                     /\ UNCHANGED losses

Lost(c, x, st) == /\ losses < MaxLosses
                  /\ losses' = losses + 1
                  /\ proc' = [proc EXCEPT ![c] = Missed(@, x, st)]

\* relay_forward: the relay of the present attempt is up and knows the mailbox.
Forwards(c, mailbox) ==
  LET relay == proc[c].tries + 1
  IN <<"relay", relay>> \notin stopped /\ mailbox \in routes[relay]

\* What a signer makes of a request: ok, and its entry afterwards.
SignerCall(c, s, st, res) ==
  /\ \/ /\ Forwards(c, <<"signer", s>>)
        /\ signer' = [signer EXCEPT ![s] = res.entry]
        /\ IF res.ok THEN Reply(c, s, st) \/ Lost(c, s, st) ELSE Refusal(c, s, st)
     \/ ~Forwards(c, <<"signer", s>>) /\ Refusal(c, s, st) /\ UNCHANGED signer
     \/ Lost(c, s, st) /\ UNCHANGED signer
  /\ UNCHANGED <<vars, racing, wake, setupvars, stopped, results>>

\* The handler of g has written the file: only then its reply is not an error.
Written(g) == saved'[g] = entry'[g]

\* A guardian's handler runs, refuses, or is not reached; it replies when done.
GuardianCall(c, g, st, may, handler, done) ==
  \/ /\ Forwards(c, <<"guardian", g>>)
     /\ may
     /\ handler
     /\ \/ Written(g) /\ done /\ Reply(c, g, st)
        \/ Lost(c, g, st)
  \/ /\ ~Forwards(c, <<"guardian", g>>) \/ ~may
     /\ Refusal(c, g, st)
     /\ UNCHANGED vars
  \/ /\ Lost(c, g, st)
     /\ UNCHANGED vars

-----------------------------------------------------------------------------
(* setup *)

\* Every relay before number steps has registered the mailbox.
relay_register(mailbox, steps) ==
  [r \in Relay |-> IF r < steps THEN routes[r] \cup {mailbox} ELSE routes[r]]

\* Mutant: the routes are registered first.
RouteFirst(kind, x, st) ==
  \E steps \in 0..(relay_count + 1) :
    /\ \A r \in Relay : r <= steps => <<"relay", r>> \notin stopped
    /\ provisioned' = IF steps > relay_count THEN provisioned \cup {<<kind, x>>}
                                             ELSE provisioned
    /\ routes' = [r \in Relay |-> IF r <= steps THEN routes[r] \cup {<<kind, x>>}
                                               ELSE routes[r]]
    /\ IF steps = relay_count + 1 THEN Reply(Setup, x, st) ELSE Lost(Setup, x, st)
    /\ UNCHANGED <<vars, racing, wake, signer, published, card, owner_control, stopped,
                   results>>

\* provision_actor and register_route at every relay; steps is how many of these
\* calls have had their effect.
ProvisionActor(kind, x, st) ==
  \E steps \in 0..(relay_count + 1) :
    /\ \A r \in Relay : r < steps => <<"relay", r>> \notin stopped
    /\ provisioned' = IF steps > 0 THEN provisioned \cup {<<kind, x>>} ELSE provisioned
    /\ routes' = relay_register(<<kind, x>>, steps)
    /\ \/ steps = relay_count + 1 /\ Reply(Setup, x, st)
       \/ steps \in Relay /\ <<"relay", steps>> \in stopped /\ Refusal(Setup, x, st)
       \/ Lost(Setup, x, st)
    /\ UNCHANGED <<vars, racing, wake, signer, published, card, owner_control, stopped, results>>

\* Mutant: setup goes on after an actor that could not be provisioned.
ProvisionSome ==
  \E s \in Turn(proc[Setup], "Signers", Signer) :
    ProvisionActor("signer", s, Stage(Signer, "try", signer_threshold, 1, "Guardians"))

ProvisionSigners ==
  \E s \in Turn(proc[Setup], "Signers", Signer) :
    ProvisionActor("signer", s, All(Signer, 1, "Guardians"))

ProvisionGuardians ==
  \E g \in Turn(proc[Setup], "Guardians", Guardian) :
    ProvisionActor("guardian", g, All(Guardian, 1, "Publish"))

\* config_put of the capsule, at every store.
PublishCapsule ==
  /\ \E d \in Turn(proc[Setup], "Publish", Store) :
       LET st == All(Store, 1, "Card")
           up == <<"store", d>> \notin stopped
       IN \/ /\ up
             /\ published' = published \cup {d}
             /\ Reply(Setup, d, st) \/ Lost(Setup, d, st)
          \/ ~up /\ Refusal(Setup, d, st) /\ UNCHANGED published
          \/ Lost(Setup, d, st) /\ UNCHANGED published
  /\ UNCHANGED <<vars, racing, wake, signer, provisioned, routes, card, owner_control, stopped,
                 results>>

\* The card is written before the owner-control file.
WriteCard ==
  /\ proc[Setup].pc = "Card"
  /\ card' = TRUE
  /\ proc' = [proc EXCEPT ![Setup] = Enter(@, "OwnerControl")]
  /\ UNCHANGED <<vars, racing, wake, signer, provisioned, routes, published, owner_control, stopped,
                 losses, results>>

WriteOwnerControl ==
  /\ proc[Setup].pc = "OwnerControl"
  /\ owner_control' = TRUE
  /\ proc' = [proc EXCEPT ![Setup] = Enter(@, "Ok")]
  /\ UNCHANGED <<vars, racing, wake, signer, provisioned, routes, published, card, stopped, losses,
                 results>>

setup == \/ ProvisionSigners \/ ProvisionGuardians
         \/ PublishCapsule \/ WriteCard \/ WriteOwnerControl

-----------------------------------------------------------------------------
(* recover: the capsule, the approvals and Begin *)

StartRecover(q) ==
  /\ card
  /\ proc[Client(q)].pc = "Idle"
  /\ proc' = [proc EXCEPT ![Client(q)] = At("Capsule")]
  /\ racing' \in {racing, racing \cup {q}}
  /\ UNCHANGED <<vars, wake, signer, setupvars, stopped, losses, results>>

\* The store of number d is up and has the capsule.
config_get(d) == <<"store", d>> \notin stopped /\ d \in published

\* Mutant: only the first config store is asked.
FetchFromFirst(q) ==
  /\ \E d \in Turn(proc[Client(q)], "Capsule", Store) :
       LET st == Stage({1}, "enough", 1, 1, "Approve")
       IN IF config_get(d)
          THEN Reply(Client(q), d, st) ELSE Refusal(Client(q), d, st)
  /\ UNCHANGED <<vars, racing, wake, signer, setupvars, stopped, results>>

\* The config stores in turn, until one serves a capsule that matches the card.
FetchCapsule(q) ==
  /\ \E d \in Turn(proc[Client(q)], "Capsule", Store) :
       LET st == Stage(Store, "enough", 1, 1, "Approve")
       IN \/ config_get(d) /\ Reply(Client(q), d, st)
          \/ ~config_get(d) /\ Refusal(Client(q), d, st)
          \/ Lost(Client(q), d, st)
  /\ UNCHANGED <<vars, racing, wake, signer, setupvars, stopped, results>>

Votes(next) == Stage(Signer, "enough", signer_threshold, relay_count, next)

\* SignerState::observe_request, after the rate limit of one approval per second;
\* a replay is found out when the limit has been used up.
observe_request(s, q) ==
  LET e == signer[s]
      i == request_id[q]
      limited == e.last_approval_at = now
      replay == e.seen_requests[i] # None \/ nonce[q] \in e.seen_nonces
  IN [ok |-> ~limited /\ ~replay,
      entry |-> IF limited THEN e
                ELSE IF replay THEN [e EXCEPT !.last_approval_at = now]
                ELSE [e EXCEPT !.last_approval_at = now,
                               !.seen_requests[i] = q,
                               !.seen_nonces = @ \cup {nonce[q]}]]

\* Enough contributions reconstruct A, which opens the descriptor.
CollectApprovals(q) ==
  \E s \in Turn(proc[Client(q)], "Approve", Signer) :
    SignerCall(Client(q), s, Votes("Begin"), observe_request(s, q))

BeginAtGuardians(q) ==
  /\ \E g \in Turn(proc[Client(q)], "Begin", Guardian) :
       GuardianCall(Client(q), g,
         Stage(Guardian, "try", guardian_threshold, relay_count,
               IF q \in racing THEN "RaceVotes" ELSE "Sleep"),
         MayBegin(g, q), GuardianBegin(g, q) /\ begun'[g][q].at = now, TRUE)
  /\ UNCHANGED <<racing, wake, signer, setupvars, stopped, results>>

-----------------------------------------------------------------------------
(* recover: the delay, the release votes and the contributions *)

Sleep(q) ==
  /\ proc[Client(q)].pc = "Sleep"
  /\ wake' = [wake EXCEPT ![q] = now + minimum_recovery_delay + 1]
  /\ proc' = [proc EXCEPT ![Client(q)] = Enter(@, "Sleeping")]
  /\ UNCHANGED <<vars, racing, signer, setupvars, stopped, losses, results>>

\* Mutant: the client does not wait.
WakeAtOnce(q) ==
  /\ proc[Client(q)].pc = "Sleeping"
  /\ proc' = [proc EXCEPT ![Client(q)] =
                Enter(@, IF q \in racing THEN "Raced" ELSE "ReleaseVotes")]
  /\ UNCHANGED <<vars, racing, wake, signer, setupvars, stopped, losses, results>>

Wake(q) ==
  /\ proc[Client(q)].pc = "Sleeping"
  /\ now >= wake[q]
  /\ proc' = [proc EXCEPT ![Client(q)] =
                Enter(@, IF q \in racing THEN "Raced" ELSE "ReleaseVotes")]
  /\ UNCHANGED <<vars, racing, wake, signer, setupvars, stopped, losses, results>>

\* A signer votes Release only for the exact request it has approved.
ReleaseVote(s, q) == [ok |-> signer[s].seen_requests[request_id[q]] = q, entry |-> signer[s]]

CollectReleaseVotes(q) ==
  \E s \in Turn(proc[Client(q)], "ReleaseVotes", Signer) :
    SignerCall(Client(q), s, Votes("Release"), ReleaseVote(s, q))

\* What the command that ends well reports.
Reported(c, q, pc, result) ==
  results' = IF proc'[c].pc = pc /\ proc[c].pc # pc
             THEN [results EXCEPT ![q] = @ \cup {result}] ELSE results

\* A tombstone answers with ReleaseRefused, so the call is not repeated.
Tombstoned(g, q) == entry[g].cancelled[request_id[q]] = q

\* The contribution is in the reply.
Released(g, q) == Written(g) /\ <<g, q>> \in contributions'

RefusedRelease(c, g, q, st, next) ==
  /\ Forwards(c, <<"guardian", g>>)
  /\ ReleaseRefused(g, q)
  /\ \/ Written(g) /\ proc' = [proc EXCEPT ![c] = next] /\ UNCHANGED losses
     \/ Lost(c, g, st)

NotReleased(c, g, q, st) ==
  /\ \/ ~Forwards(c, <<"guardian", g>>) /\ Refusal(c, g, st)
     \/ ~Tombstoned(g, q) /\ ~MayRelease(g, q) /\ Refusal(c, g, st)
     \/ Lost(c, g, st)
  /\ UNCHANGED vars

\* The guardians in turn, until k contributions are valid; these reconstruct.
ReleaseAtGuardians(q) ==
  LET c == Client(q)
      st == Stage(Guardian, "enough", guardian_threshold, relay_count, "Ok")
  IN /\ \E g \in Turn(proc[c], "Release", Guardian) :
          \/ /\ Forwards(c, <<"guardian", g>>)
             /\ GuardianRelease(g, q)
             /\ \/ Released(g, q) /\ Reply(c, g, st)
                \/ Lost(c, g, st)
          \/ RefusedRelease(c, g, q, st, Declined(proc[c], g, st))
          \/ NotReleased(c, g, q, st)
     /\ Reported(c, q, "Ok", "recovered")
     /\ UNCHANGED <<racing, wake, signer, setupvars, stopped>>

-----------------------------------------------------------------------------
(* recover with cancel_before_release: the client holds a release certificate  *)
(* from before the owner's cancellation and tries it afterwards.               *)

CollectRaceVotes(q) ==
  \E s \in Turn(proc[Client(q)], "RaceVotes", Signer) :
    SignerCall(Client(q), s, Votes("RaceCancel"), ReleaseVote(s, q))

\* Mutant: n-k acknowledgements are taken for enough.
CancelOneShort(c, next, g, q) ==
  GuardianCall(c, g, Stage(Guardian, "try", required_cancel_acks - 1, relay_count, next),
               MayCancel(g, q), GuardianCancel(g, q), <<g, q>> \in cancel_acks')

\* Every guardian is asked to cancel; n-k+1 acknowledgements are needed.
CancelCall(c, next, g, q) ==
  GuardianCall(c, g, Stage(Guardian, "try", required_cancel_acks, relay_count, next),
               MayCancel(g, q), GuardianCancel(g, q), <<g, q>> \in cancel_acks')

RaceCancel(q) ==
  LET c == Client(q)
  IN /\ \/ /\ owner_control
           /\ \E g \in Turn(proc[c], "RaceCancel", Guardian) :
                CancelCall(c, "Sleep", g, q)
        \/ /\ ~owner_control
           /\ proc[c].pc = "RaceCancel"
           /\ proc' = [proc EXCEPT ![c] = Enter(@, "Failed")]
           /\ UNCHANGED <<vars, losses>>
     /\ UNCHANGED <<racing, wake, signer, setupvars, stopped, results>>

\* A contribution of any guardian ends the command with an error, whether or not
\* that guardian had acknowledged the cancellation.
RacedRelease(q) ==
  LET c == Client(q)
      st == Stage(Guardian, "try", 1, relay_count, "Failed")
  IN /\ \E g \in Turn(proc[c], "Raced", Guardian) :
          \/ /\ Forwards(c, <<"guardian", g>>)
             /\ GuardianRelease(g, q)
             /\ \/ /\ Released(g, q)
                   /\ proc' = [proc EXCEPT ![c] = Enter(@, "Failed")]
                   /\ UNCHANGED losses
                \/ Lost(c, g, st)
          \/ RefusedRelease(c, g, q, st, Enter(proc[c], "Cancelled"))
          \/ NotReleased(c, g, q, st)
     /\ Reported(c, q, "Cancelled", "cancelled")
     /\ UNCHANGED <<racing, wake, signer, setupvars, stopped>>

recover(q) ==
  \/ FetchCapsule(q) \/ CollectApprovals(q) \/ BeginAtGuardians(q)
  \/ Sleep(q) \/ Wake(q)
  \/ CollectReleaseVotes(q) \/ ReleaseAtGuardians(q)
  \/ CollectRaceVotes(q) \/ RaceCancel(q) \/ RacedRelease(q)

-----------------------------------------------------------------------------
(* cancel *)

\* The owner has the control file and the transcript of the request.
StartCancel(q) ==
  /\ owner_control
  /\ proc[Client(q)].pc # "Idle"
  /\ proc[Owner(q)].pc = "Idle"
  /\ proc' = [proc EXCEPT ![Owner(q)] = At("Cancel")]
  /\ UNCHANGED <<vars, racing, wake, signer, setupvars, stopped, losses, results>>

cancel(q) ==
  /\ \E g \in Turn(proc[Owner(q)], "Cancel", Guardian) :
       CancelCall(Owner(q), "Ok", g, q)
  /\ Reported(Owner(q), q, "Ok", "cancelled")
  /\ UNCHANGED <<racing, wake, signer, setupvars, stopped>>

-----------------------------------------------------------------------------
(* The environment *)

NetTick ==
  /\ \/ now < FreeTime
     \/ \E q \in Request : proc[Client(q)].pc = "Sleeping" /\ now < wake[q]
  /\ Tick
  /\ UNCHANGED <<proc, racing, wake, signer, setupvars, stopped, losses, results>>

\* One relay or one config store goes down, for good.
StopRelay ==
  /\ stopped = {}
  /\ \E r \in Relay : stopped' = {<<"relay", r>>}
  /\ UNCHANGED <<vars, proc, racing, wake, signer, setupvars, losses, results>>

StopStore ==
  /\ stopped = {}
  /\ \E d \in Store : stopped' = {<<"store", d>>}
  /\ UNCHANGED <<vars, proc, racing, wake, signer, setupvars, losses, results>>

\* A guardian's process starts again after a failed write, or its machine reboots.
RestartGuardian ==
  /\ \E g \in Guardian : Restart(g)
  /\ UNCHANGED <<proc, racing, wake, signer, setupvars, stopped, losses, results>>

RebootGuardian ==
  /\ losses < MaxLosses
  /\ losses' = losses + 1
  /\ \E g \in Guardian : Reboot(g)
  /\ UNCHANGED <<proc, racing, wake, signer, setupvars, stopped, results>>

Crash(c) ==
  /\ losses < MaxLosses
  /\ losses' = losses + 1
  /\ proc[c].pc \notin Ended
  /\ proc' = [proc EXCEPT ![c] = Enter(@, "Crashed")]
  /\ UNCHANGED <<vars, racing, wake, signer, setupvars, stopped, results>>

-----------------------------------------------------------------------------
NetInit ==
  /\ Init
  /\ proc = [c \in Process |-> At(IF c = Setup THEN "Signers" ELSE "Idle")]
  /\ racing = {}
  /\ wake = [q \in Request |-> 0]
  /\ signer = [s \in Signer |-> [seen_requests |-> [i \in RequestId |-> None],
                                 seen_nonces |-> {},
                                 last_approval_at |-> None]]
  /\ provisioned = {}
  /\ routes = [r \in Relay |-> {}]
  /\ published = {}
  /\ card = FALSE
  /\ owner_control = FALSE
  /\ stopped = {}
  /\ losses = 0
  /\ results = [q \in Request |-> {}]

NetNext ==
  \/ setup
  \/ \E q \in Request : StartRecover(q) \/ recover(q) \/ StartCancel(q) \/ cancel(q)
  \/ NetTick
  \/ StopRelay \/ StopStore
  \/ RestartGuardian \/ RebootGuardian
  \/ \E c \in Process : Crash(c)

\* A command that runs goes on, and time passes; nobody has to start a command.
NetSpec ==
  /\ NetInit
  /\ [][NetNext]_netvars
  /\ WF_netvars(setup)
  /\ \A q \in Request : WF_netvars(recover(q)) /\ WF_netvars(cancel(q))
  /\ WF_netvars(NetTick)

-----------------------------------------------------------------------------
(* Properties *)

NetTypeOK ==
  /\ proc \in [Process -> Proc]
  /\ racing \subseteq Request
  /\ wake \in [Request -> Nat]
  /\ signer \in [Signer -> SignerEntry]
  /\ provisioned \subseteq Mailbox
  /\ routes \in [Relay -> SUBSET provisioned]
  /\ published \subseteq Store
  /\ card \in BOOLEAN /\ owner_control \in BOOLEAN
  /\ stopped \subseteq ({"relay"} \X Relay) \cup ({"store"} \X Store)
  /\ losses \in 0..MaxLosses
  /\ results \in [Request -> SUBSET {"recovered", "cancelled"}]

\* The card exists only when the whole configuration does: a setup that was cut
\* short at any call leaves no card whose actors, routes or capsule are missing.
CardIsUsable ==
  card => /\ provisioned = Mailbox
          /\ \A r \in Relay : routes[r] = Mailbox
          /\ published = Store

\* Both reports are backed by the guardians: "recovered" by k contributions that
\* were released, "permanently cancelled" by n-k+1 tombstones.
ReportIsTrue ==
  \A q \in Request :
    /\ "recovered" \in results[q] => Reconstructible(q)
    /\ "cancelled" \in results[q] => Cardinality(Ackers(q)) >= required_cancel_acks

Promise == INSTANCE RecoveryPromise WITH outcome <- results

\* Whatever order the commands of owner and client interleave in, and whatever is
\* lost, a request is never reported both as recovered and as permanently cancelled.
PromiseKept == Promise!Spec

\* The state of RecoveryMachine that the client of q is in; a command that gave up
\* is one whose request is left to expire.
MachineState(q) ==
  LET pc == proc[Client(q)].pc
  IN IF q \in racing \/ pc = "Idle" THEN "Created"
     ELSE IF pc \in {"Capsule", "Approve"} THEN "AwaitingApprovals"
     ELSE IF pc \in {"Begin", "Sleep"} THEN "Authorized"
     ELSE IF pc \in {"Sleeping", "ReleaseVotes"} THEN "DelayPending"
     ELSE IF pc = "Release" THEN "Releasing"
     ELSE IF pc = "Ok" THEN "Completed"
     ELSE "Expired"

ClientMachine(q) ==
  INSTANCE RecoveryMachine WITH
    delay <- minimum_recovery_delay,
    state <- MachineState(q),
    not_before <- IF wake[q] = 0 \/ q \in racing THEN None ELSE wake[q] - 1

\* recover goes through the states of gp-core's RecoveryMachine, which is not the
\* code it runs: the approvals before Begin, and k acceptances of Begin and then the
\* whole delay before anything is released.
ClientFollowsMachine ==
  /\ \A q \in Request : ClientMachine(q)!Init
  /\ [][\A q \in Request : [ClientMachine(q)!apply]_(ClientMachine(q)!vars)]_netvars

GuardianMachineOf(g) ==
  INSTANCE GuardianMachine WITH
    now <- monotonic_now(g, now),
    delay <- minimum_recovery_delay,
    cancelled <- entry[g].cancelled,
    seen_nonces <- entry[g].seen_nonces,
    pending <- [i \in RequestId |->
                  IF entry[g].pending[i] = None THEN None
                  ELSE [request |-> entry[g].pending[i].request,
                        not_before |-> entry[g].pending[i].started_monotonic
                                         + minimum_recovery_delay,
                        state |-> IF entry[g].cancelled[i] # None THEN "Cancelled"
                                  ELSE IF entry[g].released[i] # None THEN "Releasing"
                                  ELSE "DelayPending"]]

\* A process that restarts after a failed write reads its older file again.
Reread(g) == entry[g] # saved[g] /\ entry'[g] = saved[g]

\* The server keeps a guardian's state in its mailbox entry and makes a machine of
\* gp-core anew for every request: the entry goes through the states of one machine,
\* over failed writes, restarts and reboots, but for what a failed write has lost.
GuardianFollowsMachine ==
  /\ \A g \in Guardian : GuardianMachineOf(g)!Init
  /\ [][\A g \in Guardian :
          ~Reread(g) => [GuardianMachineOf(g)!Next]_(GuardianMachineOf(g)!vars)]_netvars

Undisturbed == losses = 0 /\ \A q \in Request : proc[Owner(q)].pc = "Idle"

\* "Static mirroring removes one relay or one config store as a single availability
\* dependency": when one of them goes down at any moment and no message is lost, a
\* client that still fetches the capsule after setup gets to a result, if no other
\* client uses up the signers' rate limits.
SingleOutageIsSurvived ==
  \A q \in Request :
    [](Undisturbed /\ \A r \in Request \ {q} : proc[Client(r)].pc = "Idle")
      => (proc[Setup].pc = "Ok" /\ proc[Client(q)].pc = "Capsule" ~> results[q] # {})

=============================================================================
