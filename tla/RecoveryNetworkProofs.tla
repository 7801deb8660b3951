------------------------ MODULE RecoveryNetworkProofs ------------------------
(***************************************************************************)
(* Theorems about RecoveryNetwork, for any number of signers, guardians,     *)
(* relays, config stores and requests, and any number of faults.             *)
(***************************************************************************)
EXTENDS RecoveryNetwork, GuardianRecoveryProofs, CallsProofs

-----------------------------------------------------------------------------
(* The commands.  A command that is in a stage with calls has somebody left to *)
(* call, and only those it has called have answered.                           *)

SignerStages == {"Signers", "Approve", "RaceVotes", "ReleaseVotes"}
GuardianStages == {"Guardians", "Begin", "RaceCancel", "Release", "Raced", "Cancel"}
StoreStages == {"Publish", "Capsule"}

ProcOK(p) ==
  /\ p \in Proc
  /\ p.pc \in SignerStages => Ongoing(p, Signer)
  /\ p.pc \in GuardianStages => Ongoing(p, Guardian)
  /\ p.pc \in StoreStages => Ongoing(p, Store)

ProcsOK == proc \in [Process -> Proc] /\ \A c \in Process : ProcOK(proc[c])

\* Everybody that commands call is numbered, and every stage has somebody to call.
LEMMA TargetFacts ==
  /\ Signer \in SUBSET Nat /\ Signer # {} /\ IsFiniteSet(Signer)
  /\ Guardian \in SUBSET Nat /\ Guardian # {} /\ IsFiniteSet(Guardian)
  /\ Store \in SUBSET Nat /\ Store # {} /\ IsFiniteSet(Store)
<1>1. Signer \in SUBSET Nat /\ IsFiniteSet(Signer) /\ Signer # {}
  BY NetworkAssumption, FS_EmptySet
<1>2. Guardian \in SUBSET Nat /\ IsFiniteSet(Guardian) /\ Guardian # {}
  BY NetworkAssumption, GuardianAssumption, FS_EmptySet
<1>3. Store \in SUBSET Nat /\ Store # {} /\ IsFiniteSet(Store)
  <2>1. store_count \in Nat /\ 1 \in Store /\ Store \subseteq Nat
    BY NetworkAssumption DEF Store
  <2>2. IsFiniteSet(1..store_count)
    BY <2>1, FS_Interval
  <2> QED
    BY <2>1, <2>2 DEF Store
<1> QED
  BY <1>1, <1>2, <1>3

\* A member of Proc has the fields of a process.
LEMMA ProcFields ==
  ASSUME NEW p \in Proc
  PROVE  /\ IsProcess(p) /\ p.tries \in Nat
         /\ p.called \subseteq Nat /\ p.got \subseteq Nat /\ p.acked \subseteq Nat
  BY DEF Proc, IsProcess

\* A record that differs from a process in the fields of calls is one.
LEMMA SameOwnerProc ==
  ASSUME NEW p \in Proc, NEW r, SameOwner(p, r), r.pc \in Stages \cup Ended,
         r.called \subseteq Nat, r.got \subseteq Nat, r.acked \subseteq Nat, r.tries \in Nat
  PROVE  r \in Proc
<1>1. DOMAIN r = {"pc", "called", "got", "acked", "tries"}
  BY DEF SameOwner, Proc
<1>2. r = [f \in DOMAIN r |-> r[f]]
  BY DEF SameOwner, IsProcess
<1>3. r = [pc |-> r.pc, called |-> r.called, got |-> r.got, acked |-> r.acked,
           tries |-> r.tries]
  BY <1>1, <1>2
<1> QED
  BY <1>3 DEF Proc

\* A command that enters a stage is in order.
LEMMA EnteredOK ==
  ASSUME NEW p \in Proc, NEW pc \in Stages \cup Ended
  PROVE  ProcOK(Enter(p, pc)) /\ Enter(p, pc).pc = pc /\ Enter(p, pc).got = {}
<1> DEFINE r == Enter(p, pc)
<1>1. Updated(p, r, pc, {}, {}, p.got, 0)
  BY ProcFields, EnterFields
<1>2. r \in Proc
  BY <1>1, ProcFields, SameOwnerProc DEF Updated, SameOwner
<1>3. \A T : T # {} => Ongoing(r, T)
  BY <1>1 DEF Updated, Ongoing
<1> QED
  BY <1>1, <1>2, <1>3, TargetFacts DEF ProcOK, Updated

\* A command that starts is in order.
LEMMA StartedOK == ASSUME NEW pc \in Stages \cup Ended PROVE ProcOK(At(pc)) /\ At(pc).pc = pc
<1>1. At(pc) \in Proc /\ \A T : T # {} => Ongoing(At(pc), T)
  BY DEF At, Proc, Ongoing
<1> QED
  BY <1>1, TargetFacts DEF ProcOK, At

\* The stages of the commands that call the members of T.
StageOf(pc, T) ==
  \/ pc \in SignerStages /\ T = Signer
  \/ pc \in GuardianStages /\ T = Guardian
  \/ pc \in StoreStages /\ T = Store

\* A command is in order after a call.
LEMMA OutcomeOK ==
  ASSUME NEW p, ProcOK(p), NEW st, StageOf(p.pc, st.targets),
         st.next \in Stages \cup Ended, st.otherwise = "Failed",
         NEW G \in SUBSET Nat, NEW r, Outcome(p, r, G, st)
  PROVE  ProcOK(r)
<1>1. p \in Proc /\ p.acked \subseteq Nat /\ p.pc \in Stages \cup Ended
  BY ProcFields DEF ProcOK, Proc
<1>2. /\ st.targets \in SUBSET Nat
      /\ r.pc = p.pc => StageOf(r.pc, st.targets)
  BY TargetFacts DEF StageOf
<1>3. r \in Proc
  BY <1>1, <1>2, SameOwnerProc DEF Outcome, Ongoing, Ended
<1>4. CASE r.called = {} /\ r.got = {}
  BY <1>3, <1>4, TargetFacts DEF ProcOK, Ongoing
<1>5. CASE r.pc = p.pc /\ Ongoing(r, st.targets)
  BY <1>2, <1>3, <1>5 DEF ProcOK, StageOf, SignerStages, GuardianStages, StoreStages
<1> QED
  BY <1>4, <1>5 DEF Outcome

\* c's next call, of x in stage st.
CallOf(c, x, st) ==
  /\ StageOf(proc[c].pc, st.targets)
  /\ x \in Turn(proc[c], proc[c].pc, st.targets)
  /\ st.next \in Stages \cup Ended
  /\ st.otherwise = "Failed"

\* A call of c in stage st that ends with G as those who have answered.
CallEnds(c, st, G) ==
  /\ \E r : /\ proc' = [proc EXCEPT ![c] = r]
           /\ ProcOK(r)
           /\ Outcome(proc[c], r, G, st)

\* What the three ways to end a call do to the commands.
LEMMA CallSteps ==
  ASSUME ProcsOK, NEW c \in Process, NEW st, NEW x, CallOf(c, x, st)
  PROVE  /\ x \in st.targets
         /\ Reply(c, x, st) => CallEnds(c, st, proc[c].got \cup {x}) /\ UNCHANGED losses
         /\ Refusal(c, x, st) => CallEnds(c, st, proc[c].got) /\ UNCHANGED losses
         /\ Lost(c, x, st) => /\ CallEnds(c, st, proc[c].got)
                              /\ losses < MaxLosses /\ losses' = losses + 1
         /\ ProcOK(Declined(proc[c], x, st))
         /\ Outcome(proc[c], Declined(proc[c], x, st), proc[c].got, st)
<1> DEFINE p == proc[c]
<1>1. ProcOK(p) /\ p \in Proc /\ IsProcess(p) /\ p.tries \in Nat /\ p.got \subseteq Nat
  BY ProcFields DEF ProcsOK
<1>2. st.targets \in SUBSET Nat /\ Ongoing(p, st.targets)
  BY <1>1, TargetFacts DEF CallOf, StageOf, ProcOK
<1>3. x \in st.targets /\ x \in Nat
  BY <1>2, TurnIsTarget DEF CallOf
<1>4. /\ Outcome(p, Answered(p, x, st), p.got \cup {x}, st)
      /\ Outcome(p, Missed(p, x, st), p.got, st)
      /\ Outcome(p, Declined(p, x, st), p.got, st)
  BY <1>1, <1>2, <1>3, CallOutcome
<1>5. /\ ProcOK(Answered(p, x, st)) /\ ProcOK(Missed(p, x, st)) /\ ProcOK(Declined(p, x, st))
  <2>1. p.got \in SUBSET Nat /\ p.got \cup {x} \in SUBSET Nat
    BY <1>1, <1>3
  <2> QED
    BY <1>1, <1>4, <2>1, OutcomeOK DEF CallOf
<1>6. Reply(c, x, st) => CallEnds(c, st, p.got \cup {x}) /\ UNCHANGED losses
  BY <1>4, <1>5 DEF Reply, CallEnds
<1>7. Refusal(c, x, st) => CallEnds(c, st, p.got) /\ UNCHANGED losses
  BY <1>4, <1>5 DEF Refusal, CallEnds
<1>8. Lost(c, x, st) => /\ CallEnds(c, st, p.got)
                        /\ losses < MaxLosses /\ losses' = losses + 1
  BY <1>4, <1>5 DEF Lost, CallEnds
<1> QED
  BY <1>3, <1>4, <1>5, <1>6, <1>7, <1>8


-----------------------------------------------------------------------------
(* The steps of the commands, by what they do to proc *)

\* The commands are told apart.
LEMMA ProcessFacts ==
  /\ Setup \in Process
  /\ \A q \in Request : Client(q) \in Process /\ Owner(q) \in Process
  /\ \A q, r \in Request : /\ Setup # Client(q) /\ Setup # Owner(q) /\ Client(q) # Owner(r)
                           /\ Client(q) = Client(r) => q = r
                           /\ Owner(q) = Owner(r) => q = r
  BY DEF Process, Setup, Client, Owner

LossStep == losses' = losses \/ (losses < MaxLosses /\ losses' = losses + 1)

\* The actor x and its routes are there.
Provided(kind, x) == <<kind, x>> \in provisioned /\ \A r \in Relay : <<kind, x>> \in routes[r]

\* Setup has gone through a call that provisions x; G have been provisioned.
Provisions(kind, T, next) ==
  \E x \in T, G \in SUBSET Nat :
    /\ CallEnds(Setup, All(T, 1, next), G) /\ LossStep
    /\ \A y \in G : y \in proc[Setup].got \/ (y = x /\ Provided(kind, x)')
    /\ provisioned \subseteq provisioned' /\ provisioned' \subseteq provisioned \cup {<<kind, x>>}
    /\ routes' = [r \in Relay |-> routes'[r]]
    /\ \A r \in Relay : /\ routes[r] \subseteq routes'[r]
                        /\ routes'[r] \subseteq routes[r] \cup {<<kind, x>>}
                        /\ <<kind, x>> \in routes'[r] \ routes[r] => <<kind, x>> \in provisioned'

\* A call of provision_actor and register_route.
LEMMA ProvisionStep ==
  ASSUME ProcsOK, NEW kind, NEW T, NEW x, NEW next \in Stages \cup Ended,
         CallOf(Setup, x, All(T, 1, next)), ProvisionActor(kind, x, All(T, 1, next))
  PROVE  Provisions(kind, T, next)
<1> DEFINE st == All(T, 1, next)
<1>1. st.targets = T /\ relay_count \in Nat
  BY NetworkAssumption DEF All, Stage
<1>2. PICK steps \in 0..(relay_count + 1) :
        /\ provisioned' = IF steps > 0 THEN provisioned \cup {<<kind, x>>} ELSE provisioned
        /\ routes' = relay_register(<<kind, x>>, steps)
        /\ \/ steps = relay_count + 1 /\ Reply(Setup, x, st)
           \/ steps \in Relay /\ <<"relay", steps>> \in stopped /\ Refusal(Setup, x, st)
           \/ Lost(Setup, x, st)
  BY DEF ProvisionActor
<1>3. /\ x \in T /\ x \in Nat /\ proc[Setup].got \subseteq Nat /\ T \subseteq Nat
      /\ Reply(Setup, x, st) => CallEnds(Setup, st, proc[Setup].got \cup {x}) /\ UNCHANGED losses
      /\ Refusal(Setup, x, st) => CallEnds(Setup, st, proc[Setup].got) /\ UNCHANGED losses
      /\ Lost(Setup, x, st) => /\ CallEnds(Setup, st, proc[Setup].got)
                               /\ losses < MaxLosses /\ losses' = losses + 1
  BY <1>1, CallSteps, ProcessFacts, ProcFields, TargetFacts DEF ProcsOK, CallOf, StageOf
<1> HIDE DEF st
<1>4. /\ provisioned \subseteq provisioned' /\ provisioned' \subseteq provisioned \cup {<<kind, x>>}
      /\ routes' = [r \in Relay |-> routes'[r]]
      /\ \A r \in Relay : /\ routes[r] \subseteq routes'[r]
                          /\ routes'[r] \subseteq routes[r] \cup {<<kind, x>>}
                          /\ <<kind, x>> \in routes'[r] \ routes[r] => <<kind, x>> \in provisioned'
  BY <1>1, <1>2 DEF relay_register, Relay
<1>5. steps = relay_count + 1 => Provided(kind, x)'
  BY <1>1, <1>2 DEF relay_register, Relay, Provided
<1>6. PICK G \in SUBSET Nat :
        /\ CallEnds(Setup, st, G) /\ LossStep
        /\ \A y \in G : y \in proc[Setup].got \/ (y = x /\ Provided(kind, x)')
  <2>1. CASE steps = relay_count + 1 /\ Reply(Setup, x, st)
    <3>1. proc[Setup].got \cup {x} \in SUBSET Nat
      BY <1>3
    <3> QED
      BY <1>3, <1>5, <2>1, <3>1 DEF LossStep
  <2>2. CASE Refusal(Setup, x, st) \/ Lost(Setup, x, st)
    BY <1>3, <2>2 DEF LossStep
  <2> QED
    BY <1>2, <2>1, <2>2
<1> QED
  BY <1>3, <1>4, <1>6 DEF Provisions, st

\* The steps of setup.
LEMMA SetupSteps ==
  ASSUME ProcsOK, setup
  PROVE  /\ \/ /\ proc[Setup].pc = "Signers"
               /\ Provisions("signer", Signer, "Guardians")
               /\ UNCHANGED <<published, card, owner_control>>
            \/ /\ proc[Setup].pc = "Guardians"
               /\ Provisions("guardian", Guardian, "Publish")
               /\ UNCHANGED <<published, card, owner_control>>
            \/ /\ proc[Setup].pc = "Publish"
               /\ \E G \in SUBSET Nat :
                    /\ CallEnds(Setup, All(Store, 1, "Card"), G) /\ LossStep
                    /\ \A d \in G : d \in proc[Setup].got \cup (Store \cap published')
               /\ published \subseteq published' /\ published' \subseteq published \cup Store
               /\ UNCHANGED <<provisioned, routes, card, owner_control>>
            \/ /\ proc[Setup].pc = "Card"
               /\ card' = TRUE
               /\ proc' = [proc EXCEPT ![Setup] = Enter(@, "OwnerControl")]
               /\ UNCHANGED <<provisioned, routes, published, owner_control, losses>>
            \/ /\ proc[Setup].pc = "OwnerControl"
               /\ owner_control' = TRUE
               /\ proc' = [proc EXCEPT ![Setup] = Enter(@, "Ok")]
               /\ UNCHANGED <<provisioned, routes, published, card, losses>>
         /\ UNCHANGED <<vars, racing, wake, signer, stopped, results>>
<1> USE DEF Turn, StageOf, SignerStages, GuardianStages, StoreStages, Stages
<1>1. ASSUME NEW s \in Turn(proc[Setup], "Signers", Signer),
             ProvisionActor("signer", s, All(Signer, 1, "Guardians"))
      PROVE  proc[Setup].pc = "Signers" /\ Provisions("signer", Signer, "Guardians")
  <2>1. CallOf(Setup, s, All(Signer, 1, "Guardians")) /\ proc[Setup].pc = "Signers"
    BY <1>1 DEF CallOf, All, Stage
  <2> QED
    BY <1>1, <2>1, ProvisionStep
<1>2. ASSUME NEW g \in Turn(proc[Setup], "Guardians", Guardian),
             ProvisionActor("guardian", g, All(Guardian, 1, "Publish"))
      PROVE  proc[Setup].pc = "Guardians" /\ Provisions("guardian", Guardian, "Publish")
  <2>1. CallOf(Setup, g, All(Guardian, 1, "Publish")) /\ proc[Setup].pc = "Guardians"
    BY <1>2 DEF CallOf, All, Stage
  <2> QED
    BY <1>2, <2>1, ProvisionStep
<1>3. CASE PublishCapsule
  <2> DEFINE st == All(Store, 1, "Card")
  <2>1. PICK d \in Turn(proc[Setup], "Publish", Store) :
          \/ /\ published' = published \cup {d}
             /\ Reply(Setup, d, st) \/ Lost(Setup, d, st)
          \/ Refusal(Setup, d, st) /\ UNCHANGED published
          \/ Lost(Setup, d, st) /\ UNCHANGED published
    BY <1>3 DEF PublishCapsule
  <2>2. CallOf(Setup, d, st) /\ proc[Setup].pc = "Publish" /\ st.targets = Store
    BY DEF CallOf, All, Stage
  <2> HIDE DEF st
  <2>3. /\ d \in Store /\ d \in Nat /\ proc[Setup].got \subseteq Nat
        /\ Reply(Setup, d, st) => CallEnds(Setup, st, proc[Setup].got \cup {d}) /\ UNCHANGED losses
        /\ Refusal(Setup, d, st) => CallEnds(Setup, st, proc[Setup].got) /\ UNCHANGED losses
        /\ Lost(Setup, d, st) => /\ CallEnds(Setup, st, proc[Setup].got)
                                 /\ losses < MaxLosses /\ losses' = losses + 1
    BY <2>2, CallSteps, ProcessFacts, ProcFields, TargetFacts DEF ProcsOK
  <2>4. PICK G \in SUBSET Nat : /\ CallEnds(Setup, st, G) /\ LossStep
                                /\ \A e \in G : e \in proc[Setup].got \cup (Store \cap published')
    <3>1. CASE Reply(Setup, d, st) /\ published' = published \cup {d}
      <4>1. proc[Setup].got \cup {d} \in SUBSET Nat
        BY <2>3
      <4> QED
        BY <2>3, <3>1, <4>1 DEF LossStep
    <3>2. CASE Refusal(Setup, d, st) \/ Lost(Setup, d, st)
      BY <2>3, <3>2 DEF LossStep
    <3> QED
      BY <2>1, <3>1, <3>2
  <2>5. published \subseteq published' /\ published' \subseteq published \cup Store
    BY <2>1, <2>3
  <2> QED
    BY <1>3, <2>2, <2>4, <2>5 DEF PublishCapsule, st
<1>4. CASE WriteCard
  BY <1>4 DEF WriteCard
<1>5. CASE WriteOwnerControl
  BY <1>5 DEF WriteOwnerControl
<1>6. CASE ProvisionSigners
  BY <1>6, <1>1 DEF ProvisionSigners, ProvisionActor
<1>7. CASE ProvisionGuardians
  BY <1>7, <1>2 DEF ProvisionGuardians, ProvisionActor
<1> QED
  BY <1>3, <1>4, <1>5, <1>6, <1>7 DEF setup


\* Command c has gone through a call in stage st; those in G have answered, and who
\* was not among them before is in new.
CallMade(c, pc, st, new) ==
  \E G \in SUBSET Nat :
    /\ proc[c].pc = pc
    /\ CallEnds(c, st, G) /\ LossStep
    /\ \A y \in G : y \in proc[c].got \/ y \in new

\* A call that was answered, and one that was not.
LEMMA CallsMade ==
  ASSUME ProcsOK, NEW c \in Process, NEW st, NEW x, CallOf(c, x, st)
  PROVE  /\ x \in st.targets
         /\ Reply(c, x, st) => CallMade(c, proc[c].pc, st, {x})
         /\ Refusal(c, x, st) \/ Lost(c, x, st) => CallMade(c, proc[c].pc, st, {})
         /\ /\ proc' = [proc EXCEPT ![c] = Declined(proc[c], x, st)]
            /\ UNCHANGED losses
            => CallMade(c, proc[c].pc, st, {})
<1>1. /\ x \in st.targets /\ st.targets \subseteq Nat /\ proc[c].got \subseteq Nat
  BY CallSteps, TargetFacts, ProcFields DEF ProcsOK, CallOf, StageOf
<1>2. proc[c].got \in SUBSET Nat /\ proc[c].got \cup {x} \in SUBSET Nat
  BY <1>1
<1>3. Reply(c, x, st) => CallMade(c, proc[c].pc, st, {x})
  BY <1>2, CallSteps DEF CallMade, LossStep
<1>4. Refusal(c, x, st) \/ Lost(c, x, st) => CallMade(c, proc[c].pc, st, {})
  BY <1>2, CallSteps DEF CallMade, LossStep
<1>5. /\ proc' = [proc EXCEPT ![c] = Declined(proc[c], x, st)]
      /\ UNCHANGED losses
      => CallMade(c, proc[c].pc, st, {})
  BY <1>2, CallSteps DEF CallMade, LossStep, CallEnds
<1> QED
  BY <1>1, <1>3, <1>4, <1>5

\* The steps of recover that call config stores and signers.
LEMMA SignerSteps ==
  ASSUME ProcsOK, NEW q \in Request
  PROVE  /\ FetchCapsule(q) =>
              CallMade(Client(q), "Capsule", Stage(Store, "enough", 1, 1, "Approve"), Store)
         /\ CollectApprovals(q) =>
              /\ CallMade(Client(q), "Approve", Votes("Begin"), Signer)
              /\ \/ UNCHANGED signer
                 \/ \E s \in Signer :
                      signer' = [signer EXCEPT ![s] = observe_request(s, q).entry]
         /\ CollectReleaseVotes(q) =>
              /\ CallMade(Client(q), "ReleaseVotes", Votes("Release"), Signer)
              /\ \/ UNCHANGED signer
                 \/ \E s \in Signer : signer' = [signer EXCEPT ![s] = signer[s]]
         /\ CollectRaceVotes(q) =>
              /\ CallMade(Client(q), "RaceVotes", Votes("RaceCancel"), Signer)
              /\ \/ UNCHANGED signer
                 \/ \E s \in Signer : signer' = [signer EXCEPT ![s] = signer[s]]
<1> DEFINE c == Client(q)
<1>0. c \in Process /\ \A x, S : x \in S => {x} \subseteq S
  BY ProcessFacts
<1> HIDE DEF c
<1>1. ASSUME FetchCapsule(q)
      PROVE  CallMade(c, "Capsule", Stage(Store, "enough", 1, 1, "Approve"), Store)
  <2> DEFINE st == Stage(Store, "enough", 1, 1, "Approve")
  <2>1. PICK d \in Turn(proc[c], "Capsule", Store) :
          Reply(c, d, st) \/ Refusal(c, d, st) \/ Lost(c, d, st)
    BY <1>1 DEF FetchCapsule, c
  <2>2. CallOf(c, d, st) /\ proc[c].pc = "Capsule" /\ st.targets = Store
    BY DEF CallOf, Stage, Turn, StageOf, StoreStages, Stages
  <2> HIDE DEF st
  <2> QED
    BY <1>0, <2>1, <2>2, CallsMade DEF CallMade, st
<1>2. ASSUME NEW pc \in SignerStages, NEW next \in Stages, NEW s \in Turn(proc[c], pc, Signer),
             NEW res, SignerCall(c, s, Votes(next), res)
      PROVE  /\ CallMade(c, pc, Votes(next), Signer)
             /\ UNCHANGED signer \/ (s \in Signer /\ signer' = [signer EXCEPT ![s] = res.entry])
  <2> DEFINE st == Votes(next)
  <2>1. \/ Reply(c, s, st) \/ Refusal(c, s, st) \/ Lost(c, s, st)
    BY <1>2 DEF SignerCall
  <2>2. CallOf(c, s, st) /\ proc[c].pc = pc /\ st.targets = Signer
    BY DEF CallOf, Stage, Votes, Turn, StageOf
  <2>3. UNCHANGED signer \/ signer' = [signer EXCEPT ![s] = res.entry]
    BY <1>2 DEF SignerCall
  <2> HIDE DEF st
  <2> QED
    BY <1>0, <2>1, <2>2, <2>3, CallsMade DEF CallMade, st
<1>3. ASSUME CollectApprovals(q)
      PROVE  /\ CallMade(c, "Approve", Votes("Begin"), Signer)
             /\ \/ UNCHANGED signer
                \/ \E s \in Signer : signer' = [signer EXCEPT ![s] = observe_request(s, q).entry]
  <2>1. PICK s \in Turn(proc[c], "Approve", Signer) :
          SignerCall(c, s, Votes("Begin"), observe_request(s, q))
    BY <1>3 DEF CollectApprovals, c
  <2>2. "Approve" \in SignerStages /\ "Begin" \in Stages
    BY DEF SignerStages, Stages
  <2> QED
    BY <1>2, <2>1, <2>2
<1>4. ASSUME CollectReleaseVotes(q)
      PROVE  /\ CallMade(c, "ReleaseVotes", Votes("Release"), Signer)
             /\ \/ UNCHANGED signer
                \/ \E s \in Signer : signer' = [signer EXCEPT ![s] = signer[s]]
  <2>1. PICK s \in Turn(proc[c], "ReleaseVotes", Signer) :
          SignerCall(c, s, Votes("Release"), ReleaseVote(s, q))
    BY <1>4 DEF CollectReleaseVotes, c
  <2>2. "ReleaseVotes" \in SignerStages /\ "Release" \in Stages
        /\ ReleaseVote(s, q).entry = signer[s]
    BY DEF SignerStages, Stages, ReleaseVote
  <2> QED
    BY <1>2, <2>1, <2>2
<1>5. ASSUME CollectRaceVotes(q)
      PROVE  /\ CallMade(c, "RaceVotes", Votes("RaceCancel"), Signer)
             /\ \/ UNCHANGED signer
                \/ \E s \in Signer : signer' = [signer EXCEPT ![s] = signer[s]]
  <2>1. PICK s \in Turn(proc[c], "RaceVotes", Signer) :
          SignerCall(c, s, Votes("RaceCancel"), ReleaseVote(s, q))
    BY <1>5 DEF CollectRaceVotes, c
  <2>2. "RaceVotes" \in SignerStages /\ "RaceCancel" \in Stages
        /\ ReleaseVote(s, q).entry = signer[s]
    BY DEF SignerStages, Stages, ReleaseVote
  <2> QED
    BY <1>2, <2>1, <2>2
<1> QED
  BY <1>1, <1>3, <1>4, <1>5 DEF c


\* What a guardian has done in a step, if anything.
GuardianDid(q) == \/ UNCHANGED vars
                  \/ \E g \in Guardian : guardian_mailbox(g, q)

BeginStage(q) == Stage(Guardian, "try", guardian_threshold, relay_count,
                       IF q \in racing THEN "RaceVotes" ELSE "Sleep")
CancelStage(next) == Stage(Guardian, "try", required_cancel_acks, relay_count, next)
ReleaseStage == Stage(Guardian, "enough", guardian_threshold, relay_count, "Ok")

Acked(q) == {g \in Guardian : <<g, q>> \in cancel_acks}
Contributed(q) == {g \in Guardian : <<g, q>> \in contributions}

\* Both clients and owners cancel with the same calls.
LEMMA CancelStep ==
  ASSUME ProcsOK, NEW q \in Request, NEW c \in Process, NEW pc \in {"RaceCancel", "Cancel"},
         NEW next \in Stages \cup Ended, NEW g \in Turn(proc[c], pc, Guardian),
         CancelCall(c, next, g, q)
  PROVE  CallMade(c, pc, CancelStage(next), Acked(q)') /\ GuardianDid(q)
<1> DEFINE st == CancelStage(next)
<1>1. CallOf(c, g, st) /\ proc[c].pc = pc /\ st.targets = Guardian
  BY DEF CallOf, Stage, CancelStage, Turn, StageOf, GuardianStages
<1>2. \/ /\ GuardianCancel(g, q)
         /\ (<<g, q>> \in cancel_acks' /\ Reply(c, g, st)) \/ Lost(c, g, st)
      \/ Refusal(c, g, st) /\ UNCHANGED vars
      \/ Lost(c, g, st) /\ UNCHANGED vars
  BY DEF CancelCall, GuardianCall, CancelStage
<1> HIDE DEF st
<1>3. g \in Guardian
  BY <1>1, CallsMade
<1>4. GuardianDid(q)
  BY <1>2, <1>3 DEF GuardianDid, guardian_mailbox
<1>5. CallMade(c, pc, st, Acked(q)')
  BY <1>1, <1>2, <1>3, CallsMade DEF CallMade, Acked
<1> QED
  BY <1>4, <1>5 DEF st

\* The steps of recover that call guardians.
LEMMA GuardianSteps ==
  ASSUME ProcsOK, NEW q \in Request
  PROVE  /\ BeginAtGuardians(q) =>
              CallMade(Client(q), "Begin", BeginStage(q), Guardian) /\ GuardianDid(q)
         /\ ReleaseAtGuardians(q) =>
              CallMade(Client(q), "Release", ReleaseStage, Contributed(q)') /\ GuardianDid(q)
         /\ RaceCancel(q) =>
              \/ CallMade(Client(q), "RaceCancel", CancelStage("Sleep"), Acked(q)')
                 /\ GuardianDid(q)
              \/ /\ proc[Client(q)].pc = "RaceCancel"
                 /\ proc' = [proc EXCEPT ![Client(q)] = Enter(@, "Failed")]
                 /\ UNCHANGED <<vars, losses>>
         /\ RacedRelease(q) =>
              /\ proc[Client(q)].pc = "Raced" /\ GuardianDid(q) /\ LossStep
              /\ \E r : /\ proc' = [proc EXCEPT ![Client(q)] = r]
                       /\ ProcOK(r) /\ r.pc \in {"Raced", "Failed", "Cancelled"}
<1> DEFINE c == Client(q)
<1>0. c \in Process /\ proc[c] \in Proc
  BY ProcessFacts DEF ProcsOK
<1> HIDE DEF c
<1>1. ASSUME BeginAtGuardians(q)
      PROVE  CallMade(c, "Begin", BeginStage(q), Guardian) /\ GuardianDid(q)
  <2> DEFINE st == BeginStage(q)
  <2>1. PICK g \in Turn(proc[c], "Begin", Guardian) :
          \/ GuardianBegin(g, q) /\ (Reply(c, g, st) \/ Lost(c, g, st))
          \/ Refusal(c, g, st) /\ UNCHANGED vars
          \/ Lost(c, g, st) /\ UNCHANGED vars
    BY <1>1 DEF BeginAtGuardians, GuardianCall, BeginStage, c
  <2>2. CallOf(c, g, st) /\ proc[c].pc = "Begin" /\ st.targets = Guardian
    BY DEF CallOf, Stage, BeginStage, Turn, StageOf, GuardianStages, Stages
  <2> HIDE DEF st
  <2>3. g \in Guardian
    BY <1>0, <2>2, CallsMade
  <2>4. GuardianDid(q)
    BY <2>1, <2>3 DEF GuardianDid, guardian_mailbox
  <2>5. CallMade(c, "Begin", st, Guardian)
    <3>1. CallMade(c, "Begin", st, {g}) \/ CallMade(c, "Begin", st, {})
      BY <1>0, <2>1, <2>2, CallsMade
    <3> QED
      BY <2>3, <3>1 DEF CallMade
  <2> QED
    BY <2>4, <2>5 DEF st
<1>2. ASSUME ReleaseAtGuardians(q)
      PROVE  CallMade(c, "Release", ReleaseStage, Contributed(q)') /\ GuardianDid(q)
  <2> DEFINE st == ReleaseStage
  <2>1. PICK g \in Turn(proc[c], "Release", Guardian) :
          \/ /\ GuardianRelease(g, q)
             /\ (Released(g, q) /\ Reply(c, g, st)) \/ Lost(c, g, st)
          \/ RefusedRelease(c, g, q, st, Declined(proc[c], g, st))
          \/ NotReleased(c, g, q, st)
    BY <1>2 DEF ReleaseAtGuardians, ReleaseStage, c
  <2>2. CallOf(c, g, st) /\ proc[c].pc = "Release" /\ st.targets = Guardian
    BY DEF CallOf, Stage, ReleaseStage, Turn, StageOf, GuardianStages, Ended
  <2> HIDE DEF st
  <2>3. g \in Guardian
    BY <1>0, <2>2, CallsMade
  <2>4. GuardianDid(q)
    BY <2>1, <2>3 DEF GuardianDid, guardian_mailbox, RefusedRelease, NotReleased
  <2>5. CallMade(c, "Release", st, Contributed(q)')
    <3>1. CASE GuardianRelease(g, q) /\ Released(g, q) /\ Reply(c, g, st)
      <4>1. g \in Contributed(q)'
        BY <2>3, <3>1 DEF Released, Contributed
      <4> QED
        BY <1>0, <2>2, <3>1, <4>1, CallsMade DEF CallMade
    <3>2. CASE Lost(c, g, st) \/ Refusal(c, g, st)
      BY <1>0, <2>2, <3>2, CallsMade DEF CallMade
    <3>3. CASE RefusedRelease(c, g, q, st, Declined(proc[c], g, st))
      BY <1>0, <2>2, <3>3, CallsMade DEF CallMade, RefusedRelease
    <3> QED
      BY <2>1, <3>1, <3>2, <3>3 DEF NotReleased
  <2> QED
    BY <2>4, <2>5 DEF st
<1>3. ASSUME RaceCancel(q)
      PROVE  \/ CallMade(c, "RaceCancel", CancelStage("Sleep"), Acked(q)') /\ GuardianDid(q)
             \/ /\ proc[c].pc = "RaceCancel"
                /\ proc' = [proc EXCEPT ![c] = Enter(@, "Failed")]
                /\ UNCHANGED <<vars, losses>>
  <2>1. CASE \E g \in Turn(proc[c], "RaceCancel", Guardian) : CancelCall(c, "Sleep", g, q)
    <3>1. "Sleep" \in Stages \cup Ended
      BY DEF Stages
    <3> QED
      BY <1>0, <2>1, <3>1, CancelStep
  <2> QED
    BY <1>3, <2>1 DEF RaceCancel, c
<1>4. ASSUME RacedRelease(q)
      PROVE  /\ proc[c].pc = "Raced" /\ GuardianDid(q) /\ LossStep
             /\ \E r : /\ proc' = [proc EXCEPT ![c] = r]
                      /\ ProcOK(r) /\ r.pc \in {"Raced", "Failed", "Cancelled"}
  <2> DEFINE st == Stage(Guardian, "try", 1, relay_count, "Failed")
  <2>1. PICK g \in Turn(proc[c], "Raced", Guardian) :
          \/ /\ GuardianRelease(g, q)
             /\ \/ /\ proc' = [proc EXCEPT ![c] = Enter(@, "Failed")]
                   /\ UNCHANGED losses
                \/ Lost(c, g, st)
          \/ RefusedRelease(c, g, q, st, Enter(proc[c], "Cancelled"))
          \/ NotReleased(c, g, q, st)
    BY <1>4 DEF RacedRelease, c
  <2>2. CallOf(c, g, st) /\ proc[c].pc = "Raced" /\ st.targets = Guardian
        /\ st.next = "Failed" /\ st.otherwise = "Failed"
    BY DEF CallOf, Stage, Turn, StageOf, GuardianStages, Ended
  <2> HIDE DEF st
  <2>3. g \in Guardian
    BY <1>0, <2>2, CallsMade
  <2>4. GuardianDid(q)
    BY <2>1, <2>3 DEF GuardianDid, guardian_mailbox, RefusedRelease, NotReleased
  <2>5. CASE Lost(c, g, st) \/ Refusal(c, g, st)
    <3>1. CallMade(c, "Raced", st, {})
      BY <1>0, <2>2, <2>5, CallsMade
    <3> QED
      BY <2>2, <2>4, <3>1 DEF CallMade, CallEnds, Outcome
  <2>6. ASSUME NEW pc \in {"Failed", "Cancelled"}, UNCHANGED losses,
               proc' = [proc EXCEPT ![c] = Enter(proc[c], pc)]
        PROVE  /\ LossStep
               /\ \E r : /\ proc' = [proc EXCEPT ![c] = r]
                        /\ ProcOK(r) /\ r.pc \in {"Raced", "Failed", "Cancelled"}
    <3>1. pc \in Stages \cup Ended
      BY DEF Ended
    <3>2. ProcOK(Enter(proc[c], pc)) /\ Enter(proc[c], pc).pc = pc
      BY <1>0, <3>1, EnteredOK
    <3> QED
      BY <2>6, <3>2 DEF LossStep
  <2> QED
    BY <2>1, <2>2, <2>4, <2>5, <2>6 DEF RefusedRelease, NotReleased
<1> QED
  BY <1>1, <1>2, <1>3, <1>4 DEF c


\* A step of setup or of recover changes the record of that command alone.
LEMMA CommandSteps ==
  ASSUME ProcsOK
  PROVE  /\ setup => \E p : proc' = [proc EXCEPT ![Setup] = p] /\ ProcOK(p)
         /\ \A q \in Request :
              recover(q) => \E p : proc' = [proc EXCEPT ![Client(q)] = p] /\ ProcOK(p)
         /\ \A q \in Request :
              cancel(q) => \E p : proc' = [proc EXCEPT ![Owner(q)] = p] /\ ProcOK(p)
<1>0. /\ proc[Setup] \in Proc
      /\ \A q \in Request : proc[Client(q)] \in Proc
  BY ProcessFacts DEF ProcsOK
<1>1. /\ {"OwnerControl", "Ok", "Failed", "Sleeping", "Raced", "ReleaseVotes"}
           \subseteq Stages \cup Ended
  BY DEF Stages, Ended
<1>2. setup => \E p : proc' = [proc EXCEPT ![Setup] = p] /\ ProcOK(p)
  BY <1>0, <1>1, SetupSteps, EnteredOK DEF Provisions, CallEnds
<1>3. ASSUME NEW q \in Request, recover(q)
      PROVE  \E p : proc' = [proc EXCEPT ![Client(q)] = p] /\ ProcOK(p)
  <2> DEFINE P == \E p : proc' = [proc EXCEPT ![Client(q)] = p] /\ ProcOK(p)
  <2>1. CASE FetchCapsule(q) \/ CollectApprovals(q) \/ CollectReleaseVotes(q)
             \/ CollectRaceVotes(q)
    BY <2>1, SignerSteps DEF CallMade, CallEnds
  <2>2. CASE BeginAtGuardians(q) \/ ReleaseAtGuardians(q) \/ RacedRelease(q)
    BY <2>2, GuardianSteps DEF CallMade, CallEnds
  <2>3. CASE RaceCancel(q)
    <3>1. CASE proc' = [proc EXCEPT ![Client(q)] = Enter(@, "Failed")]
      BY <1>0, <1>1, <3>1, EnteredOK
    <3> QED
      BY <2>3, <3>1, GuardianSteps DEF CallMade, CallEnds
  <2>4. CASE Sleep(q)
    BY <1>0, <1>1, <2>4, EnteredOK DEF Sleep
  <2>5. CASE Wake(q)
    BY <1>0, <1>1, <2>5, EnteredOK DEF Wake
  <2> QED
    BY <1>3, <2>1, <2>2, <2>3, <2>4, <2>5 DEF recover
<1>4. ASSUME NEW q \in Request, cancel(q)
      PROVE  \E p : proc' = [proc EXCEPT ![Owner(q)] = p] /\ ProcOK(p)
  <2>1. PICK g \in Turn(proc[Owner(q)], "Cancel", Guardian) : CancelCall(Owner(q), "Ok", g, q)
    BY <1>4 DEF cancel
  <2>2. "Ok" \in Stages \cup Ended /\ Owner(q) \in Process
    BY <1>1, ProcessFacts
  <2> QED
    BY <2>1, <2>2, CancelStep DEF CallMade, CallEnds
<1> QED
  BY <1>2, <1>3, <1>4

\* Every command is in order in every reachable state.
LEMMA ProcsInvariant == NetSpec => []ProcsOK
<1>1. NetInit => ProcsOK
  <2> SUFFICES ASSUME NetInit PROVE ProcsOK
    OBVIOUS
  <2>1. "Signers" \in Stages \cup Ended /\ "Idle" \in Stages \cup Ended
    BY DEF Stages, Ended
  <2>2. \A c \in Process : ProcOK(proc[c])
    BY <2>1, StartedOK DEF NetInit
  <2> QED
    BY <2>2 DEF ProcsOK, ProcOK, NetInit
<1>2. ProcsOK /\ [NetNext]_netvars => ProcsOK'
  <2> SUFFICES ASSUME ProcsOK, [NetNext]_netvars PROVE ProcsOK'
    OBVIOUS
  <2>1. ASSUME NEW c \in Process, NEW p, proc' = [proc EXCEPT ![c] = p], ProcOK(p)
        PROVE  ProcsOK'
    BY <2>1 DEF ProcsOK, ProcOK
  <2>2. CASE UNCHANGED proc
    BY <2>2 DEF ProcsOK, ProcOK
  <2>3. CASE setup
    BY <2>1, <2>3, CommandSteps, ProcessFacts
  <2>4. ASSUME NEW q \in Request, recover(q) \/ cancel(q) PROVE ProcsOK'
    BY <2>1, <2>4, CommandSteps, ProcessFacts
  <2>5. ASSUME NEW q \in Request, StartRecover(q) \/ StartCancel(q) PROVE ProcsOK'
    <3>1. "Capsule" \in Stages \cup Ended /\ "Cancel" \in Stages \cup Ended
      BY DEF Stages
    <3> QED
      BY <2>1, <2>5, <3>1, StartedOK, ProcessFacts DEF StartRecover, StartCancel
  <2>6. ASSUME NEW c \in Process, Crash(c) PROVE ProcsOK'
    <3>1. "Crashed" \in Stages \cup Ended /\ proc[c] \in Proc
      BY DEF Ended, ProcsOK
    <3> QED
      BY <2>1, <2>6, <3>1, EnteredOK DEF Crash
  <2>7. CASE NetTick \/ StopRelay \/ StopStore \/ RestartGuardian \/ RebootGuardian
    BY <2>2, <2>7 DEF NetTick, StopRelay, StopStore, RestartGuardian, RebootGuardian
  <2> QED
    BY <2>2, <2>3, <2>4, <2>5, <2>6, <2>7 DEF NetNext, netvars
<1> QED
  BY <1>1, <1>2, PTL DEF NetSpec

-----------------------------------------------------------------------------
(* The guardians inside the network *)

\* What a step of the network is for the guardians.
LEMMA StepsOfGuardians ==
  ASSUME ProcsOK, [NetNext]_netvars
  PROVE  [Next]_vars
<1>1. Honest = Guardian
  BY RunsAssumption DEF Honest
<1>2. ASSUME NEW q \in Request, GuardianDid(q) PROVE [Next]_vars
  BY <1>1, <1>2 DEF GuardianDid, Next
<1>3. CASE setup
  BY <1>3, SetupSteps
<1>4. ASSUME NEW q \in Request, recover(q) PROVE [Next]_vars
  <2>1. CASE FetchCapsule(q) \/ CollectApprovals(q) \/ CollectReleaseVotes(q)
             \/ CollectRaceVotes(q) \/ Sleep(q) \/ Wake(q)
    BY <2>1 DEF FetchCapsule, CollectApprovals, CollectReleaseVotes, CollectRaceVotes,
                SignerCall, Sleep, Wake
  <2>2. CASE BeginAtGuardians(q) \/ ReleaseAtGuardians(q) \/ RaceCancel(q) \/ RacedRelease(q)
    BY <1>2, <2>2, GuardianSteps
  <2> QED
    BY <1>4, <2>1, <2>2 DEF recover
<1>5. ASSUME NEW q \in Request, cancel(q) PROVE [Next]_vars
  <2>1. "Ok" \in Stages \cup Ended /\ Owner(q) \in Process
    BY ProcessFacts DEF Ended
  <2> QED
    BY <1>2, <1>5, <2>1, CancelStep DEF cancel
<1>6. ASSUME NEW q \in Request, StartRecover(q) \/ StartCancel(q) PROVE [Next]_vars
  BY <1>6 DEF StartRecover, StartCancel
<1>7. ASSUME NEW c \in Process, Crash(c) PROVE [Next]_vars
  BY <1>7 DEF Crash
<1>8. CASE NetTick \/ StopRelay \/ StopStore \/ RestartGuardian \/ RebootGuardian
  BY <1>1, <1>8 DEF NetTick, StopRelay, StopStore, RestartGuardian, RebootGuardian, Next
<1>9. CASE UNCHANGED netvars
  BY <1>9 DEF netvars
<1> QED
  BY <1>3, <1>4, <1>5, <1>6, <1>7, <1>8, <1>9 DEF NetNext

\* The guardians of the network behave as GuardianRecovery says, whose theorems thus
\* hold of them: calls that are retried, lost or raced are among those that
\* guardian_mailbox is proved against.
THEOREM NetworkImplementsGuardians == NetSpec => Spec
<1>1. NetInit => Init
  BY DEF NetInit
<1>2. ProcsOK /\ [NetNext]_netvars => [Next]_vars
  BY StepsOfGuardians
<1> QED
  BY <1>1, <1>2, ProcsInvariant, PTL DEF NetSpec, Spec


-----------------------------------------------------------------------------
(* Type correctness of the network *)

\* The variables that the commands of setup own.
SetupTypes ==
  /\ provisioned \subseteq Mailbox
  /\ routes \in [Relay -> SUBSET provisioned]
  /\ published \subseteq Store
  /\ card \in BOOLEAN /\ owner_control \in BOOLEAN

\* The other ones.
RunTypes ==
  /\ racing \subseteq Request
  /\ wake \in [Request -> Nat]
  /\ signer \in [Signer -> SignerEntry]
  /\ stopped \subseteq ({"relay"} \X Relay) \cup ({"store"} \X Store)
  /\ losses \in 0..MaxLosses
  /\ results \in [Request -> SUBSET {"recovered", "cancelled"}]

\* The entry of a signer that approves a request.
LEMMA ApprovedEntry ==
  ASSUME NEW e \in SignerEntry, NEW i \in RequestId, NEW q \in Request, NEW m \in Nonce,
         NEW at \in Nat,
         NEW n, n = [e EXCEPT !.last_approval_at = at, !.seen_requests[i] = q,
                              !.seen_nonces = @ \cup {m}]
  PROVE  n \in SignerEntry
<1>1. n = [seen_requests |-> [e.seen_requests EXCEPT ![i] = q],
           seen_nonces |-> e.seen_nonces \cup {m}, last_approval_at |-> at]
  BY DEF SignerEntry
<1> QED
  BY <1>1 DEF SignerEntry

\* What a signer's entry becomes is an entry.
LEMMA ObservedEntry ==
  ASSUME TypeOK, RunTypes, NEW s \in Signer, NEW q \in Request
  PROVE  observe_request(s, q).entry \in SignerEntry
<1> DEFINE e == signer[s]
<1>1. e \in SignerEntry /\ request_id[q] \in RequestId /\ nonce[q] \in Nonce /\ now \in Nat
  BY DEF RunTypes, TypeOK, RequestId, Nonce
<1>2. [e EXCEPT !.last_approval_at = now] \in SignerEntry
  BY <1>1 DEF SignerEntry
<1>3. [e EXCEPT !.last_approval_at = now, !.seen_requests[request_id[q]] = q,
                !.seen_nonces = @ \cup {nonce[q]}] \in SignerEntry
  BY <1>1, ApprovedEntry
<1> QED
  BY <1>1, <1>2, <1>3 DEF observe_request

\* Setup keeps the types of its variables; only provisioned actors have routes.
LEMMA SetupKeepsTypes ==
  ASSUME ProcsOK, SetupTypes, setup
  PROVE  SetupTypes'
<1>1. ASSUME NEW kind, NEW T, NEW next, {kind} \X T \subseteq Mailbox, Provisions(kind, T, next)
      PROVE  /\ provisioned' \subseteq Mailbox /\ routes' \in [Relay -> SUBSET provisioned']
  <2>1. PICK x \in T :
          /\ provisioned \subseteq provisioned' /\ provisioned' \subseteq provisioned \cup {<<kind, x>>}
          /\ routes' = [r \in Relay |-> routes'[r]]
          /\ \A r \in Relay :
               /\ routes'[r] \subseteq routes[r] \cup {<<kind, x>>}
               /\ <<kind, x>> \in routes'[r] \ routes[r] => <<kind, x>> \in provisioned'
    BY <1>1 DEF Provisions
  <2>2. <<kind, x>> \in Mailbox
    BY <1>1
  <2>3. ASSUME NEW r \in Relay PROVE routes'[r] \subseteq provisioned'
    <3>1. routes[r] \subseteq provisioned
      BY DEF SetupTypes
    <3> QED
      BY <2>1, <3>1
  <2>4. provisioned' \subseteq Mailbox
    BY <2>1, <2>2 DEF SetupTypes
  <2> QED
    BY <2>1, <2>3, <2>4
<1>2. {"signer"} \X Signer \subseteq Mailbox /\ {"guardian"} \X Guardian \subseteq Mailbox
  BY DEF Mailbox
<1>3. CASE Provisions("signer", Signer, "Guardians") /\ UNCHANGED <<published, card, owner_control>>
  BY <1>1, <1>2, <1>3 DEF SetupTypes
<1>4. CASE Provisions("guardian", Guardian, "Publish") /\ UNCHANGED <<published, card, owner_control>>
  BY <1>1, <1>2, <1>4 DEF SetupTypes
<1>5. CASE /\ published' \subseteq published \cup Store
           /\ UNCHANGED <<provisioned, routes, card, owner_control>>
  BY <1>5 DEF SetupTypes
<1>6. CASE card' = TRUE /\ UNCHANGED <<provisioned, routes, published, owner_control>>
  BY <1>6 DEF SetupTypes
<1>7. CASE owner_control' = TRUE /\ UNCHANGED <<provisioned, routes, published, card>>
  BY <1>7 DEF SetupTypes
<1> QED
  BY <1>3, <1>4, <1>5, <1>6, <1>7, SetupSteps

\* Losses stay within their bound.
LEMMA LossesStayBounded ==
  ASSUME losses \in 0..MaxLosses, LossStep
  PROVE  losses' \in 0..MaxLosses
  BY NetworkAssumption DEF LossStep

\* Every step of a command, as far as losses are concerned.
LEMMA CommandLosses ==
  ASSUME ProcsOK
  PROVE  /\ setup => LossStep
         /\ \A q \in Request : recover(q) \/ cancel(q) => LossStep
<1>1. setup => LossStep
  BY SetupSteps DEF Provisions, LossStep
<1>2. ASSUME NEW q \in Request, recover(q) PROVE LossStep
  <2>1. CASE FetchCapsule(q) \/ CollectApprovals(q) \/ CollectReleaseVotes(q)
             \/ CollectRaceVotes(q)
    BY <2>1, SignerSteps DEF CallMade
  <2>2. CASE BeginAtGuardians(q) \/ ReleaseAtGuardians(q) \/ RacedRelease(q) \/ RaceCancel(q)
    BY <2>2, GuardianSteps DEF CallMade, LossStep
  <2>3. CASE Sleep(q) \/ Wake(q)
    BY <2>3 DEF Sleep, Wake, LossStep
  <2> QED
    BY <1>2, <2>1, <2>2, <2>3 DEF recover
<1>3. ASSUME NEW q \in Request, cancel(q) PROVE LossStep
  <2>1. "Ok" \in Stages \cup Ended /\ Owner(q) \in Process
    BY ProcessFacts DEF Ended
  <2> QED
    BY <1>3, <2>1, CancelStep DEF cancel, CallMade
<1> QED
  BY <1>1, <1>2, <1>3

\* What steps of recover and cancel leave alone, and what becomes of the reports.
LEMMA RecoverFrame ==
  ASSUME NEW q \in Request
  PROVE  /\ recover(q) \/ cancel(q) \/ StartRecover(q) \/ StartCancel(q) =>
               UNCHANGED <<setupvars, stopped>>
         /\ recover(q) \/ cancel(q) \/ StartCancel(q) => UNCHANGED racing
         /\ (recover(q) /\ ~Sleep(q)) \/ cancel(q) \/ StartRecover(q) \/ StartCancel(q) =>
               UNCHANGED wake
         /\ (recover(q) /\ ~CollectApprovals(q) /\ ~CollectReleaseVotes(q) /\ ~CollectRaceVotes(q))
               \/ cancel(q) \/ StartRecover(q) \/ StartCancel(q) =>
               UNCHANGED signer
         /\ (recover(q) /\ ~ReleaseAtGuardians(q) /\ ~RacedRelease(q))
               \/ StartRecover(q) \/ StartCancel(q) =>
               UNCHANGED results
  BY DEF recover, cancel, StartRecover, StartCancel, FetchCapsule, CollectApprovals,
         BeginAtGuardians, Sleep, Wake, CollectReleaseVotes, ReleaseAtGuardians,
         CollectRaceVotes, RaceCancel, RacedRelease, SignerCall

\* Commands keep the types of the variables that they share.
LEMMA RecoverKeepsTypes ==
  ASSUME TypeOK, ProcsOK, RunTypes, NEW q \in Request, recover(q) \/ cancel(q)
  PROVE  RunTypes'
<1>1. losses' \in 0..MaxLosses
  BY CommandLosses, LossesStayBounded DEF RunTypes
<1>2. UNCHANGED <<racing, stopped>>
  BY RecoverFrame
<1>3. wake' \in [Request -> Nat]
  <2>1. CASE Sleep(q)
    <3>1. now + minimum_recovery_delay + 1 \in Nat
      BY GuardianAssumption DEF TypeOK
    <3> QED
      BY <2>1, <3>1 DEF Sleep, RunTypes
  <2> QED
    BY <2>1, RecoverFrame DEF RunTypes
<1>4. signer' \in [Signer -> SignerEntry]
  <2>1. CASE CollectApprovals(q)
    BY <2>1, SignerSteps, ObservedEntry DEF RunTypes
  <2>2. CASE CollectReleaseVotes(q) \/ CollectRaceVotes(q)
    BY <2>2, SignerSteps DEF RunTypes
  <2> QED
    BY <2>1, <2>2, RecoverFrame DEF RunTypes
<1>5. results' \in [Request -> SUBSET {"recovered", "cancelled"}]
  <2>1. ASSUME NEW c, NEW pc, NEW result \in {"recovered", "cancelled"},
               Reported(c, q, pc, result)
        PROVE  results' \in [Request -> SUBSET {"recovered", "cancelled"}]
    BY <2>1 DEF Reported, RunTypes
  <2>2. CASE ReleaseAtGuardians(q)
    BY <2>1, <2>2 DEF ReleaseAtGuardians
  <2>3. CASE RacedRelease(q)
    BY <2>1, <2>3 DEF RacedRelease
  <2>4. CASE cancel(q)
    BY <2>1, <2>4 DEF cancel
  <2> QED
    BY <2>2, <2>3, <2>4, RecoverFrame DEF RunTypes
<1> QED
  BY <1>1, <1>2, <1>3, <1>4, <1>5 DEF RunTypes

\* The types are inductive.
LEMMA TypesInvariant == NetSpec => []((IInv /\ ProcsOK) /\ (SetupTypes /\ RunTypes))
<1>1. NetInit => SetupTypes /\ RunTypes
  <2> SUFFICES ASSUME NetInit PROVE SetupTypes /\ RunTypes
    OBVIOUS
  <2>1. SetupTypes
    BY DEF NetInit, SetupTypes
  <2>2. signer \in [Signer -> SignerEntry]
    BY DEF NetInit, SignerEntry
  <2>3. losses \in 0..MaxLosses
    BY NetworkAssumption DEF NetInit
  <2> QED
    BY <2>1, <2>2, <2>3 DEF NetInit, RunTypes
<1>2. IInv /\ ProcsOK /\ (SetupTypes /\ RunTypes) /\ [NetNext]_netvars
        => (SetupTypes /\ RunTypes)'
  <2> SUFFICES ASSUME IInv, ProcsOK, SetupTypes, RunTypes, [NetNext]_netvars
               PROVE  SetupTypes' /\ RunTypes'
    OBVIOUS
  <2>0. TypeOK
    BY DEF IInv
  <2>1. CASE setup
    <3>1. losses' \in 0..MaxLosses
      BY <2>1, CommandLosses, LossesStayBounded DEF RunTypes
    <3>2. UNCHANGED <<racing, wake, signer, stopped, results>>
      BY <2>1, SetupSteps
    <3> QED
      BY <2>1, <3>1, <3>2, SetupKeepsTypes DEF RunTypes
  <2>2. ASSUME NEW q \in Request, recover(q) \/ cancel(q) PROVE SetupTypes' /\ RunTypes'
    BY <2>0, <2>2, RecoverKeepsTypes, RecoverFrame DEF SetupTypes, setupvars
  <2>3. ASSUME NEW q \in Request, StartRecover(q) \/ StartCancel(q)
        PROVE  SetupTypes' /\ RunTypes'
    BY <2>3 DEF StartRecover, StartCancel, SetupTypes, RunTypes, setupvars
  <2>4. CASE StopRelay \/ StopStore
    BY <2>4 DEF StopRelay, StopStore, SetupTypes, RunTypes, setupvars
  <2>5. CASE RebootGuardian \/ \E c \in Process : Crash(c)
    <3>1. losses' \in 0..MaxLosses
      BY <2>5, LossesStayBounded DEF RebootGuardian, Crash, RunTypes, LossStep
    <3> QED
      BY <2>5, <3>1 DEF RebootGuardian, Crash, SetupTypes, RunTypes, setupvars
  <2>6. CASE NetTick \/ RestartGuardian \/ UNCHANGED netvars
    BY <2>6 DEF NetTick, RestartGuardian, netvars, SetupTypes, RunTypes, setupvars
  <2> QED
    BY <2>1, <2>2, <2>3, <2>4, <2>5, <2>6 DEF NetNext
<1>3. NetSpec => []IInv
  BY NetworkImplementsGuardians, GuardianInvariant, PTL
<1> QED
  BY <1>1, <1>2, <1>3, ProcsInvariant, PTL DEF NetSpec

\* Every variable of the network has its type in every reachable state.
THEOREM NetTypeCorrect == NetSpec => []NetTypeOK
<1>1. ProcsOK /\ SetupTypes /\ RunTypes => NetTypeOK
  BY DEF ProcsOK, SetupTypes, RunTypes, NetTypeOK
<1> QED
  BY <1>1, TypesInvariant, PTL

-----------------------------------------------------------------------------
(* The card *)

AllProvided(kind, T) == \A x \in T : Provided(kind, x)

\* What setup has got done, by the stage it is in.
SetupOK ==
  LET p == proc[Setup]
  IN /\ p.pc \in {"Signers", "Guardians", "Publish", "Card", "OwnerControl"} \cup Ended
     /\ p.pc = "Signers" => \A s \in p.got : Provided("signer", s)
     /\ p.pc \in {"Guardians", "Publish", "Card"} => AllProvided("signer", Signer)
     /\ p.pc = "Guardians" => \A g \in p.got : Provided("guardian", g)
     /\ p.pc \in {"Publish", "Card"} => AllProvided("guardian", Guardian)
     /\ p.pc = "Publish" => p.got \subseteq published
     /\ p.pc = "Card" => Store \subseteq published
     /\ card => /\ AllProvided("signer", Signer) /\ AllProvided("guardian", Guardian)
                /\ Store \subseteq published

\* What has been provided stays so.
LEMMA ProvidedStays ==
  ASSUME provisioned \subseteq provisioned', \A r \in Relay : routes[r] \subseteq routes'[r],
         NEW kind
  PROVE  /\ \A x : Provided(kind, x) => Provided(kind, x)'
         /\ \A T : AllProvided(kind, T) => AllProvided(kind, T)'
  BY DEF Provided, AllProvided

\* When a stage that needs everybody is over, everybody has answered.
LEMMA AllStage ==
  ASSUME ProcsOK, NEW T, T \in {Signer, Guardian, Store}, NEW next \in Stages \cup Ended,
         NEW G \in SUBSET Nat, CallEnds(Setup, All(T, 1, next), G), next # proc[Setup].pc,
         \A y \in G : y \in T
  PROVE  \/ proc'[Setup].pc = proc[Setup].pc /\ proc'[Setup].got = G
         \/ proc'[Setup].pc = next /\ proc'[Setup].got = {} /\ G = T
         \/ proc'[Setup].pc = "Failed"
<1>1. PICK r : /\ proc' = [proc EXCEPT ![Setup] = r]
              /\ Outcome(proc[Setup], r, G, All(T, 1, next))
  BY DEF CallEnds
<1>2. proc'[Setup] = r
  BY <1>1, ProcessFacts DEF ProcsOK
<1>3. /\ All(T, 1, next).next = next /\ All(T, 1, next).otherwise = "Failed"
      /\ All(T, 1, next).need = Cardinality(T)
  BY DEF All, Stage
<1>4. ASSUME Cardinality(G) >= Cardinality(T) PROVE G = T
  <2>1. IsFiniteSet(T) /\ G \in SUBSET T
    BY TargetFacts
  <2> QED
    BY <1>4, <2>1, EnoughIsAll
<1> QED
  BY <1>1, <1>2, <1>3, <1>4 DEF Outcome

\* Those who have answered setup are among those whom the stage calls.
LEMMA SetupTargets ==
  ASSUME ProcsOK
  PROVE  /\ proc[Setup].pc = "Signers" => proc[Setup].got \subseteq Signer
         /\ proc[Setup].pc = "Guardians" => proc[Setup].got \subseteq Guardian
         /\ proc[Setup].pc = "Publish" => proc[Setup].got \subseteq Store
  BY ProcessFacts DEF ProcsOK, ProcOK, Ongoing, SignerStages, GuardianStages, StoreStages

\* A call of setup that provisions, and what has been provided after it.
LEMMA ProvisionsKeep ==
  ASSUME ProcsOK, NEW kind, NEW T \in {Signer, Guardian}, NEW next \in Stages \cup Ended,
         Provisions(kind, T, next), next # proc[Setup].pc,
         proc[Setup].got \subseteq T, \A y \in proc[Setup].got : Provided(kind, y)
  PROVE  /\ \A k, x : Provided(k, x) => Provided(k, x)'
         /\ \/ /\ proc'[Setup].pc = proc[Setup].pc
               /\ \A y \in proc'[Setup].got : Provided(kind, y)'
            \/ /\ proc'[Setup].pc = next /\ proc'[Setup].got = {}
               /\ AllProvided(kind, T)'
            \/ proc'[Setup].pc = "Failed"
<1>1. PICK x \in T, G \in SUBSET Nat :
        /\ CallEnds(Setup, All(T, 1, next), G)
        /\ \A y \in G : y \in proc[Setup].got \/ (y = x /\ Provided(kind, x)')
        /\ provisioned \subseteq provisioned'
        /\ \A r \in Relay : routes[r] \subseteq routes'[r]
  BY DEF Provisions
<1>2. \A k, y : Provided(k, y) => Provided(k, y)'
  BY <1>1, ProvidedStays
<1>3. \A y \in G : y \in T /\ Provided(kind, y)'
  BY <1>1, <1>2
<1>4. \/ proc'[Setup].pc = proc[Setup].pc /\ proc'[Setup].got = G
      \/ proc'[Setup].pc = next /\ proc'[Setup].got = {} /\ G = T
      \/ proc'[Setup].pc = "Failed"
  <2>1. T \in {Signer, Guardian, Store}
    OBVIOUS
  <2> QED
    BY <1>1, <1>3, <2>1, AllStage
<1> QED
  BY <1>2, <1>3, <1>4 DEF AllProvided

\* Setup keeps its account.
LEMMA SetupKeepsAccount ==
  ASSUME ProcsOK, SetupOK, setup
  PROVE  SetupOK'
<1> DEFINE p == proc[Setup]
<1>0. p \in Proc /\ {"Guardians", "Publish", "Card", "OwnerControl", "Ok"} \subseteq Stages \cup Ended
  BY ProcessFacts DEF ProcsOK, Stages, Ended
<1>1. CASE /\ p.pc = "Signers" /\ Provisions("signer", Signer, "Guardians")
           /\ UNCHANGED <<published, card, owner_control>>
  <2>1. p.got \subseteq Signer /\ \A y \in p.got : Provided("signer", y)
    BY <1>1, SetupTargets DEF SetupOK
  <2>2. /\ \A k, x : Provided(k, x) => Provided(k, x)'
        /\ \/ /\ proc'[Setup].pc = "Signers"
              /\ \A y \in proc'[Setup].got : Provided("signer", y)'
           \/ /\ proc'[Setup].pc = "Guardians" /\ proc'[Setup].got = {}
              /\ AllProvided("signer", Signer)'
           \/ proc'[Setup].pc = "Failed"
    BY <1>0, <1>1, <2>1, ProvisionsKeep
  <2> QED
    BY <1>1, <2>2 DEF SetupOK, AllProvided, Ended
<1>2. CASE /\ p.pc = "Guardians" /\ Provisions("guardian", Guardian, "Publish")
           /\ UNCHANGED <<published, card, owner_control>>
  <2>1. p.got \subseteq Guardian /\ \A y \in p.got : Provided("guardian", y)
    BY <1>2, SetupTargets DEF SetupOK
  <2>2. /\ \A k, x : Provided(k, x) => Provided(k, x)'
        /\ \/ /\ proc'[Setup].pc = "Guardians"
              /\ \A y \in proc'[Setup].got : Provided("guardian", y)'
           \/ /\ proc'[Setup].pc = "Publish" /\ proc'[Setup].got = {}
              /\ AllProvided("guardian", Guardian)'
           \/ proc'[Setup].pc = "Failed"
    BY <1>0, <1>2, <2>1, ProvisionsKeep
  <2> QED
    BY <1>2, <2>2 DEF SetupOK, AllProvided, Ended
<1>3. CASE /\ p.pc = "Publish"
           /\ \E G \in SUBSET Nat : /\ CallEnds(Setup, All(Store, 1, "Card"), G)
                                    /\ \A d \in G : d \in p.got \cup (Store \cap published')
           /\ published \subseteq published' /\ published' \subseteq published \cup Store
           /\ UNCHANGED <<provisioned, routes, card, owner_control>>
  <2>1. PICK G \in SUBSET Nat : /\ CallEnds(Setup, All(Store, 1, "Card"), G)
                                /\ \A d \in G : d \in p.got \cup (Store \cap published')
    BY <1>3
  <2>2. p.got \subseteq Store /\ p.got \subseteq published
    BY <1>3, SetupTargets DEF SetupOK
  <2>3. \A d \in G : d \in Store /\ d \in published'
    BY <1>3, <2>1, <2>2
  <2>4. \/ proc'[Setup].pc = "Publish" /\ proc'[Setup].got = G
        \/ proc'[Setup].pc = "Card" /\ proc'[Setup].got = {} /\ G = Store
        \/ proc'[Setup].pc = "Failed"
    BY <1>0, <1>3, <2>1, <2>2, <2>3, AllStage
  <2>5. \A k, x : Provided(k, x) => Provided(k, x)'
    BY <1>3 DEF Provided
  <2> QED
    BY <1>3, <2>3, <2>4, <2>5 DEF SetupOK, AllProvided, Ended
<1>4. CASE /\ p.pc = "Card" /\ card' = TRUE
           /\ proc' = [proc EXCEPT ![Setup] = Enter(@, "OwnerControl")]
           /\ UNCHANGED <<provisioned, routes, published, owner_control, losses>>
  <2>1. proc'[Setup].pc = "OwnerControl"
    BY <1>0, <1>4, EnteredOK, ProcessFacts DEF ProcsOK
  <2> QED
    BY <1>4, <2>1 DEF SetupOK, AllProvided, Provided
<1>5. CASE /\ p.pc = "OwnerControl" /\ UNCHANGED <<provisioned, routes, published, card>>
           /\ proc' = [proc EXCEPT ![Setup] = Enter(@, "Ok")]
  <2>1. proc'[Setup].pc = "Ok"
    BY <1>0, <1>5, EnteredOK, ProcessFacts DEF ProcsOK
  <2> QED
    BY <1>5, <2>1 DEF SetupOK, AllProvided, Provided, Ended
<1> QED
  BY <1>1, <1>2, <1>3, <1>4, <1>5, SetupSteps

\* The account of setup is inductive.
LEMMA SetupInvariant == NetSpec => []SetupOK
<1>1. NetInit => SetupOK
  <2>1. At("Signers").pc = "Signers" /\ At("Signers").got = {}
    BY DEF At
  <2>2. NetInit => proc[Setup] = At("Signers")
    BY ProcessFacts DEF NetInit
  <2> QED
    BY <2>1, <2>2 DEF NetInit, SetupOK
<1>2. ProcsOK /\ SetupOK /\ [NetNext]_netvars => SetupOK'
  <2> SUFFICES ASSUME ProcsOK, SetupOK, [NetNext]_netvars PROVE SetupOK'
    OBVIOUS
  <2>1. ASSUME UNCHANGED setupvars, proc'[Setup] = proc[Setup] PROVE SetupOK'
    BY <2>1 DEF setupvars, SetupOK, AllProvided, Provided
  <2>2. ASSUME NEW q \in Request, recover(q) \/ cancel(q) PROVE SetupOK'
    <3>1. proc'[Setup] = proc[Setup]
      BY <2>2, CommandSteps, ProcessFacts DEF ProcsOK
    <3> QED
      BY <2>1, <2>2, <3>1, RecoverFrame
  <2>3. ASSUME NEW q \in Request, StartRecover(q) \/ StartCancel(q) PROVE SetupOK'
    BY <2>1, <2>3, ProcessFacts DEF StartRecover, StartCancel, ProcsOK
  <2>4. ASSUME NEW c \in Process, Crash(c) PROVE SetupOK'
    <3>1. "Crashed" \in Stages \cup Ended /\ proc[c] \in Proc /\ "Crashed" \in Ended
      BY DEF Ended, ProcsOK
    <3>2. CASE c = Setup
      <4>1. proc'[Setup].pc = "Crashed"
        BY <2>4, <3>1, <3>2, EnteredOK, ProcessFacts DEF ProcsOK, Crash
      <4> QED
        BY <2>4, <3>1, <4>1 DEF Crash, setupvars, SetupOK, AllProvided, Provided
    <3>3. CASE c # Setup
      BY <2>1, <2>4, <3>3, ProcessFacts DEF Crash, ProcsOK
    <3> QED
      BY <3>2, <3>3
  <2>5. CASE NetTick \/ StopRelay \/ StopStore \/ RestartGuardian \/ RebootGuardian
             \/ UNCHANGED netvars
    BY <2>1, <2>5 DEF NetTick, StopRelay, StopStore, RestartGuardian, RebootGuardian, netvars
  <2> QED
    BY <2>2, <2>3, <2>4, <2>5, SetupKeepsAccount DEF NetNext
<1> QED
  BY <1>1, <1>2, ProcsInvariant, PTL DEF NetSpec

\* The card exists only when the whole configuration does, wherever setup was cut
\* short, and whatever was lost or down: every actor has been provisioned and is
\* routed at every relay, and every config store has the capsule.
THEOREM CardTheorem == NetSpec => []CardIsUsable
<1>1. SetupOK /\ SetupTypes => CardIsUsable
  <2> SUFFICES ASSUME SetupOK, SetupTypes, card PROVE CardIsUsable
    BY DEF CardIsUsable
  <2>1. Mailbox \subseteq provisioned /\ \A r \in Relay : Mailbox \subseteq routes[r]
    BY DEF SetupOK, AllProvided, Provided, Mailbox
  <2>2. Store \subseteq published
    BY DEF SetupOK
  <2>3. provisioned = Mailbox /\ published = Store
    BY <2>1, <2>2 DEF SetupTypes
  <2>4. ASSUME NEW r \in Relay PROVE routes[r] = Mailbox
    <3>1. routes[r] \subseteq Mailbox
      BY <2>3 DEF SetupTypes
    <3> QED
      BY <2>1, <3>1
  <2> QED
    BY <2>3, <2>4 DEF CardIsUsable
<1> QED
  BY <1>1, SetupInvariant, TypesInvariant, PTL

-----------------------------------------------------------------------------
(* The reports *)

EnoughAcks(q) == Cardinality(Ackers(q)) >= required_cancel_acks

\* What the client of q has been told is so.
ClientOK(q) ==
  LET p == proc[Client(q)]
  IN /\ p.pc = "Release" => p.got \subseteq Contributed(q)
     /\ p.pc = "RaceCancel" => p.got \subseteq Acked(q)
     /\ p.pc = "Raced" \/ (q \in racing /\ p.pc \in {"Sleep", "Sleeping"}) => EnoughAcks(q)

\* So is what the owner has been told.
OwnerOK(q) == proc[Owner(q)].pc = "Cancel" => proc[Owner(q)].got \subseteq Acked(q)

ReportOK(q) ==
  /\ "recovered" \in results[q] => Reconstructible(q)
  /\ "cancelled" \in results[q] => EnoughAcks(q)

ReportsOK == \A q \in Request : ClientOK(q) /\ OwnerOK(q) /\ ReportOK(q)

RepliesGrow == cancel_acks \subseteq cancel_acks' /\ contributions \subseteq contributions'

\* No reply of a guardian is taken back.
LEMMA RepliesAreKept == [Next]_vars => RepliesGrow
  BY DEF Next, vars, Tick, Restart, Reboot, guardian_mailbox, GuardianBegin, GuardianCancel,
         ReleaseRefused, GuardianRelease, RepliesGrow

\* The guardians that replied, as the commands and as the guardians' model count them.
LEMMA CountedReplies ==
  ASSUME NEW q \in Request
  PROVE  /\ Ackers(q) = Acked(q) /\ Ackers(q)' = Acked(q)'
         /\ Contributors(q) = Contributed(q) /\ Contributors(q)' = Contributed(q)'
         /\ IsFiniteSet(Acked(q)) /\ IsFiniteSet(Contributed(q))
         /\ IsFiniteSet(Acked(q)') /\ IsFiniteSet(Contributed(q)')
<1>1. Honest = Guardian /\ Malicious = {}
  BY RunsAssumption DEF Honest
<1>2. Acked(q) \subseteq Guardian /\ Contributed(q) \subseteq Guardian
      /\ Acked(q)' \subseteq Guardian /\ Contributed(q)' \subseteq Guardian
  BY DEF Acked, Contributed
<1> QED
  BY <1>1, <1>2, TargetFacts, FS_Subset DEF Ackers, Contributors, Acked, Contributed

\* A larger set has as many members at least.
LEMMA EnoughOfMore ==
  ASSUME NEW B, IsFiniteSet(B), NEW A \in SUBSET B, NEW n \in Int, Cardinality(A) >= n
  PROVE  Cardinality(B) >= n
<1>1. Cardinality(A) <= Cardinality(B) /\ Cardinality(A) \in Nat /\ Cardinality(B) \in Nat
  BY FS_Subset, FS_CardinalityType
<1> QED
  BY <1>1

\* The two quorums are numbers.
LEMMA Quorums == guardian_threshold \in Int /\ required_cancel_acks \in Int
  BY GuardianAssumption, FS_CardinalityType DEF required_cancel_acks

\* Enough replies stay enough.
LEMMA EnoughStays ==
  ASSUME RepliesGrow, NEW q \in Request
  PROVE  /\ Acked(q) \subseteq Acked(q)' /\ Contributed(q) \subseteq Contributed(q)'
         /\ EnoughAcks(q) => EnoughAcks(q)'
         /\ Reconstructible(q) => Reconstructible(q)'
         /\ \A G \in SUBSET Acked(q)' : Cardinality(G) >= required_cancel_acks => EnoughAcks(q)'
         /\ \A G \in SUBSET Contributed(q)' :
              Cardinality(G) >= guardian_threshold => Reconstructible(q)'
<1>1. Acked(q) \subseteq Acked(q)' /\ Contributed(q) \subseteq Contributed(q)'
  BY DEF RepliesGrow, Acked, Contributed
<1>2. \A G \in SUBSET Acked(q)' : Cardinality(G) >= required_cancel_acks => EnoughAcks(q)'
  <2>1. EnoughAcks(q)' <=> Cardinality(Acked(q)') >= required_cancel_acks
    BY CountedReplies DEF EnoughAcks, required_cancel_acks
  <2> QED
    BY <2>1, CountedReplies, EnoughOfMore, Quorums
<1>3. \A G \in SUBSET Contributed(q)' :
        Cardinality(G) >= guardian_threshold => Reconstructible(q)'
  <2>1. Reconstructible(q)' <=> Cardinality(Contributed(q)') >= guardian_threshold
    BY CountedReplies DEF Reconstructible
  <2> QED
    BY <2>1, CountedReplies, EnoughOfMore, Quorums
<1>4. EnoughAcks(q) => EnoughAcks(q)'
  BY <1>1, <1>2, CountedReplies DEF EnoughAcks
<1>5. Reconstructible(q) => Reconstructible(q)'
  BY <1>1, <1>3, CountedReplies DEF Reconstructible
<1> QED
  BY <1>1, <1>2, <1>3, <1>4, <1>5

\* Where a command is after a call.
LEMMA AfterCall ==
  ASSUME ProcsOK, NEW c \in Process, NEW pc, NEW st, NEW new, CallMade(c, pc, st, new)
  PROVE  /\ proc[c].pc = pc
         /\ \/ proc'[c].pc = pc /\ proc'[c].got \subseteq proc[c].got \cup new
            \/ /\ proc'[c].pc = st.next /\ proc'[c].got = {}
               /\ \E G \in SUBSET (proc[c].got \cup new) : Cardinality(G) >= st.need
            \/ proc'[c].pc = st.otherwise /\ proc'[c].got = {}
<1>1. PICK G \in SUBSET Nat : /\ proc[c].pc = pc /\ CallEnds(c, st, G)
                              /\ \A y \in G : y \in proc[c].got \/ y \in new
  BY DEF CallMade
<1>2. PICK r : proc' = [proc EXCEPT ![c] = r] /\ Outcome(proc[c], r, G, st)
  BY <1>1 DEF CallEnds
<1>3. proc'[c] = r /\ G \in SUBSET (proc[c].got \cup new)
  BY <1>1, <1>2 DEF ProcsOK
<1> QED
  BY <1>1, <1>2, <1>3 DEF Outcome

\* A step of recover and what its client has been told.
LEMMA ClientStep ==
  ASSUME ProcsOK, RepliesGrow, NEW q \in Request, ClientOK(q), recover(q)
  PROVE  ClientOK(q)'
<1> DEFINE c == Client(q)
           p == proc[c]
           n == proc'[c]
<1>0. c \in Process /\ p \in Proc /\ UNCHANGED racing
      /\ {"Sleeping", "Raced", "ReleaseVotes", "Failed"} \subseteq Stages \cup Ended
  BY ProcessFacts, RecoverFrame DEF ProcsOK, Stages, Ended
<1>1. /\ Acked(q) \subseteq Acked(q)' /\ Contributed(q) \subseteq Contributed(q)'
      /\ EnoughAcks(q) => EnoughAcks(q)'
      /\ \A G \in SUBSET Acked(q)' : Cardinality(G) >= required_cancel_acks => EnoughAcks(q)'
  BY EnoughStays
<1>2. SUFFICES /\ n.pc = "Release" => n.got \subseteq Contributed(q)'
               /\ n.pc = "RaceCancel" => n.got \subseteq Acked(q)'
               /\ n.pc = "Raced" \/ (q \in racing /\ n.pc \in {"Sleep", "Sleeping"})
                    => EnoughAcks(q)'
  BY <1>0 DEF ClientOK
<1>3. CASE FetchCapsule(q)
  BY <1>0, <1>3, SignerSteps, AfterCall DEF Stage
<1>4. CASE CollectApprovals(q)
  BY <1>0, <1>4, SignerSteps, AfterCall DEF Stage, Votes
<1>5. CASE CollectReleaseVotes(q)
  BY <1>0, <1>5, SignerSteps, AfterCall DEF Stage, Votes
<1>6. CASE CollectRaceVotes(q)
  BY <1>0, <1>6, SignerSteps, AfterCall DEF Stage, Votes
<1>7. CASE BeginAtGuardians(q)
  <2>1. CallMade(c, "Begin", BeginStage(q), Guardian)
    BY <1>7, GuardianSteps
  <2>2. n.pc \in {"Begin", BeginStage(q).next, "Failed"}
    BY <1>0, <2>1, AfterCall DEF Stage, BeginStage
  <2>3. n.pc \in {"Begin", IF q \in racing THEN "RaceVotes" ELSE "Sleep", "Failed"}
    BY <2>2 DEF Stage, BeginStage
  <2> QED
    BY <2>3
<1>8. CASE Sleep(q)
  <2>1. n.pc = "Sleeping" /\ p.pc = "Sleep"
    BY <1>0, <1>8, EnteredOK DEF Sleep, ProcsOK
  <2> QED
    BY <1>1, <2>1 DEF ClientOK
<1>9. CASE Wake(q)
  <2>1. n.pc = (IF q \in racing THEN "Raced" ELSE "ReleaseVotes") /\ p.pc = "Sleeping"
    BY <1>0, <1>9, EnteredOK DEF Wake, ProcsOK
  <2> QED
    BY <1>1, <2>1 DEF ClientOK
<1>10. CASE ReleaseAtGuardians(q)
  <2>1. CallMade(c, "Release", ReleaseStage, Contributed(q)')
    BY <1>10, GuardianSteps
  <2> QED
    BY <1>0, <1>1, <2>1, AfterCall DEF Stage, ReleaseStage, ClientOK
<1>11. CASE RaceCancel(q)
  <2>1. CASE CallMade(c, "RaceCancel", CancelStage("Sleep"), Acked(q)')
    <3>1. p.pc = "RaceCancel" /\ p.got \subseteq Acked(q)'
      BY <1>0, <1>1, <2>1, AfterCall DEF ClientOK
    <3>2. \/ n.pc = "RaceCancel" /\ n.got \subseteq p.got \cup Acked(q)'
          \/ /\ n.pc = "Sleep"
             /\ \E G \in SUBSET (p.got \cup Acked(q)') : Cardinality(G) >= required_cancel_acks
          \/ n.pc = "Failed"
      BY <1>0, <2>1, AfterCall DEF Stage, CancelStage
    <3>3. p.got \cup Acked(q)' = Acked(q)'
      BY <3>1
    <3> QED
      BY <1>1, <3>2, <3>3
  <2>2. CASE proc' = [proc EXCEPT ![c] = Enter(@, "Failed")]
    BY <1>0, <2>2, EnteredOK DEF ProcsOK
  <2> QED
    BY <1>11, <2>1, <2>2, GuardianSteps
<1>12. CASE RacedRelease(q)
  <2>1. p.pc = "Raced" /\ n.pc \in {"Raced", "Failed", "Cancelled"}
    BY <1>0, <1>12, GuardianSteps DEF ProcsOK
  <2> QED
    BY <1>1, <2>1 DEF ClientOK
<1> QED
  BY <1>3, <1>4, <1>5, <1>6, <1>7, <1>8, <1>9, <1>10, <1>11, <1>12 DEF recover

\* A report of recover or of cancel.
LEMMA ReportStep ==
  ASSUME ProcsOK, RunTypes, RepliesGrow, NEW q \in Request, ClientOK(q), OwnerOK(q), ReportOK(q),
         recover(q) \/ cancel(q)
  PROVE  ReportOK(q)'
<1>0. Client(q) \in Process /\ Owner(q) \in Process /\ results \in [Request -> SUBSET {"recovered", "cancelled"}]
  BY ProcessFacts DEF RunTypes
<1>1. /\ Acked(q) \subseteq Acked(q)' /\ Contributed(q) \subseteq Contributed(q)'
      /\ EnoughAcks(q) => EnoughAcks(q)'
      /\ Reconstructible(q) => Reconstructible(q)'
      /\ \A G \in SUBSET Acked(q)' : Cardinality(G) >= required_cancel_acks => EnoughAcks(q)'
      /\ \A G \in SUBSET Contributed(q)' :
           Cardinality(G) >= guardian_threshold => Reconstructible(q)'
  BY EnoughStays
<1>2. ASSUME UNCHANGED results PROVE ReportOK(q)'
  BY <1>1, <1>2 DEF ReportOK
<1>3. ASSUME NEW c, NEW pc, NEW result, Reported(c, q, pc, result),
             proc'[c].pc = pc => IF result = "recovered" THEN Reconstructible(q)' ELSE EnoughAcks(q)'
      PROVE  ReportOK(q)'
  <2>1. CASE results' = [results EXCEPT ![q] = @ \cup {result}] /\ proc'[c].pc = pc
    BY <1>0, <1>1, <1>3, <2>1 DEF ReportOK
  <2> QED
    BY <1>2, <1>3, <2>1 DEF Reported
<1>4. CASE ReleaseAtGuardians(q)
  <2> DEFINE c == Client(q)
  <2>1. CallMade(c, "Release", ReleaseStage, Contributed(q)')
        /\ Reported(c, q, "Ok", "recovered")
    BY <1>4, GuardianSteps DEF ReleaseAtGuardians
  <2>2. proc[c].got \cup Contributed(q)' = Contributed(q)'
    <3>1. proc[c].pc = "Release" /\ proc[c].got \subseteq Contributed(q)
      BY <1>0, <2>1, AfterCall DEF ClientOK
    <3> QED
      BY <1>1, <3>1
  <2>3. proc'[c].pc = "Ok" =>
          \E G \in SUBSET (proc[c].got \cup Contributed(q)') : Cardinality(G) >= guardian_threshold
    BY <1>0, <2>1, AfterCall DEF Stage, ReleaseStage
  <2> QED
    BY <1>1, <1>3, <2>1, <2>2, <2>3
<1>5. CASE RacedRelease(q)
  <2>1. EnoughAcks(q)'
    BY <1>1, <1>5, GuardianSteps DEF ClientOK
  <2> QED
    BY <1>3, <1>5, <2>1 DEF RacedRelease
<1>6. CASE cancel(q)
  <2> DEFINE c == Owner(q)
  <2>1. PICK g \in Turn(proc[c], "Cancel", Guardian) : CancelCall(c, "Ok", g, q)
    BY <1>6 DEF cancel
  <2>2. "Ok" \in Stages \cup Ended
    BY DEF Ended
  <2>3. CallMade(c, "Cancel", CancelStage("Ok"), Acked(q)') /\ Reported(c, q, "Ok", "cancelled")
    BY <1>0, <1>6, <2>1, <2>2, CancelStep DEF cancel
  <2>4. proc[c].got \cup Acked(q)' = Acked(q)'
    <3>1. proc[c].pc = "Cancel" /\ proc[c].got \subseteq Acked(q)
      BY <1>0, <2>3, AfterCall DEF OwnerOK
    <3> QED
      BY <1>1, <3>1
  <2>5. proc'[c].pc = "Ok" =>
          \E G \in SUBSET (proc[c].got \cup Acked(q)') : Cardinality(G) >= required_cancel_acks
    BY <1>0, <2>3, AfterCall DEF Stage, CancelStage
  <2> QED
    BY <1>1, <1>3, <2>3, <2>4, <2>5
<1>7. CASE recover(q) /\ ~ReleaseAtGuardians(q) /\ ~RacedRelease(q)
  BY <1>2, <1>7, RecoverFrame
<1> QED
  BY <1>4, <1>5, <1>6, <1>7

\* A step of cancel and what the owner has been told.
LEMMA OwnerStep ==
  ASSUME ProcsOK, RepliesGrow, NEW q \in Request, OwnerOK(q), cancel(q)
  PROVE  OwnerOK(q)'
<1> DEFINE c == Owner(q)
<1>1. c \in Process /\ "Ok" \in Stages \cup Ended /\ Acked(q) \subseteq Acked(q)'
  BY ProcessFacts, EnoughStays DEF Ended
<1>2. CallMade(c, "Cancel", CancelStage("Ok"), Acked(q)')
  <2>1. PICK g \in Turn(proc[c], "Cancel", Guardian) : CancelCall(c, "Ok", g, q)
    BY DEF cancel
  <2> QED
    BY <1>1, <2>1, CancelStep
<1> QED
  BY <1>1, <1>2, AfterCall DEF OwnerOK, Stage, CancelStage

\* What was so stays so while the command does nothing.
LEMMA ToldStays ==
  ASSUME RepliesGrow, NEW q \in Request
  PROVE  /\ ClientOK(q) /\ proc'[Client(q)] = proc[Client(q)] /\ (q \in racing' <=> q \in racing)
              => ClientOK(q)'
         /\ OwnerOK(q) /\ proc'[Owner(q)] = proc[Owner(q)] => OwnerOK(q)'
         /\ ReportOK(q) /\ results'[q] = results[q] => ReportOK(q)'
<1>1. /\ Acked(q) \subseteq Acked(q)' /\ Contributed(q) \subseteq Contributed(q)'
      /\ EnoughAcks(q) => EnoughAcks(q)'
      /\ Reconstructible(q) => Reconstructible(q)'
  BY EnoughStays
<1>2. /\ ClientOK(q) /\ proc'[Client(q)] = proc[Client(q)] /\ (q \in racing' <=> q \in racing)
           => ClientOK(q)'
  BY <1>1 DEF ClientOK
<1>3. OwnerOK(q) /\ proc'[Owner(q)] = proc[Owner(q)] => OwnerOK(q)'
  BY <1>1 DEF OwnerOK
<1>4. ReportOK(q) /\ results'[q] = results[q] => ReportOK(q)'
  BY <1>1 DEF ReportOK
<1> QED
  BY <1>2, <1>3, <1>4

\* The commands report of their own request.
LEMMA ResultSteps ==
  ASSUME NEW q \in Request, recover(q) \/ cancel(q)
  PROVE  \/ UNCHANGED results
         \/ \E result \in {"recovered", "cancelled"} :
              results' = [results EXCEPT ![q] = @ \cup {result}]
<1>1. ASSUME NEW c, NEW pc, NEW result \in {"recovered", "cancelled"}, Reported(c, q, pc, result)
      PROVE  \/ UNCHANGED results
             \/ results' = [results EXCEPT ![q] = @ \cup {result}]
  BY <1>1 DEF Reported
<1>2. CASE ReleaseAtGuardians(q)
  BY <1>1, <1>2 DEF ReleaseAtGuardians
<1>3. CASE RacedRelease(q)
  BY <1>1, <1>3 DEF RacedRelease
<1>4. CASE cancel(q)
  BY <1>1, <1>4 DEF cancel
<1> QED
  BY <1>2, <1>3, <1>4, RecoverFrame

\* A step of one request's commands and the reports of all requests.
LEMMA CommandReports ==
  ASSUME ProcsOK, RunTypes, RepliesGrow, ReportsOK, NEW q \in Request, recover(q) \/ cancel(q)
  PROVE  ReportsOK'
<1>1. UNCHANGED racing /\ proc \in [Process -> Proc]
  BY RecoverFrame DEF ProcsOK
<1>2. ASSUME NEW r \in Request, r # q PROVE ClientOK(r)' /\ OwnerOK(r)' /\ ReportOK(r)'
  <2>1. proc'[Client(r)] = proc[Client(r)] /\ proc'[Owner(r)] = proc[Owner(r)]
    BY <1>1, <1>2, CommandSteps, ProcessFacts
  <2>2. results'[r] = results[r]
    BY <1>2, ResultSteps DEF RunTypes
  <2> QED
    BY <1>1, <2>1, <2>2, ToldStays DEF ReportsOK
<1>3. ClientOK(q) /\ OwnerOK(q) /\ ReportOK(q)
  BY DEF ReportsOK
<1>4. ReportOK(q)'
  BY <1>3, ReportStep
<1>5. CASE recover(q)
  <2>1. proc'[Owner(q)] = proc[Owner(q)]
    BY <1>1, <1>5, CommandSteps, ProcessFacts
  <2> QED
    BY <1>2, <1>3, <1>4, <1>5, <2>1, ClientStep, ToldStays DEF ReportsOK
<1>6. CASE cancel(q)
  <2>1. proc'[Client(q)] = proc[Client(q)]
    BY <1>1, <1>6, CommandSteps, ProcessFacts
  <2> QED
    BY <1>1, <1>2, <1>3, <1>4, <1>6, <2>1, OwnerStep, ToldStays DEF ReportsOK
<1> QED
  BY <1>5, <1>6

\* The reports and what they rest on are inductive.
LEMMA ReportsInvariant == NetSpec => []ReportsOK
<1>1. NetInit => ReportsOK
  <2> SUFFICES ASSUME NetInit, NEW q \in Request PROVE ClientOK(q) /\ OwnerOK(q) /\ ReportOK(q)
    BY DEF ReportsOK
  <2>1. proc[Client(q)].pc = "Idle" /\ proc[Owner(q)].pc = "Idle"
    BY ProcessFacts DEF NetInit, At
  <2>2. results[q] = {}
    BY DEF NetInit
  <2> QED
    BY <2>1, <2>2 DEF ClientOK, OwnerOK, ReportOK
<1>2. ProcsOK /\ RunTypes /\ ReportsOK /\ [NetNext]_netvars => ReportsOK'
  <2> SUFFICES ASSUME ProcsOK, RunTypes, ReportsOK, [NetNext]_netvars PROVE ReportsOK'
    OBVIOUS
  <2>1. RepliesGrow /\ proc \in [Process -> Proc]
    BY StepsOfGuardians, RepliesAreKept DEF ProcsOK
  <2>2. ASSUME \A q \in Request : proc'[Client(q)] = proc[Client(q)] /\ proc'[Owner(q)] = proc[Owner(q)],
               UNCHANGED <<racing, results>>
        PROVE  ReportsOK'
    BY <2>1, <2>2, ToldStays DEF ReportsOK
  <2>3. CASE setup
    BY <2>1, <2>2, <2>3, SetupSteps, CommandSteps, ProcessFacts
  <2>4. ASSUME NEW q \in Request, recover(q) \/ cancel(q) PROVE ReportsOK'
    BY <2>1, <2>4, CommandReports
  <2>5. ASSUME NEW q \in Request, StartRecover(q) PROVE ReportsOK'
    <3>1. /\ proc' = [proc EXCEPT ![Client(q)] = At("Capsule")] /\ UNCHANGED results
          /\ \A r \in Request : r # q => (r \in racing' <=> r \in racing)
          /\ At("Capsule").pc = "Capsule"
      BY <2>5 DEF StartRecover, At
    <3>2. ASSUME NEW r \in Request PROVE OwnerOK(r)' /\ ReportOK(r)'
      BY <2>1, <3>1, ProcessFacts, ToldStays DEF ReportsOK
    <3>3. ASSUME NEW r \in Request, r # q PROVE ClientOK(r)'
      BY <2>1, <3>1, <3>3, ProcessFacts, ToldStays DEF ReportsOK
    <3>4. ClientOK(q)'
      BY <2>1, <3>1, ProcessFacts DEF ClientOK
    <3> QED
      BY <3>2, <3>3, <3>4 DEF ReportsOK
  <2>6. ASSUME NEW q \in Request, StartCancel(q) PROVE ReportsOK'
    <3>1. /\ proc' = [proc EXCEPT ![Owner(q)] = At("Cancel")] /\ UNCHANGED <<racing, results>>
          /\ At("Cancel").got = {}
      BY <2>6 DEF StartCancel, At
    <3>2. ASSUME NEW r \in Request PROVE ClientOK(r)' /\ ReportOK(r)'
      BY <2>1, <3>1, ProcessFacts, ToldStays DEF ReportsOK
    <3>3. ASSUME NEW r \in Request, r # q PROVE OwnerOK(r)'
      BY <2>1, <3>1, <3>3, ProcessFacts, ToldStays DEF ReportsOK
    <3>4. OwnerOK(q)'
      BY <2>1, <3>1, ProcessFacts DEF OwnerOK
    <3> QED
      BY <3>2, <3>3, <3>4 DEF ReportsOK
  <2>7. ASSUME NEW c \in Process, Crash(c) PROVE ReportsOK'
    <3>1. "Crashed" \in Stages \cup Ended /\ proc[c] \in Proc
      BY DEF Ended, ProcsOK
    <3>2. UNCHANGED <<racing, results>> /\ \A d \in Process : proc'[d] = proc[d] \/ proc'[d].pc = "Crashed"
      BY <2>1, <2>7, <3>1, EnteredOK DEF Crash
    <3>3. ASSUME NEW q \in Request PROVE ClientOK(q)' /\ OwnerOK(q)' /\ ReportOK(q)'
      <4>1. ClientOK(q)'
        BY <2>1, <3>2, ProcessFacts, ToldStays DEF ReportsOK, ClientOK
      <4>2. OwnerOK(q)'
        BY <2>1, <3>2, ProcessFacts, ToldStays DEF ReportsOK, OwnerOK
      <4>3. ReportOK(q)'
        BY <2>1, <3>2, ToldStays DEF ReportsOK
      <4> QED
        BY <4>1, <4>2, <4>3
    <3> QED
      BY <3>3 DEF ReportsOK
  <2>8. CASE NetTick \/ StopRelay \/ StopStore \/ RestartGuardian \/ RebootGuardian
             \/ UNCHANGED netvars
    BY <2>2, <2>8 DEF NetTick, StopRelay, StopStore, RestartGuardian, RebootGuardian, netvars
  <2> QED
    BY <2>3, <2>4, <2>5, <2>6, <2>7, <2>8 DEF NetNext
<1> QED
  BY <1>1, <1>2, ProcsInvariant, TypesInvariant, PTL DEF NetSpec

\* Both reports are backed by the guardians, for any number of them, whatever is
\* lost, retried or restarted: "recovered" by k released contributions, "permanently
\* cancelled" by n-k+1 tombstones.
THEOREM ReportTheorem == NetSpec => []ReportIsTrue
<1>1. ReportsOK => ReportIsTrue
  BY DEF ReportsOK, ReportOK, ReportIsTrue, EnoughAcks
<1> QED
  BY <1>1, ReportsInvariant, PTL

\* The network implements RecoveryPromise: a request is reported as recovered or as
\* permanently cancelled, never as both, and a report stands.
THEOREM PromiseTheorem == NetSpec => PromiseKept
<1>1. NetInit => Promise!Init
  BY DEF NetInit, Promise!Init
<1>2. /\ ProcsOK /\ RunTypes /\ HardCancelIsFinal' /\ ReportIsTrue' /\ [NetNext]_netvars
      => [Promise!Next]_results
  <2> SUFFICES ASSUME ProcsOK, RunTypes, HardCancelIsFinal', ReportIsTrue', NetNext
               PROVE  UNCHANGED results \/ Promise!Next
    BY DEF netvars
  <2>1. \A q \in Request : ~("recovered" \in results'[q] /\ "cancelled" \in results'[q])
    BY DEF HardCancelIsFinal, ReportIsTrue, required_cancel_acks
  <2>2. ASSUME NEW q \in Request, recover(q) \/ cancel(q)
        PROVE  UNCHANGED results \/ Promise!Next
    <3>1. SUFFICES ASSUME NEW result \in {"recovered", "cancelled"},
                          results' = [results EXCEPT ![q] = @ \cup {result}]
                   PROVE  UNCHANGED results \/ Promise!Next
      BY <2>2, ResultSteps
    <3>2. results \in [Request -> SUBSET {"recovered", "cancelled"}]
      BY DEF RunTypes
    <3>3. results[q] = {} \/ results[q] = {result}
      BY <2>1, <3>1, <3>2
    <3>4. CASE results[q] = {result}
      BY <3>1, <3>2, <3>4
    <3>5. CASE results[q] = {}
      <4>1. Promise!Report(q, result)
        BY <3>1, <3>2, <3>5 DEF Promise!Report
      <4> QED
        BY <4>1 DEF Promise!Next
    <3> QED
      BY <3>3, <3>4, <3>5
  <2>3. CASE \A q \in Request : ~(recover(q) \/ cancel(q))
    BY <2>3, SetupSteps DEF NetNext, StartRecover, StartCancel, NetTick, StopRelay, StopStore,
             RestartGuardian, RebootGuardian, Crash
  <2> QED
    BY <2>2, <2>3
<1>3. NetSpec => []HardCancelIsFinal
  BY NetworkImplementsGuardians, HardCancelTheorem, PTL
<1> QED
  BY <1>1, <1>2, <1>3, ProcsInvariant, TypesInvariant, ReportTheorem, PTL
     DEF NetSpec, PromiseKept, Promise!Spec

-----------------------------------------------------------------------------
(* The client and RecoveryMachine *)

\* The moves of the client of q from stage p to stage n.
Moves(q, p, n) ==
  \/ p = "Capsule" /\ n \in {"Capsule", "Approve", "Failed"}
  \/ p = "Approve" /\ n \in {"Approve", "Begin", "Failed"}
  \/ p = "Begin" /\ n \in {"Begin", IF q \in racing THEN "RaceVotes" ELSE "Sleep", "Failed"}
  \/ p = "RaceVotes" /\ n \in {"RaceVotes", "RaceCancel", "Failed"}
  \/ p = "RaceCancel" /\ n \in {"RaceCancel", "Sleep", "Failed"}
  \/ p = "Sleeping" /\ now >= wake[q] /\ n = IF q \in racing THEN "Raced" ELSE "ReleaseVotes"
  \/ p = "ReleaseVotes" /\ n \in {"ReleaseVotes", "Release", "Failed"}
  \/ p = "Release" /\ n \in {"Release", "Ok", "Failed"}
  \/ p = "Raced" /\ n \in {"Raced", "Failed", "Cancelled"}

GoesToSleep(q, p, n) ==
  /\ p = "Sleep" /\ n = "Sleeping"
  /\ wake' = [wake EXCEPT ![q] = now + minimum_recovery_delay + 1]

\* A step of recover makes one of these moves.
LEMMA ClientMoves ==
  ASSUME ProcsOK, NEW q \in Request, recover(q)
  PROVE  \/ UNCHANGED wake /\ Moves(q, proc[Client(q)].pc, proc'[Client(q)].pc)
         \/ GoesToSleep(q, proc[Client(q)].pc, proc'[Client(q)].pc)
<1> DEFINE c == Client(q)
           p == proc[c].pc
           n == proc'[c].pc
<1>0. c \in Process /\ proc[c] \in Proc /\ proc \in [Process -> Proc]
      /\ {"Sleeping", "Raced", "ReleaseVotes", "Failed"} \subseteq Stages \cup Ended
  BY ProcessFacts DEF ProcsOK, Stages, Ended
<1>1. ASSUME NEW pc, NEW st, NEW new, CallMade(c, pc, st, new)
      PROVE  p = pc /\ n \in {pc, st.next, st.otherwise}
  BY <1>0, <1>1, AfterCall
<1>2. CASE FetchCapsule(q)
  <2>1. p = "Capsule" /\ n \in {"Capsule", "Approve", "Failed"}
    BY <1>1, <1>2, SignerSteps DEF Stage
  <2> QED
    BY <1>2, <2>1 DEF FetchCapsule, Moves
<1>3. CASE CollectApprovals(q)
  <2>1. p = "Approve" /\ n \in {"Approve", "Begin", "Failed"}
    BY <1>1, <1>3, SignerSteps DEF Stage, Votes
  <2> QED
    BY <1>3, <2>1 DEF CollectApprovals, SignerCall, Moves
<1>4. CASE CollectReleaseVotes(q)
  <2>1. p = "ReleaseVotes" /\ n \in {"ReleaseVotes", "Release", "Failed"}
    BY <1>1, <1>4, SignerSteps DEF Stage, Votes
  <2> QED
    BY <1>4, <2>1 DEF CollectReleaseVotes, SignerCall, Moves
<1>5. CASE CollectRaceVotes(q)
  <2>1. p = "RaceVotes" /\ n \in {"RaceVotes", "RaceCancel", "Failed"}
    BY <1>1, <1>5, SignerSteps DEF Stage, Votes
  <2> QED
    BY <1>5, <2>1 DEF CollectRaceVotes, SignerCall, Moves
<1>6. CASE BeginAtGuardians(q)
  <2>1. p = "Begin" /\ n \in {"Begin", BeginStage(q).next, BeginStage(q).otherwise}
    BY <1>1, <1>6, GuardianSteps
  <2>2. /\ BeginStage(q).next = IF q \in racing THEN "RaceVotes" ELSE "Sleep"
        /\ BeginStage(q).otherwise = "Failed"
    BY DEF Stage, BeginStage
  <2> QED
    BY <1>6, <2>1, <2>2 DEF BeginAtGuardians, Moves
<1>7. CASE ReleaseAtGuardians(q)
  <2>1. p = "Release" /\ n \in {"Release", "Ok", "Failed"}
    BY <1>1, <1>7, GuardianSteps DEF Stage, ReleaseStage
  <2> QED
    BY <1>7, <2>1 DEF ReleaseAtGuardians, Moves
<1>8. CASE RaceCancel(q)
  <2>1. ASSUME CallMade(c, "RaceCancel", CancelStage("Sleep"), Acked(q)')
        PROVE  p = "RaceCancel" /\ n \in {"RaceCancel", "Sleep", "Failed"}
    BY <1>1, <2>1 DEF Stage, CancelStage
  <2>2. ASSUME p = "RaceCancel" /\ proc' = [proc EXCEPT ![c] = Enter(@, "Failed")]
        PROVE  p = "RaceCancel" /\ n \in {"RaceCancel", "Sleep", "Failed"}
    BY <1>0, <2>2, EnteredOK
  <2>3. p = "RaceCancel" /\ n \in {"RaceCancel", "Sleep", "Failed"}
    BY <1>8, <2>1, <2>2, GuardianSteps
  <2> QED
    BY <1>8, <2>3 DEF RaceCancel, Moves
<1>9. CASE RacedRelease(q)
  <2>1. p = "Raced" /\ n \in {"Raced", "Failed", "Cancelled"}
    BY <1>0, <1>9, GuardianSteps
  <2> QED
    BY <1>9, <2>1 DEF RacedRelease, Moves
<1>10. CASE Sleep(q)
  BY <1>0, <1>10, EnteredOK DEF Sleep, GoesToSleep
<1>11. CASE Wake(q)
  BY <1>0, <1>11, EnteredOK DEF Wake, Moves
<1> QED
  BY <1>2, <1>3, <1>4, <1>5, <1>6, <1>7, <1>8, <1>9, <1>10, <1>11 DEF recover

\* When the client of q has begun to sleep, and slept enough.
ClientTimed(q) ==
  LET pc == proc[Client(q)].pc
  IN /\ pc \in {"RaceVotes", "RaceCancel", "Raced"} => q \in racing
     /\ pc \in {"Idle", "Capsule", "Approve", "Begin", "RaceVotes", "RaceCancel", "Sleep"}
          => wake[q] = 0
     /\ pc \in {"Sleeping", "ReleaseVotes"} => wake[q] # 0
     /\ pc = "ReleaseVotes" => now >= wake[q]

ClientsTimed == \A q \in Request : ClientTimed(q)

\* Time and the other commands do not disturb it.
LEMMA TimedStays ==
  ASSUME TypeOK, RunTypes, [Next]_vars, NEW q \in Request, ClientTimed(q),
         proc'[Client(q)].pc = proc[Client(q)].pc, wake'[q] = wake[q],
         q \in racing => q \in racing'
  PROVE  ClientTimed(q)'
<1>1. now' = now \/ now' = now + 1
  BY DEF Next, vars, Tick, Restart, Reboot, guardian_mailbox, GuardianBegin, GuardianCancel,
         ReleaseRefused, GuardianRelease
<1>2. now \in Nat /\ wake[q] \in Nat
  BY DEF TypeOK, RunTypes
<1> QED
  BY <1>1, <1>2 DEF ClientTimed

\* A client's own step keeps it.
LEMMA TimedStep ==
  ASSUME TypeOK, RunTypes, ProcsOK, NEW q \in Request, ClientTimed(q), recover(q), UNCHANGED now
  PROVE  ClientTimed(q)'
<1> DEFINE p == proc[Client(q)].pc
           n == proc'[Client(q)].pc
<1>1. now \in Nat /\ wake \in [Request -> Nat] /\ minimum_recovery_delay \in Nat
  BY GuardianAssumption DEF TypeOK, RunTypes
<1>2. UNCHANGED racing
  BY RecoverFrame
<1>3. CASE UNCHANGED wake /\ Moves(q, p, n)
  BY <1>1, <1>2, <1>3 DEF Moves, ClientTimed
<1>4. CASE GoesToSleep(q, p, n)
  BY <1>1, <1>2, <1>4 DEF GoesToSleep, ClientTimed
<1> QED
  BY <1>3, <1>4, ClientMoves

\* A call takes no time.
LEMMA CallsTakeNoTime ==
  ASSUME ProcsOK, NEW q \in Request, recover(q)
  PROVE  UNCHANGED now
<1>1. ASSUME GuardianDid(q) PROVE UNCHANGED now
  BY <1>1 DEF GuardianDid, guardian_mailbox, GuardianBegin, GuardianCancel, ReleaseRefused,
              GuardianRelease, vars
<1>2. CASE BeginAtGuardians(q) \/ ReleaseAtGuardians(q) \/ RacedRelease(q) \/ RaceCancel(q)
  BY <1>1, <1>2, GuardianSteps DEF vars
<1>3. CASE FetchCapsule(q) \/ CollectApprovals(q) \/ CollectReleaseVotes(q)
           \/ CollectRaceVotes(q) \/ Sleep(q) \/ Wake(q)
  BY <1>3 DEF FetchCapsule, CollectApprovals, CollectReleaseVotes, CollectRaceVotes, SignerCall,
              Sleep, Wake, vars
<1> QED
  BY <1>2, <1>3 DEF recover

\* What a step does to the client of q, if it is not its own.
LEMMA OthersSteps ==
  ASSUME ProcsOK, RunTypes, NetNext, NEW q \in Request, ~recover(q)
  PROVE  /\ wake'[q] = wake[q]
         /\ \/ proc'[Client(q)] = proc[Client(q)] /\ (q \in racing' <=> q \in racing)
            \/ proc[Client(q)].pc = "Idle" /\ proc'[Client(q)].pc = "Capsule"
               /\ (q \in racing => q \in racing')
            \/ /\ proc[Client(q)].pc \notin Ended /\ proc'[Client(q)].pc = "Crashed"
               /\ UNCHANGED racing
<1> DEFINE c == Client(q)
<1>0. /\ c \in Process /\ proc \in [Process -> Proc] /\ wake \in [Request -> Nat]
      /\ "Crashed" \in Stages \cup Ended
  BY ProcessFacts DEF ProcsOK, RunTypes, Ended
<1>1. CASE setup
  BY <1>0, <1>1, SetupSteps, CommandSteps, ProcessFacts
<1>2. ASSUME NEW r \in Request, recover(r) \/ cancel(r)
      PROVE  wake'[q] = wake[q] /\ proc'[c] = proc[c] /\ UNCHANGED racing
  <2>1. proc'[c] = proc[c]
    BY <1>0, <1>2, CommandSteps, ProcessFacts
  <2>2. wake'[q] = wake[q]
    BY <1>0, <1>2, RecoverFrame DEF Sleep
  <2> QED
    BY <1>2, <2>1, <2>2, RecoverFrame
<1>3. ASSUME NEW r \in Request, StartRecover(r)
      PROVE  /\ UNCHANGED wake
             /\ \/ proc'[c] = proc[c] /\ (q \in racing' <=> q \in racing)
                \/ proc[c].pc = "Idle" /\ proc'[c].pc = "Capsule" /\ (q \in racing => q \in racing')
  BY <1>0, <1>3, ProcessFacts DEF StartRecover, At
<1>4. ASSUME NEW r \in Request, StartCancel(r)
      PROVE  proc'[c] = proc[c] /\ UNCHANGED <<racing, wake>>
  BY <1>0, <1>4, ProcessFacts DEF StartCancel
<1>5. ASSUME NEW d \in Process, Crash(d)
      PROVE  /\ UNCHANGED <<racing, wake>>
             /\ \/ proc'[c] = proc[c]
                \/ proc[c].pc \notin Ended /\ proc'[c].pc = "Crashed"
  BY <1>0, <1>5, EnteredOK DEF Crash
<1>6. CASE NetTick \/ StopRelay \/ StopStore \/ RestartGuardian \/ RebootGuardian
  BY <1>6 DEF NetTick, StopRelay, StopStore, RestartGuardian, RebootGuardian
<1> QED
  BY <1>1, <1>2, <1>3, <1>4, <1>5, <1>6 DEF NetNext

\* Clients sleep and wake in order.
LEMMA TimedInvariant == NetSpec => []ClientsTimed
<1>1. NetInit => ClientsTimed
  BY ProcessFacts DEF NetInit, At, ClientsTimed, ClientTimed
<1>2. /\ IInv /\ ProcsOK /\ RunTypes /\ ClientsTimed /\ [NetNext]_netvars
      => ClientsTimed'
  <2> SUFFICES ASSUME IInv, ProcsOK, RunTypes, ClientsTimed, [NetNext]_netvars,
                      NEW q \in Request
               PROVE  ClientTimed(q)'
    BY DEF ClientsTimed
  <2>1. TypeOK /\ [Next]_vars /\ ClientTimed(q)
    BY StepsOfGuardians DEF IInv, ClientsTimed
  <2>2. CASE recover(q)
    BY <2>1, <2>2, CallsTakeNoTime, TimedStep
  <2>3. CASE UNCHANGED netvars
    BY <2>1, <2>3, TimedStays DEF netvars
  <2>4. CASE NetNext /\ ~recover(q)
    <3>1. wake'[q] = wake[q]
      BY <2>4, OthersSteps
    <3>2. CASE proc'[Client(q)] = proc[Client(q)] /\ (q \in racing' <=> q \in racing)
      BY <2>1, <3>1, <3>2, TimedStays
    <3>3. CASE proc[Client(q)].pc = "Idle" /\ proc'[Client(q)].pc = "Capsule"
      BY <2>1, <3>1, <3>3 DEF ClientTimed
    <3>4. CASE proc'[Client(q)].pc = "Crashed"
      BY <3>4 DEF ClientTimed
    <3> QED
      BY <2>4, <3>2, <3>3, <3>4, OthersSteps
  <2> QED
    BY <2>2, <2>3, <2>4
<1> QED
  BY <1>1, <1>2, TypesInvariant, PTL DEF NetSpec

NotBefore(q) == IF wake[q] = 0 \/ q \in racing THEN None ELSE wake[q] - 1

\* A client's own step is a step of its machine, or none.
LEMMA MachineStep ==
  ASSUME TypeOK, RunTypes, ProcsOK, NEW q \in Request, ClientTimed(q), recover(q)
  PROVE  [ClientMachine(q)!apply]_(ClientMachine(q)!vars)
<1> DEFINE p == proc[Client(q)].pc
           n == proc'[Client(q)].pc
<1> USE DEF ClientMachine!apply, ClientMachine!vars, ClientMachine!RequestCreated,
            ClientMachine!ApprovalThresholdReached, ClientMachine!BeginAccepted,
            ClientMachine!ReleaseCertificateReady, ClientMachine!GuardianThresholdReached,
            ClientMachine!ExpiryReached, ClientMachine!Move, ClientMachine!Terminal
<1>1. now \in Nat /\ wake \in [Request -> Nat] /\ minimum_recovery_delay \in Nat
  BY GuardianAssumption DEF TypeOK, RunTypes
<1>2. UNCHANGED racing
  BY RecoverFrame
<1>3. CASE q \in racing
  BY <1>2, <1>3 DEF MachineState
<1>4. CASE q \notin racing /\ UNCHANGED wake /\ Moves(q, p, n)
  <2>1. UNCHANGED NotBefore(q)
    BY <1>2, <1>4 DEF NotBefore
  <2>2. p \notin {"RaceVotes", "RaceCancel", "Raced"}
    BY <1>4 DEF ClientTimed
  <2>3. \/ MachineState(q)' = MachineState(q)
        \/ MachineState(q) = "AwaitingApprovals" /\ MachineState(q)' = "Authorized"
        \/ p = "ReleaseVotes" /\ MachineState(q) = "DelayPending" /\ MachineState(q)' = "Releasing"
        \/ MachineState(q) = "Releasing" /\ MachineState(q)' = "Completed"
        \/ /\ MachineState(q) \notin {"Cancelled", "Expired"}
           /\ MachineState(q)' = "Expired"
    BY <1>2, <1>4, <2>2 DEF Moves, MachineState
  <2>4. p = "ReleaseVotes" => now >= NotBefore(q)
    BY <1>1, <1>4 DEF ClientTimed, NotBefore
  <2> QED
    BY <2>1, <2>3, <2>4 DEF NotBefore
<1>5. CASE q \notin racing /\ GoesToSleep(q, p, n)
  <2>1. MachineState(q) = "Authorized" /\ MachineState(q)' = "DelayPending"
    BY <1>2, <1>5 DEF GoesToSleep, MachineState
  <2>2. NotBefore(q)' = now + minimum_recovery_delay
    BY <1>1, <1>2, <1>5 DEF GoesToSleep, NotBefore
  <2> QED
    BY <2>1, <2>2 DEF NotBefore
<1> QED
  BY <1>3, <1>4, <1>5, ClientMoves

\* Every client goes through the states of gp-core's RecoveryMachine, for any delay and
\* any number of actors: nothing is asked of a guardian's share before k of them have
\* accepted Begin and the whole delay has passed.
THEOREM ClientMachineTheorem == NetSpec => ClientFollowsMachine
<1>1. NetInit => \A q \in Request : ClientMachine(q)!Init
  <2> SUFFICES ASSUME NetInit, NEW q \in Request PROVE ClientMachine(q)!Init
    OBVIOUS
  <2>1. proc[Client(q)].pc = "Idle" /\ wake[q] = 0
    BY ProcessFacts DEF NetInit, At
  <2> QED
    BY <2>1 DEF ClientMachine!Init, MachineState
<1>2. IInv /\ ProcsOK /\ RunTypes /\ ClientsTimed /\ [NetNext]_netvars
      => [\A q \in Request : [ClientMachine(q)!apply]_(ClientMachine(q)!vars)]_netvars
  <2> SUFFICES ASSUME IInv, ProcsOK, RunTypes, ClientsTimed, NetNext, NEW q \in Request
               PROVE  [ClientMachine(q)!apply]_(ClientMachine(q)!vars)
    OBVIOUS
  <2>1. TypeOK /\ ClientTimed(q)
    BY DEF IInv, ClientsTimed
  <2>2. CASE recover(q)
    BY <2>1, <2>2, MachineStep
  <2>3. CASE ~recover(q)
    <3> USE DEF ClientMachine!apply, ClientMachine!vars, ClientMachine!RequestCreated,
                ClientMachine!ExpiryReached, ClientMachine!Move, ClientMachine!Terminal
    <3>1. wake'[q] = wake[q]
      BY <2>3, OthersSteps
    <3>2. CASE proc'[Client(q)] = proc[Client(q)] /\ (q \in racing' <=> q \in racing)
      BY <3>1, <3>2 DEF MachineState
    <3>3. CASE /\ proc[Client(q)].pc = "Idle" /\ proc'[Client(q)].pc = "Capsule"
               /\ q \in racing => q \in racing'
      <4>1. wake[q] = 0
        BY <2>1, <3>3 DEF ClientTimed
      <4>2. MachineState(q) = "Created" /\ MachineState(q)' \in {"Created", "AwaitingApprovals"}
        BY <3>3 DEF MachineState
      <4> QED
        BY <3>1, <4>1, <4>2
    <3>4. CASE /\ proc[Client(q)].pc \notin Ended /\ proc'[Client(q)].pc = "Crashed"
               /\ UNCHANGED racing
      <4>1. \/ MachineState(q)' = MachineState(q)
            \/ /\ MachineState(q) \notin {"Cancelled", "Expired"}
               /\ MachineState(q)' = "Expired"
        BY <3>4 DEF MachineState
      <4> QED
        BY <3>1, <3>4, <4>1
    <3> QED
      BY <2>3, <3>2, <3>3, <3>4, OthersSteps
  <2> QED
    BY <2>2, <2>3
<1> QED
  BY <1>1, <1>2, TypesInvariant, TimedInvariant, PTL DEF NetSpec, ClientFollowsMachine

-----------------------------------------------------------------------------
(* The guardians' entries and GuardianMachine *)

\* The pending recoveries of a machine with the entry e.
MachinePending(e) ==
  [i \in RequestId |->
     IF e.pending[i] = None THEN None
     ELSE [request |-> e.pending[i].request,
           not_before |-> e.pending[i].started_monotonic + minimum_recovery_delay,
           state |-> IF e.cancelled[i] # None THEN "Cancelled"
                     ELSE IF e.released[i] # None THEN "Releasing"
                     ELSE "DelayPending"]]

\* The machine knows of the recoveries that the entry has.
LEMMA MachinePendingFields ==
  ASSUME NEW e \in Entry, NEW i \in RequestId
  PROVE  /\ MachinePending(e)[i] = None <=> e.pending[i] = None
         /\ e.pending[i] # None =>
              /\ MachinePending(e)[i].request = e.pending[i].request
              /\ MachinePending(e)[i].not_before =
                   e.pending[i].started_monotonic + minimum_recovery_delay
<1>1. CASE e.pending[i] = None
  BY <1>1 DEF MachinePending
<1>2. CASE e.pending[i] # None
  <2> DEFINE p == MachinePending(e)[i]
             st == IF e.cancelled[i] # None THEN "Cancelled"
                   ELSE IF e.released[i] # None THEN "Releasing" ELSE "DelayPending"
             nb == e.pending[i].started_monotonic + minimum_recovery_delay
  <2>1. p = [request |-> e.pending[i].request, not_before |-> nb, state |-> st]
    BY <1>2 DEF MachinePending
  <2>2. e.pending[i] \in Pending
    BY <1>2 DEF Entry
  <2>3. /\ e.pending[i].request \in Request /\ nb \in Nat
        /\ st \in {"DelayPending", "Cancelled", "Releasing", "Expired"}
    BY <2>2, GuardianAssumption DEF Pending
  <2> HIDE DEF nb, st
  <2>4. [request |-> e.pending[i].request, not_before |-> nb, state |-> st] \in MachineRecovery
    BY <2>3 DEF MachineRecovery
  <2> QED
    BY <1>2, <2>1, <2>4, MachineAssumption DEF nb, st
<1> QED
  BY <1>1, <1>2

\* The machine has one recovery for every request id.
LEMMA MachineFunction ==
  \A e : MachinePending(e) = [j \in RequestId |-> MachinePending(e)[j]]
  BY DEF MachinePending

\* Who has an id or a nonce of its own cannot be mistaken.
LEMMA DistinctRequests ==
  ASSUME NEW q \in Request, NEW r \in Request, request_id[q] = request_id[r] \/ nonce[q] = nonce[r]
  PROVE  q = r
  BY RunsAssumption

\* A Begin that is handled at once is begin_at of the machine.
LEMMA BeginIsMachineStep ==
  ASSUME NEW g \in Honest, NEW q \in Request, TypeOK, ClocksOK, EntryOK(entry[g]),
         GuardianBegin(g, q), begun'[g][q].at = now
  PROVE  GuardianMachineOf(g)!begin_at(q)
<1> DEFINE e == entry[g]
           n == entry'[g]
           i == request_id[q]
           started == monotonic_now(g, now)
<1>1. e \in Entry /\ i \in RequestId /\ q # None /\ entry \in [Honest -> Entry]
  BY RequestAssumption DEF TypeOK, RequestId
<1>2. /\ e.cancelled[i] # q /\ e.pending[i] = None /\ nonce[q] \notin e.seen_nonces
      /\ n = Begun(e, q, started, clock[g].boot_id)
  <2>1. PICK at \in Sampled(g) :
          /\ entry' = [entry EXCEPT ![g] = Begun(e, q, monotonic_now(g, at), clock[g].boot_id)]
          /\ begun' = [begun EXCEPT ![g][q] = [at |-> at, boot_id |-> clock[g].boot_id]]
    BY DEF GuardianBegin, Save, SaveFails
  <2>2. at = now
    BY <2>1 DEF TypeOK
  <2> QED
    BY <1>1, <2>1, <2>2 DEF GuardianBegin, MayBegin
<1>3. e.cancelled[i] = None /\ e.released[i] = None
  <2>1. e.cancelled[i] \in Request \cup {None}
    BY <1>1 DEF Entry
  <2> QED
    BY <1>1, <1>2, <2>1, DistinctRequests DEF EntryOK
<1>4. n = [pending |-> [e.pending EXCEPT ![i] = [request |-> q, started_monotonic |-> started,
                                                boot_id |-> clock[g].boot_id]],
           cancelled |-> e.cancelled, released |-> e.released,
           seen_nonces |-> e.seen_nonces \cup {nonce[q]}]
  BY <1>1, <1>2 DEF Begun, Entry
<1>5. MachinePending(n) = [MachinePending(e) EXCEPT ![i] =
         [request |-> q, not_before |-> started + minimum_recovery_delay,
          state |-> "DelayPending"]]
  <2> DEFINE new == [request |-> q, started_monotonic |-> started, boot_id |-> clock[g].boot_id]
  <2>1. /\ n.pending = [e.pending EXCEPT ![i] = new] /\ n.cancelled = e.cancelled
        /\ n.released = e.released
        /\ new.request = q /\ new.started_monotonic = started
    BY <1>4
  <2>2. new # None
    <3>1. started \in Nat
      BY DEF ClocksOK, monotonic_now, TypeOK, Clock
    <3>2. new \in Pending
      BY <1>1, <3>1 DEF Pending, TypeOK, Clock
    <3> QED
      BY <3>2, RequestAssumption
  <2> HIDE DEF new, n, i
  <2>3. \A j \in RequestId : n.pending[j] = IF j = i THEN new ELSE e.pending[j]
    BY <1>1, <2>1 DEF Entry
  <2> QED
    BY <1>1, <1>3, <2>1, <2>2, <2>3 DEF MachinePending
<1>6. n.cancelled = e.cancelled /\ n.seen_nonces = e.seen_nonces \cup {nonce[q]}
  BY <1>4
<1>7. MachinePending(e)[i] = None
  BY <1>1, <1>2 DEF MachinePending
<1> HIDE DEF e, n
<1> QED
  BY <1>2, <1>3, <1>5, <1>6, <1>7 DEF GuardianMachineOf!begin_at, MachinePending, e, n

\* An accepted cancellation is cancel of the machine, and a repeated one is nothing.
LEMMA CancelIsMachineStep ==
  ASSUME NEW g \in Honest, NEW q \in Request, TypeOK, EntryOK(entry[g]), GuardianCancel(g, q)
  PROVE  entry'[g] = entry[g] \/ GuardianMachineOf(g)!cancel(q)
<1> DEFINE e == entry[g]
           n == entry'[g]
           i == request_id[q]
<1>1. e \in Entry /\ i \in RequestId /\ q # None /\ entry \in [Honest -> Entry]
  BY RequestAssumption DEF TypeOK, RequestId
<1>2. e.cancelled[i] \in {None, q} /\ n = [e EXCEPT !.cancelled[i] = q]
  BY <1>1 DEF GuardianCancel, MayCancel, Save, SaveFails
<1>3. n = [pending |-> e.pending, cancelled |-> [e.cancelled EXCEPT ![i] = q],
           released |-> e.released, seen_nonces |-> e.seen_nonces]
  BY <1>1, <1>2 DEF Entry
<1>4. CASE e.cancelled[i] = q
  <2>1. [e.cancelled EXCEPT ![i] = q] = e.cancelled
    BY <1>1, <1>4 DEF Entry
  <2>2. e = [pending |-> e.pending, cancelled |-> e.cancelled, released |-> e.released,
             seen_nonces |-> e.seen_nonces]
    BY <1>1 DEF Entry
  <2> QED
    BY <1>3, <2>1, <2>2
<1>5. CASE e.cancelled[i] = None
  <2>1. /\ n.pending = e.pending /\ n.cancelled = [e.cancelled EXCEPT ![i] = q]
        /\ n.released = e.released /\ n.seen_nonces = e.seen_nonces
    BY <1>3
  <2> HIDE DEF n, i
  <2>2. \A j \in RequestId : n.cancelled[j] = IF j = i THEN q ELSE e.cancelled[j]
    BY <1>1, <2>1 DEF Entry
  <2>3. /\ MachinePending(e)[i] = None <=> e.pending[i] = None
        /\ MachinePending(e)[i] # None => MachinePending(e)[i].request = e.pending[i].request
    <3>1. i \in RequestId
      BY <1>1
    <3> QED
      BY <1>1, <3>1, MachinePendingFields
  <2>4. e.pending[i] # None => e.pending[i].request = q
    <3>1. e.pending[i] \in Pending \cup {None}
      BY <1>1 DEF Entry
    <3> QED
      BY <1>1, <3>1, DistinctRequests DEF EntryOK, Pending, i
  <2>5. MachinePending(n) = IF e.pending[i] = None THEN MachinePending(e)
                            ELSE [MachinePending(e) EXCEPT ![i].state = "Cancelled"]
    <3>1. CASE e.pending[i] = None
      <4>1. ASSUME NEW j \in RequestId PROVE MachinePending(n)[j] = MachinePending(e)[j]
        BY <1>1, <2>1, <2>2, <3>1 DEF MachinePending
      <4> QED
        BY <3>1, <4>1 DEF MachinePending
    <3>2. CASE e.pending[i] # None
      <4>1. ASSUME NEW j \in RequestId, j # i PROVE MachinePending(n)[j] = MachinePending(e)[j]
        BY <1>1, <2>1, <2>2, <4>1 DEF MachinePending
      <4> DEFINE v == [MachinePending(e)[i] EXCEPT !.state = "Cancelled"]
      <4>2. MachinePending(n)[i] = v
        BY <1>1, <2>1, <2>2, <3>2 DEF MachinePending
      <4> HIDE DEF v
      <4>3. MachinePending(n) = [MachinePending(e) EXCEPT ![i] = v]
        <5>1. \A j \in RequestId : MachinePending(n)[j] = IF j = i THEN v ELSE MachinePending(e)[j]
          BY <4>1, <4>2
        <5>2. /\ MachinePending(n) = [j \in RequestId |-> MachinePending(n)[j]]
              /\ MachinePending(e) = [j \in RequestId |-> MachinePending(e)[j]]
          BY MachineFunction
        <5> QED
          BY <5>1, <5>2
      <4> QED
        BY <3>2, <4>3 DEF v
    <3> QED
      BY <3>1, <3>2
  <2> HIDE DEF e
  <2> QED
    BY <1>5, <2>1, <2>3, <2>4, <2>5 DEF GuardianMachineOf!cancel, MachinePending, e, n, i
<1> QED
  BY <1>2, <1>4, <1>5

\* A release is authorize_release_at of the machine.
LEMMA ReleaseIsMachineStep ==
  ASSUME NEW g \in Honest, NEW q \in Request, TypeOK, EntryOK(entry[g]), GuardianRelease(g, q)
  PROVE  GuardianMachineOf(g)!authorize_release_at(q)
<1> DEFINE e == entry[g]
           n == entry'[g]
           i == request_id[q]
<1>1. e \in Entry /\ i \in RequestId /\ q # None /\ entry \in [Honest -> Entry]
  BY RequestAssumption DEF TypeOK, RequestId
<1>2. /\ e.cancelled[i] # q /\ e.pending[i] # None /\ e.pending[i].request = q
      /\ n = [e EXCEPT !.released[i] = q]
  BY <1>1 DEF GuardianRelease, MayRelease, authorize_release_at, Save, SaveFails
<1>3. monotonic_now(g, now) >= e.pending[i].started_monotonic + minimum_recovery_delay
  <2>1. PICK at \in Sampled(g) :
          monotonic_now(g, at) >= e.pending[i].started_monotonic + minimum_recovery_delay
    BY DEF GuardianRelease, MayRelease, authorize_release_at
  <2>2. e.pending[i] \in Pending
    BY <1>1, <1>2 DEF Entry
  <2>3. /\ e.pending[i].started_monotonic \in Nat /\ minimum_recovery_delay \in Nat
        /\ now \in Nat /\ clock[g].booted_at \in Nat /\ clock[g].up_since \in Nat
    BY <2>2, GuardianAssumption DEF Pending, TypeOK, Clock
  <2> HIDE DEF e, i
  <2> QED
    BY <2>1, <2>3 DEF Sampled, monotonic_now
<1>4. e.cancelled[i] = None
  <2>1. e.cancelled[i] \in Request \cup {None}
    BY <1>1 DEF Entry
  <2> QED
    BY <1>1, <1>2, <2>1, DistinctRequests DEF EntryOK
<1>5. n = [pending |-> e.pending, cancelled |-> e.cancelled,
           released |-> [e.released EXCEPT ![i] = q], seen_nonces |-> e.seen_nonces]
  BY <1>1, <1>2 DEF Entry
<1>6. /\ n.pending = e.pending /\ n.cancelled = e.cancelled
      /\ n.released = [e.released EXCEPT ![i] = q] /\ n.seen_nonces = e.seen_nonces
  BY <1>5
<1> HIDE DEF n, i
<1>7. \A j \in RequestId : n.released[j] = IF j = i THEN q ELSE e.released[j]
  BY <1>1, <1>6 DEF Entry
<1>8. /\ MachinePending(e)[i] # None /\ MachinePending(e)[i].request = q
      /\ monotonic_now(g, now) >= MachinePending(e)[i].not_before
  <2>1. i \in RequestId
    BY <1>1
  <2> QED
    BY <1>1, <1>2, <1>3, <2>1, MachinePendingFields
<1>9. MachinePending(n) = [MachinePending(e) EXCEPT ![i].state = "Releasing"]
  <2>1. ASSUME NEW j \in RequestId, j # i PROVE MachinePending(n)[j] = MachinePending(e)[j]
    BY <1>1, <1>6, <1>7, <2>1 DEF MachinePending
  <2> DEFINE v == [MachinePending(e)[i] EXCEPT !.state = "Releasing"]
  <2>2. MachinePending(n)[i] = v
    BY <1>1, <1>2, <1>4, <1>6, <1>7 DEF MachinePending
  <2> HIDE DEF v
  <2>3. \A j \in RequestId : MachinePending(n)[j] = IF j = i THEN v ELSE MachinePending(e)[j]
    BY <2>1, <2>2
  <2>4. /\ MachinePending(n) = [j \in RequestId |-> MachinePending(n)[j]]
        /\ MachinePending(e) = [j \in RequestId |-> MachinePending(e)[j]]
    BY MachineFunction
  <2>5. MachinePending(n) = [MachinePending(e) EXCEPT ![i] = v]
    BY <2>3, <2>4
  <2> QED
    BY <2>5 DEF v
<1> HIDE DEF e
<1> QED
  BY <1>4, <1>6, <1>8, <1>9 DEF GuardianMachineOf!authorize_release_at, GuardianMachineOf!Known,
                               MachinePending, e, n, i

\* A handler runs at the guardian whose turn it is.
LEMMA TurnIsGuardian ==
  ASSUME ProcsOK, NEW c \in Process, NEW pc \in GuardianStages, NEW g \in Turn(proc[c], pc, Guardian)
  PROVE  g \in Guardian
<1>1. proc[c].pc = pc
  BY DEF Turn
<1>2. Guardian \in SUBSET Nat /\ Ongoing(proc[c], Guardian)
  BY <1>1, TargetFacts DEF ProcsOK, ProcOK
<1> QED
  BY <1>2, TurnIsTarget

\* What one guardian has done, with the time it has taken for a Begin.
Handled(g, q) == \/ GuardianBegin(g, q) /\ begun'[g][q].at = now
                 \/ GuardianCancel(g, q) \/ ReleaseRefused(g, q) \/ GuardianRelease(g, q)

\* A step of the network is at most one of one guardian.
LEMMA StepsOfEntries ==
  ASSUME ProcsOK, NetNext
  PROVE  \/ UNCHANGED entry
         \/ \E g \in Guardian : Restart(g) \/ Reboot(g) \/ \E q \in Request : Handled(g, q)
<1>1. ASSUME NEW c \in Process, NEW q \in Request, NEW pc \in {"RaceCancel", "Cancel"}, NEW next,
             \E g \in Turn(proc[c], pc, Guardian) : CancelCall(c, next, g, q)
      PROVE  UNCHANGED entry \/ \E g \in Guardian : Handled(g, q)
  <2>1. PICK g \in Turn(proc[c], pc, Guardian) : CancelCall(c, next, g, q)
    BY <1>1
  <2>2. g \in Guardian
    BY TurnIsGuardian DEF GuardianStages
  <2> QED
    BY <2>1, <2>2 DEF CancelCall, GuardianCall, Handled, vars
<1>2. ASSUME NEW q \in Request, recover(q)
      PROVE  UNCHANGED entry \/ \E g \in Guardian : Handled(g, q)
  <2>0. Client(q) \in Process
    BY ProcessFacts
  <2>1. CASE BeginAtGuardians(q)
    <3>1. PICK g \in Turn(proc[Client(q)], "Begin", Guardian) :
            UNCHANGED vars \/ (GuardianBegin(g, q) /\ begun'[g][q].at = now)
      BY <2>1 DEF BeginAtGuardians, GuardianCall
    <3>2. g \in Guardian
      BY <2>0, TurnIsGuardian DEF GuardianStages
    <3> QED
      BY <3>1, <3>2 DEF Handled, vars
  <2>2. CASE ReleaseAtGuardians(q)
    <3>1. PICK g \in Turn(proc[Client(q)], "Release", Guardian) :
            UNCHANGED vars \/ GuardianRelease(g, q) \/ ReleaseRefused(g, q)
      BY <2>2 DEF ReleaseAtGuardians, RefusedRelease, NotReleased
    <3>2. g \in Guardian
      BY <2>0, TurnIsGuardian DEF GuardianStages
    <3> QED
      BY <3>1, <3>2 DEF Handled, vars
  <2>3. CASE RacedRelease(q)
    <3>1. PICK g \in Turn(proc[Client(q)], "Raced", Guardian) :
            UNCHANGED vars \/ GuardianRelease(g, q) \/ ReleaseRefused(g, q)
      BY <2>3 DEF RacedRelease, RefusedRelease, NotReleased
    <3>2. g \in Guardian
      BY <2>0, TurnIsGuardian DEF GuardianStages
    <3> QED
      BY <3>1, <3>2 DEF Handled, vars
  <2>4. CASE RaceCancel(q)
    BY <1>1, <2>0, <2>4 DEF RaceCancel, vars
  <2>5. CASE FetchCapsule(q) \/ CollectApprovals(q) \/ CollectReleaseVotes(q)
             \/ CollectRaceVotes(q) \/ Sleep(q) \/ Wake(q)
    BY <2>5 DEF FetchCapsule, CollectApprovals, CollectReleaseVotes, CollectRaceVotes, SignerCall,
                Sleep, Wake, vars
  <2> QED
    BY <1>2, <2>1, <2>2, <2>3, <2>4, <2>5 DEF recover
<1>3. ASSUME NEW q \in Request, cancel(q)
      PROVE  UNCHANGED entry \/ \E g \in Guardian : Handled(g, q)
  <2>1. Owner(q) \in Process
    BY ProcessFacts
  <2> QED
    BY <1>1, <1>3, <2>1 DEF cancel
<1>4. CASE setup
  BY <1>4, SetupSteps DEF vars
<1>5. ASSUME NEW q \in Request, StartRecover(q) \/ StartCancel(q) PROVE UNCHANGED entry
  BY <1>5 DEF StartRecover, StartCancel, vars
<1>6. CASE NetTick \/ StopRelay \/ StopStore \/ \E c \in Process : Crash(c)
  BY <1>6 DEF NetTick, Tick, StopRelay, StopStore, Crash, vars
<1>7. CASE RestartGuardian \/ RebootGuardian
  BY <1>7 DEF RestartGuardian, RebootGuardian
<1> QED
  BY <1>2, <1>3, <1>4, <1>5, <1>6, <1>7 DEF NetNext

\* Every guardian's entry goes through the states of one GuardianMachine of gp-core,
\* although the server makes a machine anew for every request; only a process that
\* restarts after a failed write goes back, to what its file has.
THEOREM GuardianMachineTheorem == NetSpec => GuardianFollowsMachine
<1>1. NetInit => \A g \in Guardian : GuardianMachineOf(g)!Init
  <2> SUFFICES ASSUME NetInit, NEW g \in Guardian PROVE GuardianMachineOf(g)!Init
    OBVIOUS
  <2>1. entry[g] = NewEntry
    BY RunsAssumption DEF NetInit, Init, Honest
  <2> QED
    BY <2>1 DEF GuardianMachineOf!Init, GuardianMachineOf!RequestId, NewEntry, RequestId
<1>2. IInv /\ ProcsOK /\ [NetNext]_netvars
      => [\A g \in Guardian :
            ~Reread(g) =>
              [GuardianMachineOf(g)!Next]_(GuardianMachineOf(g)!vars)]_netvars
  <2> SUFFICES ASSUME IInv, ProcsOK, NetNext, NEW g \in Guardian, ~Reread(g)
               PROVE  [GuardianMachineOf(g)!Next]_(GuardianMachineOf(g)!vars)
    OBVIOUS
  <2>1. Honest = Guardian /\ TypeOK /\ EntryOK(entry[g]) /\ ClocksOK
    BY RunsAssumption DEF Honest, IInv, EntriesOK
  <2>2. ASSUME entry'[g] = entry[g] PROVE UNCHANGED GuardianMachineOf(g)!vars
    BY <2>2 DEF GuardianMachineOf!vars
  <2>3. ASSUME NEW h \in Guardian, Restart(h) \/ Reboot(h) PROVE entry'[g] = entry[g]
    BY <2>1, <2>3 DEF Restart, Reboot, TypeOK, Reread
  <2>4. ASSUME NEW h \in Guardian, NEW q \in Request, Handled(h, q), h # g
        PROVE  entry'[g] = entry[g]
    BY <2>1, <2>4 DEF Handled, GuardianBegin, GuardianCancel, ReleaseRefused, GuardianRelease,
                      Save, SaveFails, TypeOK
  <2>5. ASSUME NEW q \in Request, Handled(g, q)
        PROVE  entry'[g] = entry[g] \/ GuardianMachineOf(g)!Next
    <3>1. CASE ReleaseRefused(g, q)
      BY <2>1, <3>1 DEF ReleaseRefused, Save, SaveFails, TypeOK
    <3> QED
      BY <2>1, <2>5, <3>1, BeginIsMachineStep, CancelIsMachineStep, ReleaseIsMachineStep
         DEF Handled, GuardianMachineOf!Next
  <2> QED
    BY <2>2, <2>3, <2>4, <2>5, StepsOfEntries
<1> QED
  BY <1>1, <1>2, TypesInvariant, PTL DEF NetSpec, GuardianFollowsMachine

=============================================================================
