------------------------- MODULE EpochRecoveryProofs -------------------------
(***************************************************************************)
(* Theorems about EpochRecovery, for any rosters, thresholds, relays and     *)
(* requests, any number of rotations and any number of lost messages.        *)
(***************************************************************************)
EXTENDS EpochRecovery, CallsProofs

-----------------------------------------------------------------------------
(* The inductive invariant *)

SignersProvided == \A s \in Signer : signer[s] # None
GuardiansProvided(e) == \A g \in roster[e] : guardian[g] # None

\* setup_v3 provisions one kind of actor after the other, and nothing else happens
\* before it has written the card.
SetupOK ==
  LET p == proc[Setup]
  IN /\ p.pc \in {"Signers", "Guardians", "Witnesses", "Card", "Ok", "Failed"}
     /\ p.pc = "Signers" => Ongoing(p, Signer) /\ \A s \in p.got : signer[s] # None
     /\ p.pc \in {"Guardians", "Witnesses", "Card", "Ok"} => SignersProvided
     /\ p.pc = "Guardians" => Ongoing(p, roster[1]) /\ \A g \in p.got : guardian[g] # None
     /\ p.pc \in {"Witnesses", "Card", "Ok"} => GuardiansProvided(1)
     /\ p.pc = "Witnesses" => Ongoing(p, Witness)
     /\ card <=> p.pc = "Ok"
     /\ ~card => /\ latest = 1
                 /\ \A q \in Request : proc[Client(q)].pc = "Idle"
                 /\ \A g \in Guardian : guardian[g] \in {None, NewGuardian(1)}

\* The client of q works on an epoch that was the latest one, calls the signers and
\* the guardians of that epoch, and has contributions of guardians that have begun q.
ClientOK(q) ==
  LET p == proc[Client(q)]
  IN /\ p.pc \in {"Idle", "Approve", "Begin", "Sleep", "Sleeping", "ReleaseVotes", "Release",
                  "Ok", "Failed"}
     /\ p.pc # "Idle" => config_ref[q] \in Epoch /\ config_ref[q] <= latest
     /\ p.pc \in {"Approve", "ReleaseVotes"} => Ongoing(p, Signer)
     /\ p.pc \in {"Begin", "Release"} => Ongoing(p, roster[config_ref[q]])
     /\ p.pc = "Release" => p.got \subseteq Accepting(q)
     /\ q \in recovered => /\ p.pc # "Idle"
                           /\ Cardinality(Accepting(q)) >= guardian_threshold

\* The epoch that the client of q has read was superseded after that, if at all.
ReadOK(q) ==
  config_ref[q] # None =>
    /\ issued_at[q] \in Nat /\ issued_at[q] <= now
    /\ superseded_at[config_ref[q]] # None => issued_at[q] <= superseded_at[config_ref[q]]

EpochsOK ==
  /\ \A e \in Epoch : superseded_at[e] # None => e < latest
  /\ card => \A e \in Epoch : e <= latest => GuardiansProvided(e)

\* A guardian of the first epoch has drained every epoch before its active one, is at
\* most one rotation behind, and has no active epoch once it has been replaced.
MachineOK(g) ==
  guardian[g] # None =>
    IF guardian[g].active = None
    THEN /\ g \notin roster[latest]
         /\ \E n \in Nat : guardian[g].draining = 1..n
    ELSE /\ guardian[g].draining = 1..(guardian[g].active - 1)
         /\ guardian[g].active <= latest
         /\ g \in roster[latest] => guardian[g].active \in {latest - 1, latest}

\* A guardian releases only what it has begun.
ReleasedOK(g) ==
  guardian[g] # None => \A q \in guardian[g].released : guardian[g].pending[q] # None

IInv ==
  /\ TypeOK
  /\ SetupOK
  /\ \A q \in Request : ClientOK(q) /\ ReadOK(q)
  /\ EpochsOK
  /\ \A g \in roster[1] : MachineOK(g) /\ ReleasedOK(g)

-----------------------------------------------------------------------------
(* Facts about the constants *)

\* Epochs are numbered from 1, and everybody that is called is numbered.
LEMMA ConstantFacts ==
  /\ 1 \in Epoch /\ Epoch \subseteq Nat \ {0}
  /\ \A e \in Epoch : 1..e \subseteq Epoch
  /\ Signer \in SUBSET Nat /\ Signer # {}
  /\ Witness \in SUBSET Nat /\ Witness # {}
  /\ \A e \in Epoch : /\ roster[e] \in SUBSET Nat /\ roster[e] # {}
                      /\ roster[e] \subseteq Guardian
  /\ Guardian \subseteq Nat
  /\ None \notin Epoch
<1>1. /\ Cardinality(Epoch) \in Nat /\ Epoch # {} /\ Epoch = 1..Cardinality(Epoch)
  BY EpochRecoveryAssumption, FS_CardinalityType
<1> DEFINE n == Cardinality(Epoch)
<1>2. Epoch = 1..n /\ n \in Nat /\ Epoch # {}
  BY <1>1
<1> HIDE DEF n
<1>3. 1 \in Epoch /\ Epoch \subseteq Nat \ {0} /\ \A e \in Epoch : 1..e \subseteq Epoch
  BY <1>2
<1>4. ASSUME NEW S, IsFiniteSet(S), NEW k \in 1..Cardinality(S) PROVE S # {}
  BY <1>4, FS_EmptySet, FS_CardinalityType
<1>5. Signer # {}
  BY <1>4, EpochRecoveryAssumption
<1>6. ASSUME NEW e \in Epoch PROVE roster[e] # {}
  <2>1. IsFiniteSet(roster[e]) /\ guardian_threshold \in 2..Cardinality(roster[e])
    BY EpochRecoveryAssumption
  <2>2. Cardinality(roster[e]) \in Nat
    BY <2>1, FS_CardinalityType
  <2>3. guardian_threshold \in 1..Cardinality(roster[e])
    BY <2>1, <2>2
  <2> QED
    BY <1>4, <2>1, <2>3
<1>7. \A e \in Epoch : roster[e] \in SUBSET Nat /\ roster[e] \subseteq Guardian
  BY EpochRecoveryAssumption DEF Guardian
<1>8. Guardian \subseteq Nat
  BY <1>7 DEF Guardian
<1> QED
  BY <1>3, <1>5, <1>6, <1>7, <1>8, EpochRecoveryAssumption

\* There are finitely many guardians.
LEMMA GuardianFinite == IsFiniteSet(Guardian)
<1>1. IsFiniteSet(Epoch) /\ \A e \in Epoch : IsFiniteSet(roster[e])
  BY EpochRecoveryAssumption
<1>2. IsFiniteSet({roster[e] : e \in Epoch})
  <2> DEFINE f == [e \in Epoch |-> roster[e]]
  <2>1. f \in Surjection(Epoch, {roster[e] : e \in Epoch})
    BY DEF Surjection
  <2> HIDE DEF f
  <2> QED
    BY <1>1, <2>1, FS_Surjection
<1>3. \A S \in {roster[e] : e \in Epoch} : IsFiniteSet(S)
  BY <1>1
<1> QED
  BY <1>2, <1>3, FS_UNION DEF Guardian

\* The commands are told apart.
LEMMA ProcessFacts ==
  /\ Setup \in Process
  /\ \A q \in Request : Client(q) \in Process /\ Setup # Client(q)
  /\ \A q, r \in Request : Client(q) = Client(r) => q = r
  BY DEF Process, Setup, Client

-----------------------------------------------------------------------------
(* Calls *)

\* A member of Proc has the fields of a process.
LEMMA ProcFields ==
  ASSUME NEW p \in Proc
  PROVE  /\ IsProcess(p) /\ p.tries \in Nat
         /\ p.called \subseteq Nat /\ p.got \subseteq Nat /\ p.acked \subseteq Nat
  BY DEF Proc, IsProcess

\* A record that differs from a process in the fields of calls is one.
LEMMA SameOwnerProc ==
  ASSUME NEW p \in Proc, NEW r, SameOwner(p, r), r.pc \in Stages \cup Ended,
         r.called \subseteq Nat, r.got \subseteq Nat, r.acked \subseteq Nat, r.tries \in Nat
  PROVE  r \in Proc
<1>1. DOMAIN r = {"pc", "called", "got", "acked", "tries"}
  BY DEF SameOwner, Proc
<1>2. r = [f \in DOMAIN r |-> r[f]]
  BY DEF SameOwner, IsProcess
<1>3. r = [pc |-> r.pc, called |-> r.called, got |-> r.got, acked |-> r.acked,
           tries |-> r.tries]
  BY <1>1, <1>2
<1> QED
  BY <1>3 DEF Proc

\* A command that enters a stage has called nobody.
LEMMA Entered ==
  ASSUME NEW p \in Proc, NEW pc \in Stages \cup Ended
  PROVE  /\ Enter(p, pc) \in Proc /\ Enter(p, pc).pc = pc /\ Enter(p, pc).got = {}
         /\ \A T : T # {} => Ongoing(Enter(p, pc), T)
<1> DEFINE r == Enter(p, pc)
<1>1. Updated(p, r, pc, {}, {}, p.got, 0)
  BY ProcFields, EnterFields
<1>2. r \in Proc
  BY <1>1, ProcFields, SameOwnerProc DEF Updated, SameOwner
<1>3. \A T : T # {} => Ongoing(r, T)
  BY <1>1 DEF Updated, Ongoing
<1> QED
  BY <1>1, <1>2, <1>3 DEF Updated

\* So has one that starts.
LEMMA Started ==
  ASSUME NEW pc \in Stages \cup Ended
  PROVE  /\ At(pc) \in Proc /\ At(pc).pc = pc /\ At(pc).got = {}
         /\ \A T : T # {} => Ongoing(At(pc), T)
  BY DEF At, Proc, Ongoing

LossStep == losses' = losses \/ (losses < MaxLosses /\ losses' = losses + 1)

\* c has gone through a call in its stage st, after which G have answered.
CallMade(c, st, G) ==
  /\ LossStep
  /\ \E r \in Proc : /\ proc' = [proc EXCEPT ![c] = r]
                     /\ \/ r.pc = proc[c].pc /\ Ongoing(r, st.targets) /\ r.got = G
                        \/ /\ r.pc = st.next /\ Cardinality(G) >= st.need
                           /\ \A T : T # {} => Ongoing(r, T)
                           /\ r.got = {}
                        \/ r.pc = "Failed"

\* c may call x in stage st.
MayCall(c, x, st) ==
  /\ st.targets \in SUBSET Nat
  /\ Ongoing(proc[c], st.targets)
  /\ x \in Turn(proc[c], proc[c].pc, st.targets)
  /\ st.next \in Stages \cup Ended
  /\ st.otherwise = "Failed"

\* What the three ways to end a call do to the commands.
LEMMA CallsMade ==
  ASSUME TypeOK, NEW c \in Process, NEW st, NEW x, MayCall(c, x, st)
  PROVE  /\ x \in st.targets /\ x \in Nat
         /\ proc[c].got \in SUBSET Nat /\ proc[c].got \cup {x} \in SUBSET Nat
         /\ Reply(c, x, st) => CallMade(c, st, proc[c].got \cup {x})
         /\ Refusal(c, x, st) \/ Lost(c, x, st) => CallMade(c, st, proc[c].got)
<1> DEFINE p == proc[c]
<1>1. /\ p \in Proc /\ IsProcess(p) /\ p.tries \in Nat /\ p.got \subseteq Nat
      /\ p.acked \subseteq Nat /\ p.pc \in Stages \cup Ended
  BY ProcFields DEF TypeOK, Proc
<1>2. x \in st.targets /\ x \in Nat
  BY TurnIsTarget DEF MayCall
<1>3. /\ Outcome(p, Answered(p, x, st), p.got \cup {x}, st)
      /\ Outcome(p, Missed(p, x, st), p.got, st)
  BY <1>1, <1>2, CallOutcome DEF MayCall
<1>4. ASSUME NEW r, NEW G \in SUBSET Nat, Outcome(p, r, G, st), proc' = [proc EXCEPT ![c] = r],
             LossStep
      PROVE  CallMade(c, st, G)
  <2>1. r \in Proc
    BY <1>1, <1>4, SameOwnerProc DEF Outcome, Ongoing, Ended, MayCall
  <2>2. \/ r.pc = p.pc /\ Ongoing(r, st.targets) /\ r.got = G
        \/ r.pc = st.next /\ r.called = {} /\ r.got = {} /\ Cardinality(G) >= st.need
        \/ r.pc = "Failed"
    BY <1>4 DEF Outcome, MayCall
  <2>3. r.called = {} /\ r.got = {} => \A T : T # {} => Ongoing(r, T)
    BY DEF Ongoing
  <2> HIDE DEF p
  <2> QED
    BY <1>4, <2>1, <2>2, <2>3 DEF CallMade, p
<1>5. p.got \in SUBSET Nat /\ p.got \cup {x} \in SUBSET Nat
  BY <1>1, <1>2
<1>6. Reply(c, x, st) => CallMade(c, st, p.got \cup {x})
  BY <1>3, <1>4, <1>5 DEF Reply, LossStep
<1>7. Refusal(c, x, st) \/ Lost(c, x, st) => CallMade(c, st, p.got)
  BY <1>3, <1>4, <1>5 DEF Refusal, Lost, LossStep
<1> QED
  BY <1>2, <1>5, <1>6, <1>7

\* c has gone through a call of x, which has answered or not; f is what x's kind of
\* actor keeps, and after what x has when its handler has run.
Handled(c, x, st, may, f, fNext, after) ==
  /\ x \in st.targets
  /\ \E G \in SUBSET Nat :
       /\ CallMade(c, st, G)
       /\ \/ may /\ fNext = [f EXCEPT ![x] = after] /\ G \subseteq proc[c].got \cup {x}
          \/ fNext = f /\ G \subseteq proc[c].got

\* A call of a signer.
LEMMA SignerCallStep ==
  ASSUME TypeOK, NEW c \in Process, NEW st, NEW s, MayCall(c, s, st),
         NEW may \in BOOLEAN, NEW after, SignerCall(c, s, st, may, after)
  PROVE  /\ Handled(c, s, st, may, signer, signer', after)
         /\ UNCHANGED <<now, card, latest, superseded_at, clientvars, guardian, recovered>>
<1>1. /\ s \in st.targets
      /\ proc[c].got \in SUBSET Nat /\ proc[c].got \cup {s} \in SUBSET Nat
      /\ Reply(c, s, st) => CallMade(c, st, proc[c].got \cup {s})
      /\ Refusal(c, s, st) \/ Lost(c, s, st) => CallMade(c, st, proc[c].got)
  BY CallsMade
<1>2. \/ may /\ signer' = [signer EXCEPT ![s] = after] /\ (Reply(c, s, st) \/ Lost(c, s, st))
      \/ (Refusal(c, s, st) \/ Lost(c, s, st)) /\ UNCHANGED signer
  BY DEF SignerCall, Call
<1>3. UNCHANGED <<now, card, latest, superseded_at, clientvars, guardian, recovered>>
  BY DEF SignerCall
<1> QED
  BY <1>1, <1>2, <1>3 DEF Handled

\* A call of a guardian.
LEMMA GuardianCallStep ==
  ASSUME TypeOK, NEW c \in Process, NEW st, NEW g, MayCall(c, g, st),
         NEW may \in BOOLEAN, NEW after, GuardianCall(c, g, st, may, after)
  PROVE  /\ Handled(c, g, st, may, guardian, guardian', after)
         /\ UNCHANGED <<now, card, latest, superseded_at, clientvars, signer>>
<1>1. /\ g \in st.targets
      /\ proc[c].got \in SUBSET Nat /\ proc[c].got \cup {g} \in SUBSET Nat
      /\ Reply(c, g, st) => CallMade(c, st, proc[c].got \cup {g})
      /\ Refusal(c, g, st) \/ Lost(c, g, st) => CallMade(c, st, proc[c].got)
  BY CallsMade
<1>2. \/ may /\ guardian' = [guardian EXCEPT ![g] = after] /\ (Reply(c, g, st) \/ Lost(c, g, st))
      \/ (Refusal(c, g, st) \/ Lost(c, g, st)) /\ UNCHANGED guardian
  BY DEF GuardianCall, Call
<1>3. UNCHANGED <<now, card, latest, superseded_at, clientvars, signer>>
  BY DEF GuardianCall
<1> QED
  BY <1>1, <1>2, <1>3 DEF Handled

-----------------------------------------------------------------------------
(* The steps of the commands that call somebody *)

\* The stages of setup_v3.
LEMMA SetupSteps ==
  ASSUME IInv
  PROVE  /\ ProvisionSigners =>
              /\ proc[Setup].pc = "Signers" /\ ~card
              /\ \E s \in Signer :
                   Handled(Setup, s, All(Signer, 1, "Guardians"), TRUE, signer, signer',
                           [active_capsule |-> 1, recovery_requests |-> {}])
              /\ UNCHANGED <<now, card, latest, superseded_at, clientvars, guardian, recovered>>
         /\ ProvisionGuardians =>
              /\ proc[Setup].pc = "Guardians" /\ ~card
              /\ \E g \in roster[1] :
                   Handled(Setup, g, All(roster[1], 1, "Witnesses"), TRUE, guardian, guardian',
                           NewGuardian(1))
              /\ UNCHANGED <<now, card, latest, superseded_at, clientvars, signer, recovered>>
         /\ ProvisionWitnesses =>
              /\ proc[Setup].pc = "Witnesses" /\ ~card
              /\ \E G \in SUBSET Nat : CallMade(Setup, All(Witness, 1, "Card"), G)
              /\ UNCHANGED <<now, card, latest, superseded_at, clientvars, signer, guardian,
                             recovered>>
<1>0. /\ TypeOK /\ SetupOK /\ Setup \in Process /\ 1 \in Epoch
      /\ \A T : All(T, 1, "Guardians").targets = T
      /\ \A T : All(T, 1, "Witnesses").targets = T
      /\ \A T : All(T, 1, "Card").targets = T
  BY ProcessFacts, ConstantFacts DEF IInv, All, Stage
<1>1. ASSUME ProvisionSigners
      PROVE  /\ proc[Setup].pc = "Signers" /\ ~card
             /\ \E s \in Signer :
                  Handled(Setup, s, All(Signer, 1, "Guardians"), TRUE, signer, signer',
                          [active_capsule |-> 1, recovery_requests |-> {}])
             /\ UNCHANGED <<now, card, latest, superseded_at, clientvars, guardian, recovered>>
  <2> DEFINE st == All(Signer, 1, "Guardians")
             after == [active_capsule |-> 1, recovery_requests |-> {}]
  <2>1. PICK s \in Turn(proc[Setup], "Signers", Signer) :
               SignerCall(Setup, s, st, TRUE, after)
    BY <1>1 DEF ProvisionSigners
  <2>2. proc[Setup].pc = "Signers"
    BY DEF Turn
  <2>3. MayCall(Setup, s, st)
    BY <1>0, <2>2, ConstantFacts DEF MayCall, SetupOK, All, Stage, Stages
  <2>4. st.targets = Signer /\ TRUE \in BOOLEAN
    BY <1>0
  <2> HIDE DEF st, after
  <2>5. /\ Handled(Setup, s, st, TRUE, signer, signer', after)
        /\ UNCHANGED <<now, card, latest, superseded_at, clientvars, guardian, recovered>>
    BY <1>0, <2>1, <2>3, <2>4, SignerCallStep
  <2>6. s \in Signer
    BY <2>4, <2>5 DEF Handled
  <2> QED
    BY <1>0, <2>2, <2>5, <2>6 DEF SetupOK, st, after
<1>2. ASSUME ProvisionGuardians
      PROVE  /\ proc[Setup].pc = "Guardians" /\ ~card
             /\ \E g \in roster[1] :
                  Handled(Setup, g, All(roster[1], 1, "Witnesses"), TRUE, guardian, guardian',
                          NewGuardian(1))
             /\ UNCHANGED <<now, card, latest, superseded_at, clientvars, signer, recovered>>
  <2> DEFINE st == All(roster[1], 1, "Witnesses")
             after == NewGuardian(1)
  <2>1. PICK g \in Turn(proc[Setup], "Guardians", roster[1]) :
               GuardianCall(Setup, g, st, TRUE, after)
    BY <1>2 DEF ProvisionGuardians
  <2>2. proc[Setup].pc = "Guardians"
    BY DEF Turn
  <2>3. MayCall(Setup, g, st)
    BY <1>0, <2>2, ConstantFacts DEF MayCall, SetupOK, All, Stage, Stages
  <2>4. st.targets = roster[1] /\ TRUE \in BOOLEAN
    BY <1>0
  <2> HIDE DEF st, after
  <2>5. /\ Handled(Setup, g, st, TRUE, guardian, guardian', after)
        /\ UNCHANGED <<now, card, latest, superseded_at, clientvars, signer>>
    BY <1>0, <2>1, <2>3, <2>4, GuardianCallStep
  <2>6. g \in roster[1]
    BY <2>4, <2>5 DEF Handled
  <2> QED
    BY <1>0, <1>2, <2>2, <2>5, <2>6 DEF SetupOK, ProvisionGuardians, st, after
<1>3. ASSUME ProvisionWitnesses
      PROVE  /\ proc[Setup].pc = "Witnesses" /\ ~card
             /\ \E G \in SUBSET Nat : CallMade(Setup, All(Witness, 1, "Card"), G)
             /\ UNCHANGED <<now, card, latest, superseded_at, clientvars, signer, guardian,
                            recovered>>
  <2> DEFINE st == All(Witness, 1, "Card")
  <2>1. PICK w \in Turn(proc[Setup], "Witnesses", Witness) :
               Reply(Setup, w, st) \/ Lost(Setup, w, st)
    BY <1>3 DEF ProvisionWitnesses
  <2>2. proc[Setup].pc = "Witnesses"
    BY DEF Turn
  <2>3. MayCall(Setup, w, st)
    BY <1>0, <2>2, ConstantFacts DEF MayCall, SetupOK, All, Stage, Stages
  <2> HIDE DEF st
  <2>4. \E G \in SUBSET Nat : CallMade(Setup, st, G)
    BY <1>0, <2>1, <2>3, CallsMade
  <2> QED
    BY <1>0, <1>3, <2>2, <2>4 DEF SetupOK, ProvisionWitnesses, st
<1> QED
  BY <1>1, <1>2, <1>3

Begins(q) == Stage(roster[config_ref[q]], "try", guardian_threshold, relay_count, "Sleep")
Releases(q) == Stage(roster[config_ref[q]], "enough", guardian_threshold, relay_count, "Ok")

\* The stages of recover_v3 in which it calls signers.
LEMMA SignerSteps ==
  ASSUME IInv, NEW q \in Request
  PROVE  /\ Approve(q) =>
              /\ proc[Client(q)].pc = "Approve"
              /\ \E s \in Signer :
                   Handled(Client(q), s, Votes("Begin"), FreshRead(q), signer, signer',
                           [active_capsule |-> config_ref[q],
                            recovery_requests |-> signer[s].recovery_requests \cup {q}])
              /\ UNCHANGED <<now, card, latest, superseded_at, clientvars, guardian, recovered>>
         /\ CollectReleaseVotes(q) =>
              /\ proc[Client(q)].pc = "ReleaseVotes"
              /\ \E s \in Signer :
                   Handled(Client(q), s, Votes("Release"), MayVote(s, q), signer, signer', signer[s])
              /\ UNCHANGED <<now, card, latest, superseded_at, clientvars, guardian, recovered>>
<1> DEFINE c == Client(q)
<1>0. /\ TypeOK /\ ClientOK(q) /\ c \in Process
      /\ \A next : Votes(next).targets = Signer
  BY ProcessFacts DEF IInv, Votes, Stage
<1>1. ASSUME NEW pc \in {"Approve", "ReleaseVotes"}, NEW next \in {"Begin", "Release"},
             NEW s \in Turn(proc[c], pc, Signer), NEW may \in BOOLEAN, NEW after,
             SignerCall(c, s, Votes(next), may, after)
      PROVE  /\ proc[c].pc = pc /\ s \in Signer
             /\ Handled(c, s, Votes(next), may, signer, signer', after)
             /\ UNCHANGED <<now, card, latest, superseded_at, clientvars, guardian, recovered>>
  <2>2. proc[c].pc = pc
    BY DEF Turn
  <2>3. MayCall(c, s, Votes(next))
    BY <1>0, <2>2, ConstantFacts DEF MayCall, ClientOK, Votes, Stage, Stages
  <2>5. /\ Handled(c, s, Votes(next), may, signer, signer', after)
        /\ UNCHANGED <<now, card, latest, superseded_at, clientvars, guardian, recovered>>
    BY <1>0, <1>1, <2>3, SignerCallStep
  <2> QED
    BY <1>0, <2>2, <2>5 DEF Handled
<1>2. ASSUME Approve(q)
      PROVE  /\ proc[c].pc = "Approve"
             /\ \E s \in Signer :
                  Handled(c, s, Votes("Begin"), FreshRead(q), signer, signer',
                          [active_capsule |-> config_ref[q],
                           recovery_requests |-> signer[s].recovery_requests \cup {q}])
             /\ UNCHANGED <<now, card, latest, superseded_at, clientvars, guardian, recovered>>
  <2>1. PICK s \in Turn(proc[c], "Approve", Signer) :
          SignerCall(c, s, Votes("Begin"), FreshRead(q),
                     [active_capsule |-> config_ref[q],
                      recovery_requests |-> signer[s].recovery_requests \cup {q}])
    BY <1>2 DEF Approve
  <2>2. FreshRead(q) \in BOOLEAN
    BY DEF FreshRead
  <2> HIDE DEF c
  <2> QED
    BY <1>1, <2>1, <2>2
<1>3. ASSUME CollectReleaseVotes(q)
      PROVE  /\ proc[c].pc = "ReleaseVotes"
             /\ \E s \in Signer :
                  Handled(c, s, Votes("Release"), MayVote(s, q), signer, signer', signer[s])
             /\ UNCHANGED <<now, card, latest, superseded_at, clientvars, guardian, recovered>>
  <2>1. PICK s \in Turn(proc[c], "ReleaseVotes", Signer) :
          SignerCall(c, s, Votes("Release"), MayVote(s, q), signer[s])
    BY <1>3 DEF CollectReleaseVotes
  <2>2. MayVote(s, q) \in BOOLEAN
    BY DEF MayVote
  <2> HIDE DEF c
  <2> QED
    BY <1>1, <2>1, <2>2
<1> QED
  BY <1>2, <1>3

\* The stages of recover_v3 in which it calls guardians.
LEMMA GuardianSteps ==
  ASSUME IInv, NEW q \in Request
  PROVE  /\ Begin(q) =>
              /\ proc[Client(q)].pc = "Begin"
              /\ \E g \in roster[config_ref[q]] :
                   Handled(Client(q), g, Begins(q), MayBegin(guardian[g], q), guardian, guardian',
                           Begun(guardian[g], q))
              /\ UNCHANGED <<now, card, latest, superseded_at, clientvars, signer, recovered>>
         /\ Release(q) =>
              /\ proc[Client(q)].pc = "Release"
              /\ \E g \in roster[config_ref[q]] :
                   Handled(Client(q), g, Releases(q), MayRelease(guardian[g], q), guardian,
                           guardian', Released(guardian[g], q))
              /\ recovered' = IF proc'[Client(q)].pc = "Ok" THEN recovered \cup {q} ELSE recovered
              /\ UNCHANGED <<now, card, latest, superseded_at, clientvars, signer>>
<1> DEFINE c == Client(q)
           T == roster[config_ref[q]]
<1>0. /\ TypeOK /\ ClientOK(q) /\ c \in Process
      /\ Begins(q).targets = T /\ Releases(q).targets = T
      /\ \A g : MayBegin(guardian[g], q) \in BOOLEAN /\ MayRelease(guardian[g], q) \in BOOLEAN
  BY ProcessFacts DEF IInv, Begins, Releases, Stage, MayBegin, MayRelease,
                      validate_recovery_request_v3
<1>1. ASSUME NEW pc \in {"Begin", "Release"}, NEW st \in {Begins(q), Releases(q)},
             NEW g \in Turn(proc[c], pc, T), NEW may \in BOOLEAN, NEW after,
             GuardianCall(c, g, st, may, after)
      PROVE  /\ proc[c].pc = pc /\ g \in T
             /\ Handled(c, g, st, may, guardian, guardian', after)
             /\ UNCHANGED <<now, card, latest, superseded_at, clientvars, signer>>
  <2>2. proc[c].pc = pc
    BY DEF Turn
  <2>3. MayCall(c, g, st)
    <3>1. T \in SUBSET Nat /\ Ongoing(proc[c], T)
      BY <1>0, <2>2, ConstantFacts DEF ClientOK
    <3>2. st.next \in Stages \cup Ended /\ st.otherwise = "Failed" /\ st.targets = T
      BY <1>0 DEF Begins, Releases, Stage, Stages, Ended
    <3> QED
      BY <2>2, <3>1, <3>2 DEF MayCall
  <2>5. /\ Handled(c, g, st, may, guardian, guardian', after)
        /\ UNCHANGED <<now, card, latest, superseded_at, clientvars, signer>>
    BY <1>0, <1>1, <2>3, GuardianCallStep
  <2> QED
    BY <1>0, <2>2, <2>5 DEF Handled
<1>2. ASSUME Begin(q)
      PROVE  /\ proc[c].pc = "Begin"
             /\ \E g \in T : Handled(c, g, Begins(q), MayBegin(guardian[g], q), guardian, guardian',
                                     Begun(guardian[g], q))
             /\ UNCHANGED <<now, card, latest, superseded_at, clientvars, signer, recovered>>
  <2>1. PICK g \in Turn(proc[c], "Begin", T) :
          GuardianCall(c, g, Begins(q), MayBegin(guardian[g], q), Begun(guardian[g], q))
    BY <1>2 DEF Begin, Begins
  <2>2. UNCHANGED recovered
    BY <1>2 DEF Begin
  <2> HIDE DEF c, T
  <2> QED
    BY <1>0, <1>1, <2>1, <2>2
<1>3. ASSUME Release(q)
      PROVE  /\ proc[c].pc = "Release"
             /\ \E g \in T : Handled(c, g, Releases(q), MayRelease(guardian[g], q), guardian,
                                     guardian', Released(guardian[g], q))
             /\ recovered' = IF proc'[c].pc = "Ok" THEN recovered \cup {q} ELSE recovered
             /\ UNCHANGED <<now, card, latest, superseded_at, clientvars, signer>>
  <2>1. PICK g \in Turn(proc[c], "Release", T) :
          GuardianCall(c, g, Releases(q), MayRelease(guardian[g], q), Released(guardian[g], q))
    BY <1>3 DEF Release, Releases
  <2>2. recovered' = IF proc'[c].pc = "Ok" THEN recovered \cup {q} ELSE recovered
    BY <1>3 DEF Release
  <2> HIDE DEF c, T
  <2> QED
    BY <1>0, <1>1, <2>1, <2>2
<1> QED
  BY <1>2, <1>3

-----------------------------------------------------------------------------
(* What the handlers do to a guardian's entry *)

\* An entry by its fields.
LEMMA EntryFields ==
  ASSUME NEW e \in GuardianEntry
  PROVE  /\ e = [active |-> e.active, draining |-> e.draining,
                 pending_request_ids |-> e.pending_request_ids, pending |-> e.pending,
                 released |-> e.released]
         /\ e.active \in Epoch \cup {None} /\ e.draining \subseteq Epoch
         /\ e.pending_request_ids \subseteq Request
         /\ e.pending \in [Request -> Nat \cup {None}] /\ e.released \subseteq Request
         /\ e # None
  BY EntryAssumption DEF GuardianEntry

\* A new entry.
LEMMA NewFacts ==
  ASSUME NEW a \in Epoch \cup {None}
  PROVE  NewGuardian(a) \in GuardianEntry /\ NewGuardian(a) # None
  BY EntryAssumption DEF NewGuardian, GuardianEntry

\* The first Begin starts the delay, a repeated one changes nothing.
LEMMA BegunFacts ==
  ASSUME NEW e \in GuardianEntry, NEW q \in Request, now \in Nat
  PROVE  /\ Begun(e, q) \in GuardianEntry /\ Begun(e, q) # None
         /\ Begun(e, q).active = e.active /\ Begun(e, q).draining = e.draining
         /\ Begun(e, q).released = e.released
         /\ e.pending[q] # None => Begun(e, q) = e
         /\ e.pending[q] = None =>
              Begun(e, q).pending = [e.pending EXCEPT ![q] = now + minimum_recovery_delay]
         /\ \A r \in Request : e.pending[r] # None => Begun(e, q).pending[r] # None
         /\ \A r \in Request : Begun(e, q).pending[r] # None => e.pending[r] # None \/ r = q
         /\ Begun(e, q).pending[q] # None
<1> DEFINE d == e.pending
           v == IF d[q] = None THEN now + minimum_recovery_delay ELSE d[q]
<1>1. Begun(e, q) = [active |-> e.active, draining |-> e.draining,
                     pending_request_ids |-> e.pending_request_ids,
                     pending |-> [d EXCEPT ![q] = v], released |-> e.released]
  BY DEF Begun, GuardianEntry
<1>2. minimum_recovery_delay \in Nat /\ None \notin Nat
  BY EpochRecoveryAssumption
<1>3. d \in [Request -> Nat \cup {None}]
  BY EntryFields
<1>4. v \in Nat /\ v # None
  BY <1>2, <1>3
<1>5. d[q] # None => [d EXCEPT ![q] = v] = d
  BY <1>3
<1>6. d[q] = None => v = now + minimum_recovery_delay
  OBVIOUS
<1> HIDE DEF v
<1>7. [d EXCEPT ![q] = v] \in [Request -> Nat \cup {None}]
  BY <1>3, <1>4
<1>8. /\ \A r \in Request : d[r] # None => [d EXCEPT ![q] = v][r] # None
      /\ \A r \in Request : [d EXCEPT ![q] = v][r] # None => d[r] # None \/ r = q
      /\ [d EXCEPT ![q] = v][q] # None
  BY <1>3, <1>4
<1> DEFINE n == [d EXCEPT ![q] = v]
<1> HIDE DEF n
<1>9. Begun(e, q) = [active |-> e.active, draining |-> e.draining,
                     pending_request_ids |-> e.pending_request_ids,
                     pending |-> n, released |-> e.released]
  BY <1>1 DEF n
<1>10. Begun(e, q) \in GuardianEntry
  BY <1>7, <1>9, EntryFields DEF GuardianEntry, n
<1>11. d[q] # None => Begun(e, q) = e
  BY <1>5, <1>9, EntryFields DEF n
<1>12. Begun(e, q).pending = n /\ Begun(e, q).active = e.active
       /\ Begun(e, q).draining = e.draining /\ Begun(e, q).released = e.released
  BY <1>9
<1> QED
  BY <1>6, <1>8, <1>10, <1>11, <1>12, EntryFields DEF n

\* A release is recorded; what is pending stays.
LEMMA ReleasedFacts ==
  ASSUME NEW e \in GuardianEntry, NEW q \in Request
  PROVE  /\ Released(e, q) \in GuardianEntry /\ Released(e, q) # None
         /\ Released(e, q).active = e.active /\ Released(e, q).draining = e.draining
         /\ Released(e, q).pending = e.pending
         /\ Released(e, q).released = e.released \cup {q}
<1>1. ASSUME NEW a, NEW b
      PROVE  [e EXCEPT !.released = a, !.pending_request_ids = b]
             = [active |-> e.active, draining |-> e.draining, pending_request_ids |-> b,
                pending |-> e.pending, released |-> a]
  <2>1. DOMAIN e = {"active", "draining", "pending_request_ids", "pending", "released"}
    BY DEF GuardianEntry
  <2> DEFINE n == [e EXCEPT !.released = a, !.pending_request_ids = b]
  <2>2. /\ n = [f \in DOMAIN e |-> n[f]]
        /\ n["active"] = e.active /\ n["draining"] = e.draining /\ n["pending"] = e.pending
        /\ n["pending_request_ids"] = b /\ n["released"] = a
    BY <2>1
  <2> HIDE DEF n
  <2>3. n = [active |-> e.active, draining |-> e.draining, pending_request_ids |-> b,
             pending |-> e.pending, released |-> a]
    BY <2>1, <2>2
  <2> QED
    BY <2>3 DEF n
<1>2. Released(e, q) = [active |-> e.active, draining |-> e.draining,
                        pending_request_ids |-> e.pending_request_ids \ {q},
                        pending |-> e.pending, released |-> e.released \cup {q}]
  <2>1. Released(e, q) = [e EXCEPT !.released = e.released \cup {q},
                                   !.pending_request_ids = e.pending_request_ids \ {q}]
    BY Zenon DEF Released
  <2> QED
    BY <1>1, <2>1, Zenon
<1>3. e.pending_request_ids \ {q} \subseteq Request /\ e.released \cup {q} \subseteq Request
  BY EntryFields
<1> QED
  BY <1>2, <1>3, EntryFields DEF GuardianEntry

\* An activation leaves what is pending and released, and drains the active epoch.
LEMMA ActivatedFacts ==
  ASSUME NEW e \in GuardianEntry, NEW a \in Epoch \cup {None}
  PROVE  /\ Activated(e, a) \in GuardianEntry /\ Activated(e, a) # None
         /\ Activated(e, a).active = a
         /\ Activated(e, a).draining = IF e.active = None THEN e.draining
                                       ELSE e.draining \cup {e.active}
         /\ Activated(e, a).pending = e.pending
         /\ Activated(e, a).released = e.released
<1> DEFINE old == pending_old_recovery_ids(e)
<1>1. old \subseteq Request
  BY DEF pending_old_recovery_ids
<1>2. CASE e.active = None
  <2>1. Activated(e, a) = [active |-> a, draining |-> e.draining,
                           pending_request_ids |-> e.pending_request_ids,
                           pending |-> e.pending, released |-> e.released]
    BY <1>2 DEF Activated, GuardianEntry
  <2> QED
    BY <1>2, <2>1, EntryFields DEF GuardianEntry
<1>3. CASE e.active # None
  <2>1. Activated(e, a) = [active |-> a, draining |-> e.draining \cup {e.active},
                           pending_request_ids |-> e.pending_request_ids \cup old,
                           pending |-> e.pending, released |-> e.released]
    BY <1>3 DEF Activated, GuardianEntry
  <2> HIDE DEF old
  <2> QED
    BY <1>1, <1>3, <2>1, EntryFields DEF GuardianEntry
<1> QED
  BY <1>2, <1>3

-----------------------------------------------------------------------------
(* Guardians and signers, step by step *)

\* Whom an activation reaches.
ActivateStep(g, a) ==
  /\ g \in Guardian /\ guardian[g] # None /\ card /\ latest > 1
  /\ \/ a = latest /\ g \in roster[latest] /\ guardian[g].active # latest
     \/ a = None /\ g \notin roster[latest] /\ guardian[g].active # None
  /\ guardian' = [guardian EXCEPT ![g] = Activated(guardian[g], a)]

\* The coordinator activates one guardian at a time.
LEMMA ActivateSteps ==
  ASSUME IInv, ActivateGuardian
  PROVE  \E g \in Guardian, a \in Epoch \cup {None} : ActivateStep(g, a)
<1> DEFINE successors == {g \in roster[latest] : guardian[g].active # latest}
           removed == {g \in Guardian \ roster[latest] :
                         guardian[g] # None /\ guardian[g].active # None}
<1>1. /\ latest > 1 /\ successors \cup removed # {}
      /\ guardian' = IF successors # {}
                     THEN [guardian EXCEPT ![First(successors)] = Activated(@, latest)]
                     ELSE [guardian EXCEPT ![First(removed)] = Activated(@, None)]
  BY DEF ActivateGuardian
<1>2. latest \in Epoch /\ card /\ GuardiansProvided(latest)
  <2>1. latest \in Epoch /\ latest \in Nat
    BY ConstantFacts DEF IInv, TypeOK
  <2>2. card
    BY <1>1, <2>1 DEF IInv, SetupOK
  <2> QED
    BY <2>1, <2>2 DEF IInv, EpochsOK
<1>3. successors \in SUBSET Nat /\ successors \subseteq Guardian
  BY <1>2, ConstantFacts
<1>4. removed \in SUBSET Nat /\ removed \subseteq Guardian
  BY <1>2, ConstantFacts
<1>5. CASE successors # {}
  <2>1. First(successors) \in successors
    BY <1>3, <1>5, FirstOfTargets
  <2> QED
    BY <1>1, <1>2, <1>3, <1>5, <2>1 DEF ActivateStep, GuardiansProvided
<1>6. CASE successors = {}
  <2>1. First(removed) \in removed
    BY <1>1, <1>4, <1>6, FirstOfTargets
  <2> QED
    BY <1>1, <1>2, <1>4, <1>6, <2>1 DEF ActivateStep
<1> QED
  BY <1>5, <1>6

ProvisionAt(g) ==
  /\ ~card /\ g \in roster[1]
  /\ guardian' = [guardian EXCEPT ![g] = NewGuardian(1)]
  /\ UNCHANGED latest

BeginAt(q, g) ==
  /\ proc[Client(q)].pc = "Begin"
  /\ g \in roster[config_ref[q]]
  /\ MayBegin(guardian[g], q)
  /\ guardian' = [guardian EXCEPT ![g] = Begun(guardian[g], q)]
  /\ UNCHANGED latest

ReleaseAt(q, g) ==
  /\ proc[Client(q)].pc = "Release"
  /\ g \in roster[config_ref[q]]
  /\ MayRelease(guardian[g], q)
  /\ guardian' = [guardian EXCEPT ![g] = Released(guardian[g], q)]
  /\ UNCHANGED latest

\* Every way in which a step changes what guardians keep.
LEMMA GuardianChanges ==
  ASSUME IInv, Next
  PROVE  \/ UNCHANGED <<guardian, latest>>
         \/ \E g \in Guardian : ProvisionAt(g)
         \/ FinalizeEpoch
         \/ \E g \in Guardian, a \in Epoch \cup {None} : ActivateStep(g, a) /\ UNCHANGED latest
         \/ \E q \in Request, g \in Guardian : BeginAt(q, g) \/ ReleaseAt(q, g)
<1>0. 1 \in Epoch /\ \A e \in Epoch : roster[e] \subseteq Guardian
  BY ConstantFacts
<1>1. CASE setup_v3
  <2>1. CASE ProvisionGuardians
    <3>1. PICK g \in roster[1] :
            Handled(Setup, g, All(roster[1], 1, "Witnesses"), TRUE, guardian, guardian',
                    NewGuardian(1))
      BY <2>1, SetupSteps
    <3>2. UNCHANGED latest /\ ~card /\ g \in Guardian
      BY <1>0, <2>1, SetupSteps
    <3> QED
      BY <3>1, <3>2 DEF Handled, ProvisionAt
  <2>2. CASE ProvisionSigners \/ ProvisionWitnesses \/ WriteCard
    BY <2>2, SetupSteps DEF WriteCard
  <2> QED
    BY <1>1, <2>1, <2>2 DEF setup_v3
<1>2. ASSUME NEW s \in Signer, CollectIntent(s) PROVE UNCHANGED <<guardian, latest>>
  BY <1>2 DEF CollectIntent
<1>3. CASE ActivateGuardian
  BY <1>3, ActivateSteps DEF ActivateGuardian
<1>4. ASSUME NEW q \in Request, read_latest_epoch_v3(q) \/ recover_v3(q)
      PROVE  \/ UNCHANGED <<guardian, latest>>
             \/ \E g \in Guardian : BeginAt(q, g) \/ ReleaseAt(q, g)
  <2>1. CASE Begin(q)
    <3>1. /\ proc[Client(q)].pc = "Begin" /\ UNCHANGED latest
          /\ \E g \in roster[config_ref[q]] :
               Handled(Client(q), g, Begins(q), MayBegin(guardian[g], q), guardian, guardian',
                       Begun(guardian[g], q))
      BY <2>1, GuardianSteps
    <3>2. config_ref[q] \in Epoch
      BY <3>1 DEF IInv, ClientOK
    <3> QED
      BY <1>0, <3>1, <3>2 DEF Handled, BeginAt
  <2>2. CASE Release(q)
    <3>1. /\ proc[Client(q)].pc = "Release" /\ UNCHANGED latest
          /\ \E g \in roster[config_ref[q]] :
               Handled(Client(q), g, Releases(q), MayRelease(guardian[g], q), guardian, guardian',
                       Released(guardian[g], q))
      BY <2>2, GuardianSteps
    <3>2. config_ref[q] \in Epoch
      BY <3>1 DEF IInv, ClientOK
    <3> QED
      BY <1>0, <3>1, <3>2 DEF Handled, ReleaseAt
  <2>3. CASE Approve(q) \/ CollectReleaseVotes(q)
    BY <2>3, SignerSteps
  <2>4. CASE read_latest_epoch_v3(q) \/ Sleep(q) \/ Wake(q)
    BY <2>4 DEF read_latest_epoch_v3, Sleep, Wake
  <2> QED
    BY <1>4, <2>1, <2>2, <2>3, <2>4 DEF recover_v3
<1>5. CASE Tick
  BY <1>5 DEF Tick
<1> QED
  BY <1>1, <1>2, <1>3, <1>4, <1>5 DEF Next

\* The guardian that a client calls has an entry.
LEMMA CalledHasEntry ==
  ASSUME IInv, NEW q \in Request, proc[Client(q)].pc \in {"Begin", "Release"},
         NEW g \in roster[config_ref[q]]
  PROVE  guardian[g] # None /\ guardian[g] \in GuardianEntry /\ config_ref[q] \in Epoch
<1>1. config_ref[q] \in Epoch /\ config_ref[q] <= latest
  BY DEF IInv, ClientOK
<1>2. card
  BY DEF IInv, SetupOK
<1>3. guardian[g] # None /\ g \in Guardian
  BY <1>1, <1>2, ConstantFacts DEF IInv, EpochsOK, GuardiansProvided
<1> QED
  BY <1>1, <1>3 DEF IInv, TypeOK

\* An entry stays, and so does a request that a guardian has begun; only the request's
\* own client makes a guardian of the epoch that it has read begin it.
LEMMA GuardiansGrow ==
  ASSUME IInv, Next
  PROVE  /\ guardian' \in [Guardian -> GuardianEntry \cup {None}]
         /\ \A g \in Guardian : guardian[g] # None => guardian'[g] # None
         /\ \A q \in Request : Accepting(q) \subseteq Accepting(q)'
         /\ \A q \in Request : \/ Accepting(q)' \subseteq Accepting(q)
                               \/ \E g \in Guardian : BeginAt(q, g)
<1>0. TypeOK /\ guardian \in [Guardian -> GuardianEntry \cup {None}] /\ now \in Nat
  BY DEF IInv, TypeOK
<1>1. ASSUME NEW h \in Guardian, NEW n \in GuardianEntry, n # None,
             guardian' = [guardian EXCEPT ![h] = n],
             guardian[h] # None => \A q \in Request : guardian[h].pending[q] # None =>
                                                        n.pending[q] # None
      PROVE  /\ guardian' \in [Guardian -> GuardianEntry \cup {None}]
             /\ \A g \in Guardian : guardian[g] # None => guardian'[g] # None
             /\ \A q \in Request : Accepting(q) \subseteq Accepting(q)'
             /\ \A q \in Request : (n.pending[q] # None =>
                                      guardian[h] # None /\ guardian[h].pending[q] # None)
                                   => Accepting(q)' \subseteq Accepting(q)
  <2>1. guardian' \in [Guardian -> GuardianEntry \cup {None}]
    BY <1>0, <1>1
  <2>2. \A g \in Guardian : guardian'[g] = IF g = h THEN n ELSE guardian[g]
    BY <1>0, <1>1
  <2> QED
    BY <1>1, <2>1, <2>2 DEF Accepting
<1>2. CASE UNCHANGED <<guardian, latest>>
  BY <1>0, <1>2 DEF Accepting
<1>3. ASSUME NEW h \in Guardian, ProvisionAt(h)
      PROVE  /\ guardian' \in [Guardian -> GuardianEntry \cup {None}]
             /\ \A g \in Guardian : guardian[g] # None => guardian'[g] # None
             /\ \A q \in Request : Accepting(q) \subseteq Accepting(q)'
             /\ \A q \in Request : Accepting(q)' \subseteq Accepting(q)
  <2>1. NewGuardian(1) \in GuardianEntry /\ NewGuardian(1) # None
    BY ConstantFacts, NewFacts
  <2>2. \A q \in Request : NewGuardian(1).pending[q] = None
    BY DEF NewGuardian
  <2>3. guardian[h] \in {None, NewGuardian(1)}
    BY <1>3 DEF ProvisionAt, IInv, SetupOK
  <2> QED
    BY <1>1, <1>3, <2>1, <2>2, <2>3 DEF ProvisionAt
<1>4. CASE FinalizeEpoch
  <2>1. /\ \A g \in Guardian : \/ guardian'[g] = guardian[g]
                               \/ guardian[g] = None /\ guardian'[g] = NewGuardian(None)
        /\ guardian' = [g \in Guardian |-> guardian'[g]]
    BY <1>4 DEF FinalizeEpoch
  <2>2. NewGuardian(None) \in GuardianEntry /\ NewGuardian(None) # None
    BY NewFacts
  <2>3. \A q \in Request : NewGuardian(None).pending[q] = None
    BY DEF NewGuardian
  <2>4. \A g \in Guardian : guardian'[g] \in GuardianEntry \cup {None}
    BY <1>0, <2>1, <2>2
  <2> QED
    BY <1>0, <2>1, <2>2, <2>3, <2>4 DEF Accepting
<1>5. ASSUME NEW h \in Guardian, NEW a \in Epoch \cup {None}, ActivateStep(h, a)
      PROVE  /\ guardian' \in [Guardian -> GuardianEntry \cup {None}]
             /\ \A g \in Guardian : guardian[g] # None => guardian'[g] # None
             /\ \A q \in Request : Accepting(q) \subseteq Accepting(q)'
             /\ \A q \in Request : Accepting(q)' \subseteq Accepting(q)
  <2>1. guardian[h] \in GuardianEntry /\ guardian[h] # None
        /\ guardian' = [guardian EXCEPT ![h] = Activated(guardian[h], a)]
    BY <1>0, <1>5 DEF ActivateStep
  <2> DEFINE n == Activated(guardian[h], a)
  <2>2. /\ n \in GuardianEntry /\ n # None
        /\ \A r \in Request : guardian[h].pending[r] # None <=> n.pending[r] # None
    BY <2>1, ActivatedFacts
  <2> HIDE DEF n
  <2>3. guardian' = [guardian EXCEPT ![h] = n]
    BY <2>1 DEF n
  <2> QED
    BY <1>1, <2>1, <2>2, <2>3
<1>6. ASSUME NEW q \in Request, NEW h \in Guardian, BeginAt(q, h)
      PROVE  /\ guardian' \in [Guardian -> GuardianEntry \cup {None}]
             /\ \A g \in Guardian : guardian[g] # None => guardian'[g] # None
             /\ \A r \in Request : Accepting(r) \subseteq Accepting(r)'
             /\ \A r \in Request : r # q => Accepting(r)' \subseteq Accepting(r)
  <2>1. guardian[h] \in GuardianEntry /\ guardian[h] # None
        /\ guardian' = [guardian EXCEPT ![h] = Begun(guardian[h], q)]
    BY <1>6, CalledHasEntry DEF BeginAt
  <2> DEFINE n == Begun(guardian[h], q)
  <2>2. /\ n \in GuardianEntry /\ n # None
        /\ \A r \in Request : guardian[h].pending[r] # None => n.pending[r] # None
        /\ \A r \in Request : n.pending[r] # None => guardian[h].pending[r] # None \/ r = q
    BY <1>0, <2>1, BegunFacts
  <2> HIDE DEF n
  <2>3. guardian' = [guardian EXCEPT ![h] = n]
    BY <2>1 DEF n
  <2> QED
    BY <1>1, <2>1, <2>2, <2>3
<1>7. ASSUME NEW q \in Request, NEW h \in Guardian, ReleaseAt(q, h)
      PROVE  /\ guardian' \in [Guardian -> GuardianEntry \cup {None}]
             /\ \A g \in Guardian : guardian[g] # None => guardian'[g] # None
             /\ \A r \in Request : Accepting(r) \subseteq Accepting(r)'
             /\ \A r \in Request : Accepting(r)' \subseteq Accepting(r)
  <2>1. guardian[h] \in GuardianEntry /\ guardian[h] # None
        /\ guardian' = [guardian EXCEPT ![h] = Released(guardian[h], q)]
    BY <1>7, CalledHasEntry DEF ReleaseAt
  <2> DEFINE n == Released(guardian[h], q)
  <2>2. /\ n \in GuardianEntry /\ n # None
        /\ \A r \in Request : guardian[h].pending[r] # None <=> n.pending[r] # None
    BY <2>1, ReleasedFacts
  <2> HIDE DEF n
  <2>3. guardian' = [guardian EXCEPT ![h] = n]
    BY <2>1 DEF n
  <2> QED
    BY <1>1, <2>1, <2>2, <2>3
<1> QED
  BY <1>2, <1>3, <1>4, <1>5, <1>6, <1>7, GuardianChanges

\* A step makes at most one signer observe or approve something.
LEMMA SignersGrow ==
  ASSUME IInv, Next
  PROVE  /\ signer' \in [Signer -> SignerEntry \cup {None}]
         /\ \A s \in Signer : signer[s] # None => signer'[s] # None
         /\ \A s \in Signer, q \in Request :
              /\ signer[s] # None /\ q \notin signer[s].recovery_requests
              /\ q \in signer'[s].recovery_requests
              => proc[Client(q)].pc = "Approve" /\ FreshRead(q)
<1>0. TypeOK /\ signer \in [Signer -> SignerEntry \cup {None}] /\ latest \in Epoch
  BY DEF IInv, TypeOK
<1>1. ASSUME NEW h \in Signer, NEW n \in SignerEntry, signer' = [signer EXCEPT ![h] = n]
      PROVE  /\ signer' \in [Signer -> SignerEntry \cup {None}]
             /\ \A s \in Signer : signer[s] # None => signer'[s] # None
             /\ \A s \in Signer : signer'[s] = IF s = h THEN n ELSE signer[s]
  BY <1>0, <1>1, EntryAssumption
<1>2. ASSUME UNCHANGED signer
      PROVE  /\ signer' \in [Signer -> SignerEntry \cup {None}]
             /\ \A s \in Signer : signer[s] # None => signer'[s] # None
             /\ \A s \in Signer : signer'[s] = signer[s]
  BY <1>0, <1>2
<1>3. ASSUME NEW h \in Signer, card PROVE signer[h] # None /\ signer[h] \in SignerEntry
  BY <1>0, <1>3 DEF IInv, SetupOK, SignersProvided
<1>4. CASE ProvisionSigners
  <2> DEFINE n == [active_capsule |-> 1, recovery_requests |-> {}]
  <2>1. n \in SignerEntry /\ n.recovery_requests = {}
    BY ConstantFacts DEF SignerEntry
  <2>2. UNCHANGED signer \/ \E h \in Signer : signer' = [signer EXCEPT ![h] = n]
    BY <1>4, SetupSteps DEF Handled
  <2> HIDE DEF n
  <2> QED
    BY <1>1, <1>2, <2>1, <2>2
<1>5. ASSUME NEW h \in Signer, CollectIntent(h)
      PROVE  /\ signer' \in [Signer -> SignerEntry \cup {None}]
             /\ \A s \in Signer : signer[s] # None => signer'[s] # None
             /\ \A s \in Signer : signer[s] # None =>
                  signer'[s].recovery_requests = signer[s].recovery_requests
  <2>1. signer[h] \in SignerEntry /\ signer' = [signer EXCEPT ![h].active_capsule = latest]
    BY <1>3, <1>5 DEF CollectIntent
  <2> DEFINE n == [active_capsule |-> latest, recovery_requests |-> signer[h].recovery_requests]
  <2>2. n \in SignerEntry /\ n.recovery_requests = signer[h].recovery_requests
    BY <1>0, <2>1 DEF SignerEntry
  <2>3. [signer[h] EXCEPT !.active_capsule = latest] = n
    BY <2>1 DEF SignerEntry
  <2> HIDE DEF n
  <2>4. signer' = [signer EXCEPT ![h] = n]
    BY <2>1, <2>3
  <2> QED
    BY <1>1, <2>2, <2>4
<1>6. ASSUME NEW q \in Request, Approve(q)
      PROVE  /\ signer' \in [Signer -> SignerEntry \cup {None}]
             /\ \A s \in Signer : signer[s] # None => signer'[s] # None
             /\ \A s \in Signer, r \in Request :
                  /\ signer[s] # None /\ r \notin signer[s].recovery_requests
                  /\ r \in signer'[s].recovery_requests
                  => r = q /\ proc[Client(q)].pc = "Approve" /\ FreshRead(q)
  <2>1. proc[Client(q)].pc = "Approve"
    BY <1>6, SignerSteps
  <2>2. card /\ config_ref[q] \in Epoch
    BY <2>1 DEF IInv, SetupOK, ClientOK
  <2>3. PICK h \in Signer :
          Handled(Client(q), h, Votes("Begin"), FreshRead(q), signer, signer',
                  [active_capsule |-> config_ref[q],
                   recovery_requests |-> signer[h].recovery_requests \cup {q}])
    BY <1>6, SignerSteps
  <2> DEFINE n == [active_capsule |-> config_ref[q],
                   recovery_requests |-> signer[h].recovery_requests \cup {q}]
  <2>4. n \in SignerEntry /\ n.recovery_requests = signer[h].recovery_requests \cup {q}
    BY <1>3, <2>2 DEF SignerEntry
  <2>5. UNCHANGED signer \/ (FreshRead(q) /\ signer' = [signer EXCEPT ![h] = n])
    BY <2>3 DEF Handled
  <2> HIDE DEF n
  <2> QED
    BY <1>1, <1>2, <2>1, <2>4, <2>5
<1>7. ASSUME NEW q \in Request, CollectReleaseVotes(q)
      PROVE  UNCHANGED signer
  <2>1. PICK h \in Signer : signer' = [signer EXCEPT ![h] = signer[h]] \/ UNCHANGED signer
    BY <1>7, SignerSteps DEF Handled
  <2> QED
    BY <1>0, <2>1
<1>8. CASE ProvisionGuardians \/ ProvisionWitnesses
  BY <1>2, <1>8, SetupSteps
<1>9. CASE WriteCard \/ FinalizeEpoch \/ ActivateGuardian \/ Tick
  BY <1>2, <1>9 DEF WriteCard, FinalizeEpoch, ActivateGuardian, Tick
<1>10. ASSUME NEW q \in Request, Begin(q) \/ Release(q) PROVE UNCHANGED signer
  BY <1>10, GuardianSteps
<1>11. ASSUME NEW q \in Request, read_latest_epoch_v3(q) \/ Sleep(q) \/ Wake(q)
       PROVE  UNCHANGED signer
  BY <1>11 DEF read_latest_epoch_v3, Sleep, Wake
<1>12. ASSUME NEW q \in Request, read_latest_epoch_v3(q) \/ recover_v3(q)
       PROVE  UNCHANGED signer \/ Approve(q)
  BY <1>12, <1>7, <1>10, <1>11 DEF recover_v3
<1> QED
  BY <1>2, <1>4, <1>5, <1>6, <1>8, <1>9, <1>12 DEF Next, setup_v3

-----------------------------------------------------------------------------
(* The invariant is inductive *)

\* A call changes the command that makes it.
LEMMA CallTypes ==
  ASSUME TypeOK, NEW c \in Process, NEW st, NEW G, CallMade(c, st, G)
  PROVE  /\ proc' \in [Process -> Proc] /\ losses' \in 0..MaxLosses
         /\ \A d \in Process : d # c => proc'[d] = proc[d]
         /\ \/ /\ proc'[c].pc = proc[c].pc
               /\ Ongoing(proc'[c], st.targets) /\ proc'[c].got = G
            \/ /\ proc'[c].pc = st.next /\ Cardinality(G) >= st.need /\ proc'[c].got = {}
               /\ \A T : T # {} => Ongoing(proc'[c], T)
            \/ proc'[c].pc = "Failed"
<1>1. losses' \in 0..MaxLosses
  BY EpochRecoveryAssumption DEF CallMade, LossStep, TypeOK
<1>2. PICK r \in Proc :
        /\ proc' = [proc EXCEPT ![c] = r]
        /\ \/ r.pc = proc[c].pc /\ Ongoing(r, st.targets) /\ r.got = G
           \/ /\ r.pc = st.next /\ Cardinality(G) >= st.need
              /\ \A T : T # {} => Ongoing(r, T)
              /\ r.got = {}
           \/ r.pc = "Failed"
  BY DEF CallMade
<1>3. proc \in [Process -> Proc]
  BY DEF TypeOK
<1>4. /\ proc' \in [Process -> Proc] /\ proc'[c] = r
      /\ \A d \in Process : d # c => proc'[d] = proc[d]
  BY <1>2, <1>3
<1> QED
  BY <1>1, <1>2, <1>4

\* A step that sets one command's record.
LEMMA ProcTypes ==
  ASSUME TypeOK, NEW c \in Process, NEW r \in Proc, proc' = [proc EXCEPT ![c] = r]
  PROVE  /\ proc' \in [Process -> Proc] /\ proc'[c] = r
         /\ \A d \in Process : d # c => proc'[d] = proc[d]
  BY DEF TypeOK

\* Variables keep their types.
LEMMA TypeStep == ASSUME IInv, [Next]_vars PROVE TypeOK'
<1>0. TypeOK /\ Setup \in Process /\ \A q \in Request : Client(q) \in Process
  BY ProcessFacts DEF IInv
<1>1. CASE UNCHANGED vars
  BY <1>0, <1>1 DEF TypeOK, vars, clientvars
<1>2. CASE Next
  <2>1. /\ signer' \in [Signer -> SignerEntry \cup {None}]
        /\ guardian' \in [Guardian -> GuardianEntry \cup {None}]
    BY <1>2, GuardiansGrow, SignersGrow
  <2>2. CASE setup_v3
    <3>1. CASE ProvisionSigners
      <4>1. \E st, G : CallMade(Setup, st, G)
        BY <3>1, SetupSteps DEF Handled
      <4> QED
        BY <1>0, <2>1, <3>1, <4>1, CallTypes, SetupSteps DEF TypeOK, clientvars
    <3>2. CASE ProvisionGuardians
      <4>1. \E st, G : CallMade(Setup, st, G)
        BY <3>2, SetupSteps DEF Handled
      <4> QED
        BY <1>0, <2>1, <3>2, <4>1, CallTypes, SetupSteps DEF TypeOK, clientvars
    <3>3. CASE ProvisionWitnesses
      <4>1. \E st, G : CallMade(Setup, st, G)
        BY <3>3, SetupSteps
      <4> QED
        BY <1>0, <2>1, <3>3, <4>1, CallTypes, SetupSteps DEF TypeOK, clientvars
    <3>4. CASE WriteCard
      <4>1. proc[Setup] \in Proc /\ "Ok" \in Stages \cup Ended
        BY <1>0 DEF TypeOK, Ended
      <4>2. proc' \in [Process -> Proc]
        BY <1>0, <3>4, <4>1, Entered, ProcTypes DEF WriteCard
      <4> QED
        BY <1>0, <2>1, <3>4, <4>2 DEF TypeOK, clientvars, WriteCard
    <3> QED
      BY <2>2, <3>1, <3>2, <3>3, <3>4 DEF setup_v3
  <2>3. CASE \E s \in Signer : CollectIntent(s)
    BY <1>0, <2>1, <2>3 DEF TypeOK, clientvars, CollectIntent
  <2>4. CASE FinalizeEpoch
    BY <1>0, <2>1, <2>4 DEF TypeOK, clientvars, FinalizeEpoch
  <2>5. CASE ActivateGuardian
    BY <1>0, <2>1, <2>5 DEF TypeOK, clientvars, ActivateGuardian
  <2>6. CASE Tick
    BY <1>0, <2>1, <2>6 DEF TypeOK, clientvars, Tick
  <2>7. ASSUME NEW q \in Request, read_latest_epoch_v3(q) PROVE TypeOK'
    <3>1. At("Approve") \in Proc
      BY Started DEF Stages
    <3>2. proc' \in [Process -> Proc]
      BY <1>0, <2>7, <3>1, ProcTypes DEF read_latest_epoch_v3
    <3> QED
      BY <1>0, <2>1, <2>7, <3>2 DEF TypeOK, read_latest_epoch_v3
  <2>8. ASSUME NEW q \in Request, recover_v3(q) PROVE TypeOK'
    <3>1. CASE Approve(q) \/ CollectReleaseVotes(q)
      <4>1. \E st, G : CallMade(Client(q), st, G)
        BY <3>1, SignerSteps DEF Handled
      <4> QED
        BY <1>0, <2>1, <3>1, <4>1, CallTypes, SignerSteps DEF TypeOK, clientvars
    <3>2. CASE Begin(q) \/ Release(q)
      <4>1. \E st, G : CallMade(Client(q), st, G)
        BY <3>2, GuardianSteps DEF Handled
      <4>2. recovered' \subseteq Request
        BY <1>0, <3>2, GuardianSteps DEF TypeOK
      <4> QED
        BY <1>0, <2>1, <3>2, <4>1, <4>2, CallTypes, GuardianSteps DEF TypeOK, clientvars
    <3>3. CASE Sleep(q)
      <4>1. proc[Client(q)] \in Proc /\ "Sleeping" \in Stages \cup Ended
        BY <1>0 DEF TypeOK, Stages
      <4>2. proc' \in [Process -> Proc]
        BY <1>0, <3>3, <4>1, Entered, ProcTypes DEF Sleep
      <4> QED
        BY <1>0, <2>1, <3>3, <4>2, EpochRecoveryAssumption DEF TypeOK, Sleep
    <3>4. CASE Wake(q)
      <4>1. proc[Client(q)] \in Proc /\ "ReleaseVotes" \in Stages \cup Ended
        BY <1>0 DEF TypeOK, Stages
      <4>2. proc' \in [Process -> Proc]
        BY <1>0, <3>4, <4>1, Entered, ProcTypes DEF Wake
      <4> QED
        BY <1>0, <2>1, <3>4, <4>2 DEF TypeOK, clientvars, Wake
    <3> QED
      BY <2>8, <3>1, <3>2, <3>3, <3>4 DEF recover_v3
  <2> QED
    BY <1>2, <2>2, <2>3, <2>4, <2>5, <2>6, <2>7, <2>8 DEF Next
<1> QED
  BY <1>1, <1>2

\* Only setup_v3 changes what setup_v3 has, and before it is done only time passes
\* besides.
LEMMA OtherSteps ==
  ASSUME IInv, Next, ~setup_v3
  PROVE  proc'[Setup] = proc[Setup] /\ card' = card /\ (card \/ Tick)
<1>0. /\ TypeOK /\ proc \in [Process -> Proc] /\ Setup \in Process
      /\ \A q \in Request : Client(q) \in Process /\ Client(q) # Setup
  BY ProcessFacts DEF IInv, TypeOK
<1>1. ASSUME NEW q \in Request, proc[Client(q)].pc # "Idle" PROVE card
  BY <1>1 DEF IInv, SetupOK
<1>2. ASSUME NEW q \in Request, Approve(q) \/ CollectReleaseVotes(q)
      PROVE  proc'[Setup] = proc[Setup] /\ card' = card /\ card
  <2>1. (\E st, G : CallMade(Client(q), st, G)) /\ proc[Client(q)].pc # "Idle" /\ card' = card
    BY <1>2, SignerSteps DEF Handled
  <2> QED
    BY <1>0, <1>1, <2>1, CallTypes
<1>3. ASSUME NEW q \in Request, Begin(q) \/ Release(q)
      PROVE  proc'[Setup] = proc[Setup] /\ card' = card /\ card
  <2>1. (\E st, G : CallMade(Client(q), st, G)) /\ proc[Client(q)].pc # "Idle" /\ card' = card
    BY <1>3, GuardianSteps DEF Handled
  <2> QED
    BY <1>0, <1>1, <2>1, CallTypes
<1>4. ASSUME NEW q \in Request, Sleep(q) \/ Wake(q) \/ read_latest_epoch_v3(q)
      PROVE  proc'[Setup] = proc[Setup] /\ card' = card /\ card
  BY <1>0, <1>1, <1>4 DEF Sleep, Wake, read_latest_epoch_v3
<1>5. CASE \E s \in Signer : CollectIntent(s)
  BY <1>5 DEF CollectIntent
<1>6. CASE FinalizeEpoch
  BY <1>6 DEF FinalizeEpoch
<1>7. CASE ActivateGuardian
  <2>1. card
    BY <1>7, ActivateSteps DEF ActivateStep
  <2> QED
    BY <1>7, <2>1 DEF ActivateGuardian
<1>8. CASE Tick
  BY <1>8 DEF Tick
<1> QED
  BY <1>2, <1>3, <1>4, <1>5, <1>6, <1>7, <1>8 DEF Next, recover_v3

\* The setup stays in order.
LEMMA SetupStep == ASSUME IInv, [Next]_vars PROVE SetupOK'
<1>0. /\ TypeOK /\ SetupOK /\ Setup \in Process /\ proc \in [Process -> Proc]
      /\ \A q \in Request : Client(q) \in Process /\ Client(q) # Setup
      /\ 1 \in Epoch /\ roster[1] \subseteq Guardian /\ roster[1] # {}
      /\ Signer # {} /\ Witness # {} /\ IsFiniteSet(Signer) /\ IsFiniteSet(roster[1])
  BY ProcessFacts, ConstantFacts, EpochRecoveryAssumption DEF IInv, TypeOK
<1>1. CASE UNCHANGED vars
  BY <1>0, <1>1 DEF SetupOK, SignersProvided, GuardiansProvided, vars
<1>2. ASSUME Next
      PROVE  /\ \A s \in Signer : signer[s] # None => signer'[s] # None
             /\ \A g \in roster[1] : guardian[g] # None => guardian'[g] # None
  BY <1>0, <1>2, GuardiansGrow, SignersGrow
<1>3. CASE ProvisionSigners
  <2> DEFINE st == All(Signer, 1, "Guardians")
             after == [active_capsule |-> 1, recovery_requests |-> {}]
             p == proc[Setup]
             r == proc'[Setup]
  <2>1. PICK s \in Signer : Handled(Setup, s, st, TRUE, signer, signer', after)
    BY <1>3, SetupSteps
  <2>2. PICK G \in SUBSET Nat :
          /\ CallMade(Setup, st, G)
          /\ \/ signer' = [signer EXCEPT ![s] = after] /\ G \subseteq p.got \cup {s}
             \/ signer' = signer /\ G \subseteq p.got
    BY <2>1 DEF Handled
  <2>3. /\ UNCHANGED <<card, latest, guardian>> /\ p.pc = "Signers" /\ ~card
    BY <1>3, SetupSteps
  <2>4. /\ Next /\ after # None
    <3>1. after \in SignerEntry
      BY <1>0 DEF SignerEntry
    <3> QED
      BY <1>3, <3>1, EntryAssumption DEF Next, setup_v3
  <2>5. G \subseteq Signer /\ \A t \in G : signer'[t] # None
    <3>1. p.got \subseteq Signer /\ \A t \in p.got : signer[t] # None
      BY <1>0, <2>3 DEF SetupOK, Ongoing
    <3>2. signer' = [signer EXCEPT ![s] = after] => signer'[s] # None
      BY <1>0, <2>4 DEF TypeOK
    <3> QED
      BY <1>2, <2>2, <2>4, <3>1, <3>2
  <2>6. /\ st.targets = Signer /\ st.next = "Guardians" /\ st.need = Cardinality(Signer)
    BY DEF All, Stage
  <2> HIDE DEF st, after
  <2>7. /\ \/ r.pc = p.pc /\ Ongoing(r, Signer) /\ r.got = G
           \/ /\ r.pc = "Guardians" /\ Cardinality(G) >= Cardinality(Signer) /\ r.got = {}
              /\ \A T : T # {} => Ongoing(r, T)
           \/ r.pc = "Failed"
        /\ \A d \in Process : d # Setup => proc'[d] = proc[d]
    BY <1>0, <2>2, <2>6, CallTypes
  <2>8. r.pc = "Guardians" => SignersProvided'
    BY <1>0, <2>3, <2>5, <2>7, EnoughIsAll DEF SignersProvided
  <2> HIDE DEF p
  <2> QED
    BY <1>0, <2>3, <2>5, <2>7, <2>8 DEF SetupOK, p
<1>4. CASE ProvisionGuardians
  <2> DEFINE st == All(roster[1], 1, "Witnesses")
             p == proc[Setup]
             r == proc'[Setup]
  <2>1. PICK g \in roster[1] : Handled(Setup, g, st, TRUE, guardian, guardian', NewGuardian(1))
    BY <1>4, SetupSteps
  <2>2. PICK G \in SUBSET Nat :
          /\ CallMade(Setup, st, G)
          /\ \/ guardian' = [guardian EXCEPT ![g] = NewGuardian(1)] /\ G \subseteq p.got \cup {g}
             \/ guardian' = guardian /\ G \subseteq p.got
    BY <2>1 DEF Handled
  <2>3. /\ UNCHANGED <<card, latest, signer>> /\ p.pc = "Guardians" /\ ~card
    BY <1>4, SetupSteps
  <2>4. Next /\ NewGuardian(1) # None
    BY <1>0, <1>4, NewFacts DEF Next, setup_v3
  <2>5. /\ G \subseteq roster[1] /\ \A h \in G : guardian'[h] # None
        /\ \A h \in Guardian : guardian'[h] \in {None, NewGuardian(1)}
    <3>1. /\ p.got \subseteq roster[1] /\ \A h \in p.got : guardian[h] # None
          /\ \A h \in Guardian : guardian[h] \in {None, NewGuardian(1)}
      BY <1>0, <2>3 DEF SetupOK, Ongoing
    <3>2. guardian' = [guardian EXCEPT ![g] = NewGuardian(1)] =>
            \A h \in Guardian : guardian'[h] = IF h = g THEN NewGuardian(1) ELSE guardian[h]
      BY <1>0 DEF TypeOK
    <3> QED
      BY <1>0, <1>2, <2>2, <2>4, <3>1, <3>2
  <2>6. /\ st.targets = roster[1] /\ st.next = "Witnesses" /\ st.need = Cardinality(roster[1])
    BY DEF All, Stage
  <2> HIDE DEF st
  <2>7. /\ \/ r.pc = p.pc /\ Ongoing(r, roster[1]) /\ r.got = G
           \/ /\ r.pc = "Witnesses" /\ Cardinality(G) >= Cardinality(roster[1]) /\ r.got = {}
              /\ \A T : T # {} => Ongoing(r, T)
           \/ r.pc = "Failed"
        /\ \A d \in Process : d # Setup => proc'[d] = proc[d]
    BY <1>0, <2>2, <2>6, CallTypes
  <2>8. r.pc = "Witnesses" => GuardiansProvided(1)'
    BY <1>0, <2>3, <2>5, <2>7, EnoughIsAll DEF GuardiansProvided
  <2>9. SignersProvided'
    BY <1>0, <2>3 DEF SetupOK, SignersProvided
  <2> HIDE DEF p
  <2> QED
    BY <1>0, <2>3, <2>5, <2>7, <2>8, <2>9 DEF SetupOK, p
<1>5. CASE ProvisionWitnesses
  <2> DEFINE st == All(Witness, 1, "Card")
             p == proc[Setup]
             r == proc'[Setup]
  <2>1. PICK G \in SUBSET Nat : CallMade(Setup, st, G)
    BY <1>5, SetupSteps
  <2>3. /\ UNCHANGED <<card, latest, signer, guardian>> /\ p.pc = "Witnesses" /\ ~card
    BY <1>5, SetupSteps
  <2>6. st.targets = Witness /\ st.next = "Card"
    BY DEF All, Stage
  <2> HIDE DEF st
  <2>7. /\ \/ r.pc = p.pc /\ Ongoing(r, Witness)
           \/ r.pc = "Card" \/ r.pc = "Failed"
        /\ \A d \in Process : d # Setup => proc'[d] = proc[d]
    BY <1>0, <2>1, <2>6, CallTypes
  <2>8. GuardiansProvided(1)' /\ SignersProvided'
    BY <1>0, <2>3 DEF SetupOK, SignersProvided, GuardiansProvided
  <2> HIDE DEF p
  <2> QED
    BY <1>0, <2>3, <2>7, <2>8 DEF SetupOK, p
<1>6. CASE WriteCard
  <2>1. proc[Setup] \in Proc /\ "Ok" \in Stages \cup Ended
    BY <1>0 DEF Ended
  <2>2. proc'[Setup].pc = "Ok" /\ card' = TRUE /\ UNCHANGED <<signer, guardian>>
        /\ proc[Setup].pc = "Card"
    BY <1>0, <1>6, <2>1, Entered, ProcTypes DEF WriteCard
  <2>3. GuardiansProvided(1)' /\ SignersProvided'
    BY <1>0, <2>2 DEF SetupOK, SignersProvided, GuardiansProvided
  <2> QED
    BY <2>2, <2>3 DEF SetupOK
<1>7. CASE Next /\ ~setup_v3
  <2>1. proc'[Setup] = proc[Setup] /\ card' = card /\ (card \/ Tick)
    BY <1>7, OtherSteps
  <2>2. CASE card
    <3>1. SignersProvided /\ GuardiansProvided(1) /\ proc[Setup].pc = "Ok"
      BY <1>0, <2>2 DEF SetupOK
    <3>2. SignersProvided' /\ GuardiansProvided(1)'
      BY <1>2, <1>7, <3>1 DEF SignersProvided, GuardiansProvided
    <3> QED
      BY <2>1, <2>2, <3>1, <3>2 DEF SetupOK
  <2>3. CASE Tick
    BY <1>0, <2>3 DEF Tick, SetupOK, SignersProvided, GuardiansProvided
  <2> QED
    BY <2>1, <2>2, <2>3
<1> QED
  BY <1>1, <1>3, <1>4, <1>5, <1>6, <1>7 DEF setup_v3

\* More guardians have begun a request than those of a subset.
LEMMA AcceptingFinite ==
  ASSUME NEW q
  PROVE  /\ \A S \in SUBSET Accepting(q) : Cardinality(S) <= Cardinality(Accepting(q))
         /\ \A S \in SUBSET Accepting(q) : Cardinality(S) \in Nat
         /\ Cardinality(Accepting(q)) \in Nat
<1>1. Accepting(q) \subseteq Guardian
  BY DEF Accepting
<1>2. IsFiniteSet(Accepting(q))
  BY <1>1, GuardianFinite, FS_Subset
<1> QED
  BY <1>2, FS_Subset, FS_CardinalityType

\* What the client of q has is changed by that client only.
LEMMA OtherClients ==
  ASSUME IInv, Next, NEW q \in Request
  PROVE  \/ read_latest_epoch_v3(q) \/ recover_v3(q)
         \/ /\ proc'[Client(q)] = proc[Client(q)]
            /\ config_ref'[q] = config_ref[q] /\ issued_at'[q] = issued_at[q]
            /\ q \in recovered' => q \in recovered
<1>0. /\ TypeOK /\ proc \in [Process -> Proc] /\ Setup \in Process
      /\ \A r \in Request : Client(r) \in Process /\ Client(r) # Setup
      /\ \A r \in Request : Client(r) = Client(q) => r = q
      /\ config_ref \in [Request -> Epoch \cup {None}]
      /\ issued_at \in [Request -> Nat \cup {None}]
  BY ProcessFacts DEF IInv, TypeOK
<1>1. CASE setup_v3
  <2>1. CASE WriteCard
    BY <1>0, <2>1 DEF WriteCard, clientvars
  <2>2. CASE ProvisionSigners \/ ProvisionGuardians \/ ProvisionWitnesses
    <3>1. \E st, G : CallMade(Setup, st, G)
      BY <2>2, SetupSteps DEF Handled
    <3>2. UNCHANGED <<clientvars, recovered>>
      BY <2>2, SetupSteps
    <3> QED
      BY <1>0, <3>1, <3>2, CallTypes DEF clientvars
  <2> QED
    BY <1>1, <2>1, <2>2 DEF setup_v3
<1>2. ASSUME NEW r \in Request, r # q, read_latest_epoch_v3(r) \/ recover_v3(r)
      PROVE  /\ proc'[Client(q)] = proc[Client(q)]
             /\ config_ref'[q] = config_ref[q] /\ issued_at'[q] = issued_at[q]
             /\ q \in recovered' => q \in recovered
  <2>1. CASE Approve(r) \/ CollectReleaseVotes(r)
    <3>1. \E st, G : CallMade(Client(r), st, G)
      BY <2>1, SignerSteps DEF Handled
    <3>2. UNCHANGED <<clientvars, recovered>>
      BY <2>1, SignerSteps
    <3> QED
      BY <1>0, <1>2, <3>1, <3>2, CallTypes DEF clientvars
  <2>2. CASE Begin(r) \/ Release(r)
    <3>1. \E st, G : CallMade(Client(r), st, G)
      BY <2>2, GuardianSteps DEF Handled
    <3>2. UNCHANGED clientvars /\ (q \in recovered' => q \in recovered)
      BY <1>2, <2>2, GuardianSteps
    <3> QED
      BY <1>0, <1>2, <3>1, <3>2, CallTypes DEF clientvars
  <2>3. CASE read_latest_epoch_v3(r) \/ Sleep(r) \/ Wake(r)
    BY <1>0, <1>2, <2>3 DEF read_latest_epoch_v3, Sleep, Wake, clientvars
  <2> QED
    BY <1>2, <2>1, <2>2, <2>3 DEF recover_v3
<1>3. CASE FinalizeEpoch \/ ActivateGuardian \/ Tick
  BY <1>3 DEF FinalizeEpoch, ActivateGuardian, Tick, clientvars
<1>4. CASE \E s \in Signer : CollectIntent(s)
  BY <1>4 DEF CollectIntent, clientvars
<1> QED
  BY <1>1, <1>2, <1>3, <1>4 DEF Next

\* The latest epoch only grows, and time does.
LEMMA EpochsGrow ==
  ASSUME IInv, Next
  PROVE  /\ \/ latest' = latest /\ superseded_at' = superseded_at
            \/ FinalizeEpoch /\ latest' = latest + 1
         /\ now' = now \/ now' = now + 1
<1>1. CASE setup_v3
  BY <1>1, SetupSteps DEF setup_v3, WriteCard
<1>2. ASSUME NEW q \in Request, read_latest_epoch_v3(q) \/ recover_v3(q)
      PROVE  UNCHANGED <<latest, superseded_at, now>>
  BY <1>2, SignerSteps, GuardianSteps DEF recover_v3, read_latest_epoch_v3, Sleep, Wake
<1>3. CASE FinalizeEpoch \/ ActivateGuardian \/ Tick
  BY <1>3 DEF FinalizeEpoch, ActivateGuardian, Tick
<1>4. CASE \E s \in Signer : CollectIntent(s)
  BY <1>4 DEF CollectIntent
<1> QED
  BY <1>1, <1>2, <1>3, <1>4 DEF Next

\* The clients stay in order.
LEMMA ClientStep == ASSUME IInv, [Next]_vars, NEW q \in Request PROVE ClientOK(q)'
<1> DEFINE c == Client(q)
           p == proc[c]
           r == proc'[c]
           k == guardian_threshold
<1>0. /\ TypeOK /\ ClientOK(q) /\ c \in Process /\ p \in Proc
      /\ Signer # {} /\ \A e \in Epoch : roster[e] # {} /\ roster[e] \subseteq Guardian
      /\ latest \in Epoch /\ latest \in Nat /\ Epoch \subseteq Nat
      /\ k \in Nat
  <2>1. guardian_threshold \in 2..Cardinality(roster[1]) /\ Cardinality(roster[1]) \in Nat
    BY EpochRecoveryAssumption, ConstantFacts, FS_CardinalityType
  <2> QED
    BY <2>1, ProcessFacts, ConstantFacts DEF IInv, TypeOK
<1>1. CASE UNCHANGED vars
  BY <1>0, <1>1 DEF ClientOK, Accepting, vars, clientvars
<1> SUFFICES ASSUME Next PROVE ClientOK(q)'
  BY <1>1
<1>2. /\ Accepting(q) \subseteq Accepting(q)'
      /\ Cardinality(Accepting(q)) >= k => Cardinality(Accepting(q)') >= k
  <2>1. Accepting(q) \subseteq Accepting(q)'
    BY GuardiansGrow
  <2>2. /\ \A S \in SUBSET Accepting(q)' : Cardinality(S) <= Cardinality(Accepting(q)')
        /\ Cardinality(Accepting(q)') \in Nat
    <3>1. Accepting(q)' \subseteq Guardian
      BY DEF Accepting
    <3>2. IsFiniteSet(Accepting(q)')
      BY <3>1, GuardianFinite, FS_Subset
    <3> QED
      BY <3>2, FS_Subset, FS_CardinalityType
  <2>3. Cardinality(Accepting(q)) \in Nat
    BY AcceptingFinite
  <2> QED
    BY <1>0, <2>1, <2>2, <2>3
<1>3. ASSUME NEW S \in SUBSET Accepting(q)', Cardinality(S) >= k
      PROVE  Cardinality(Accepting(q)') >= k
  <2>1. Accepting(q)' \subseteq Guardian
    BY DEF Accepting
  <2>2. IsFiniteSet(Accepting(q)')
    BY <2>1, GuardianFinite, FS_Subset
  <2>3. /\ Cardinality(S) <= Cardinality(Accepting(q)')
        /\ Cardinality(S) \in Nat /\ Cardinality(Accepting(q)') \in Nat
    BY <2>2, FS_Subset, FS_CardinalityType
  <2> QED
    BY <1>0, <1>3, <2>3
<1>4. \A e \in Epoch : e <= latest => e <= latest'
  <2>1. latest' = latest \/ latest' = latest + 1
    BY EpochsGrow
  <2>2. ASSUME NEW e \in Epoch, e <= latest PROVE e <= latest'
    <3>1. e \in Nat /\ latest \in Nat
      BY <1>0
    <3> QED
      BY <2>1, <2>2, <3>1
  <2> QED
    BY <2>2
<1> HIDE DEF k
<1>5. CASE /\ r = p
           /\ config_ref'[q] = config_ref[q]
           /\ q \in recovered' => q \in recovered
  BY <1>0, <1>2, <1>4, <1>5 DEF ClientOK, k
<1>6. CASE read_latest_epoch_v3(q)
  <2>1. At("Approve") \in Proc /\ At("Approve").pc = "Approve" /\ Ongoing(At("Approve"), Signer)
    BY <1>0, Started DEF Stages
  <2>2. r = At("Approve") /\ p.pc = "Idle"
    BY <1>0, <1>6, <2>1, ProcTypes DEF read_latest_epoch_v3
  <2>3. config_ref'[q] = latest /\ latest' = latest /\ recovered' = recovered
    BY <1>0, <1>6 DEF read_latest_epoch_v3, TypeOK
  <2> HIDE DEF p, r
  <2> QED
    BY <1>0, <2>1, <2>2, <2>3 DEF ClientOK, p, r
<1>7. CASE Sleep(q) \/ Wake(q)
  <2>1. PICK pc \in {"Sleeping", "ReleaseVotes"} :
          proc' = [proc EXCEPT ![c] = Enter(@, pc)] /\ p.pc \in {"Sleep", "Sleeping"}
    BY <1>7 DEF Sleep, Wake
  <2>2. /\ Enter(p, pc) \in Proc /\ Enter(p, pc).pc = pc
        /\ Ongoing(Enter(p, pc), Signer)
    BY <1>0, Entered DEF Stages
  <2>3. r = Enter(p, pc)
    BY <1>0, <2>1, <2>2, ProcTypes
  <2>4. UNCHANGED <<config_ref, recovered, latest>>
    BY <1>7 DEF Sleep, Wake, clientvars
  <2> HIDE DEF p, r
  <2> QED
    BY <1>0, <1>2, <2>1, <2>2, <2>3, <2>4 DEF ClientOK, p, r, k
<1>8. CASE Approve(q) \/ CollectReleaseVotes(q)
  <2>1. PICK next \in {"Begin", "Release"}, G \in SUBSET Nat :
          /\ CallMade(c, Votes(next), G)
          /\ \/ next = "Begin" /\ p.pc = "Approve"
             \/ next = "Release" /\ p.pc = "ReleaseVotes"
    BY <1>8, SignerSteps DEF Handled
  <2>2. UNCHANGED <<config_ref, recovered, latest>>
    BY <1>8, SignerSteps DEF clientvars
  <2>3. Votes(next).targets = Signer /\ Votes(next).next = next
    BY DEF Votes, Stage
  <2>4. \/ r.pc = p.pc /\ Ongoing(r, Signer)
        \/ r.pc = next /\ r.got = {} /\ \A T : T # {} => Ongoing(r, T)
        \/ r.pc = "Failed"
    BY <1>0, <2>1, <2>3, CallTypes
  <2>5. config_ref[q] \in Epoch /\ roster[config_ref[q]] # {}
    BY <1>0, <2>1 DEF ClientOK
  <2> HIDE DEF p, r
  <2> QED
    BY <1>0, <1>2, <2>1, <2>2, <2>4, <2>5 DEF ClientOK, p, r, k
<1>9. CASE Begin(q)
  <2>1. PICK G : CallMade(c, Begins(q), G)
    BY <1>9, GuardianSteps DEF Handled
  <2>2. UNCHANGED <<config_ref, recovered, latest>> /\ p.pc = "Begin"
    BY <1>9, GuardianSteps DEF clientvars
  <2>3. Begins(q).targets = roster[config_ref[q]] /\ Begins(q).next = "Sleep"
    BY DEF Begins, Stage
  <2>4. \/ r.pc = p.pc /\ Ongoing(r, roster[config_ref[q]])
        \/ r.pc \in {"Sleep", "Failed"}
    BY <1>0, <2>1, <2>3, CallTypes
  <2> HIDE DEF p, r
  <2> QED
    BY <1>0, <1>2, <2>2, <2>4 DEF ClientOK, p, r, k
<1>10. CASE Release(q)
  <2>1. PICK g \in roster[config_ref[q]] :
          Handled(c, g, Releases(q), MayRelease(guardian[g], q), guardian, guardian',
                  Released(guardian[g], q))
    BY <1>10, GuardianSteps
  <2>2. PICK G \in SUBSET Nat :
          /\ CallMade(c, Releases(q), G)
          /\ \/ MayRelease(guardian[g], q) /\ G \subseteq p.got \cup {g}
             \/ G \subseteq p.got
    BY <2>1 DEF Handled
  <2>3. /\ UNCHANGED <<config_ref, latest>> /\ p.pc = "Release"
        /\ recovered' = IF r.pc = "Ok" THEN recovered \cup {q} ELSE recovered
    BY <1>10, GuardianSteps DEF clientvars
  <2>4. Releases(q).targets = roster[config_ref[q]] /\ Releases(q).next = "Ok"
        /\ Releases(q).need = k
    BY DEF Releases, Stage, k
  <2>5. \/ r.pc = p.pc /\ Ongoing(r, roster[config_ref[q]]) /\ r.got = G
        \/ r.pc = "Ok" /\ Cardinality(G) >= k
        \/ r.pc = "Failed"
    BY <1>0, <2>2, <2>4, CallTypes
  <2>6. G \subseteq Accepting(q)'
    <3>1. p.got \subseteq Accepting(q)
      BY <1>0, <2>3 DEF ClientOK
    <3>2. MayRelease(guardian[g], q) => g \in Accepting(q)
      BY <1>0, <2>1, <2>3, CalledHasEntry DEF MayRelease, Accepting, ClientOK
    <3> QED
      BY <1>2, <2>2, <3>1, <3>2
  <2>7. r.pc = "Ok" => Cardinality(Accepting(q)') >= k
    BY <1>3, <2>3, <2>5, <2>6
  <2> HIDE DEF p, r
  <2> QED
    BY <1>0, <1>2, <2>3, <2>5, <2>6, <2>7 DEF ClientOK, p, r, k
<1> QED
  BY <1>5, <1>6, <1>7, <1>8, <1>9, <1>10, OtherClients DEF recover_v3

\* The reads of the clients stay in order.
LEMMA ReadStep == ASSUME IInv, [Next]_vars, NEW q \in Request PROVE ReadOK(q)'
<1>0. /\ TypeOK /\ ReadOK(q) /\ EpochsOK /\ TypeOK' /\ None \notin Epoch /\ Epoch \subseteq Nat
      /\ None \notin Nat
      /\ now \in Nat /\ latest \in Epoch /\ config_ref \in [Request -> Epoch \cup {None}]
      /\ issued_at \in [Request -> Nat \cup {None}]
      /\ superseded_at \in [Epoch -> Nat \cup {None}]
  BY TypeStep, ConstantFacts, EpochRecoveryAssumption DEF IInv, TypeOK
<1>1. CASE UNCHANGED vars
  BY <1>0, <1>1 DEF ReadOK, vars, clientvars
<1>2. CASE read_latest_epoch_v3(q)
  <2>1. /\ config_ref'[q] = latest /\ issued_at'[q] = now
        /\ UNCHANGED <<now, latest, superseded_at>>
    BY <1>0, <1>2 DEF read_latest_epoch_v3
  <2>2. superseded_at[latest] = None
    BY <1>0 DEF EpochsOK
  <2> QED
    BY <1>0, <2>1, <2>2 DEF ReadOK
<1>3. CASE Next /\ config_ref'[q] = config_ref[q] /\ issued_at'[q] = issued_at[q]
  <2> SUFFICES ASSUME config_ref[q] # None PROVE ReadOK(q)'
    BY <1>3 DEF ReadOK
  <2>1. /\ issued_at[q] \in Nat /\ issued_at[q] <= now /\ config_ref[q] \in Epoch
        /\ superseded_at[config_ref[q]] # None => issued_at[q] <= superseded_at[config_ref[q]]
    BY <1>0 DEF ReadOK
  <2>2. now' = now \/ now' = now + 1
    BY <1>3, EpochsGrow
  <2>3. issued_at[q] <= now'
    BY <1>0, <2>1, <2>2
  <2>4. \/ superseded_at'[config_ref[q]] = superseded_at[config_ref[q]]
        \/ superseded_at'[config_ref[q]] = now
    <3>1. CASE superseded_at' = superseded_at
      BY <3>1
    <3>2. CASE FinalizeEpoch
      BY <1>0, <2>1, <3>2 DEF FinalizeEpoch
    <3> QED
      BY <1>3, <3>1, <3>2, EpochsGrow
  <2> QED
    BY <1>3, <2>1, <2>3, <2>4 DEF ReadOK
<1>4. CASE recover_v3(q)
  <2>1. UNCHANGED <<config_ref, issued_at>> /\ Next
    BY <1>4, SignerSteps, GuardianSteps DEF recover_v3, Sleep, Wake, clientvars, Next
  <2> QED
    BY <1>3, <2>1
<1> QED
  BY <1>1, <1>2, <1>3, <1>4, OtherClients

\* The epochs stay in order.
LEMMA EpochsStep == ASSUME IInv, [Next]_vars PROVE EpochsOK'
<1>0. /\ TypeOK /\ EpochsOK /\ latest \in Epoch /\ Epoch \subseteq Nat
      /\ superseded_at \in [Epoch -> Nat \cup {None}]
      /\ \A e \in Epoch : roster[e] \subseteq Guardian
  BY ConstantFacts DEF IInv, TypeOK
<1>1. CASE UNCHANGED vars
  BY <1>0, <1>1 DEF EpochsOK, GuardiansProvided, vars
<1>2. CASE FinalizeEpoch
  <2>0. /\ card /\ latest' = latest + 1 /\ card' = card /\ latest' \in Epoch
        /\ superseded_at' = [superseded_at EXCEPT ![latest] = now]
        /\ \A g \in Guardian :
             guardian'[g] = IF g \in roster[latest'] /\ guardian[g] = None
                            THEN NewGuardian(None) ELSE guardian[g]
    BY <1>2 DEF FinalizeEpoch
  <2>1. \A e \in Epoch : superseded_at'[e] # None => e < latest'
    <3> SUFFICES ASSUME NEW e \in Epoch, superseded_at'[e] # None PROVE e < latest'
      OBVIOUS
    <3>1. e = latest \/ superseded_at[e] # None
      BY <1>0, <2>0
    <3>2. e \in Nat /\ latest \in Nat
      BY <1>0
    <3>3. e = latest \/ e < latest
      BY <1>0, <3>1 DEF EpochsOK
    <3> QED
      BY <2>0, <3>2, <3>3
  <2>2. ASSUME NEW e \in Epoch, e <= latest', NEW g \in roster[e] PROVE guardian'[g] # None
    <3>1. e \in Nat /\ latest \in Nat /\ (e <= latest \/ e = latest')
      BY <1>0, <2>0, <2>2
    <3>2. NewGuardian(None) # None
      BY NewFacts
    <3> QED
      BY <1>0, <2>0, <3>1, <3>2 DEF EpochsOK, GuardiansProvided
  <2> QED
    BY <2>1, <2>2 DEF EpochsOK, GuardiansProvided
<1>3. CASE Next /\ latest' = latest /\ superseded_at' = superseded_at
  <2>1. ASSUME card', NEW e \in Epoch, e <= latest PROVE GuardiansProvided(e)'
    <3>1. CASE card
      BY <1>0, <1>3, <2>1, <3>1, GuardiansGrow DEF EpochsOK, GuardiansProvided
    <3>2. CASE ~card
      <4>1. latest = 1 /\ SetupOK'
        BY <1>3, <3>2, SetupStep DEF IInv, SetupOK
      <4>2. e = 1
        BY <2>1, <4>1, ConstantFacts
      <4> QED
        BY <2>1, <4>1, <4>2 DEF SetupOK
    <3> QED
      BY <3>1, <3>2
  <2> QED
    BY <1>0, <1>3, <2>1 DEF EpochsOK
<1> QED
  BY <1>1, <1>2, <1>3, EpochsGrow

\* The guardians of the first epoch stay in order.
LEMMA MachineStep == ASSUME IInv, [Next]_vars, NEW g \in roster[1] PROVE MachineOK(g)'
<1>0. /\ TypeOK /\ MachineOK(g) /\ g \in Guardian /\ 1 \in Epoch
      /\ guardian \in [Guardian -> GuardianEntry \cup {None}]
      /\ latest \in Epoch /\ Epoch \subseteq Nat \ {0} /\ None \notin Epoch
  BY ConstantFacts DEF IInv, TypeOK
<1>1. CASE UNCHANGED vars
  BY <1>0, <1>1 DEF MachineOK, vars
<1>2. CASE UNCHANGED <<guardian, latest>>
  BY <1>0, <1>2 DEF MachineOK
<1>3. ASSUME UNCHANGED latest, guardian[g] # None, guardian'[g].active = guardian[g].active,
             guardian'[g].draining = guardian[g].draining
      PROVE  MachineOK(g)'
  BY <1>0, <1>3 DEF MachineOK
<1>4. ASSUME NEW h \in Guardian, ProvisionAt(h) PROVE MachineOK(g)'
  <2>1. latest = 1 /\ latest' = 1 /\ guardian[g] \in {None, NewGuardian(1)}
    BY <1>0, <1>4 DEF ProvisionAt, IInv, SetupOK
  <2>2. guardian'[g] \in {None, NewGuardian(1)}
    BY <1>0, <1>4, <2>1 DEF ProvisionAt
  <2>3. NewGuardian(1).active = 1 /\ NewGuardian(1).draining = {} /\ {} = 1..(1 - 1)
    BY DEF NewGuardian
  <2>4. guardian'[g] # None => guardian'[g].active = 1 /\ guardian'[g].draining = 1..(1 - 1)
    BY <2>2, <2>3
  <2>5. 1 # None /\ 1 <= latest' /\ 1 \in {latest' - 1, latest'}
    BY <1>0, <2>1
  <2> QED
    BY <2>4, <2>5 DEF MachineOK
<1>5. CASE FinalizeEpoch
  <2>1. /\ card /\ latest' = latest + 1 /\ latest + 1 \in Epoch
        /\ \A h \in roster[latest] : guardian[h].active = latest
        /\ guardian'[g] = IF g \in roster[latest'] /\ guardian[g] = None
                          THEN NewGuardian(None) ELSE guardian[g]
    BY <1>0, <1>5 DEF FinalizeEpoch
  <2>2. guardian[g] # None
    BY <2>1 DEF IInv, SetupOK, GuardiansProvided
  <2>3. guardian'[g] = guardian[g]
    BY <2>1, <2>2
  <2>4. g \in roster[latest'] => g \in roster[latest]
    BY <1>0, <2>1, EntryAssumption
  <2>5. CASE guardian[g].active = None
    BY <1>0, <2>2, <2>3, <2>4, <2>5 DEF MachineOK
  <2>6. CASE guardian[g].active # None
    <3> DEFINE a == guardian[g].active
    <3>1. a \in Epoch
      BY <1>0, <2>2, <2>6, EntryFields
    <3>2. /\ guardian[g].draining = 1..(a - 1) /\ a <= latest
          /\ g \in roster[latest'] => a = latest
      BY <1>0, <2>1, <2>2, <2>4, <2>6 DEF MachineOK
    <3>3. a \in Nat /\ latest \in Nat
      BY <1>0, <3>1
    <3> HIDE DEF a
    <3>4. a <= latest' /\ (g \in roster[latest'] => a \in {latest' - 1, latest'})
      BY <2>1, <3>2, <3>3
    <3> QED
      BY <2>3, <2>6, <3>2, <3>4 DEF MachineOK, a
  <2> QED
    BY <2>5, <2>6
<1>6. ASSUME NEW h \in Guardian, NEW a \in Epoch \cup {None}, ActivateStep(h, a), UNCHANGED latest
      PROVE  MachineOK(g)'
  <2>1. CASE h # g
    <3>1. guardian'[g] = guardian[g]
      BY <1>0, <1>6, <2>1 DEF ActivateStep
    <3> QED
      BY <1>0, <1>6, <3>1 DEF MachineOK
  <2>2. CASE h = g
    <3> DEFINE e == guardian[g]
    <3>1. /\ e \in GuardianEntry /\ e # None /\ guardian'[g] = Activated(e, a)
          /\ \/ a = latest /\ g \in roster[latest] /\ e.active # latest
             \/ a = None /\ g \notin roster[latest] /\ e.active # None
      BY <1>0, <1>6, <2>2 DEF ActivateStep
    <3>2. e.active # None
      BY <1>0, <3>1 DEF MachineOK
    <3> DEFINE b == e.active
    <3>3. /\ b \in Epoch /\ e.draining = 1..(b - 1)
          /\ g \in roster[latest] => b \in {latest - 1, latest}
      BY <1>0, <3>1, <3>2, EntryFields DEF MachineOK
    <3>4. /\ guardian'[g] # None /\ guardian'[g].active = a
          /\ guardian'[g].draining = e.draining \cup {b}
      <4>1. /\ Activated(e, a) # None /\ Activated(e, a).active = a
            /\ Activated(e, a).draining = IF e.active = None THEN e.draining
                                          ELSE e.draining \cup {e.active}
        BY <3>1, ActivatedFacts
      <4> QED
        BY <3>1, <3>2, <4>1
    <3>5. b \in Nat \ {0} /\ latest \in Nat
      BY <1>0, <3>3
    <3> HIDE DEF b
    <3>6. guardian'[g].draining = 1..b
      BY <3>3, <3>4, <3>5
    <3>7. CASE a = None
      BY <1>6, <3>1, <3>4, <3>5, <3>6, <3>7, <1>0 DEF MachineOK
    <3>8. CASE a = latest
      <4>1. g \in roster[latest] /\ b # latest
        BY <1>0, <3>1, <3>8 DEF b
      <4>2. b = latest - 1
        BY <3>3, <4>1
      <4> QED
        BY <1>0, <1>6, <3>4, <3>5, <3>6, <3>8, <4>2 DEF MachineOK
    <3> QED
      BY <3>1, <3>7, <3>8
  <2> QED
    BY <2>1, <2>2
<1>7. ASSUME NEW q \in Request, NEW h \in Guardian, BeginAt(q, h) \/ ReleaseAt(q, h)
      PROVE  MachineOK(g)'
  <2>1. guardian[h] \in GuardianEntry /\ guardian[h] # None
    BY <1>7, CalledHasEntry DEF BeginAt, ReleaseAt
  <2>2. CASE h = g
    <3>1. guardian'[g] = Begun(guardian[g], q) \/ guardian'[g] = Released(guardian[g], q)
      BY <1>0, <1>7, <2>2 DEF BeginAt, ReleaseAt
    <3>2. UNCHANGED latest /\ now \in Nat
      BY <1>0, <1>7 DEF BeginAt, ReleaseAt, TypeOK
    <3>3. guardian'[g].active = guardian[g].active /\ guardian'[g].draining = guardian[g].draining
      <4>1. /\ Begun(guardian[g], q).active = guardian[g].active
            /\ Begun(guardian[g], q).draining = guardian[g].draining
        BY <2>1, <2>2, <3>2, BegunFacts
      <4>2. /\ Released(guardian[g], q).active = guardian[g].active
            /\ Released(guardian[g], q).draining = guardian[g].draining
        BY <2>1, <2>2, ReleasedFacts
      <4> QED
        BY <3>1, <4>1, <4>2
    <3> QED
      BY <1>3, <2>1, <2>2, <3>2, <3>3
  <2>3. CASE h # g
    <3>1. guardian'[g] = guardian[g] /\ UNCHANGED latest
      BY <1>0, <1>7, <2>3 DEF BeginAt, ReleaseAt
    <3> QED
      BY <1>0, <3>1 DEF MachineOK
  <2> QED
    BY <2>2, <2>3
<1> QED
  BY <1>1, <1>2, <1>4, <1>5, <1>6, <1>7, GuardianChanges

\* What the guardians of the first epoch have released stays begun.
LEMMA ReleasedStep == ASSUME IInv, [Next]_vars, NEW g \in roster[1] PROVE ReleasedOK(g)'
<1>0. /\ TypeOK /\ ReleasedOK(g) /\ g \in Guardian /\ now \in Nat
      /\ guardian \in [Guardian -> GuardianEntry \cup {None}]
      /\ guardian[g] # None => guardian[g] \in GuardianEntry
  BY ConstantFacts DEF IInv, TypeOK
<1>1. CASE guardian'[g] = guardian[g]
  BY <1>0, <1>1 DEF ReleasedOK
<1>2. CASE guardian'[g] \in {NewGuardian(1), NewGuardian(None)}
  BY <1>2 DEF ReleasedOK, NewGuardian
<1>3. ASSUME NEW a \in Epoch \cup {None}, guardian[g] # None,
             guardian'[g] = Activated(guardian[g], a)
      PROVE  ReleasedOK(g)'
  <2>1. /\ guardian'[g].pending = guardian[g].pending
        /\ guardian'[g].released = guardian[g].released
    <3>1. /\ Activated(guardian[g], a).pending = guardian[g].pending
          /\ Activated(guardian[g], a).released = guardian[g].released
      BY <1>0, <1>3, ActivatedFacts
    <3> QED
      BY <1>3, <3>1
  <2> QED
    BY <1>0, <1>3, <2>1 DEF ReleasedOK
<1>4. ASSUME NEW q \in Request, BeginAt(q, g) PROVE ReleasedOK(g)'
  <2>1. guardian[g] \in GuardianEntry /\ guardian[g] # None
    BY <1>4, CalledHasEntry DEF BeginAt
  <2>2. guardian'[g] = Begun(guardian[g], q)
    BY <1>0, <1>4 DEF BeginAt
  <2>3. /\ guardian'[g].released = guardian[g].released /\ guardian[g].released \subseteq Request
        /\ \A r \in Request : guardian[g].pending[r] # None => guardian'[g].pending[r] # None
    <3>1. /\ Begun(guardian[g], q).released = guardian[g].released
          /\ guardian[g].released \subseteq Request
          /\ \A r \in Request : guardian[g].pending[r] # None =>
                                  Begun(guardian[g], q).pending[r] # None
      <4>1. guardian[g].released \subseteq Request
        BY <2>1, EntryFields
      <4>2. /\ Begun(guardian[g], q).released = guardian[g].released
            /\ \A r \in Request : guardian[g].pending[r] # None =>
                                    Begun(guardian[g], q).pending[r] # None
        BY <1>0, <2>1, BegunFacts
      <4> QED
        BY <4>1, <4>2
    <3> QED
      BY <2>2, <3>1
  <2> QED
    BY <1>0, <2>1, <2>3 DEF ReleasedOK
<1>5. ASSUME NEW q \in Request, ReleaseAt(q, g) PROVE ReleasedOK(g)'
  <2>1. guardian[g] \in GuardianEntry /\ guardian[g] # None
    BY <1>5, CalledHasEntry DEF ReleaseAt
  <2>2. guardian'[g] = Released(guardian[g], q) /\ guardian[g].pending[q] # None
    BY <1>0, <1>5 DEF ReleaseAt, MayRelease
  <2>3. /\ guardian'[g].pending = guardian[g].pending
        /\ guardian'[g].released = guardian[g].released \cup {q}
    BY <2>1, <2>2, ReleasedFacts
  <2> QED
    BY <1>0, <2>1, <2>2, <2>3 DEF ReleasedOK
<1>6. ASSUME NEW q \in Request, NEW h \in Guardian, h # g, BeginAt(q, h) \/ ReleaseAt(q, h)
      PROVE  guardian'[g] = guardian[g]
  BY <1>0, <1>6 DEF BeginAt, ReleaseAt
<1>7. ASSUME NEW h \in Guardian, ProvisionAt(h) PROVE ReleasedOK(g)'
  BY <1>0, <1>1, <1>2, <1>7 DEF ProvisionAt
<1>8. CASE FinalizeEpoch
  BY <1>0, <1>1, <1>2, <1>8 DEF FinalizeEpoch
<1>9. ASSUME NEW h \in Guardian, NEW a \in Epoch \cup {None}, ActivateStep(h, a)
      PROVE  ReleasedOK(g)'
  <2>1. guardian'[g] = guardian[g] \/ (guardian[g] # None /\ guardian'[g] = Activated(guardian[g], a))
    BY <1>0, <1>9 DEF ActivateStep
  <2> QED
    BY <1>1, <1>3, <2>1
<1>10. CASE UNCHANGED vars \/ UNCHANGED <<guardian, latest>>
  BY <1>1, <1>10 DEF vars
<1> QED
  BY <1>1, <1>4, <1>5, <1>6, <1>7, <1>8, <1>9, <1>10, GuardianChanges

\* The initial states.
LEMMA InitInvariant == ASSUME Init PROVE IInv
<1>0. /\ 1 \in Epoch /\ roster[1] \subseteq Guardian /\ Signer # {}
      /\ Setup \in Process /\ \A q \in Request : Client(q) \in Process /\ Client(q) # Setup
      /\ \A g \in Guardian : guardian[g] = None
  BY ConstantFacts, ProcessFacts DEF Init
<1>1. /\ At("Signers") \in Proc /\ At("Idle") \in Proc /\ At("Signers").pc = "Signers"
      /\ At("Idle").pc = "Idle" /\ At("Signers").got = {} /\ Ongoing(At("Signers"), Signer)
  BY <1>0, Started DEF Stages, Ended
<1>2. /\ proc \in [Process -> Proc] /\ proc[Setup] = At("Signers")
      /\ \A q \in Request : proc[Client(q)] = At("Idle")
  BY <1>0, <1>1 DEF Init
<1>3. TypeOK
  <2>1. 0 \in 0..MaxLosses
    BY EpochRecoveryAssumption
  <2>2. /\ now \in Nat /\ card \in BOOLEAN /\ latest \in Epoch /\ recovered \subseteq Request
        /\ losses \in 0..MaxLosses
    BY <1>0, <2>1 DEF Init
  <2>3. /\ superseded_at \in [Epoch -> Nat \cup {None}]
        /\ config_ref \in [Request -> Epoch \cup {None}]
        /\ issued_at \in [Request -> Nat \cup {None}]
        /\ wake \in [Request -> Nat]
        /\ signer \in [Signer -> SignerEntry \cup {None}]
        /\ guardian \in [Guardian -> GuardianEntry \cup {None}]
    BY DEF Init
  <2> QED
    BY <1>2, <2>2, <2>3 DEF TypeOK
<1>4. SetupOK
  BY <1>0, <1>1, <1>2 DEF Init, SetupOK
<1>5. \A q \in Request : ClientOK(q) /\ ReadOK(q)
  BY <1>1, <1>2 DEF Init, ClientOK, ReadOK
<1>6. EpochsOK
  BY DEF Init, EpochsOK
<1>7. \A g \in roster[1] : MachineOK(g) /\ ReleasedOK(g)
  BY <1>0 DEF MachineOK, ReleasedOK
<1> QED
  BY <1>3, <1>4, <1>5, <1>6, <1>7 DEF IInv

\* IInv holds in every state.
LEMMA Invariant == Spec => []IInv
<1>1. IInv /\ [Next]_vars => IInv'
  BY TypeStep, SetupStep, ClientStep, ReadStep, EpochsStep, MachineStep, ReleasedStep DEF IInv
<1> QED
  BY <1>1, InitInvariant, PTL DEF Spec

-----------------------------------------------------------------------------
(* Theorems *)

\* Variables keep their types: recover_v3 never reads an entry that does not exist,
\* although entries are provisioned one by one and replaced by rotations.
THEOREM TypeCorrect == Spec => []TypeOK
<1>1. IInv => TypeOK
  BY DEF IInv
<1> QED
  BY <1>1, Invariant, PTL

\* Once the last guardian of an epoch is activated for the successor, what has not
\* been begun in the old epoch never is: no client recovers with fewer than k guardians
\* that have begun its request, however calls, losses and rotations interleave.
THEOREM CutoverTheorem == Spec => CutoverIsFinal
<1>1. ASSUME IInv, IInv', [Next]_vars, NEW q \in Request, Closed(q),
             Cardinality(Accepting(q)) < guardian_threshold
      PROVE  Cardinality(Accepting(q)') < guardian_threshold /\ q \notin recovered'
  <2>1. /\ Accepting(q)' \subseteq Accepting(q)
    <3>1. CASE UNCHANGED vars
      BY <3>1 DEF Accepting, vars
    <3>2. ASSUME NEW g \in Guardian, BeginAt(q, g) PROVE FALSE
      BY <1>1, <3>2 DEF BeginAt, MayBegin, validate_recovery_request_v3, Closed
    <3> QED
      BY <1>1, <3>1, <3>2, GuardiansGrow
  <2>2. Accepting(q)' \in SUBSET Accepting(q)
    BY <2>1
  <2>3. /\ Cardinality(Accepting(q)') <= Cardinality(Accepting(q))
        /\ Cardinality(Accepting(q)') \in Nat /\ Cardinality(Accepting(q)) \in Nat
    BY <2>2, AcceptingFinite
  <2>4. guardian_threshold \in Nat
    <3>1. guardian_threshold \in 2..Cardinality(roster[1]) /\ Cardinality(roster[1]) \in Nat
      BY EpochRecoveryAssumption, ConstantFacts, FS_CardinalityType
    <3> QED
      BY <3>1
  <2>5. Cardinality(Accepting(q)') < guardian_threshold
    BY <1>1, <2>3, <2>4
  <2>6. q \in recovered' => Cardinality(Accepting(q)') >= guardian_threshold
    BY <1>1 DEF IInv, ClientOK
  <2> QED
    BY <2>3, <2>4, <2>5, <2>6
<1>2. IInv /\ IInv' /\ [Next]_vars
      => [\A q \in Request :
            Closed(q) /\ Cardinality(Accepting(q)) < guardian_threshold =>
              /\ Cardinality(Accepting(q)') < guardian_threshold
              /\ q \notin recovered']_vars
  BY <1>1
<1> QED
  BY <1>2, Invariant, PTL DEF Spec, CutoverIsFinal

\* A signer approves in an epoch only while a read made before that epoch was
\* superseded may still be fresh, whatever the client of the request does.
THEOREM StaleReadTheorem == Spec => StaleReadsExpire
<1>1. ASSUME IInv, [Next]_vars, NEW s \in Signer, NEW q \in Request,
             signer[s] # None, q \notin signer[s].recovery_requests,
             q \in signer'[s].recovery_requests
      PROVE  \/ superseded_at[config_ref[q]] = None
             \/ now < superseded_at[config_ref[q]] + read_lifetime
  <2>1. Next
    BY <1>1 DEF vars
  <2>2. proc[Client(q)].pc = "Approve" /\ FreshRead(q)
    BY <1>1, <2>1, SignersGrow
  <2>3. config_ref[q] \in Epoch /\ config_ref[q] # None
    BY <1>1, <2>2, ConstantFacts DEF IInv, ClientOK
  <2> SUFFICES ASSUME superseded_at[config_ref[q]] # None
               PROVE  now < superseded_at[config_ref[q]] + read_lifetime
    OBVIOUS
  <2>4. /\ issued_at[q] \in Nat /\ superseded_at[config_ref[q]] \in Nat
        /\ issued_at[q] <= superseded_at[config_ref[q]] /\ now \in Nat /\ read_lifetime \in Nat
    BY <1>1, <2>3, EpochRecoveryAssumption DEF IInv, ReadOK, TypeOK
  <2> QED
    BY <2>2, <2>4 DEF FreshRead
<1>2. IInv /\ [Next]_vars
      => [\A s \in Signer, q \in Request :
            /\ signer[s] # None /\ q \notin signer[s].recovery_requests
            /\ q \in signer'[s].recovery_requests
            => \/ superseded_at[config_ref[q]] = None
               \/ now < superseded_at[config_ref[q]] + read_lifetime]_vars
  BY <1>1
<1> QED
  BY <1>2, Invariant, PTL DEF Spec, StaleReadsExpire

-----------------------------------------------------------------------------
(* The machine of gp-core *)

\* What an entry stands for in the machine, as EpochMachineOf maps it.
MachineActive(e) == IF e.active = None THEN Cardinality(e.draining) + 1 ELSE e.active
MachinePending(e) ==
  [q \in Request |-> IF e.pending[q] = None THEN None
                     ELSE [not_before |-> e.pending[q],
                           state |-> IF q \in e.released THEN "Releasing" ELSE "DelayPending"]]

\* Its pending recoveries are distinct from None.
LEMMA MachinePendingFields ==
  ASSUME NEW e \in GuardianEntry, NEW q \in Request
  PROVE  /\ MachinePending(e)[q] = None <=> e.pending[q] = None
         /\ e.pending[q] # None => MachinePending(e)[q].not_before = e.pending[q]
<1>1. e.pending[q] \in Nat \cup {None}
  BY EntryFields
<1> DEFINE m == [not_before |-> e.pending[q],
                 state |-> IF q \in e.released THEN "Releasing" ELSE "DelayPending"]
<1>2. MachinePending(e)[q] = IF e.pending[q] = None THEN None ELSE m
  BY DEF MachinePending
<1>3. e.pending[q] # None => m \in MachineRecovery
  BY <1>1 DEF MachineRecovery
<1>4. m.not_before = e.pending[q]
  OBVIOUS
<1> HIDE DEF m
<1> QED
  BY <1>2, <1>3, <1>4, EntryAssumption

\* A Begin that is not a repeated one is begin of the machine.
LEMMA BeginIsMachineStep ==
  ASSUME IInv, NEW g \in roster[1], NEW q \in Request, BeginAt(q, g), guardian[g].pending[q] = None
  PROVE  EpochMachineOf(g)!begin(q)
<1> DEFINE e == guardian[g]
           n == guardian'[g]
           v == now + minimum_recovery_delay
<1>1. /\ e \in GuardianEntry /\ e # None /\ g \in Guardian /\ now \in Nat /\ None \notin Epoch
      /\ config_ref[q] \in Epoch
  BY CalledHasEntry, ConstantFacts DEF BeginAt, IInv, TypeOK
<1>2. n = Begun(e, q) /\ config_ref[q] = e.active
  BY <1>1 DEF BeginAt, MayBegin, validate_recovery_request_v3, IInv, TypeOK
<1>3. /\ n.active = e.active /\ n.draining = e.draining /\ n.released = e.released
      /\ n.pending = [e.pending EXCEPT ![q] = v]
  BY <1>1, <1>2, BegunFacts
<1>4. v \in Nat /\ v # None
  BY <1>1, EpochRecoveryAssumption
<1>5. q \notin e.released
  BY <1>1 DEF IInv, ReleasedOK
<1>6. MachinePending(n) = [MachinePending(e) EXCEPT
                            ![q] = [not_before |-> v, state |-> "DelayPending"]]
  <2> HIDE DEF n, v
  <2>1. e.pending \in [Request -> Nat \cup {None}]
    BY <1>1, EntryFields
  <2>2. \A r \in Request : n.pending[r] = IF r = q THEN v ELSE e.pending[r]
    BY <1>3, <2>1
  <2> QED
    BY <1>3, <1>4, <1>5, <2>2 DEF MachinePending
<1>7. MachinePending(e)[q] = None
  BY DEF MachinePending
<1>8. MachineActive(e) = config_ref[q] /\ MachineActive(n) = MachineActive(e)
  BY <1>1, <1>2, <1>3 DEF MachineActive
<1> HIDE DEF e, n, v
<1> QED
  BY <1>3, <1>6, <1>7, <1>8
     DEF EpochMachineOf!begin, MachinePending, MachineActive, e, n, v

\* A release is authorize_release of the machine.
LEMMA ReleaseIsMachineStep ==
  ASSUME IInv, NEW g \in roster[1], NEW q \in Request, ReleaseAt(q, g)
  PROVE  EpochMachineOf(g)!authorize_release(q)
<1> DEFINE e == guardian[g]
           n == guardian'[g]
<1>1. /\ e \in GuardianEntry /\ e # None /\ g \in Guardian /\ None \notin Epoch
      /\ config_ref[q] \in Epoch
  BY CalledHasEntry, ConstantFacts DEF ReleaseAt
<1>2. n = Released(e, q) /\ MayRelease(e, q)
  BY <1>1 DEF ReleaseAt, IInv, TypeOK
<1>3. /\ n.active = e.active /\ n.draining = e.draining /\ n.pending = e.pending
      /\ n.released = e.released \cup {q}
  BY <1>1, <1>2, ReleasedFacts
<1>4. MachinePending(e)[q] # None /\ now >= MachinePending(e)[q].not_before
  BY <1>1, <1>2, MachinePendingFields DEF MayRelease
<1>5. MachinePending(n) = [MachinePending(e) EXCEPT ![q].state = "Releasing"]
  <2> HIDE DEF n
  <2>1. ASSUME NEW r \in Request, r # q PROVE MachinePending(n)[r] = MachinePending(e)[r]
    BY <1>3, <2>1 DEF MachinePending
  <2> DEFINE v == [MachinePending(e)[q] EXCEPT !.state = "Releasing"]
  <2>2. MachinePending(n)[q] = v
    <3>1. e.pending[q] # None
      BY <1>2 DEF MayRelease
    <3> QED
      BY <1>3, <3>1 DEF MachinePending
  <2> HIDE DEF v
  <2>3. \A r \in Request : MachinePending(n)[r] = IF r = q THEN v ELSE MachinePending(e)[r]
    BY <2>1, <2>2
  <2>4. /\ MachinePending(n) = [r \in Request |-> MachinePending(n)[r]]
        /\ MachinePending(e) = [r \in Request |-> MachinePending(e)[r]]
    BY DEF MachinePending
  <2>5. MachinePending(n) = [MachinePending(e) EXCEPT ![q] = v]
    BY <2>3, <2>4
  <2> QED
    BY <2>5 DEF v
<1>6. config_ref[q] \in {MachineActive(e)} \cup e.draining
  BY <1>1, <1>2 DEF MayRelease, record_for_request, MachineActive
<1>7. MachineActive(n) = MachineActive(e)
  BY <1>3 DEF MachineActive
<1> HIDE DEF e, n
<1> QED
  BY <1>3, <1>4, <1>5, <1>6, <1>7
     DEF EpochMachineOf!authorize_release, EpochMachineOf!Known, MachinePending, MachineActive, e, n

\* An activation, of a successor or of a guardian that is replaced, is
\* activate_successor of the machine.
LEMMA ActivateIsMachineStep ==
  ASSUME IInv, NEW g \in roster[1], NEW a \in Epoch \cup {None}, ActivateStep(g, a)
  PROVE  EpochMachineOf(g)!activate_successor
<1> DEFINE e == guardian[g]
           n == guardian'[g]
           b == e.active
<1>1. /\ e \in GuardianEntry /\ e # None /\ g \in Guardian /\ MachineOK(g)
      /\ latest \in Epoch /\ Epoch \subseteq Nat \ {0} /\ None \notin Epoch
      /\ \/ a = latest /\ g \in roster[latest] /\ b # latest
         \/ a = None /\ g \notin roster[latest] /\ b # None
  BY ConstantFacts DEF ActivateStep, IInv, TypeOK
<1>2. n = Activated(e, a)
  BY <1>1 DEF ActivateStep, IInv, TypeOK
<1>3. b # None
  BY <1>1 DEF MachineOK
<1>4. /\ b \in Epoch /\ e.draining = 1..(b - 1)
      /\ g \in roster[latest] => b \in {latest - 1, latest}
  BY <1>1, <1>3, EntryFields DEF MachineOK
<1>5. /\ n.active = a /\ n.draining = e.draining \cup {b}
      /\ n.pending = e.pending /\ n.released = e.released
  <2>1. /\ Activated(e, a).active = a
        /\ Activated(e, a).draining = IF e.active = None THEN e.draining
                                      ELSE e.draining \cup {e.active}
        /\ Activated(e, a).pending = e.pending /\ Activated(e, a).released = e.released
    BY <1>1, ActivatedFacts
  <2> QED
    BY <1>2, <1>3, <2>1
<1>6. MachineActive(e) = b
  BY <1>3 DEF MachineActive
<1>7. b \in Nat \ {0} /\ latest \in Nat
  BY <1>1, <1>4
<1> HIDE DEF b, n, e
<1>8. MachineActive(n) = b + 1
  <2>1. CASE a = None
    <3>1. n.draining = 1..b
      BY <1>4, <1>5, <1>7
    <3>2. Cardinality(1..b) = b
      <4>1. 1 \in Int /\ b \in Int /\ ~(1 > b)
        BY <1>7
      <4>2. Cardinality(1..b) = IF 1 > b THEN 0 ELSE b - 1 + 1
        BY <4>1, FS_Interval
      <4> QED
        BY <1>7, <4>1, <4>2
    <3> QED
      BY <1>5, <2>1, <3>1, <3>2 DEF MachineActive
  <2>2. CASE a = latest
    <3>1. a # None /\ latest = b + 1
      BY <1>1, <1>4, <1>7, <2>2
    <3> QED
      BY <1>5, <2>2, <3>1 DEF MachineActive
  <2> QED
    BY <1>1, <2>1, <2>2
<1>9. MachinePending(n) = MachinePending(e)
  BY <1>5 DEF MachinePending
<1> QED
  BY <1>5, <1>6, <1>8, <1>9
     DEF EpochMachineOf!activate_successor, MachinePending, MachineActive, e, n

\* Every guardian of the first epoch goes through the states of one
\* EpochRecoveryMachine of gp-core, although the server spreads them over its entry
\* and the epoch store and reaches it through rotations that it does not coordinate.
THEOREM GuardianMachineTheorem == Spec => GuardianFollowsMachine
<1>1. ASSUME IInv, Next, NEW g \in roster[1], guardian[g] = None
      PROVE  guardian'[g] = None \/ (EpochMachineOf(g)!New)'
  <2>0. g \in Guardian /\ guardian \in [Guardian -> GuardianEntry \cup {None}]
    BY <1>1, ConstantFacts DEF IInv, TypeOK
  <2>1. guardian'[g] \in {None, NewGuardian(1), NewGuardian(None)}
    <3>1. CASE UNCHANGED <<guardian, latest>>
      BY <1>1, <3>1
    <3>2. CASE \E h \in Guardian : ProvisionAt(h)
      BY <1>1, <2>0, <3>2 DEF ProvisionAt
    <3>3. CASE FinalizeEpoch
      BY <1>1, <2>0, <3>3 DEF FinalizeEpoch
    <3>4. CASE \E h \in Guardian, a \in Epoch \cup {None} : ActivateStep(h, a) /\ UNCHANGED latest
      BY <1>1, <2>0, <3>4 DEF ActivateStep
    <3>5. ASSUME NEW q \in Request, NEW h \in Guardian, BeginAt(q, h) \/ ReleaseAt(q, h)
          PROVE  guardian'[g] = None
      <4>1. guardian[h] # None
        BY <1>1, <3>5, CalledHasEntry DEF BeginAt, ReleaseAt
      <4> QED
        BY <1>1, <2>0, <3>5, <4>1 DEF BeginAt, ReleaseAt
    <3> QED
      BY <1>1, <3>1, <3>2, <3>3, <3>4, <3>5, GuardianChanges
  <2>2. ASSUME NEW a, guardian'[g] = NewGuardian(a) PROVE (EpochMachineOf(g)!New)'
    <3>1. guardian'[g].draining = {} /\ \A q \in Request : guardian'[g].pending[q] = None
      BY <2>2 DEF NewGuardian
    <3> QED
      BY <3>1 DEF EpochMachineOf!New
  <2> QED
    BY <2>1, <2>2
<1>2. ASSUME IInv, Next, NEW g \in roster[1], guardian[g] # None
      PROVE  [EpochMachineOf(g)!Next]_(EpochMachineOf(g)!vars)
  <2>0. g \in Guardian /\ guardian \in [Guardian -> GuardianEntry \cup {None}] /\ now \in Nat
    BY <1>2, ConstantFacts DEF IInv, TypeOK
  <2>1. ASSUME guardian'[g] = guardian[g] PROVE UNCHANGED EpochMachineOf(g)!vars
    BY <2>1 DEF EpochMachineOf!vars
  <2>2. CASE \E h \in Guardian : ProvisionAt(h)
    <3>1. PICK h \in Guardian : ProvisionAt(h)
      BY <2>2
    <3>2. guardian[g] = NewGuardian(1)
      BY <1>2, <2>0, <3>1 DEF ProvisionAt, IInv, SetupOK
    <3>3. guardian'[g] = guardian[g]
      BY <2>0, <3>1, <3>2 DEF ProvisionAt
    <3> QED
      BY <2>1, <3>3
  <2>3. CASE FinalizeEpoch
    <3>1. guardian'[g] = guardian[g]
      BY <1>2, <2>0, <2>3 DEF FinalizeEpoch
    <3> QED
      BY <2>1, <3>1
  <2>4. ASSUME NEW h \in Guardian, NEW a \in Epoch \cup {None}, ActivateStep(h, a)
        PROVE  guardian'[g] = guardian[g] \/ EpochMachineOf(g)!Next
    <3>1. CASE h # g
      BY <2>0, <2>4, <3>1 DEF ActivateStep
    <3>2. CASE h = g
      BY <1>2, <2>4, <3>2, ActivateIsMachineStep DEF EpochMachineOf!Next
    <3> QED
      BY <3>1, <3>2
  <2>5. ASSUME NEW q \in Request, NEW h \in Guardian, BeginAt(q, h) \/ ReleaseAt(q, h)
        PROVE  guardian'[g] = guardian[g] \/ EpochMachineOf(g)!Next
    <3>1. CASE h # g
      BY <2>0, <2>5, <3>1 DEF BeginAt, ReleaseAt
    <3>2. CASE h = g /\ ReleaseAt(q, h)
      BY <1>2, <3>2, ReleaseIsMachineStep DEF EpochMachineOf!Next
    <3>3. CASE h = g /\ BeginAt(q, h) /\ guardian[g].pending[q] = None
      BY <1>2, <3>3, BeginIsMachineStep DEF EpochMachineOf!Next
    <3>4. CASE h = g /\ BeginAt(q, h) /\ guardian[g].pending[q] # None
      <4>1. guardian[g] \in GuardianEntry
        BY <1>2, <2>0
      <4>2. Begun(guardian[g], q) = guardian[g]
        BY <2>0, <3>4, <4>1, BegunFacts
      <4> QED
        BY <2>0, <3>4, <4>2 DEF BeginAt
    <3> QED
      BY <2>5, <3>1, <3>2, <3>3, <3>4
  <2> QED
    BY <1>2, <2>1, <2>2, <2>3, <2>4, <2>5, GuardianChanges
<1>3. IInv /\ [Next]_vars
      => [\A g \in roster[1] :
            IF guardian[g] = None
            THEN guardian'[g] = None \/ (EpochMachineOf(g)!New)'
            ELSE [EpochMachineOf(g)!Next]_(EpochMachineOf(g)!vars)]_vars
  BY <1>1, <1>2
<1> QED
  BY <1>3, Invariant, PTL DEF Spec, GuardianFollowsMachine
=============================================================================
