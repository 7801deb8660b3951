---------------------- MODULE RotationCoordinatorProofs ----------------------
(***************************************************************************)
(* Theorems about RotationCoordinator, for any number of signers, guardians, *)
(* relays and runs, any fault bound of the witnesses, and any number of      *)
(* crashes and losses.                                                       *)
(***************************************************************************)
EXTENDS RotationCoordinator, CallsProofs

-----------------------------------------------------------------------------
(* Rosters, quorums and epochs *)

\* What the assumption on the constants says of the sets that are made from them.
LEMMA SetFacts ==
  /\ Rotation \subseteq Nat \ {0} /\ Epoch \subseteq Nat /\ Genesis \in Epoch
  /\ Rotation \subseteq Epoch /\ Genesis \notin Rotation /\ None \notin Epoch
  /\ \A e \in Epoch : e = Genesis \/ e \in Rotation
  /\ Signer \subseteq Nat /\ Signer # {} /\ IsFiniteSet(Signer)
  /\ Guardian \subseteq Nat /\ IsFiniteSet(Guardian)
  /\ Witness \subseteq Nat /\ Witness # {} /\ IsFiniteSet(Witness)
  /\ Cardinality(Witness) = 3 * witness_fault_bound + 1
  /\ required_witnesses \in Nat \ {0} /\ witness_fault_bound \in Nat
  /\ guardian_threshold \in Nat \ {0}
<1>1. /\ signer_count \in Nat \ {0} /\ guardian_count \in Nat /\ MaxRuns \in Nat
      /\ witness_fault_bound \in Nat \ {0} /\ None \notin Nat /\ guardian_threshold \in Nat \ {0}
  BY CoordinatorAssumption
<1>2. /\ Rotation \subseteq Nat \ {0} /\ Epoch \subseteq Nat /\ Genesis \in Epoch
      /\ Rotation \subseteq Epoch /\ Genesis \notin Rotation /\ None \notin Epoch
      /\ \A e \in Epoch : e = Genesis \/ e \in Rotation
  BY <1>1 DEF Rotation, Epoch, Genesis
<1>3. Signer \subseteq Nat /\ 1 \in Signer /\ IsFiniteSet(Signer)
  <2>1. IsFiniteSet(1..signer_count)
    BY <1>1, FS_Interval
  <2> QED
    BY <1>1, <2>1 DEF Signer
<1>4. Guardian \subseteq Nat /\ IsFiniteSet(Guardian)
  <2>1. guardian_count + MaxRuns \in Int
    BY <1>1
  <2>2. IsFiniteSet(1..(guardian_count + MaxRuns))
    BY <2>1, FS_Interval
  <2> QED
    BY <1>1, <2>2 DEF Guardian
<1>5. /\ Witness \subseteq Nat /\ 1 \in Witness /\ IsFiniteSet(Witness)
      /\ Cardinality(Witness) = 3 * witness_fault_bound + 1
  <2> DEFINE n == 3 * witness_fault_bound + 1
  <2>1. n \in Nat /\ n >= 1
    BY <1>1
  <2> HIDE DEF n
  <2>2. IsFiniteSet(1..n) /\ Cardinality(1..n) = n
    BY <2>1, FS_Interval
  <2>3. 1..n \subseteq Nat /\ 1 \in 1..n
    BY <2>1
  <2> QED
    BY <2>2, <2>3 DEF Witness, n
<1>6. required_witnesses \in Nat \ {0}
  BY <1>1 DEF required_witnesses
<1> QED
  BY <1>1, <1>2, <1>3, <1>4, <1>5, <1>6

\* The candidates are guardians, told apart, and not in the first roster.
LEMMA AddedFacts ==
  /\ \A r \in Rotation : Added(r) \in Guardian /\ Added(r) \notin 1..guardian_count
  /\ \A q, r \in Rotation : Added(q) = Added(r) => q = r
  /\ 1..guardian_count \subseteq Guardian
  /\ 1 \in 1..guardian_count /\ 2 \in 1..guardian_count
  BY CoordinatorAssumption DEF Added, Guardian, Rotation

\* Two quorums of witnesses have a member in common.
LEMMA QuorumsMeet ==
  ASSUME NEW P \in ReadQuorums, NEW Q \in ReadQuorums
  PROVE  \E w \in P \cap Q : w \in Witness
<1>1. /\ P \subseteq Witness /\ Q \subseteq Witness
      /\ Cardinality(P) >= required_witnesses /\ Cardinality(Q) >= required_witnesses
  BY DEF ReadQuorums
<1>2. IsFiniteSet(P) /\ IsFiniteSet(Q)
  BY <1>1, SetFacts, FS_Subset
<1>3. /\ IsFiniteSet(P \cup Q) /\ IsFiniteSet(P \cap Q)
      /\ Cardinality(P \cup Q) = Cardinality(P) + Cardinality(Q) - Cardinality(P \cap Q)
  BY <1>2, FS_Union, FS_Intersection
<1>4. Cardinality(P \cup Q) <= Cardinality(Witness)
  BY <1>1, SetFacts, FS_Subset
<1>5. /\ Cardinality(P) \in Nat /\ Cardinality(Q) \in Nat /\ Cardinality(P \cap Q) \in Nat
      /\ Cardinality(P \cup Q) \in Nat
  BY <1>2, <1>3, FS_CardinalityType
<1>6. Cardinality(P \cap Q) > 0
  BY <1>1, <1>3, <1>4, <1>5, SetFacts DEF required_witnesses
<1>7. P \cap Q # {}
  BY <1>6, FS_EmptySet
<1> QED
  BY <1>1, <1>7

\* A set of witnesses that holds a quorum is one, and its complement is small.
LEMMA QuorumsGrow ==
  ASSUME NEW P \in ReadQuorums, NEW S \in SUBSET Witness, P \subseteq S
  PROVE  /\ S \in ReadQuorums
         /\ Cardinality(S) >= required_witnesses
         /\ Cardinality(Witness \ S) <= witness_fault_bound
<1>1. IsFiniteSet(S) /\ Cardinality(P) <= Cardinality(S)
  <2>1. IsFiniteSet(S)
    BY SetFacts, FS_Subset
  <2> QED
    BY <2>1, FS_Subset
<1>2. IsFiniteSet(P) /\ IsFiniteSet(S \cap Witness) /\ S \cap Witness = S
  BY <1>1, FS_Subset
<1>3. Cardinality(P) \in Nat /\ Cardinality(S) \in Nat /\ Cardinality(P) >= required_witnesses
  BY <1>1, <1>2, FS_CardinalityType DEF ReadQuorums
<1>4. /\ IsFiniteSet(Witness \ S)
      /\ Cardinality(Witness \ S) = Cardinality(Witness) - Cardinality(Witness \cap S)
  BY SetFacts, FS_Difference
<1>5. Witness \cap S = S
  OBVIOUS
<1>6. Cardinality(S) >= required_witnesses
  BY <1>1, <1>3, SetFacts
<1>7. Cardinality(Witness \ S) = Cardinality(Witness) - Cardinality(S)
  BY <1>4, <1>5
<1>8. Cardinality(Witness \ S) <= witness_fault_bound
  BY <1>3, <1>6, <1>7, SetFacts DEF required_witnesses
<1> QED
  BY <1>6, <1>8 DEF ReadQuorums

-----------------------------------------------------------------------------
(* The plans, and the two processes *)

\* Some run has read what it needs to make epoch e.
Planned(e) == e = Genesis \/ (e \in Rotation /\ plan[e] # None)

\* A run plans the successor of an epoch that was planned before.
PlanOK(r) ==
  plan[r] # None =>
    LET p == plan[r]
    IN /\ p.predecessor \in Epoch /\ Planned(p.predecessor)
       /\ p.guardian_epoch = guardian_epoch(p.predecessor) + 1
       /\ p.old_roster = roster(p.predecessor)
       /\ p.new_roster = (p.old_roster \ {remove_guardian[r]}) \cup {Added(r)}

\* A roster has two members at least, and only candidates of earlier epochs.
RosterOK(e) ==
  Planned(e) =>
    /\ guardian_epoch(e) \in Nat \ {0}
    /\ roster(e) \subseteq Guardian
    /\ \E a, b \in roster(e) : a # b
    /\ \A q \in Rotation : Added(q) \in roster(e) =>
         Planned(q) /\ guardian_epoch(q) <= guardian_epoch(e)

PlansOK ==
  /\ \A r \in Rotation : PlanOK(r)
  /\ \A e \in Epoch : RosterOK(e)
  /\ \A w \in Witness : Planned(witness[w].capsule)
  /\ control_file # None => Planned(control_file)

CancelStages == {"Veto", "CancelOld", "CancelNew", "AbortVotes", "Abort",
                 "FinalizeOwnerCancel"}
Early == {"Intent", "NodeInfo", "Alias", "Candidate"}
Preparing == {"RepairRound1", "RepairRound2", "RepairFinalize", "RefreshRound1",
              "RefreshRound2", "RefreshFinalize", "StageMaterial", "PrepareCommit",
              "HandoffComplete"}
Activating == {"Activate", "ActivateRemoved", "OwnerFile"}
SignerStages == {"Intent", "BeginVotes", "ReleaseVotes", "ActivateVotes", "AbortVotes",
                 "FinalizeOwnerCancel"}
HelperStages == {"RepairRound1", "RepairRound2", "HandoffComplete"}
LocalStages == {"NodeInfo", "Control", "Sleep", "OwnerFile"}

\* The helpers of rotation r.
Helpers(r) ==
  LET stay == plan[r].old_roster \cap plan[r].new_roster
  IN {g \in stay : Cardinality({h \in stay : h < g}) < guardian_threshold}

\* Whom process p calls in its present stage.
TargetsOf(p) ==
  LET old == plan[p.r].old_roster
      new == plan[p.r].new_roster
  IN IF p.pc \in SignerStages THEN Signer
     ELSE IF p.pc \in {"WitnessActivate", "Veto"} THEN Witness
     ELSE IF p.pc = "WitnessFinalize" THEN p.acked
     ELSE IF p.pc \in {"Candidate", "RepairFinalize"} THEN {Added(p.r)}
     ELSE IF p.pc = "Alias" THEN old \cap new
     ELSE IF p.pc \in {"BeginRemoved", "ActivateRemoved"} THEN {remove_guardian[p.r]}
     ELSE IF p.pc \in HelperStages THEN Helpers(p.r)
     ELSE IF p.pc = "CancelOld" THEN old
     ELSE IF p.pc = "CancelNew" THEN new \ old
     ELSE IF p.pc = "Abort" THEN old \cup new
     ELSE new

\* What a process has made sure of by the stage it is in.
StageOK(p) ==
  p.pc \in Stages =>
    /\ p.r \in Rotation /\ plan[p.r] # None
    /\ p.pc \notin CancelStages \cup {"Intent", "NodeInfo"} =>
         remove_guardian[p.r] \in plan[p.r].old_roster
    /\ p.pc \in Preparing => Cardinality(Helpers(p.r)) >= guardian_threshold
    /\ p.pc = "WitnessFinalize" => p.acked \in ReadQuorums

ProcOK(c) ==
  LET p == proc[c]
  IN /\ StageOK(p)
     /\ p.pc \in Stages \ LocalStages => Ongoing(p, TargetsOf(p))
     /\ p.pc \in Stages => (c = "cancel" <=> p.pc \in CancelStages)

ProcsOK == ProcOK("rotate") /\ ProcOK("cancel")

Base == TypeOK /\ PlansOK /\ ProcsOK

-----------------------------------------------------------------------------
(* Who holds what *)

\* Witness w has finalized rotation r and gone on from it, if at all; it has vetoed it.
Finalized(w, r) ==
  /\ witness[w].cancellations[r] = 0
  /\ \/ witness[w].capsule = r
     \/ guardian_epoch(witness[w].capsule) > guardian_epoch(r)

Vetoed(w, r) == witness[w].cancellations[r] # 0

FinalQuorum(r) == \E Q \in ReadQuorums : \A w \in Q : Finalized(w, r)
VetoQuorum(r) == \E Q \in ReadQuorums : \A w \in Q : Vetoed(w, r)

\* A pending child is the next epoch of its witness, and nobody it knows has vetoed it.
WitnessOK(w) ==
  LET e == witness[w]
  IN /\ e.pending # None => /\ Planned(e.pending)
                            /\ plan[e.pending].predecessor = e.capsule
                            /\ e.cancellations[e.pending] = 0
     /\ e.capsule # Genesis => e.cancellations[e.capsule] = 0

\* What the coordinator knows of the witnesses, by its stage and by its results.
DecisionOK ==
  /\ proc["rotate"].pc = "WitnessFinalize" =>
       \A w \in proc["rotate"].got : w \in Witness /\ Finalized(w, run)
  /\ proc["rotate"].pc \in Activating => FinalQuorum(run)
  /\ \A r \in completed : Planned(r) /\ FinalQuorum(r)
  /\ proc["cancel"].pc = "Veto" =>
       attempts > 0 /\ \A w \in proc["cancel"].got : w \in Witness /\ Vetoed(w, target)
  /\ proc["cancel"].pc \in CancelStages \ {"Veto"} => VetoQuorum(target)
  /\ \A r \in cancelled : Planned(r) /\ VetoQuorum(r)

\* Where a guardian is: not there yet, a candidate, or with the first epoch or one
\* that a quorum has finalized.  It prepares the record of a roster it is in.
GuardianOK(g) ==
  LET e == guardian[g]
  IN /\ \/ e.capsule = None /\ e.active = None /\ g \notin 1..guardian_count
        \/ /\ e.active = None
           /\ \E q \in Rotation : /\ g = Added(q) /\ plan[q] # None
                                  /\ e.capsule = plan[q].predecessor
        \/ e.capsule = Genesis /\ e.active = Genesis /\ g \in 1..guardian_count
        \/ /\ e.capsule \in Rotation /\ plan[e.capsule] # None /\ FinalQuorum(e.capsule)
           /\ e.active = IF g \in plan[e.capsule].new_roster THEN e.capsule ELSE None
     /\ e.prepared # None => Planned(e.prepared) /\ g \in plan[e.prepared].new_roster

\* The candidate of a run that has not come past its provisioning serves no epoch.
CandidatesOK ==
  \A r \in Rotation :
    LET e == guardian[Added(r)]
    IN /\ plan[r] = None => e.capsule = None
       /\ run = r /\ proc["rotate"].pc \in Early =>
            e.active = None /\ e.capsule \in {None, plan[r].predecessor}

\* Guardian g has the record of r, or it has gone on from r.
Held(g, r) ==
  \/ guardian[g].prepared = r
  \/ /\ guardian[g].capsule # None
     /\ guardian_epoch(guardian[g].capsule) >= guardian_epoch(r)

AllHold(r) == VetoQuorum(r) \/ \A g \in plan[r].new_roster : Held(g, r)

\* The stages after the preparation.
Later == Activating \cup {"HandoffComplete", "ActivateVotes", "WitnessActivate",
                          "WitnessFinalize"}

\* Whoever relies on the records of a rotation may do so.
RecordsOK ==
  /\ proc["rotate"].pc = "PrepareCommit" =>
       VetoQuorum(run) \/ \A g \in proc["rotate"].got : Held(g, run)
  /\ proc["rotate"].pc \in Later => AllHold(run)
  /\ \A w \in Witness :
       /\ witness[w].pending # None => AllHold(witness[w].pending)
       /\ witness[w].capsule # Genesis => AllHold(witness[w].capsule)

Decisions == (\A w \in Witness : WitnessOK(w)) /\ DecisionOK
Guardians == (\A g \in Guardian : GuardianOK(g)) /\ CandidatesOK

\* The inductive invariant.
IInv == Base /\ Decisions /\ Guardians /\ RecordsOK

-----------------------------------------------------------------------------
(* Every stage has somebody to call *)

\* The rosters of a plan.
LEMMA PlanFacts ==
  ASSUME PlansOK, NEW r \in Rotation, plan[r] # None
  PROVE  /\ Planned(r) /\ plan[r].predecessor \in Epoch /\ Planned(plan[r].predecessor)
         /\ guardian_epoch(plan[r].predecessor) \in Nat \ {0} /\ guardian_epoch(r) \in Nat \ {0}
         /\ guardian_epoch(r) = guardian_epoch(plan[r].predecessor) + 1
         /\ guardian_epoch(r) = plan[r].guardian_epoch
         /\ roster(r) = plan[r].new_roster
         /\ plan[r].old_roster = roster(plan[r].predecessor)
         /\ plan[r].new_roster = (plan[r].old_roster \ {remove_guardian[r]}) \cup {Added(r)}
         /\ plan[r].old_roster \subseteq Guardian /\ plan[r].new_roster \subseteq Guardian
         /\ Added(r) \notin plan[r].old_roster
         /\ plan[r].old_roster \cap plan[r].new_roster # {}
         /\ plan[r].predecessor # r
<1>1. PlanOK(r) /\ Planned(r) /\ r \in Epoch /\ RosterOK(r)
  BY SetFacts DEF PlansOK, Planned
<1>2. /\ plan[r].predecessor \in Epoch /\ Planned(plan[r].predecessor)
      /\ plan[r].guardian_epoch = guardian_epoch(plan[r].predecessor) + 1
      /\ plan[r].old_roster = roster(plan[r].predecessor)
      /\ plan[r].new_roster = (plan[r].old_roster \ {remove_guardian[r]}) \cup {Added(r)}
  BY <1>1 DEF PlanOK
<1>3. guardian_epoch(r) = plan[r].guardian_epoch /\ roster(r) = plan[r].new_roster
  BY SetFacts DEF guardian_epoch, roster
<1>4. /\ guardian_epoch(plan[r].predecessor) \in Nat \ {0} /\ guardian_epoch(r) \in Nat \ {0}
      /\ roster(r) \subseteq Guardian /\ roster(plan[r].predecessor) \subseteq Guardian
      /\ \E a, b \in roster(plan[r].predecessor) : a # b
      /\ Added(r) \in roster(plan[r].predecessor) =>
            guardian_epoch(r) <= guardian_epoch(plan[r].predecessor)
  BY <1>1, <1>2 DEF PlansOK, RosterOK
<1>5. Added(r) \notin plan[r].old_roster
  BY <1>2, <1>3, <1>4
<1>6. plan[r].old_roster \cap plan[r].new_roster # {}
  BY <1>2, <1>4
<1>7. plan[r].predecessor # r
  BY <1>2, <1>3, <1>4
<1> QED
  BY <1>1, <1>2, <1>3, <1>4, <1>5, <1>6, <1>7

\* Whom the processes call is there, and somebody is to be called in every stage.
LEMMA TargetFacts ==
  ASSUME PlansOK, NEW p, StageOK(p), p.pc \in Stages \ LocalStages
  PROVE  /\ p.r \in Rotation /\ plan[p.r] # None
         /\ TargetsOf(p) # {} /\ TargetsOf(p) \in SUBSET Nat
         /\ p.pc \in SignerStages => TargetsOf(p) = Signer
         /\ p.pc \in {"WitnessActivate", "Veto"} => TargetsOf(p) = Witness
         /\ p.pc = "WitnessFinalize" => TargetsOf(p) \subseteq Witness
         /\ p.pc \notin SignerStages \cup {"WitnessActivate", "WitnessFinalize", "Veto"} =>
              TargetsOf(p) \subseteq Guardian
<1> DEFINE r == p.r
<1>1. r \in Rotation /\ plan[r] # None
  BY DEF StageOK
<1>2. /\ plan[r].old_roster \subseteq Guardian /\ plan[r].new_roster \subseteq Guardian
      /\ Added(r) \notin plan[r].old_roster /\ Added(r) \in plan[r].new_roster
      /\ plan[r].old_roster \cap plan[r].new_roster # {}
      /\ Added(r) \in Guardian
  BY <1>1, PlanFacts, AddedFacts
<1>3. Helpers(r) \subseteq Guardian
  BY <1>2 DEF Helpers
<1>4. p.pc \in Preparing => Helpers(r) # {}
  <2>1. ASSUME Cardinality(Helpers(r)) >= guardian_threshold PROVE Helpers(r) # {}
    BY <2>1, SetFacts, FS_EmptySet
  <2> QED
    BY <2>1 DEF StageOK
<1>5. p.pc = "WitnessFinalize" => p.acked # {} /\ p.acked \subseteq Witness
  <2>1. ASSUME p.acked \in ReadQuorums PROVE p.acked # {} /\ p.acked \subseteq Witness
    <3>1. p.acked \subseteq Witness /\ Cardinality(p.acked) >= required_witnesses
      BY <2>1 DEF ReadQuorums
    <3>2. required_witnesses \in Nat \ {0}
      BY SetFacts
    <3> HIDE DEF r
    <3> QED
      BY <3>1, <3>2, FS_EmptySet
  <2> QED
    BY <2>1 DEF StageOK
<1>6. p.pc \in {"BeginRemoved", "ActivateRemoved"} => remove_guardian[r] \in plan[r].old_roster
  BY DEF StageOK, CancelStages
<1>7. CASE p.pc \in SignerStages \cup {"WitnessActivate", "WitnessFinalize", "Veto"}
  BY <1>1, <1>5, <1>7, SetFacts DEF TargetsOf, SignerStages
<1>8. CASE p.pc \notin SignerStages \cup {"WitnessActivate", "WitnessFinalize", "Veto"}
  <2>1. TargetsOf(p) # {} /\ TargetsOf(p) \subseteq Guardian
    BY <1>2, <1>3, <1>4, <1>6, <1>8 DEF TargetsOf, HelperStages, Preparing
  <2> QED
    BY <1>1, <1>8, <2>1, SetFacts
<1> QED
  BY <1>7, <1>8

-----------------------------------------------------------------------------
(* What a call does to the process that makes it *)

\* A member of Proc has the fields of a process.
LEMMA ProcFields ==
  ASSUME NEW p \in Proc
  PROVE  /\ IsProcess(p) /\ p.tries \in Nat /\ p.pc \in Stages \cup Ended
         /\ p.r \in Rotation \cup {None}
         /\ p.called \subseteq Nat /\ p.got \subseteq Nat /\ p.acked \subseteq Nat
         /\ DOMAIN p = {"pc", "r", "called", "got", "acked", "tries"}
  BY DEF Proc, IsProcess

\* A record that differs from a process in the fields of calls is one.
LEMMA SameOwnerProc ==
  ASSUME NEW p \in Proc, NEW n, SameOwner(p, n), n.pc \in Stages \cup Ended,
         n.called \subseteq Nat, n.got \subseteq Nat, n.acked \subseteq Nat, n.tries \in Nat
  PROVE  n \in Proc /\ n.r = p.r
<1>1. DOMAIN n = {"pc", "r", "called", "got", "acked", "tries"} /\ DOMAIN p = DOMAIN n
  BY ProcFields DEF SameOwner
<1>2. n = [f \in DOMAIN n |-> n[f]]
  BY DEF SameOwner, IsProcess
<1>3. n = [pc |-> n.pc, r |-> n.r, called |-> n.called, got |-> n.got, acked |-> n.acked,
           tries |-> n.tries]
  BY <1>1, <1>2
<1>4. n.r = p.r /\ p.r \in Rotation \cup {None}
  BY <1>1, ProcFields DEF SameOwner
<1> QED
  BY <1>3, <1>4 DEF Proc

\* Process p may go from its stage to stage pc.
MayEnter(p, pc) ==
  /\ pc \in Stages \cup Ended
  /\ pc \in Stages =>
       /\ pc \in CancelStages <=> p.pc \in CancelStages
       /\ p.pc = "Intent" => pc = "NodeInfo"
       /\ p.pc = "NodeInfo" => remove_guardian[p.r] \in plan[p.r].old_roster
       /\ pc \in Preparing =>
            p.pc \in Preparing \/ Cardinality(Helpers(p.r)) >= guardian_threshold

\* The ends of stage st are stages that come after the one of p.
StageEnds(p, st) ==
  /\ MayEnter(p, st.next)
  /\ MayEnter(p, st.otherwise)
  /\ st.otherwise # "WitnessFinalize"
  /\ st.next = "WitnessFinalize" =>
       p.pc = "WitnessActivate" /\ st.need = required_witnesses

\* c has made a call in stage st, and if ok then x is one of those who have answered.
CallDone(c, st, x, ok) ==
  \E G \in SUBSET st.targets :
    /\ Outcome(proc[c], proc'[c], G, st)
    /\ \A y \in G : y \in proc[c].got \/ (ok /\ y = x)

\* The two processes are told apart.
LEMMA OtherProcess ==
  ASSUME TypeOK, NEW c \in Process, NEW n \in Proc, proc' = [proc EXCEPT ![c] = n]
  PROVE  /\ proc' \in [Process -> Proc] /\ proc'[c] = n
         /\ \A d \in Process : d # c => proc'[d] = proc[d]
         /\ c = "rotate" \/ c = "cancel"
  BY DEF TypeOK, Process

\* A process that is not touched stays in order.
LEMMA ProcFrame ==
  ASSUME NEW c \in Process, ProcOK(c), proc'[c] = proc[c], plan' = plan
  PROVE  ProcOK(c)'
  BY DEF ProcOK, TargetsOf, StageOK, Helpers, ReadQuorums

\* A process that enters a stage is in order.
LEMMA EnteredOK ==
  ASSUME Base, NEW c \in Process, NEW n \in Proc, n.r = proc[c].r, proc[c].pc \in Stages,
         n.called = {}, n.got = {}, MayEnter(proc[c], n.pc),
         n.pc = "WitnessFinalize" => n.acked \in ReadQuorums,
         proc' = [proc EXCEPT ![c] = n], plan' = plan
  PROVE  ProcsOK'
<1> DEFINE p == proc[c]
<1>1. /\ proc'[c] = n /\ \A d \in Process : d # c => proc'[d] = proc[d]
  BY OtherProcess DEF Base
<1>2. ProcOK(c) /\ StageOK(p)
  <2>1. c = "rotate" \/ c = "cancel"
    BY DEF Process
  <2> QED
    BY <2>1 DEF Base, ProcsOK, ProcOK
<1>3. StageOK(n)
  <2>1. CASE n.pc \notin Stages
    BY <2>1 DEF StageOK
  <2>2. CASE n.pc \in Stages
    <3>1. n.r \in Rotation /\ plan[n.r] # None
      BY <1>2 DEF StageOK
    <3>2. n.pc \notin CancelStages \cup {"Intent", "NodeInfo"} =>
            remove_guardian[n.r] \in plan[n.r].old_roster
      BY <1>2, <2>2 DEF StageOK, MayEnter
    <3>3. n.pc \in Preparing => Cardinality(Helpers(n.r)) >= guardian_threshold
      BY <1>2, <2>2 DEF StageOK, MayEnter
    <3> QED
      BY <3>1, <3>2, <3>3 DEF StageOK
  <2> QED
    BY <2>1, <2>2
<1>4. n.pc \in Stages \ LocalStages => Ongoing(n, TargetsOf(n))
  BY <1>3, TargetFacts DEF Ongoing, Base
<1>5. n.pc \in Stages => (c = "cancel" <=> n.pc \in CancelStages)
  BY <1>2 DEF ProcOK, MayEnter
<1>6. ProcOK(c)'
  BY <1>1, <1>3, <1>4, <1>5 DEF ProcOK, TargetsOf, StageOK, Helpers, ReadQuorums
<1>7. ASSUME NEW d \in Process, d # c PROVE ProcOK(d)'
  BY <1>1, <1>7, ProcFrame DEF Base, ProcsOK, Process
<1> QED
  BY <1>6, <1>7 DEF ProcsOK, Process

\* A process is in order after a call.
LEMMA CallStep ==
  ASSUME Base, NEW c \in Process, NEW st, NEW pc \in Stages \ LocalStages, NEW x,
         x \in Turn(proc[c], pc, st.targets), st.targets = TargetsOf(proc[c]),
         StageEnds(proc[c], st), NEW table, NEW table2, NEW res,
         Attempt(c, x, st, table, table2, res), plan' = plan
  PROVE  /\ x \in st.targets /\ x \notin proc[c].called /\ proc[c].pc = pc
         /\ proc' \in [Process -> Proc] /\ ProcsOK' /\ losses' \in Nat
         /\ proc' = [proc EXCEPT ![c] = proc'[c]]
         /\ \A d \in Process : d # c => proc'[d] = proc[d]
         /\ proc'[c].r = proc[c].r
         /\ table2 = table \/ table2 = [table EXCEPT ![x] = res.entry]
         /\ CallDone(c, st, x, res.ok /\ table2 = [table EXCEPT ![x] = res.entry])
<1> DEFINE p == proc[c]
           ok == res.ok /\ table2 = [table EXCEPT ![x] = res.entry]
<1>1. p \in Proc /\ ProcOK(c) /\ losses \in Nat
  BY DEF Base, TypeOK, ProcsOK, Process
<1>2. p.pc = pc
  BY DEF Turn
<1>3. /\ st.targets \in SUBSET Nat /\ Ongoing(p, st.targets) /\ StageOK(p)
      /\ p.r \in Rotation /\ plan[p.r] # None
  BY <1>1, <1>2, TargetFacts DEF ProcOK, Base
<1>4. x \in st.targets /\ x \notin p.called
  BY <1>3, TurnIsTarget
<1>5. /\ Outcome(p, Answered(p, x, st), p.got \cup {x}, st)
      /\ Outcome(p, Missed(p, x, st), p.got, st)
  BY <1>1, <1>3, <1>4, ProcFields, CallOutcome
<1> DEFINE n == proc'[c]
<1>6. PICK G \in SUBSET st.targets :
        /\ proc' = [proc EXCEPT ![c] = n] /\ Outcome(p, n, G, st)
        /\ \A y \in G : y \in p.got \/ (ok /\ y = x)
        /\ table2 = table \/ table2 = [table EXCEPT ![x] = res.entry]
        /\ losses' \in Nat
  <2>1. p.got \in SUBSET st.targets /\ p.got \cup {x} \in SUBSET st.targets
    BY <1>3, <1>4 DEF Ongoing
  <2>2. CASE ok /\ Reply(c, x, st)
    <3>1. proc' = [proc EXCEPT ![c] = Answered(p, x, st)] /\ n = Answered(p, x, st)
      BY <2>2 DEF Reply, Base, TypeOK
    <3>2. losses' \in Nat
      BY <1>1, <2>2 DEF Reply
    <3> HIDE DEF p, n
    <3> QED
      BY <1>5, <2>1, <2>2, <3>1, <3>2
  <2>3. CASE /\ Refusal(c, x, st) \/ Lost(c, x, st)
             /\ table2 = table \/ table2 = [table EXCEPT ![x] = res.entry]
    <3>1. proc' = [proc EXCEPT ![c] = Missed(p, x, st)] /\ n = Missed(p, x, st)
      BY <2>3 DEF Refusal, Lost, Base, TypeOK
    <3>2. losses' \in Nat
      BY <1>1, <2>3 DEF Refusal, Lost
    <3> HIDE DEF p, n
    <3> QED
      BY <1>5, <2>1, <2>3, <3>1, <3>2
  <2> QED
    BY <2>2, <2>3 DEF Attempt
<1>7. n \in Proc /\ n.r = p.r
  <2>1. n.pc \in Stages \cup Ended
    BY <1>1, <1>6, ProcFields DEF Outcome, StageEnds, MayEnter
  <2>2. G \subseteq Nat /\ n.called \subseteq Nat /\ n.got \subseteq Nat /\ n.acked \subseteq Nat
    BY <1>1, <1>3, <1>6, ProcFields DEF Outcome, Ongoing
  <2> QED
    BY <1>1, <1>6, <2>1, <2>2, SameOwnerProc DEF Outcome
<1>8. proc'[c] = n /\ proc' \in [Process -> Proc] /\ \A d \in Process : d # c => proc'[d] = proc[d]
  BY <1>6, <1>7, OtherProcess DEF Base
<1>9. ProcsOK'
  <2>1. CASE n.pc = p.pc /\ Ongoing(n, st.targets) /\ n.acked = p.acked
    <3>1. StageOK(n) /\ TargetsOf(n) = TargetsOf(p)
      BY <1>3, <1>7, <2>1 DEF StageOK, TargetsOf
    <3>2. ProcOK(c)'
      <4>1. /\ StageOK(n) /\ Ongoing(n, TargetsOf(n))
            /\ n.pc \in Stages => (c = "cancel" <=> n.pc \in CancelStages)
        BY <1>1, <2>1, <3>1 DEF ProcOK
      <4>2. proc'[c] = n
        BY <1>8
      <4> HIDE DEF n
      <4> QED
        BY <4>1, <4>2 DEF ProcOK, TargetsOf, StageOK, Helpers, ReadQuorums
    <3>3. ASSUME NEW d \in Process, d # c PROVE ProcOK(d)'
      BY <1>8, <3>3, ProcFrame DEF Base, ProcsOK, Process
    <3> QED
      BY <3>2, <3>3 DEF ProcsOK, Process
  <2>2. CASE n.pc = st.otherwise /\ n.called = {} /\ n.got = {}
    BY <1>2, <1>6, <1>7, <2>2, EnteredOK DEF StageEnds
  <2>3. CASE /\ n.pc = st.next /\ n.called = {} /\ n.got = {} /\ n.acked = G
             /\ Cardinality(G) >= st.need
    <3>1. n.pc = "WitnessFinalize" => n.acked \in ReadQuorums
      <4>1. n.pc = "WitnessFinalize" => p.pc = "WitnessActivate" /\ st.need = required_witnesses
        BY <2>3 DEF StageEnds
      <4>2. p.pc = "WitnessActivate" => st.targets = Witness
        BY <1>2, <1>3, TargetFacts DEF Base
      <4> QED
        BY <2>3, <4>1, <4>2 DEF ReadQuorums
    <3> QED
      BY <1>2, <1>6, <1>7, <2>3, <3>1, EnteredOK DEF StageEnds
  <2> QED
    BY <1>6, <2>1, <2>2, <2>3 DEF Outcome
<1> QED
  BY <1>2, <1>4, <1>6, <1>7, <1>8, <1>9 DEF CallDone

-----------------------------------------------------------------------------
(* The steps, by what they do to proc and to the actors *)

\* A step of process c in a stage from, whose end is stage to.
Goes(c, from, to) ==
  /\ proc[c].pc = from
  /\ \/ proc'[c].pc = from /\ proc'[c].got \subseteq TargetsOf(proc[c])
     \/ proc'[c].pc = to /\ proc'[c].got = {}
     \/ proc'[c].pc \in Ended

\* The processes stay in order, and only c moves.
Moves(c) ==
  /\ proc' \in [Process -> Proc] /\ ProcsOK' /\ losses' \in Nat
  /\ \A d \in Process : d # c => proc'[d] = proc[d]
  /\ proc'[c].r = proc[c].r

\* The records of the guardians stay; sessions, sequence numbers and tombstones may not.
KeepsRecords ==
  \A g \in Guardian : /\ guardian'[g].capsule = guardian[g].capsule
                      /\ guardian'[g].active = guardian[g].active
                      /\ guardian'[g].prepared = guardian[g].prepared

SignerStep(c, from, to) ==
  /\ Moves(c) /\ Goes(c, from, to)
  /\ signer' \in [Signer -> SignerEntry]
  /\ UNCHANGED <<guardian, witness, rest>>

SessionStep(c, from, to) ==
  /\ Moves(c) /\ Goes(c, from, to)
  /\ guardian' \in [Guardian -> GuardianEntry] /\ KeepsRecords
  /\ UNCHANGED <<signer, witness, rest>>

LocalStep(c, from, to) ==
  /\ Moves(c) /\ Goes(c, from, to)
  /\ UNCHANGED <<actors, plan, owner_file, results, attempts, crashes>>
  /\ control_file' \in {control_file, proc[c].r}

\* How the outcome of a call looks from outside.
LEMMA CallGoes ==
  ASSUME NEW c, NEW st, NEW x, NEW ok \in BOOLEAN, CallDone(c, st, x, ok),
         st.targets = TargetsOf(proc[c]), st.otherwise \in Ended \cup {st.next}
  PROVE  Goes(c, proc[c].pc, st.next)
  BY DEF CallDone, Outcome, Goes

\* What Served makes of its arguments.
LEMMA ServedFacts ==
  ASSUME NEW ok \in BOOLEAN, NEW before, NEW after
  PROVE  /\ Served(ok, before, after).ok = ok
         /\ Served(ok, before, after).entry = IF ok THEN after ELSE before
         /\ Served(ok, before, after).entry \in {before, after}
  BY DEF Served

\* A call to a signer.
LEMMA SignerCall ==
  ASSUME Base, NEW c \in Process, NEW st, NEW pc \in SignerStages,
         NEW s \in Turn(proc[c], pc, Signer), st.targets = Signer, StageEnds(proc[c], st),
         st.otherwise \in Ended \cup {st.next}, NEW ok \in BOOLEAN, NEW after,
         s \in Signer /\ proc[c].pc = pc => after \in SignerEntry,
         CallSigner(c, s, st, Served(ok, signer[s], after))
  PROVE  SignerStep(c, pc, st.next)
<1> DEFINE res == Served(ok, signer[s], after)
<1>1. proc[c].pc = pc /\ pc \in Stages \ LocalStages /\ st.targets = TargetsOf(proc[c])
  BY DEF Turn, TargetsOf, SignerStages, Stages, LocalStages
<1>2. plan' = plan /\ Attempt(c, s, st, signer, signer', res)
      /\ UNCHANGED <<guardian, witness, rest>>
  BY DEF CallSigner, rest
<1>3. res.ok \in BOOLEAN /\ res.entry \in {signer[s], after}
  BY ServedFacts
<1> HIDE DEF res
<1>4. /\ s \in Signer /\ Moves(c)
      /\ signer' = signer \/ signer' = [signer EXCEPT ![s] = res.entry]
      /\ CallDone(c, st, s, res.ok /\ signer' = [signer EXCEPT ![s] = res.entry])
  BY <1>1, <1>2, CallStep DEF Moves
<1>5. Goes(c, pc, st.next)
  BY <1>1, <1>3, <1>4, CallGoes
<1>6. signer' \in [Signer -> SignerEntry]
  BY <1>1, <1>3, <1>4 DEF Base, TypeOK
<1> QED
  BY <1>2, <1>4, <1>5, <1>6 DEF SignerStep

\* Only the session in n differs from e.
SameRecord(e, n) ==
  n \in GuardianEntry /\ n.capsule = e.capsule /\ n.active = e.active /\ n.prepared = e.prepared

\* A call to a guardian that leaves its records alone.
LEMMA SessionCall ==
  ASSUME Base, NEW c \in Process, NEW st, NEW pc \in Stages \ LocalStages,
         pc \notin SignerStages \cup {"WitnessActivate", "WitnessFinalize", "Veto"},
         NEW g \in Turn(proc[c], pc, st.targets), st.targets = TargetsOf(proc[c]),
         StageEnds(proc[c], st), st.otherwise \in Ended \cup {st.next}, NEW res,
         g \in Guardian /\ proc[c].pc = pc => SameRecord(guardian[g], res.entry),
         CallGuardian(c, g, st, res)
  PROVE  SessionStep(c, pc, st.next)
<1>1. proc[c].pc = pc
  BY DEF Turn
<1>2. plan' = plan /\ Attempt(c, g, st, guardian, guardian', res)
      /\ UNCHANGED <<signer, witness, rest>>
  BY DEF CallGuardian, rest
<1>3. /\ g \in st.targets /\ Moves(c)
      /\ guardian' = guardian \/ guardian' = [guardian EXCEPT ![g] = res.entry]
      /\ CallDone(c, st, g, res.ok /\ guardian' = [guardian EXCEPT ![g] = res.entry])
  BY <1>2, CallStep DEF Moves
<1>4. Goes(c, pc, st.next)
  <2>1. (res.ok /\ guardian' = [guardian EXCEPT ![g] = res.entry]) \in BOOLEAN
    OBVIOUS
  <2> QED
    BY <1>1, <1>3, <2>1, CallGoes
<1>5. g \in Guardian
  <2>1. StageOK(proc[c])
    BY DEF Base, ProcsOK, ProcOK, Process
  <2> QED
    BY <1>1, <1>3, <2>1, TargetFacts DEF Base
<1>6. guardian' \in [Guardian -> GuardianEntry] /\ KeepsRecords
  BY <1>1, <1>3, <1>5 DEF Base, TypeOK, KeepsRecords, SameRecord
<1> QED
  BY <1>2, <1>3, <1>4, <1>6 DEF SessionStep

\* The run of the coordinator in a stage is planned.
LEMMA RunFacts ==
  ASSUME Base, NEW c \in Process, proc[c].pc \in Stages
  PROVE  /\ proc[c].r \in Rotation /\ plan[proc[c].r] # None /\ Planned(proc[c].r)
         /\ plan[proc[c].r] \in Plan /\ plan[proc[c].r].predecessor \in Epoch
         /\ StageOK(proc[c]) /\ ProcOK(c)
  BY DEF Base, ProcsOK, ProcOK, StageOK, Process, TypeOK, Plan, Planned

\* There are finitely many helpers.
LEMMA HelperCount ==
  ASSUME Base, NEW r \in Rotation, plan[r] # None
  PROVE  Cardinality(Helpers(r)) \in Nat
<1>1. Helpers(r) \subseteq Guardian
  BY PlanFacts DEF Helpers, Base
<1> QED
  BY <1>1, SetFacts, FS_Subset, FS_CardinalityType

\* The signers' entries after the calls of the two programs.
LEMMA SignerEntries ==
  ASSUME Base, NEW e \in SignerEntry, NEW r \in Rotation, plan[r] # None
  PROVE  /\ [e EXCEPT !.intents = @ \cup {r}, !.active_capsule = plan[r].predecessor] \in SignerEntry
         /\ [e EXCEPT !.predecessor_plan_locks[plan[r].predecessor] = r,
                      !.begin_votes = @ \cup {r}] \in SignerEntry
         /\ [e EXCEPT !.release_votes = @ \cup {r}] \in SignerEntry
         /\ [e EXCEPT !.activate_votes = @ \cup {r}] \in SignerEntry
         /\ [e EXCEPT !.cancelled_rotations = @ \cup {r},
                      !.predecessor_plan_locks[plan[r].predecessor] = None] \in SignerEntry
<1>1. plan[r].predecessor \in Epoch
  BY DEF Base, TypeOK, Plan
<1>2. [e EXCEPT !.intents = @ \cup {r}, !.active_capsule = plan[r].predecessor] \in SignerEntry
  BY <1>1 DEF SignerEntry
<1>3. [e EXCEPT !.predecessor_plan_locks[plan[r].predecessor] = r,
                !.begin_votes = @ \cup {r}] \in SignerEntry
  BY <1>1 DEF SignerEntry
<1>4. [e EXCEPT !.release_votes = @ \cup {r}] \in SignerEntry
  BY DEF SignerEntry
<1>5. [e EXCEPT !.activate_votes = @ \cup {r}] \in SignerEntry
  BY DEF SignerEntry
<1>6. [e EXCEPT !.cancelled_rotations = @ \cup {r},
                !.predecessor_plan_locks[plan[r].predecessor] = None] \in SignerEntry
  BY <1>1 DEF SignerEntry
<1> QED
  BY <1>2, <1>3, <1>4, <1>5, <1>6

\* What Votes says of its stage.
LEMMA VotesFacts ==
  ASSUME NEW next
  PROVE  Votes(next).targets = Signer /\ Votes(next).next = next /\ Votes(next).otherwise = "Failed"
  BY DEF Votes, Stage

\* The coordinator's calls to signers.
LEMMA SignerSteps ==
  ASSUME Base
  PROVE  /\ CollectIntents => SignerStep("rotate", "Intent", "NodeInfo")
         /\ collect_signer_begin_votes => SignerStep("rotate", "BeginVotes", "Begin")
         /\ collect_signer_release_votes =>
              \/ SignerStep("rotate", "ReleaseVotes", "RepairRound1")
              \/ SignerStep("rotate", "ReleaseVotes", "Failed")
         /\ collect_signer_activate_votes =>
              SignerStep("rotate", "ActivateVotes", "WitnessActivate")
<1> DEFINE p == proc["rotate"]
<1> USE DEF SignerStages, Stages, Ended
<1>1. /\ "rotate" \in Process
      /\ \A s \in Signer : signer[s] \in SignerEntry
      /\ p.pc \in Stages => run \in Rotation /\ plan[run] # None
  BY RunFacts DEF Process, Base, TypeOK, run
<1>2. ASSUME NEW pc \in SignerStages, NEW next, MayEnter(p, next), next # "WitnessFinalize"
      PROVE  StageEnds(p, Votes(next))
  BY <1>2, VotesFacts DEF StageEnds, MayEnter
<1> HIDE DEF SignerStages, Stages, Ended
<1>3. ASSUME CollectIntents PROVE SignerStep("rotate", "Intent", "NodeInfo")
  <2> DEFINE after(e) == [e EXCEPT !.intents = @ \cup {run}, !.active_capsule = plan[run].predecessor]
             ok(s) == TRUE
             st == Votes("NodeInfo")
  <2>1. PICK s \in Turn(p, "Intent", Signer) :
          CallSigner("rotate", s, st, Served(ok(s), signer[s], after(signer[s])))
    BY <1>3 DEF CollectIntents
  <2>2. p.pc = "Intent" /\ "Intent" \in SignerStages /\ p.pc \in Stages
    BY DEF Turn, SignerStages, Stages
  <2>3. StageEnds(p, st) /\ st.targets = Signer /\ st.next = "NodeInfo" /\ st.otherwise \in Ended
    BY <1>2, <2>2, VotesFacts DEF MayEnter, Stages, CancelStages, Preparing, Ended
  <2>4. s \in Signer => after(signer[s]) \in SignerEntry
    BY <1>1, <2>2, SignerEntries
  <2>5. ok(s) \in BOOLEAN
    BY DEF MayBeginVote, BegunVote
  <2> HIDE DEF after, ok, st
  <2> QED
    BY <1>1, <2>1, <2>2, <2>3, <2>4, <2>5, SignerCall
<1>4. ASSUME collect_signer_begin_votes PROVE SignerStep("rotate", "BeginVotes", "Begin")
  <2> DEFINE after(e) == [e EXCEPT !.predecessor_plan_locks[plan[run].predecessor] = run,
                                  !.begin_votes = @ \cup {run}]
             ok(s) == MayBeginVote(signer[s], run)
             st == Votes("Begin")
  <2>1. PICK s \in Turn(p, "BeginVotes", Signer) :
          CallSigner("rotate", s, st, Served(ok(s), signer[s], after(signer[s])))
    BY <1>4 DEF collect_signer_begin_votes
  <2>2. p.pc = "BeginVotes" /\ "BeginVotes" \in SignerStages /\ p.pc \in Stages
    BY DEF Turn, SignerStages, Stages
  <2>3. StageEnds(p, st) /\ st.targets = Signer /\ st.next = "Begin" /\ st.otherwise \in Ended
    BY <1>2, <2>2, VotesFacts DEF MayEnter, Stages, CancelStages, Preparing, Ended
  <2>4. s \in Signer => after(signer[s]) \in SignerEntry
    BY <1>1, <2>2, SignerEntries
  <2>5. ok(s) \in BOOLEAN
    BY DEF MayBeginVote, BegunVote
  <2> HIDE DEF after, ok, st
  <2> QED
    BY <1>1, <2>1, <2>2, <2>3, <2>4, <2>5, SignerCall
<1>5. ASSUME collect_signer_release_votes
      PROVE  \/ SignerStep("rotate", "ReleaseVotes", "RepairRound1")
             \/ SignerStep("rotate", "ReleaseVotes", "Failed")
  <2> DEFINE after(e) == [e EXCEPT !.release_votes = @ \cup {run}]
             ok(s) == BegunVote(signer[s], run)
             next == IF Cardinality(helper_ids) < guardian_threshold THEN "Failed"
                                                                    ELSE "RepairRound1"
             st == Votes(next)
  <2>1. PICK s \in Turn(p, "ReleaseVotes", Signer) :
          CallSigner("rotate", s, st, Served(ok(s), signer[s], after(signer[s])))
    BY <1>5 DEF collect_signer_release_votes
  <2>2. p.pc = "ReleaseVotes" /\ "ReleaseVotes" \in SignerStages /\ p.pc \in Stages
    BY DEF Turn, SignerStages, Stages
  <2>3. /\ StageEnds(p, st) /\ st.targets = Signer /\ st.next = next /\ st.otherwise \in Ended
        /\ next \in {"Failed", "RepairRound1"}
    <3>1. Helpers(p.r) = helper_ids /\ Cardinality(Helpers(p.r)) \in Nat
      BY <1>1, <2>2, HelperCount DEF Helpers, helper_ids, kept, old_roster, new_roster, run
    <3>2. next = "RepairRound1" => Cardinality(Helpers(p.r)) >= guardian_threshold
      BY <3>1, SetFacts
    <3>3. next \in {"Failed", "RepairRound1"}
      OBVIOUS
    <3> HIDE DEF next
    <3>4. MayEnter(p, next)
      BY <2>2, <3>2, <3>3 DEF MayEnter, Stages, CancelStages, Preparing, Ended
    <3> QED
      BY <1>2, <2>2, <3>3, <3>4, VotesFacts DEF Ended
  <2>4. s \in Signer => after(signer[s]) \in SignerEntry
    BY <1>1, <2>2, SignerEntries
  <2>5. ok(s) \in BOOLEAN
    BY DEF BegunVote
  <2> HIDE DEF after, ok, st, next
  <2>6. SignerStep("rotate", "ReleaseVotes", next)
    BY <1>1, <2>1, <2>2, <2>3, <2>4, <2>5, SignerCall
  <2> QED
    BY <2>3, <2>6
<1>6. ASSUME collect_signer_activate_votes PROVE SignerStep("rotate", "ActivateVotes", "WitnessActivate")
  <2> DEFINE after(e) == [e EXCEPT !.activate_votes = @ \cup {run}]
             ok(s) == BegunVote(signer[s], run) /\ run \in signer[s].release_votes
             st == Votes("WitnessActivate")
  <2>1. PICK s \in Turn(p, "ActivateVotes", Signer) :
          CallSigner("rotate", s, st, Served(ok(s), signer[s], after(signer[s])))
    BY <1>6 DEF collect_signer_activate_votes
  <2>2. p.pc = "ActivateVotes" /\ "ActivateVotes" \in SignerStages /\ p.pc \in Stages
    BY DEF Turn, SignerStages, Stages
  <2>3. StageEnds(p, st) /\ st.targets = Signer /\ st.next = "WitnessActivate" /\ st.otherwise \in Ended
    BY <1>2, <2>2, VotesFacts DEF MayEnter, Stages, CancelStages, Preparing, Ended
  <2>4. s \in Signer => after(signer[s]) \in SignerEntry
    BY <1>1, <2>2, SignerEntries
  <2>5. ok(s) \in BOOLEAN
    BY DEF MayBeginVote, BegunVote
  <2> HIDE DEF after, ok, st
  <2> QED
    BY <1>1, <2>1, <2>2, <2>3, <2>4, <2>5, SignerCall
<1> QED
  BY <1>3, <1>4, <1>5, <1>6

\* What a round leaves of the entry of a guardian.
LEMMA SessionEntries ==
  ASSUME NEW e \in GuardianEntry, NEW r \in Rotation
  PROVE  /\ SameRecord(e, e)
         /\ SameRecord(e, [e EXCEPT !.sessions[r] = IF @ = "none" THEN "begun" ELSE @])
         /\ \A to \in Progress : \A from : SameRecord(e, Moved(e, r, from, to))
<1>1. SameRecord(e, e)
  BY DEF SameRecord
<1>2. SameRecord(e, [e EXCEPT !.sessions[r] = IF @ = "none" THEN "begun" ELSE @])
  BY DEF SameRecord, GuardianEntry, Progress
<1>3. ASSUME NEW to \in Progress, NEW from PROVE SameRecord(e, Moved(e, r, from, to))
  BY DEF SameRecord, GuardianEntry, Moved
<1> QED
  BY <1>1, <1>2, <1>3

\* Begin at a guardian.
LEMMA BeginEntry ==
  ASSUME Base, NEW g \in Guardian, NEW r \in Rotation
  PROVE  SameRecord(guardian[g], BeginAt(g, r).entry)
<1> DEFINE e == guardian[g]
           after == [e EXCEPT !.sessions[r] = IF @ = "none" THEN "begun" ELSE @]
           ok == e.capsule = plan[r].predecessor /\ r \notin e.tombstones
<1>1. e \in GuardianEntry
  BY DEF Base, TypeOK
<1>2. SameRecord(e, e) /\ SameRecord(e, after)
  BY <1>1, SessionEntries
<1>3. BeginAt(g, r) = Served(ok, e, after) /\ ok \in BOOLEAN
  BY DEF BeginAt
<1> HIDE DEF e, after, ok
<1>4. BeginAt(g, r).entry \in {e, after}
  BY <1>3, ServedFacts
<1> QED
  BY <1>2, <1>4 DEF e

\* The guardians that the coordinator calls, by stage.
LEMMA RotateTargets ==
  LET p == proc["rotate"]
  IN /\ p.pc = "Alias" => TargetsOf(p) = kept
     /\ p.pc \in {"Candidate", "RepairFinalize"} => TargetsOf(p) = {Added(run)}
     /\ p.pc \in {"BeginRemoved", "ActivateRemoved"} => TargetsOf(p) = removed
     /\ p.pc \in HelperStages => TargetsOf(p) = helper_ids
     /\ p.pc \in {"Begin", "RefreshRound1", "RefreshRound2", "RefreshFinalize", "StageMaterial",
                  "PrepareCommit", "Activate"} => TargetsOf(p) = new_roster
     /\ p.pc = "WitnessActivate" => TargetsOf(p) = Witness
     /\ p.pc = "WitnessFinalize" => TargetsOf(p) = p.acked
  BY DEF TargetsOf, SignerStages, HelperStages, Helpers, kept, removed, helper_ids,
         old_roster, new_roster, run

\* The coordinator's calls to guardians, up to preparation.
LEMMA SessionSteps ==
  ASSUME Base
  PROVE  /\ ProvisionAliases => SessionStep("rotate", "Alias", "Candidate")
         /\ BeginSuccessors => SessionStep("rotate", "Begin", "BeginRemoved")
         /\ BeginRemoved => SessionStep("rotate", "BeginRemoved", "Control")
         /\ RepairRound1 => SessionStep("rotate", "RepairRound1", "RepairRound2")
         /\ RepairRound2 => SessionStep("rotate", "RepairRound2", "RepairFinalize")
         /\ RepairFinalize => SessionStep("rotate", "RepairFinalize", "RefreshRound1")
         /\ RefreshRound1 => SessionStep("rotate", "RefreshRound1", "RefreshRound2")
         /\ RefreshRound2 => SessionStep("rotate", "RefreshRound2", "RefreshFinalize")
         /\ RefreshFinalize => SessionStep("rotate", "RefreshFinalize", "StageMaterial")
         /\ StageMaterial => SessionStep("rotate", "StageMaterial", "PrepareCommit")
         /\ HandoffComplete => SessionStep("rotate", "HandoffComplete", "ActivateVotes")
<1> DEFINE p == proc["rotate"]
<1>1. /\ "rotate" \in Process
      /\ \A g \in Guardian : guardian[g] \in GuardianEntry
      /\ p.pc \in Stages => run \in Rotation /\ plan[run] # None
  BY RunFacts DEF Process, Base, TypeOK, run
<1>2. \A g \in Guardian : run \in Rotation => /\ SameRecord(guardian[g], guardian[g])
                                              /\ SameRecord(guardian[g], BeginAt(g, run).entry)
  BY <1>1, SessionEntries, BeginEntry
<1>3. ASSUME NEW g \in Guardian, run \in Rotation, NEW ok \in BOOLEAN, NEW from,
             NEW to \in Progress
      PROVE  SameRecord(guardian[g], Served(ok, guardian[g], Moved(guardian[g], run, from, to)).entry)
  <2>1. SameRecord(guardian[g], guardian[g])
        /\ SameRecord(guardian[g], Moved(guardian[g], run, from, to))
    BY <1>1, <1>3, SessionEntries
  <2>2. Served(ok, guardian[g], Moved(guardian[g], run, from, to)).entry
          \in {guardian[g], Moved(guardian[g], run, from, to)}
    BY ServedFacts
  <2> QED
    BY <2>1, <2>2
<1>4. ASSUME ProvisionAliases PROVE SessionStep("rotate", "Alias", "Candidate")
  <2> DEFINE res(g) == Served(TRUE, guardian[g], guardian[g])
             st == All(kept, 1, "Candidate")
  <2>1. PICK g \in Turn(p, "Alias", st.targets) : CallGuardian("rotate", g, st, res(g))
    BY <1>4 DEF ProvisionAliases, All, Stage
  <2>2. /\ p.pc = "Alias" /\ p.pc \in Stages /\ "Alias" \in Stages \ LocalStages
        /\ "Alias" \notin SignerStages \cup {"WitnessActivate", "WitnessFinalize", "Veto"}
    BY DEF Turn, SignerStages, LocalStages, Stages
  <2>3. StageEnds(p, st) /\ st.targets = TargetsOf(p) /\ st.next = "Candidate" /\ st.otherwise \in Ended
    BY <2>2, RotateTargets
       DEF StageEnds, MayEnter, Stages, CancelStages, Preparing, HelperStages, Ended, All, Stage
  <2>4. g \in Guardian => SameRecord(guardian[g], res(g).entry)
    BY <1>1, <1>2, <2>2 DEF Served
  <2> HIDE DEF res, st
  <2> QED
    BY <1>1, <2>1, <2>2, <2>3, <2>4, SessionCall
<1>5. ASSUME BeginSuccessors PROVE SessionStep("rotate", "Begin", "BeginRemoved")
  <2> DEFINE res(g) == BeginAt(g, run)
             st == All(new_roster, relay_count, "BeginRemoved")
  <2>1. PICK g \in Turn(p, "Begin", st.targets) : CallGuardian("rotate", g, st, res(g))
    BY <1>5 DEF BeginSuccessors, All, Stage
  <2>2. /\ p.pc = "Begin" /\ p.pc \in Stages /\ "Begin" \in Stages \ LocalStages
        /\ "Begin" \notin SignerStages \cup {"WitnessActivate", "WitnessFinalize", "Veto"}
    BY DEF Turn, SignerStages, LocalStages, Stages
  <2>3. StageEnds(p, st) /\ st.targets = TargetsOf(p) /\ st.next = "BeginRemoved" /\ st.otherwise \in Ended
    BY <2>2, RotateTargets
       DEF StageEnds, MayEnter, Stages, CancelStages, Preparing, HelperStages, Ended, All, Stage
  <2>4. g \in Guardian => SameRecord(guardian[g], res(g).entry)
    BY <1>1, <2>2, <1>2
  <2> HIDE DEF res, st
  <2> QED
    BY <1>1, <2>1, <2>2, <2>3, <2>4, SessionCall
<1>6. ASSUME BeginRemoved PROVE SessionStep("rotate", "BeginRemoved", "Control")
  <2> DEFINE res(g) == BeginAt(g, run)
             st == Stage(removed, "try", 0, relay_count, "Control")
  <2>1. PICK g \in Turn(p, "BeginRemoved", st.targets) : CallGuardian("rotate", g, st, res(g))
    BY <1>6 DEF BeginRemoved, All, Stage
  <2>2. /\ p.pc = "BeginRemoved" /\ p.pc \in Stages /\ "BeginRemoved" \in Stages \ LocalStages
        /\ "BeginRemoved" \notin SignerStages \cup {"WitnessActivate", "WitnessFinalize", "Veto"}
    BY DEF Turn, SignerStages, LocalStages, Stages
  <2>3. StageEnds(p, st) /\ st.targets = TargetsOf(p) /\ st.next = "Control" /\ st.otherwise \in Ended
    BY <2>2, RotateTargets
       DEF StageEnds, MayEnter, Stages, CancelStages, Preparing, HelperStages, Ended, All, Stage
  <2>4. g \in Guardian => SameRecord(guardian[g], res(g).entry)
    BY <1>1, <2>2, <1>2
  <2> HIDE DEF res, st
  <2> QED
    BY <1>1, <2>1, <2>2, <2>3, <2>4, SessionCall
<1>7. ASSUME RepairRound1 PROVE SessionStep("rotate", "RepairRound1", "RepairRound2")
  <2> DEFINE res(g) == Served(Live(guardian[g], run) /\ guardian[g].capsule = plan[run].predecessor
                      /\ guardian[g].active # None, guardian[g],
                           Moved(guardian[g], run, guardian[g].sessions[run], "dealt"))
             st == All(helper_ids, relay_count, "RepairRound2")
  <2>1. PICK g \in Turn(p, "RepairRound1", st.targets) : CallGuardian("rotate", g, st, res(g))
    BY <1>7 DEF RepairRound1, All, Stage
  <2>2. /\ p.pc = "RepairRound1" /\ p.pc \in Stages /\ "RepairRound1" \in Stages \ LocalStages
        /\ "RepairRound1" \notin SignerStages \cup {"WitnessActivate", "WitnessFinalize", "Veto"}
    BY DEF Turn, SignerStages, LocalStages, Stages
  <2>3. StageEnds(p, st) /\ st.targets = TargetsOf(p) /\ st.next = "RepairRound2" /\ st.otherwise \in Ended
    BY <2>2, RotateTargets
       DEF StageEnds, MayEnter, Stages, CancelStages, Preparing, HelperStages, Ended, All, Stage
  <2>4. g \in Guardian => SameRecord(guardian[g], res(g).entry)
    BY <1>1, <2>2, <1>3 DEF InSequence, Live, Progress
  <2> HIDE DEF res, st
  <2> QED
    BY <1>1, <2>1, <2>2, <2>3, <2>4, SessionCall
<1>8. ASSUME RepairRound2 PROVE SessionStep("rotate", "RepairRound2", "RepairFinalize")
  <2> DEFINE res(g) == Served(guardian[g].sessions[run] = "dealt" /\ InSequence(helper_ids \ {g}, run),
                           guardian[g], Moved(guardian[g], run, "dealt", "summed"))
             st == All(helper_ids, relay_count, "RepairFinalize")
  <2>1. PICK g \in Turn(p, "RepairRound2", st.targets) : CallGuardian("rotate", g, st, res(g))
    BY <1>8 DEF RepairRound2, All, Stage
  <2>2. /\ p.pc = "RepairRound2" /\ p.pc \in Stages /\ "RepairRound2" \in Stages \ LocalStages
        /\ "RepairRound2" \notin SignerStages \cup {"WitnessActivate", "WitnessFinalize", "Veto"}
    BY DEF Turn, SignerStages, LocalStages, Stages
  <2>3. StageEnds(p, st) /\ st.targets = TargetsOf(p) /\ st.next = "RepairFinalize" /\ st.otherwise \in Ended
    BY <2>2, RotateTargets
       DEF StageEnds, MayEnter, Stages, CancelStages, Preparing, HelperStages, Ended, All, Stage
  <2>4. g \in Guardian => SameRecord(guardian[g], res(g).entry)
    BY <1>1, <2>2, <1>3 DEF InSequence, Live, Progress
  <2> HIDE DEF res, st
  <2> QED
    BY <1>1, <2>1, <2>2, <2>3, <2>4, SessionCall
<1>9. ASSUME RepairFinalize PROVE SessionStep("rotate", "RepairFinalize", "RefreshRound1")
  <2> DEFINE res(g) == Served(guardian[g].sessions[run] = "begun", guardian[g],
                           Moved(guardian[g], run, "begun", "repaired"))
             st == All({Added(run)}, relay_count, "RefreshRound1")
  <2>1. PICK g \in Turn(p, "RepairFinalize", st.targets) : CallGuardian("rotate", g, st, res(g))
    BY <1>9 DEF RepairFinalize, All, Stage
  <2>2. /\ p.pc = "RepairFinalize" /\ p.pc \in Stages /\ "RepairFinalize" \in Stages \ LocalStages
        /\ "RepairFinalize" \notin SignerStages \cup {"WitnessActivate", "WitnessFinalize", "Veto"}
    BY DEF Turn, SignerStages, LocalStages, Stages
  <2>3. StageEnds(p, st) /\ st.targets = TargetsOf(p) /\ st.next = "RefreshRound1" /\ st.otherwise \in Ended
    BY <2>2, RotateTargets
       DEF StageEnds, MayEnter, Stages, CancelStages, Preparing, HelperStages, Ended, All, Stage
  <2>4. g \in Guardian => SameRecord(guardian[g], res(g).entry)
    BY <1>1, <2>2, <1>3 DEF InSequence, Live, Progress
  <2> HIDE DEF res, st
  <2> QED
    BY <1>1, <2>1, <2>2, <2>3, <2>4, SessionCall
<1>10. ASSUME RefreshRound1 PROVE SessionStep("rotate", "RefreshRound1", "RefreshRound2")
  <2> DEFINE res(g) == Served(/\ Live(guardian[g], run)
                           /\ IF g \in kept
                              THEN /\ guardian[g].capsule = plan[run].predecessor
                                   /\ guardian[g].active # None
                              ELSE guardian[g].sessions[run] = "repaired",
                           guardian[g], Moved(guardian[g], run, guardian[g].sessions[run], "round1"))
             st == All(new_roster, relay_count, "RefreshRound2")
  <2>1. PICK g \in Turn(p, "RefreshRound1", st.targets) : CallGuardian("rotate", g, st, res(g))
    BY <1>10 DEF RefreshRound1, All, Stage
  <2>2. /\ p.pc = "RefreshRound1" /\ p.pc \in Stages /\ "RefreshRound1" \in Stages \ LocalStages
        /\ "RefreshRound1" \notin SignerStages \cup {"WitnessActivate", "WitnessFinalize", "Veto"}
    BY DEF Turn, SignerStages, LocalStages, Stages
  <2>3. StageEnds(p, st) /\ st.targets = TargetsOf(p) /\ st.next = "RefreshRound2" /\ st.otherwise \in Ended
    BY <2>2, RotateTargets
       DEF StageEnds, MayEnter, Stages, CancelStages, Preparing, HelperStages, Ended, All, Stage
  <2>4. g \in Guardian => SameRecord(guardian[g], res(g).entry)
    BY <1>1, <2>2, <1>3 DEF InSequence, Live, Progress
  <2> HIDE DEF res, st
  <2> QED
    BY <1>1, <2>1, <2>2, <2>3, <2>4, SessionCall
<1>11. ASSUME RefreshRound2 PROVE SessionStep("rotate", "RefreshRound2", "RefreshFinalize")
  <2> DEFINE res(g) == Served(guardian[g].sessions[run] = "round1" /\ InSequence(new_roster \ {g}, run),
                           guardian[g], Moved(guardian[g], run, "round1", "round2"))
             st == All(new_roster, relay_count, "RefreshFinalize")
  <2>1. PICK g \in Turn(p, "RefreshRound2", st.targets) : CallGuardian("rotate", g, st, res(g))
    BY <1>11 DEF RefreshRound2, All, Stage
  <2>2. /\ p.pc = "RefreshRound2" /\ p.pc \in Stages /\ "RefreshRound2" \in Stages \ LocalStages
        /\ "RefreshRound2" \notin SignerStages \cup {"WitnessActivate", "WitnessFinalize", "Veto"}
    BY DEF Turn, SignerStages, LocalStages, Stages
  <2>3. StageEnds(p, st) /\ st.targets = TargetsOf(p) /\ st.next = "RefreshFinalize" /\ st.otherwise \in Ended
    BY <2>2, RotateTargets
       DEF StageEnds, MayEnter, Stages, CancelStages, Preparing, HelperStages, Ended, All, Stage
  <2>4. g \in Guardian => SameRecord(guardian[g], res(g).entry)
    BY <1>1, <2>2, <1>3 DEF InSequence, Live, Progress
  <2> HIDE DEF res, st
  <2> QED
    BY <1>1, <2>1, <2>2, <2>3, <2>4, SessionCall
<1>12. ASSUME RefreshFinalize PROVE SessionStep("rotate", "RefreshFinalize", "StageMaterial")
  <2> DEFINE res(g) == Served(guardian[g].sessions[run] = "round2", guardian[g],
                           Moved(guardian[g], run, "round2", "refreshed"))
             st == All(new_roster, relay_count, "StageMaterial")
  <2>1. PICK g \in Turn(p, "RefreshFinalize", st.targets) : CallGuardian("rotate", g, st, res(g))
    BY <1>12 DEF RefreshFinalize, All, Stage
  <2>2. /\ p.pc = "RefreshFinalize" /\ p.pc \in Stages /\ "RefreshFinalize" \in Stages \ LocalStages
        /\ "RefreshFinalize" \notin SignerStages \cup {"WitnessActivate", "WitnessFinalize", "Veto"}
    BY DEF Turn, SignerStages, LocalStages, Stages
  <2>3. StageEnds(p, st) /\ st.targets = TargetsOf(p) /\ st.next = "StageMaterial" /\ st.otherwise \in Ended
    BY <2>2, RotateTargets
       DEF StageEnds, MayEnter, Stages, CancelStages, Preparing, HelperStages, Ended, All, Stage
  <2>4. g \in Guardian => SameRecord(guardian[g], res(g).entry)
    BY <1>1, <2>2, <1>3 DEF InSequence, Live, Progress
  <2> HIDE DEF res, st
  <2> QED
    BY <1>1, <2>1, <2>2, <2>3, <2>4, SessionCall
<1>13. ASSUME StageMaterial PROVE SessionStep("rotate", "StageMaterial", "PrepareCommit")
  <2> DEFINE res(g) == Served(guardian[g].sessions[run] = "refreshed", guardian[g],
                           Moved(guardian[g], run, "refreshed", "staged"))
             st == All(new_roster, relay_count, "PrepareCommit")
  <2>1. PICK g \in Turn(p, "StageMaterial", st.targets) : CallGuardian("rotate", g, st, res(g))
    BY <1>13 DEF StageMaterial, All, Stage
  <2>2. /\ p.pc = "StageMaterial" /\ p.pc \in Stages /\ "StageMaterial" \in Stages \ LocalStages
        /\ "StageMaterial" \notin SignerStages \cup {"WitnessActivate", "WitnessFinalize", "Veto"}
    BY DEF Turn, SignerStages, LocalStages, Stages
  <2>3. StageEnds(p, st) /\ st.targets = TargetsOf(p) /\ st.next = "PrepareCommit" /\ st.otherwise \in Ended
    BY <2>2, RotateTargets
       DEF StageEnds, MayEnter, Stages, CancelStages, Preparing, HelperStages, Ended, All, Stage
  <2>4. g \in Guardian => SameRecord(guardian[g], res(g).entry)
    BY <1>1, <2>2, <1>3 DEF InSequence, Live, Progress
  <2> HIDE DEF res, st
  <2> QED
    BY <1>1, <2>1, <2>2, <2>3, <2>4, SessionCall
<1>14. ASSUME HandoffComplete PROVE SessionStep("rotate", "HandoffComplete", "ActivateVotes")
  <2> DEFINE res(g) == Served(Live(guardian[g], run), guardian[g], guardian[g])
             st == All(helper_ids, relay_count, "ActivateVotes")
  <2>1. PICK g \in Turn(p, "HandoffComplete", st.targets) : CallGuardian("rotate", g, st, res(g))
    BY <1>14 DEF HandoffComplete, All, Stage
  <2>2. /\ p.pc = "HandoffComplete" /\ p.pc \in Stages /\ "HandoffComplete" \in Stages \ LocalStages
        /\ "HandoffComplete" \notin SignerStages \cup {"WitnessActivate", "WitnessFinalize", "Veto"}
    BY DEF Turn, SignerStages, LocalStages, Stages
  <2>3. StageEnds(p, st) /\ st.targets = TargetsOf(p) /\ st.next = "ActivateVotes" /\ st.otherwise \in Ended
    BY <2>2, RotateTargets
       DEF StageEnds, MayEnter, Stages, CancelStages, Preparing, HelperStages, Ended, All, Stage
  <2>4. g \in Guardian => SameRecord(guardian[g], res(g).entry)
    BY <1>1, <1>2, <2>2 DEF Served
  <2> HIDE DEF res, st
  <2> QED
    BY <1>1, <2>1, <2>2, <2>3, <2>4, SessionCall
<1> QED
  BY <1>4, <1>5, <1>6, <1>7, <1>8, <1>9, <1>10, <1>11, <1>12, <1>13, <1>14

\* c has called guardian g, which has made res of it.
GuardianCalled(c, pc, st, g, res) ==
  /\ Moves(c) /\ Goes(c, pc, st.next) /\ st.targets = TargetsOf(proc[c])
  /\ g \in Guardian /\ g \in st.targets
  /\ guardian' = guardian \/ guardian' = [guardian EXCEPT ![g] = res.entry]
  /\ CallDone(c, st, g, res.ok /\ guardian' = [guardian EXCEPT ![g] = res.entry])
  /\ UNCHANGED <<signer, witness, rest>>

LEMMA GuardianCall ==
  ASSUME Base, NEW c \in Process, NEW st, NEW pc \in Stages \ LocalStages,
         pc \notin SignerStages \cup {"WitnessActivate", "WitnessFinalize", "Veto"},
         NEW g \in Turn(proc[c], pc, st.targets), st.targets = TargetsOf(proc[c]),
         StageEnds(proc[c], st), st.otherwise \in Ended \cup {st.next}, NEW res,
         CallGuardian(c, g, st, res)
  PROVE  GuardianCalled(c, pc, st, g, res)
<1>1. proc[c].pc = pc
  BY DEF Turn
<1>2. plan' = plan /\ Attempt(c, g, st, guardian, guardian', res)
      /\ UNCHANGED <<signer, witness, rest>>
  BY DEF CallGuardian, rest
<1>3. /\ g \in st.targets /\ Moves(c)
      /\ guardian' = guardian \/ guardian' = [guardian EXCEPT ![g] = res.entry]
      /\ CallDone(c, st, g, res.ok /\ guardian' = [guardian EXCEPT ![g] = res.entry])
  BY <1>2, CallStep DEF Moves
<1>4. Goes(c, pc, st.next)
  <2>1. (res.ok /\ guardian' = [guardian EXCEPT ![g] = res.entry]) \in BOOLEAN
    OBVIOUS
  <2> QED
    BY <1>1, <1>3, <2>1, CallGoes
<1>5. g \in Guardian
  <2>1. StageOK(proc[c])
    BY DEF Base, ProcsOK, ProcOK, Process
  <2> QED
    BY <1>1, <1>3, <2>1, TargetFacts DEF Base
<1> QED
  BY <1>2, <1>3, <1>4, <1>5 DEF GuardianCalled

\* c has called witness w, which has made res of it.
WitnessCalled(c, pc, st, w, res) ==
  /\ Moves(c) /\ Goes(c, pc, st.next) /\ st.targets = TargetsOf(proc[c])
  /\ w \in Witness /\ w \in st.targets /\ w \notin proc[c].called
  /\ witness' = witness \/ witness' = [witness EXCEPT ![w] = res.entry]
  /\ CallDone(c, st, w, res.ok /\ witness' = [witness EXCEPT ![w] = res.entry])
  /\ UNCHANGED <<signer, guardian, rest>>

LEMMA WitnessCall ==
  ASSUME Base, NEW c \in Process, NEW st,
         NEW pc \in Stages \ LocalStages, pc \in {"WitnessActivate", "WitnessFinalize", "Veto"},
         NEW w \in Turn(proc[c], pc, st.targets), st.targets = TargetsOf(proc[c]),
         StageEnds(proc[c], st), st.otherwise \in Ended \cup {st.next}, NEW res,
         CallWitness(c, w, st, res)
  PROVE  WitnessCalled(c, pc, st, w, res)
<1>1. proc[c].pc = pc
  BY DEF Turn
<1>2. plan' = plan /\ Attempt(c, w, st, witness, witness', res)
      /\ UNCHANGED <<signer, guardian, rest>>
  BY DEF CallWitness, rest
<1>3. /\ w \in st.targets /\ w \notin proc[c].called /\ Moves(c)
      /\ witness' = witness \/ witness' = [witness EXCEPT ![w] = res.entry]
      /\ CallDone(c, st, w, res.ok /\ witness' = [witness EXCEPT ![w] = res.entry])
  BY <1>2, CallStep DEF Moves
<1>4. Goes(c, pc, st.next)
  <2>1. (res.ok /\ witness' = [witness EXCEPT ![w] = res.entry]) \in BOOLEAN
    OBVIOUS
  <2> QED
    BY <1>1, <1>3, <2>1, CallGoes
<1>5. w \in Witness
  <2>1. StageOK(proc[c])
    BY DEF Base, ProcsOK, ProcOK, Process
  <2> QED
    BY <1>1, <1>3, <2>1, TargetFacts DEF Base
<1> QED
  BY <1>2, <1>3, <1>4, <1>5 DEF WitnessCalled

\* The coordinator's other calls to guardians, and those to witnesses.
LEMMA RecordSteps ==
  ASSUME Base
  PROVE  /\ ProvisionCandidate =>
              \E g \in Guardian : GuardianCalled("rotate", "Candidate", All({Added(run)}, 1, "BeginVotes"), g,
                Served(TRUE, guardian[g], [guardian[g] EXCEPT !.capsule = plan[run].predecessor]))
         /\ PrepareCommit =>
              \E g \in Guardian : GuardianCalled("rotate", "PrepareCommit", All(new_roster, relay_count, "HandoffComplete"), g,
                PreparedAt(g, run))
         /\ ActivateSuccessors =>
              \E g \in Guardian : GuardianCalled("rotate", "Activate", All(new_roster, relay_count, "ActivateRemoved"), g,
                ActivatedAt(g, run))
         /\ ActivateRemoved =>
              \E g \in Guardian : GuardianCalled("rotate", "ActivateRemoved", Stage(removed, "try", 0, relay_count, "OwnerFile"), g,
                ActivatedAt(g, run))
         /\ WitnessActivate =>
              \E w \in Witness : WitnessCalled("rotate", "WitnessActivate", Stage(Witness, "enough", required_witnesses, 1, "WitnessFinalize"), w,
                Served(WitnessAccepts(witness[w], run), witness[w],
                             [witness[w] EXCEPT !.pending = run]))
         /\ WitnessFinalize =>
              \E w \in Witness : WitnessCalled("rotate", "WitnessFinalize", All(proc["rotate"].acked, 1, "Activate"), w,
                FinalizedAt(w, run))
<1> DEFINE p == proc["rotate"]
<1>1. "rotate" \in Process
  BY DEF Process
<1>2. ASSUME ProvisionCandidate
      PROVE  \E g \in Guardian : GuardianCalled("rotate", "Candidate", All({Added(run)}, 1, "BeginVotes"), g,
               Served(TRUE, guardian[g], [guardian[g] EXCEPT !.capsule = plan[run].predecessor]))
  <2> DEFINE res(g) == Served(TRUE, guardian[g], [guardian[g] EXCEPT !.capsule = plan[run].predecessor])
             st == All({Added(run)}, 1, "BeginVotes")
  <2>1. PICK g \in Turn(p, "Candidate", st.targets) : CallGuardian("rotate", g, st, res(g))
    BY <1>2 DEF ProvisionCandidate, All, Stage
  <2>2. /\ p.pc = "Candidate" /\ "Candidate" \in Stages \ LocalStages
        /\ "Candidate" \notin SignerStages \cup {"WitnessActivate", "WitnessFinalize", "Veto"}
    BY DEF Turn, SignerStages, LocalStages, Stages
  <2>3. StageEnds(p, st) /\ st.targets = TargetsOf(p) /\ st.next = "BeginVotes" /\ st.otherwise \in Ended
    BY <2>2, RotateTargets
       DEF StageEnds, MayEnter, Stages, CancelStages, Preparing, HelperStages, Ended, All, Stage
  <2> HIDE DEF res, st
  <2>4. GuardianCalled("rotate", "Candidate", st, g, res(g)) /\ g \in Guardian
    BY <1>1, <2>1, <2>2, <2>3, GuardianCall DEF GuardianCalled
  <2> QED
    BY <2>4 DEF res, st
<1>3. ASSUME PrepareCommit
      PROVE  \E g \in Guardian : GuardianCalled("rotate", "PrepareCommit", All(new_roster, relay_count, "HandoffComplete"), g,
               PreparedAt(g, run))
  <2> DEFINE res(g) == PreparedAt(g, run)
             st == All(new_roster, relay_count, "HandoffComplete")
  <2>1. PICK g \in Turn(p, "PrepareCommit", st.targets) : CallGuardian("rotate", g, st, res(g))
    BY <1>3 DEF PrepareCommit, All, Stage
  <2>2. /\ p.pc = "PrepareCommit" /\ "PrepareCommit" \in Stages \ LocalStages
        /\ "PrepareCommit" \notin SignerStages \cup {"WitnessActivate", "WitnessFinalize", "Veto"}
    BY DEF Turn, SignerStages, LocalStages, Stages
  <2>3. StageEnds(p, st) /\ st.targets = TargetsOf(p) /\ st.next = "HandoffComplete" /\ st.otherwise \in Ended
    BY <2>2, RotateTargets
       DEF StageEnds, MayEnter, Stages, CancelStages, Preparing, HelperStages, Ended, All, Stage
  <2> HIDE DEF res, st
  <2>4. GuardianCalled("rotate", "PrepareCommit", st, g, res(g)) /\ g \in Guardian
    BY <1>1, <2>1, <2>2, <2>3, GuardianCall DEF GuardianCalled
  <2> QED
    BY <2>4 DEF res, st
<1>4. ASSUME ActivateSuccessors
      PROVE  \E g \in Guardian : GuardianCalled("rotate", "Activate", All(new_roster, relay_count, "ActivateRemoved"), g,
               ActivatedAt(g, run))
  <2> DEFINE res(g) == ActivatedAt(g, run)
             st == All(new_roster, relay_count, "ActivateRemoved")
  <2>1. PICK g \in Turn(p, "Activate", st.targets) : CallGuardian("rotate", g, st, res(g))
    BY <1>4 DEF ActivateSuccessors, All, Stage
  <2>2. /\ p.pc = "Activate" /\ "Activate" \in Stages \ LocalStages
        /\ "Activate" \notin SignerStages \cup {"WitnessActivate", "WitnessFinalize", "Veto"}
    BY DEF Turn, SignerStages, LocalStages, Stages
  <2>3. StageEnds(p, st) /\ st.targets = TargetsOf(p) /\ st.next = "ActivateRemoved" /\ st.otherwise \in Ended
    BY <2>2, RotateTargets
       DEF StageEnds, MayEnter, Stages, CancelStages, Preparing, HelperStages, Ended, All, Stage
  <2> HIDE DEF res, st
  <2>4. GuardianCalled("rotate", "Activate", st, g, res(g)) /\ g \in Guardian
    BY <1>1, <2>1, <2>2, <2>3, GuardianCall DEF GuardianCalled
  <2> QED
    BY <2>4 DEF res, st
<1>5. ASSUME ActivateRemoved
      PROVE  \E g \in Guardian : GuardianCalled("rotate", "ActivateRemoved", Stage(removed, "try", 0, relay_count, "OwnerFile"), g,
               ActivatedAt(g, run))
  <2> DEFINE res(g) == ActivatedAt(g, run)
             st == Stage(removed, "try", 0, relay_count, "OwnerFile")
  <2>1. PICK g \in Turn(p, "ActivateRemoved", st.targets) : CallGuardian("rotate", g, st, res(g))
    BY <1>5 DEF ActivateRemoved, All, Stage
  <2>2. /\ p.pc = "ActivateRemoved" /\ "ActivateRemoved" \in Stages \ LocalStages
        /\ "ActivateRemoved" \notin SignerStages \cup {"WitnessActivate", "WitnessFinalize", "Veto"}
    BY DEF Turn, SignerStages, LocalStages, Stages
  <2>3. StageEnds(p, st) /\ st.targets = TargetsOf(p) /\ st.next = "OwnerFile" /\ st.otherwise \in Ended
    BY <2>2, RotateTargets
       DEF StageEnds, MayEnter, Stages, CancelStages, Preparing, HelperStages, Ended, All, Stage
  <2> HIDE DEF res, st
  <2>4. GuardianCalled("rotate", "ActivateRemoved", st, g, res(g)) /\ g \in Guardian
    BY <1>1, <2>1, <2>2, <2>3, GuardianCall DEF GuardianCalled
  <2> QED
    BY <2>4 DEF res, st
<1>6. ASSUME WitnessActivate
      PROVE  \E w \in Witness : WitnessCalled("rotate", "WitnessActivate", Stage(Witness, "enough", required_witnesses, 1, "WitnessFinalize"), w,
               Served(WitnessAccepts(witness[w], run), witness[w],
                             [witness[w] EXCEPT !.pending = run]))
  <2> DEFINE res(w) == Served(WitnessAccepts(witness[w], run), witness[w],
                             [witness[w] EXCEPT !.pending = run])
             st == Stage(Witness, "enough", required_witnesses, 1, "WitnessFinalize")
  <2>1. PICK w \in Turn(p, "WitnessActivate", st.targets) : CallWitness("rotate", w, st, res(w))
    BY <1>6 DEF WitnessActivate, All, Stage
  <2>2. p.pc = "WitnessActivate" /\ "WitnessActivate" \in Stages \ LocalStages
    BY DEF Turn, Stages, LocalStages
  <2>3. StageEnds(p, st) /\ st.targets = TargetsOf(p) /\ st.next = "WitnessFinalize" /\ st.otherwise \in Ended
    BY <2>2, RotateTargets
       DEF StageEnds, MayEnter, Stages, CancelStages, Preparing, HelperStages, Ended, All, Stage
  <2> HIDE DEF res, st
  <2>4. WitnessCalled("rotate", "WitnessActivate", st, w, res(w)) /\ w \in Witness
    BY <1>1, <2>1, <2>2, <2>3, WitnessCall DEF WitnessCalled
  <2> QED
    BY <2>4 DEF res, st
<1>7. ASSUME WitnessFinalize
      PROVE  \E w \in Witness : WitnessCalled("rotate", "WitnessFinalize", All(proc["rotate"].acked, 1, "Activate"), w,
               FinalizedAt(w, run))
  <2> DEFINE res(w) == FinalizedAt(w, run)
             st == All(proc["rotate"].acked, 1, "Activate")
  <2>1. PICK w \in Turn(p, "WitnessFinalize", st.targets) : CallWitness("rotate", w, st, res(w))
    BY <1>7 DEF WitnessFinalize, All, Stage
  <2>2. p.pc = "WitnessFinalize" /\ "WitnessFinalize" \in Stages \ LocalStages
    BY DEF Turn, Stages, LocalStages
  <2>3. StageEnds(p, st) /\ st.targets = TargetsOf(p) /\ st.next = "Activate" /\ st.otherwise \in Ended
    BY <2>2, RotateTargets
       DEF StageEnds, MayEnter, Stages, CancelStages, Preparing, HelperStages, Ended, All, Stage
  <2> HIDE DEF res, st
  <2>4. WitnessCalled("rotate", "WitnessFinalize", st, w, res(w)) /\ w \in Witness
    BY <1>1, <2>1, <2>2, <2>3, WitnessCall DEF WitnessCalled
  <2> QED
    BY <2>4 DEF res, st
<1> QED
  BY <1>2, <1>3, <1>4, <1>5, <1>6, <1>7

\* A process enters a stage without a call.
LEMMA EnterStep ==
  ASSUME Base, NEW c \in Process, NEW pc, MayEnter(proc[c], pc), pc # "WitnessFinalize",
         proc[c].pc \in Stages, proc' = [proc EXCEPT ![c] = Enter(proc[c], pc)],
         plan' = plan, losses' \in Nat
  PROVE  Moves(c) /\ Goes(c, proc[c].pc, pc) /\ proc'[c].pc = pc /\ proc'[c].got = {}
<1> DEFINE p == proc[c]
           n == Enter(p, pc)
<1>1. p \in Proc /\ pc \in Stages \cup Ended
  BY DEF Base, TypeOK, MayEnter
<1>2. Updated(p, n, pc, {}, {}, p.got, 0)
  BY <1>1, ProcFields, EnterFields
<1>3. proc' = [proc EXCEPT ![c] = n]
  OBVIOUS
<1> HIDE DEF n
<1>4. SameOwner(p, n) /\ n.pc = pc /\ n.called = {} /\ n.got = {} /\ n.acked = p.got /\ n.tries = 0
  BY <1>2 DEF Updated, SameOwner
<1>5. n \in Proc /\ n.r = p.r
  BY <1>1, <1>4, ProcFields, SameOwnerProc
<1>6. ProcsOK'
  BY <1>3, <1>4, <1>5, EnteredOK
<1>7. /\ proc' \in [Process -> Proc] /\ proc'[c] = n
      /\ \A d \in Process : d # c => proc'[d] = proc[d]
  BY <1>3, <1>5, OtherProcess DEF Base
<1> QED
  BY <1>4, <1>5, <1>6, <1>7 DEF Moves, Goes

\* The coordinator's steps that call nobody.
LEMMA LocalSteps ==
  ASSUME Base
  PROVE  /\ NodeInfo => LocalStep("rotate", "NodeInfo", "Alias")
         /\ WriteControlFile => LocalStep("rotate", "Control", "Sleep")
         /\ Sleep => LocalStep("rotate", "Sleep", "ReleaseVotes")
         /\ WriteOwnerFile =>
              /\ Moves("rotate") /\ Goes("rotate", "OwnerFile", "Ok") /\ proc'["rotate"].pc = "Ok"
              /\ owner_file' = run /\ completed' = completed \cup {run}
              /\ UNCHANGED <<plan, actors, control_file, cancelled, attempts, crashes>>
<1> DEFINE p == proc["rotate"]
<1>1. "rotate" \in Process /\ losses \in Nat
  BY DEF Process, Base, TypeOK
<1>2. ASSUME NEW from, p.pc = from, from \in {"NodeInfo", "Control", "Sleep", "OwnerFile"},
             NEW pc, MayEnter(p, pc), pc # "WitnessFinalize",
             proc' = [proc EXCEPT !["rotate"] = Enter(p, pc)], plan' = plan, losses' \in Nat
      PROVE  Moves("rotate") /\ Goes("rotate", from, pc) /\ proc'["rotate"].pc = pc
  <2>1. p.pc \in Stages
    BY <1>2 DEF Stages
  <2> QED
    BY <1>1, <1>2, <2>1, EnterStep
<1>3. ASSUME NodeInfo PROVE LocalStep("rotate", "NodeInfo", "Alias")
  <2>1. p.pc = "NodeInfo" /\ losses' \in Nat /\ UNCHANGED <<actors, rest>> /\ plan' = plan
    BY <1>1, <1>3 DEF NodeInfo, rest
  <2>2. PICK pc \in {"Alias", "Failed"} :
          /\ proc' = [proc EXCEPT !["rotate"] = Enter(p, pc)]
          /\ pc = "Alias" => removed \subseteq old_roster
    BY <1>3 DEF NodeInfo
  <2>3. MayEnter(p, pc)
    BY <2>1, <2>2 DEF MayEnter, Stages, Ended, CancelStages, Preparing, removed, old_roster, run
  <2>4. Moves("rotate") /\ Goes("rotate", "NodeInfo", pc)
    BY <1>2, <2>1, <2>2, <2>3
  <2>5. Goes("rotate", "NodeInfo", "Alias")
    BY <2>4 DEF Goes, Ended
  <2> QED
    BY <2>1, <2>4, <2>5 DEF LocalStep, rest, files, results
<1>4. ASSUME WriteControlFile PROVE LocalStep("rotate", "Control", "Sleep")
  <2>1. /\ p.pc = "Control" /\ losses' \in Nat /\ plan' = plan /\ control_file' = run
        /\ proc' = [proc EXCEPT !["rotate"] = Enter(p, "Sleep")]
        /\ UNCHANGED <<actors, owner_file, results, attempts, crashes>>
    BY <1>1, <1>4 DEF WriteControlFile
  <2>2. MayEnter(p, "Sleep")
    BY <2>1 DEF MayEnter, Stages, Ended, CancelStages, Preparing
  <2>3. Moves("rotate") /\ Goes("rotate", "Control", "Sleep")
    <3> DEFINE pc == "Sleep"
    <3>1. /\ p.pc \in Stages /\ MayEnter(p, pc) /\ pc # "WitnessFinalize"
          /\ proc' = [proc EXCEPT !["rotate"] = Enter(p, pc)] /\ plan' = plan /\ losses' \in Nat
      BY <2>1, <2>2 DEF Stages
    <3> HIDE DEF pc
    <3>2. Moves("rotate") /\ Goes("rotate", p.pc, pc)
      BY <1>1, <3>1, EnterStep
    <3> QED
      BY <2>1, <3>2 DEF pc
  <2> QED
    BY <2>1, <2>3 DEF LocalStep, run
<1>5. ASSUME Sleep PROVE LocalStep("rotate", "Sleep", "ReleaseVotes")
  <2>1. /\ p.pc = "Sleep" /\ losses' \in Nat /\ plan' = plan
        /\ proc' = [proc EXCEPT !["rotate"] = Enter(p, "ReleaseVotes")]
        /\ UNCHANGED <<actors, files, results, attempts, crashes>>
    BY <1>1, <1>5 DEF Sleep
  <2>2. MayEnter(p, "ReleaseVotes")
    BY <2>1 DEF MayEnter, Stages, Ended, CancelStages, Preparing
  <2>3. Moves("rotate") /\ Goes("rotate", "Sleep", "ReleaseVotes")
    <3> DEFINE pc == "ReleaseVotes"
    <3>1. /\ p.pc \in Stages /\ MayEnter(p, pc) /\ pc # "WitnessFinalize"
          /\ proc' = [proc EXCEPT !["rotate"] = Enter(p, pc)] /\ plan' = plan /\ losses' \in Nat
      BY <2>1, <2>2 DEF Stages
    <3> HIDE DEF pc
    <3>2. Moves("rotate") /\ Goes("rotate", p.pc, pc)
      BY <1>1, <3>1, EnterStep
    <3> QED
      BY <2>1, <3>2 DEF pc
  <2> QED
    BY <2>1, <2>3 DEF LocalStep, files
<1>6. ASSUME WriteOwnerFile
      PROVE  /\ Moves("rotate") /\ Goes("rotate", "OwnerFile", "Ok") /\ proc'["rotate"].pc = "Ok"
             /\ owner_file' = run /\ completed' = completed \cup {run}
             /\ UNCHANGED <<plan, actors, control_file, cancelled, attempts, crashes>>
  <2>1. /\ p.pc = "OwnerFile" /\ losses' \in Nat /\ plan' = plan
        /\ owner_file' = run /\ completed' = completed \cup {run}
        /\ proc' = [proc EXCEPT !["rotate"] = Enter(p, "Ok")]
        /\ UNCHANGED <<actors, control_file, cancelled, attempts, crashes>>
    BY <1>1, <1>6 DEF WriteOwnerFile
  <2>2. MayEnter(p, "Ok")
    BY DEF MayEnter, Stages, Ended
  <2>3. Moves("rotate") /\ Goes("rotate", "OwnerFile", "Ok") /\ proc'["rotate"].pc = "Ok"
    BY <1>2, <2>1, <2>2
  <2> QED
    BY <2>1, <2>3
<1> QED
  BY <1>3, <1>4, <1>5, <1>6

\* A crash.
LEMMA CrashStep ==
  ASSUME Base, NEW c \in Process, Crash(c)
  PROVE  /\ Moves(c) /\ proc[c].pc \in Stages /\ proc'[c].pc = "Crashed"
         /\ crashes' \in Nat
         /\ UNCHANGED <<plan, actors, results, attempts>>
         /\ control_file' \in {control_file, None} /\ owner_file' \in {owner_file, None}
<1>1. proc[c] \in Proc /\ losses \in Nat /\ crashes \in Nat
  BY DEF Base, TypeOK
<1>2. /\ proc[c].pc \in Stages /\ proc' = [proc EXCEPT ![c] = Enter(proc[c], "Crashed")]
      /\ UNCHANGED <<plan, actors, results, attempts, losses>> /\ crashes' = crashes + 1
      /\ control_file' \in {control_file, None} /\ owner_file' \in {owner_file, None}
  BY <1>1, ProcFields DEF Crash
<1>3. MayEnter(proc[c], "Crashed")
  BY DEF MayEnter, Stages, Ended
<1>4. Moves(c) /\ proc'[c].pc = "Crashed"
  BY <1>1, <1>2, <1>3, EnterStep
<1> QED
  BY <1>1, <1>2, <1>4

\* Whom the cancel command calls, by stage.
LEMMA CancelTargets ==
  LET p == proc["cancel"]
  IN /\ p.pc = "Veto" => TargetsOf(p) = Witness
     /\ p.pc = "CancelOld" => TargetsOf(p) = plan[target].old_roster
     /\ p.pc = "CancelNew" => TargetsOf(p) = plan[target].new_roster \ plan[target].old_roster
     /\ p.pc = "Abort" => TargetsOf(p) = plan[target].old_roster \cup plan[target].new_roster
     /\ p.pc \in {"AbortVotes", "FinalizeOwnerCancel"} => TargetsOf(p) = Signer
  BY DEF TargetsOf, SignerStages, HelperStages, target

\* The cancel command's calls to witnesses and guardians.
LEMMA CancelSteps ==
  ASSUME Base
  PROVE  /\ CancelAtOldGuardians =>
              \E g \in Guardian : GuardianCalled("cancel", "CancelOld",
                Stage(plan[target].old_roster, "try",
                      Cardinality(plan[target].old_roster) - guardian_threshold + 1,
                      relay_count, "CancelNew"), g, CancelledAt(g, target))
         /\ CancelAtCandidates =>
              \E g \in Guardian : GuardianCalled("cancel", "CancelNew",
                Stage(plan[target].new_roster \ plan[target].old_roster,
                      "try", 0, relay_count, "AbortVotes"), g, CancelledAt(g, target))
         /\ AbortAtGuardians =>
              \E g \in Guardian : GuardianCalled("cancel", "Abort",
                Stage(plan[target].old_roster \cup plan[target].new_roster,
                      "try", 0, relay_count, "FinalizeOwnerCancel"), g, AbortedAt(g, target))
         /\ VetoAtWitnesses =>
              \E w \in Witness : WitnessCalled("cancel", "Veto",
                Stage(Witness, "enough", required_witnesses, 1, "CancelOld"), w, VetoedAt(w, target))
<1> DEFINE p == proc["cancel"]
<1>1. "cancel" \in Process
  BY DEF Process
<1>2. ASSUME CancelAtOldGuardians
      PROVE  \E g \in Guardian : GuardianCalled("cancel", "CancelOld",
                Stage(plan[target].old_roster, "try",
                      Cardinality(plan[target].old_roster) - guardian_threshold + 1,
                      relay_count, "CancelNew"), g, CancelledAt(g, target))
  <2> DEFINE res(g) == CancelledAt(g, target)
             st == Stage(plan[target].old_roster, "try",
                      Cardinality(plan[target].old_roster) - guardian_threshold + 1,
                      relay_count, "CancelNew")
  <2>1. PICK g \in Turn(p, "CancelOld", st.targets) : CallGuardian("cancel", g, st, res(g))
    BY <1>2 DEF CancelAtOldGuardians, All, Stage
  <2>2. /\ p.pc = "CancelOld" /\ "CancelOld" \in Stages \ LocalStages
        /\ "CancelOld" \notin SignerStages \cup {"WitnessActivate", "WitnessFinalize", "Veto"}
    BY DEF Turn, SignerStages, LocalStages, Stages
  <2>3. StageEnds(p, st) /\ st.targets = TargetsOf(p) /\ st.next = "CancelNew" /\ st.otherwise \in Ended
    BY <2>2, CancelTargets
       DEF StageEnds, MayEnter, Stages, CancelStages, Preparing, HelperStages, Ended, All, Stage
  <2> HIDE DEF res, st
  <2>4. GuardianCalled("cancel", "CancelOld", st, g, res(g)) /\ g \in Guardian
    BY <1>1, <2>1, <2>2, <2>3, GuardianCall DEF GuardianCalled
  <2> QED
    BY <2>4 DEF res, st
<1>3. ASSUME CancelAtCandidates
      PROVE  \E g \in Guardian : GuardianCalled("cancel", "CancelNew",
                Stage(plan[target].new_roster \ plan[target].old_roster,
                      "try", 0, relay_count, "AbortVotes"), g, CancelledAt(g, target))
  <2> DEFINE res(g) == CancelledAt(g, target)
             st == Stage(plan[target].new_roster \ plan[target].old_roster,
                      "try", 0, relay_count, "AbortVotes")
  <2>1. PICK g \in Turn(p, "CancelNew", st.targets) : CallGuardian("cancel", g, st, res(g))
    BY <1>3 DEF CancelAtCandidates, All, Stage
  <2>2. /\ p.pc = "CancelNew" /\ "CancelNew" \in Stages \ LocalStages
        /\ "CancelNew" \notin SignerStages \cup {"WitnessActivate", "WitnessFinalize", "Veto"}
    BY DEF Turn, SignerStages, LocalStages, Stages
  <2>3. StageEnds(p, st) /\ st.targets = TargetsOf(p) /\ st.next = "AbortVotes" /\ st.otherwise \in Ended
    BY <2>2, CancelTargets
       DEF StageEnds, MayEnter, Stages, CancelStages, Preparing, HelperStages, Ended, All, Stage
  <2> HIDE DEF res, st
  <2>4. GuardianCalled("cancel", "CancelNew", st, g, res(g)) /\ g \in Guardian
    BY <1>1, <2>1, <2>2, <2>3, GuardianCall DEF GuardianCalled
  <2> QED
    BY <2>4 DEF res, st
<1>4. ASSUME AbortAtGuardians
      PROVE  \E g \in Guardian : GuardianCalled("cancel", "Abort",
                Stage(plan[target].old_roster \cup plan[target].new_roster,
                      "try", 0, relay_count, "FinalizeOwnerCancel"), g, AbortedAt(g, target))
  <2> DEFINE res(g) == AbortedAt(g, target)
             st == Stage(plan[target].old_roster \cup plan[target].new_roster,
                      "try", 0, relay_count, "FinalizeOwnerCancel")
  <2>1. PICK g \in Turn(p, "Abort", st.targets) : CallGuardian("cancel", g, st, res(g))
    BY <1>4 DEF AbortAtGuardians, All, Stage
  <2>2. /\ p.pc = "Abort" /\ "Abort" \in Stages \ LocalStages
        /\ "Abort" \notin SignerStages \cup {"WitnessActivate", "WitnessFinalize", "Veto"}
    BY DEF Turn, SignerStages, LocalStages, Stages
  <2>3. StageEnds(p, st) /\ st.targets = TargetsOf(p) /\ st.next = "FinalizeOwnerCancel" /\ st.otherwise \in Ended
    BY <2>2, CancelTargets
       DEF StageEnds, MayEnter, Stages, CancelStages, Preparing, HelperStages, Ended, All, Stage
  <2> HIDE DEF res, st
  <2>4. GuardianCalled("cancel", "Abort", st, g, res(g)) /\ g \in Guardian
    BY <1>1, <2>1, <2>2, <2>3, GuardianCall DEF GuardianCalled
  <2> QED
    BY <2>4 DEF res, st
<1>5. ASSUME VetoAtWitnesses
      PROVE  \E w \in Witness : WitnessCalled("cancel", "Veto",
                Stage(Witness, "enough", required_witnesses, 1, "CancelOld"), w, VetoedAt(w, target))
  <2> DEFINE res(w) == VetoedAt(w, target)
             st == Stage(Witness, "enough", required_witnesses, 1, "CancelOld")
  <2>1. PICK w \in Turn(p, "Veto", st.targets) : CallWitness("cancel", w, st, res(w))
    BY <1>5 DEF VetoAtWitnesses, All, Stage
  <2>2. p.pc = "Veto" /\ "Veto" \in Stages \ LocalStages
    BY DEF Turn, LocalStages, Stages
  <2>3. StageEnds(p, st) /\ st.targets = TargetsOf(p) /\ st.next = "CancelOld" /\ st.otherwise \in Ended
    BY <2>2, CancelTargets
       DEF StageEnds, MayEnter, Stages, CancelStages, Preparing, HelperStages, Ended, All, Stage
  <2> HIDE DEF res, st
  <2>4. WitnessCalled("cancel", "Veto", st, w, res(w)) /\ w \in Witness
    BY <1>1, <2>1, <2>2, <2>3, WitnessCall DEF WitnessCalled
  <2> QED
    BY <2>4 DEF res, st
<1> QED
  BY <1>2, <1>3, <1>4, <1>5

\* A call of the cancel command to a signer.
LEMMA SignerAttempt ==
  ASSUME Base, NEW st, NEW pc \in {"AbortVotes", "FinalizeOwnerCancel"},
         NEW s \in Turn(proc["cancel"], pc, Signer), st.targets = Signer,
         StageEnds(proc["cancel"], st), NEW res,
         s \in Signer => res.entry \in SignerEntry,
         Attempt("cancel", s, st, signer, signer', res), plan' = plan
  PROVE  /\ Moves("cancel") /\ proc["cancel"].pc = pc /\ signer' \in [Signer -> SignerEntry]
         /\ proc'["cancel"].pc \in {pc, st.next, st.otherwise}
<1>1. /\ proc["cancel"].pc = pc /\ pc \in Stages \ LocalStages
      /\ st.targets = TargetsOf(proc["cancel"]) /\ "cancel" \in Process
  BY DEF Turn, TargetsOf, SignerStages, Stages, LocalStages, Process
<1>2. /\ s \in Signer /\ Moves("cancel")
      /\ signer' = signer \/ signer' = [signer EXCEPT ![s] = res.entry]
      /\ CallDone("cancel", st, s, res.ok /\ signer' = [signer EXCEPT ![s] = res.entry])
  BY <1>1, CallStep DEF Moves
<1>3. signer' \in [Signer -> SignerEntry]
  BY <1>2 DEF Base, TypeOK
<1> QED
  BY <1>1, <1>2, <1>3 DEF CallDone, Outcome

\* The cancel command's calls to signers.
LEMMA CancelAtSigners ==
  ASSUME Base
  PROVE  /\ collect_signer_abort_votes =>
              /\ Moves("cancel") /\ proc["cancel"].pc = "AbortVotes"
              /\ proc'["cancel"].pc \in {"AbortVotes", "Abort", "FinalizeOwnerCancel"}
              /\ signer' \in [Signer -> SignerEntry]
              /\ UNCHANGED <<guardian, witness, rest>>
         /\ FinalizeAtSigners =>
              /\ Moves("cancel") /\ proc["cancel"].pc = "FinalizeOwnerCancel"
              /\ proc'["cancel"].pc \in {"FinalizeOwnerCancel", "Ok", "Failed"}
              /\ signer' \in [Signer -> SignerEntry]
              /\ cancelled' \in {cancelled, cancelled \cup {target}}
              /\ UNCHANGED <<guardian, witness, plan, files, completed, attempts, crashes>>
<1> DEFINE p == proc["cancel"]
<1>1. \A s \in Signer : signer[s] \in SignerEntry
  BY DEF Base, TypeOK
<1>2. ASSUME collect_signer_abort_votes
      PROVE  /\ Moves("cancel") /\ p.pc = "AbortVotes"
             /\ proc'["cancel"].pc \in {"AbortVotes", "Abort", "FinalizeOwnerCancel"}
             /\ signer' \in [Signer -> SignerEntry]
             /\ UNCHANGED <<guardian, witness, rest>>
  <2> DEFINE st == [Votes("Abort") EXCEPT !.otherwise = "FinalizeOwnerCancel"]
             ok(s) == BegunVote(signer[s], target) /\ target \notin signer[s].activate_votes
             res(s) == Served(ok(s), signer[s], signer[s])
  <2>1. PICK s \in Turn(p, "AbortVotes", Signer) : CallSigner("cancel", s, st, res(s))
    BY <1>2 DEF collect_signer_abort_votes
  <2>2. p.pc = "AbortVotes"
    BY DEF Turn
  <2>3. /\ StageEnds(p, st) /\ st.targets = Signer /\ st.next = "Abort"
        /\ st.otherwise = "FinalizeOwnerCancel"
    BY <2>2 DEF StageEnds, MayEnter, Stages, CancelStages, Preparing, Ended, Votes, Stage
  <2>4. s \in Signer => res(s).entry \in SignerEntry
    BY <1>1 DEF Served
  <2> HIDE DEF st, ok, res
  <2>5. /\ Attempt("cancel", s, st, signer, signer', res(s)) /\ plan' = plan
        /\ UNCHANGED <<guardian, witness, rest>>
    BY <2>1 DEF CallSigner, rest
  <2>6. /\ Moves("cancel") /\ signer' \in [Signer -> SignerEntry]
        /\ proc'["cancel"].pc \in {"AbortVotes", st.next, st.otherwise}
    BY <2>3, <2>4, <2>5, SignerAttempt
  <2> QED
    BY <2>2, <2>3, <2>5, <2>6
<1>3. ASSUME FinalizeAtSigners
      PROVE  /\ Moves("cancel") /\ p.pc = "FinalizeOwnerCancel"
             /\ proc'["cancel"].pc \in {"FinalizeOwnerCancel", "Ok", "Failed"}
             /\ signer' \in [Signer -> SignerEntry]
             /\ cancelled' \in {cancelled, cancelled \cup {target}}
             /\ UNCHANGED <<guardian, witness, plan, files, completed, attempts, crashes>>
  <2> DEFINE st == Stage(Signer, "try", 0, relay_count, "Ok")
  <2>1. PICK s \in Turn(p, "FinalizeOwnerCancel", Signer) :
          Attempt("cancel", s, st, signer, signer', OwnerCancelledAt(s, target))
    BY <1>3 DEF FinalizeAtSigners
  <2>2. p.pc = "FinalizeOwnerCancel" /\ p.pc \in Stages
    BY DEF Turn, Stages
  <2>3. StageEnds(p, st) /\ st.targets = Signer /\ st.next = "Ok" /\ st.otherwise = "Failed"
    BY <2>2 DEF StageEnds, MayEnter, Stages, CancelStages, Preparing, Ended, Stage
  <2>4. s \in Signer => OwnerCancelledAt(s, target).entry \in SignerEntry
    <3>1. target \in Rotation /\ plan[target] # None
      BY <2>2, RunFacts DEF target, Process
    <3>2. ASSUME s \in Signer
          PROVE  [signer[s] EXCEPT !.cancelled_rotations = @ \cup {target},
                      !.predecessor_plan_locks[plan[target].predecessor] = None] \in SignerEntry
      BY <1>1, <3>1, <3>2, SignerEntries
    <3> QED
      BY <1>1, <3>2 DEF OwnerCancelledAt, Served
  <2> HIDE DEF st
  <2>5. /\ plan' = plan
        /\ UNCHANGED <<guardian, witness, plan, files, completed, attempts, crashes>>
        /\ cancelled' \in {cancelled, cancelled \cup {target}}
    BY <1>3 DEF FinalizeAtSigners
  <2>6. /\ Moves("cancel") /\ signer' \in [Signer -> SignerEntry]
        /\ proc'["cancel"].pc \in {"FinalizeOwnerCancel", st.next, st.otherwise}
    BY <2>1, <2>3, <2>4, <2>5, SignerAttempt
  <2> QED
    BY <2>2, <2>3, <2>5, <2>6
<1> QED
  BY <1>2, <1>3

-----------------------------------------------------------------------------
(* The starts of the two programs *)

\* A fresh read finds an epoch that some witness serves.
LEMMA ReadFacts ==
  ASSUME Base, NEW e \in Readable
  PROVE  e \in Epoch /\ Planned(e) /\ \E w \in Witness : witness[w].capsule = e
<1>1. PICK Q \in ReadQuorums : e \in Selected(Q)
  BY DEF Readable
<1>2. Q \subseteq Witness
  BY DEF ReadQuorums
<1>3. e \in {witness[w].capsule : w \in Q}
  BY <1>1 DEF Selected
<1>4. PICK w \in Q : e = witness[w].capsule
  BY <1>3
<1> QED
  BY <1>2, <1>4 DEF Base, PlansOK, TypeOK, WitnessEntry

\* What was planned stays as it was planned.
PlansStay ==
  \A e \in Epoch : Planned(e) => /\ Planned(e)'
                                 /\ guardian_epoch(e)' = guardian_epoch(e)
                                 /\ roster(e)' = roster(e)
                                 /\ e \in Rotation => plan'[e] = plan[e]

LEMMA SamePlans ==
  ASSUME plan' = plan
  PROVE  PlansStay /\ \A e : Planned(e)' = Planned(e)
  BY DEF PlansStay, Planned, guardian_epoch, roster

\* A start of rotate_v3.
LEMMA RotationStarts ==
  ASSUME Base, NEW r \in Rotation, StartRotation(r)
  PROVE  /\ PlansStay /\ plan[r] = None /\ plan'[r] # None
         /\ \A q \in Rotation : q # r => plan'[q] = plan[q]
         /\ \E e \in Readable : owner_file = e /\ plan'[r].predecessor = e
         /\ proc' \in [Process -> Proc] /\ proc'["cancel"] = proc["cancel"]
         /\ proc["rotate"].pc \in Ended
         /\ proc'["rotate"].pc = "Intent" /\ proc'["rotate"].r = r
         /\ plan' \in [Rotation -> Plan \cup {None}] /\ PlansOK' /\ ProcsOK'
         /\ UNCHANGED <<actors, files, results, attempts, losses, crashes>>
<1> DEFINE p == proc["rotate"]
           n == [pc |-> "Intent", r |-> r, called |-> {}, got |-> {}, acked |-> {}, tries |-> 0]
<1>1. /\ p.pc \in Ended /\ plan[r] = None /\ proc' = [proc EXCEPT !["rotate"] = n]
      /\ UNCHANGED <<actors, files, results, attempts, losses, crashes>>
  BY DEF StartRotation
<1>2. PICK e \in Readable :
        /\ owner_file = e
        /\ plan' = [plan EXCEPT ![r] =
             [predecessor |-> e, guardian_epoch |-> guardian_epoch(e) + 1,
              old_roster |-> roster(e),
              new_roster |-> (roster(e) \ {remove_guardian[r]}) \cup {Added(r)}]]
  BY DEF StartRotation
<1>3. e \in Epoch /\ Planned(e)
  BY ReadFacts
<1>4. /\ guardian_epoch(e) \in Nat \ {0} /\ roster(e) \subseteq Guardian /\ Added(r) \in Guardian
      /\ \E a, b \in roster(e) : a # b
      /\ \A q \in Rotation : Added(q) \in roster(e) =>
           Planned(q) /\ guardian_epoch(q) <= guardian_epoch(e)
  BY <1>3, AddedFacts DEF Base, PlansOK, RosterOK
<1>5. plan \in [Rotation -> Plan \cup {None}] /\ proc \in [Process -> Proc]
  BY DEF Base, TypeOK
<1> DEFINE new == [predecessor |-> e, guardian_epoch |-> guardian_epoch(e) + 1,
                   old_roster |-> roster(e),
                   new_roster |-> (roster(e) \ {remove_guardian[r]}) \cup {Added(r)}]
<1>6. new \in Plan /\ new # None
  <2>1. /\ roster(e) \in SUBSET Nat /\ guardian_epoch(e) + 1 \in Nat
        /\ (roster(e) \ {remove_guardian[r]}) \cup {Added(r)} \in SUBSET Nat
    <3>1. Guardian \subseteq Nat
      BY SetFacts
    <3>2. guardian_epoch(e) + 1 \in Nat
      BY <1>4
    <3> QED
      BY <1>4, <3>1, <3>2, Zenon
  <2>2. new \in Plan
    BY <1>3, <2>1 DEF Plan
  <2> QED
    BY <2>2, NoPlanAssumption
<1>7. /\ new.predecessor = e /\ new.guardian_epoch = guardian_epoch(e) + 1
      /\ new.old_roster = roster(e)
      /\ new.new_roster = (roster(e) \ {remove_guardian[r]}) \cup {Added(r)}
  OBVIOUS
<1>8. plan' = [plan EXCEPT ![r] = new]
  BY <1>2
<1> HIDE DEF new
<1>9. /\ plan' \in [Rotation -> Plan \cup {None}] /\ plan'[r] = new
      /\ \A q \in Rotation : q # r => plan'[q] = plan[q]
  BY <1>5, <1>6, <1>8
<1>10. PlansStay
  <2>1. ASSUME NEW d \in Epoch, Planned(d)
        PROVE  /\ Planned(d)'
               /\ d \in Rotation => d # r /\ plan'[d] = plan[d]
    BY <1>1, <1>9, <2>1, SetFacts DEF Planned
  <2>2. ASSUME NEW d \in Epoch, Planned(d)
        PROVE  guardian_epoch(d)' = guardian_epoch(d) /\ roster(d)' = roster(d)
    BY <2>1, <2>2, SetFacts DEF guardian_epoch, roster
  <2> QED
    BY <2>1, <2>2 DEF PlansStay
<1>11. /\ Planned(r)' /\ guardian_epoch(r)' = new.guardian_epoch /\ roster(r)' = new.new_roster
       /\ \A d \in Epoch : Planned(d)' => d = r \/ Planned(d)
  BY <1>6, <1>9, SetFacts DEF Planned, guardian_epoch, roster
<1>12. PlansOK'
  <2>1. ASSUME NEW q \in Rotation PROVE PlanOK(q)'
    <3>1. CASE q = r
      <4>1. /\ Planned(e)' /\ guardian_epoch(e)' = guardian_epoch(e) /\ roster(e)' = roster(e)
        BY <1>3, <1>10 DEF PlansStay
      <4> QED
        BY <1>3, <1>7, <1>9, <3>1, <4>1 DEF PlanOK
    <3>2. CASE q # r
      <4>1. plan'[q] = plan[q] /\ PlanOK(q)
        BY <1>9, <3>2 DEF Base, PlansOK
      <4>2. CASE plan[q] = None
        BY <4>1, <4>2 DEF PlanOK
      <4>3. CASE plan[q] # None
        <5> DEFINE d == plan[q].predecessor
        <5>1. d \in Epoch /\ Planned(d)
          BY <4>1, <4>3 DEF PlanOK
        <5>2. Planned(d)' /\ guardian_epoch(d)' = guardian_epoch(d) /\ roster(d)' = roster(d)
          BY <1>10, <5>1, <4>1 DEF PlansStay
        <5> QED
          BY <4>1, <4>3, <5>2 DEF PlanOK
      <4> QED
        BY <4>2, <4>3
    <3> QED
      BY <3>1, <3>2
  <2>2. ASSUME NEW d \in Epoch PROVE RosterOK(d)'
    <3>1. CASE d = r
      <4>1. \A q \in Rotation : Added(q) \in roster(e) =>
              Planned(q)' /\ guardian_epoch(q)' = guardian_epoch(q)
        BY <1>4, <1>10, SetFacts DEF PlansStay
      <4>2. guardian_epoch(r)' \in Nat \ {0} /\ guardian_epoch(r)' = guardian_epoch(e) + 1
        BY <1>4, <1>7, <1>11
      <4>3. roster(r)' \subseteq Guardian /\ \E a, b \in roster(r)' : a # b
        <5>1. Added(r) \notin roster(e)
          BY <1>1, <1>4, SetFacts DEF Planned
        <5>2. PICK a \in roster(e) : a # remove_guardian[r]
          BY <1>4
        <5>3. a \in roster(r)' /\ Added(r) \in roster(r)' /\ a # Added(r)
          BY <1>7, <1>11, <5>1, <5>2
        <5>4. roster(r)' \subseteq Guardian
          BY <1>4, <1>7, <1>11
        <5> QED
          BY <5>3, <5>4
      <4>4. ASSUME NEW q \in Rotation, Added(q) \in roster(r)'
            PROVE  Planned(q)' /\ guardian_epoch(q)' <= guardian_epoch(r)'
        <5>1. CASE q = r
          BY <1>11, <4>2, <5>1
        <5>2. CASE q # r
          <6>1. Added(q) \in roster(e)
            BY <1>7, <1>11, <4>4, <5>2, AddedFacts
          <6>2. Planned(q) /\ guardian_epoch(q) <= guardian_epoch(e) /\ q \in Epoch
            BY <1>4, <6>1, SetFacts
          <6>3. guardian_epoch(q) \in Nat
            BY <6>2 DEF Base, PlansOK, RosterOK
          <6>4. Planned(q)' /\ guardian_epoch(q)' = guardian_epoch(q)
            BY <4>1, <6>1
          <6> QED
            BY <1>4, <4>2, <6>2, <6>3, <6>4
        <5> QED
          BY <5>1, <5>2
      <4> QED
        BY <3>1, <4>2, <4>3, <4>4 DEF RosterOK
    <3>2. CASE d # r /\ Planned(d)
      <4>1. RosterOK(d)
        BY DEF Base, PlansOK
      <4>2. guardian_epoch(d)' = guardian_epoch(d) /\ roster(d)' = roster(d)
        BY <1>10, <3>2 DEF PlansStay
      <4>3. \A q \in Rotation : Planned(q) =>
              Planned(q)' /\ guardian_epoch(q)' = guardian_epoch(q)
        BY <1>10, SetFacts DEF PlansStay
      <4> QED
        BY <3>2, <4>1, <4>2, <4>3 DEF RosterOK
    <3>3. CASE d # r /\ ~Planned(d)
      BY <1>11, <3>3 DEF RosterOK
    <3> QED
      BY <3>1, <3>2, <3>3
  <2>3. /\ witness' = witness /\ control_file' = control_file
    BY <1>1 DEF actors, files
  <2>4. \A w \in Witness : Planned(witness[w].capsule)'
    <3>1. \A w \in Witness : witness[w].capsule \in Epoch /\ Planned(witness[w].capsule)
      BY DEF Base, TypeOK, WitnessEntry, PlansOK
    <3>2. \A d \in Epoch : Planned(d) => (d = Genesis \/ (d \in Rotation /\ plan'[d] # None))
      BY <1>10 DEF PlansStay, Planned
    <3> QED
      BY <2>3, <3>1, <3>2 DEF Planned
  <2>5. (control_file # None => Planned(control_file))'
    <3>1. control_file # None => control_file \in Rotation /\ Planned(control_file)
      BY DEF Base, TypeOK, PlansOK
    <3>2. \A d \in Rotation : Planned(d) => (d \in Rotation /\ plan'[d] # None)
      BY <1>10, SetFacts DEF PlansStay, Planned
    <3> QED
      BY <2>3, <3>1, <3>2 DEF Planned
  <2>6. (\A w \in Witness : Planned(witness[w].capsule))'
    BY <2>3, <2>4
  <2> QED
    BY <2>1, <2>2, <2>5, <2>6 DEF PlansOK
<1>13. n \in Proc /\ n.pc = "Intent" /\ n.r = r /\ n.called = {} /\ n.got = {}
  BY DEF Proc, Stages
<1> HIDE DEF n
<1>14. /\ proc' \in [Process -> Proc] /\ proc'["cancel"] = proc["cancel"] /\ proc'["rotate"] = n
  BY <1>1, <1>5, <1>13 DEF Process
<1>15. ProcOK("rotate")'
  <2>1. StageOK(proc["rotate"])'
    BY <1>6, <1>9, <1>13, <1>14 DEF StageOK, CancelStages, Preparing
  <2>2. Ongoing(n, Signer)
    BY <1>13, SetFacts DEF Ongoing
  <2>3. TargetsOf(proc["rotate"])' = Signer
    BY <1>13, <1>14 DEF TargetsOf, SignerStages
  <2> QED
    BY <1>13, <1>14, <2>1, <2>2, <2>3 DEF ProcOK, CancelStages
<1>16. ProcOK("cancel")'
  <2> DEFINE c == proc["cancel"]
  <2>1. CASE c.pc \notin Stages
    BY <1>14, <2>1 DEF ProcOK, StageOK
  <2>2. CASE c.pc \in Stages
    <3>1. ProcOK("cancel") /\ c.r \in Rotation /\ plan'[c.r] = plan[c.r]
      BY <1>1, <1>9, <2>2, RunFacts DEF Process
    <3> QED
      BY <1>14, <3>1 DEF ProcOK, TargetsOf, StageOK, Helpers, ReadQuorums
  <2> QED
    BY <2>1, <2>2
<1> QED
  BY <1>1, <1>2, <1>6, <1>7, <1>9, <1>10, <1>12, <1>13, <1>14, <1>15, <1>16 DEF ProcsOK

\* A start of cancel_rotation_v3.
LEMMA CancelStarts ==
  ASSUME Base, StartCancel
  PROVE  /\ proc["cancel"].pc \in Ended /\ attempts' = attempts + 1
         /\ Planned(control_file) /\ control_file \in Rotation
         /\ plan[control_file].predecessor = owner_file
         /\ proc' \in [Process -> Proc] /\ ProcsOK' /\ proc'["rotate"] = proc["rotate"]
         /\ proc'["cancel"].pc = "Veto" /\ proc'["cancel"].r = control_file
         /\ proc'["cancel"].got = {}
         /\ UNCHANGED <<plan, actors, files, results, losses, crashes>>
<1> DEFINE n == [pc |-> "Veto", r |-> control_file, called |-> {}, got |-> {}, acked |-> {},
                 tries |-> 0]
<1>1. /\ proc["cancel"].pc \in Ended /\ attempts' = attempts + 1 /\ control_file # None
      /\ plan[control_file].predecessor = owner_file
      /\ proc' = [proc EXCEPT !["cancel"] = n]
      /\ UNCHANGED <<plan, actors, files, results, losses, crashes>>
  BY DEF StartCancel
<1>2. /\ Planned(control_file) /\ control_file \in Rotation /\ plan[control_file] # None
      /\ proc \in [Process -> Proc]
  BY <1>1, SetFacts DEF Base, PlansOK, TypeOK, Planned
<1>3. /\ n \in Proc /\ n.pc = "Veto" /\ n.r = control_file /\ n.called = {} /\ n.got = {}
  BY <1>2 DEF Proc, Stages
<1> HIDE DEF n
<1>4. /\ proc' \in [Process -> Proc] /\ proc'["rotate"] = proc["rotate"] /\ proc'["cancel"] = n
  BY <1>1, <1>2, <1>3 DEF Process
<1>5. ProcOK("cancel")'
  <2>1. StageOK(proc["cancel"])'
    BY <1>1, <1>2, <1>3, <1>4 DEF StageOK, CancelStages, Preparing
  <2>2. Ongoing(n, Witness)
    BY <1>3, SetFacts DEF Ongoing
  <2>3. TargetsOf(proc["cancel"])' = Witness
    BY <1>3, <1>4 DEF TargetsOf, SignerStages
  <2> QED
    BY <1>3, <1>4, <2>1, <2>2, <2>3 DEF ProcOK, CancelStages
<1>6. ProcOK("rotate")'
  BY <1>1, <1>4, ProcFrame DEF Base, ProcsOK, Process
<1> QED
  BY <1>1, <1>2, <1>3, <1>4, <1>5, <1>6 DEF ProcsOK

-----------------------------------------------------------------------------
(* What the calls do to the entries of guardians and witnesses *)

LEMMA PreparedFacts ==
  ASSUME Base, NEW g \in Guardian, NEW r \in Rotation
  PROVE  LET e == guardian[g]
             n == PreparedAt(g, r).entry
         IN /\ n \in GuardianEntry /\ n.capsule = e.capsule /\ n.active = e.active
            /\ \/ n.prepared = e.prepared /\ ~PreparedAt(g, r).ok
               \/ e.prepared = None /\ n.prepared = r
<1> DEFINE e == guardian[g]
           m == Moved(e, r, "staged", "prepared")
           a == [m EXCEPT !.prepared = r]
           ok == e.sessions[r] = "staged" /\ e.prepared = None
<1>1. e \in GuardianEntry
  BY DEF Base, TypeOK
<1>2. SameRecord(e, m)
  BY <1>1, SessionEntries DEF Progress
<1>3. PreparedAt(g, r) = Served(ok, e, a) /\ ok \in BOOLEAN
  BY DEF PreparedAt
<1> HIDE DEF m
<1>4. a \in GuardianEntry /\ a.capsule = e.capsule /\ a.active = e.active /\ a.prepared = r
  BY <1>2 DEF SameRecord, GuardianEntry
<1> HIDE DEF a
<1>5. /\ PreparedAt(g, r).ok = ok
      /\ PreparedAt(g, r).entry = IF ok THEN a ELSE e
  <2> HIDE DEF ok, e
  <2> QED
    BY <1>3, ServedFacts
<1>6. CASE ok
  BY <1>4, <1>5, <1>6
<1>7. CASE ~ok
  BY <1>1, <1>5, <1>7
<1> QED
  BY <1>6, <1>7

LEMMA ActivatedFacts ==
  ASSUME Base, NEW g \in Guardian, NEW r \in Rotation
  PROVE  LET e == guardian[g]
             n == ActivatedAt(g, r).entry
         IN /\ n \in GuardianEntry
            /\ \/ SameRecord(e, n)
               \/ /\ e.capsule = plan[r].predecessor /\ n.capsule = r /\ n.prepared = None
                  /\ IF g \in plan[r].new_roster THEN e.prepared = r /\ n.active = r
                                                 ELSE e.prepared = None /\ n.active = None
<1> DEFINE e == guardian[g]
           staying == g \in plan[r].new_roster
           may == /\ e.capsule = plan[r].predecessor
                  /\ staying => e.prepared = r
                  /\ Live(e, r)
           refused == [e EXCEPT !.sessions[r] = "spent"]
           a == [e EXCEPT !.capsule = r, !.active = IF staying THEN r ELSE None,
                          !.prepared = IF staying THEN None ELSE @,
                          !.sessions[r] = "none", !.tombstones = @ \cup {r}]
<1>1. e \in GuardianEntry
  BY DEF Base, TypeOK
<1>2. SameRecord(e, refused) /\ SameRecord(e, e)
  BY <1>1 DEF SameRecord, GuardianEntry, Progress
<1>3. /\ a \in GuardianEntry /\ a.capsule = r /\ a.active = IF staying THEN r ELSE None
      /\ a.prepared = IF staying THEN None ELSE e.prepared
  <2> DEFINE act == IF staying THEN r ELSE None
             pre == IF staying THEN None ELSE e.prepared
             fields == {"capsule", "active", "prepared", "sessions", "skewed", "tombstones"}
  <2>1. act \in Epoch \cup {None} /\ pre \in Rotation \cup {None} /\ r \in Epoch
    BY <1>1, SetFacts DEF GuardianEntry
  <2>2. a = [e EXCEPT !.capsule = r, !.active = act, !.prepared = pre,
                      !.sessions[r] = "none", !.tombstones = @ \cup {r}]
    OBVIOUS
  <2> HIDE DEF act, pre, a
  <2>3. /\ a = [f \in fields |-> a[f]] /\ a.capsule = r /\ a.active = act /\ a.prepared = pre
        /\ a.sessions = [e.sessions EXCEPT ![r] = "none"] /\ a.skewed = e.skewed
        /\ a.tombstones = e.tombstones \cup {r}
    BY <1>1, <2>2 DEF GuardianEntry
  <2>4. /\ e.sessions \in [Rotation -> Progress] /\ e.skewed \in SUBSET Rotation
        /\ e.tombstones \in SUBSET Rotation /\ "none" \in Progress
    BY <1>1 DEF GuardianEntry, Progress
  <2>5. a = [capsule |-> a.capsule, active |-> a.active, prepared |-> a.prepared,
             sessions |-> a.sessions, skewed |-> a.skewed, tombstones |-> a.tombstones]
    BY <2>3
  <2>6. a.sessions \in [Rotation -> Progress] /\ a.tombstones \in SUBSET Rotation
    BY <2>3, <2>4
  <2>7. a \in GuardianEntry
    BY <2>1, <2>3, <2>4, <2>5, <2>6 DEF GuardianEntry
  <2> QED
    BY <2>3, <2>7 DEF act, pre
<1>4. ActivatedAt(g, r).entry = IF may /\ ~staying /\ e.prepared # None THEN refused
                                ELSE IF may THEN a ELSE e
  BY DEF ActivatedAt, Served
<1>5. may \in BOOLEAN
  BY DEF Live
<1> HIDE DEF a, refused
<1>6. CASE may /\ ~staying /\ e.prepared # None
  BY <1>2, <1>4, <1>6 DEF SameRecord
<1>7. CASE ~may
  BY <1>2, <1>4, <1>7 DEF SameRecord
<1>8. CASE may /\ (staying \/ e.prepared = None)
  BY <1>3, <1>4, <1>8
<1> QED
  BY <1>6, <1>7, <1>8

\* Cancel and Abort give up the record of their own rotation at most.
LEMMA ErasedFacts ==
  ASSUME Base, NEW g \in Guardian, NEW r \in Rotation
  PROVE  LET e == guardian[g]
         IN \A n \in {CancelledAt(g, r).entry, AbortedAt(g, r).entry} :
              /\ n \in GuardianEntry /\ n.capsule = e.capsule /\ n.active = e.active
              /\ n.prepared = e.prepared \/ (e.prepared \in {None, r} /\ n.prepared = None)
<1> DEFINE e == guardian[g]
           stopped == IF e.sessions[r] = "none" THEN e
                                                ELSE [e EXCEPT !.sessions[r] = "cancelled"]
           spent == [e EXCEPT !.sessions[r] = "spent"]
           a == [e EXCEPT !.prepared = None, !.sessions[r] = "none",
                          !.tombstones = @ \cup {r}]
           Good(n) == /\ n \in GuardianEntry /\ n.capsule = e.capsule /\ n.active = e.active
                      /\ n.prepared = e.prepared \/ (e.prepared \in {None, r} /\ n.prepared = None)
<1>1. e \in GuardianEntry
  BY DEF Base, TypeOK
<1>2. Good(e) /\ Good(stopped) /\ Good(spent)
  BY <1>1 DEF GuardianEntry, Progress
<1>3. e.prepared \in {None, r} => Good(a)
  BY <1>1 DEF GuardianEntry, Progress
<1> DEFINE mayC == e.capsule = plan[r].predecessor /\ e.sessions[r] # "spent"
           mayA == Live(e, r) /\ e.capsule = plan[r].predecessor
<1>4. /\ CancelledAt(g, r).entry = IF mayC /\ e.prepared \notin {None, r} THEN stopped
                                   ELSE IF mayC THEN a ELSE e
      /\ AbortedAt(g, r).entry = IF mayA /\ e.prepared \notin {None, r} THEN spent
                                 ELSE IF mayA THEN a ELSE e
  BY DEF CancelledAt, AbortedAt, Served
<1> HIDE DEF a, stopped, spent, mayC, mayA, Good
<1>5. Good(CancelledAt(g, r).entry) /\ Good(AbortedAt(g, r).entry)
  BY <1>2, <1>3, <1>4
<1> QED
  BY <1>5 DEF Good

LEMMA AcceptedFacts ==
  ASSUME Base, NEW w \in Witness, NEW r \in Rotation
  PROVE  LET e == witness[w]
             res == Served(WitnessAccepts(e, r), e, [e EXCEPT !.pending = r])
             n == res.entry
         IN /\ n \in WitnessEntry /\ n.capsule = e.capsule /\ n.cancellations = e.cancellations
            /\ n.pending = e.pending \/ (WitnessAccepts(e, r) /\ n.pending = r)
<1>1. witness[w] \in WitnessEntry /\ WitnessAccepts(witness[w], r) \in BOOLEAN
  BY DEF Base, TypeOK, WitnessAccepts
<1> QED
  BY <1>1 DEF Served, WitnessEntry

LEMMA FinalizedFacts ==
  ASSUME Base, NEW w \in Witness, NEW r \in Rotation
  PROVE  LET e == witness[w]
             n == FinalizedAt(w, r).entry
         IN /\ n \in WitnessEntry /\ n.cancellations = e.cancellations
            /\ \/ n = e /\ ~FinalizedAt(w, r).ok
               \/ e.pending = r /\ e.cancellations[r] = 0 /\ n.capsule = r /\ n.pending = None
<1>1. witness[w] \in WitnessEntry /\ r \in Epoch
  BY SetFacts DEF Base, TypeOK
<1> QED
  BY <1>1 DEF FinalizedAt, Served, WitnessEntry

LEMMA VetoedFacts ==
  ASSUME Base, NEW w \in Witness, NEW r \in Rotation
  PROVE  LET e == witness[w]
             n == VetoedAt(w, r).entry
         IN /\ n \in WitnessEntry /\ n.capsule = e.capsule
            /\ \/ n = e /\ ~VetoedAt(w, r).ok
               \/ /\ e.capsule = plan[r].predecessor
                  /\ n.cancellations[r] = attempts
                  /\ \A q \in Rotation : q # r => n.cancellations[q] = e.cancellations[q]
                  /\ n.pending = IF e.pending = r THEN None ELSE e.pending
                  /\ e.cancellations[r] \in {0, attempts}
<1> DEFINE e == witness[w]
           ok == /\ e.capsule = plan[r].predecessor
                 /\ e.cancellations[r] \in {0, attempts}
                 /\ e.cancellations[r] = 0 => e.pending \in {None, r}
           a == [e EXCEPT !.cancellations[r] = attempts, !.pending = IF @ = r THEN None ELSE @]
<1>1. e \in WitnessEntry /\ attempts \in Nat
  BY DEF Base, TypeOK
<1>2. VetoedAt(w, r) = Served(ok, e, a) /\ ok \in BOOLEAN
  BY DEF VetoedAt
<1>3. /\ a \in WitnessEntry /\ a.capsule = e.capsule /\ a.cancellations[r] = attempts
      /\ \A q \in Rotation : q # r => a.cancellations[q] = e.cancellations[q]
      /\ a.pending = IF e.pending = r THEN None ELSE e.pending
  BY <1>1 DEF WitnessEntry
<1> HIDE DEF a
<1>4. VetoedAt(w, r).ok = ok /\ VetoedAt(w, r).entry = IF ok THEN a ELSE e
  <2> HIDE DEF ok, e
  <2> QED
    BY <1>2, ServedFacts
<1>5. CASE ok
  BY <1>3, <1>4, <1>5
<1>6. CASE ~ok
  BY <1>1, <1>4, <1>6
<1> QED
  BY <1>5, <1>6

-----------------------------------------------------------------------------
(* Types, plans and processes are invariant *)

\* The plans do not change after the start of their runs.
LEMMA PlansFrame ==
  ASSUME Base, plan' = plan, \A w \in Witness : Planned(witness'[w].capsule),
         control_file' # None => Planned(control_file')
  PROVE  PlansOK'
<1>1. /\ \A e : Planned(e)' = Planned(e) /\ guardian_epoch(e)' = guardian_epoch(e)
                /\ roster(e)' = roster(e)
      /\ Planned(control_file)' = Planned(control_file')
      /\ \A w \in Witness : Planned(witness[w].capsule)' = Planned(witness'[w].capsule)
  BY DEF Planned, guardian_epoch, roster
<1>2. ASSUME NEW r \in Rotation PROVE PlanOK(r)'
  <2>1. PlanOK(r)
    BY DEF Base, PlansOK
  <2>2. CASE plan[r] = None
    BY <2>2 DEF PlanOK
  <2>3. CASE plan[r] # None
    <3> DEFINE d == plan[r].predecessor
    <3>1. Planned(d)' = Planned(d) /\ guardian_epoch(d)' = guardian_epoch(d) /\ roster(d)' = roster(d)
      BY DEF Planned, guardian_epoch, roster
    <3> QED
      BY <2>1, <2>3, <3>1 DEF PlanOK
  <2> QED
    BY <2>2, <2>3
<1>3. ASSUME NEW e \in Epoch PROVE RosterOK(e)'
  <2>1. RosterOK(e)
    BY DEF Base, PlansOK
  <2> QED
    BY <1>1, <2>1 DEF RosterOK
<1> QED
  BY <1>1, <1>2, <1>3 DEF PlansOK

\* The parts of Base after a step that leaves the plans alone.
LEMMA BaseFrame ==
  ASSUME Base, NEW c \in Process, Moves(c), plan' = plan,
         signer' \in [Signer -> SignerEntry], guardian' \in [Guardian -> GuardianEntry],
         witness' \in [Witness -> WitnessEntry],
         \A w \in Witness : Planned(witness'[w].capsule),
         owner_file' \in Epoch \cup {None}, control_file' \in Rotation \cup {None},
         control_file' # None => Planned(control_file'),
         completed' \subseteq Rotation, cancelled' \subseteq Rotation,
         attempts' \in Nat, crashes' \in Nat
  PROVE  Base'
<1>1. PlansOK'
  BY PlansFrame
<1>2. TypeOK'
  BY DEF Base, TypeOK, Moves
<1> QED
  BY <1>1, <1>2 DEF Base, Moves

\* The same after a step that changes one actor only.
LEMMA ActorFrame ==
  ASSUME Base, NEW c \in Process, Moves(c), UNCHANGED rest,
         signer' \in [Signer -> SignerEntry], guardian' \in [Guardian -> GuardianEntry],
         witness' \in [Witness -> WitnessEntry],
         \A w \in Witness : Planned(witness'[w].capsule)
  PROVE  Base'
<1>1. /\ plan' = plan /\ owner_file' = owner_file /\ control_file' = control_file
      /\ completed' = completed /\ cancelled' = cancelled
      /\ attempts' = attempts /\ crashes' = crashes
  BY DEF rest, files, results
<1>2. /\ owner_file \in Epoch \cup {None} /\ control_file \in Rotation \cup {None}
      /\ control_file # None => Planned(control_file)
      /\ completed \subseteq Rotation /\ cancelled \subseteq Rotation
      /\ attempts \in Nat /\ crashes \in Nat
  BY DEF Base, TypeOK, PlansOK
<1> QED
  BY <1>1, <1>2, BaseFrame

\* A call to a guardian or a witness keeps the types.
LEMMA CalledFrame ==
  ASSUME Base, NEW c \in Process, NEW pc, NEW st, NEW res
  PROVE  /\ \A g \in Guardian :
              GuardianCalled(c, pc, st, g, res) /\ res.entry \in GuardianEntry => Base'
         /\ \A w \in Witness :
              WitnessCalled(c, pc, st, w, res) /\ res.entry \in WitnessEntry
                /\ Planned(res.entry.capsule) => Base'
<1>1. /\ signer \in [Signer -> SignerEntry] /\ guardian \in [Guardian -> GuardianEntry]
      /\ witness \in [Witness -> WitnessEntry]
      /\ \A w \in Witness : Planned(witness[w].capsule)
  BY DEF Base, TypeOK, PlansOK
<1>2. ASSUME NEW g \in Guardian, GuardianCalled(c, pc, st, g, res), res.entry \in GuardianEntry
      PROVE  Base'
  <2>1. /\ Moves(c) /\ UNCHANGED rest /\ signer' = signer /\ witness' = witness
        /\ guardian' = guardian \/ guardian' = [guardian EXCEPT ![g] = res.entry]
    BY <1>2 DEF GuardianCalled
  <2>2. guardian' \in [Guardian -> GuardianEntry]
    BY <1>1, <1>2, <2>1
  <2> QED
    BY <1>1, <2>1, <2>2, ActorFrame
<1>3. ASSUME NEW w \in Witness, WitnessCalled(c, pc, st, w, res), res.entry \in WitnessEntry,
             Planned(res.entry.capsule)
      PROVE  Base'
  <2>1. /\ Moves(c) /\ UNCHANGED rest /\ signer' = signer /\ guardian' = guardian
        /\ witness' = witness \/ witness' = [witness EXCEPT ![w] = res.entry]
    BY <1>3 DEF WitnessCalled
  <2>2. /\ witness' \in [Witness -> WitnessEntry]
        /\ \A x \in Witness : Planned(witness'[x].capsule)
    BY <1>1, <1>3, <2>1
  <2> QED
    BY <1>1, <2>1, <2>2, ActorFrame
<1> QED
  BY <1>2, <1>3

LEMMA QuietBase ==
  ASSUME Base, NEW c \in Process, NEW from, NEW to
  PROVE  /\ SignerStep(c, from, to) => Base'
         /\ SessionStep(c, from, to) => Base'
         /\ LocalStep(c, from, to) /\ from \in Stages => Base'
<1>1. /\ signer \in [Signer -> SignerEntry] /\ guardian \in [Guardian -> GuardianEntry]
      /\ witness \in [Witness -> WitnessEntry]
      /\ \A w \in Witness : Planned(witness[w].capsule)
  BY DEF Base, TypeOK, PlansOK
<1>2. ASSUME SignerStep(c, from, to) PROVE Base'
  BY <1>1, <1>2, ActorFrame DEF SignerStep
<1>3. ASSUME SessionStep(c, from, to) PROVE Base'
  BY <1>1, <1>3, ActorFrame DEF SessionStep
<1>4. ASSUME LocalStep(c, from, to), from \in Stages PROVE Base'
  <2>1. /\ Moves(c) /\ proc[c].pc \in Stages
        /\ UNCHANGED <<signer, guardian, witness, plan, owner_file, completed, cancelled,
                       attempts, crashes>>
        /\ control_file' \in {control_file, proc[c].r}
    BY <1>4 DEF LocalStep, Goes, actors, results
  <2>2. /\ control_file' \in Rotation \cup {None}
        /\ control_file' # None => Planned(control_file')
    BY <2>1, RunFacts DEF Base, TypeOK, PlansOK
  <2>3. /\ owner_file \in Epoch \cup {None}
        /\ completed \subseteq Rotation /\ cancelled \subseteq Rotation
        /\ attempts \in Nat /\ crashes \in Nat
    BY DEF Base, TypeOK
  <2> QED
    BY <1>1, <2>1, <2>2, <2>3, BaseFrame
<1> QED
  BY <1>2, <1>3, <1>4

\* The coordinator's steps keep the types.
LEMMA RotateBase ==
  ASSUME Base, RotateStep
  PROVE  Base'
<1>1. "rotate" \in Process
  BY DEF Process
<1>2. CASE \/ CollectIntents \/ collect_signer_begin_votes \/ collect_signer_release_votes
           \/ collect_signer_activate_votes
  BY <1>1, <1>2, SignerSteps, QuietBase
<1>3. CASE \/ ProvisionAliases \/ BeginSuccessors \/ BeginRemoved
           \/ RepairRound1 \/ RepairRound2 \/ RepairFinalize
           \/ RefreshRound1 \/ RefreshRound2 \/ RefreshFinalize \/ StageMaterial
           \/ HandoffComplete
  BY <1>1, <1>3, SessionSteps, QuietBase
<1>4. CASE NodeInfo \/ WriteControlFile \/ Sleep
  <2>1. "NodeInfo" \in Stages /\ "Control" \in Stages /\ "Sleep" \in Stages
    BY DEF Stages
  <2> QED
    BY <1>1, <1>4, <2>1, LocalSteps, QuietBase
<1>5. ASSUME NEW g \in Guardian PROVE run \in Rotation /\ plan[run] # None =>
        /\ PreparedAt(g, run).entry \in GuardianEntry
        /\ ActivatedAt(g, run).entry \in GuardianEntry
        /\ Served(TRUE, guardian[g],
                  [guardian[g] EXCEPT !.capsule = plan[run].predecessor]).entry \in GuardianEntry
  <2>1. guardian[g] \in GuardianEntry /\ plan \in [Rotation -> Plan \cup {None}]
    BY DEF Base, TypeOK
  <2>2. ASSUME run \in Rotation, plan[run] # None
        PROVE  Served(TRUE, guardian[g],
                  [guardian[g] EXCEPT !.capsule = plan[run].predecessor]).entry \in GuardianEntry
    <3>1. plan[run].predecessor \in Epoch
      BY <2>1, <2>2 DEF Plan
    <3> QED
      BY <2>1, <3>1 DEF Served, GuardianEntry
  <2> QED
    BY <2>2, PreparedFacts, ActivatedFacts
<1>6. ASSUME NEW c, NEW pc, NEW to, Goes(c, pc, to), c = "rotate", pc \in Stages
      PROVE  run \in Rotation /\ plan[run] # None /\ Planned(run)
  BY <1>1, <1>6, RunFacts DEF Goes, run
<1>7. ASSUME NEW pc \in Stages, NEW st, NEW g \in Guardian, NEW res,
             res \in {PreparedAt(g, run), ActivatedAt(g, run),
                      Served(TRUE, guardian[g],
                             [guardian[g] EXCEPT !.capsule = plan[run].predecessor])},
             GuardianCalled("rotate", pc, st, g, res)
      PROVE  Base'
  <2>1. run \in Rotation /\ plan[run] # None
    BY <1>6, <1>7 DEF GuardianCalled
  <2>2. res.entry \in GuardianEntry
    BY <1>5, <1>7, <2>1
  <2> QED
    BY <1>1, <1>7, <2>2, CalledFrame
<1>8. CASE ProvisionCandidate \/ PrepareCommit \/ ActivateSuccessors \/ ActivateRemoved
  <2>1. /\ "Candidate" \in Stages /\ "PrepareCommit" \in Stages /\ "Activate" \in Stages
        /\ "ActivateRemoved" \in Stages
    BY DEF Stages
  <2>2. CASE ProvisionCandidate
    BY <1>7, <2>1, <2>2, RecordSteps
  <2>3. CASE PrepareCommit
    BY <1>7, <2>1, <2>3, RecordSteps
  <2>4. CASE ActivateSuccessors
    BY <1>7, <2>1, <2>4, RecordSteps
  <2>5. CASE ActivateRemoved
    BY <1>7, <2>1, <2>5, RecordSteps
  <2> QED
    BY <1>8, <2>2, <2>3, <2>4, <2>5
<1>9. CASE WitnessActivate
  <2> DEFINE res(w) == Served(WitnessAccepts(witness[w], run), witness[w],
                              [witness[w] EXCEPT !.pending = run])
             st == Stage(Witness, "enough", required_witnesses, 1, "WitnessFinalize")
  <2>1. PICK w \in Witness : WitnessCalled("rotate", "WitnessActivate", st, w, res(w))
    BY <1>9, RecordSteps
  <2>2. run \in Rotation
    BY <1>6, <2>1 DEF WitnessCalled, Stages
  <2>3. res(w).entry \in WitnessEntry /\ res(w).entry.capsule = witness[w].capsule
    BY <2>2, AcceptedFacts
  <2>4. Planned(res(w).entry.capsule)
    BY <2>3 DEF Base, PlansOK
  <2> HIDE DEF res, st
  <2> QED
    BY <1>1, <2>1, <2>3, <2>4, CalledFrame
<1>10. CASE WitnessFinalize
  <2> DEFINE st == All(proc["rotate"].acked, 1, "Activate")
  <2>1. PICK w \in Witness :
          WitnessCalled("rotate", "WitnessFinalize", st, w, FinalizedAt(w, run))
    BY <1>10, RecordSteps
  <2>2. run \in Rotation /\ Planned(run)
    BY <1>6, <2>1 DEF WitnessCalled, Stages
  <2> DEFINE n == FinalizedAt(w, run).entry
  <2>3. n \in WitnessEntry /\ (n = witness[w] \/ n.capsule = run)
    BY <2>2, FinalizedFacts
  <2>4. Planned(n.capsule)
    <3>1. Planned(witness[w].capsule)
      BY DEF Base, PlansOK
    <3> HIDE DEF n
    <3> QED
      BY <2>2, <2>3, <3>1
  <2> HIDE DEF st
  <2> QED
    BY <1>1, <2>1, <2>3, <2>4, CalledFrame
<1>11. CASE WriteOwnerFile
  <2>1. /\ Moves("rotate") /\ owner_file' = run /\ completed' = completed \cup {run}
        /\ UNCHANGED <<plan, signer, guardian, witness, control_file, cancelled, attempts, crashes>>
        /\ Goes("rotate", "OwnerFile", "Ok")
    BY <1>11, LocalSteps DEF actors
  <2>2. run \in Rotation
    BY <1>6, <2>1 DEF Stages
  <2>3. /\ signer \in [Signer -> SignerEntry] /\ guardian \in [Guardian -> GuardianEntry]
        /\ witness \in [Witness -> WitnessEntry]
        /\ \A w \in Witness : Planned(witness[w].capsule)
        /\ control_file \in Rotation \cup {None} /\ (control_file # None => Planned(control_file))
        /\ completed \subseteq Rotation /\ cancelled \subseteq Rotation
        /\ attempts \in Nat /\ crashes \in Nat
    BY DEF Base, TypeOK, PlansOK
  <2>4. owner_file' \in Epoch \cup {None} /\ completed' \subseteq Rotation
    BY <2>1, <2>2, <2>3, SetFacts
  <2> QED
    BY <1>1, <2>1, <2>3, <2>4, BaseFrame
<1> QED
  BY <1>2, <1>3, <1>4, <1>8, <1>9, <1>10, <1>11 DEF RotateStep

\* The cancel command's steps keep the types.
LEMMA CancelBase ==
  ASSUME Base, CancelStep
  PROVE  Base'
<1>1. "cancel" \in Process
  BY DEF Process
<1>2. ASSUME NEW pc \in Stages, NEW to, Goes("cancel", pc, to)
      PROVE  target \in Rotation /\ plan[target] # None /\ Planned(target)
  BY <1>1, <1>2, RunFacts DEF Goes, target
<1>3. ASSUME NEW pc \in Stages, NEW st, NEW g \in Guardian, NEW res,
             res \in {CancelledAt(g, target), AbortedAt(g, target)},
             GuardianCalled("cancel", pc, st, g, res)
      PROVE  Base'
  <2>1. target \in Rotation
    BY <1>2, <1>3 DEF GuardianCalled
  <2>2. res.entry \in GuardianEntry
    BY <1>3, <2>1, ErasedFacts
  <2> QED
    BY <1>1, <1>3, <2>2, CalledFrame
<1>4. CASE CancelAtOldGuardians \/ CancelAtCandidates \/ AbortAtGuardians
  <2>1. "CancelOld" \in Stages /\ "CancelNew" \in Stages /\ "Abort" \in Stages
    BY DEF Stages
  <2>2. CASE CancelAtOldGuardians
    BY <1>3, <2>1, <2>2, CancelSteps
  <2>3. CASE CancelAtCandidates
    BY <1>3, <2>1, <2>3, CancelSteps
  <2>4. CASE AbortAtGuardians
    BY <1>3, <2>1, <2>4, CancelSteps
  <2> QED
    BY <1>4, <2>2, <2>3, <2>4
<1>5. CASE VetoAtWitnesses
  <2> DEFINE st == Stage(Witness, "enough", required_witnesses, 1, "CancelOld")
  <2>1. PICK w \in Witness : WitnessCalled("cancel", "Veto", st, w, VetoedAt(w, target))
    BY <1>5, CancelSteps
  <2>2. target \in Rotation
    BY <1>2, <2>1 DEF WitnessCalled, Stages
  <2> DEFINE n == VetoedAt(w, target).entry
  <2>3. n \in WitnessEntry /\ n.capsule = witness[w].capsule
    BY <2>2, VetoedFacts
  <2>4. Planned(n.capsule)
    BY <2>3 DEF Base, PlansOK
  <2> HIDE DEF st
  <2> QED
    BY <1>1, <2>1, <2>3, <2>4, CalledFrame
<1>6. /\ guardian \in [Guardian -> GuardianEntry] /\ witness \in [Witness -> WitnessEntry]
      /\ \A w \in Witness : Planned(witness[w].capsule)
      /\ owner_file \in Epoch \cup {None}
      /\ control_file \in Rotation \cup {None} /\ (control_file # None => Planned(control_file))
      /\ completed \subseteq Rotation /\ cancelled \subseteq Rotation
      /\ attempts \in Nat /\ crashes \in Nat
  BY DEF Base, TypeOK, PlansOK
<1>7. CASE collect_signer_abort_votes
  BY <1>1, <1>6, <1>7, CancelAtSigners, ActorFrame
<1>8. CASE FinalizeAtSigners
  <2>1. /\ Moves("cancel") /\ proc["cancel"].pc = "FinalizeOwnerCancel"
        /\ signer' \in [Signer -> SignerEntry]
        /\ cancelled' \in {cancelled, cancelled \cup {target}}
        /\ UNCHANGED <<guardian, witness, plan, owner_file, control_file, completed, attempts,
                       crashes>>
    BY <1>8, CancelAtSigners DEF files
  <2>2. target \in Rotation
    BY <1>1, <2>1, RunFacts DEF target, Stages
  <2>3. cancelled' \subseteq Rotation
    BY <1>6, <2>1, <2>2
  <2> QED
    BY <1>1, <1>6, <2>1, <2>3, BaseFrame
<1> QED
  BY <1>4, <1>5, <1>7, <1>8 DEF CancelStep

\* Types, plans and processes are as they should be in every state.
LEMMA BaseInvariant == Spec => []Base
<1>1. Init => Base
  <2> SUFFICES ASSUME Init PROVE Base
    OBVIOUS
  <2>1. IdleProc \in Proc /\ IdleProc.pc = "Idle" /\ IdleProc.pc \notin Stages
    BY DEF IdleProc, Proc, Stages, Ended
  <2>2. ProcsOK
    <3>1. proc["rotate"] = IdleProc /\ proc["cancel"] = IdleProc
      BY DEF Init, Process
    <3> QED
      BY <2>1, <3>1 DEF ProcsOK, ProcOK, StageOK
  <2>3. signer \in [Signer -> SignerEntry]
    BY SetFacts DEF Init, SignerEntry
  <2>4. guardian \in [Guardian -> GuardianEntry]
    BY SetFacts DEF Init, GuardianEntry, Progress
  <2>5. witness \in [Witness -> WitnessEntry] /\ \A w \in Witness : witness[w].capsule = Genesis
    BY SetFacts DEF Init, WitnessEntry
  <2>6. TypeOK
    BY <2>1, <2>3, <2>4, <2>5, SetFacts DEF Init, TypeOK
  <2>7. PlansOK
    <3>1. /\ \A r \in Rotation : plan[r] = None
          /\ \A e \in Epoch : Planned(e) <=> e = Genesis
          /\ control_file = None
      BY SetFacts DEF Init, Planned
    <3>2. guardian_epoch(Genesis) = 1 /\ roster(Genesis) = 1..guardian_count
      BY DEF guardian_epoch, roster
    <3>3. RosterOK(Genesis)
      BY <3>2, AddedFacts DEF RosterOK
    <3> QED
      BY <2>5, <3>1, <3>3, SetFacts DEF PlansOK, PlanOK, RosterOK
  <2> QED
    BY <2>2, <2>6, <2>7 DEF Base
<1>2. Base /\ [Next]_vars => Base'
  <2> SUFFICES ASSUME Base, [Next]_vars PROVE Base'
    OBVIOUS
  <2>1. CASE RotateStep
    BY <2>1, RotateBase
  <2>2. CASE CancelStep
    BY <2>2, CancelBase
  <2>3. ASSUME NEW r \in Rotation, StartRotation(r) PROVE Base'
    <3>1. /\ proc' \in [Process -> Proc] /\ plan' \in [Rotation -> Plan \cup {None}]
          /\ PlansOK' /\ ProcsOK'
          /\ UNCHANGED <<actors, files, results, attempts, losses, crashes>>
      BY <2>3, RotationStarts
    <3>2. TypeOK'
      BY <3>1 DEF Base, TypeOK, actors, files, results
    <3> QED
      BY <3>1, <3>2 DEF Base
  <2>4. CASE StartCancel
    <3>1. /\ proc' \in [Process -> Proc] /\ ProcsOK' /\ attempts' = attempts + 1
          /\ UNCHANGED <<plan, actors, files, results, losses, crashes>>
      BY <2>4, CancelStarts
    <3>2. TypeOK'
      BY <3>1 DEF Base, TypeOK, actors, files, results
    <3>3. PlansOK'
      BY <3>1, PlansFrame DEF Base, PlansOK, actors, files
    <3> QED
      BY <3>1, <3>2, <3>3 DEF Base
  <2>5. ASSUME NEW c \in Process, Crash(c) PROVE Base'
    <3>1. /\ Moves(c) /\ crashes' \in Nat
          /\ UNCHANGED <<plan, signer, guardian, witness, completed, cancelled, attempts>>
          /\ control_file' \in {control_file, None} /\ owner_file' \in {owner_file, None}
      BY <2>5, CrashStep DEF actors, results
    <3>2. /\ signer \in [Signer -> SignerEntry] /\ guardian \in [Guardian -> GuardianEntry]
          /\ witness \in [Witness -> WitnessEntry]
          /\ \A w \in Witness : Planned(witness[w].capsule)
          /\ owner_file \in Epoch \cup {None}
          /\ control_file \in Rotation \cup {None} /\ (control_file # None => Planned(control_file))
          /\ completed \subseteq Rotation /\ cancelled \subseteq Rotation /\ attempts \in Nat
      BY DEF Base, TypeOK, PlansOK
    <3>3. /\ owner_file' \in Epoch \cup {None} /\ control_file' \in Rotation \cup {None}
          /\ control_file' # None => Planned(control_file')
      BY <3>1, <3>2
    <3> QED
      BY <3>1, <3>2, <3>3, BaseFrame
  <2>6. CASE UNCHANGED vars
    <3>1. UNCHANGED <<proc, plan, signer, guardian, witness, owner_file, control_file, completed,
                      cancelled, attempts, losses, crashes>>
      BY <2>6 DEF vars, actors, files, results
    <3>2. TypeOK'
      BY <3>1 DEF Base, TypeOK
    <3>3. PlansOK'
      BY <3>1, PlansFrame DEF Base, PlansOK
    <3>4. ProcsOK'
      BY <3>1, ProcFrame DEF Base, ProcsOK, Process
    <3> QED
      BY <3>2, <3>3, <3>4 DEF Base
  <2> QED
    BY <2>1, <2>2, <2>3, <2>4, <2>5, <2>6 DEF Next, rotate_v3, cancel_rotation_v3
<1> QED
  BY <1>1, <1>2, PTL DEF Spec

\* rotate_v3 and cancel_rotation_v3 keep the types of their own state, and of the
\* signers, guardians and witnesses they call, whatever the interleaving, the crashes
\* and the losses are.
THEOREM TypeCorrect == Spec => []TypeOK
<1>1. Base => TypeOK
  BY DEF Base
<1> QED
  BY <1>1, BaseInvariant, PTL

-----------------------------------------------------------------------------
(* What witnesses do.  A witness goes from epoch to epoch, along the plans; what it *)
(* has finalized it cannot veto any more, and what it has vetoed it never finalizes. *)

\* A step of witness w: nothing, or the acceptance, the end or the veto of a rotation.
WitnessMove(w) ==
  LET e == witness[w]
      n == witness'[w]
  IN \/ /\ n.capsule = e.capsule /\ n.pending = e.pending /\ n.cancellations = e.cancellations
     \/ \E q \in Rotation :
          /\ plan[q] # None
          /\ \/ /\ WitnessAccepts(e, q) /\ q = run /\ proc["rotate"].pc = "WitnessActivate"
                /\ n.capsule = e.capsule /\ n.pending = q /\ n.cancellations = e.cancellations
             \/ /\ e.pending = q /\ q = run /\ proc["rotate"].pc = "WitnessFinalize"
                /\ e.cancellations[q] = 0
                /\ n.capsule = q /\ n.pending = None /\ n.cancellations = e.cancellations
             \/ /\ e.capsule = plan[q].predecessor /\ attempts > 0
                /\ n.capsule = e.capsule /\ n.cancellations[q] = attempts
                /\ n.pending = IF e.pending = q THEN None ELSE e.pending
                /\ \A r \in Rotation : r # q => n.cancellations[r] = e.cancellations[r]

\* The coordinator goes on without news from the witnesses.
CalmMove(p, n) ==
  /\ n.r = p.r
  /\ n.pc \in Activating => p.pc \in Activating
  /\ n.pc \in CancelStages \ {"Veto"} => p.pc \in CancelStages \ {"Veto"}
  /\ n.pc = "Veto" => p.pc = "Veto"
  /\ n.pc \in {"WitnessFinalize", "Veto"} => n.got = {} \/ (n.pc = p.pc /\ n.got = p.got)

Calm ==
  /\ plan' = plan /\ attempts' = attempts
  /\ \A c \in Process : CalmMove(proc[c], proc'[c])
  /\ \A r \in completed' : r \in completed \/ (r = run /\ proc["rotate"].pc \in Activating)
  /\ \A r \in cancelled' :
       r \in cancelled \/ (r = target /\ proc["cancel"].pc \in CancelStages \ {"Veto"})

\* What a stage and its end must satisfy for a step to be calm.
LEMMA GoesCalm ==
  ASSUME NEW c \in Process, Moves(c), NEW from, NEW to, Goes(c, from, to),
         from \notin {"WitnessFinalize", "Veto"},
         to \in Activating => from \in Activating,
         to # "Veto", to \in CancelStages => from \in CancelStages \ {"Veto"}
  PROVE  \A d \in Process : CalmMove(proc[d], proc'[d])
<1>1. CalmMove(proc[c], proc'[c])
  BY DEF Moves, Goes, CalmMove, Ended, Activating, CancelStages
<1>2. ASSUME NEW d \in Process, d # c PROVE CalmMove(proc[d], proc'[d])
  BY <1>2 DEF Moves, CalmMove
<1> QED
  BY <1>1, <1>2

\* A step that changes signers or sessions only is calm.
LEMMA QuietCalm ==
  ASSUME NEW c \in Process, NEW from, NEW to, from \notin {"WitnessFinalize", "Veto"},
         to \in Activating => from \in Activating,
         to # "Veto", to \in CancelStages => from \in CancelStages \ {"Veto"}
  PROVE  /\ SignerStep(c, from, to) => Calm /\ witness' = witness
         /\ SessionStep(c, from, to) => Calm /\ witness' = witness
         /\ LocalStep(c, from, to) => Calm /\ witness' = witness
         /\ \A g, st, res : GuardianCalled(c, from, st, g, res) /\ st.next = to =>
              Calm /\ witness' = witness
<1>1. Moves(c) /\ Goes(c, from, to) => \A d \in Process : CalmMove(proc[d], proc'[d])
  BY GoesCalm
<1>2. SignerStep(c, from, to) => Calm /\ witness' = witness
  BY <1>1 DEF SignerStep, Calm, rest, results
<1>3. SessionStep(c, from, to) => Calm /\ witness' = witness
  BY <1>1 DEF SessionStep, Calm, rest, results
<1>4. LocalStep(c, from, to) => Calm /\ witness' = witness
  BY <1>1 DEF LocalStep, Calm, results, actors
<1>5. ASSUME NEW g, NEW st, NEW res, GuardianCalled(c, from, st, g, res), st.next = to
      PROVE  Calm /\ witness' = witness
  BY <1>1, <1>5 DEF GuardianCalled, Calm, rest, results
<1> QED
  BY <1>2, <1>3, <1>4, <1>5

\* The steps of the coordinator, as far as the witnesses decide.
LEMMA RotateCalm ==
  ASSUME Base, RotateStep
  PROVE  (Calm /\ witness' = witness) \/ WitnessActivate \/ WitnessFinalize
<1> USE DEF Activating, CancelStages
<1>1. "rotate" \in Process
  BY DEF Process
<1>2. CASE \/ CollectIntents \/ collect_signer_begin_votes \/ collect_signer_release_votes
           \/ collect_signer_activate_votes
  BY <1>1, <1>2, SignerSteps, QuietCalm
<1>3. CASE \/ ProvisionAliases \/ BeginSuccessors \/ BeginRemoved
           \/ RepairRound1 \/ RepairRound2 \/ RepairFinalize
  BY <1>1, <1>3, SessionSteps, QuietCalm
<1>4. CASE \/ RefreshRound1 \/ RefreshRound2 \/ RefreshFinalize \/ StageMaterial
           \/ HandoffComplete
  BY <1>1, <1>4, SessionSteps, QuietCalm
<1>5. CASE NodeInfo \/ WriteControlFile \/ Sleep
  BY <1>1, <1>5, LocalSteps, QuietCalm
<1>6. CASE ProvisionCandidate
  BY <1>1, <1>6, RecordSteps, QuietCalm DEF All, Stage
<1>7. CASE PrepareCommit
  BY <1>1, <1>7, RecordSteps, QuietCalm DEF All, Stage
<1>8. CASE ActivateSuccessors
  BY <1>1, <1>8, RecordSteps, QuietCalm DEF All, Stage
<1>9. CASE ActivateRemoved
  BY <1>1, <1>9, RecordSteps, QuietCalm DEF Stage
<1>10. CASE WriteOwnerFile
  <2>1. /\ Moves("rotate") /\ Goes("rotate", "OwnerFile", "Ok")
        /\ completed' = completed \cup {run}
        /\ UNCHANGED <<plan, actors, cancelled, attempts>>
    BY <1>10, LocalSteps
  <2>2. \A d \in Process : CalmMove(proc[d], proc'[d])
    BY <1>1, <2>1, GoesCalm
  <2> QED
    BY <2>1, <2>2 DEF Calm, actors, Goes
<1> QED
  BY <1>2, <1>3, <1>4, <1>5, <1>6, <1>7, <1>8, <1>9, <1>10 DEF RotateStep

\* The steps of the cancel command, likewise.
LEMMA CancelCalm ==
  ASSUME Base, CancelStep
  PROVE  (Calm /\ witness' = witness) \/ VetoAtWitnesses
<1> USE DEF Activating, CancelStages
<1>1. "cancel" \in Process
  BY DEF Process
<1>2. CASE CancelAtOldGuardians
  BY <1>1, <1>2, CancelSteps, QuietCalm DEF Stage
<1>3. CASE CancelAtCandidates
  BY <1>1, <1>3, CancelSteps, QuietCalm DEF Stage
<1>4. CASE AbortAtGuardians
  BY <1>1, <1>4, CancelSteps, QuietCalm DEF Stage
<1>5. CASE collect_signer_abort_votes \/ FinalizeAtSigners
  <2>1. /\ Moves("cancel") /\ proc["cancel"].pc \in {"AbortVotes", "FinalizeOwnerCancel"}
        /\ proc'["cancel"].pc \in {"AbortVotes", "Abort", "FinalizeOwnerCancel", "Ok", "Failed"}
        /\ UNCHANGED <<witness, plan, completed, attempts>>
        /\ cancelled' \in {cancelled, cancelled \cup {target}}
    BY <1>5, CancelAtSigners DEF rest, results
  <2>2. \A d \in Process : CalmMove(proc[d], proc'[d])
    BY <1>1, <2>1 DEF Moves, CalmMove, Process
  <2> QED
    BY <2>1, <2>2 DEF Calm
<1> QED
  BY <1>2, <1>3, <1>4, <1>5 DEF CancelStep

\* The steps of the system, as far as the witnesses decide.
LEMMA DecisionSteps ==
  ASSUME Base, [Next]_vars
  PROVE  \/ Calm /\ witness' = witness
         \/ WitnessActivate \/ WitnessFinalize \/ VetoAtWitnesses
         \/ (\E r \in Rotation : StartRotation(r)) \/ StartCancel
<1>1. ASSUME NEW c \in Process, Crash(c) PROVE Calm /\ witness' = witness
  <2>1. /\ Moves(c) /\ proc'[c].pc = "Crashed" /\ UNCHANGED <<plan, actors, results, attempts>>
    BY <1>1, CrashStep
  <2>2. \A d \in Process : CalmMove(proc[d], proc'[d])
    BY <2>1 DEF Moves, CalmMove, Activating, CancelStages
  <2> QED
    BY <2>1, <2>2 DEF Calm, actors, results
<1>2. CASE UNCHANGED vars
  <2>1. UNCHANGED <<proc, plan, witness, completed, cancelled, attempts>>
    BY <1>2 DEF vars, actors, results
  <2> QED
    BY <2>1 DEF Calm, CalmMove
<1> QED
  BY <1>1, <1>2, RotateCalm, CancelCalm DEF Next, rotate_v3, cancel_rotation_v3

\* Every step of the system moves each witness by one of its own steps.
LEMMA WitnessSteps ==
  ASSUME Base, DecisionOK, [Next]_vars
  PROVE  PlansStay /\ \A w \in Witness : WitnessMove(w)
<1>1. ASSUME NEW c \in Process, NEW pc \in Stages, NEW st, NEW w \in Witness, NEW res,
             NEW q \in Rotation, plan[q] # None, WitnessCalled(c, pc, st, w, res),
             witness' = [witness EXCEPT ![w] = res.entry] => WitnessMove(w)
      PROVE  PlansStay /\ \A x \in Witness : WitnessMove(x)
  <2>1. /\ plan' = plan /\ witness \in [Witness -> WitnessEntry]
        /\ witness' = witness \/ witness' = [witness EXCEPT ![w] = res.entry]
    BY <1>1 DEF WitnessCalled, rest, Base, TypeOK
  <2>2. ASSUME NEW x \in Witness, x # w \/ witness' = witness PROVE WitnessMove(x)
    BY <2>1, <2>2 DEF WitnessMove
  <2> QED
    BY <1>1, <2>1, <2>2, SamePlans
<1>2. CASE witness' = witness /\ plan' = plan
  BY <1>2, SamePlans DEF WitnessMove
<1>3. CASE WitnessActivate
  <2> DEFINE res(w) == Served(WitnessAccepts(witness[w], run), witness[w],
                              [witness[w] EXCEPT !.pending = run])
             st == Stage(Witness, "enough", required_witnesses, 1, "WitnessFinalize")
  <2>1. PICK w \in Witness : WitnessCalled("rotate", "WitnessActivate", st, w, res(w))
    BY <1>3, RecordSteps
  <2>2. "rotate" \in Process /\ "WitnessActivate" \in Stages
    BY DEF Process, Stages
  <2>3. run \in Rotation /\ plan[run] # None /\ proc["rotate"].pc = "WitnessActivate"
    BY <2>1, <2>2, RunFacts DEF WitnessCalled, Goes, run
  <2> DEFINE e == witness[w]
             n == res(w).entry
  <2>4. /\ n.capsule = e.capsule /\ n.cancellations = e.cancellations
        /\ n.pending = e.pending \/ (WitnessAccepts(e, run) /\ n.pending = run)
    BY <2>3, AcceptedFacts
  <2> HIDE DEF res, st
  <2>5. witness' = [witness EXCEPT ![w] = n] => WitnessMove(w)
    <3>1. witness \in [Witness -> WitnessEntry]
      BY DEF Base, TypeOK
    <3> HIDE DEF n
    <3> QED
      BY <2>3, <2>4, <3>1 DEF WitnessMove
  <2> QED
    BY <1>1, <2>1, <2>2, <2>3, <2>5
<1>4. CASE WitnessFinalize
  <2> DEFINE st == All(proc["rotate"].acked, 1, "Activate")
  <2>1. PICK w \in Witness :
          WitnessCalled("rotate", "WitnessFinalize", st, w, FinalizedAt(w, run))
    BY <1>4, RecordSteps
  <2>2. "rotate" \in Process /\ "WitnessFinalize" \in Stages
    BY DEF Process, Stages
  <2>3. run \in Rotation /\ plan[run] # None /\ proc["rotate"].pc = "WitnessFinalize"
    BY <2>1, <2>2, RunFacts DEF WitnessCalled, Goes, run
  <2> DEFINE e == witness[w]
             n == FinalizedAt(w, run).entry
  <2>4. /\ n.cancellations = e.cancellations
        /\ \/ n = e
           \/ e.pending = run /\ e.cancellations[run] = 0 /\ n.capsule = run /\ n.pending = None
    BY <2>3, FinalizedFacts
  <2> HIDE DEF st
  <2>5. witness' = [witness EXCEPT ![w] = n] => WitnessMove(w)
    <3>1. witness \in [Witness -> WitnessEntry]
      BY DEF Base, TypeOK
    <3> HIDE DEF n
    <3> QED
      BY <2>3, <2>4, <3>1 DEF WitnessMove
  <2> QED
    BY <1>1, <2>1, <2>2, <2>3, <2>5
<1>5. CASE VetoAtWitnesses
  <2> DEFINE st == Stage(Witness, "enough", required_witnesses, 1, "CancelOld")
  <2>1. PICK w \in Witness : WitnessCalled("cancel", "Veto", st, w, VetoedAt(w, target))
    BY <1>5, CancelSteps
  <2>2. "cancel" \in Process /\ "Veto" \in Stages
    BY DEF Process, Stages
  <2>3. target \in Rotation /\ plan[target] # None /\ attempts > 0
    <3>1. proc["cancel"].pc = "Veto"
      BY <2>1 DEF WitnessCalled, Goes
    <3> QED
      BY <2>2, <3>1, RunFacts DEF target, DecisionOK
  <2> DEFINE e == witness[w]
             n == VetoedAt(w, target).entry
  <2>4. /\ n.capsule = e.capsule
        /\ \/ n = e
           \/ /\ e.capsule = plan[target].predecessor
              /\ n.cancellations[target] = attempts
              /\ \A q \in Rotation : q # target => n.cancellations[q] = e.cancellations[q]
              /\ n.pending = IF e.pending = target THEN None ELSE e.pending
    BY <2>3, VetoedFacts
  <2> HIDE DEF st
  <2>5. witness' = [witness EXCEPT ![w] = n] => WitnessMove(w)
    <3>1. witness \in [Witness -> WitnessEntry]
      BY DEF Base, TypeOK
    <3> HIDE DEF n
    <3> QED
      BY <2>3, <2>4, <3>1 DEF WitnessMove
  <2> QED
    BY <1>1, <2>1, <2>2, <2>3, <2>5
<1>6. ASSUME NEW r \in Rotation, StartRotation(r)
      PROVE  PlansStay /\ \A x \in Witness : WitnessMove(x)
  <2>1. PlansStay /\ witness' = witness
    BY <1>6, RotationStarts DEF actors
  <2> QED
    BY <2>1 DEF WitnessMove
<1>7. CASE StartCancel
  <2>1. plan' = plan /\ witness' = witness
    BY <1>7, CancelStarts DEF actors
  <2> QED
    BY <1>2, <2>1
<1> QED
  BY <1>2, <1>3, <1>4, <1>5, <1>6, <1>7, DecisionSteps DEF Calm

\* The rank of what a witness serves.
LEMMA RankFacts ==
  ASSUME Base, NEW e \in Epoch, Planned(e)
  PROVE  guardian_epoch(e) \in Nat \ {0}
  BY DEF Base, PlansOK, RosterOK

\* What a witness has finalized stays so, and what it has vetoed stays vetoed.
LEMMA WitnessKeeps ==
  ASSUME Base, NEW w \in Witness, WitnessOK(w), PlansStay, WitnessMove(w),
         NEW r \in Rotation, plan[r] # None
  PROVE  /\ Finalized(w, r) => Finalized(w, r)'
         /\ Vetoed(w, r) => Vetoed(w, r)'
<1> DEFINE e == witness[w]
           n == witness'[w]
<1>1. /\ e \in WitnessEntry /\ attempts \in Nat /\ Planned(r) /\ r \in Epoch
      /\ e.capsule \in Epoch /\ Planned(e.capsule)
  BY SetFacts DEF Base, TypeOK, PlansOK, Planned, WitnessEntry
<1>2. /\ guardian_epoch(r)' = guardian_epoch(r) /\ guardian_epoch(e.capsule) \in Nat
      /\ guardian_epoch(r) \in Nat
  BY <1>1, RankFacts DEF PlansStay
<1>3. \A q \in Rotation : Planned(q) => (IF q = Genesis THEN 1 ELSE plan'[q].guardian_epoch)
                                          = guardian_epoch(q)
  BY SetFacts DEF PlansStay, guardian_epoch
<1>4. CASE n.capsule = e.capsule /\ n.cancellations = e.cancellations
  <2>1. guardian_epoch(witness[w].capsule)' = guardian_epoch(e.capsule)
    BY <1>1, <1>4 DEF PlansStay, guardian_epoch
  <2> QED
    BY <1>2, <1>4, <2>1 DEF Finalized, Vetoed
<1>5. ASSUME NEW q \in Rotation, plan[q] # None, e.pending = q, e.cancellations[q] = 0,
             n.capsule = q, n.cancellations = e.cancellations
      PROVE  /\ Finalized(w, r) => Finalized(w, r)'
             /\ Vetoed(w, r) => Vetoed(w, r)'
  <2>1. plan[q].predecessor = e.capsule
    BY <1>5, SetFacts DEF WitnessOK
  <2>2. guardian_epoch(q) = guardian_epoch(e.capsule) + 1 /\ Planned(q)
    BY <1>5, <2>1, PlanFacts DEF Base
  <2>3. guardian_epoch(witness[w].capsule)' = guardian_epoch(q)
    BY <1>3, <1>5, <2>2 DEF guardian_epoch
  <2>4. Finalized(w, r) => guardian_epoch(q) > guardian_epoch(r)
    BY <1>2, <2>2 DEF Finalized
  <2> QED
    BY <1>2, <1>5, <2>3, <2>4 DEF Finalized, Vetoed
<1>6. ASSUME NEW q \in Rotation, plan[q] # None, e.capsule = plan[q].predecessor, attempts > 0,
             n.capsule = e.capsule, n.cancellations[q] = attempts,
             \A x \in Rotation : x # q => n.cancellations[x] = e.cancellations[x]
      PROVE  /\ Finalized(w, r) => Finalized(w, r)'
             /\ Vetoed(w, r) => Vetoed(w, r)'
  <2>1. guardian_epoch(witness[w].capsule)' = guardian_epoch(e.capsule)
    BY <1>1, <1>6 DEF PlansStay, guardian_epoch
  <2>2. Finalized(w, r) => r # q
    <3>1. e.capsule # q /\ guardian_epoch(q) = guardian_epoch(e.capsule) + 1
      BY <1>6, PlanFacts DEF Base
    <3> QED
      BY <1>2, <3>1 DEF Finalized
  <2>3. Vetoed(w, r)' <=> n.cancellations[r] # 0
    BY DEF Vetoed
  <2>4. Vetoed(w, r) => Vetoed(w, r)'
    BY <1>1, <1>6, <2>3 DEF Vetoed
  <2>5. Finalized(w, r) => Finalized(w, r)'
    BY <1>2, <1>6, <2>1, <2>2 DEF Finalized
  <2> QED
    BY <2>4, <2>5
<1> QED
  BY <1>4, <1>5, <1>6 DEF WitnessMove

\* The pending child of a witness stays the next epoch after the one it serves.
LEMMA WitnessStays ==
  ASSUME Base, NEW w \in Witness, WitnessOK(w), PlansStay, WitnessMove(w)
  PROVE  WitnessOK(w)'
<1> DEFINE e == witness[w]
           n == witness'[w]
           OK(m) == /\ m.pending # None => /\ m.pending \in Rotation /\ plan[m.pending] # None
                                           /\ plan[m.pending].predecessor = m.capsule
                                           /\ m.cancellations[m.pending] = 0
                    /\ m.capsule # Genesis => m.cancellations[m.capsule] = 0
<1>1. /\ e \in WitnessEntry /\ attempts \in Nat /\ e.capsule \in Epoch /\ Planned(e.capsule)
      /\ e.pending \in Rotation \cup {None}
  BY DEF Base, TypeOK, PlansOK, WitnessEntry
<1>2. OK(e)
  <2>1. e.pending # None => e.pending \in Rotation /\ Planned(e.pending)
    BY <1>1 DEF WitnessOK
  <2>2. e.pending # None => plan[e.pending] # None
    BY <2>1, SetFacts DEF Planned
  <2> QED
    BY <2>1, <2>2 DEF WitnessOK
<1>3. OK(n)
  <2>1. CASE n.capsule = e.capsule /\ n.pending = e.pending /\ n.cancellations = e.cancellations
    BY <1>2, <2>1
  <2>2. ASSUME NEW q \in Rotation, plan[q] # None, WitnessAccepts(e, q),
               n.capsule = e.capsule, n.pending = q, n.cancellations = e.cancellations
        PROVE  OK(n)
    <3>1. e.pending = q => plan[q].predecessor = e.capsule
      BY <1>2, <2>2, SetFacts
    <3>2. e.cancellations[q] = 0 /\ plan[q].predecessor = e.capsule
      BY <2>2, <3>1 DEF WitnessAccepts
    <3> QED
      BY <1>2, <2>2, <3>2
  <2>3. ASSUME NEW q \in Rotation, plan[q] # None, e.pending = q, e.cancellations[q] = 0,
               n.capsule = q, n.pending = None, n.cancellations = e.cancellations
        PROVE  OK(n)
    BY <2>3
  <2>4. ASSUME NEW q \in Rotation, plan[q] # None, e.capsule = plan[q].predecessor,
               n.capsule = e.capsule, n.cancellations[q] = attempts,
               n.pending = IF e.pending = q THEN None ELSE e.pending,
               \A r \in Rotation : r # q => n.cancellations[r] = e.cancellations[r]
        PROVE  OK(n)
    <3>1. e.capsule # q
      BY <2>4, PlanFacts DEF Base
    <3>2. n.capsule # Genesis => n.cancellations[n.capsule] = 0
      BY <1>1, <1>2, <2>4, <3>1, SetFacts
    <3>3. n.pending # None => n.pending = e.pending /\ n.pending # q
      BY <2>4
    <3> QED
      BY <1>2, <2>4, <3>2, <3>3
  <2> QED
    BY <2>1, <2>2, <2>3, <2>4 DEF WitnessMove
<1>4. n.pending # None => Planned(witness[w].pending)' /\ plan'[n.pending] = plan[n.pending]
  <2>1. n.pending # None => n.pending \in Rotation /\ plan[n.pending] # None
    BY <1>3
  <2>2. n.pending # None => plan'[n.pending] = plan[n.pending]
    BY <2>1, SetFacts DEF PlansStay, Planned
  <2> QED
    BY <2>1, <2>2 DEF Planned
<1> HIDE DEF e
<1> QED
  BY <1>3, <1>4 DEF WitnessOK

-----------------------------------------------------------------------------
(* The decision.  The witnesses of a quorum of finalize calls and those of a quorum *)
(* of vetoes are the same for ever, and the two processes know of them.             *)

\* Quorums that have decided stay.
LEMMA QuorumKeeps ==
  ASSUME Base, Decisions, [Next]_vars, NEW r \in Rotation, plan[r] # None
  PROVE  /\ FinalQuorum(r) => FinalQuorum(r)'
         /\ VetoQuorum(r) => VetoQuorum(r)'
         /\ \A w \in Witness : /\ Finalized(w, r) => Finalized(w, r)'
                               /\ Vetoed(w, r) => Vetoed(w, r)'
<1>1. PlansStay /\ \A w \in Witness : WitnessMove(w)
  BY WitnessSteps DEF Decisions
<1>2. \A w \in Witness : /\ Finalized(w, r) => Finalized(w, r)'
                         /\ Vetoed(w, r) => Vetoed(w, r)'
  BY <1>1, WitnessKeeps DEF Decisions
<1>3. \A Q \in ReadQuorums : Q \subseteq Witness
  BY DEF ReadQuorums
<1> QED
  BY <1>2, <1>3 DEF FinalQuorum, VetoQuorum

\* The same after a step, for the rotation that a process is at.
LEMMA SameSubject ==
  ASSUME NEW r
  PROVE  /\ run' = r => /\ FinalQuorum(run)' <=> FinalQuorum(r)'
                        /\ \A w : Finalized(w, run)' <=> Finalized(w, r)'
         /\ target' = r => /\ VetoQuorum(target)' <=> VetoQuorum(r)'
                           /\ \A w : Vetoed(w, target)' <=> Vetoed(w, r)'
  BY DEF FinalQuorum, VetoQuorum, Finalized, Vetoed, guardian_epoch, run, target

\* A step without news from the witnesses leaves what is known of them.
LEMMA CalmDecision ==
  ASSUME Base, Decisions, [Next]_vars, Calm
  PROVE  DecisionOK'
<1> DEFINE p == proc["rotate"]
           n == proc'["rotate"]
           c == proc["cancel"]
           d == proc'["cancel"]
<1>1. CalmMove(p, n) /\ CalmMove(c, d) /\ attempts' = attempts /\ plan' = plan
  BY DEF Calm, Process
<1>2. /\ p.pc \in Stages => run \in Rotation /\ plan[run] # None
      /\ c.pc \in Stages => target \in Rotation /\ plan[target] # None
  BY RunFacts DEF Process, run, target
<1>3. run' = run /\ target' = target
  BY <1>1 DEF CalmMove, run, target
<1>4. /\ Activating \subseteq Stages /\ CancelStages \subseteq Stages
      /\ "WitnessFinalize" \in Stages /\ "Veto" \in Stages
  BY DEF Activating, CancelStages, Stages
<1>5. n.pc = "WitnessFinalize" => \A w \in n.got : w \in Witness /\ Finalized(w, run)'
  <2>1. n.pc = "WitnessFinalize" =>
          n.got = {} \/ (p.pc = "WitnessFinalize" /\ n.got = p.got)
    BY <1>1 DEF CalmMove
  <2> QED
    BY <1>2, <1>3, <1>4, <2>1, QuorumKeeps, SameSubject DEF Decisions, DecisionOK
<1>6. n.pc \in Activating => FinalQuorum(run)'
  <2>1. n.pc \in Activating => p.pc \in Activating
    BY <1>1 DEF CalmMove
  <2> QED
    BY <1>2, <1>3, <1>4, <2>1, QuorumKeeps, SameSubject DEF Decisions, DecisionOK
<1>7. \A r \in completed' : Planned(r)' /\ FinalQuorum(r)'
  <2> SUFFICES ASSUME NEW r \in completed' PROVE Planned(r)' /\ FinalQuorum(r)'
    OBVIOUS
  <2>1. r \in Rotation /\ Planned(r) /\ FinalQuorum(r)
    <3>1. CASE r \in completed
      BY <3>1 DEF Decisions, DecisionOK, Base, TypeOK
    <3>2. CASE r = run /\ p.pc \in Activating
      BY <1>2, <1>4, <3>2 DEF Decisions, DecisionOK, Planned
    <3> QED
      BY <3>1, <3>2 DEF Calm
  <2>2. plan[r] # None /\ Planned(r)'
    BY <1>1, <2>1, SetFacts DEF Planned
  <2> QED
    BY <2>1, <2>2, QuorumKeeps
<1>8. d.pc = "Veto" => attempts' > 0 /\ \A w \in d.got : w \in Witness /\ Vetoed(w, target)'
  <2>1. d.pc = "Veto" => (c.pc = "Veto" /\ d.got \subseteq c.got)
    BY <1>1 DEF CalmMove
  <2> QED
    BY <1>1, <1>2, <1>3, <1>4, <2>1, QuorumKeeps, SameSubject DEF Decisions, DecisionOK
<1>9. d.pc \in CancelStages \ {"Veto"} => VetoQuorum(target)'
  <2>1. d.pc \in CancelStages \ {"Veto"} => c.pc \in CancelStages \ {"Veto"}
    BY <1>1 DEF CalmMove
  <2> QED
    BY <1>2, <1>3, <1>4, <2>1, QuorumKeeps, SameSubject DEF Decisions, DecisionOK
<1>10. \A r \in cancelled' : Planned(r)' /\ VetoQuorum(r)'
  <2> SUFFICES ASSUME NEW r \in cancelled' PROVE Planned(r)' /\ VetoQuorum(r)'
    OBVIOUS
  <2>1. r \in Rotation /\ Planned(r) /\ VetoQuorum(r)
    <3>1. CASE r \in cancelled
      BY <3>1 DEF Decisions, DecisionOK, Base, TypeOK
    <3>2. CASE r = target /\ c.pc \in CancelStages \ {"Veto"}
      BY <1>2, <1>4, <3>2 DEF Decisions, DecisionOK, Planned
    <3> QED
      BY <3>1, <3>2 DEF Calm
  <2>2. plan[r] # None /\ Planned(r)'
    BY <1>1, <2>1, SetFacts DEF Planned
  <2> QED
    BY <2>1, <2>2, QuorumKeeps
<1> HIDE DEF p, n, c, d
<1> QED
  BY <1>3, <1>5, <1>6, <1>7, <1>8, <1>9, <1>10 DEF DecisionOK, n, d

\* The outcome of a call to a witness, as far as the decision is concerned.
LEMMA DecisiveCalls ==
  ASSUME Base, Decisions, [Next]_vars
  PROVE  /\ WitnessFinalize => DecisionOK'
         /\ VetoAtWitnesses => DecisionOK'
<1> DEFINE p == proc["rotate"]
           n == proc'["rotate"]
           c == proc["cancel"]
           d == proc'["cancel"]
<1>1. /\ p.pc \in Stages => run \in Rotation /\ plan[run] # None
      /\ c.pc \in Stages => target \in Rotation /\ plan[target] # None
  BY RunFacts DEF Process, run, target
<1>2. /\ Activating \subseteq Stages /\ CancelStages \subseteq Stages
      /\ "WitnessFinalize" \in Stages /\ "Veto" \in Stages
      /\ "WitnessFinalize" \notin Activating /\ "Veto" \in CancelStages
      /\ "WitnessFinalize" \notin Ended /\ "Veto" \notin Ended
      /\ Activating \cap Ended = {} /\ CancelStages \cap Ended = {}
      /\ "CancelOld" \in CancelStages \ {"Veto"} /\ "Activate" \in Activating
  BY DEF Activating, CancelStages, Stages, Ended
<1>3. ASSUME plan' = plan, completed' = completed
      PROVE  \A r \in completed' : Planned(r)' /\ FinalQuorum(r)'
  <2> SUFFICES ASSUME NEW r \in completed PROVE Planned(r)' /\ FinalQuorum(r)'
    BY <1>3
  <2>1. r \in Rotation /\ Planned(r) /\ FinalQuorum(r)
    BY DEF Decisions, DecisionOK, Base, TypeOK
  <2>2. plan[r] # None /\ Planned(r)'
    BY <1>3, <2>1, SetFacts DEF Planned
  <2> QED
    BY <2>1, <2>2, QuorumKeeps
<1>4. ASSUME plan' = plan, cancelled' = cancelled
      PROVE  \A r \in cancelled' : Planned(r)' /\ VetoQuorum(r)'
  <2> SUFFICES ASSUME NEW r \in cancelled PROVE Planned(r)' /\ VetoQuorum(r)'
    BY <1>4
  <2>1. r \in Rotation /\ Planned(r) /\ VetoQuorum(r)
    BY DEF Decisions, DecisionOK, Base, TypeOK
  <2>2. plan[r] # None /\ Planned(r)'
    BY <1>4, <2>1, SetFacts DEF Planned
  <2> QED
    BY <2>1, <2>2, QuorumKeeps
<1>5. ASSUME WitnessFinalize PROVE DecisionOK'
  <2> DEFINE st == All(p.acked, 1, "Activate")
  <2>1. PICK w \in Witness : WitnessCalled("rotate", "WitnessFinalize", st, w, FinalizedAt(w, run))
    BY <1>5, RecordSteps
  <2>2. /\ Moves("rotate") /\ p.pc = "WitnessFinalize" /\ d = c /\ n.r = p.r
        /\ plan' = plan /\ completed' = completed /\ cancelled' = cancelled
        /\ attempts' = attempts
    BY <2>1 DEF WitnessCalled, Moves, Goes, Process, rest, results
  <2>3. run \in Rotation /\ plan[run] # None /\ run' = run /\ target' = target
    BY <1>1, <1>2, <2>2 DEF run, target
  <2>4. st.targets = p.acked /\ st.next = "Activate" /\ st.otherwise = "Failed"
        /\ st.need = Cardinality(p.acked)
    BY DEF All, Stage
  <2> HIDE DEF st
  <2> DEFINE upd == FinalizedAt(w, run).ok /\ witness' = [witness EXCEPT ![w] = FinalizedAt(w, run).entry]
  <2>5. upd => Finalized(w, run)'
    <3>1. FinalizedAt(w, run).ok => LET m == FinalizedAt(w, run).entry
                                    IN m.capsule = run /\ m.cancellations[run] = 0
      BY <2>3, FinalizedFacts
    <3>2. upd => witness'[w] = FinalizedAt(w, run).entry
      BY DEF Base, TypeOK
    <3> QED
      BY <2>3, <3>1, <3>2 DEF Finalized
  <2>6. PICK G \in SUBSET p.acked :
          Outcome(p, n, G, st) /\ \A y \in G : y \in p.got \/ (upd /\ y = w)
    BY <2>1, <2>4 DEF WitnessCalled, CallDone
  <2> HIDE DEF upd
  <2>7. \A y \in G : y \in Witness /\ Finalized(y, run)'
    <3>1. \A y \in p.got : y \in Witness /\ Finalized(y, run)
      BY <2>2 DEF Decisions, DecisionOK
    <3>2. \A y \in p.got : y \in Witness /\ Finalized(y, run)'
      BY <2>3, <3>1, QuorumKeeps, SameSubject
    <3> QED
      BY <2>5, <2>6, <3>2
  <2>8. /\ n.pc = "WitnessFinalize" => n.got = G
        /\ n.pc \in Activating => Cardinality(G) >= Cardinality(p.acked)
    BY <1>2, <2>2, <2>4, <2>6 DEF Outcome, Ended, Activating
  <2>9. n.pc \in Activating => FinalQuorum(run)'
    <3>1. p.acked \in ReadQuorums
      BY <1>2, <2>2, RunFacts DEF StageOK, Process
    <3>2. IsFiniteSet(p.acked)
      BY <3>1, SetFacts, FS_Subset DEF ReadQuorums
    <3>3. n.pc \in Activating => G = p.acked
      BY <2>8, <3>2, EnoughIsAll
    <3>4. ReadQuorums' = ReadQuorums
      BY DEF ReadQuorums
    <3> QED
      BY <2>7, <3>1, <3>3, <3>4 DEF FinalQuorum
  <2>10. d.pc = "Veto" => attempts' > 0 /\ \A x \in d.got : x \in Witness /\ Vetoed(x, target)'
    BY <1>1, <1>2, <2>2, <2>3, QuorumKeeps, SameSubject DEF Decisions, DecisionOK
  <2>11. d.pc \in CancelStages \ {"Veto"} => VetoQuorum(target)'
    BY <1>1, <1>2, <2>2, <2>3, QuorumKeeps, SameSubject DEF Decisions, DecisionOK
  <2> HIDE DEF p, n, c, d
  <2> QED
    BY <1>3, <1>4, <2>2, <2>7, <2>8, <2>9, <2>10, <2>11 DEF DecisionOK, n, d
<1>6. ASSUME VetoAtWitnesses PROVE DecisionOK'
  <2> DEFINE st == Stage(Witness, "enough", required_witnesses, 1, "CancelOld")
  <2>1. PICK w \in Witness : WitnessCalled("cancel", "Veto", st, w, VetoedAt(w, target))
    BY <1>6, CancelSteps
  <2>2. /\ Moves("cancel") /\ c.pc = "Veto" /\ n = p /\ d.r = c.r
        /\ plan' = plan /\ completed' = completed /\ cancelled' = cancelled
        /\ attempts' = attempts
    BY <2>1 DEF WitnessCalled, Moves, Goes, Process, rest, results
  <2>3. target \in Rotation /\ plan[target] # None /\ run' = run /\ target' = target
    BY <1>1, <1>2, <2>2 DEF run, target
  <2>4. st.targets = Witness /\ st.next = "CancelOld" /\ st.otherwise = "Failed"
        /\ st.need = required_witnesses
    BY DEF Stage
  <2>5. attempts > 0
    BY <2>2 DEF Decisions, DecisionOK
  <2> HIDE DEF st
  <2> DEFINE upd == VetoedAt(w, target).ok /\ witness' = [witness EXCEPT ![w] = VetoedAt(w, target).entry]
  <2>6. upd => Vetoed(w, target)'
    <3>1. VetoedAt(w, target).ok => VetoedAt(w, target).entry.cancellations[target] = attempts
      BY <2>3, VetoedFacts
    <3>2. upd => witness'[w] = VetoedAt(w, target).entry
      BY DEF Base, TypeOK
    <3> QED
      BY <2>3, <2>5, <3>1, <3>2 DEF Vetoed, Base, TypeOK
  <2>7. PICK G \in SUBSET Witness :
          Outcome(c, d, G, st) /\ \A y \in G : y \in c.got \/ (upd /\ y = w)
    BY <2>1, <2>4 DEF WitnessCalled, CallDone
  <2> HIDE DEF upd
  <2>8. \A y \in G : y \in Witness /\ Vetoed(y, target)'
    <3>1. \A y \in c.got : y \in Witness /\ Vetoed(y, target)
      BY <2>2 DEF Decisions, DecisionOK
    <3>2. \A y \in c.got : y \in Witness /\ Vetoed(y, target)'
      BY <2>3, <3>1, QuorumKeeps, SameSubject
    <3> QED
      BY <2>6, <2>7, <3>2
  <2>9. /\ d.pc = "Veto" => d.got = G
        /\ d.pc \in CancelStages \ {"Veto"} => Cardinality(G) >= required_witnesses
    BY <1>2, <2>2, <2>4, <2>7 DEF Outcome, Ended, CancelStages
  <2>10. d.pc \in CancelStages \ {"Veto"} => VetoQuorum(target)'
    <3>1. ReadQuorums' = ReadQuorums
      BY DEF ReadQuorums
    <3>2. Cardinality(G) >= required_witnesses => G \in ReadQuorums
      BY DEF ReadQuorums
    <3> QED
      BY <2>8, <2>9, <3>1, <3>2 DEF VetoQuorum
  <2>11. n.pc = "WitnessFinalize" => \A x \in n.got : x \in Witness /\ Finalized(x, run)'
    BY <1>1, <1>2, <2>2, <2>3, QuorumKeeps, SameSubject DEF Decisions, DecisionOK
  <2>12. n.pc \in Activating => FinalQuorum(run)'
    BY <1>1, <1>2, <2>2, <2>3, QuorumKeeps, SameSubject DEF Decisions, DecisionOK
  <2> HIDE DEF p, n, c, d
  <2> QED
    BY <1>3, <1>4, <2>2, <2>5, <2>8, <2>9, <2>10, <2>11, <2>12 DEF DecisionOK, n, d
<1> QED
  BY <1>5, <1>6

\* The two commands start without any knowledge.
LEMMA DecisionStarts ==
  ASSUME Base, Decisions, [Next]_vars
  PROVE  /\ (\E r \in Rotation : StartRotation(r)) => DecisionOK'
         /\ StartCancel => DecisionOK'
<1> DEFINE p == proc["rotate"]
           n == proc'["rotate"]
           c == proc["cancel"]
           d == proc'["cancel"]
<1>1. /\ p.pc \in Stages => run \in Rotation /\ plan[run] # None
      /\ c.pc \in Stages => target \in Rotation /\ plan[target] # None
  BY RunFacts DEF Process, run, target
<1>2. /\ Activating \subseteq Stages /\ CancelStages \subseteq Stages
      /\ "WitnessFinalize" \in Stages /\ "Veto" \in CancelStages
      /\ "Intent" \notin Activating
  BY DEF Activating, CancelStages, Stages
<1>3. ASSUME PlansStay, completed' = completed
      PROVE  \A r \in completed' : Planned(r)' /\ FinalQuorum(r)'
  <2> SUFFICES ASSUME NEW r \in completed PROVE Planned(r)' /\ FinalQuorum(r)'
    BY <1>3
  <2>1. r \in Rotation /\ r \in Epoch /\ Planned(r) /\ FinalQuorum(r)
    BY SetFacts DEF Decisions, DecisionOK, Base, TypeOK
  <2>2. plan[r] # None /\ Planned(r)'
    BY <1>3, <2>1, SetFacts DEF Planned, PlansStay
  <2> QED
    BY <2>1, <2>2, QuorumKeeps
<1>4. ASSUME PlansStay, cancelled' = cancelled
      PROVE  \A r \in cancelled' : Planned(r)' /\ VetoQuorum(r)'
  <2> SUFFICES ASSUME NEW r \in cancelled PROVE Planned(r)' /\ VetoQuorum(r)'
    BY <1>4
  <2>1. r \in Rotation /\ r \in Epoch /\ Planned(r) /\ VetoQuorum(r)
    BY SetFacts DEF Decisions, DecisionOK, Base, TypeOK
  <2>2. plan[r] # None /\ Planned(r)'
    BY <1>4, <2>1, SetFacts DEF Planned, PlansStay
  <2> QED
    BY <2>1, <2>2, QuorumKeeps
<1>5. ASSUME NEW r \in Rotation, StartRotation(r) PROVE DecisionOK'
  <2>1. /\ PlansStay /\ n.pc = "Intent" /\ d = c /\ completed' = completed
        /\ cancelled' = cancelled /\ attempts' = attempts
    BY <1>5, RotationStarts DEF results
  <2>2. target' = target
    BY <2>1 DEF target
  <2>3. d.pc = "Veto" => attempts' > 0 /\ \A x \in d.got : x \in Witness /\ Vetoed(x, target)'
    BY <1>1, <1>2, <2>1, <2>2, QuorumKeeps, SameSubject DEF Decisions, DecisionOK
  <2>4. d.pc \in CancelStages \ {"Veto"} => VetoQuorum(target)'
    BY <1>1, <1>2, <2>1, <2>2, QuorumKeeps, SameSubject DEF Decisions, DecisionOK
  <2> HIDE DEF p, n, c, d
  <2> QED
    BY <1>2, <1>3, <1>4, <2>1, <2>3, <2>4 DEF DecisionOK, n, d
<1>6. ASSUME StartCancel PROVE DecisionOK'
  <2>1. /\ plan' = plan /\ d.pc = "Veto" /\ d.got = {} /\ n = p /\ completed' = completed
        /\ cancelled' = cancelled /\ attempts' = attempts + 1 /\ attempts \in Nat
    BY <1>6, CancelStarts DEF results, Base, TypeOK
  <2>2. run' = run /\ PlansStay
    BY <2>1, SamePlans DEF run
  <2>3. n.pc = "WitnessFinalize" => \A x \in n.got : x \in Witness /\ Finalized(x, run)'
    BY <1>1, <1>2, <2>1, <2>2, QuorumKeeps, SameSubject DEF Decisions, DecisionOK
  <2>4. n.pc \in Activating => FinalQuorum(run)'
    BY <1>1, <1>2, <2>1, <2>2, QuorumKeeps, SameSubject DEF Decisions, DecisionOK
  <2>5. attempts' > 0
    BY <2>1
  <2> HIDE DEF p, n, c, d
  <2> QED
    BY <1>2, <1>3, <1>4, <2>1, <2>2, <2>3, <2>4, <2>5 DEF DecisionOK, n, d
<1> QED
  BY <1>5, <1>6

\* What the witnesses have decided, and what the processes know of it, is invariant.
LEMMA DecisionInvariant == Spec => [](Base /\ Decisions)
<1>1. Init => Decisions
  <2> SUFFICES ASSUME Init PROVE Decisions
    OBVIOUS
  <2>1. /\ proc["rotate"].pc = "Idle" /\ proc["cancel"].pc = "Idle"
        /\ completed = {} /\ cancelled = {}
        /\ \A w \in Witness : witness[w].pending = None /\ witness[w].capsule = Genesis
    BY DEF Init, Process, IdleProc
  <2> QED
    BY <2>1 DEF Decisions, WitnessOK, DecisionOK, Activating, CancelStages
<1>2. Base /\ Decisions /\ [Next]_vars => Decisions'
  <2> SUFFICES ASSUME Base, Decisions, [Next]_vars PROVE Decisions'
    OBVIOUS
  <2>1. \A w \in Witness : WitnessOK(w)'
    BY WitnessSteps, WitnessStays DEF Decisions
  <2>2. CASE WitnessActivate
    <3> DEFINE res(w) == Served(WitnessAccepts(witness[w], run), witness[w],
                                [witness[w] EXCEPT !.pending = run])
               st == Stage(Witness, "enough", required_witnesses, 1, "WitnessFinalize")
    <3>1. PICK w \in Witness : WitnessCalled("rotate", "WitnessActivate", st, w, res(w))
      BY <2>2, RecordSteps
    <3>2. /\ Moves("rotate") /\ Goes("rotate", "WitnessActivate", "WitnessFinalize")
          /\ plan' = plan /\ attempts' = attempts /\ completed' = completed
          /\ cancelled' = cancelled
      BY <3>1 DEF WitnessCalled, rest, results, Stage
    <3>3. \A c \in Process : CalmMove(proc[c], proc'[c])
      BY <3>2, GoesCalm DEF Process, Activating, CancelStages
    <3>4. Calm
      BY <3>2, <3>3 DEF Calm
    <3> QED
      BY <2>1, <3>4, CalmDecision DEF Decisions
  <2> QED
    BY <2>1, <2>2, DecisionSteps, CalmDecision, DecisiveCalls, DecisionStarts DEF Decisions
<1> QED
  BY <1>1, <1>2, BaseInvariant, PTL DEF Spec

-----------------------------------------------------------------------------
(* What guardians do *)

\* A step of guardian g, as far as its records go: nothing, or its provisioning as a
\* candidate, a preparation, an activation or the end of a preparation.
GuardianMove(g) ==
  LET e == guardian[g]
      n == guardian'[g]
      pc == proc["rotate"].pc
  IN \/ n.capsule = e.capsule /\ n.active = e.active /\ n.prepared = e.prepared
     \/ /\ pc = "Candidate" /\ g = Added(run)
        /\ n.capsule = plan[run].predecessor /\ n.active = e.active /\ n.prepared = e.prepared
     \/ /\ pc = "PrepareCommit" /\ g \in plan[run].new_roster
        /\ e.prepared = None /\ n.prepared = run
        /\ n.capsule = e.capsule /\ n.active = e.active
     \/ /\ pc \in Activating
        /\ e.capsule = plan[run].predecessor /\ n.capsule = run /\ n.prepared = None
        /\ IF g \in plan[run].new_roster THEN e.prepared = run /\ n.active = run
                                         ELSE e.prepared = None /\ n.active = None
     \/ /\ proc["cancel"].pc \in CancelStages \ {"Veto"}
        /\ e.prepared \in {None, target} /\ n.prepared = None
        /\ n.capsule = e.capsule /\ n.active = e.active

\* The coordinator goes on without news about records.
RecordMove ==
  LET p == proc["rotate"]
      n == proc'["rotate"]
  IN /\ n.r = p.r
     /\ n.pc \in Later => p.pc \in Later
     /\ n.pc \in Early => p.pc \in Early
     /\ n.pc = "PrepareCommit" => n.got = {} \/ (p.pc = "PrepareCommit" /\ n.got = p.got)

LEMMA GoesSteady ==
  ASSUME Moves("rotate"), NEW from, NEW to, Goes("rotate", from, to), from # "PrepareCommit",
         to \in Later => from \in Later, to \in Early => from \in Early
  PROVE  RecordMove
<1>1. \A pc \in Ended : pc \notin Later /\ pc \notin Early /\ pc # "PrepareCommit"
  BY DEF Ended, Later, Activating, Early
<1> QED
  BY <1>1 DEF Moves, Goes, RecordMove

LEMMA OtherSteady ==
  ASSUME Moves("cancel")
  PROVE  RecordMove
<1>1. proc'["rotate"] = proc["rotate"]
  BY DEF Moves, Process
<1> QED
  BY <1>1 DEF RecordMove

LEMMA QuietSteady ==
  ASSUME NEW from, NEW to, from # "PrepareCommit",
         to \in Later => from \in Later, to \in Early => from \in Early
  PROVE  /\ SignerStep("rotate", from, to) => (\A g \in Guardian : GuardianMove(g)) /\ RecordMove
         /\ SessionStep("rotate", from, to) => (\A g \in Guardian : GuardianMove(g)) /\ RecordMove
         /\ LocalStep("rotate", from, to) => (\A g \in Guardian : GuardianMove(g)) /\ RecordMove
<1>1. Moves("rotate") /\ Goes("rotate", from, to) => RecordMove
  BY GoesSteady
<1>2. guardian' = guardian => \A g \in Guardian : GuardianMove(g)
  BY DEF GuardianMove
<1>3. KeepsRecords => \A g \in Guardian : GuardianMove(g)
  BY DEF KeepsRecords, GuardianMove
<1>4. SignerStep("rotate", from, to) => (\A g \in Guardian : GuardianMove(g)) /\ RecordMove
  BY <1>1, <1>2 DEF SignerStep
<1>5. SessionStep("rotate", from, to) => (\A g \in Guardian : GuardianMove(g)) /\ RecordMove
  BY <1>1, <1>3 DEF SessionStep
<1>6. LocalStep("rotate", from, to) => (\A g \in Guardian : GuardianMove(g)) /\ RecordMove
  BY <1>1, <1>2 DEF LocalStep, actors
<1> QED
  BY <1>4, <1>5, <1>6

\* A call to one guardian moves that one only.
LEMMA CalledMoves ==
  ASSUME Base, NEW c \in Process, NEW pc, NEW st, NEW g \in Guardian, NEW res,
         GuardianCalled(c, pc, st, g, res),
         guardian'[g] = res.entry => GuardianMove(g)
  PROVE  \A x \in Guardian : GuardianMove(x)
<1>1. /\ guardian \in [Guardian -> GuardianEntry]
      /\ guardian' = guardian \/ guardian' = [guardian EXCEPT ![g] = res.entry]
  BY DEF GuardianCalled, Base, TypeOK
<1>2. ASSUME NEW x \in Guardian, guardian'[x] = guardian[x] PROVE GuardianMove(x)
  BY <1>2 DEF GuardianMove
<1> QED
  BY <1>1, <1>2

\* The coordinator's calls that change records.
LEMMA RotateRecords ==
  ASSUME Base
  PROVE  /\ ProvisionCandidate => (\A g \in Guardian : GuardianMove(g)) /\ RecordMove
         /\ PrepareCommit => \A g \in Guardian : GuardianMove(g)
         /\ ActivateSuccessors => (\A g \in Guardian : GuardianMove(g)) /\ RecordMove
         /\ ActivateRemoved => (\A g \in Guardian : GuardianMove(g)) /\ RecordMove
<1>1. "rotate" \in Process /\ guardian \in [Guardian -> GuardianEntry]
  BY DEF Process, Base, TypeOK
<1>2. proc["rotate"].pc \in Stages => run \in Rotation /\ plan[run] # None
  BY <1>1, RunFacts DEF run
<1>3. ASSUME ProvisionCandidate PROVE (\A g \in Guardian : GuardianMove(g)) /\ RecordMove
  <2> DEFINE st == All({Added(run)}, 1, "BeginVotes")
             res(g) == Served(TRUE, guardian[g],
                              [guardian[g] EXCEPT !.capsule = plan[run].predecessor])
  <2>1. PICK g \in Guardian : GuardianCalled("rotate", "Candidate", st, g, res(g))
    BY <1>3, RecordSteps
  <2>2. st.targets = {Added(run)} /\ st.next = "BeginVotes"
    BY DEF All, Stage
  <2>3. LET n == res(g).entry
        IN n.capsule = plan[run].predecessor /\ n.active = guardian[g].active
           /\ n.prepared = guardian[g].prepared
    BY <1>1 DEF Served, GuardianEntry
  <2> HIDE DEF st, res
  <2>4. g = Added(run) /\ proc["rotate"].pc = "Candidate"
    BY <2>1, <2>2 DEF GuardianCalled, Goes
  <2>5. guardian'[g] = res(g).entry => GuardianMove(g)
    BY <2>3, <2>4 DEF GuardianMove
  <2>6. \A x \in Guardian : GuardianMove(x)
    BY <1>1, <2>1, <2>5, CalledMoves
  <2>7. RecordMove
    BY <2>1, <2>2, GoesSteady DEF GuardianCalled, Later, Activating, Early
  <2> QED
    BY <2>6, <2>7
<1>4. ASSUME PrepareCommit PROVE \A g \in Guardian : GuardianMove(g)
  <2> DEFINE st == All(new_roster, relay_count, "HandoffComplete")
  <2>1. PICK g \in Guardian : GuardianCalled("rotate", "PrepareCommit", st, g, PreparedAt(g, run))
    BY <1>4, RecordSteps
  <2>2. st.targets = plan[run].new_roster
    BY DEF All, Stage, new_roster
  <2> HIDE DEF st
  <2>3. g \in plan[run].new_roster /\ proc["rotate"].pc = "PrepareCommit"
    BY <2>1, <2>2 DEF GuardianCalled, Goes
  <2>4. run \in Rotation
    BY <1>2, <2>3 DEF Stages
  <2>5. LET e == guardian[g]
            n == PreparedAt(g, run).entry
        IN /\ n.capsule = e.capsule /\ n.active = e.active
           /\ n.prepared = e.prepared \/ (e.prepared = None /\ n.prepared = run)
    BY <2>4, PreparedFacts
  <2>6. guardian'[g] = PreparedAt(g, run).entry => GuardianMove(g)
    BY <2>3, <2>5 DEF GuardianMove
  <2> QED
    BY <1>1, <2>1, <2>6, CalledMoves
<1>5. ASSUME NEW pc \in Activating \ {"OwnerFile"}, NEW st,
             st.next \in Activating, NEW g \in Guardian,
             GuardianCalled("rotate", pc, st, g, ActivatedAt(g, run))
      PROVE  (\A x \in Guardian : GuardianMove(x)) /\ RecordMove
  <2>1. proc["rotate"].pc \in Activating /\ proc["rotate"].pc \in Stages
    BY <1>5 DEF GuardianCalled, Goes, Activating, Stages
  <2>2. LET e == guardian[g]
            n == ActivatedAt(g, run).entry
        IN \/ SameRecord(e, n)
           \/ /\ e.capsule = plan[run].predecessor /\ n.capsule = run /\ n.prepared = None
              /\ IF g \in plan[run].new_roster THEN e.prepared = run /\ n.active = run
                                               ELSE e.prepared = None /\ n.active = None
    BY <1>2, <2>1, ActivatedFacts
  <2>3. guardian'[g] = ActivatedAt(g, run).entry => GuardianMove(g)
    BY <2>1, <2>2 DEF GuardianMove, SameRecord
  <2>4. \A x \in Guardian : GuardianMove(x)
    BY <1>1, <1>5, <2>3, CalledMoves
  <2>5. pc \in Later /\ st.next \in Later /\ st.next \notin Early /\ pc # "PrepareCommit"
    BY <1>5 DEF Later, Early, Activating
  <2>6. RecordMove
    BY <1>5, <2>5, GoesSteady DEF GuardianCalled
  <2> QED
    BY <2>4, <2>6
<1>6. ASSUME ActivateSuccessors PROVE (\A g \in Guardian : GuardianMove(g)) /\ RecordMove
  <2> DEFINE st == All(new_roster, relay_count, "ActivateRemoved")
  <2>1. PICK g \in Guardian : GuardianCalled("rotate", "Activate", st, g, ActivatedAt(g, run))
    BY <1>6, RecordSteps
  <2>2. st.next \in Activating /\ "Activate" \in Activating \ {"OwnerFile"}
    BY DEF All, Stage, Activating
  <2> HIDE DEF st
  <2> QED
    BY <1>5, <2>1, <2>2
<1>7. ASSUME ActivateRemoved PROVE (\A g \in Guardian : GuardianMove(g)) /\ RecordMove
  <2> DEFINE st == Stage(removed, "try", 0, relay_count, "OwnerFile")
  <2>1. PICK g \in Guardian : GuardianCalled("rotate", "ActivateRemoved", st, g, ActivatedAt(g, run))
    BY <1>7, RecordSteps
  <2>2. st.next \in Activating /\ "ActivateRemoved" \in Activating \ {"OwnerFile"}
    BY DEF Stage, Activating
  <2> HIDE DEF st
  <2> QED
    BY <1>5, <2>1, <2>2
<1> QED
  BY <1>3, <1>4, <1>6, <1>7

\* The cancel command's calls that change records.
LEMMA CancelRecords ==
  ASSUME Base, CancelStep
  PROVE  (\A g \in Guardian : GuardianMove(g)) /\ RecordMove
<1>1. "cancel" \in Process
  BY DEF Process
<1>2. ASSUME NEW pc \in CancelStages \ {"Veto"}, NEW st, NEW g \in Guardian, NEW res,
             res \in {CancelledAt(g, target), AbortedAt(g, target)},
             GuardianCalled("cancel", pc, st, g, res)
      PROVE  (\A x \in Guardian : GuardianMove(x)) /\ RecordMove
  <2>1. proc["cancel"].pc = pc /\ Moves("cancel")
    BY <1>2 DEF GuardianCalled, Goes
  <2>2. target \in Rotation
    <3>1. pc \in Stages
      BY DEF CancelStages, Stages
    <3> QED
      BY <1>1, <2>1, <3>1, RunFacts DEF target
  <2>3. LET e == guardian[g]
            n == res.entry
        IN /\ n.capsule = e.capsule /\ n.active = e.active
           /\ n.prepared = e.prepared \/ (e.prepared \in {None, target} /\ n.prepared = None)
    BY <1>2, <2>2, ErasedFacts
  <2>4. guardian'[g] = res.entry => GuardianMove(g)
    BY <2>1, <2>3 DEF GuardianMove
  <2> QED
    BY <1>1, <1>2, <2>1, <2>4, CalledMoves, OtherSteady
<1>3. CASE CancelAtOldGuardians \/ CancelAtCandidates \/ AbortAtGuardians
  <2>1. {"CancelOld", "CancelNew", "Abort"} \subseteq CancelStages \ {"Veto"}
    BY DEF CancelStages
  <2>2. CASE CancelAtOldGuardians
    BY <1>2, <2>1, <2>2, CancelSteps
  <2>3. CASE CancelAtCandidates
    BY <1>2, <2>1, <2>3, CancelSteps
  <2>4. CASE AbortAtGuardians
    BY <1>2, <2>1, <2>4, CancelSteps
  <2> QED
    BY <1>3, <2>2, <2>3, <2>4
<1>4. CASE VetoAtWitnesses
  <2>1. Moves("cancel") /\ guardian' = guardian
    BY <1>4, CancelSteps DEF WitnessCalled
  <2> QED
    BY <2>1, OtherSteady DEF GuardianMove
<1>5. CASE collect_signer_abort_votes \/ FinalizeAtSigners
  <2>1. Moves("cancel") /\ guardian' = guardian
    BY <1>5, CancelAtSigners
  <2> QED
    BY <2>1, OtherSteady DEF GuardianMove
<1> QED
  BY <1>3, <1>4, <1>5 DEF CancelStep

\* Every step of the system moves each guardian by one of its own steps.
LEMMA GuardianSteps ==
  ASSUME Base, [Next]_vars
  PROVE  /\ \A g \in Guardian : GuardianMove(g)
         /\ RecordMove \/ PrepareCommit \/ \E r \in Rotation : StartRotation(r)
<1> DEFINE Steady == (\A g \in Guardian : GuardianMove(g)) /\ RecordMove
<1>1. guardian' = guardian => \A g \in Guardian : GuardianMove(g)
  BY DEF GuardianMove
<1>2. ASSUME RotateStep PROVE (\A g \in Guardian : GuardianMove(g)) /\ (RecordMove \/ PrepareCommit)
  <2> USE DEF Later, Early, Activating
  <2>1. CASE \/ CollectIntents \/ collect_signer_begin_votes \/ collect_signer_release_votes
             \/ collect_signer_activate_votes
    BY <2>1, SignerSteps, QuietSteady
  <2>2. CASE \/ ProvisionAliases \/ BeginSuccessors \/ BeginRemoved
             \/ RepairRound1 \/ RepairRound2 \/ RepairFinalize
    BY <2>2, SessionSteps, QuietSteady
  <2>3. CASE \/ RefreshRound1 \/ RefreshRound2 \/ RefreshFinalize \/ StageMaterial
             \/ HandoffComplete
    BY <2>3, SessionSteps, QuietSteady
  <2>4. CASE NodeInfo \/ WriteControlFile \/ Sleep
    BY <2>4, LocalSteps, QuietSteady
  <2> HIDE DEF Later, Early, Activating
  <2>5. CASE ProvisionCandidate \/ PrepareCommit \/ ActivateSuccessors \/ ActivateRemoved
    BY <2>5, RotateRecords
  <2>6. CASE WitnessActivate
    <3> DEFINE st == Stage(Witness, "enough", required_witnesses, 1, "WitnessFinalize")
               res(w) == Served(WitnessAccepts(witness[w], run), witness[w],
                                [witness[w] EXCEPT !.pending = run])
    <3>1. PICK w \in Witness : WitnessCalled("rotate", "WitnessActivate", st, w, res(w))
      BY <2>6, RecordSteps
    <3>2. guardian' = guardian /\ Moves("rotate")
          /\ Goes("rotate", "WitnessActivate", "WitnessFinalize")
      BY <3>1 DEF WitnessCalled, Stage
    <3>3. RecordMove
      BY <3>2, GoesSteady DEF Later, Early, Activating
    <3> QED
      BY <1>1, <3>2, <3>3
  <2>7. CASE WitnessFinalize
    <3> DEFINE st == All(proc["rotate"].acked, 1, "Activate")
    <3>1. PICK w \in Witness : WitnessCalled("rotate", "WitnessFinalize", st, w, FinalizedAt(w, run))
      BY <2>7, RecordSteps
    <3>2. guardian' = guardian /\ Moves("rotate")
          /\ Goes("rotate", "WitnessFinalize", "Activate")
      BY <3>1 DEF WitnessCalled, All, Stage
    <3>3. RecordMove
      BY <3>2, GoesSteady DEF Later, Early, Activating
    <3> QED
      BY <1>1, <3>2, <3>3
  <2>8. CASE WriteOwnerFile
    <3>1. guardian' = guardian /\ Moves("rotate") /\ Goes("rotate", "OwnerFile", "Ok")
      BY <2>8, LocalSteps DEF actors
    <3>2. RecordMove
      BY <3>1, GoesSteady DEF Later, Early, Activating
    <3> QED
      BY <1>1, <3>1, <3>2
  <2> QED
    BY <1>2, <2>1, <2>2, <2>3, <2>4, <2>5, <2>6, <2>7, <2>8 DEF RotateStep
<1>3. ASSUME NEW c \in Process, Crash(c) PROVE Steady
  <2>1. Moves(c) /\ proc'[c].pc = "Crashed" /\ guardian' = guardian
    BY <1>3, CrashStep DEF actors
  <2>2. proc'["rotate"] = proc["rotate"]
        \/ (proc'["rotate"].pc = "Crashed" /\ proc'["rotate"].r = proc["rotate"].r)
    BY <2>1 DEF Moves, Process
  <2>3. RecordMove
    BY <2>2 DEF RecordMove, Later, Early, Activating
  <2> QED
    BY <1>1, <2>1, <2>3
<1>4. ASSUME NEW r \in Rotation, StartRotation(r) PROVE \A g \in Guardian : GuardianMove(g)
  BY <1>1, <1>4, RotationStarts DEF actors
<1>5. CASE StartCancel
  <2>1. guardian' = guardian /\ proc'["rotate"] = proc["rotate"]
    BY <1>5, CancelStarts DEF actors
  <2>2. RecordMove
    BY <2>1 DEF RecordMove
  <2> QED
    BY <1>1, <2>1, <2>2
<1>6. CASE UNCHANGED vars
  <2>1. guardian' = guardian /\ proc' = proc
    BY <1>6 DEF vars, actors
  <2>2. RecordMove
    BY <2>1 DEF RecordMove
  <2> QED
    BY <1>1, <2>1, <2>2
<1> QED
  BY <1>2, <1>3, <1>4, <1>5, <1>6, CancelRecords DEF Next, rotate_v3, cancel_rotation_v3

-----------------------------------------------------------------------------
(* Where the guardians are *)

\* What is known of the coordinator when it moves a guardian.
LEMMA MoveFacts ==
  ASSUME Base
  PROVE  /\ proc["rotate"].pc \in Activating \cup Early \cup Later \cup {"PrepareCommit"} =>
              /\ run \in Rotation /\ plan[run] # None /\ plan[run].predecessor \in Epoch
              /\ Planned(run) /\ run \in Epoch /\ Planned(plan[run].predecessor)
              /\ plan[run].new_roster \subseteq Guardian
              /\ guardian_epoch(run) = guardian_epoch(plan[run].predecessor) + 1
         /\ proc["cancel"].pc \in CancelStages => target \in Rotation /\ plan[target] # None
<1>1. Activating \cup Early \cup Later \cup {"PrepareCommit"} \cup CancelStages \subseteq Stages
  BY DEF Activating, Early, Later, CancelStages, Stages
<1>2. /\ proc["rotate"].pc \in Stages => run \in Rotation /\ plan[run] # None
      /\ proc["cancel"].pc \in Stages => target \in Rotation /\ plan[target] # None
  BY RunFacts DEF Process, run, target
<1>3. ASSUME run \in Rotation, plan[run] # None
      PROVE  /\ plan[run].predecessor \in Epoch /\ Planned(run) /\ run \in Epoch
             /\ Planned(plan[run].predecessor) /\ plan[run].new_roster \subseteq Guardian
             /\ guardian_epoch(run) = guardian_epoch(plan[run].predecessor) + 1
  BY <1>3, PlanFacts, SetFacts DEF Base
<1> QED
  BY <1>1, <1>2, <1>3

\* The plans of rotations stay.
LEMMA PlanStays ==
  ASSUME PlansStay, NEW q \in Rotation, plan[q] # None
  PROVE  plan'[q] = plan[q] /\ plan'[q] # None
  BY SetFacts DEF PlansStay, Planned

\* A guardian comes from one epoch to the next by a quorum only.
LEMMA GuardianStays ==
  ASSUME Base, Decisions, Guardians, [Next]_vars, NEW g \in Guardian
  PROVE  GuardianOK(g)'
<1> DEFINE e == guardian[g]
           n == guardian'[g]
           Absent(m) == m.capsule = None /\ m.active = None /\ g \notin 1..guardian_count
           AtFirst(m) == m.capsule = Genesis /\ m.active = Genesis /\ g \in 1..guardian_count
<1>1. PlansStay /\ GuardianMove(g) /\ GuardianOK(g)
  BY WitnessSteps, GuardianSteps DEF Decisions, Guardians
<1>2. \/ Absent(n) \/ AtFirst(n)
      \/ n.active = None /\ \E q \in Rotation : /\ g = Added(q) /\ plan'[q] # None
                                                /\ n.capsule = plan'[q].predecessor
      \/ \E c \in Rotation : /\ n.capsule = c /\ plan'[c] # None /\ FinalQuorum(c)'
                             /\ n.active = IF g \in plan'[c].new_roster THEN c ELSE None
  <2>1. CASE n.capsule = e.capsule /\ n.active = e.active
    <3>1. CASE Absent(e) \/ AtFirst(e)
      BY <2>1, <3>1
    <3>2. ASSUME e.active = None, NEW q \in Rotation, g = Added(q), plan[q] # None,
                 e.capsule = plan[q].predecessor
          PROVE  n.active = None /\ \E x \in Rotation : /\ g = Added(x) /\ plan'[x] # None
                                                        /\ n.capsule = plan'[x].predecessor
      BY <1>1, <2>1, <3>2, PlanStays
    <3>3. ASSUME e.capsule \in Rotation, plan[e.capsule] # None, FinalQuorum(e.capsule),
                 e.active = IF g \in plan[e.capsule].new_roster THEN e.capsule ELSE None
          PROVE  \E c \in Rotation : /\ n.capsule = c /\ plan'[c] # None /\ FinalQuorum(c)'
                                     /\ n.active = IF g \in plan'[c].new_roster THEN c ELSE None
      <4> DEFINE c == e.capsule
      <4>1. c \in Rotation /\ plan[c] # None /\ FinalQuorum(c) /\ n.capsule = c
            /\ n.active = IF g \in plan[c].new_roster THEN c ELSE None
        BY <2>1, <3>3
      <4>2. PICK d \in Rotation : d = c
        BY <4>1
      <4> HIDE DEF c, n
      <4>3. FinalQuorum(d)' /\ plan'[d] = plan[d] /\ plan[d] # None
        BY <1>1, <4>1, <4>2, QuorumKeeps, PlanStays
      <4> QED
        BY <4>1, <4>2, <4>3
    <3> QED
      BY <1>1, <3>1, <3>2, <3>3 DEF GuardianOK
  <2>2. ASSUME proc["rotate"].pc = "Candidate", g = Added(run),
               n.capsule = plan[run].predecessor, n.active = e.active
        PROVE  n.active = None /\ \E q \in Rotation : /\ g = Added(q) /\ plan'[q] # None
                                                      /\ n.capsule = plan'[q].predecessor
    <3>1. run \in Rotation /\ plan[run] # None
      BY <2>2, MoveFacts DEF Early
    <3>2. e.active = None
      BY <2>2, <3>1 DEF Guardians, CandidatesOK, Early
    <3>3. plan'[run] = plan[run]
      BY <1>1, <3>1, PlanStays
    <3> QED
      BY <2>2, <3>1, <3>2, <3>3
  <2>3. ASSUME proc["rotate"].pc \in Activating, n.capsule = run,
               n.active = IF g \in plan[run].new_roster THEN run ELSE None
        PROVE  \E c \in Rotation : /\ n.capsule = c /\ plan'[c] # None /\ FinalQuorum(c)'
                                   /\ n.active = IF g \in plan'[c].new_roster THEN c ELSE None
    <3>1. run \in Rotation /\ plan[run] # None /\ FinalQuorum(run)
      BY <2>3, MoveFacts DEF Decisions, DecisionOK
    <3>2. PICK d \in Rotation : d = run
      BY <3>1
    <3>3. FinalQuorum(d)' /\ plan'[d] = plan[d] /\ plan[d] # None
      BY <1>1, <3>1, <3>2, QuorumKeeps, PlanStays
    <3> QED
      BY <2>3, <3>2, <3>3
  <2> QED
    BY <1>1, <2>1, <2>2, <2>3 DEF GuardianMove
<1>3. n.prepared # None => \E q \in Rotation : /\ n.prepared = q /\ plan'[q] # None
                                               /\ g \in plan'[q].new_roster
  <2>1. \/ n.prepared = e.prepared \/ n.prepared = None
        \/ /\ proc["rotate"].pc = "PrepareCommit" /\ n.prepared = run
           /\ g \in plan[run].new_roster
    BY <1>1 DEF GuardianMove
  <2>2. CASE n.prepared = e.prepared /\ e.prepared # None
    <3>1. e.prepared \in Rotation
      BY <2>2 DEF Base, TypeOK, GuardianEntry
    <3>2. plan[e.prepared] # None /\ g \in plan[e.prepared].new_roster
      BY <1>1, <2>2, <3>1, SetFacts DEF GuardianOK, Planned
    <3> QED
      BY <1>1, <2>2, <3>1, <3>2, PlanStays
  <2>3. CASE /\ proc["rotate"].pc = "PrepareCommit" /\ n.prepared = run
             /\ g \in plan[run].new_roster
    <3>1. run \in Rotation /\ plan[run] # None
      BY <2>3, MoveFacts
    <3> QED
      BY <1>1, <2>3, <3>1, PlanStays
  <2> QED
    BY <2>1, <2>2, <2>3
<1>4. n.prepared # None => Planned(guardian[g].prepared)' /\ g \in plan'[n.prepared].new_roster
  BY <1>3 DEF Planned
<1>5. \A c : n.capsule = c => (FinalQuorum(guardian[g].capsule)' <=> FinalQuorum(c)')
  BY DEF FinalQuorum, Finalized, guardian_epoch
<1> HIDE DEF n
<1> QED
  BY <1>2, <1>4, <1>5 DEF GuardianOK, n

\* A candidate waits for its run.
LEMMA CandidatesStay ==
  ASSUME Base, Decisions, Guardians, [Next]_vars
  PROVE  CandidatesOK'
<1> SUFFICES ASSUME NEW r \in Rotation
             PROVE  LET n == guardian'[Added(r)]
                    IN /\ plan'[r] = None => n.capsule = None
                       /\ run' = r /\ proc'["rotate"].pc \in Early =>
                            n.active = None /\ n.capsule \in {None, plan'[r].predecessor}
  BY DEF CandidatesOK
<1> DEFINE g == Added(r)
           e == guardian[g]
           n == guardian'[g]
<1>1. g \in Guardian /\ \A q \in Rotation : g = Added(q) => q = r
  BY AddedFacts
<1>2. PlansStay /\ GuardianMove(g) /\ GuardianOK(g)
  BY <1>1, WitnessSteps, GuardianSteps DEF Decisions, Guardians
<1>3. /\ plan[r] = None => e.capsule = None
      /\ run = r /\ proc["rotate"].pc \in Early =>
           e.active = None /\ e.capsule \in {None, plan[r].predecessor}
  BY DEF Guardians, CandidatesOK
<1>4. plan[r] # None => plan'[r] = plan[r]
  BY <1>2, PlanStays
<1>5. /\ "Candidate" \in Early /\ "PrepareCommit" \notin Early /\ "HandoffComplete" \notin Early
      /\ Early \cap Activating = {} /\ Early \cap Ended = {}
  BY DEF Early, Activating, Ended
<1>6. plan[r] = None => n.capsule = None
  <2>1. ASSUME plan[r] = None, e.capsule = None, n.capsule # None PROVE FALSE
    <3>1. CASE proc["rotate"].pc = "Candidate" /\ g = Added(run)
      <4>1. run \in Rotation /\ plan[run] # None
        BY <1>5, <3>1, MoveFacts
      <4> QED
        BY <1>1, <2>1, <3>1, <4>1
    <3>2. CASE proc["rotate"].pc \in Activating /\ e.capsule = plan[run].predecessor
      BY <2>1, <3>2, MoveFacts, SetFacts
    <3> QED
      BY <1>2, <2>1, <3>1, <3>2 DEF GuardianMove
  <2> QED
    BY <1>3, <2>1
<1>7. ASSUME RecordMove, run' = r, proc'["rotate"].pc \in Early
      PROVE  n.active = None /\ n.capsule \in {None, plan'[r].predecessor}
  <2>1. run = r /\ proc["rotate"].pc \in Early
    BY <1>7 DEF RecordMove, run
  <2>2. plan'[r] = plan[r]
    BY <1>4, <2>1, MoveFacts
  <2> QED
    BY <1>2, <1>3, <1>5, <2>1, <2>2 DEF GuardianMove
<1>8. ASSUME PrepareCommit PROVE proc'["rotate"].pc \notin Early
  <2>1. PICK x \in Guardian :
          GuardianCalled("rotate", "PrepareCommit", All(new_roster, relay_count, "HandoffComplete"),
                         x, PreparedAt(x, run))
    BY <1>8, RecordSteps
  <2>2. Goes("rotate", "PrepareCommit", "HandoffComplete")
    BY <2>1 DEF GuardianCalled, All, Stage
  <2> QED
    BY <1>5, <2>2 DEF Goes
<1>9. ASSUME NEW q \in Rotation, StartRotation(q), run' = r
      PROVE  n.active = None /\ n.capsule = None
  <2>1. q = r /\ plan[r] = None /\ guardian' = guardian
    BY <1>9, RotationStarts DEF run, actors
  <2>2. e.capsule = None
    BY <1>3, <2>1
  <2>3. \A x \in Rotation : plan[x] # None => plan[x].predecessor # None
    BY PlanFacts, SetFacts DEF Base
  <2>4. e.active = None
    BY <1>2, <2>2, <2>3, SetFacts DEF GuardianOK
  <2> QED
    BY <2>1, <2>2, <2>4
<1> HIDE DEF g, e, n
<1>10. run' = r /\ proc'["rotate"].pc \in Early =>
         n.active = None /\ n.capsule \in {None, plan'[r].predecessor}
  BY <1>7, <1>8, <1>9, GuardianSteps
<1> QED
  BY <1>4, <1>6, <1>10 DEF n, g

\* Where the guardians are is invariant, by what the witnesses have decided.
LEMMA GuardianInvariant == Spec => [](Base /\ Decisions /\ Guardians)
<1>1. Init => Guardians
  <2> SUFFICES ASSUME Init PROVE Guardians
    OBVIOUS
  <2>1. \A g \in Guardian :
          /\ guardian[g].capsule = IF g <= guardian_count THEN Genesis ELSE None
          /\ guardian[g].active = IF g <= guardian_count THEN Genesis ELSE None
          /\ guardian[g].prepared = None
    BY DEF Init
  <2>2. \A g \in Guardian : (g <= guardian_count) <=> g \in 1..guardian_count
    BY CoordinatorAssumption DEF Guardian
  <2>3. \A g \in Guardian : GuardianOK(g)
    BY <2>1, <2>2 DEF GuardianOK
  <2>4. CandidatesOK
    <3>1. proc["rotate"].pc \notin Early
      BY DEF Init, Process, IdleProc, Early
    <3> QED
      BY <2>1, <2>2, <3>1, AddedFacts DEF CandidatesOK
  <2> QED
    BY <2>3, <2>4 DEF Guardians
<1>2. Base /\ Decisions /\ Guardians /\ [Next]_vars => Guardians'
  <2> SUFFICES ASSUME Base, Decisions, Guardians, [Next]_vars PROVE Guardians'
    OBVIOUS
  <2>1. \A g \in Guardian : GuardianOK(g)'
    BY GuardianStays
  <2> QED
    BY <2>1, CandidatesStay DEF Guardians
<1> QED
  BY <1>1, <1>2, DecisionInvariant, PTL DEF Spec

\* No rotation has both quorums.
LEMMA OneDecision ==
  ASSUME NEW r, FinalQuorum(r), VetoQuorum(r)
  PROVE  FALSE
<1>1. PICK P \in ReadQuorums : \A w \in P : Finalized(w, r)
  BY DEF FinalQuorum
<1>2. PICK Q \in ReadQuorums : \A w \in Q : Vetoed(w, r)
  BY DEF VetoQuorum
<1>3. PICK w \in P \cap Q : w \in Witness
  BY QuorumsMeet
<1> QED
  BY <1>1, <1>2, <1>3 DEF Finalized, Vetoed

\* rotate_v3 and cancel_rotation_v3 may interleave between any two of their calls, and
\* either may crash: once the cancel command has its 2f+1 vetoes, the rotation never
\* returns Ok, no guardian activates it and at most f witnesses serve it, whatever the
\* coordinator does.
THEOREM OneOutcomeTheorem == Spec => []OneOutcome
<1>1. Base /\ Decisions /\ Guardians => OneOutcome
  <2> SUFFICES ASSUME Base, Decisions, Guardians PROVE OneOutcome
    OBVIOUS
  <2> DEFINE decided == IF proc["cancel"].pc \in {"CancelOld", "CancelNew", "AbortVotes", "Abort",
                                                  "FinalizeOwnerCancel"} THEN {target} ELSE {}
  <2> SUFFICES ASSUME NEW r \in cancelled \cup decided
               PROVE  /\ r \notin completed
                      /\ \A g \in Guardian : guardian[g].active # r
                      /\ Cardinality({w \in Witness : witness[w].capsule = r}) <= witness_fault_bound
    BY DEF OneOutcome
  <2>1. VetoQuorum(r) /\ r \in Rotation /\ r # Genesis
    <3>1. CASE r \in cancelled
      BY <3>1, SetFacts DEF Decisions, DecisionOK, Base, TypeOK
    <3>2. CASE r \in decided
      <4>1. proc["cancel"].pc \in CancelStages \ {"Veto"} /\ r = target
        BY <3>2 DEF CancelStages
      <4> QED
        BY <4>1, MoveFacts, SetFacts DEF Decisions, DecisionOK
    <3> QED
      BY <3>1, <3>2
  <2> HIDE DEF decided
  <2>2. ~FinalQuorum(r)
    BY <2>1, OneDecision
  <2>3. r \notin completed
    BY <2>2 DEF Decisions, DecisionOK
  <2>4. ASSUME NEW g \in Guardian, guardian[g].active = r PROVE FALSE
    <3>1. GuardianOK(g) /\ r # None
      BY <2>1, SetFacts DEF Guardians
    <3> QED
      BY <2>1, <2>2, <2>4, <3>1 DEF GuardianOK
  <2>5. Cardinality({w \in Witness : witness[w].capsule = r}) <= witness_fault_bound
    <3> DEFINE V == {w \in Witness : Vetoed(w, r)}
               S == {w \in Witness : witness[w].capsule = r}
    <3>1. PICK Q \in ReadQuorums : \A w \in Q : Vetoed(w, r)
      BY <2>1 DEF VetoQuorum
    <3>2. Q \subseteq V /\ V \in SUBSET Witness
      BY <3>1 DEF ReadQuorums
    <3>3. Cardinality(Witness \ V) <= witness_fault_bound
      BY <3>2, QuorumsGrow
    <3>4. S \subseteq Witness \ V
      BY <2>1 DEF Decisions, WitnessOK, Vetoed
    <3>5. IsFiniteSet(Witness \ V)
      BY SetFacts, FS_Subset
    <3> HIDE DEF V, S
    <3>6. Cardinality(S) <= Cardinality(Witness \ V) /\ IsFiniteSet(S)
      BY <3>4, <3>5, FS_Subset
    <3>7. Cardinality(S) \in Nat /\ Cardinality(Witness \ V) \in Nat
      BY <3>5, <3>6, FS_CardinalityType
    <3> QED
      BY <3>3, <3>6, <3>7, SetFacts DEF S
  <2> QED
    BY <2>3, <2>4, <2>5
<1> QED
  BY <1>1, GuardianInvariant, PTL

-----------------------------------------------------------------------------
(* The records of an epoch are there before any witness serves it *)

\* A record is given up for a later one, or after a veto quorum.
LEMMA HeldKeeps ==
  ASSUME Base, Decisions, Guardians, [Next]_vars, NEW r \in Rotation, plan[r] # None,
         NEW g \in Guardian, Held(g, r)
  PROVE  Held(g, r)' \/ VetoQuorum(r)'
<1> DEFINE e == guardian[g]
           n == guardian'[g]
<1>1. PlansStay /\ GuardianMove(g) /\ GuardianOK(g)
  BY WitnessSteps, GuardianSteps DEF Decisions, Guardians
<1>2. /\ r \in Epoch /\ Planned(r) /\ r # None /\ guardian_epoch(r) \in Nat
      /\ guardian_epoch(r)' = guardian_epoch(r)
  BY <1>1, SetFacts, RankFacts DEF Planned, PlansStay
<1>3. ASSUME NEW c \in Epoch, Planned(c), n.capsule = c, guardian_epoch(c) >= guardian_epoch(r)
      PROVE  Held(g, r)'
  <2>1. guardian_epoch(c)' = guardian_epoch(c)
    BY <1>1, <1>3 DEF PlansStay
  <2>2. guardian_epoch(guardian[g].capsule)' = guardian_epoch(c)'
    BY <1>3 DEF guardian_epoch
  <2>3. n.capsule # None
    BY <1>3, SetFacts
  <2> QED
    BY <1>2, <1>3, <2>1, <2>2, <2>3 DEF Held
<1>4. e.capsule # None => e.capsule \in Epoch /\ Planned(e.capsule)
  <2>1. e.capsule \in Epoch \cup {None}
    BY DEF Base, TypeOK, GuardianEntry
  <2>2. \A q \in Rotation : plan[q] # None => Planned(plan[q].predecessor)
    BY PlanFacts DEF Base
  <2> QED
    BY <1>1, <2>1, <2>2 DEF GuardianOK, Planned
<1>5. CASE n.prepared = r
  BY <1>5 DEF Held
<1>6. ASSUME n.capsule = e.capsule, e.prepared # r PROVE Held(g, r)'
  BY <1>3, <1>4, <1>6 DEF Held
<1>7. ASSUME proc["rotate"].pc = "Candidate", g = Added(run), n.capsule = plan[run].predecessor,
             e.prepared # r
      PROVE  Held(g, r)'
  <2>1. run \in Rotation
    BY <1>7, MoveFacts DEF Early
  <2>2. e.capsule \in {None, plan[run].predecessor}
    BY <1>7, <2>1 DEF Guardians, CandidatesOK, Early
  <2>3. e.capsule # None
    BY <1>7 DEF Held
  <2> QED
    BY <1>6, <1>7, <2>2, <2>3
<1>8. ASSUME proc["rotate"].pc \in Activating, e.capsule = plan[run].predecessor, n.capsule = run,
             e.prepared \in {run, None}
      PROVE  Held(g, r)'
  <2>1. /\ run \in Rotation /\ run \in Epoch /\ Planned(run)
        /\ plan[run].predecessor \in Epoch /\ Planned(plan[run].predecessor)
        /\ guardian_epoch(run) = guardian_epoch(plan[run].predecessor) + 1
    BY <1>8, MoveFacts
  <2>2. guardian_epoch(run) \in Nat /\ guardian_epoch(plan[run].predecessor) \in Nat
    BY <2>1, RankFacts
  <2>3. guardian_epoch(run) >= guardian_epoch(r)
    <3>1. CASE e.prepared = r
      BY <1>2, <1>8, <2>2, <3>1
    <3>2. CASE guardian_epoch(e.capsule) >= guardian_epoch(r)
      BY <1>2, <1>8, <2>1, <2>2, <3>2
    <3> QED
      BY <3>1, <3>2 DEF Held
  <2> QED
    BY <1>3, <1>8, <2>1, <2>3
<1>9. ASSUME proc["cancel"].pc \in CancelStages \ {"Veto"}, e.prepared \in {None, target},
             n.capsule = e.capsule
      PROVE  Held(g, r)' \/ VetoQuorum(r)'
  <2>1. CASE e.prepared = r
    <3>1. VetoQuorum(r)
      BY <1>2, <1>9, <2>1 DEF Decisions, DecisionOK
    <3> QED
      BY <3>1, QuorumKeeps
  <2> QED
    BY <1>6, <1>9, <2>1
<1> HIDE DEF e, n
<1>10. CASE n.capsule = e.capsule /\ n.prepared = e.prepared
  BY <1>5, <1>6, <1>10
<1>11. CASE n.capsule = e.capsule /\ e.prepared = None
  BY <1>2, <1>6, <1>11
<1> QED
  BY <1>1, <1>5, <1>7, <1>8, <1>9, <1>10, <1>11 DEF GuardianMove, e, n

\* The same, for all records of an epoch.
LEMMA AllHoldKeeps ==
  ASSUME Base, Decisions, Guardians, [Next]_vars, NEW r \in Rotation, plan[r] # None
  PROVE  AllHold(r) => AllHold(r)'
<1>1. plan'[r] = plan[r] /\ plan[r].new_roster \subseteq Guardian
  BY WitnessSteps, PlanStays, PlanFacts DEF Decisions, Base
<1>2. VetoQuorum(r) => VetoQuorum(r)'
  BY QuorumKeeps
<1>3. \A g \in plan[r].new_roster : Held(g, r) => Held(g, r)' \/ VetoQuorum(r)'
  BY <1>1, HeldKeeps
<1> QED
  BY <1>1, <1>2, <1>3 DEF AllHold

\* The same after a step, for the rotation that somebody is at.
LEMMA SameRecords ==
  ASSUME NEW r
  PROVE  /\ run' = r => /\ AllHold(run)' <=> AllHold(r)'
                        /\ VetoQuorum(run)' <=> VetoQuorum(r)'
                        /\ \A g : Held(g, run)' <=> Held(g, r)'
         /\ \A w : /\ witness'[w].pending = r => (AllHold(witness[w].pending)' <=> AllHold(r)')
                   /\ witness'[w].capsule = r => (AllHold(witness[w].capsule)' <=> AllHold(r)')
  BY DEF AllHold, VetoQuorum, Vetoed, Held, guardian_epoch, run

\* A witness accepts an epoch after all its records are there.
LEMMA ServedRecords ==
  ASSUME Base, Decisions, Guardians, RecordsOK, [Next]_vars, NEW w \in Witness
  PROVE  /\ witness'[w].pending # None => AllHold(witness[w].pending)'
         /\ witness'[w].capsule # Genesis => AllHold(witness[w].capsule)'
<1> DEFINE e == witness[w]
           n == witness'[w]
<1>1. WitnessMove(w) /\ WitnessOK(w)
  BY WitnessSteps DEF Decisions
<1>2. /\ e.pending \in Rotation \cup {None} /\ e.capsule \in Epoch /\ Planned(e.capsule)
  BY DEF Base, TypeOK, WitnessEntry, PlansOK
<1>3. e.pending # None =>
        e.pending \in Rotation /\ plan[e.pending] # None /\ AllHold(e.pending)
  BY <1>1, <1>2, SetFacts DEF WitnessOK, Planned, RecordsOK
<1>4. e.capsule # Genesis =>
        e.capsule \in Rotation /\ plan[e.capsule] # None /\ AllHold(e.capsule)
  BY <1>2, SetFacts DEF Planned, RecordsOK
<1>5. proc["rotate"].pc = "WitnessActivate" =>
        run \in Rotation /\ plan[run] # None /\ AllHold(run)
  BY MoveFacts DEF RecordsOK, Later
<1>6. \A x \in {n.pending, n.capsule} : x \notin {None, Genesis} =>
        x \in Rotation /\ plan[x] # None /\ AllHold(x)
  BY <1>1, <1>3, <1>4, <1>5 DEF WitnessMove
<1>7. n.pending # Genesis /\ n.capsule # None
  <2>1. n.pending \in {e.pending, None} \cup Rotation /\ n.capsule \in {e.capsule} \cup Rotation
    BY <1>1 DEF WitnessMove
  <2> QED
    BY <1>2, <2>1, SetFacts
<1>8. \A x \in {n.pending, n.capsule} : x \notin {None, Genesis} => AllHold(x)'
  <2> SUFFICES ASSUME NEW x \in {n.pending, n.capsule}, x \notin {None, Genesis}
               PROVE  AllHold(x)'
    OBVIOUS
  <2>1. PICK y \in Rotation : y = x /\ plan[y] # None /\ AllHold(y)
    BY <1>6
  <2> QED
    BY <2>1, AllHoldKeeps
<1> QED
  BY <1>7, <1>8, SameRecords

\* The calls of PrepareCommit: everybody whose answer counts has prepared the record.
LEMMA PreparedRecords ==
  ASSUME Base, Decisions, Guardians, RecordsOK, [Next]_vars, PrepareCommit
  PROVE  /\ proc'["rotate"].pc = "PrepareCommit" =>
              VetoQuorum(run)' \/ \A g \in proc'["rotate"].got : Held(g, run)'
         /\ proc'["rotate"].pc \in Later => AllHold(run)'
<1> DEFINE p == proc["rotate"]
           n == proc'["rotate"]
           st == All(new_roster, relay_count, "HandoffComplete")
<1>1. PICK x \in Guardian : GuardianCalled("rotate", "PrepareCommit", st, x, PreparedAt(x, run))
  BY RecordSteps
<1>2. /\ st.targets = plan[run].new_roster /\ st.next = "HandoffComplete"
      /\ st.otherwise = "Failed" /\ st.need = Cardinality(plan[run].new_roster)
  BY DEF All, Stage, new_roster
<1> HIDE DEF st
<1>3. p.pc = "PrepareCommit" /\ n.r = p.r /\ run' = run /\ plan' = plan
  BY <1>1 DEF GuardianCalled, Moves, Goes, rest, run
<1>4. PICK r \in Rotation : r = run /\ plan[r] # None /\ plan[r].new_roster \subseteq Guardian
  BY <1>3, MoveFacts
<1> DEFINE upd == PreparedAt(x, run).ok
                    /\ guardian' = [guardian EXCEPT ![x] = PreparedAt(x, run).entry]
<1>5. upd => Held(x, r)'
  <2>1. PreparedAt(x, run).ok => PreparedAt(x, run).entry.prepared = run
    BY <1>4, PreparedFacts
  <2>2. upd => guardian'[x] = PreparedAt(x, run).entry
    BY DEF Base, TypeOK
  <2> QED
    BY <1>4, <2>1, <2>2 DEF Held
<1>6. PICK G \in SUBSET plan[r].new_roster :
        Outcome(p, n, G, st) /\ \A y \in G : y \in p.got \/ (upd /\ y = x)
  BY <1>1, <1>2, <1>4 DEF GuardianCalled, CallDone
<1> HIDE DEF upd
<1>7. VetoQuorum(r)' \/ \A g \in G : Held(g, r)'
  <2>1. VetoQuorum(r) \/ \A g \in p.got : Held(g, r)
    BY <1>3, <1>4 DEF RecordsOK
  <2>2. VetoQuorum(r) => VetoQuorum(r)'
    BY <1>4, QuorumKeeps
  <2>3. \A g \in G : Held(g, r) => Held(g, r)' \/ VetoQuorum(r)'
    BY <1>4, HeldKeeps
  <2> QED
    BY <1>5, <1>6, <2>1, <2>2, <2>3
<1>8. /\ n.pc = "PrepareCommit" => n.got = G
      /\ n.pc \in Later => Cardinality(G) >= Cardinality(plan[r].new_roster)
  BY <1>2, <1>3, <1>4, <1>6 DEF Outcome, Later, Activating
<1>9. n.pc \in Later => AllHold(r)'
  <2>1. IsFiniteSet(plan[r].new_roster)
    BY <1>4, SetFacts, FS_Subset
  <2>2. n.pc \in Later => G = plan[r].new_roster
    BY <1>8, <2>1, EnoughIsAll
  <2> QED
    BY <1>3, <1>7, <2>2 DEF AllHold
<1> QED
  BY <1>3, <1>4, <1>7, <1>8, <1>9, SameRecords

\* Whoever relies on the records of a rotation goes on to do so.
LEMMA RecordsStay ==
  ASSUME Base, Decisions, Guardians, RecordsOK, [Next]_vars
  PROVE  RecordsOK'
<1> DEFINE p == proc["rotate"]
           n == proc'["rotate"]
<1>1. \A w \in Witness : /\ witness'[w].pending # None => AllHold(witness[w].pending)'
                         /\ witness'[w].capsule # Genesis => AllHold(witness[w].capsule)'
  BY ServedRecords
<1>2. ASSUME RecordMove
      PROVE  /\ n.pc = "PrepareCommit" => VetoQuorum(run)' \/ \A g \in n.got : Held(g, run)'
             /\ n.pc \in Later => AllHold(run)'
  <2>1. run' = run
    BY <1>2 DEF RecordMove, run
  <2>2. ASSUME n.pc = "PrepareCommit"
        PROVE  VetoQuorum(run)' \/ \A g \in n.got : Held(g, run)'
    <3>1. CASE n.got = {}
      BY <3>1
    <3>2. CASE p.pc = "PrepareCommit" /\ n.got = p.got
      <4>1. PICK r \in Rotation : r = run /\ plan[r] # None
        BY <3>2, MoveFacts
      <4>2. p.got \subseteq Guardian
        <5>1. Ongoing(p, TargetsOf(p)) /\ StageOK(p) /\ p.pc \in Stages \ LocalStages
          BY <3>2 DEF Base, ProcsOK, ProcOK, Stages, LocalStages
        <5>2. TargetsOf(p) \subseteq Guardian
          <6>1. p.pc \notin SignerStages \cup {"WitnessActivate", "WitnessFinalize", "Veto"}
            BY <3>2 DEF SignerStages
          <6> QED
            BY <5>1, <6>1, TargetFacts DEF Base
        <5> QED
          BY <5>1, <5>2 DEF Ongoing
      <4>3. VetoQuorum(r) \/ \A g \in p.got : Held(g, r)
        BY <3>2, <4>1 DEF RecordsOK
      <4>4. VetoQuorum(r)' \/ \A g \in p.got : Held(g, r)'
        BY <4>1, <4>2, <4>3, QuorumKeeps, HeldKeeps
      <4> QED
        BY <2>1, <3>2, <4>1, <4>4, SameRecords
    <3> QED
      BY <1>2, <2>2, <3>1, <3>2 DEF RecordMove
  <2>3. ASSUME n.pc \in Later PROVE AllHold(run)'
    <3>1. p.pc \in Later
      BY <1>2, <2>3 DEF RecordMove
    <3>2. PICK r \in Rotation : r = run /\ plan[r] # None
      BY <3>1, MoveFacts
    <3>3. AllHold(r)'
      BY <3>1, <3>2, AllHoldKeeps DEF RecordsOK
    <3> QED
      BY <2>1, <3>2, <3>3, SameRecords
  <2> QED
    BY <2>2, <2>3
<1>3. ASSUME NEW r \in Rotation, StartRotation(r)
      PROVE  n.pc # "PrepareCommit" /\ n.pc \notin Later
  BY <1>3, RotationStarts DEF Later, Activating
<1> HIDE DEF p, n
<1>4. /\ n.pc = "PrepareCommit" => VetoQuorum(run)' \/ \A g \in n.got : Held(g, run)'
      /\ n.pc \in Later => AllHold(run)'
  BY <1>2, <1>3, GuardianSteps, PreparedRecords DEF n
<1> QED
  BY <1>1, <1>4 DEF RecordsOK, n

\* The inductive invariant holds.
LEMMA Invariant == Spec => []IInv
<1>1. Init => RecordsOK
  <2> SUFFICES ASSUME Init PROVE RecordsOK
    OBVIOUS
  <2>1. /\ proc["rotate"].pc = "Idle"
        /\ \A w \in Witness : witness[w].pending = None /\ witness[w].capsule = Genesis
    BY DEF Init, Process, IdleProc
  <2> QED
    BY <2>1 DEF RecordsOK, Later, Activating
<1>2. Base /\ Decisions /\ Guardians /\ RecordsOK /\ [Next]_vars => RecordsOK'
  BY RecordsStay
<1>3. IInv <=> Base /\ Decisions /\ Guardians /\ RecordsOK
  BY DEF IInv
<1> QED
  BY <1>1, <1>2, <1>3, GuardianInvariant, PTL DEF Spec

\* When any witness has finalized the capsule of a rotation, every guardian of the new
\* roster holds the record that belongs to it, as its prepared one or as its capsule, or
\* it has gone past it; only the owner's veto quorum makes guardians erase it.
THEOREM FinalizedTheorem == Spec => []FinalizedIsHeld
<1>1. IInv => FinalizedIsHeld
  <2> SUFFICES ASSUME IInv, NEW w \in Witness, witness[w].capsule # Genesis,
                      Cardinality({x \in Witness : witness[x].cancellations[witness[w].capsule] # 0})
                        < required_witnesses,
                      NEW g \in plan[witness[w].capsule].new_roster
               PROVE  Held(g, witness[w].capsule)
    BY DEF FinalizedIsHeld, Held
  <2> DEFINE r == witness[w].capsule
             V == {x \in Witness : witness[x].cancellations[r] # 0}
  <2>1. ~VetoQuorum(r)
    <3>1. ASSUME NEW Q \in ReadQuorums, \A x \in Q : Vetoed(x, r) PROVE FALSE
      <4>1. Q \subseteq V /\ V \in SUBSET Witness
        BY <3>1 DEF ReadQuorums, Vetoed
      <4>2. Cardinality(V) >= required_witnesses
        BY <4>1, QuorumsGrow
      <4>3. Cardinality(V) \in Nat
        BY <4>1, SetFacts, FS_Subset, FS_CardinalityType
      <4>4. Cardinality(V) < required_witnesses
        OBVIOUS
      <4> HIDE DEF V
      <4> QED
        BY <4>2, <4>3, <4>4, SetFacts
    <3> QED
      BY <3>1 DEF VetoQuorum
  <2>2. AllHold(r)
    BY DEF IInv, RecordsOK
  <2> QED
    BY <2>1, <2>2 DEF AllHold
<1> QED
  BY <1>1, Invariant, PTL

\* As long as 2f+1 witnesses still serve an epoch, every guardian of its roster has its
\* record, active or prepared: a rotation that fails, is cancelled or dies at any point
\* before its finalize calls have made a quorum leaves the old epoch whole.
THEOREM OldEpochTheorem == Spec => []OldEpochServes
<1>1. IInv => OldEpochServes
  <2> SUFFICES ASSUME IInv, NEW e \in Epoch, NEW Q \in ReadQuorums,
                      \A w \in Q : witness[w].capsule = e, NEW g \in roster(e)
               PROVE  guardian[g].active = e \/ guardian[g].prepared = e
    BY DEF OldEpochServes
  <2> DEFINE m == guardian[g]
  <2>1. Base /\ Decisions /\ Guardians /\ RecordsOK
    BY DEF IInv
  <2>2. PICK w \in Witness : w \in Q
    BY QuorumsMeet
  <2>3. Planned(e) /\ guardian_epoch(e) \in Nat \ {0} /\ g \in Guardian
        /\ \A q \in Rotation : Added(q) = g => Planned(q) /\ guardian_epoch(q) <= guardian_epoch(e)
    BY <2>1, <2>2 DEF Base, PlansOK, RosterOK
  <2>4. GuardianOK(g)
    BY <2>1, <2>3 DEF Guardians
  <2>5. \A c \in Rotation : FinalQuorum(c) => e = c \/ guardian_epoch(e) > guardian_epoch(c)
    <3> SUFFICES ASSUME NEW c \in Rotation, NEW P \in ReadQuorums, \A x \in P : Finalized(x, c)
                 PROVE  e = c \/ guardian_epoch(e) > guardian_epoch(c)
      BY DEF FinalQuorum
    <3>1. PICK x \in P \cap Q : x \in Witness
      BY QuorumsMeet
    <3> QED
      BY <3>1 DEF Finalized
  <2>6. \A q \in Rotation : plan[q] # None =>
          /\ guardian_epoch(q) = guardian_epoch(plan[q].predecessor) + 1
          /\ guardian_epoch(q) \in Nat /\ guardian_epoch(plan[q].predecessor) \in Nat \ {0}
          /\ roster(q) = plan[q].new_roster
    BY <2>1, PlanFacts DEF Base
  <2>7. guardian_epoch(Genesis) = 1
    BY DEF guardian_epoch
  <2>8. CASE e = Genesis
    <3>1. g \in 1..guardian_count
      BY <2>8 DEF roster
    <3>2. ASSUME m.capsule \in Rotation, plan[m.capsule] # None, FinalQuorum(m.capsule) PROVE FALSE
      <4>1. Genesis # m.capsule /\ guardian_epoch(m.capsule) > 1
        BY <2>6, <3>2, SetFacts
      <4>2. guardian_epoch(m.capsule) \in Nat
        BY <2>6, <3>2
      <4> QED
        BY <2>5, <2>7, <2>8, <3>2, <4>1, <4>2
    <3> QED
      BY <2>4, <2>8, <3>1, <3>2, AddedFacts DEF GuardianOK
  <2>9. CASE e \in Rotation
    <3>1. plan[e] # None /\ e # Genesis /\ roster(e) = plan[e].new_roster
          /\ guardian_epoch(e) > 1
      BY <2>3, <2>6, <2>9, SetFacts DEF Planned
    <3>2. ~VetoQuorum(e)
      <4>1. ASSUME NEW P \in ReadQuorums, \A x \in P : Vetoed(x, e) PROVE FALSE
        <5>1. PICK x \in P \cap Q : x \in Witness
          BY QuorumsMeet
        <5>2. WitnessOK(x) /\ witness[x].capsule = e
          BY <2>1, <5>1 DEF Decisions
        <5> QED
          BY <3>1, <4>1, <5>1, <5>2 DEF WitnessOK, Vetoed
      <4> QED
        BY <4>1 DEF VetoQuorum
    <3>3. Held(g, e)
      <4>1. AllHold(e)
        BY <2>1, <2>2, <3>1 DEF RecordsOK
      <4> QED
        BY <3>1, <3>2, <4>1 DEF AllHold
    <3>4. CASE m.prepared # e
      <4>1. m.capsule # None /\ guardian_epoch(m.capsule) >= guardian_epoch(e)
        BY <3>3, <3>4 DEF Held
      <4>2. ASSUME NEW q \in Rotation, g = Added(q), plan[q] # None,
                   m.capsule = plan[q].predecessor
            PROVE  FALSE
        BY <2>3, <2>6, <4>1, <4>2
      <4>3. m.capsule # Genesis
        BY <2>3, <2>7, <3>1, <4>1
      <4>4. ASSUME m.capsule \in Rotation, plan[m.capsule] # None, FinalQuorum(m.capsule),
                   m.active = IF g \in plan[m.capsule].new_roster THEN m.capsule ELSE None
            PROVE  m.active = e
        <5>1. guardian_epoch(m.capsule) \in Nat
          BY <2>6, <4>4
        <5>2. m.capsule = e
          BY <2>3, <2>5, <4>1, <4>4, <5>1
        <5> QED
          BY <3>1, <4>4, <5>2
      <4> QED
        BY <2>4, <4>1, <4>2, <4>3, <4>4 DEF GuardianOK
    <3> QED
      BY <3>4
  <2> QED
    BY <2>8, <2>9, SetFacts
<1> QED
  BY <1>1, Invariant, PTL

-----------------------------------------------------------------------------
(* The rotation machine.  No process runs it; its states are read off the stage of  *)
(* the coordinator, the witnesses and the results.                                  *)

Serving(r) == {w \in Witness : witness[w].capsule = r}
Vetoing(r) == {w \in Witness : witness[w].cancellations[r] # 0}

\* A run builds on a completed one, a rotation that is activated at guardians is served
\* by a quorum, and a record that was acknowledged stays prepared.
ProgressOK ==
  /\ owner_file \in Rotation => owner_file \in completed
  /\ \A q \in Rotation : plan[q] # None /\ plan[q].predecessor \in Rotation =>
       plan[q].predecessor \in completed
  /\ \A q \in Rotation : plan[q] = None => Vetoing(q) = {}
  /\ proc["rotate"].pc \in Stages => run \notin completed
  /\ proc["rotate"].pc = "WitnessFinalize" => proc["rotate"].got \subseteq Serving(run)
  /\ proc["rotate"].pc \in Activating => Serving(run) \in ReadQuorums
  /\ proc["rotate"].pc = "PrepareCommit" =>
       VetoQuorum(run) \/ \A g \in proc["rotate"].got : guardian[g].prepared = run

\* The stages in which a rotation is in one state of the machine.
Proposing == Early \cup {"BeginVotes", "Begin"}
Delaying == {"BeginRemoved", "Control", "Sleep", "ReleaseVotes"}
Readying == {"HandoffComplete", "ActivateVotes"}
Finalizing == {"WitnessActivate", "WitnessFinalize"}

SamePhase(a, b) ==
  \E S \in {Proposing, Delaying, Preparing \ Readying, Readying, Finalizing, Activating} :
    a \in S /\ b \in S

\* The steps from stage to stage that change the machine's state.
NextPhase(a, b) ==
  \/ a = "Begin" /\ b = "BeginRemoved"
  \/ a = "ReleaseVotes" /\ b = "RepairRound1"
  \/ a = "PrepareCommit" /\ b = "HandoffComplete"
  \/ a = "ActivateVotes" /\ b = "WitnessActivate"
  \/ a = "WitnessFinalize" /\ b = "Activate"

\* The coordinator goes on in its program.
PhaseMove ==
  LET p == proc["rotate"]
      n == proc'["rotate"]
  IN /\ p.pc \in Stages /\ n.r = p.r
     /\ \/ n.pc \in Ended
        \/ SamePhase(p.pc, n.pc)
        \/ NextPhase(p.pc, n.pc)

KeepsResults == plan' = plan /\ completed' = completed /\ owner_file' = owner_file

LEMMA GoesOn ==
  ASSUME NEW from \in Stages, NEW to, SamePhase(from, from),
         to \in Ended \/ SamePhase(from, to) \/ NextPhase(from, to)
  PROVE  /\ Moves("rotate") /\ Goes("rotate", from, to) => PhaseMove
         /\ SignerStep("rotate", from, to) => PhaseMove /\ KeepsResults
         /\ SessionStep("rotate", from, to) => PhaseMove /\ KeepsResults
         /\ LocalStep("rotate", from, to) => PhaseMove /\ KeepsResults
         /\ \A g, st, res : GuardianCalled("rotate", from, st, g, res) /\ st.next = to =>
              PhaseMove /\ KeepsResults
         /\ \A w, st, res : WitnessCalled("rotate", from, st, w, res) /\ st.next = to =>
              PhaseMove /\ KeepsResults
<1>1. ASSUME Moves("rotate"), Goes("rotate", from, to) PROVE PhaseMove
  BY <1>1 DEF Moves, Goes, PhaseMove
<1>2. SignerStep("rotate", from, to) => PhaseMove /\ KeepsResults
  BY <1>1 DEF SignerStep, KeepsResults, rest, results, files
<1>3. SessionStep("rotate", from, to) => PhaseMove /\ KeepsResults
  BY <1>1 DEF SessionStep, KeepsResults, rest, results, files
<1>4. LocalStep("rotate", from, to) => PhaseMove /\ KeepsResults
  BY <1>1 DEF LocalStep, KeepsResults, results
<1>5. ASSUME NEW g, NEW st, NEW res, GuardianCalled("rotate", from, st, g, res), st.next = to
      PROVE  PhaseMove /\ KeepsResults
  BY <1>1, <1>5 DEF GuardianCalled, KeepsResults, rest, results, files
<1>6. ASSUME NEW w, NEW st, NEW res, WitnessCalled("rotate", from, st, w, res), st.next = to
      PROVE  PhaseMove /\ KeepsResults
  BY <1>1, <1>6 DEF WitnessCalled, KeepsResults, rest, results, files
<1> QED
  BY <1>1, <1>2, <1>3, <1>4, <1>5, <1>6

\* The stages follow each other as the machine's states do.
LEMMA RotateGoesOn ==
  ASSUME Base, RotateStep
  PROVE  (PhaseMove /\ KeepsResults) \/ WriteOwnerFile
<1> DEFINE Chain(a, b) == /\ a \in Stages /\ SamePhase(a, a)
                          /\ b \in Ended \/ SamePhase(a, b) \/ NextPhase(a, b)
<1>1. /\ Chain("Intent", "NodeInfo") /\ Chain("NodeInfo", "Alias") /\ Chain("Alias", "Candidate")
      /\ Chain("Candidate", "BeginVotes") /\ Chain("BeginVotes", "Begin")
      /\ Chain("Begin", "BeginRemoved") /\ Chain("BeginRemoved", "Control")
      /\ Chain("Control", "Sleep") /\ Chain("Sleep", "ReleaseVotes")
      /\ Chain("ReleaseVotes", "RepairRound1") /\ Chain("ReleaseVotes", "Failed")
  BY DEF SamePhase, NextPhase, Stages, Ended, Proposing, Early, Delaying
<1>2. /\ Chain("RepairRound1", "RepairRound2") /\ Chain("RepairRound2", "RepairFinalize")
      /\ Chain("RepairFinalize", "RefreshRound1") /\ Chain("RefreshRound1", "RefreshRound2")
      /\ Chain("RefreshRound2", "RefreshFinalize") /\ Chain("RefreshFinalize", "StageMaterial")
      /\ Chain("StageMaterial", "PrepareCommit") /\ Chain("PrepareCommit", "HandoffComplete")
  BY DEF SamePhase, NextPhase, Stages, Preparing, Readying
<1>3. /\ Chain("HandoffComplete", "ActivateVotes") /\ Chain("ActivateVotes", "WitnessActivate")
      /\ Chain("WitnessActivate", "WitnessFinalize") /\ Chain("WitnessFinalize", "Activate")
      /\ Chain("Activate", "ActivateRemoved") /\ Chain("ActivateRemoved", "OwnerFile")
  BY DEF SamePhase, NextPhase, Stages, Readying, Finalizing, Activating
<1>4. CASE \/ CollectIntents \/ collect_signer_begin_votes \/ collect_signer_release_votes
           \/ collect_signer_activate_votes
  BY <1>1, <1>3, <1>4, SignerSteps, GoesOn
<1>5. CASE \/ ProvisionAliases \/ BeginSuccessors \/ BeginRemoved
           \/ RepairRound1 \/ RepairRound2 \/ RepairFinalize
  BY <1>1, <1>2, <1>5, SessionSteps, GoesOn
<1>6. CASE \/ RefreshRound1 \/ RefreshRound2 \/ RefreshFinalize \/ StageMaterial
           \/ HandoffComplete
  BY <1>2, <1>3, <1>6, SessionSteps, GoesOn
<1>7. CASE NodeInfo \/ WriteControlFile \/ Sleep
  BY <1>1, <1>7, LocalSteps, GoesOn
<1>8. CASE ProvisionCandidate
  BY <1>1, <1>8, RecordSteps, GoesOn DEF All, Stage
<1>9. CASE PrepareCommit
  BY <1>2, <1>9, RecordSteps, GoesOn DEF All, Stage
<1>10. CASE ActivateSuccessors
  BY <1>3, <1>10, RecordSteps, GoesOn DEF All, Stage
<1>11. CASE ActivateRemoved
  BY <1>3, <1>11, RecordSteps, GoesOn DEF Stage
<1>12. CASE WitnessActivate
  BY <1>3, <1>12, RecordSteps, GoesOn DEF Stage
<1>13. CASE WitnessFinalize
  BY <1>3, <1>13, RecordSteps, GoesOn DEF All, Stage
<1> QED
  BY <1>4, <1>5, <1>6, <1>7, <1>8, <1>9, <1>10, <1>11, <1>12, <1>13 DEF RotateStep

\* A step of the system, as far as the coordinator's program and its results go.
LEMMA ProgramSteps ==
  ASSUME Base, [Next]_vars
  PROVE  \/ \E q \in Rotation : StartRotation(q)
         \/ /\ proc["rotate"].pc = "OwnerFile" /\ proc'["rotate"].pc = "Ok"
            /\ proc'["rotate"].r = run
            /\ plan' = plan /\ owner_file' = run /\ completed' = completed \cup {run}
         \/ /\ proc'["rotate"] = proc["rotate"] \/ PhaseMove
            /\ plan' = plan /\ completed' = completed /\ owner_file' \in {owner_file, None}
<1> DEFINE Goal == /\ proc'["rotate"] = proc["rotate"] \/ PhaseMove
                   /\ plan' = plan /\ completed' = completed /\ owner_file' \in {owner_file, None}
<1>1. CASE RotateStep
  <2>1. WriteOwnerFile =>
           /\ proc["rotate"].pc = "OwnerFile" /\ proc'["rotate"].pc = "Ok"
           /\ proc'["rotate"].r = run
           /\ plan' = plan /\ owner_file' = run /\ completed' = completed \cup {run}
    BY LocalSteps DEF Goes, Moves, run
  <2> QED
    BY <1>1, <2>1, RotateGoesOn DEF KeepsResults
<1>2. Moves("cancel") => proc'["rotate"] = proc["rotate"]
  BY DEF Moves, Process
<1>3. CASE CancelStep
  <2>1. CASE CancelAtOldGuardians \/ CancelAtCandidates \/ AbortAtGuardians
    BY <1>2, <2>1, CancelSteps DEF GuardianCalled, rest, results, files
  <2>2. CASE VetoAtWitnesses
    BY <1>2, <2>2, CancelSteps DEF WitnessCalled, rest, results, files
  <2>3. CASE collect_signer_abort_votes \/ FinalizeAtSigners
    BY <1>2, <2>3, CancelAtSigners DEF rest, results, files
  <2> QED
    BY <1>3, <2>1, <2>2, <2>3 DEF CancelStep
<1>4. CASE StartCancel
  BY <1>4, CancelStarts DEF files, results
<1>5. ASSUME NEW c \in Process, Crash(c) PROVE Goal
  <2>1. /\ Moves(c) /\ proc[c].pc \in Stages /\ proc'[c].pc = "Crashed"
        /\ plan' = plan /\ completed' = completed /\ owner_file' \in {owner_file, None}
    BY <1>5, CrashStep DEF results
  <2>2. c = "rotate" => PhaseMove
    BY <2>1 DEF Moves, PhaseMove, Ended
  <2> QED
    BY <1>2, <2>1, <2>2 DEF Process
<1>6. CASE UNCHANGED vars
  BY <1>6 DEF vars, files, results
<1> QED
  BY <1>1, <1>3, <1>4, <1>5, <1>6 DEF Next, rotate_v3, cancel_rotation_v3

\* A witness leaves a rotation only for one that builds on it.
LEMMA ServingGrows ==
  ASSUME Base, Decisions, ProgressOK, [Next]_vars, NEW r \in Rotation, r \notin completed
  PROVE  Serving(r) \subseteq Serving(r)'
<1> SUFFICES ASSUME NEW w \in Witness, witness[w].capsule = r, witness'[w].capsule # r
             PROVE  FALSE
  BY DEF Serving
<1>1. WitnessMove(w) /\ WitnessOK(w)
  BY WitnessSteps DEF Decisions
<1>2. PICK q \in Rotation : plan[q] # None /\ witness[w].pending = q
  BY <1>1 DEF WitnessMove
<1>3. plan[q].predecessor = r
  BY <1>1, <1>2, SetFacts DEF WitnessOK
<1> QED
  BY <1>2, <1>3 DEF ProgressOK

\* A prepared record stays so until its activation or a veto quorum.
LEMMA PreparedKeeps ==
  ASSUME Base, Decisions, [Next]_vars, NEW g \in Guardian, NEW r \in Rotation, plan[r] # None,
         guardian[g].prepared = r, proc["rotate"].pc \notin Activating
  PROVE  guardian'[g].prepared = r \/ VetoQuorum(r)'
<1>1. GuardianMove(g) /\ r # None
  BY GuardianSteps, SetFacts
<1>2. \/ guardian'[g].prepared = r
      \/ proc["cancel"].pc \in CancelStages \ {"Veto"} /\ r = target
  BY <1>1 DEF GuardianMove
<1>3. ASSUME proc["cancel"].pc \in CancelStages \ {"Veto"}, r = target
      PROVE  VetoQuorum(r)'
  <2>1. VetoQuorum(r)
    BY <1>3 DEF Decisions, DecisionOK
  <2> QED
    BY <2>1, QuorumKeeps
<1> QED
  BY <1>2, <1>3

\* The end of PrepareCommit: every record of the new roster is prepared.
LEMMA PreparedByAll ==
  ASSUME Base, Decisions, ProgressOK, [Next]_vars, PrepareCommit
  PROVE  /\ proc'["rotate"].r = run /\ proc["rotate"].pc = "PrepareCommit"
         /\ proc'["rotate"].pc = "PrepareCommit" =>
              VetoQuorum(run)' \/ \A g \in proc'["rotate"].got : guardian'[g].prepared = run
         /\ proc'["rotate"].pc = "HandoffComplete" =>
              VetoQuorum(run)' \/ \A g \in plan[run].new_roster : guardian'[g].prepared = run
<1> DEFINE p == proc["rotate"]
           n == proc'["rotate"]
           st == All(new_roster, relay_count, "HandoffComplete")
<1>1. PICK x \in Guardian : GuardianCalled("rotate", "PrepareCommit", st, x, PreparedAt(x, run))
  BY RecordSteps
<1>2. /\ st.targets = plan[run].new_roster /\ st.next = "HandoffComplete"
      /\ st.otherwise = "Failed" /\ st.need = Cardinality(plan[run].new_roster)
  BY DEF All, Stage, new_roster
<1> HIDE DEF st
<1>3. p.pc = "PrepareCommit" /\ n.r = p.r /\ run' = run
  BY <1>1 DEF GuardianCalled, Moves, Goes, run
<1>4. PICK r \in Rotation : r = run /\ plan[r] # None /\ plan[r].new_roster \subseteq Guardian
  BY <1>3, MoveFacts
<1> DEFINE upd == PreparedAt(x, run).ok
                    /\ guardian' = [guardian EXCEPT ![x] = PreparedAt(x, run).entry]
<1>5. upd => guardian'[x].prepared = r
  <2>1. PreparedAt(x, run).ok => PreparedAt(x, run).entry.prepared = run
    BY <1>4, PreparedFacts
  <2>2. upd => guardian'[x] = PreparedAt(x, run).entry
    BY DEF Base, TypeOK
  <2> QED
    BY <1>4, <2>1, <2>2
<1>6. PICK G \in SUBSET plan[r].new_roster :
        Outcome(p, n, G, st) /\ \A y \in G : y \in p.got \/ (upd /\ y = x)
  BY <1>1, <1>2, <1>4 DEF GuardianCalled, CallDone
<1> HIDE DEF upd
<1>7. VetoQuorum(r)' \/ \A g \in G : guardian'[g].prepared = r
  <2>1. VetoQuorum(r) \/ \A g \in p.got : guardian[g].prepared = r
    BY <1>3, <1>4 DEF ProgressOK
  <2>2. VetoQuorum(r) => VetoQuorum(r)'
    BY <1>4, QuorumKeeps
  <2>3. p.pc \notin Activating
    BY <1>3 DEF Activating
  <2>4. \A g \in G : guardian[g].prepared = r => guardian'[g].prepared = r \/ VetoQuorum(r)'
    BY <1>4, <2>3, PreparedKeeps
  <2> QED
    BY <1>5, <1>6, <2>1, <2>2, <2>4
<1>8. /\ n.pc = "PrepareCommit" => n.got = G
      /\ n.pc = "HandoffComplete" => Cardinality(G) >= Cardinality(plan[r].new_roster)
  BY <1>2, <1>3, <1>4, <1>6 DEF Outcome
<1>9. n.pc = "HandoffComplete" => G = plan[r].new_roster
  <2>1. IsFiniteSet(plan[r].new_roster)
    BY <1>4, SetFacts, FS_Subset
  <2> QED
    BY <1>8, <2>1, EnoughIsAll
<1> QED
  BY <1>3, <1>4, <1>7, <1>8, <1>9, SameRecords DEF run

\* The finalize calls: everybody whose answer counts serves the rotation.
LEMMA ServedByAll ==
  ASSUME Base, Decisions, ProgressOK, [Next]_vars, WitnessFinalize
  PROVE  /\ proc'["rotate"].pc = "WitnessFinalize" => proc'["rotate"].got \subseteq Serving(run)'
         /\ proc'["rotate"].pc \in Activating => Serving(run)' \in ReadQuorums
<1> DEFINE p == proc["rotate"]
           n == proc'["rotate"]
           st == All(p.acked, 1, "Activate")
<1>1. PICK w \in Witness : WitnessCalled("rotate", "WitnessFinalize", st, w, FinalizedAt(w, run))
  BY RecordSteps
<1>2. /\ Moves("rotate") /\ p.pc = "WitnessFinalize" /\ n.r = p.r /\ p.pc \in Stages
  BY <1>1 DEF WitnessCalled, Moves, Goes, Stages
<1>3. PICK r \in Rotation : r = run /\ run' = r /\ r \notin completed
  BY <1>2, RunFacts DEF run, Process, ProgressOK
<1>4. st.targets = p.acked /\ st.next = "Activate" /\ st.otherwise = "Failed"
      /\ st.need = Cardinality(p.acked)
  BY DEF All, Stage
<1> HIDE DEF st
<1> DEFINE upd == FinalizedAt(w, run).ok
                    /\ witness' = [witness EXCEPT ![w] = FinalizedAt(w, run).entry]
<1>5. upd => w \in Serving(r)'
  <2>1. FinalizedAt(w, run).ok => FinalizedAt(w, run).entry.capsule = run
    BY <1>3, FinalizedFacts
  <2>2. upd => witness'[w] = FinalizedAt(w, run).entry
    BY DEF Base, TypeOK
  <2> QED
    BY <1>3, <2>1, <2>2 DEF Serving
<1>6. PICK G \in SUBSET p.acked :
        Outcome(p, n, G, st) /\ \A y \in G : y \in p.got \/ (upd /\ y = w)
  BY <1>1, <1>4 DEF WitnessCalled, CallDone
<1> HIDE DEF upd
<1>7. G \subseteq Serving(r)'
  <2>1. p.got \subseteq Serving(r)
    BY <1>2, <1>3 DEF ProgressOK
  <2> QED
    BY <1>3, <1>5, <1>6, <2>1, ServingGrows
<1>8. /\ n.pc = "WitnessFinalize" => n.got = G
      /\ n.pc \in Activating => Cardinality(G) >= Cardinality(p.acked)
  BY <1>2, <1>4, <1>6 DEF Outcome, Activating
<1>9. n.pc \in Activating => Serving(r)' \in ReadQuorums
  <2>1. p.acked \in ReadQuorums
    BY <1>2, RunFacts DEF StageOK, Process
  <2>2. IsFiniteSet(p.acked)
    BY <2>1, SetFacts, FS_Subset DEF ReadQuorums
  <2>3. n.pc \in Activating => G = p.acked
    BY <1>8, <2>2, EnoughIsAll
  <2>4. Serving(r)' \in SUBSET Witness
    BY DEF Serving
  <2> QED
    BY <1>7, <2>1, <2>3, <2>4, QuorumsGrow
<1>10. Serving(run)' = Serving(r)'
  BY <1>3 DEF Serving
<1> QED
  BY <1>7, <1>8, <1>9, <1>10

\* What a run builds on, and what it has made sure of, stays so.
LEMMA ProgressStays ==
  ASSUME Base, Decisions, ProgressOK, [Next]_vars
  PROVE  ProgressOK'
<1> DEFINE p == proc["rotate"]
           n == proc'["rotate"]
<1>1. ASSUME NEW q \in Rotation, StartRotation(q)
      PROVE  /\ plan[q] = None /\ q \notin completed /\ plan'[q].predecessor = owner_file
             /\ \A x \in Rotation : x # q => plan'[x] = plan[x]
             /\ n.pc = "Intent" /\ run' = q
             /\ owner_file' = owner_file /\ completed' = completed
  <2>1. \A x \in completed : Planned(x)
    BY DEF Decisions, DecisionOK
  <2> QED
    BY <1>1, <2>1, RotationStarts, SetFacts DEF run, files, results, Planned
<1>2. "Intent" \notin Activating /\ "Ok" \notin Stages /\ Activating \subseteq Stages
      /\ "WitnessFinalize" \in Stages /\ "WitnessFinalize" \notin Activating
      /\ "PrepareCommit" \in Stages /\ "PrepareCommit" \notin Activating
      /\ Ended \cap Stages = {}
  BY DEF Activating, Stages, Ended
<1>3. owner_file' \in Rotation => owner_file' \in completed'
  BY <1>1, ProgramSteps, SetFacts DEF ProgressOK
<1>4. ASSUME NEW q \in Rotation, plan'[q] # None, plan'[q].predecessor \in Rotation
      PROVE  plan'[q].predecessor \in completed'
  BY <1>1, <1>4, ProgramSteps DEF ProgressOK
<1>5. ASSUME NEW q \in Rotation, plan'[q] = None PROVE Vetoing(q)' = {}
  <2>1. plan[q] = None
    BY <1>5, WitnessSteps, PlanStays DEF Decisions
  <2>2. ASSUME NEW w \in Witness PROVE witness'[w].cancellations[q] = 0
    <3>1. witness[w].cancellations[q] = 0
      BY <2>1 DEF ProgressOK, Vetoing
    <3>2. WitnessMove(w)
      BY WitnessSteps DEF Decisions
    <3> QED
      BY <2>1, <3>1, <3>2 DEF WitnessMove
  <2> QED
    BY <2>2 DEF Vetoing
<1>6. n.pc \in Stages => run' \notin completed'
  <2>1. ASSUME n = p \/ PhaseMove, completed' = completed, n.pc \in Stages
        PROVE  run' \notin completed'
    BY <2>1 DEF PhaseMove, ProgressOK, run
  <2> QED
    BY <1>1, <1>2, <2>1, ProgramSteps
<1>7. ASSUME p.pc \in Stages, run' = run
      PROVE  /\ Serving(run) \subseteq Serving(run)'
             /\ Serving(run) \in ReadQuorums => Serving(run)' \in ReadQuorums
  <2>1. PICK r \in Rotation : r = run /\ r \notin completed
    BY <1>7, RunFacts DEF run, Process, ProgressOK
  <2>2. Serving(run)' = Serving(r)' /\ Serving(r)' \in SUBSET Witness /\ Serving(run) = Serving(r)
    BY <1>7, <2>1 DEF Serving
  <2>3. Serving(r) \subseteq Serving(r)'
    BY <2>1, ServingGrows
  <2> QED
    BY <2>2, <2>3, QuorumsGrow
<1>8. /\ n.pc = "WitnessFinalize" => n.got \subseteq Serving(run)'
      /\ n.pc \in Activating => Serving(run)' \in ReadQuorums
  <2>1. ASSUME CalmMove(p, n)
        PROVE  /\ n.pc = "WitnessFinalize" => n.got \subseteq Serving(run)'
               /\ n.pc \in Activating => Serving(run)' \in ReadQuorums
    <3>1. run' = run
      BY <2>1 DEF CalmMove, run
    <3>2. n.pc = "WitnessFinalize" =>
            n.got = {} \/ (p.pc = "WitnessFinalize" /\ n.got = p.got)
      BY <2>1 DEF CalmMove
    <3>3. n.pc \in Activating => p.pc \in Activating
      BY <2>1 DEF CalmMove
    <3> QED
      BY <1>2, <1>7, <3>1, <3>2, <3>3 DEF ProgressOK
  <2>2. Calm => CalmMove(p, n)
    BY DEF Calm, Process
  <2>3. n = p => CalmMove(p, n)
    BY DEF CalmMove
  <2>4. VetoAtWitnesses => n = p
    BY CancelSteps DEF WitnessCalled, Moves, Process
  <2>5. StartCancel => n = p
    BY CancelStarts
  <2>6. WitnessActivate => CalmMove(p, n)
    <3>1. WitnessActivate =>
            Moves("rotate") /\ Goes("rotate", "WitnessActivate", "WitnessFinalize")
      BY RecordSteps DEF WitnessCalled, Stage
    <3> QED
      BY <3>1, GoesCalm DEF Process, Activating, CancelStages
  <2>7. (\E q \in Rotation : StartRotation(q)) => n.pc = "Intent"
    BY <1>1
  <2>8. (\E q \in Rotation : StartRotation(q)) =>
          n.pc # "WitnessFinalize" /\ n.pc \notin Activating
    BY <1>2, <2>7
  <2> HIDE DEF p, n
  <2> QED
    BY <2>1, <2>2, <2>3, <2>4, <2>5, <2>6, <2>8, DecisionSteps, ServedByAll DEF n
<1>9. n.pc = "PrepareCommit" => VetoQuorum(run)' \/ \A g \in n.got : guardian'[g].prepared = run'
  <2>1. ASSUME RecordMove, n.pc = "PrepareCommit"
        PROVE  VetoQuorum(run)' \/ \A g \in n.got : guardian'[g].prepared = run'
    <3>1. run' = run /\ (n.got = {} \/ (p.pc = "PrepareCommit" /\ n.got = p.got))
      BY <2>1 DEF RecordMove, run
    <3>2. CASE p.pc = "PrepareCommit" /\ n.got = p.got
      <4>1. PICK r \in Rotation : r = run /\ plan[r] # None
        BY <3>2, MoveFacts
      <4>2. p.got \subseteq Guardian
        <5>1. Ongoing(p, TargetsOf(p)) /\ StageOK(p) /\ p.pc \in Stages \ LocalStages
          BY <3>2 DEF Base, ProcsOK, ProcOK, Stages, LocalStages
        <5>2. p.pc \notin SignerStages \cup {"WitnessActivate", "WitnessFinalize", "Veto"}
          BY <3>2 DEF SignerStages
        <5>3. TargetsOf(p) \subseteq Guardian
          BY <5>1, <5>2, TargetFacts DEF Base
        <5> QED
          BY <5>1, <5>3 DEF Ongoing
      <4>3. VetoQuorum(r) \/ \A g \in p.got : guardian[g].prepared = r
        BY <3>2, <4>1 DEF ProgressOK
      <4>4. VetoQuorum(r)' \/ \A g \in p.got : guardian'[g].prepared = r
        BY <1>2, <3>2, <4>1, <4>2, <4>3, QuorumKeeps, PreparedKeeps
      <4> QED
        BY <3>1, <3>2, <4>1, <4>4, SameRecords
    <3> QED
      BY <3>1, <3>2
  <2>2. ASSUME PrepareCommit, n.pc = "PrepareCommit"
        PROVE  VetoQuorum(run)' \/ \A g \in n.got : guardian'[g].prepared = run'
    BY <2>2, PreparedByAll DEF run
  <2> QED
    BY <1>1, <2>1, <2>2, GuardianSteps
<1>10. ReadQuorums' = ReadQuorums /\ Stages' = Stages
  BY DEF ReadQuorums
<1> HIDE DEF p, n
<1> QED
  BY <1>3, <1>4, <1>5, <1>6, <1>8, <1>9, <1>10 DEF ProgressOK, n

\* The whole invariant.
LEMMA ProgressInvariant == Spec => [](IInv /\ ProgressOK)
<1>1. Init => ProgressOK
  <2> SUFFICES ASSUME Init PROVE ProgressOK
    OBVIOUS
  <2>1. /\ proc["rotate"].pc = "Idle" /\ owner_file = Genesis
        /\ \A q \in Rotation : plan[q] = None
        /\ \A w \in Witness : \A q \in Rotation : witness[w].cancellations[q] = 0
    BY DEF Init, Process, IdleProc
  <2> QED
    BY <2>1, SetFacts DEF ProgressOK, Activating, Stages, Vetoing
<1>2. IInv /\ ProgressOK /\ [Next]_vars => ProgressOK'
  BY ProgressStays DEF IInv
<1> QED
  BY <1>1, <1>2, Invariant, PTL DEF Spec

-----------------------------------------------------------------------------
(* The refinement: every step of the system is, for every rotation, a step of gp-core's *)
(* RotationMachine or none.                                                             *)

\* A rotation is active for good, or it has ended without.
Decided(r) == r \in completed \/ Serving(r) \in ReadQuorums
Stopped(r) == run # r \/ proc["rotate"].pc \in Ended \/ VetoQuorum(r)

\* The state that a stage of the coordinator stands for.
Phase(pc) == IF pc \in Proposing THEN "Proposed"
             ELSE IF pc \in Delaying THEN "DelayPending"
             ELSE IF pc \in Readying THEN "Ready"
             ELSE IF pc \in Finalizing THEN "Activating"
             ELSE "Preparing"

LEMMA QuorumOfVetoes ==
  ASSUME NEW r
  PROVE  Cardinality(Vetoing(r)) >= required_witnesses <=> VetoQuorum(r)
<1>1. Vetoing(r) \in SUBSET Witness
  BY DEF Vetoing
<1>2. ASSUME VetoQuorum(r) PROVE Cardinality(Vetoing(r)) >= required_witnesses
  <2>1. PICK Q \in ReadQuorums : \A w \in Q : Vetoed(w, r)
    BY <1>2 DEF VetoQuorum
  <2>2. Q \subseteq Vetoing(r)
    BY <2>1 DEF Vetoing, Vetoed, ReadQuorums
  <2> QED
    BY <1>1, <2>2, QuorumsGrow
<1>3. ASSUME Cardinality(Vetoing(r)) >= required_witnesses PROVE VetoQuorum(r)
  <2>1. Vetoing(r) \in ReadQuorums
    BY <1>1, <1>3 DEF ReadQuorums
  <2>2. \A w \in Vetoing(r) : Vetoed(w, r)
    BY DEF Vetoing, Vetoed
  <2> QED
    BY <2>1, <2>2 DEF VetoQuorum
<1> QED
  BY <1>2, <1>3

\* The state of the machine, by the ideas above.
LEMMA StateIs ==
  ASSUME NEW r
  PROVE  MachineState(r) = IF plan[r] = None THEN "Proposed"
                           ELSE IF Decided(r) THEN "Active"
                           ELSE IF Stopped(r) THEN "Aborted"
                           ELSE Phase(proc["rotate"].pc)
<1>1. /\ {w \in Witness : witness[w].capsule = r} = Serving(r)
      /\ {w \in Witness : witness[w].cancellations[r] # 0} = Vetoing(r)
  BY DEF Serving, Vetoing
<1>2. Cardinality(Serving(r)) >= required_witnesses <=> Serving(r) \in ReadQuorums
  BY DEF ReadQuorums, Serving
<1>3. Cardinality(Vetoing(r)) >= required_witnesses <=> VetoQuorum(r)
  BY QuorumOfVetoes
<1> HIDE DEF Serving, Vetoing
<1>4. Proposing = {"Intent", "NodeInfo", "Alias", "Candidate", "BeginVotes", "Begin"}
  BY DEF Proposing, Early
<1> QED
  BY <1>1, <1>2, <1>3, <1>4 DEF MachineState, Decided, Stopped, Phase, Delaying, Readying, Finalizing

StateRead ==
  \A r \in Rotation :
    MachineState(r) = IF plan[r] = None THEN "Proposed"
                      ELSE IF Decided(r) THEN "Active"
                      ELSE IF Stopped(r) THEN "Aborted"
                      ELSE Phase(proc["rotate"].pc)

LEMMA StateIsRead == StateRead /\ StateRead'
<1>1. StateRead
  BY StateIs DEF StateRead
<1> QED
  BY <1>1, PTL

\* What is active stays so.
LEMMA DecidedStays ==
  ASSUME Base, Decisions, ProgressOK, [Next]_vars, NEW r \in Rotation, Decided(r)
  PROVE  Decided(r)'
<1>1. completed \subseteq completed'
  <2>1. \A q \in Rotation : StartRotation(q) => completed' = completed
    BY RotationStarts DEF results
  <2> QED
    BY <2>1, ProgramSteps
<1>2. ASSUME r \notin completed PROVE Serving(r)' \in ReadQuorums
  <2>1. Serving(r) \in ReadQuorums /\ Serving(r)' \in SUBSET Witness
    BY <1>2 DEF Decided, Serving
  <2> QED
    BY <1>2, <2>1, ServingGrows, QuorumsGrow
<1>3. ReadQuorums' = ReadQuorums
  BY DEF ReadQuorums
<1> QED
  BY <1>1, <1>2, <1>3 DEF Decided

\* A rotation becomes active by a finalize call of its own run, and not against a veto
\* quorum.
LEMMA DecidedBy ==
  ASSUME IInv, ProgressOK, [Next]_vars, IInv', NEW r \in Rotation, ~Decided(r), Decided(r)'
  PROVE  /\ run = r /\ proc["rotate"].pc = "WitnessFinalize" /\ ~VetoQuorum(r)
<1>1. ReadQuorums' = ReadQuorums
  BY DEF ReadQuorums
<1>2. r \notin completed'
  <2>1. \A q \in Rotation : StartRotation(q) => completed' = completed
    BY RotationStarts DEF results, IInv
  <2>2. proc["rotate"].pc = "OwnerFile" => Serving(run) \in ReadQuorums
    BY DEF ProgressOK, Activating
  <2> QED
    BY <2>1, <2>2, ProgramSteps DEF Decided, IInv
<1>3. Serving(r)' \in ReadQuorums /\ Serving(r) \notin ReadQuorums
  BY <1>1, <1>2 DEF Decided
<1>4. PICK w \in Witness : witness'[w].capsule = r /\ witness[w].capsule # r
  <2>1. Serving(r) \in SUBSET Witness /\ Serving(r)' \in SUBSET Witness
    BY DEF Serving
  <2>2. ~(Serving(r)' \subseteq Serving(r))
    BY <1>3, <2>1, QuorumsGrow
  <2> QED
    BY <2>2 DEF Serving
<1>5. run = r /\ proc["rotate"].pc = "WitnessFinalize" /\ plan[r] # None
  <2>1. WitnessMove(w)
    BY WitnessSteps DEF IInv, Decisions
  <2> QED
    BY <1>4, <2>1 DEF WitnessMove
<1>6. ASSUME VetoQuorum(r) PROVE FALSE
  <2>1. VetoQuorum(r)'
    BY <1>5, <1>6, QuorumKeeps DEF IInv
  <2>2. PICK Q \in ReadQuorums : \A x \in Q : witness'[x].cancellations[r] # 0
    BY <1>1, <2>1 DEF VetoQuorum, Vetoed
  <2>3. PICK x \in Serving(r)' \cap Q : x \in Witness
    BY <1>3, QuorumsMeet
  <2>4. WitnessOK(x)'
    BY <2>3 DEF IInv, Decisions
  <2> QED
    BY <2>2, <2>3, <2>4, SetFacts DEF WitnessOK, Serving
<1> QED
  BY <1>5, <1>6

\* A run that has ended, or that is vetoed, does not come back.
LEMMA StoppedStays ==
  ASSUME Base, Decisions, [Next]_vars, NEW r \in Rotation, plan[r] # None, Stopped(r)
  PROVE  Stopped(r)'
<1>1. VetoQuorum(r) => VetoQuorum(r)'
  BY QuorumKeeps
<1>2. ASSUME NEW q \in Rotation, StartRotation(q) PROVE run' # r
  BY <1>2, RotationStarts DEF run
<1>3. Stages \cap Ended = {} /\ "Ok" \in Ended
  BY DEF Stages, Ended
<1>4. Ended' = Ended
  BY DEF Ended
<1>5. (proc'["rotate"].pc = "Ok" \/ proc'["rotate"] = proc["rotate"] \/ PhaseMove)
        /\ (run # r \/ proc["rotate"].pc \in Ended) /\ proc'["rotate"].r = proc["rotate"].r =>
          run' # r \/ proc'["rotate"].pc \in Ended
  BY <1>3 DEF PhaseMove, run
<1>6. PhaseMove \/ proc'["rotate"] = proc["rotate"] => proc'["rotate"].r = proc["rotate"].r
  BY DEF PhaseMove
<1> QED
  BY <1>1, <1>2, <1>4, <1>5, <1>6, ProgramSteps DEF Stopped, run

\* The step of the machine that a step of a run stands for, by the stages.
LEMMA RunningSteps ==
  ASSUME IInv, ProgressOK, [Next]_vars, IInv', ProgressOK', NEW r \in Rotation, plan[r] # None,
         ~Decided(r), ~Decided(r)', ~Stopped(r), ~Stopped(r)'
  PROVE  LET a == Phase(proc["rotate"].pc)
             b == Phase(proc'["rotate"].pc)
         IN \/ a = b
            \/ a = "Proposed" /\ b = "DelayPending"
            \/ a = "DelayPending" /\ b = "Preparing" /\ proc["rotate"].pc = "ReleaseVotes"
            \/ /\ a = "Preparing" /\ b = "Ready"
               /\ plan'[r] = plan[r] /\ plan[r].new_roster # {}
               /\ {g \in Guardian : guardian'[g].prepared = r} = plan[r].new_roster
            \/ a = "Ready" /\ b = "Activating"
<1> DEFINE p == proc["rotate"]
           n == proc'["rotate"]
<1>1. run = r /\ p.pc \notin Ended /\ ~VetoQuorum(r) /\ run' = r /\ n.pc \notin Ended /\ ~VetoQuorum(r)'
  <2>1. Ended' = Ended
    BY DEF Ended
  <2> QED
    BY <2>1 DEF Stopped
<1>2. p.pc \notin Activating /\ n.pc \notin Activating
  <2>1. p.pc \notin Activating
    BY <1>1 DEF ProgressOK, Decided
  <2>2. n.pc \in Activating => Serving(r)' \in ReadQuorums
    <3>1. n.pc \in Activating => (Serving(run) \in ReadQuorums)'
      BY DEF ProgressOK, Activating
    <3>2. Serving(run)' = Serving(r)' /\ ReadQuorums' = ReadQuorums
      BY <1>1 DEF Serving, ReadQuorums
    <3> QED
      BY <3>1, <3>2
  <2>3. ReadQuorums' = ReadQuorums
    BY DEF ReadQuorums
  <2> QED
    BY <2>1, <2>2, <2>3 DEF Decided
<1>3. ASSUME NEW q \in Rotation PROVE ~StartRotation(q)
  BY <1>1, RotationStarts DEF IInv
<1>4. n = p \/ SamePhase(p.pc, n.pc) \/ NextPhase(p.pc, n.pc)
  <2>1. p.pc # "OwnerFile"
    BY <1>2 DEF Activating
  <2> QED
    BY <1>1, <1>3, <2>1, ProgramSteps DEF IInv, PhaseMove
<1>5. SamePhase(p.pc, n.pc) => Phase(p.pc) = Phase(n.pc)
  BY <1>2 DEF SamePhase, Phase, Proposing, Early, Delaying, Preparing, Readying, Finalizing
<1>6. ASSUME p.pc = "PrepareCommit", n.pc = "HandoffComplete"
      PROVE  /\ plan'[r] = plan[r] /\ plan[r].new_roster # {}
             /\ {g \in Guardian : guardian'[g].prepared = r} = plan[r].new_roster
  <2>1. PrepareCommit
    <3>1. ~RecordMove
      BY <1>6 DEF RecordMove, Later, Activating
    <3> QED
      BY <1>3, <3>1, GuardianSteps DEF IInv
  <2>2. \A g \in plan[r].new_roster : guardian'[g].prepared = r
    <3>1. VetoQuorum(run)' <=> VetoQuorum(r)'
      BY <1>1, SameRecords
    <3> QED
      BY <1>1, <1>6, <2>1, <3>1, PreparedByAll DEF IInv
  <2>3. plan'[r] = plan[r]
    BY WitnessSteps, PlanStays DEF IInv, Decisions
  <2>4. plan[r].new_roster \subseteq Guardian /\ plan[r].new_roster # {}
    BY PlanFacts DEF IInv, Base
  <2>5. ASSUME NEW g \in Guardian, guardian'[g].prepared = r PROVE g \in plan[r].new_roster
    <3>1. GuardianOK(g)' /\ r # None
      BY SetFacts DEF IInv, Guardians
    <3> QED
      BY <2>3, <2>5, <3>1 DEF GuardianOK
  <2> QED
    BY <2>2, <2>3, <2>4, <2>5
<1>7. /\ Phase("Begin") = "Proposed" /\ Phase("BeginRemoved") = "DelayPending"
      /\ Phase("ReleaseVotes") = "DelayPending" /\ Phase("RepairRound1") = "Preparing"
      /\ Phase("PrepareCommit") = "Preparing" /\ Phase("HandoffComplete") = "Ready"
      /\ Phase("ActivateVotes") = "Ready" /\ Phase("WitnessActivate") = "Activating"
  BY DEF Phase, Proposing, Early, Delaying, Readying, Finalizing
<1>8. n.pc # "Activate"
  BY <1>2 DEF Activating
<1> HIDE DEF p, n
<1> QED
  BY <1>4, <1>5, <1>6, <1>7, <1>8 DEF NextPhase, p, n

\* Every step of the system is a step of every rotation's machine, or none.
LEMMA MachineSteps ==
  ASSUME IInv, ProgressOK, [Next]_vars, IInv', ProgressOK', NEW r \in Rotation
  PROVE  [MachineOf(r)!apply]_(MachineOf(r)!vars)
<1> DEFINE a == MachineState(r)
           b == MachineState(r)'
           done == {g \in Guardian : guardian'[g].prepared = r}
<1>1. /\ a = IF plan[r] = None THEN "Proposed"
             ELSE IF Decided(r) THEN "Active"
             ELSE IF Stopped(r) THEN "Aborted"
             ELSE Phase(proc["rotate"].pc)
      /\ b = IF plan'[r] = None THEN "Proposed"
             ELSE IF Decided(r)' THEN "Active"
             ELSE IF Stopped(r)' THEN "Aborted"
             ELSE Phase(proc'["rotate"].pc)
  <2>1. Phase(proc["rotate"].pc)' = Phase(proc'["rotate"].pc)
    BY DEF Phase, Proposing, Early, Delaying, Readying, Finalizing
  <2> QED
    BY <2>1, StateIsRead DEF StateRead
<1> HIDE DEF a, b, done
<1>2. \/ a = b
      \/ a = "Proposed" /\ b = "DelayPending"
      \/ a = "DelayPending" /\ b = "Preparing" /\ proc["rotate"].pc = "ReleaseVotes"
      \/ /\ a = "Preparing" /\ b = "Ready"
         /\ plan[r] # None /\ plan[r].new_roster # {} /\ done = plan[r].new_roster
      \/ a = "Ready" /\ b = "Activating"
      \/ a = "Activating" /\ b = "Active"
      \/ a \in {"Proposed", "DelayPending", "Preparing", "Ready", "Activating"} /\ b = "Aborted"
  <2>1. CASE plan[r] = None /\ plan'[r] = None
    BY <1>1, <2>1
  <2>2. CASE plan[r] = None /\ plan'[r] # None
    <3>1. PICK q \in Rotation : StartRotation(q)
      BY <2>2, ProgramSteps DEF IInv
    <3>2. /\ q = r /\ run' = r /\ proc'["rotate"].pc = "Intent"
          /\ witness' = witness /\ completed' = completed
      BY <2>2, <3>1, RotationStarts DEF IInv, run, actors, results
    <3>3. r \notin completed
      BY <2>2, SetFacts DEF IInv, Decisions, DecisionOK, Planned
    <3>4. Serving(r)' = {} /\ Vetoing(r)' = {}
      <4>1. Vetoing(r)' = {}
        BY <2>2, <3>2 DEF ProgressOK, Vetoing
      <4>2. \A w \in Witness : witness[w].capsule # r
        BY <2>2, SetFacts DEF IInv, Base, PlansOK, Planned
      <4> QED
        BY <3>2, <4>1, <4>2 DEF Serving
    <3>5. {} \notin ReadQuorums
      BY FS_EmptySet, SetFacts DEF ReadQuorums
    <3>6. ~Decided(r)'
      BY <3>2, <3>3, <3>4, <3>5 DEF Decided, ReadQuorums
    <3>7. ~VetoQuorum(r)'
      <4>1. ASSUME NEW Q \in ReadQuorums PROVE \E w \in Q : w \in Witness
        BY <4>1, <3>5 DEF ReadQuorums
      <4> QED
        BY <3>4, <4>1 DEF VetoQuorum, Vetoed, Vetoing, ReadQuorums
    <3>8. ~Stopped(r)'
      BY <3>2, <3>7 DEF Stopped, Ended
    <3>9. Phase("Intent") = "Proposed"
      BY DEF Phase, Proposing, Early
    <3> QED
      BY <1>1, <2>2, <3>2, <3>6, <3>8, <3>9
  <2>3. CASE plan[r] # None
    <3>1. plan'[r] # None
      BY <2>3, WitnessSteps, PlanStays DEF IInv, Decisions
    <3>2. Decided(r) => Decided(r)'
      BY DecidedStays DEF IInv
    <3>3. ASSUME ~Decided(r), Decided(r)' PROVE a = "Activating" /\ b = "Active"
      <4>1. run = r /\ proc["rotate"].pc = "WitnessFinalize" /\ ~VetoQuorum(r)
        BY <3>3, DecidedBy
      <4>2. ~Stopped(r) /\ Phase("WitnessFinalize") = "Activating"
        BY <4>1 DEF Stopped, Ended, Phase, Proposing, Early, Delaying, Readying, Finalizing
      <4> QED
        BY <1>1, <2>3, <3>1, <3>3, <4>1, <4>2
    <3>4. Stopped(r) => Stopped(r)'
      BY <2>3, StoppedStays DEF IInv
    <3>5. Phase(proc["rotate"].pc) \in
            {"Proposed", "DelayPending", "Preparing", "Ready", "Activating"}
      BY DEF Phase
    <3>6. CASE ~Decided(r) /\ ~Decided(r)' /\ ~Stopped(r) /\ ~Stopped(r)'
      <4>1. a = Phase(proc["rotate"].pc) /\ b = Phase(proc'["rotate"].pc)
        BY <1>1, <2>3, <3>1, <3>6
      <4> QED
        BY <2>3, <3>6, <4>1, RunningSteps DEF done
    <3> QED
      BY <1>1, <2>3, <3>1, <3>2, <3>3, <3>4, <3>5, <3>6
  <2> QED
    BY <2>1, <2>2, <2>3
<1>3. plan[r] # None => plan'[r] = plan[r]
  BY WitnessSteps, PlanStays DEF IInv, Decisions
<1> QED
  BY <1>2, <1>3
     DEF MachineOf!apply, MachineOf!vars, MachineOf!Move, MachineOf!BeginAccepted,
         MachineOf!ReleaseAccepted, MachineOf!PreparationComplete,
         MachineOf!ActivationAuthorized, MachineOf!WitnessQcObserved,
         MachineOf!AbortObserved, a, b, done

\* Every rotation of rotate_v3 goes through the states of gp-core's RotationMachine,
\* which no process runs: the machine is Ready only when every guardian of the new
\* roster holds its record, Active only through a finalize call that completes a
\* witness quorum, and a rotation that was vetoed, that failed or whose coordinator
\* died before that is Aborted and stays so.
THEOREM MachineTheorem == Spec => RotationFollowsMachine
<1>1. Init => \A r \in Rotation : MachineOf(r)!Init
  BY DEF Init, MachineOf!Init, MachineState
<1>2. IInv /\ ProgressOK /\ IInv' /\ ProgressOK' /\ [Next]_vars =>
        \A r \in Rotation : [MachineOf(r)!apply]_(MachineOf(r)!vars)
  BY MachineSteps
<1>3. IInv /\ ProgressOK /\ IInv' /\ ProgressOK' /\ [Next]_vars =>
        [\A r \in Rotation : [MachineOf(r)!apply]_(MachineOf(r)!vars)]_vars
  BY <1>2
<1> QED
  BY <1>1, <1>3, ProgressInvariant, PTL DEF Spec, RotationFollowsMachine

=============================================================================
