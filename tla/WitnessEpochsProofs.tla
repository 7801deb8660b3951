------------------------- MODULE WitnessEpochsProofs -------------------------
(***************************************************************************)
(* Theorems about WitnessEpochs, for any number of witnesses, capsules,      *)
(* cancellation attempts and clients.                                        *)
(***************************************************************************)
EXTENDS WitnessEpochs, FiniteSetTheorems, TLAPS

\* The roster has exactly the size for which 2f+1 is an intersecting quorum.
ExactRoster == Cardinality(Witness) = 3 * witness_fault_bound + 1

-----------------------------------------------------------------------------
(* Quorums *)

\* Two sets of witnesses of the quorum size share an honest witness.
LEMMA QuorumsShareAnHonestWitness ==
  ASSUME ExactRoster,
         NEW A \in SUBSET Witness, NEW B \in SUBSET Witness,
         Cardinality(A) >= required_witness_quorum,
         Cardinality(B) >= required_witness_quorum
  PROVE  \E w \in Honest : w \in A /\ w \in B
<1>1. /\ IsFiniteSet(Witness) /\ IsFiniteSet(A) /\ IsFiniteSet(B) /\ IsFiniteSet(Faulty)
      /\ IsFiniteSet(A \cup B) /\ IsFiniteSet(A \cap B)
  <2>1. IsFiniteSet(Witness) /\ Faulty \subseteq Witness
    BY WitnessAssumption
  <2>2. /\ A \subseteq Witness /\ B \subseteq Witness
        /\ (A \cup B) \subseteq Witness /\ (A \cap B) \subseteq Witness
    OBVIOUS
  <2> QED
    BY <2>1, <2>2, FS_Subset
<1>2. Cardinality(A \cup B) = Cardinality(A) + Cardinality(B) - Cardinality(A \cap B)
  BY <1>1, FS_Union
<1>3. Cardinality(A \cup B) <= Cardinality(Witness)
  BY <1>1, FS_Subset
<1>4. /\ Cardinality(A) \in Nat /\ Cardinality(B) \in Nat
      /\ Cardinality(A \cap B) \in Nat /\ Cardinality(A \cup B) \in Nat
      /\ Cardinality(Faulty) \in Nat
  BY <1>1, FS_CardinalityType
<1>5. Cardinality(A \cap B) > Cardinality(Faulty)
  BY <1>2, <1>3, <1>4, WitnessAssumption DEF ExactRoster, required_witness_quorum
<1>6. ~ (A \cap B \subseteq Faulty)
  BY <1>1, <1>4, <1>5, FS_Subset
<1> QED
  BY <1>6 DEF Honest

\* What two quorums of honest witnesses and the faulty ones vouch for, some
\* honest witness vouches for on both sides.
LEMMA QuorumIntersection ==
  ASSUME ExactRoster,
         NEW A \in SUBSET Honest, NEW B \in SUBSET Honest,
         IsQuorum(A), IsQuorum(B)
  PROVE  \E w \in Honest : w \in A /\ w \in B
<1>1. A \cup Faulty \in SUBSET Witness /\ B \cup Faulty \in SUBSET Witness
  BY WitnessAssumption DEF Honest
<1>2. PICK w \in Honest : w \in A \cup Faulty /\ w \in B \cup Faulty
  BY <1>1, QuorumsShareAnHonestWitness DEF IsQuorum
<1> QED
  BY <1>2 DEF Honest

-----------------------------------------------------------------------------
(* One entry.  EntryOK is what every handler keeps of the entry it works on;   *)
(* Extends(n, e) is how the entry may change: vetoes, finalized capsules and   *)
(* the served epoch are never taken back.                                      *)

EntryOK(e) ==
  /\ e.predecessor_locks[e.capsule] = e.pending_capsule
  /\ e.pending_capsule # None => Epoch[e.pending_capsule] = Epoch[e.capsule] + 1
  /\ \A p \in Capsule : e.predecessor_locks[p] # None =>
        /\ Pred[e.predecessor_locks[p]] = p
        /\ Epoch[p] <= Epoch[e.capsule]
        /\ p # e.capsule => Epoch[e.predecessor_locks[p]] <= Epoch[e.capsule]
  /\ \A c \in Successor : e.rotation_cancellations[c] # None =>
        e.predecessor_locks[Pred[c]] # c

Extends(n, e) ==
  /\ \A c \in Successor : /\ e.rotation_cancellations[c] # None
                             => n.rotation_cancellations[c] = e.rotation_cancellations[c]
                          /\ Finalized(e, c) => Finalized(n, c)
  /\ Epoch[e.capsule] <= Epoch[n.capsule]

\* An entry extends itself, and extending is transitive.
LEMMA ExtendsIsPreorder ==
  /\ \A e \in Entry : Extends(e, e)
  /\ \A e1, e2, e3 \in Entry : Extends(e2, e1) /\ Extends(e3, e2) => Extends(e3, e1)
<1>1. \A e \in Entry : Epoch[e.capsule] \in Nat
  BY CapsuleAssumption DEF Entry, Capsule
<1> QED
  BY <1>1 DEF Extends

\* A freshly provisioned entry is in order.
LEMMA NewEntryOK == NewEntry \in Entry /\ EntryOK(NewEntry)
  BY CapsuleAssumption DEF NewEntry, Entry, EntryOK, Capsule

\* The entry witness_activate stores for a first request.
LEMMA ActivatedEntry ==
  ASSUME NEW e \in Entry, NEW c \in Successor, EntryOK(e),
         e.rotation_cancellations[c] = None, e.pending_capsule = None,
         Pred[c] = e.capsule, CanPersistSuccessor(e, c),
         NEW n, n = Activated(e, c)
  PROVE  /\ n \in Entry /\ EntryOK(n) /\ Extends(n, e)
         /\ n.predecessor_locks[Pred[c]] = c
         /\ \A d \in Successor : e.predecessor_locks[Pred[d]] = d
                                 => n.predecessor_locks[Pred[d]] = d
<1>1. n = [capsule |-> e.capsule, pending_capsule |-> c,
           predecessor_locks |-> [e.predecessor_locks EXCEPT ![e.capsule] = c],
           highest_capsule_hash |-> IF e.predecessor_locks[e.capsule] = c
                                    THEN e.highest_capsule_hash ELSE c,
           rotation_cancellations |-> e.rotation_cancellations,
           seen_read_nonces |-> e.seen_read_nonces]
  BY DEF Activated, persist_successor_before_ack, Entry
<1>2. n \in Entry
  <2>1. PICK h \in Capsule :
          n = [capsule |-> e.capsule, pending_capsule |-> c,
               predecessor_locks |-> [e.predecessor_locks EXCEPT ![e.capsule] = c],
               highest_capsule_hash |-> h,
               rotation_cancellations |-> e.rotation_cancellations,
               seen_read_nonces |-> e.seen_read_nonces]
    BY <1>1 DEF Entry, Capsule
  <2> QED
    BY <2>1 DEF Entry
<1>3. c # None /\ e.predecessor_locks[e.capsule] = None
  BY CapsuleAssumption DEF EntryOK, Capsule
<1>4. \A p \in Capsule : n.predecessor_locks[p] =
                            IF p = e.capsule THEN c ELSE e.predecessor_locks[p]
  BY <1>1 DEF Entry
<1>5. e.capsule \in Capsule /\ \A d \in Successor : Pred[d] \in Capsule
  BY CapsuleAssumption DEF Entry
<1>6. \A p \in Capsule : Epoch[p] \in Nat
  BY CapsuleAssumption
<1>7. EntryOK(n)
  BY <1>1, <1>3, <1>4, <1>5, <1>6 DEF EntryOK, CanPersistSuccessor, is_direct_successor_of
<1>8. Extends(n, e)
  BY <1>1, <1>3, <1>4, <1>5, <1>6 DEF Extends, Finalized
<1> QED
  BY <1>2, <1>3, <1>4, <1>5, <1>7, <1>8, CapsuleAssumption DEF Capsule

\* The entry witness_finalize stores.
LEMMA FinalizedEntry ==
  ASSUME NEW e \in Entry, NEW c \in Successor, EntryOK(e), e.pending_capsule = c,
         NEW n, n = [e EXCEPT !.capsule = c, !.pending_capsule = None]
  PROVE  /\ n \in Entry /\ EntryOK(n) /\ Extends(n, e)
         /\ n.predecessor_locks = e.predecessor_locks
<1>1. n = [capsule |-> c, pending_capsule |-> None,
           predecessor_locks |-> e.predecessor_locks,
           highest_capsule_hash |-> e.highest_capsule_hash,
           rotation_cancellations |-> e.rotation_cancellations,
           seen_read_nonces |-> e.seen_read_nonces]
  BY DEF Entry
<1>2. n \in Entry
  BY <1>1 DEF Entry, Capsule
<1>3. /\ c # None /\ c \in Capsule /\ e.capsule \in Capsule
      /\ \A p \in Capsule : Epoch[p] \in Nat
  BY CapsuleAssumption DEF Capsule, Entry
<1>4. Epoch[c] = Epoch[e.capsule] + 1
  BY <1>3 DEF EntryOK
<1>5. e.predecessor_locks[c] = None
  BY <1>3, <1>4 DEF EntryOK
<1>6. EntryOK(n)
  <2>1. ASSUME NEW p \in Capsule, e.predecessor_locks[p] # None
        PROVE  /\ Pred[e.predecessor_locks[p]] = p /\ Epoch[p] <= Epoch[c]
               /\ Epoch[e.predecessor_locks[p]] <= Epoch[c]
    <3>1. CASE p = e.capsule
      BY <2>1, <3>1, <1>3, <1>4 DEF EntryOK
    <3>2. CASE p # e.capsule
      <4>1. /\ e.predecessor_locks[p] \in Capsule /\ Pred[e.predecessor_locks[p]] = p
            /\ Epoch[p] <= Epoch[e.capsule]
            /\ Epoch[e.predecessor_locks[p]] <= Epoch[e.capsule]
        BY <2>1, <3>2 DEF EntryOK, Entry, Capsule
      <4> QED
        BY <4>1, <1>3, <1>4
    <3> QED
      BY <3>1, <3>2
  <2> QED
    BY <1>1, <1>3, <1>5, <2>1 DEF EntryOK
<1>7. Extends(n, e)
  BY <1>1, <1>3, <1>4, CapsuleAssumption DEF Extends, Finalized, Capsule
<1> QED
  BY <1>1, <1>2, <1>6, <1>7

\* The entry witness_cancel_rotation stores for a new certificate.
LEMMA CancelledEntry ==
  ASSUME NEW e \in Entry, NEW c \in Successor, NEW k \in CancelCert, EntryOK(e),
         Pred[c] = e.capsule, e.rotation_cancellations[c] = None,
         e.pending_capsule \in {None, c},
         NEW n, n = Cancelled(e, c, k)
  PROVE  /\ n \in Entry /\ EntryOK(n) /\ Extends(n, e)
         /\ n.rotation_cancellations[c] = k
         /\ \A d \in Successor \ {c} : e.predecessor_locks[Pred[d]] = d
                                       => n.predecessor_locks[Pred[d]] = d
<1>1. n = [capsule |-> e.capsule, pending_capsule |-> None,
           predecessor_locks |-> [e.predecessor_locks EXCEPT ![e.capsule] = None],
           highest_capsule_hash |-> IF e.pending_capsule = c
                                    THEN e.capsule ELSE e.highest_capsule_hash,
           rotation_cancellations |-> [e.rotation_cancellations EXCEPT ![c] = k],
           seen_read_nonces |-> e.seen_read_nonces]
  <2>1. CASE e.pending_capsule = c
    BY <2>1 DEF Cancelled, cancel_pending_successor, Entry
  <2>2. CASE e.pending_capsule # c
    <3>1. e.pending_capsule = None /\ e.predecessor_locks[e.capsule] = None
      BY <2>2 DEF EntryOK
    <3>2. [e.predecessor_locks EXCEPT ![e.capsule] = None] = e.predecessor_locks
      BY <3>1 DEF Entry
    <3> QED
      BY <2>2, <3>1, <3>2 DEF Cancelled, Entry
  <2> QED
    BY <2>1, <2>2
<1>2. n \in Entry
  BY <1>1 DEF Entry
<1>3. /\ c # None /\ k # None /\ e.capsule \in Capsule
      /\ \A p \in Capsule : Epoch[p] \in Nat
      /\ \A d \in Successor : d # None /\ Pred[d] \in Capsule
  BY CapsuleAssumption DEF Capsule, Entry
<1>4. /\ \A p \in Capsule : n.predecessor_locks[p] =
                               IF p = e.capsule THEN None ELSE e.predecessor_locks[p]
      /\ \A d \in Successor : n.rotation_cancellations[d] =
                               IF d = c THEN k ELSE e.rotation_cancellations[d]
  BY <1>1 DEF Entry
<1>5. e.predecessor_locks[e.capsule] \in {None, c}
  BY DEF EntryOK
<1>6. EntryOK(n)
  BY <1>1, <1>3, <1>4 DEF EntryOK
<1>7. Extends(n, e)
  BY <1>1, <1>3, <1>4, <1>5 DEF Extends, Finalized, EntryOK
<1> QED
  BY <1>2, <1>3, <1>4, <1>5, <1>6, <1>7

\* The entry witness_read stores.
LEMMA ReadEntry ==
  ASSUME NEW e \in Entry, NEW r \in Reader, EntryOK(e),
         NEW n, n = [e EXCEPT !.seen_read_nonces = @ \cup {r}]
  PROVE  /\ n \in Entry /\ EntryOK(n) /\ Extends(n, e)
         /\ n.predecessor_locks = e.predecessor_locks
         /\ n.rotation_cancellations = e.rotation_cancellations
         /\ n.capsule = e.capsule
<1>1. n = [capsule |-> e.capsule, pending_capsule |-> e.pending_capsule,
           predecessor_locks |-> e.predecessor_locks,
           highest_capsule_hash |-> e.highest_capsule_hash,
           rotation_cancellations |-> e.rotation_cancellations,
           seen_read_nonces |-> e.seen_read_nonces \cup {r}]
  BY DEF Entry
<1>2. n \in Entry
  BY <1>1 DEF Entry
<1>3. Epoch[e.capsule] \in Nat
  BY CapsuleAssumption DEF Entry
<1> QED
  BY <1>1, <1>2, <1>3 DEF EntryOK, Extends, Finalized

-----------------------------------------------------------------------------
(* All entries.  Memory may be ahead of the file, never behind it.             *)

EntriesOK ==
  \A w \in Honest : /\ EntryOK(entry[w])
                    /\ EntryOK(saved[w])
                    /\ Extends(entry[w], saved[w])

EntryTypes == entry \in [Honest -> Entry] /\ saved \in [Honest -> Entry]

\* Witness w's handler has put n in memory, and perhaps in the file.
Writes(w, n) ==
  /\ n \in Entry
  /\ EntryOK(n)
  /\ Extends(n, entry[w])
  /\ entry' = [entry EXCEPT ![w] = n]
  /\ saved' \in {saved, [saved EXCEPT ![w] = n]}

\* The three ways a step can treat the entries.
LEMMA EntrySteps ==
  ASSUME EntryTypes, EntriesOK, [Next]_vars
  PROVE  \/ UNCHANGED <<entry, saved>>
         \/ \E w \in Honest : entry' = [entry EXCEPT ![w] = saved[w]] /\ UNCHANGED saved
         \/ \E w \in Honest, n \in Entry : Writes(w, n)
<1>1. ASSUME NEW w \in Honest, NEW c \in Successor, ActivateAgain(w, c)
      PROVE  UNCHANGED <<entry, saved>>
  BY <1>1 DEF ActivateAgain
<1>2. ASSUME NEW w \in Honest, NEW c \in Successor, ActivateFirst(w, c)
      PROVE  \E n \in Entry : Writes(w, n)
  <2>1. Activated(entry[w], c) \in Entry /\ Writes(w, Activated(entry[w], c))
    BY <1>2, ActivatedEntry
    DEF ActivateFirst, Writes, Save, SaveFails, EntryTypes, EntriesOK
  <2> QED
    BY <2>1
<1>3. ASSUME NEW w \in Honest, NEW c \in Successor, witness_finalize(w, c)
      PROVE  \E n \in Entry : Writes(w, n)
  <2> DEFINE n == [entry[w] EXCEPT !.capsule = c, !.pending_capsule = None]
  <2>1. n \in Entry /\ EntryOK(n) /\ Extends(n, entry[w])
    BY <1>3, FinalizedEntry DEF witness_finalize, EntryTypes, EntriesOK
  <2>2. Save(w, n) \/ SaveFails(w, n)
    BY <1>3 DEF witness_finalize
  <2> HIDE DEF n
  <2> QED
    BY <2>1, <2>2 DEF Writes, Save, SaveFails
<1>4. ASSUME NEW w \in Honest, NEW c \in Successor, NEW k \in CancelCert,
             witness_cancel_rotation(w, c, k)
      PROVE  \E n \in Entry : Writes(w, n)
  <2>1. CASE entry[w].rotation_cancellations[c] = k
    <3>1. entry[w] \in Entry /\ EntryOK(entry[w]) /\ Extends(entry[w], entry[w])
      BY ExtendsIsPreorder DEF EntryTypes, EntriesOK
    <3>2. Save(w, entry[w]) \/ SaveFails(w, entry[w])
      BY <1>4, <2>1 DEF witness_cancel_rotation
    <3> QED
      BY <3>1, <3>2 DEF Writes, Save, SaveFails
  <2>2. CASE entry[w].rotation_cancellations[c] # k
    <3> DEFINE n == Cancelled(entry[w], c, k)
    <3>1. n \in Entry /\ EntryOK(n) /\ Extends(n, entry[w])
      BY <1>4, <2>2, CancelledEntry DEF witness_cancel_rotation, EntryTypes, EntriesOK
    <3>2. Save(w, n) \/ SaveFails(w, n)
      BY <1>4, <2>2 DEF witness_cancel_rotation
    <3> HIDE DEF n
    <3> QED
      BY <3>1, <3>2 DEF Writes, Save, SaveFails
  <2> QED
    BY <2>1, <2>2
<1>5. ASSUME NEW w \in Honest, NEW r \in Reader, witness_read(w, r)
      PROVE  \E n \in Entry : Writes(w, n)
  <2> DEFINE n == [entry[w] EXCEPT !.seen_read_nonces = @ \cup {r}]
  <2>1. n \in Entry /\ EntryOK(n) /\ Extends(n, entry[w])
    BY ReadEntry DEF EntryTypes, EntriesOK
  <2>2. Save(w, n) \/ SaveFails(w, n)
    BY <1>5 DEF witness_read
  <2> HIDE DEF n
  <2> QED
    BY <2>1, <2>2 DEF Writes, Save, SaveFails
<1>6. ASSUME NEW w \in Honest, Restart(w)
      PROVE  entry' = [entry EXCEPT ![w] = saved[w]] /\ UNCHANGED saved
  BY <1>6 DEF Restart
<1>7. ASSUME NEW r \in Reader, StartRead(r) \/ \E w \in Faulty : FaultyRead(w, r)
      PROVE  UNCHANGED <<entry, saved>>
  BY <1>7 DEF StartRead, FaultyRead
<1>8. CASE UNCHANGED vars
  BY <1>8 DEF vars
<1> QED
  BY <1>1, <1>2, <1>3, <1>4, <1>5, <1>6, <1>7, <1>8
  DEF Next, WitnessStep, witness_activate

\* Every step keeps the entries in order, and the file only ever advances.
LEMMA EntriesInvariant ==
  ASSUME EntryTypes, EntriesOK, [Next]_vars
  PROVE  /\ EntryTypes' /\ EntriesOK'
         /\ \A w \in Honest : Extends(saved'[w], saved[w])
<1>1. CASE UNCHANGED <<entry, saved>>
  BY <1>1, ExtendsIsPreorder DEF EntryTypes, EntriesOK
<1>2. ASSUME NEW w \in Honest, entry' = [entry EXCEPT ![w] = saved[w]], UNCHANGED saved
      PROVE  /\ EntryTypes' /\ EntriesOK'
             /\ \A v \in Honest : Extends(saved'[v], saved[v])
  BY <1>2, ExtendsIsPreorder DEF EntryTypes, EntriesOK
<1>3. ASSUME NEW w \in Honest, NEW n \in Entry, Writes(w, n)
      PROVE  /\ EntryTypes' /\ EntriesOK'
             /\ \A v \in Honest : Extends(saved'[v], saved[v])
  <2>1. /\ EntryTypes'
        /\ \A v \in Honest : /\ entry'[v] = IF v = w THEN n ELSE entry[v]
                             /\ saved'[v] \in {saved[v], entry'[v]}
                             /\ v # w => saved'[v] = saved[v]
    BY <1>3 DEF Writes, EntryTypes
  <2>2. Extends(n, saved[w]) /\ Extends(n, n)
    BY <1>3, ExtendsIsPreorder DEF Writes, EntryTypes, EntriesOK
  <2>3. ASSUME NEW v \in Honest
        PROVE  /\ EntryOK(entry'[v]) /\ EntryOK(saved'[v])
               /\ Extends(entry'[v], saved'[v]) /\ Extends(saved'[v], saved[v])
    <3>1. Extends(saved[v], saved[v]) /\ EntryOK(entry[v]) /\ EntryOK(saved[v])
          /\ Extends(entry[v], saved[v]) /\ EntryOK(n)
      BY <1>3, ExtendsIsPreorder DEF Writes, EntryTypes, EntriesOK
    <3> QED
      BY <2>1, <2>2, <3>1
  <2> QED
    BY <2>1, <2>3 DEF EntriesOK
<1> QED
  BY <1>1, <1>2, <1>3, EntrySteps

-----------------------------------------------------------------------------
(* The theorems *)

\* The part of the inductive invariant that every theorem below rests on.
BaseInv == TypeOK /\ EntriesOK

\* Replies are only added, each by the handler that sends it.
LEMMA ReplySteps ==
  ASSUME [Next]_vars
  PROVE  /\ \/ UNCHANGED activation_acks
            \/ \E w \in Honest, c \in Successor :
                 /\ witness_activate(w, c)
                 /\ activation_acks' = activation_acks \cup {<<w, c>>}
         /\ \/ UNCHANGED cancel_acks
            \/ \E w \in Honest, c \in Successor, k \in CancelCert :
                 /\ witness_cancel_rotation(w, c, k)
                 /\ Save(w, IF entry[w].rotation_cancellations[c] = k THEN entry[w]
                            ELSE Cancelled(entry[w], c, k))
                 /\ cancel_acks' = cancel_acks \cup {<<w, c, k>>}
         /\ \/ UNCHANGED reader
            \/ \E r \in Reader : StartRead(r)
            \/ \E r \in Reader, w \in Faulty : FaultyRead(w, r)
            \/ \E r \in Reader, w \in Honest :
                 /\ witness_read(w, r)
                 /\ Save(w, [entry[w] EXCEPT !.seen_read_nonces = @ \cup {r}])
                 /\ reader' = [reader EXCEPT ![r].got[w] = entry[w].capsule]
<1> USE DEF witness_activate
<1>1. ASSUME NEW w \in Honest, NEW c \in Successor, witness_activate(w, c)
      PROVE  /\ \/ UNCHANGED activation_acks
                \/ activation_acks' = activation_acks \cup {<<w, c>>}
             /\ UNCHANGED <<cancel_acks, reader>>
  BY <1>1 DEF ActivateAgain, ActivateFirst
<1>2. ASSUME NEW w \in Honest, NEW c \in Successor, witness_finalize(w, c)
      PROVE  UNCHANGED <<activation_acks, cancel_acks, reader>>
  BY <1>2 DEF witness_finalize
<1>3. ASSUME NEW w \in Honest, NEW c \in Successor, NEW k \in CancelCert,
             witness_cancel_rotation(w, c, k)
      PROVE  /\ \/ UNCHANGED cancel_acks
                \/ /\ Save(w, IF entry[w].rotation_cancellations[c] = k THEN entry[w]
                               ELSE Cancelled(entry[w], c, k))
                   /\ cancel_acks' = cancel_acks \cup {<<w, c, k>>}
             /\ UNCHANGED <<activation_acks, reader>>
  BY <1>3 DEF witness_cancel_rotation
<1>4. ASSUME NEW w \in Honest, NEW r \in Reader, witness_read(w, r)
      PROVE  /\ \/ UNCHANGED reader
                \/ /\ Save(w, [entry[w] EXCEPT !.seen_read_nonces = @ \cup {r}])
                   /\ reader' = [reader EXCEPT ![r].got[w] = entry[w].capsule]
             /\ UNCHANGED <<activation_acks, cancel_acks>>
  BY <1>4 DEF witness_read
<1>5. ASSUME NEW w \in Honest, Restart(w)
      PROVE  UNCHANGED <<activation_acks, cancel_acks, reader>>
  BY <1>5 DEF Restart
<1>6. ASSUME NEW r \in Reader, StartRead(r) \/ \E w \in Faulty : FaultyRead(w, r)
      PROVE  UNCHANGED <<activation_acks, cancel_acks>>
  BY <1>6 DEF StartRead, FaultyRead
<1>7. CASE UNCHANGED vars
  BY <1>7 DEF vars
<1>8. CASE \E w \in Honest : WitnessStep(w)
  <2>1. PICK w \in Honest : WitnessStep(w)
    BY <1>8
  <2>2. CASE \E c \in Successor : witness_activate(w, c)
    BY <2>2, <1>1
  <2>3. CASE \E c \in Successor : witness_finalize(w, c)
    BY <2>3, <1>2
  <2>4. CASE \E c \in Successor, k \in CancelCert : witness_cancel_rotation(w, c, k)
    BY <2>4, <1>3
  <2>5. CASE \E r \in Reader : witness_read(w, r)
    BY <2>5, <1>4
  <2>6. CASE Restart(w)
    BY <2>6, <1>5
  <2> QED
    BY <2>1, <2>2, <2>3, <2>4, <2>5, <2>6 DEF WitnessStep
<1>9. CASE \E r \in Reader : StartRead(r) \/ \E w \in Faulty : FaultyRead(w, r)
  BY <1>6, <1>9
<1> QED
  BY <1>7, <1>8, <1>9 DEF Next

\* Every reachable state has entries in order, in memory and in the files.
LEMMA BaseInvariant == Spec => []BaseInv
<1>1. Init => BaseInv
  <2> SUFFICES ASSUME Init PROVE BaseInv
    OBVIOUS
  <2>1. TypeOK
    BY NewEntryOK DEF Init, TypeOK, ReaderState
  <2>2. EntriesOK
    BY NewEntryOK, ExtendsIsPreorder DEF Init, EntriesOK
  <2> QED
    BY <2>1, <2>2 DEF BaseInv
<1>2. BaseInv /\ [Next]_vars => BaseInv'
  <2> SUFFICES ASSUME BaseInv, [Next]_vars PROVE BaseInv'
    OBVIOUS
  <2>1. EntryTypes' /\ EntriesOK'
    BY EntriesInvariant DEF BaseInv, TypeOK, EntryTypes
  <2>2. /\ activation_acks' \subseteq Honest \X Successor
        /\ cancel_acks' \subseteq Honest \X Successor \X CancelCert
    BY ReplySteps DEF BaseInv, TypeOK
  <2>3. reader' \in [Reader -> ReaderState]
    <3>1. ASSUME NEW r \in Reader, StartRead(r)
          PROVE  reader' \in [Reader -> ReaderState]
      BY <3>1 DEF BaseInv, TypeOK, StartRead, ReaderState
    <3>2. ASSUME NEW r \in Reader, NEW w \in Witness, NEW c \in Capsule,
                 reader' = [reader EXCEPT ![r].got[w] = c]
          PROVE  reader' \in [Reader -> ReaderState]
      BY <3>2 DEF BaseInv, TypeOK, ReaderState
    <3>3. ASSUME NEW w \in Honest PROVE entry[w].capsule \in Capsule
      BY DEF BaseInv, TypeOK, Entry
    <3>4. Faulty \subseteq Witness /\ Honest \subseteq Witness
      BY WitnessAssumption DEF Honest
    <3>5. reader \in [Reader -> ReaderState]
      BY DEF BaseInv, TypeOK
    <3> QED
      BY ReplySteps, <3>1, <3>2, <3>3, <3>4, <3>5 DEF FaultyRead
  <2> QED
    BY <2>1, <2>2, <2>3 DEF BaseInv, TypeOK, EntryTypes
<1> QED
  BY <1>1, <1>2, PTL DEF Spec

\* Type correctness.
THEOREM WitnessTypeCorrect == Spec => []TypeOK
  BY BaseInvariant, PTL DEF BaseInv

\* witness_cancel_rotation: an acknowledged veto survives every failed save and
\* every restart, and the vetoed capsule is neither pending nor active on disk.
THEOREM VetoesAreDurable == Spec => []VetoIsDurable
<1>1. Init => VetoIsDurable
  BY DEF Init, VetoIsDurable
<1>2. BaseInv /\ BaseInv' /\ VetoIsDurable /\ [Next]_vars => VetoIsDurable'
  <2> SUFFICES ASSUME BaseInv, BaseInv', VetoIsDurable, [Next]_vars,
                      NEW w \in Honest, NEW c \in Successor, NEW k \in CancelCert,
                      <<w, c, k>> \in cancel_acks'
               PROVE  /\ saved'[w].rotation_cancellations[c] = k
                      /\ saved'[w].predecessor_locks[Pred[c]] # c
    BY DEF VetoIsDurable
  <2>1. k # None
    BY CapsuleAssumption
  <2>2. saved'[w].rotation_cancellations[c] = k
    <3>1. CASE <<w, c, k>> \in cancel_acks
      <4>1. saved[w].rotation_cancellations[c] = k
        BY <3>1 DEF VetoIsDurable
      <4>2. Extends(saved'[w], saved[w])
        BY EntriesInvariant DEF BaseInv, TypeOK, EntryTypes
      <4> QED
        BY <4>1, <4>2, <2>1 DEF Extends
    <3>2. CASE <<w, c, k>> \notin cancel_acks
      <4>1. /\ witness_cancel_rotation(w, c, k)
            /\ Save(w, IF entry[w].rotation_cancellations[c] = k THEN entry[w]
                       ELSE Cancelled(entry[w], c, k))
        BY <3>2, ReplySteps
      <4>2. CASE entry[w].rotation_cancellations[c] = k
        <5>1. saved'[w] = entry[w]
          BY <4>1, <4>2 DEF Save, BaseInv, TypeOK
        <5> QED
          BY <4>2, <5>1
      <4>3. CASE entry[w].rotation_cancellations[c] # k
        <5>1. saved'[w] = Cancelled(entry[w], c, k)
          BY <4>1, <4>3 DEF Save, BaseInv, TypeOK
        <5>2. entry[w] \in Entry /\ EntryOK(entry[w])
          BY DEF BaseInv, TypeOK, EntriesOK
        <5> QED
          BY <4>1, <4>3, <5>1, <5>2, CancelledEntry DEF witness_cancel_rotation
      <4> QED
        BY <4>2, <4>3
    <3> QED
      BY <3>1, <3>2
  <2> QED
    BY <2>1, <2>2 DEF BaseInv, EntriesOK, EntryOK
<1> QED
  BY <1>1, <1>2, BaseInvariant, PTL DEF Spec

\* An activation and an owner cancellation of the same rotation never both
\* complete, whatever fails and restarts, when the roster is exactly 3f+1.
THEOREM WritesExcludeVetoes == ExactRoster => (Spec => []WriteExcludesVeto)
<1> SUFFICES ASSUME ExactRoster PROVE Spec => []WriteExcludesVeto
  OBVIOUS
<1>1. BaseInv /\ VetoIsDurable => WriteExcludesVeto
  <2> SUFFICES ASSUME BaseInv, VetoIsDurable, NEW c \in Successor,
                      WriteComplete(c), VetoComplete(c)
               PROVE  FALSE
    BY DEF WriteExcludesVeto
  <2>1. PICK k \in CancelCert : IsQuorum(Vetoers(c, k))
    BY DEF VetoComplete
  <2>2. PICK w \in Honest : Finalized(saved[w], c) /\ w \in Vetoers(c, k)
    <3> DEFINE F == {w \in Honest : Finalized(saved[w], c)}
    <3>1. IsQuorum(F) /\ F \in SUBSET Honest /\ Vetoers(c, k) \in SUBSET Honest
      BY DEF WriteComplete, Vetoers
    <3>2. \E w \in Honest : w \in F /\ w \in Vetoers(c, k)
      BY <2>1, <3>1, QuorumIntersection
    <3> QED
      BY <3>2
  <2> QED
    BY <2>2 DEF Finalized, Vetoers, VetoIsDurable
<1> QED
  BY <1>1, BaseInvariant, VetoesAreDurable, PTL
-----------------------------------------------------------------------------
(* Fresh reads *)

\* More vouchers do not make a quorum smaller.
LEMMA QuorumsGrow ==
  ASSUME NEW A \in SUBSET Honest, NEW B \in SUBSET Honest, A \subseteq B, IsQuorum(A)
  PROVE  IsQuorum(B)
<1>1. /\ IsFiniteSet(Witness) /\ A \cup Faulty \subseteq B \cup Faulty
      /\ B \cup Faulty \subseteq Witness
  BY WitnessAssumption DEF Honest
<1>2. IsFiniteSet(B \cup Faulty) /\ IsFiniteSet(A \cup Faulty)
  BY <1>1, FS_Subset
<1>3. /\ Cardinality(A \cup Faulty) <= Cardinality(B \cup Faulty)
      /\ Cardinality(A \cup Faulty) \in Nat /\ Cardinality(B \cup Faulty) \in Nat
  BY <1>1, <1>2, FS_Subset, FS_CardinalityType
<1> QED
  BY <1>3, WitnessAssumption DEF IsQuorum, required_witness_quorum

\* The epoch a witness serves is not older than any it has finalized.
LEMMA FinalizedIsServed ==
  ASSUME NEW e \in Entry, EntryOK(e), NEW c \in Successor, Finalized(e, c)
  PROVE  Epoch[c] <= Epoch[e.capsule]
<1>1. Pred[c] \in Capsule /\ c # None /\ e.predecessor_locks[Pred[c]] = c
  BY CapsuleAssumption DEF Finalized, Capsule
<1>2. Pred[c] # e.capsule
  BY <1>1 DEF Finalized, EntryOK
<1> QED
  BY <1>1, <1>2 DEF EntryOK

\* What a witness told a client is in its file: witness_read saves the whole entry,
\* an activation whose own save had failed included, before the reply leaves.
THEOREM ServedEpochsAreDurable == Spec => []ServedEpochIsDurable
<1>1. Init => ServedEpochIsDurable
  BY DEF Init, ServedEpochIsDurable, Honest
<1>2. BaseInv /\ BaseInv' /\ ServedEpochIsDurable /\ [Next]_vars => ServedEpochIsDurable'
  <2> SUFFICES ASSUME BaseInv, BaseInv', ServedEpochIsDurable, [Next]_vars,
                      NEW r \in Reader, NEW w \in Honest, reader'[r].got[w] # None
               PROVE  Epoch[saved'[w].capsule] >= Epoch[reader'[r].got[w]]
    BY DEF ServedEpochIsDurable
  <2>1. /\ Epoch[saved[w].capsule] \in Nat /\ Epoch[saved'[w].capsule] \in Nat
        /\ w \in Witness /\ reader \in [Reader -> ReaderState]
    BY CapsuleAssumption DEF BaseInv, TypeOK, Entry, Honest
  <2>2. Epoch[saved[w].capsule] <= Epoch[saved'[w].capsule]
    BY EntriesInvariant DEF BaseInv, TypeOK, EntryTypes, Extends
  <2>3. CASE reader'[r].got[w] = reader[r].got[w]
    <3>1. /\ reader[r].got[w] \in Capsule
          /\ Epoch[saved[w].capsule] >= Epoch[reader[r].got[w]]
      BY <2>1, <2>3 DEF ServedEpochIsDurable, ReaderState
    <3> QED
      BY <2>1, <2>2, <2>3, <3>1, CapsuleAssumption
  <2>4. CASE reader'[r].got[w] # reader[r].got[w]
    <3>1. /\ Save(w, [entry[w] EXCEPT !.seen_read_nonces = @ \cup {r}])
          /\ reader'[r].got[w] = entry[w].capsule
      <4>1. ASSUME NEW x \in Reader, StartRead(x) PROVE FALSE
        BY <4>1, <2>1, <2>4 DEF StartRead, ReaderState
      <4>2. ASSUME NEW x \in Reader, NEW v \in Faulty, FaultyRead(v, x) PROVE FALSE
        BY <4>2, <2>1, <2>4 DEF FaultyRead, ReaderState, Honest
      <4>3. ASSUME NEW x \in Reader, NEW v \in Honest,
                   reader' = [reader EXCEPT ![x].got[v] = entry[v].capsule]
            PROVE  x = r /\ v = w /\ reader'[r].got[w] = entry[w].capsule
        BY <4>3, <2>1, <2>4 DEF ReaderState, Honest
      <4> QED
        BY <4>1, <4>2, <4>3, <2>4, ReplySteps
    <3>2. saved'[w].capsule = entry[w].capsule
      BY <3>1 DEF Save, BaseInv, TypeOK, Entry
    <3> QED
      BY <2>1, <3>1, <3>2
  <2> QED
    BY <2>3, <2>4
<1> QED
  BY <1>1, <1>2, BaseInvariant, PTL DEF Spec

\* The witnesses that had finalized d when r sent its challenge, or have since, and
\* have told r nothing older: while r waits they stay a quorum.
Informed(r, d) ==
  {w \in Honest : /\ Finalized(saved[w], d)
                  /\ reader[r].got[w] # None => Epoch[d] <= Epoch[reader[r].got[w]]}

ReadersOK ==
  \A r \in Reader :
    /\ ~reader[r].started => reader[r].got = [w \in Witness |-> None]
    /\ \A d \in reader[r].completed : IsQuorum(Informed(r, d))

\* What one step does to the answers of r: nothing, to those of honest witnesses,
\* unless one of them answers with what it has in memory.
LEMMA AnswerSteps ==
  ASSUME BaseInv, [Next]_vars, NEW r \in Reader, NEW w \in Honest,
         reader'[r].got[w] # reader[r].got[w]
  PROVE  /\ reader'[r].got[w] = entry[w].capsule
         /\ reader[r].started
<1>1. reader \in [Reader -> ReaderState] /\ w \in Witness
  BY DEF BaseInv, TypeOK, Honest
<1>2. ASSUME NEW x \in Reader, StartRead(x) PROVE FALSE
  BY <1>1, <1>2 DEF StartRead, ReaderState
<1>3. ASSUME NEW x \in Reader, NEW v \in Faulty, FaultyRead(v, x) PROVE FALSE
  BY <1>1, <1>3 DEF FaultyRead, ReaderState, Honest
<1>4. ASSUME NEW x \in Reader, NEW v \in Honest, witness_read(v, x),
             reader' = [reader EXCEPT ![x].got[v] = entry[v].capsule]
      PROVE  /\ reader'[r].got[w] = entry[w].capsule
             /\ reader[r].started
  BY <1>1, <1>4 DEF ReaderState, witness_read
<1> QED
  BY <1>2, <1>3, <1>4, ReplySteps

\* A quorum that is informed stays informed, whoever answers or restarts.
LEMMA InformedStay ==
  ASSUME BaseInv, [Next]_vars, NEW r \in Reader, NEW d \in Successor,
         IsQuorum(Informed(r, d))
  PROVE  IsQuorum(Informed(r, d)')
<1>1. ASSUME NEW w \in Honest, w \in Informed(r, d)
      PROVE  w \in Informed(r, d)'
  <2>1. /\ saved[w] \in Entry /\ EntryOK(saved[w]) /\ entry[w] \in Entry
        /\ Extends(entry[w], saved[w]) /\ Finalized(saved[w], d)
    BY <1>1 DEF BaseInv, TypeOK, EntriesOK, Informed
  <2>2. Finalized(saved'[w], d)
    BY <2>1, EntriesInvariant DEF BaseInv, TypeOK, EntryTypes, Extends
  <2>3. Epoch[d] <= Epoch[entry[w].capsule]
    <3>1. Epoch[d] <= Epoch[saved[w].capsule]
      BY <2>1, FinalizedIsServed
    <3>2. Epoch[saved[w].capsule] <= Epoch[entry[w].capsule]
      BY <2>1 DEF Extends
    <3>3. Epoch[d] \in Nat /\ Epoch[saved[w].capsule] \in Nat /\ Epoch[entry[w].capsule] \in Nat
      BY <2>1, CapsuleAssumption DEF Entry, Capsule
    <3> QED
      BY <3>1, <3>2, <3>3
  <2>4. reader'[r].got[w] # None => Epoch[d] <= Epoch[reader'[r].got[w]]
    BY <1>1, <2>3, AnswerSteps DEF Informed
  <2> QED
    BY <2>2, <2>4 DEF Informed
<1>2. /\ Informed(r, d) \in SUBSET Honest /\ Informed(r, d)' \in SUBSET Honest
      /\ Informed(r, d) \subseteq Informed(r, d)'
  BY <1>1 DEF Informed
<1> QED
  BY <1>2, QuorumsGrow

\* ReadersOK is inductive on top of the base invariant.
LEMMA ReadersInvariant == Spec => []ReadersOK
<1>1. Init => ReadersOK
  BY DEF Init, ReadersOK
<1>2. BaseInv /\ BaseInv' /\ ReadersOK /\ [Next]_vars => ReadersOK'
  <2> SUFFICES ASSUME BaseInv, BaseInv', ReadersOK, [Next]_vars, NEW r \in Reader
               PROVE  /\ ~reader'[r].started => reader'[r].got = [w \in Witness |-> None]
                      /\ \A d \in reader'[r].completed : IsQuorum(Informed(r, d)')
    BY DEF ReadersOK, Informed, IsQuorum
  <2>1. /\ reader \in [Reader -> ReaderState] /\ reader' \in [Reader -> ReaderState]
        /\ reader[r].completed \subseteq Successor
    BY DEF BaseInv, TypeOK, ReaderState
  <2>2. CASE StartRead(r)
    <3>1. /\ reader'[r].started /\ reader'[r].got = [w \in Witness |-> None]
          /\ reader'[r].completed = {c \in Successor : WriteComplete(c)}
          /\ saved' = saved
      BY <2>1, <2>2 DEF StartRead, ReadersOK, ReaderState
    <3>2. ASSUME NEW d \in Successor, WriteComplete(d) PROVE IsQuorum(Informed(r, d)')
      <4>1. Informed(r, d)' = {w \in Honest : Finalized(saved[w], d)}
        BY <3>1 DEF Informed, Honest
      <4> QED
        BY <3>2, <4>1 DEF WriteComplete
    <3> QED
      BY <3>1, <3>2
  <2>3. CASE ~StartRead(r)
    <3>1. /\ reader'[r].completed = reader[r].completed
          /\ reader'[r].started = reader[r].started
          /\ ~reader[r].started => reader'[r].got = reader[r].got
      <4>1. ASSUME NEW x \in Reader, StartRead(x) PROVE reader'[r] = reader[r]
        BY <2>1, <2>3, <4>1 DEF StartRead
      <4>2. ASSUME NEW x \in Reader, reader[x].started, NEW v, NEW c,
                   reader' = [reader EXCEPT ![x].got[v] = c]
            PROVE  /\ reader'[r].completed = reader[r].completed
                   /\ reader'[r].started = reader[r].started
                   /\ ~reader[r].started => reader'[r].got = reader[r].got
        BY <2>1, <4>2 DEF ReaderState
      <4> QED
        BY <4>1, <4>2, ReplySteps DEF FaultyRead, witness_read
    <3>2. ASSUME NEW d \in reader[r].completed PROVE IsQuorum(Informed(r, d)')
      BY <2>1, InformedStay DEF ReadersOK
    <3> QED
      BY <3>1, <3>2 DEF ReadersOK
  <2> QED
    BY <2>2, <2>3
<1> QED
  BY <1>1, <1>2, BaseInvariant, PTL DEF Spec

\* A fresh client never selects an epoch older than one whose activation had
\* completed when it sent its challenge, in a roster of exactly 3f+1: the answers and
\* the witnesses that finalized share an honest one.
THEOREM ReadsAreFreshTheorem == ExactRoster => (Spec => []ReadsAreFresh)
<1> SUFFICES ASSUME ExactRoster PROVE Spec => []ReadsAreFresh
  OBVIOUS
<1>1. BaseInv /\ ReadersOK => ReadsAreFresh
  <2> SUFFICES ASSUME BaseInv, ReadersOK, NEW r \in Reader,
                      NEW c \in select_latest_epoch_v3(r), NEW d \in reader[r].completed
               PROVE  Epoch[c] >= Epoch[d]
    BY DEF ReadsAreFresh
  <2> DEFINE answered == {w \in Witness : reader[r].got[w] # None}
             I == Informed(r, d) \cup Faulty
  <2>1. /\ Cardinality(answered) >= required_witness_quorum
        /\ \A w \in answered : Epoch[reader[r].got[w]] <= Epoch[c]
        /\ \E w \in answered : reader[r].got[w] = c
    BY DEF select_latest_epoch_v3
  <2>2. Cardinality(I) >= required_witness_quorum
    BY DEF ReadersOK, IsQuorum
  <2>3. answered \in SUBSET Witness /\ I \in SUBSET Witness
    BY WitnessAssumption DEF Informed, Honest
  <2>4. PICK w \in Honest : w \in answered /\ w \in I
    BY <2>1, <2>2, <2>3, QuorumsShareAnHonestWitness
  <2>5. Epoch[d] <= Epoch[reader[r].got[w]] /\ Epoch[reader[r].got[w]] <= Epoch[c]
    BY <2>1, <2>4 DEF Informed, Honest
  <2>6. Epoch[d] \in Nat /\ Epoch[reader[r].got[w]] \in Nat /\ Epoch[c] \in Nat
    <3>1. reader[r] \in ReaderState
      BY DEF BaseInv, TypeOK
    <3> QED
      BY <3>1, <2>1, <2>4, CapsuleAssumption DEF ReaderState, Capsule
  <2> QED
    BY <2>5, <2>6
<1> QED
  BY <1>1, BaseInvariant, ReadersInvariant, PTL

-----------------------------------------------------------------------------
(* Forks *)

\* An acknowledgement is backed by the lock or by the tombstone that ended it.
AcksOK ==
  \A w \in Honest, c \in Successor :
    <<w, c>> \in activation_acks =>
      \/ saved[w].predecessor_locks[Pred[c]] = c
      \/ saved[w].rotation_cancellations[c] # None

\* A witness whose writes succeed has in memory what is in its file.
SavedIsCurrent == entry = saved

\* What one entry that is written keeps of a lock.
LEMMA LocksStay ==
  ASSUME BaseInv, SavedIsCurrent, ~SaveMayFail, [Next]_vars, NEW w \in Honest,
         NEW c \in Successor, saved[w].predecessor_locks[Pred[c]] = c
  PROVE  \/ saved'[w].predecessor_locks[Pred[c]] = c
         \/ saved'[w].rotation_cancellations[c] # None
<1>1. /\ saved \in [Honest -> Entry] /\ entry = saved
      /\ \A v \in Honest : entry[v] \in Entry /\ EntryOK(entry[v])
  BY DEF BaseInv, TypeOK, SavedIsCurrent, EntriesOK
<1>2. CASE saved'[w] = saved[w]
  BY <1>2
<1>3. ASSUME NEW v \in Honest, NEW n, Save(v, n), v # w
      PROVE  saved'[w] = saved[w]
  BY <1>1, <1>3 DEF Save
<1>4. ASSUME NEW n, Save(w, n) PROVE saved'[w] = n
  BY <1>1, <1>4 DEF Save
<1>5. ASSUME NEW d \in Successor, ActivateFirst(w, d)
      PROVE  saved'[w].predecessor_locks[Pred[c]] = c
  <2>1. Save(w, Activated(entry[w], d))
    BY <1>5 DEF ActivateFirst, SaveFails
  <2> QED
    BY <1>1, <1>4, <1>5, <2>1, ActivatedEntry DEF ActivateFirst
<1>6. ASSUME NEW d \in Successor, witness_finalize(w, d)
      PROVE  saved'[w].predecessor_locks[Pred[c]] = c
  <2>1. Save(w, [entry[w] EXCEPT !.capsule = d, !.pending_capsule = None])
    BY <1>6 DEF witness_finalize, SaveFails
  <2>2. saved'[w].predecessor_locks = entry[w].predecessor_locks
    <3> DEFINE n == [entry[w] EXCEPT !.capsule = d, !.pending_capsule = None]
    <3>1. n.predecessor_locks = entry[w].predecessor_locks
      BY <1>1 DEF Entry
    <3>2. saved'[w] = n
      BY <1>4, <2>1
    <3> QED
      BY <3>1, <3>2
  <2> QED
    BY <1>1, <2>2
<1>7. ASSUME NEW d \in Successor, NEW k \in CancelCert, witness_cancel_rotation(w, d, k)
      PROVE  \/ saved'[w].predecessor_locks[Pred[c]] = c
             \/ saved'[w].rotation_cancellations[c] # None
  <2>1. Save(w, IF entry[w].rotation_cancellations[d] = k THEN entry[w]
                ELSE Cancelled(entry[w], d, k))
    BY <1>7 DEF witness_cancel_rotation, SaveFails
  <2>2. CASE entry[w].rotation_cancellations[d] = k
    BY <1>1, <1>4, <2>1, <2>2
  <2>3. CASE entry[w].rotation_cancellations[d] # k
    <3>1. saved'[w] = Cancelled(entry[w], d, k)
      BY <1>4, <2>1, <2>3
    <3>2. k # None
      BY CapsuleAssumption
    <3> QED
      BY <1>1, <1>7, <2>3, <3>1, <3>2, CancelledEntry DEF witness_cancel_rotation
  <2> QED
    BY <2>2, <2>3
<1>8. ASSUME NEW r \in Reader, witness_read(w, r)
      PROVE  saved'[w].predecessor_locks[Pred[c]] = c
  <2>1. Save(w, [entry[w] EXCEPT !.seen_read_nonces = @ \cup {r}])
    BY <1>8 DEF witness_read, SaveFails
  <2>2. saved'[w].predecessor_locks = entry[w].predecessor_locks
    BY <1>1, <1>4, <2>1, ReadEntry
  <2> QED
    BY <1>1, <2>2
<1>9. ASSUME NEW v \in Honest, v # w, WitnessStep(v) PROVE saved'[w] = saved[w]
  <2>1. \/ UNCHANGED saved
        \/ \E n : Save(v, n)
    BY <1>9 DEF WitnessStep, witness_activate, ActivateAgain, ActivateFirst, SaveFails,
                witness_finalize, witness_cancel_rotation, witness_read, Restart
  <2> QED
    BY <1>3, <1>9, <2>1
<1>10. ASSUME NEW d \in Successor, ActivateAgain(w, d) PROVE saved'[w] = saved[w]
  BY <1>10 DEF ActivateAgain
<1>11. CASE Restart(w) \/ \E r \in Reader : StartRead(r) \/ \E v \in Faulty : FaultyRead(v, r)
  BY <1>11 DEF Restart, StartRead, FaultyRead
<1>12. CASE UNCHANGED vars
  BY <1>12 DEF vars
<1> QED
  BY <1>2, <1>5, <1>6, <1>7, <1>8, <1>9, <1>10, <1>11, <1>12
  DEF Next, WitnessStep, witness_activate

\* While every write succeeds, memory and file agree and acknowledgements are backed.
LEMMA AcksInvariant == ~SaveMayFail => (Spec => [](SavedIsCurrent /\ AcksOK))
<1> SUFFICES ASSUME ~SaveMayFail PROVE Spec => [](SavedIsCurrent /\ AcksOK)
  OBVIOUS
<1>1. Init => SavedIsCurrent /\ AcksOK
  BY DEF Init, SavedIsCurrent, AcksOK
<1>2. BaseInv /\ BaseInv' /\ SavedIsCurrent /\ AcksOK /\ [Next]_vars
        => (SavedIsCurrent /\ AcksOK)'
  <2> SUFFICES ASSUME BaseInv, BaseInv', SavedIsCurrent, AcksOK, [Next]_vars
               PROVE  (SavedIsCurrent /\ AcksOK)'
    OBVIOUS
  <2>1. SavedIsCurrent'
    <3>1. ASSUME NEW w \in Honest, WitnessStep(w)
          PROVE  UNCHANGED <<entry, saved>> \/ \E n : Save(w, n)
      BY <3>1 DEF WitnessStep, witness_activate, ActivateAgain, ActivateFirst, SaveFails,
                  witness_finalize, witness_cancel_rotation, witness_read, Restart,
                  SavedIsCurrent
    <3>2. ASSUME NEW w \in Honest, NEW n, Save(w, n) PROVE entry' = saved'
      BY <3>2 DEF Save, SavedIsCurrent
    <3>3. CASE \E r \in Reader : StartRead(r) \/ \E v \in Faulty : FaultyRead(v, r)
      BY <3>3 DEF StartRead, FaultyRead, SavedIsCurrent
    <3>4. CASE UNCHANGED vars
      BY <3>4 DEF vars, SavedIsCurrent
    <3> QED
      BY <3>1, <3>2, <3>3, <3>4 DEF Next, SavedIsCurrent
  <2>2. AcksOK'
    <3> SUFFICES ASSUME NEW w \in Honest, NEW c \in Successor, <<w, c>> \in activation_acks'
                 PROVE  \/ saved'[w].predecessor_locks[Pred[c]] = c
                        \/ saved'[w].rotation_cancellations[c] # None
      BY DEF AcksOK
    <3>1. CASE <<w, c>> \in activation_acks
      <4>1. CASE saved[w].rotation_cancellations[c] # None
        <5>1. Extends(saved'[w], saved[w])
          BY EntriesInvariant DEF BaseInv, TypeOK, EntryTypes
        <5> QED
          BY <4>1, <5>1 DEF Extends
      <4>2. CASE saved[w].predecessor_locks[Pred[c]] = c
        BY <4>2, LocksStay
      <4> QED
        BY <3>1, <4>1, <4>2 DEF AcksOK
    <3>2. CASE <<w, c>> \notin activation_acks
      <4>1. witness_activate(w, c)
        BY <3>2, ReplySteps
      <4>2. entry[w] \in Entry /\ EntryOK(entry[w]) /\ saved'[w] = entry'[w]
        BY <2>1 DEF BaseInv, TypeOK, EntriesOK, SavedIsCurrent
      <4>3. CASE ActivateAgain(w, c)
        <5>1. /\ entry'[w] = entry[w] /\ entry[w].pending_capsule = c /\ c # None
          BY <4>3, CapsuleAssumption DEF ActivateAgain, Capsule
        <5>2. /\ entry[w].predecessor_locks[entry[w].capsule] = c
              /\ Pred[c] = entry[w].capsule
          BY <4>2, <5>1 DEF EntryOK, Entry
        <5> QED
          BY <4>2, <5>1, <5>2
      <4>4. CASE ActivateFirst(w, c)
        <5>1. entry'[w] = Activated(entry[w], c)
          BY <4>4 DEF ActivateFirst, Save, SaveFails, BaseInv, TypeOK
        <5> QED
          BY <4>2, <4>4, <5>1, ActivatedEntry DEF ActivateFirst
      <4> QED
        BY <4>1, <4>3, <4>4 DEF witness_activate
    <3> QED
      BY <3>1, <3>2
  <2> QED
    BY <2>1, <2>2
<1> QED
  BY <1>1, <1>2, BaseInvariant, PTL DEF Spec

\* Siblings both obtain a QC only over a veto: the one-child lock, in a roster of
\* exactly 3f+1 whose witnesses do not lose writes.  (After a failed write
\* witness_activate repeats an acknowledgement that is in memory only.)
THEOREM ForksNeedVetoes == ExactRoster /\ ~SaveMayFail => (Spec => []ForkNeedsVeto)
<1> SUFFICES ASSUME ExactRoster, ~SaveMayFail PROVE Spec => []ForkNeedsVeto
  OBVIOUS
<1>1. AcksOK => ForkNeedsVeto
  <2> SUFFICES ASSUME AcksOK, NEW c \in Successor, NEW d \in Successor,
                      c # d, Pred[c] = Pred[d], HasQC(c), HasQC(d)
               PROVE  \E w \in Ackers(c) \cap Ackers(d) :
                         \/ saved[w].rotation_cancellations[c] # None
                         \/ saved[w].rotation_cancellations[d] # None
    BY DEF ForkNeedsVeto
  <2>1. Ackers(c) \in SUBSET Honest /\ Ackers(d) \in SUBSET Honest
    BY DEF Ackers
  <2>2. PICK w \in Honest : w \in Ackers(c) /\ w \in Ackers(d)
    BY <2>1, QuorumIntersection DEF HasQC
  <2> QED
    BY <2>2 DEF AcksOK, Ackers
<1> QED
  BY <1>1, AcksInvariant, PTL

=============================================================================
