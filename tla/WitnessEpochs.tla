---------------------------- MODULE WitnessEpochs ----------------------------
(***************************************************************************)
(* The config witnesses of protocol v3 for one configuration: the replicated *)
(* register that says which guardian epoch is active.                        *)
(*                                                                           *)
(* A witness is one HTTP process.  Every handler runs under the mutex of the *)
(* process's store, changes the entry in memory, writes the whole store to   *)
(* its file, and only then replies; so a handler is one action.  The file    *)
(* write can fail (disk full, an fsync error): the handler then replies with *)
(* an error and the change stays in memory, while the file holds the old or  *)
(* the new contents (the rename may have happened).  A restart reloads the   *)
(* file.                                                                     *)
(*                                                                           *)
(* Data that is abstracted:                                                  *)
(*  - a capsule stands for its ConfigRef, body hash and the signer Activate  *)
(*    certificate it is submitted with; each successor capsule is the only   *)
(*    capsule of its rotation (a signer votes Activate once per rotation);   *)
(*  - replies are sets that only grow: whoever uses a reply may use it late  *)
(*    or never, which covers lost, delayed and duplicated replies;           *)
(*  - any certified successor may be submitted at any time by anyone, so     *)
(*    nothing is assumed of the coordinator;                                 *)
(*  - a faulty witness signs anything: it is a permanent member of every set *)
(*    of acknowledgements and serves any capsule that still validates.       *)
(***************************************************************************)
EXTENDS Integers, FiniteSets

CONSTANTS
  Witness,               \* the witnesses pinned by the Recovery Card
  Faulty,                \* those that may deviate arbitrarily
  witness_fault_bound,   \* f, the bound the card states
  Genesis,               \* the capsule every witness is provisioned with
  Successor,             \* the capsules with a signer Activate certificate
  Pred,                  \* Pred[c]: the capsule whose hash c names as its predecessor
  Epoch,                 \* Epoch[c]: guardian_epoch of capsule c
  CancelCert,            \* owner cancellation certificates, one per attempt to cancel
  Reader,                \* fresh clients, one read challenge (nonce) each
  SaveMayFail,           \* whether writing the state file may fail
  None

Capsule == Successor \cup {Genesis}

ASSUME WitnessAssumption ==
  /\ IsFiniteSet(Witness)
  /\ Faulty \subseteq Witness
  /\ witness_fault_bound \in Nat \ {0}
  /\ Cardinality(Faulty) <= witness_fault_bound
  /\ Cardinality(Witness) >= 3 * witness_fault_bound + 1
  /\ SaveMayFail \in BOOLEAN

ASSUME CapsuleAssumption ==
  /\ Genesis \notin Successor
  /\ None \notin Capsule
  /\ None \notin CancelCert
  /\ Pred \in [Successor -> Capsule]
  /\ Epoch \in [Capsule -> Nat \ {0}]
  /\ Epoch[Genesis] = 1

VARIABLES
  entry,            \* entry[w]: the WitnessConfigEntry of w in memory
  saved,            \* saved[w]: the same entry in w's state file
  activation_acks,  \* <<w, c>>: w has returned a signed activation ack for c
  cancel_acks,      \* <<w, c, k>>: w has returned a signed veto of c's rotation
  reader            \* reader[r]: what r knows, and what was true when it started

vars == <<entry, saved, activation_acks, cancel_acks, reader>>

Honest == Witness \ Faulty

Entry == [capsule : Capsule,                                   \* the active capsule
          pending_capsule : Successor \cup {None},             \* acked, not finalized
          predecessor_locks : [Capsule -> Successor \cup {None}],
          highest_capsule_hash : Capsule,
          rotation_cancellations : [Successor -> CancelCert \cup {None}],
          seen_read_nonces : SUBSET Reader]

ReaderState == [started : BOOLEAN,                  \* the challenge has been sent
                completed : SUBSET Successor,       \* activations complete by then
                vetoed : SUBSET Successor,          \* cancellations complete by then
                got : [Witness -> Capsule \cup {None}]]

NewEntry ==
  [capsule |-> Genesis,
   pending_capsule |-> None,
   predecessor_locks |-> [p \in Capsule |-> None],
   highest_capsule_hash |-> Genesis,
   rotation_cancellations |-> [c \in Successor |-> None],
   seen_read_nonces |-> {}]

-----------------------------------------------------------------------------
(* Quorums *)

\* Mutant: the quorum is one witness short.
QuorumOfTwoF == 2 * witness_fault_bound

required_witness_quorum == 2 * witness_fault_bound + 1

\* S are honest witnesses that vouch for something: with what the faulty ones
\* add, is it accepted as a quorum?
IsQuorum(S) == Cardinality(S \cup Faulty) >= required_witness_quorum

Ackers(c) == {w \in Honest : <<w, c>> \in activation_acks}

\* An EpochActivationQc for c can be assembled from the replies so far.
HasQC(c) == IsQuorum(Ackers(c))

\* The owner's cancellation attempt k of c's rotation has its 2f+1 vetoes.
Vetoers(c, k) == {w \in Honest : <<w, c, k>> \in cancel_acks}
VetoComplete(c) == \E k \in CancelCert : IsQuorum(Vetoers(c, k))

\* e stores c as activated: its lock is taken and c is not merely pending.
Finalized(e, c) == /\ e.predecessor_locks[Pred[c]] = c
                   /\ e.pending_capsule # c

\* c is finalized at a quorum: the coordinator's activation has completed.
WriteComplete(c) == IsQuorum({w \in Honest : Finalized(saved[w], c)})

\* Capsules that pass validate_activated_capsule_v3.
validate_activated_capsule_v3(c) ==
  \/ c = Genesis
  \/ /\ c \in Successor
     /\ Epoch[c] = Epoch[Pred[c]] + 1
     /\ HasQC(c)

-----------------------------------------------------------------------------
(* WitnessEpochStore *)

is_direct_successor_of(c, p) == Epoch[c] = Epoch[p] + 1

\* persist_successor_before_ack returns Ok.
CanPersistSuccessor(e, c) ==
  /\ is_direct_successor_of(c, e.capsule)
  /\ \/ e.predecessor_locks[e.capsule] = c
     \/ /\ e.predecessor_locks[e.capsule] = None
        /\ e.highest_capsule_hash = e.capsule

persist_successor_before_ack(e, c) ==
  [e EXCEPT !.predecessor_locks[e.capsule] = c,
            !.highest_capsule_hash =
                IF e.predecessor_locks[e.capsule] = c THEN @ ELSE c]

\* cancel_pending_successor returns Ok for the pending child of e's capsule.
CanCancelPending(e) ==
  /\ is_direct_successor_of(e.pending_capsule, e.capsule)
  /\ e.highest_capsule_hash = e.pending_capsule
  /\ e.predecessor_locks[e.capsule] = e.pending_capsule

\* Mutant: the rollback clears the stored highest capsule.
CancelForgetsHighest(e) ==
  [e EXCEPT !.predecessor_locks[e.capsule] = None, !.highest_capsule_hash = None]

cancel_pending_successor(e) ==
  [e EXCEPT !.predecessor_locks[e.capsule] = None,
            !.highest_capsule_hash = e.capsule]

-----------------------------------------------------------------------------
(* The state file *)

\* store.save() succeeds: e is in memory and in the file.
Save(w, e) == /\ entry' = [entry EXCEPT ![w] = e]
              /\ saved' = [saved EXCEPT ![w] = e]

\* store.save() fails: e stays in memory; the file is the old or the new one.
SaveFails(w, e) == /\ SaveMayFail
                   /\ entry' = [entry EXCEPT ![w] = e]
                   /\ saved' \in {saved, [saved EXCEPT ![w] = e]}

\* The process restarts, or crashes inside a handler, and reloads its file.
Restart(w) == /\ entry[w] # saved[w]
              /\ entry' = [entry EXCEPT ![w] = saved[w]]
              /\ UNCHANGED <<saved, activation_acks, cancel_acks, reader>>

-----------------------------------------------------------------------------
(* Handlers *)

\* A retry for the pending capsule is answered from the stored ack.
ActivateAgain(w, c) ==
  /\ entry[w].rotation_cancellations[c] = None
  /\ entry[w].pending_capsule = c
  /\ activation_acks' = activation_acks \cup {<<w, c>>}
  /\ UNCHANGED <<entry, saved, cancel_acks, reader>>

\* What the entry becomes: the lock and the pending capsule, with its ack.
Activated(e, c) == [persist_successor_before_ack(e, c) EXCEPT !.pending_capsule = c]

ActivateFirst(w, c) ==
  LET e == entry[w]
      stored == Activated(e, c)
  IN /\ e.rotation_cancellations[c] = None
     /\ e.pending_capsule = None
     /\ Pred[c] = e.capsule
     /\ CanPersistSuccessor(e, c)
     /\ \/ /\ Save(w, stored)
           /\ activation_acks' = activation_acks \cup {<<w, c>>}
        \/ /\ SaveFails(w, stored)
           /\ UNCHANGED activation_acks
     /\ UNCHANGED <<cancel_acks, reader>>

witness_activate(w, c) == ActivateAgain(w, c) \/ ActivateFirst(w, c)

\* The QC must carry this witness's own pending ack, so the ack was returned.
witness_finalize(w, c) ==
  LET activated == [entry[w] EXCEPT !.capsule = c, !.pending_capsule = None]
  IN /\ entry[w].pending_capsule = c
     /\ entry[w].rotation_cancellations[c] = None
     /\ <<w, c>> \in activation_acks
     /\ HasQC(c)
     /\ Save(w, activated) \/ SaveFails(w, activated)
     /\ UNCHANGED <<activation_acks, cancel_acks, reader>>

\* What the entry becomes: nothing new for a repeated certificate, else a
\* tombstone, with the rollback of the pending child if there is one.
Cancelled(e, c, k) ==
  LET unlocked == IF e.pending_capsule = c
                  THEN [cancel_pending_successor(e) EXCEPT !.pending_capsule = None]
                  ELSE e
  IN [unlocked EXCEPT !.rotation_cancellations[c] = k]

\* Mutant: the active predecessor is not compared.
CancelAnyPredecessor(w, c, k) ==
  LET cancelled == Cancelled(entry[w], c, k)
  IN /\ entry[w].rotation_cancellations[c] \in {None, k}
     /\ entry[w].pending_capsule \in {None, c}
     /\ Save(w, cancelled)
     /\ cancel_acks' = cancel_acks \cup {<<w, c, k>>}
     /\ UNCHANGED <<activation_acks, reader>>

\* Mutant: a repeated certificate is answered from memory without saving.
CancelAnswersFromMemory(w, c, k) ==
  LET e == entry[w]
      known == e.rotation_cancellations[c] = k
      cancelled == IF known THEN e ELSE Cancelled(e, c, k)
  IN /\ Pred[c] = e.capsule
     /\ e.rotation_cancellations[c] \in {None, k}
     /\ e.rotation_cancellations[c] = None => e.pending_capsule \in {None, c}
     /\ \/ /\ IF known THEN UNCHANGED <<entry, saved>> ELSE Save(w, cancelled)
           /\ cancel_acks' = cancel_acks \cup {<<w, c, k>>}
        \/ /\ SaveFails(w, cancelled)
           /\ UNCHANGED cancel_acks
     /\ UNCHANGED <<activation_acks, reader>>

witness_cancel_rotation(w, c, k) ==
  LET e == entry[w]
      cancelled == IF e.rotation_cancellations[c] = k THEN e ELSE Cancelled(e, c, k)
  IN /\ Pred[c] = e.capsule
     /\ e.rotation_cancellations[c] \in {None, k}
     /\ e.rotation_cancellations[c] = None =>
           /\ e.pending_capsule \in {None, c}
           /\ e.pending_capsule = c => CanCancelPending(e)
     /\ \/ /\ Save(w, cancelled)
           /\ cancel_acks' = cancel_acks \cup {<<w, c, k>>}
        \/ /\ SaveFails(w, cancelled)
           /\ UNCHANGED cancel_acks
     /\ UNCHANGED <<activation_acks, reader>>

\* Mutant: the challenge is noted in memory only.
ReadWithoutSaving(w, r) ==
  /\ reader[r].started
  /\ r \notin entry[w].seen_read_nonces
  /\ entry' = [entry EXCEPT ![w].seen_read_nonces = @ \cup {r}]
  /\ reader' = [reader EXCEPT ![r].got[w] = entry[w].capsule]
  /\ UNCHANGED <<saved, activation_acks, cancel_acks>>

\* The nonce is consumed and saved before the signed reply leaves.
witness_read(w, r) ==
  LET noted == [entry[w] EXCEPT !.seen_read_nonces = @ \cup {r}]
  IN /\ reader[r].started
     /\ r \notin entry[w].seen_read_nonces
     /\ \/ /\ Save(w, noted)
           /\ reader' = [reader EXCEPT ![r].got[w] = entry[w].capsule]
        \/ /\ SaveFails(w, noted)
           /\ UNCHANGED reader
     /\ UNCHANGED <<activation_acks, cancel_acks>>

-----------------------------------------------------------------------------
(* Fresh clients *)

\* r sends its challenge.  "completed" and "vetoed" record, for the
\* properties, which writes and which cancellations had completed by then.
StartRead(r) ==
  /\ ~reader[r].started
  /\ reader' = [reader EXCEPT ![r] =
                   [started |-> TRUE,
                    completed |-> {c \in Successor : WriteComplete(c)},
                    vetoed |-> {c \in Successor : VetoComplete(c)},
                    got |-> @.got]]
  /\ UNCHANGED <<entry, saved, activation_acks, cancel_acks>>

\* A faulty witness answers with some capsule that validates.
FaultyRead(w, r) ==
  /\ reader[r].started
  /\ reader[r].got[w] = None
  /\ \E c \in Capsule :
       /\ validate_activated_capsule_v3(c)
       /\ reader' = [reader EXCEPT ![r].got[w] = c]
  /\ UNCHANGED <<entry, saved, activation_acks, cancel_acks>>

\* Mutant: f+1 answers are enough to select an epoch.
SelectFromFPlusOne(r) ==
  LET got == reader[r].got
      answered == {w \in Witness : got[w] # None}
      enough(S) == Cardinality(S) > witness_fault_bound
  IN {c \in {got[w] : w \in answered} :
        /\ enough({w \in answered : got[w] = c})
        /\ \A w \in answered : Epoch[got[w]] <= Epoch[c]}

\* The capsules r selects from the answers it has: at most one, and none when
\* there is no quorum or the highest epoch is ambiguous.
select_latest_epoch_v3(r) ==
  LET got == reader[r].got
      answered == {w \in Witness : got[w] # None}
      highest == {c \in {got[w] : w \in answered} :
                    \A w \in answered : Epoch[got[w]] <= Epoch[c]}
      agreement(c) == {w \in answered : got[w] = c}
  IN {c \in highest :
        /\ Cardinality(answered) >= required_witness_quorum
        /\ highest = {c}
        /\ Epoch[c] = 1 => Cardinality(agreement(c)) >= required_witness_quorum}

-----------------------------------------------------------------------------
Init ==
  /\ entry = [w \in Honest |-> NewEntry]
  /\ saved = [w \in Honest |-> NewEntry]
  /\ activation_acks = {}
  /\ cancel_acks = {}
  /\ reader = [r \in Reader |-> [started |-> FALSE, completed |-> {}, vetoed |-> {},
                                 got |-> [w \in Witness |-> None]]]

WitnessStep(w) ==
  \/ \E c \in Successor :
       \/ witness_activate(w, c)
       \/ witness_finalize(w, c)
       \/ \E k \in CancelCert : witness_cancel_rotation(w, c, k)
  \/ \E r \in Reader : witness_read(w, r)
  \/ Restart(w)

Next ==
  \/ \E w \in Honest : WitnessStep(w)
  \/ \E r \in Reader : StartRead(r) \/ \E w \in Faulty : FaultyRead(w, r)

Spec == Init /\ [][Next]_vars

-----------------------------------------------------------------------------
(* Properties *)

TypeOK ==
  /\ entry \in [Honest -> Entry]
  /\ saved \in [Honest -> Entry]
  /\ activation_acks \subseteq Honest \X Successor
  /\ cancel_acks \subseteq Honest \X Successor \X CancelCert
  /\ reader \in [Reader -> ReaderState]

\* Two different children of one predecessor both obtain an activation QC only
\* if an honest witness that acknowledged both has vetoed one of them for the
\* owner in between (witness_activate's one-child lock; the lock is only
\* released by witness_cancel_rotation).
ForkNeedsVeto ==
  \A c, d \in Successor :
    /\ c # d
    /\ Pred[c] = Pred[d]
    /\ HasQC(c)
    /\ HasQC(d)
    => \E w \in Ackers(c) \cap Ackers(d) :
         \/ saved[w].rotation_cancellations[c] # None
         \/ saved[w].rotation_cancellations[d] # None

\* An activation that completed (2f+1 finalized) and an owner cancellation that
\* completed (2f+1 vetoes) of the same rotation exclude each other: a witness
\* that vetoed refuses to finalize, and one that finalized refuses to veto.
WriteExcludesVeto == \A c \in Successor : ~(WriteComplete(c) /\ VetoComplete(c))

\* A fresh client that reaches a read quorum after an activation completed never
\* selects an older epoch (select_latest_epoch_v3 and the quorum intersection).
ReadsAreFresh ==
  \A r \in Reader : \A c \in select_latest_epoch_v3(r) :
    \A d \in reader[r].completed : Epoch[c] >= Epoch[d]

\* What a witness has told a client is in its file: no restart makes it serve
\* an older epoch to the next one (witness_read saves before it replies, even
\* when an earlier finalize could not be saved).
ServedEpochIsDurable ==
  \A r \in Reader, w \in Honest :
    reader[r].got[w] # None => Epoch[saved[w].capsule] >= Epoch[reader[r].got[w]]

\* "Tombstone and any pending-child rollback are durable before the signed
\* acknowledgement leaves this witness": an acknowledged veto is in the file,
\* and the vetoed capsule is neither pending nor active there.
VetoIsDurable ==
  \A w \in Honest, c \in Successor, k \in CancelCert :
    <<w, c, k>> \in cancel_acks =>
      /\ saved[w].rotation_cancellations[c] = k
      /\ saved[w].predecessor_locks[Pred[c]] # c

\* "A 2f+1 witness cancellation quorum prevents an already-collected Activate
\* certificate from winning a race to QC finalization": a client that starts
\* after the vetoes are complete does not discover the cancelled epoch.
VetoedIsNeverSelected ==
  \A r \in Reader : select_latest_epoch_v3(r) \cap reader[r].vetoed = {}

=============================================================================
