--------------------------- MODULE RotationSigners ---------------------------
(***************************************************************************)
(* The signers of a protocol v3 configuration while guardian rotations are   *)
(* proposed, begun, released, activated, aborted and cancelled.              *)
(*                                                                           *)
(* A signer is one HTTP process: a handler takes the store's mutex, checks   *)
(* the request against its entry, records its vote, writes the state file    *)
(* and only then returns the signed vote.  A failed write leaves the change  *)
(* in memory and the old or the new contents in the file.                    *)
(*                                                                           *)
(* Data that is abstracted:                                                  *)
(*  - a plan stands for its transcript and hash; a rotation id has one       *)
(*    intent, and possibly several plans that conform to it;                 *)
(*  - votes that were returned are sets that only grow; a certificate exists *)
(*    once enough signers have returned their votes for it;                  *)
(*  - any plan may be proposed by anyone in any order: nothing is assumed of *)
(*    coordinators, several of which may run at the same time;               *)
(*  - the guardians (the Ready certificate) and the witnesses (read quorums, *)
(*    activation, vetoes) appear only as what a signer is shown of them.     *)
(***************************************************************************)
EXTENDS Integers, FiniteSets

CONSTANTS
  Signer,             \* the signers of the configuration
  Faulty,             \* those that may sign anything
  signer_threshold,   \* votes that make a certificate
  Genesis,            \* the capsule the signers are provisioned with
  Capsule,            \* successor capsules
  PlanOf,             \* PlanOf[c]: the plan that capsule c completes
  Plan,               \* rotation plans
  rotation_id,        \* rotation_id[p]
  predecessor,        \* predecessor[p]: the capsule that p replaces
  not_before_wall,    \* not_before_wall[p]: the end of p's delay
  preparation_deadline, \* preparation_deadline[p]
  expiry,             \* expiry[r]: the end of the context of rotation r
  SaveMayFail,        \* the signers that may fail to write their state file
  None

Rotation == {rotation_id[p] : p \in Plan}
AnyCapsule == Capsule \cup {Genesis}

ASSUME SignerAssumption ==
  /\ IsFiniteSet(Signer)
  /\ Faulty \subseteq Signer
  /\ signer_threshold \in 1..Cardinality(Signer)
  /\ SaveMayFail \subseteq Signer

ASSUME TimeAssumption ==
  /\ not_before_wall \in [Plan -> Nat]
  /\ preparation_deadline \in [Plan -> Nat]
  /\ expiry \in [Rotation -> Nat]

ASSUME PlanAssumption ==
  /\ Genesis \notin Capsule
  /\ None \notin Plan
  /\ None \notin Capsule
  /\ PlanOf \in [Capsule -> Plan]
  /\ predecessor \in [Plan -> AnyCapsule]
  \* plans of one rotation conform to one intent, so they share its predecessor
  /\ \A p, q \in Plan : rotation_id[p] = rotation_id[q] => predecessor[p] = predecessor[q]

VARIABLES
  now,             \* the wall clocks of the signers and witnesses
  entry,           \* entry[s]: the SignerRotationEntryV3 of s in memory
  saved,           \* saved[s]: the same entry in s's state file
  begin_sent,      \* <<s, p>>: s has returned a Begin vote for p
  release_sent,    \* <<s, p>>: a Release vote
  activate_sent,   \* <<s, c>>: an Activate vote
  abort_sent,      \* <<s, p>>: an Abort vote
  finalized_sent,  \* <<s, p>>: s has confirmed that the abort of p is final
  readable,        \* capsules of which a witness read quorum has been collected
  vetoed           \* plans of which 2f+1 witness vetoes have been collected

votes == <<begin_sent, release_sent, activate_sent, abort_sent, finalized_sent>>
witnesses == <<readable, vetoed>>
vars == <<now, entry, saved, votes, witnesses>>

Honest == Signer \ Faulty

Entry == [active_capsule : AnyCapsule,
          intents : SUBSET Rotation,          \* intents and intent_votes
          predecessor_plan_locks : [AnyCapsule -> Plan \cup {None}],
          begin_votes : [Rotation -> Plan \cup {None}],
          release_votes : SUBSET Rotation,
          activate_votes : [Rotation -> Capsule \cup {None}],
          cancelled_rotations : SUBSET Rotation]

NewEntry == [active_capsule |-> Genesis,
             intents |-> {},
             predecessor_plan_locks |-> [c \in AnyCapsule |-> None],
             begin_votes |-> [r \in Rotation |-> None],
             release_votes |-> {},
             activate_votes |-> [r \in Rotation |-> None],
             cancelled_rotations |-> {}]

-----------------------------------------------------------------------------
(* Certificates *)

\* The votes of the honest signers in S and of all faulty ones make a certificate.
Threshold(S) == Cardinality(S \cup Faulty) >= signer_threshold

Certified(sent, x) == Threshold({s \in Honest : <<s, x>> \in sent})

-----------------------------------------------------------------------------
(* The state file, and time *)

Save(s, e) == /\ entry' = [entry EXCEPT ![s] = e]
              /\ saved' = [saved EXCEPT ![s] = e]

SaveFails(s, e) == /\ s \in SaveMayFail
                   /\ entry' = [entry EXCEPT ![s] = e]
                   /\ saved' \in {saved, [saved EXCEPT ![s] = e]}

Restart(s) == /\ entry[s] # saved[s]
              /\ entry' = [entry EXCEPT ![s] = saved[s]]
              /\ UNCHANGED <<now, saved, votes, witnesses>>

\* Once every context has expired, time makes no more difference.
TimePasses == /\ \E r \in Rotation : now < expiry[r]
              /\ now' = now + 1
              /\ UNCHANGED <<entry, saved, votes, witnesses>>

-----------------------------------------------------------------------------
(* handle_signer_rotation_v3, by request *)

\* validate_rotation_plan_v3, with the check of the context's expiry.
validate_rotation_plan_v3(e, p) ==
  /\ now < expiry[rotation_id[p]]
  /\ predecessor[p] = e.active_capsule

\* The plan is before its preparation deadline.
InTime(p) == now < preparation_deadline[p]

\* The reads shown for an intent may have been collected at any earlier time.
Intent(s, r) ==
  LET active == CHOOSE c \in AnyCapsule :
                  \E p \in Plan : rotation_id[p] = r /\ predecessor[p] = c
      stored == [entry[s] EXCEPT !.intents = @ \cup {r}, !.active_capsule = active]
  IN /\ now < expiry[r]
     /\ active \in readable
     /\ Save(s, stored) \/ SaveFails(s, stored)
     /\ UNCHANGED <<now, votes, witnesses>>

\* Mutant: the predecessor lock is set without looking at it.
BeginOverLock(s, p) ==
  LET e == entry[s]
      r == rotation_id[p]
      stored == [e EXCEPT !.predecessor_plan_locks[predecessor[p]] = p,
                          !.begin_votes[r] = p]
  IN /\ r \notin e.cancelled_rotations
     /\ r \in e.intents
     /\ validate_rotation_plan_v3(e, p)
     /\ InTime(p)
     /\ e.begin_votes[r] \in {None, p}
     /\ Save(s, stored)
     /\ begin_sent' = begin_sent \cup {<<s, p>>}
     /\ UNCHANGED <<now, release_sent, activate_sent, abort_sent, finalized_sent,
                    witnesses>>

\* lock_plan followed by record_vote.
Begin(s, p) ==
  LET e == entry[s]
      r == rotation_id[p]
      stored == [e EXCEPT !.predecessor_plan_locks[predecessor[p]] = p,
                          !.begin_votes[r] = p]
  IN /\ r \notin e.cancelled_rotations
     /\ r \in e.intents
     /\ validate_rotation_plan_v3(e, p)
     /\ InTime(p)
     /\ e.predecessor_plan_locks[predecessor[p]] \in {None, p}
     /\ e.begin_votes[r] \in {None, p}
     /\ \/ Save(s, stored) /\ begin_sent' = begin_sent \cup {<<s, p>>}
        \/ SaveFails(s, stored) /\ UNCHANGED begin_sent
     /\ UNCHANGED <<now, release_sent, activate_sent, abort_sent, finalized_sent,
                    witnesses>>

Release(s, p) ==
  LET e == entry[s]
      r == rotation_id[p]
      stored == [e EXCEPT !.release_votes = @ \cup {r}]
  IN /\ r \notin e.cancelled_rotations
     /\ e.begin_votes[r] = p
     /\ validate_rotation_plan_v3(e, p)
     /\ not_before_wall[p] <= now
     /\ InTime(p)
     /\ Certified(begin_sent, p)
     /\ \/ Save(s, stored) /\ release_sent' = release_sent \cup {<<s, p>>}
        \/ SaveFails(s, stored) /\ UNCHANGED release_sent
     /\ UNCHANGED <<now, begin_sent, activate_sent, abort_sent, finalized_sent, witnesses>>

\* Ready takes guardian acknowledgements, given only for a Release certificate.
Activate(s, c) ==
  LET e == entry[s]
      p == PlanOf[c]
      r == rotation_id[p]
      stored == [e EXCEPT !.activate_votes[r] = c]
  IN /\ r \notin e.cancelled_rotations
     /\ e.begin_votes[r] = p
     /\ r \in e.release_votes
     /\ validate_rotation_plan_v3(e, p)
     /\ InTime(p)
     /\ Certified(release_sent, p)
     /\ e.activate_votes[r] \in {None, c}
     /\ \/ Save(s, stored) /\ activate_sent' = activate_sent \cup {<<s, c>>}
        \/ SaveFails(s, stored) /\ UNCHANGED activate_sent
     /\ UNCHANGED <<now, begin_sent, release_sent, abort_sent, finalized_sent, witnesses>>

\* Nothing is recorded of an Abort vote; the store is written all the same.
Abort(s, p) ==
  LET e == entry[s]
      r == rotation_id[p]
  IN /\ validate_rotation_plan_v3(e, p)
     /\ r \notin e.cancelled_rotations
     /\ e.begin_votes[r] = p
     /\ e.activate_votes[r] = None
     /\ \/ Save(s, e) /\ abort_sent' = abort_sent \cup {<<s, p>>}
        \/ SaveFails(s, e) /\ UNCHANGED abort_sent
     /\ UNCHANGED <<now, begin_sent, release_sent, activate_sent, finalized_sent, witnesses>>

\* Mutant: the tombstone is stored under the plan and not under the rotation id.
TombstoneOfPlan(e, p) ==
  [e EXCEPT !.cancelled_rotations = @ \cup {p},
            !.predecessor_plan_locks[predecessor[p]] = None]

\* Mutant: the lock is left behind.
TombstoneKeepsLock(e, p) == [e EXCEPT !.cancelled_rotations = @ \cup {rotation_id[p]}]

\* The tombstone of a rotation, and the release of its predecessor lock.
Tombstoned(e, p) ==
  [e EXCEPT !.cancelled_rotations = @ \cup {rotation_id[p]},
            !.predecessor_plan_locks[predecessor[p]] = None]

\* What both finalizations ask of the signer's own records: p is its begun plan,
\* and holds the lock.
HoldsLock(e, p) ==
  /\ validate_rotation_plan_v3(e, p)
  /\ e.begin_votes[rotation_id[p]] = p
  /\ e.predecessor_plan_locks[predecessor[p]] = p

\* Mutant: the signer's own Activate vote does not matter.
FinalizeAbortAfterActivate(s, p) ==
  LET stored == Tombstoned(entry[s], p)
  IN /\ Certified(abort_sent, p)
     /\ HoldsLock(entry[s], p)
     /\ Save(s, stored)
     /\ finalized_sent' = finalized_sent \cup {<<s, p>>}
     /\ UNCHANGED <<now, begin_sent, release_sent, activate_sent, abort_sent, witnesses>>

FinalizeAbort(s, p) ==
  LET e == entry[s]
      stored == Tombstoned(e, p)
  IN /\ Certified(abort_sent, p)
     /\ HoldsLock(e, p)
     /\ e.activate_votes[rotation_id[p]] = None
     /\ \/ Save(s, stored) /\ finalized_sent' = finalized_sent \cup {<<s, p>>}
        \/ SaveFails(s, stored) /\ UNCHANGED finalized_sent
     /\ UNCHANGED <<now, begin_sent, release_sent, activate_sent, abort_sent, witnesses>>

\* A repeated finalization changes nothing but writes the store.  (The code takes
\* it only for the cancellation that is the tombstone, and refuses it for an abort.)
FinalizeOwnerCancel(s, p) ==
  LET e == entry[s]
      r == rotation_id[p]
      again == r \in e.cancelled_rotations
      stored == IF again THEN e ELSE Tombstoned(e, p)
  IN /\ p \in vetoed
     /\ validate_rotation_plan_v3(e, p)
     /\ again \/ HoldsLock(e, p)
     /\ Save(s, stored) \/ SaveFails(s, stored)
     /\ UNCHANGED <<now, votes, witnesses>>

-----------------------------------------------------------------------------
(* The witnesses, as far as signers see them (module WitnessEpochs) *)

\* c becomes the active capsule: one child of each predecessor, unless the owner
\* has vetoed the other one.
WitnessesActivate(c) ==
  /\ Certified(activate_sent, c)
  /\ predecessor[PlanOf[c]] \in readable
  /\ \A d \in Capsule \cap readable :
       predecessor[PlanOf[d]] = predecessor[PlanOf[c]] => PlanOf[d] \in vetoed
  /\ readable' = readable \cup {c}
  /\ UNCHANGED <<now, entry, saved, votes, vetoed>>

WitnessesVeto(p) ==
  /\ p \notin vetoed
  /\ now < expiry[rotation_id[p]]
  /\ vetoed' = vetoed \cup {p}
  /\ UNCHANGED <<now, entry, saved, votes, readable>>

-----------------------------------------------------------------------------
Init ==
  /\ now = 0
  /\ entry = [s \in Honest |-> NewEntry]
  /\ saved = [s \in Honest |-> NewEntry]
  /\ begin_sent = {}
  /\ release_sent = {}
  /\ activate_sent = {}
  /\ abort_sent = {}
  /\ finalized_sent = {}
  /\ readable = {Genesis}
  /\ vetoed = {}

SignerStep(s) ==
  \/ \E r \in Rotation : Intent(s, r)
  \/ \E p \in Plan : \/ Begin(s, p)
                     \/ Release(s, p)
                     \/ Abort(s, p)
                     \/ FinalizeAbort(s, p)
                     \/ FinalizeOwnerCancel(s, p)
  \/ \E c \in Capsule : Activate(s, c)
  \/ Restart(s)

Next ==
  \/ \E s \in Honest : SignerStep(s)
  \/ TimePasses
  \/ \E c \in Capsule : WitnessesActivate(c)
  \/ \E p \in Plan : WitnessesVeto(p)

Spec == Init /\ [][Next]_vars

-----------------------------------------------------------------------------
(* Properties *)

TypeOK ==
  /\ now \in Nat
  /\ entry \in [Honest -> Entry]
  /\ saved \in [Honest -> Entry]
  /\ begin_sent \subseteq Honest \X Plan
  /\ release_sent \subseteq Honest \X Plan
  /\ activate_sent \subseteq Honest \X Capsule
  /\ abort_sent \subseteq Honest \X Plan
  /\ finalized_sent \subseteq Honest \X Plan
  /\ readable \subseteq AnyCapsule
  /\ vetoed \subseteq Plan

\* Once n-t+1 signers that keep their promise have made an abort final, no Activate
\* certificate exists for that plan, or ever will (FinalizeAbort refuses after an
\* Activate vote, Activate refuses after the tombstone; an Abort vote alone binds
\* nobody).
AbortIsFinal ==
  \A p \in Plan :
    Cardinality({s \in Honest : <<s, p>> \in finalized_sent})
        > Cardinality(Signer) - signer_threshold
    => \A c \in Capsule : PlanOf[c] = p => ~Certified(activate_sent, c)

\* Two capsules that replace the same predecessor both have an Activate certificate
\* only if some honest signer that voted for both holds the tombstone of one of
\* them: with thresholds that intersect, the predecessor lock and the one Activate
\* vote per rotation leave no other way.
SiblingNeedsTombstone ==
  \A c, d \in Capsule :
    /\ c # d
    /\ predecessor[PlanOf[c]] = predecessor[PlanOf[d]]
    /\ Certified(activate_sent, c)
    /\ Certified(activate_sent, d)
    => \E s \in Honest :
         /\ {<<s, c>>, <<s, d>>} \subseteq activate_sent
         /\ {rotation_id[PlanOf[c]], rotation_id[PlanOf[d]]}
              \cap saved[s].cancelled_rotations # {}

\* A predecessor is locked by exactly the plan that the signer has begun and not
\* tombstoned, in memory and in the file, whatever fails in between.  A begun plan
\* keeps its siblings out until its tombstone, and the tombstone leaves no lock
\* behind; while a lock's plan is neither expired nor superseded, FinalizeAbort (up
\* to an Activate vote) and FinalizeOwnerCancel find the records they ask for.  An
\* expired plan is another matter: see TimedOutPlanAborts.
LockFollowsPlan ==
  \A s \in Honest, c \in AnyCapsule, p \in Plan : \A e \in {entry[s], saved[s]} :
    e.predecessor_plan_locks[c] = p <=>
      /\ predecessor[p] = c
      /\ e.begin_votes[rotation_id[p]] = p
      /\ rotation_id[p] \notin e.cancelled_rotations

\* "Before activation, any [...] timeout, partition, cancellation or ambiguous
\* transcript causes ABORT.  The old epoch remains ACTIVE": a plan that locks the
\* signer's active epoch can be aborted, that is, the two finalizations that free
\* the epoch for another rotation accept it once they are shown a certificate.  The
\* code does not keep this: every request of an expired context is refused.
TimedOutPlanAborts ==
  \A s \in Honest :
    LET held == entry[s].predecessor_plan_locks[entry[s].active_capsule]
    IN held # None => HoldsLock(entry[s], held)

=============================================================================
